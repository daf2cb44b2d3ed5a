--------------------------- MODULE ScheduleProofs ---------------------------
(***************************************************************************)
(* Proofs about the schedules: the walk over a list of slots (SlotList),   *)
(* the daily schedule (HomeLoadSchedule), and the weekday plans with the   *)
(* backup charge (RatePlans).  The walk is proved for slots of any content *)
(* (a set S, and the contents Q that a call asks for).                     *)
(***************************************************************************)
EXTENDS HomeLoadSchedule, RatePlans, SequenceTheorems, FiniteSetTheorems,
        WellFoundedInduction, TLAPS

Places == 0..Midnight

\* Slots of a kind: their borders may be moved.
Movable(S) ==
  \A s \in S : /\ {"start", "end"} \subseteq DOMAIN s
               /\ s.start \in Places /\ s.end \in Places
               /\ \A a \in Places : /\ [s EXCEPT !.start = a] \in S
                                    /\ [s EXCEPT !.end = a] \in S

Filled(s) == Clock(s.start) < Clock(s.end)

\* A list in order, and where it ends.
Chain(list, last) ==
  /\ InOrder(list)
  /\ \A i \in 1..Len(list) : Clock(list[i].end) <= last
  /\ last = IF list = <<>> THEN 0 ELSE Clock(list[Len(list)].end)

WalkFields == {"out", "last", "next", "split", "pending", "current"}

\* The walk has a list in order.
Walking(w, S) ==
  /\ WalkFields \subseteq DOMAIN w
  /\ w.out \in Seq(S) /\ Chain(w.out, w.last)

\* Nothing but the list, its end and the split slot differ.
Alike(w, u) ==
  /\ DOMAIN u = DOMAIN w
  /\ \A f \in DOMAIN w \ {"out", "last", "split"} : u[f] = w[f]

\* Induction over the numbers of a set.
LEMMA NatSet ==
  ASSUME NEW S \in SUBSET Nat, 0 \in S, \A n \in S : n + 1 \in S
  PROVE  S = Nat
<1> SUFFICES ASSUME Nat \ S # {} PROVE FALSE
  OBVIOUS
<1>1. PICK x \in Nat \ S : \A y \in Nat \ S : ~(<<y, x>> \in OpToRel(<,Nat))
  <2>1. Nat \ S \subseteq Nat OBVIOUS
  <2> QED BY <2>1, WFMin, NatLessThanWellFounded
<1>2. x # 0 /\ x - 1 \in Nat
  OBVIOUS
<1>3. CASE x - 1 \in S
  <2>1. (x - 1) + 1 \in S BY <1>3
  <2> QED BY <2>1
<1>4. CASE x - 1 \notin S
  <2>1. <<x - 1, x>> \in OpToRel(<,Nat)
    BY <1>2 DEF OpToRel
  <2> QED BY <2>1, <1>1, <1>2, <1>4
<1> QED BY <1>3, <1>4

LEMMA ClockIs ==
  ASSUME NEW a \in Places
  PROVE  /\ Clock(a) \in 0..LastMinute
         /\ a < LastMinute => Clock(a) = a
         /\ a < Midnight => Clock(a) = a
         /\ Clock(a) < LastMinute => Clock(a) = a
  BY MidnightAssumption DEF Clock, Places, LastMinute

LEMMA TextIs ==
  ASSUME NEW a \in 0..LastMinute
  PROVE  /\ Text(a) \in Places /\ Clock(Text(a)) = a
         /\ a \in Places /\ Clock(a) = a
  BY MidnightAssumption DEF Clock, Text, Places, LastMinute

\* A slot moved.
LEMMA Moved ==
  ASSUME NEW S, Movable(S), NEW s \in S, NEW a \in Places
  PROVE  /\ [s EXCEPT !.start = a] \in S /\ [s EXCEPT !.end = a] \in S
         /\ [s EXCEPT !.start = a].start = a /\ [s EXCEPT !.start = a].end = s.end
         /\ [s EXCEPT !.end = a].end = a /\ [s EXCEPT !.end = a].start = s.start
         /\ s.start \in Places /\ s.end \in Places
  BY DEF Movable

\* The same, by name.
StartsAt(x, S, s, a) == x \in S /\ x.start = a /\ x.end = s.end
EndsAt(x, S, s, a) == x \in S /\ x.end = a /\ x.start = s.start

LEMMA Later ==
  ASSUME NEW S, Movable(S), NEW s \in S, NEW a \in Places,
         NEW x, x = [s EXCEPT !.start = a]
  PROVE  StartsAt(x, S, s, a)
<1>1. x.start = a /\ x.end = s.end
  BY Moved
<1>2. [s EXCEPT !.start = a] \in S
  BY DEF Movable
<1>3. x \in S
  BY <1>2, Zenon
<1> QED BY <1>1, <1>3 DEF StartsAt

LEMMA Shorter ==
  ASSUME NEW S, Movable(S), NEW s \in S, NEW a \in Places,
         NEW x, x = [s EXCEPT !.end = a]
  PROVE  EndsAt(x, S, s, a)
<1>1. x.end = a /\ x.start = s.start
  BY Moved
<1>2. [s EXCEPT !.end = a] \in S
  BY DEF Movable
<1>3. x \in S
  BY <1>2, Zenon
<1> QED BY <1>1, <1>3 DEF EndsAt

LEMMA Extended ==
  ASSUME NEW S, Movable(S), NEW list \in Seq(S), NEW last, Chain(list, last),
         NEW s \in S, Filled(s), last <= Clock(s.start)
  PROVE  /\ Append(list, s) \in Seq(S) /\ Append(list, s) # <<>>
         /\ Chain(Append(list, s), Clock(s.end))
         /\ Append(list, s)[Len(Append(list, s))] = s
<1> DEFINE more == Append(list, s)
<1>1. /\ more \in Seq(S) /\ Len(more) = Len(list) + 1 /\ Len(list) \in Nat
      /\ more[Len(list) + 1] = s
      /\ \A i \in 1..Len(list) : more[i] = list[i]
      /\ more # <<>>
  BY AppendProperties, LenProperties
<1>2. /\ \A i \in 1..Len(list) : Clock(list[i].start) < Clock(list[i].end)
      /\ \A i \in 2..Len(list) : Clock(list[i - 1].end) <= Clock(list[i].start)
  BY DEF Chain, InOrder
<1>3. ASSUME NEW i \in 1..Len(more) PROVE Clock(more[i].start) < Clock(more[i].end)
  <2>1. CASE i = Len(list) + 1 BY <2>1, <1>1 DEF Filled
  <2>2. CASE i # Len(list) + 1
    <3>1. i \in 1..Len(list) BY <2>2, <1>1
    <3> QED BY <3>1, <1>1, <1>2
  <2> QED BY <2>1, <2>2
<1>4. ASSUME NEW i \in 2..Len(more) PROVE Clock(more[i - 1].end) <= Clock(more[i].start)
  <2>1. CASE i = Len(list) + 1
    <3>1. /\ i - 1 = Len(list) /\ Len(list) \in 1..Len(list) BY <2>1, <1>1
    <3>2. list # <<>> BY <3>1, EmptySeq
    <3>3. last = Clock(list[Len(list)].end) BY <3>2 DEF Chain
    <3>4. more[i] = s /\ more[i - 1] = list[Len(list)] BY <2>1, <1>1, <3>1
    <3> QED BY <3>3, <3>4
  <2>2. CASE i # Len(list) + 1
    <3>1. i \in 2..Len(list) /\ i \in 1..Len(list) /\ i - 1 \in 1..Len(list) BY <2>2, <1>1
    <3>2. more[i] = list[i] /\ more[i - 1] = list[i - 1] BY <3>1, <1>1
    <3> QED BY <3>1, <3>2, <1>2
  <2> QED BY <2>1, <2>2
<1>5. InOrder(more)
  BY <1>3, <1>4 DEF InOrder
<1>6. ASSUME NEW i \in 1..Len(more) PROVE Clock(more[i].end) <= Clock(s.end)
  <2>1. CASE i = Len(list) + 1
    <3>1. Clock(s.end) \in 0..LastMinute BY ClockIs DEF Movable
    <3> QED BY <2>1, <3>1, <1>1 DEF LastMinute
  <2>2. CASE i # Len(list) + 1
    <3>1. i \in 1..Len(list) /\ Len(list) \in 1..Len(list) BY <2>2, <1>1
    <3>2. more[i] = list[i] /\ list[i] \in S /\ list[Len(list)] \in S /\ list # <<>>
      BY <3>1, <1>1, ElementOfSeq, EmptySeq
    <3>3. /\ Clock(list[i].end) <= last /\ last = Clock(list[Len(list)].end)
      BY <3>1, <3>2 DEF Chain
    <3>4. /\ Clock(list[i].end) \in 0..LastMinute /\ last \in 0..LastMinute
          /\ Clock(s.start) \in 0..LastMinute /\ Clock(s.end) \in 0..LastMinute
      BY <3>2, <3>3, ClockIs DEF Movable
    <3> QED BY <3>2, <3>3, <3>4, MidnightAssumption DEF Filled, LastMinute
  <2> QED BY <2>1, <2>2
<1>7. Chain(more, Clock(s.end))
  BY <1>5, <1>6, <1>1 DEF Chain
<1> QED BY <1>1, <1>7


(***************************************************************************)
(* The end of a turn.                                                      *)
(***************************************************************************)
Kept(w, slot) ==
  IF w.last <= Clock(slot.start) THEN Append(w.out, slot) ELSE w.out

\* The slot is taken over, or not.
Taken(w, u, slot) ==
  u.out = Append(w.out, slot) /\ u.last = Clock(slot.end) /\ u.split = w.split
PassedOver(w, u) == u.out = w.out /\ u.last = w.last /\ u.split = w.split

\* In general: list is what it leaves.
Leaves(w, u, S, list, last, after) ==
  /\ u.out = list /\ u.last = last /\ Walking(u, S) /\ Alike(w, u)
  /\ u.split = IF after = <<>> THEN w.split ELSE <<>>

LEMMA TakeIs ==
  ASSUME NEW S, NEW w, WalkFields \subseteq DOMAIN w, NEW slot, NEW after,
         NEW list \in Seq(S), list # <<>>, NEW last, Chain(list, last),
         list = Kept(w, slot) \o after,
         NEW u, u = Take(w, slot, after)
  PROVE  Leaves(w, u, S, list, last, after)
<1> DEFINE split == IF after = <<>> THEN w.split ELSE <<>>
           done == [w EXCEPT !.out = list, !.split = split]
<1>6. u = [done EXCEPT !.last = EndOf(done)]
  BY DEF Take, Kept
<1>7. /\ done.out = list /\ DOMAIN done = DOMAIN w /\ done.split = split
      /\ \A f \in DOMAIN w \ {"out", "split"} : done[f] = w[f]
  BY DEF WalkFields
<1>8. EndOf(done) = last
  <2>1. last = Clock(list[Len(list)].end)
    BY DEF Chain
  <2>2. done.out = list
    BY <1>7
  <2> HIDE DEF done
  <2> QED BY <2>1, <2>2 DEF EndOf
<1>9. /\ u.out = list /\ DOMAIN u = DOMAIN w /\ u.split = split /\ u.last = last
      /\ \A f \in DOMAIN w \ {"out", "split", "last"} : u[f] = w[f]
  <2> HIDE DEF done
  <2> QED BY <1>6, <1>7, <1>8 DEF WalkFields
<1>10. Walking(u, S)
  BY <1>9 DEF Walking
<1> QED BY <1>9, <1>10 DEF Alike, Leaves

\* The slot is taken over.
LEMMA TakeKept ==
  ASSUME NEW S, Movable(S), NEW w, WalkFields \subseteq DOMAIN w,
         w.out \in Seq(S), NEW last, Chain(w.out, last), NEW slot \in S, Filled(slot),
         w.last <= Clock(slot.start), last <= Clock(slot.start),
         NEW u, u = Take(w, slot, <<>>)
  PROVE  Taken(w, u, slot) /\ Walking(u, S) /\ Alike(w, u)
<1> DEFINE list == Append(w.out, slot)
<1>1. /\ list \in Seq(S) /\ list # <<>> /\ Chain(list, Clock(slot.end))
  BY Extended
<1>2. list \o <<>> = list
  BY <1>1, ConcatEmptySeq
<1> HIDE DEF list
<1>3. list = Kept(w, slot) \o <<>>
  BY <1>2 DEF list, Kept
<1>4. /\ u.out = list /\ u.last = Clock(slot.end) /\ Walking(u, S) /\ Alike(w, u)
      /\ u.split = w.split
  <2>1. Leaves(w, u, S, list, Clock(slot.end), <<>>)
    BY <1>1, <1>3, TakeIs
  <2> QED BY <2>1 DEF Leaves
<1> QED BY <1>4 DEF list, Taken

\* An earlier slot reaches into it.
LEMMA TakeDropped ==
  ASSUME NEW S, NEW w, Walking(w, S), NEW slot, ~(w.last <= Clock(slot.start)),
         w.out # <<>>, NEW u, u = Take(w, slot, <<>>)
  PROVE  PassedOver(w, u) /\ Walking(u, S) /\ Alike(w, u)
<1>1. w.out \o <<>> = w.out
  BY ConcatEmptySeq DEF Walking
<1>2. w.out = Kept(w, slot) \o <<>>
  BY <1>1 DEF Kept
<1>3. /\ WalkFields \subseteq DOMAIN w /\ w.out \in Seq(S) /\ Chain(w.out, w.last)
  BY DEF Walking
<1>4. /\ u.out = w.out /\ u.last = w.last /\ Walking(u, S) /\ Alike(w, u)
      /\ u.split = w.split
  <2>1. w.out # <<>>
    OBVIOUS
  <2>2. Leaves(w, u, S, w.out, w.last, <<>>)
    BY <1>2, <1>3, <2>1, TakeIs
  <2> QED BY <2>2 DEF Leaves
<1> QED BY <1>4 DEF PassedOver

(***************************************************************************)
(* What a list says at a time, whatever the borders of the slot.           *)
(***************************************************************************)
Content(s) == [s EXCEPT !.start = 0, !.end = 0]
Contents(list, t) == {Content(s) : s \in At(list, t)}
One(s, t) == IF Covers(s, t) THEN {Content(s)} ELSE {}

\* What the first slots of a list say.
Before(slots, i, t) == {Content(slots[j]) : j \in {k \in 1..i : Covers(slots[k], t)}}
Reach(slots, i) == IF i = 0 THEN 0 ELSE Clock(slots[i].end)

LEMMA ContentMoved ==
  ASSUME NEW S, Movable(S), NEW s \in S, NEW a \in Places
  PROVE  /\ Content([s EXCEPT !.start = a]) = Content(s)
         /\ Content([s EXCEPT !.end = a]) = Content(s)
  BY DEF Content, Movable

LEMMA ContentsAppended ==
  ASSUME NEW S, NEW list \in Seq(S), NEW s \in S, NEW t
  PROVE  Contents(Append(list, s), t) = Contents(list, t) \cup One(s, t)
<1> DEFINE more == Append(list, s)
<1>1. /\ Len(more) = Len(list) + 1 /\ Len(list) \in Nat
      /\ more[Len(list) + 1] = s
      /\ \A i \in 1..Len(list) : more[i] = list[i]
  BY AppendProperties, LenProperties
<1> HIDE DEF more
<1>2. 1..Len(more) = 1..Len(list) \cup {Len(list) + 1}
  BY <1>1
<1>3. At(more, t) = At(list, t) \cup (IF Covers(s, t) THEN {s} ELSE {})
  BY <1>1, <1>2 DEF At
<1>4. Contents(more, t) = Contents(list, t) \cup One(s, t)
  BY <1>3 DEF Contents, One
<1> QED BY <1>4 DEF more

LEMMA BeforeNext ==
  ASSUME NEW slots, NEW i \in Nat, NEW t
  PROVE  Before(slots, i + 1, t) = Before(slots, i, t) \cup One(slots[i + 1], t)
<1>1. 1..(i + 1) = 1..i \cup {i + 1}
  OBVIOUS
<1> QED BY <1>1 DEF Before, One

LEMMA BeforeAll ==
  ASSUME NEW slots, NEW t
  PROVE  Before(slots, Len(slots), t) = Contents(slots, t)
  BY DEF Before, Contents, At

\* Nothing is said after the end of a list, or for no slot.
LEMMA ContentsLate ==
  ASSUME NEW S, Movable(S), NEW list \in Seq(S), NEW last \in Int, Chain(list, last),
         NEW t \in Int, last <= t
  PROVE  Contents(list, t) = {}
<1> SUFFICES ASSUME NEW i \in 1..Len(list), Covers(list[i], t) PROVE FALSE
  BY DEF Contents, At
<1>1. list[i] \in S
  BY ElementOfSeq
<1>2. Clock(list[i].end) \in 0..LastMinute /\ Clock(list[i].end) <= last
  BY <1>1, ClockIs DEF Movable, Chain
<1> QED BY <1>2 DEF Covers, LastMinute

LEMMA NothingBefore == ASSUME NEW slots, NEW t PROVE Before(slots, 0, t) = {}
  BY DEF Before

(***************************************************************************)
(* The slots of a day that a walk goes over.                               *)
(***************************************************************************)
Day(slots, S) == slots \in Seq(S) /\ Movable(S) /\ InOrder(slots)

LEMMA NextSlot ==
  ASSUME NEW S, NEW slots, Day(slots, S), NEW i \in Nat, i + 1 <= Len(slots)
  PROVE  /\ slots[i + 1] \in S /\ Filled(slots[i + 1]) /\ Len(slots) \in Nat
         /\ Reach(slots, i) \in 0..LastMinute
         /\ Reach(slots, i) <= Clock(slots[i + 1].start)
         /\ Reach(slots, i + 1) = Clock(slots[i + 1].end)
         /\ Clock(slots[i + 1].start) \in 0..LastMinute
         /\ Clock(slots[i + 1].end) \in 0..LastMinute
         /\ slots[i + 1].start \in Places /\ slots[i + 1].end \in Places
<1>1. Len(slots) \in Nat /\ i + 1 \in 1..Len(slots)
  BY LenProperties DEF Day
<1>2. slots[i + 1] \in S
  BY <1>1, ElementOfSeq DEF Day
<1>3. Filled(slots[i + 1])
  BY <1>1 DEF Day, InOrder, Filled
<1>4. /\ slots[i + 1].start \in Places /\ slots[i + 1].end \in Places
  BY <1>2 DEF Day, Movable
<1>5. /\ Clock(slots[i + 1].start) \in 0..LastMinute
      /\ Clock(slots[i + 1].end) \in 0..LastMinute
  BY <1>4, ClockIs
<1>6. Reach(slots, i + 1) = Clock(slots[i + 1].end)
  BY DEF Reach
<1>7. Reach(slots, i) \in 0..LastMinute /\ Reach(slots, i) <= Clock(slots[i + 1].start)
  <2>1. CASE i = 0
    BY <2>1, <1>5, MidnightAssumption DEF Reach, LastMinute
  <2>2. CASE i # 0
    <3>1. i \in 1..Len(slots) /\ i + 1 \in 2..Len(slots) /\ (i + 1) - 1 = i
      BY <2>2, <1>1
    <3>2. slots[i] \in S
      BY <3>1, ElementOfSeq DEF Day
    <3>3. Clock(slots[i].end) \in 0..LastMinute
      BY <3>2, ClockIs DEF Day, Movable
    <3>4. Clock(slots[i].end) <= Clock(slots[i + 1].start)
      BY <3>1 DEF Day, InOrder
    <3> QED BY <2>2, <3>3, <3>4 DEF Reach
  <2> QED BY <2>1, <2>2
<1> QED BY <1>1, <1>2, <1>3, <1>4, <1>5, <1>6, <1>7

\* A slot up to the end of the day is the last one.
LEMMA LastSlot ==
  ASSUME NEW S, NEW slots, Day(slots, S), NEW i \in Nat, i + 1 <= Len(slots),
         ~(Clock(slots[i + 1].end) < LastMinute)
  PROVE  i + 1 = Len(slots)
<1> SUFFICES ASSUME i + 1 < Len(slots) PROVE FALSE
  BY NextSlot
<1>1. Len(slots) \in Nat
  BY NextSlot
<1>2. (i + 1) + 1 <= Len(slots) /\ i + 1 \in Nat
  BY <1>1
<1> DEFINE j == i + 1
<1> HIDE DEF j
<1>3. /\ Reach(slots, j) <= Clock(slots[j + 1].start) /\ Filled(slots[j + 1])
      /\ Clock(slots[j + 1].start) \in 0..LastMinute
      /\ Clock(slots[j + 1].end) \in 0..LastMinute
  BY <1>2, NextSlot DEF j
<1>4. Reach(slots, j) = Clock(slots[j].end) /\ Reach(slots, j) \in 0..LastMinute
  BY NextSlot DEF j
<1>5. ~(Clock(slots[j].end) < LastMinute)
  BY DEF j
<1> QED BY <1>3, <1>4, <1>5, MidnightAssumption DEF Filled, LastMinute

\* Nothing is said after the end of the slots passed.
LEMMA BeforeLate ==
  ASSUME NEW S, NEW slots, Day(slots, S), NEW t \in Int
  PROVE  \A i \in Nat : i <= Len(slots) /\ Reach(slots, i) <= t => Before(slots, i, t) = {}
<1> DEFINE P(i) == i <= Len(slots) /\ Reach(slots, i) <= t => Before(slots, i, t) = {}
           N == {i \in Nat : P(i)}
<1>1. 0 \in N
  BY NothingBefore
<1>2. ASSUME NEW i \in N PROVE i + 1 \in N
  <2>1. i \in Nat /\ P(i)
    OBVIOUS
  <2>2. ASSUME i + 1 <= Len(slots), Reach(slots, i + 1) <= t
        PROVE  Before(slots, i + 1, t) = {}
    <3>1. /\ Reach(slots, i) \in 0..LastMinute
          /\ Reach(slots, i) <= Clock(slots[i + 1].start)
          /\ Reach(slots, i + 1) = Clock(slots[i + 1].end)
          /\ Clock(slots[i + 1].start) \in 0..LastMinute
          /\ Clock(slots[i + 1].end) \in 0..LastMinute
          /\ Filled(slots[i + 1]) /\ Len(slots) \in Nat
      BY <2>1, <2>2, NextSlot
    <3>2. Reach(slots, i) <= t /\ i <= Len(slots) /\ ~(t < Clock(slots[i + 1].end))
      BY <3>1, <2>1, <2>2, MidnightAssumption DEF Filled, LastMinute
    <3>3. Before(slots, i, t) = {}
      BY <3>2, <2>1
    <3>4. One(slots[i + 1], t) = {}
      BY <3>2 DEF One, Covers
    <3> QED BY <3>3, <3>4, <2>1, BeforeNext
  <2> QED BY <2>1, <2>2
<1>3. N = Nat
  <2> HIDE DEF P
  <2> QED BY <1>1, <1>2, NatSet
<1> QED BY <1>3

(***************************************************************************)
(* A call that inserts a slot.  Until it is in, the list is that of the    *)
(* slots passed up to its start; then it is that of the slots passed but   *)
(* for its times, in which it is one of Q.                                 *)
(***************************************************************************)
Fits(c) ==
  c.start \in 0..LastMinute /\ c.end \in 0..LastMinute /\ c.start < c.end

Within(c, t) == c.start <= t /\ t < c.end

Undone(list, slots, i, c) ==
  \A t \in NowTimes : t < c.start => Contents(list, t) = Before(slots, i, t)

Done(list, slots, i, c, Q) ==
  \A t \in NowTimes : IF Within(c, t) THEN Contents(list, t) \cap Q # {}
                      ELSE Contents(list, t) = Before(slots, i, t)

\* What is left of a slot that the new one splits.
Rest(r, slots, i, c) ==
  /\ Clock(r.start) = c.end /\ Clock(r.end) = Reach(slots, i) /\ c.end < Reach(slots, i)
  /\ \A t \in NowTimes : c.end <= t => Before(slots, i, t) = One(r, t)

Awaiting(w, S, c, slots, i) ==
  /\ w.next = Unset /\ w.last <= c.start /\ w.last <= Reach(slots, i)
  /\ Undone(w.out, slots, i, c)
  /\ \/ w.split = <<>> /\ Reach(slots, i) <= c.end
     \/ \E r \in S : w.split = <<r>> /\ Rest(r, slots, i, c)

Inserted(w, Q, c, slots, i) ==
  /\ w.split = <<>> /\ Done(w.out, slots, i, c, Q)
  /\ \/ i = Len(slots)
     \/ w.next = Unset /\ w.last <= Reach(slots, i)
     \/ w.next = c.end /\ w.last = c.end /\ c.start <= Reach(slots, i)

\* After the last slot it is in, whatever the mark says.
Pending(w, slots, i) == w.pending /\ (i = 0 \/ i < Len(slots))

Inserting(w, S, Q, c, slots, i) ==
  /\ Walking(w, S) /\ w.pending \in BOOLEAN
  /\ Pending(w, slots, i) => Awaiting(w, S, c, slots, i)
  /\ ~Pending(w, slots, i) => Inserted(w, Q, c, slots, i)

\* Only the fields of the walk differ.
Untouched(w, u) ==
  /\ DOMAIN u = DOMAIN w
  /\ \A f \in DOMAIN w \ WalkFields : u[f] = w[f]

LEMMA ConcatOne ==
  ASSUME NEW S, NEW s \in Seq(S), NEW e \in S
  PROVE  s \o <<e>> = Append(s, e)
<1>1. <<e>> \in Seq(S) /\ Len(<<e>>) = 1 /\ <<e>>[1] = e
  OBVIOUS
<1>2. /\ s \o <<e>> \in Seq(S) /\ Len(s \o <<e>>) = Len(s) + 1
      /\ \A i \in 1..(Len(s) + 1) :
           (s \o <<e>>)[i] = IF i <= Len(s) THEN s[i] ELSE <<e>>[i - Len(s)]
  BY <1>1, ConcatProperties
<1>3. /\ Append(s, e) \in Seq(S) /\ Len(Append(s, e)) = Len(s) + 1 /\ Len(s) \in Nat
      /\ Append(s, e)[Len(s) + 1] = e
      /\ \A i \in 1..Len(s) : Append(s, e)[i] = s[i]
  BY AppendProperties, LenProperties
<1>4. ASSUME NEW i \in 1..(Len(s) + 1) PROVE (s \o <<e>>)[i] = Append(s, e)[i]
  <2>1. CASE i <= Len(s)
    BY <2>1, <1>2, <1>3
  <2>2. CASE ~(i <= Len(s))
    <3>1. i = Len(s) + 1 /\ i - Len(s) = 1 BY <2>2, <1>3
    <3> QED BY <3>1, <2>2, <1>1, <1>2, <1>3
  <2> QED BY <2>1, <2>2
<1> QED BY <1>2, <1>3, <1>4, SeqEqual

LEMMA ConcatTwo ==
  ASSUME NEW S, NEW s \in Seq(S), NEW a \in S, NEW b \in S
  PROVE  s \o (<<a>> \o <<b>>) = Append(Append(s, a), b)
<1>1. <<a>> \in Seq(S) /\ <<b>> \in Seq(S)
  OBVIOUS
<1>2. s \o (<<a>> \o <<b>>) = (s \o <<a>>) \o <<b>>
  BY <1>1, ConcatAssociative
<1>3. s \o <<a>> = Append(s, a) /\ Append(s, a) \in Seq(S)
  BY ConcatOne, AppendProperties
<1>4. Append(s, a) \o <<b>> = Append(Append(s, a), b)
  BY <1>3, ConcatOne
<1> QED BY <1>2, <1>3, <1>4

LEMMA ChainLast ==
  ASSUME NEW S, Movable(S), NEW list \in Seq(S), NEW last, Chain(list, last)
  PROVE  last \in 0..LastMinute
<1>1. CASE list = <<>>
  BY <1>1, MidnightAssumption DEF Chain, LastMinute
<1>2. CASE list # <<>>
  <2>1. Len(list) \in 1..Len(list)
    BY <1>2, EmptySeq
  <2>2. list[Len(list)] \in S
    BY <2>1, ElementOfSeq
  <2> QED BY <1>2, <2>2, ClockIs DEF Chain, Movable
<1> QED BY <1>1, <1>2

\* What a moved slot says.
SaysFrom(x, s, a, t) ==
  One(x, t) = IF Clock(a) <= t /\ t < Clock(s.end) THEN {Content(s)} ELSE {}
SaysTo(x, s, a, t) ==
  One(x, t) = IF Clock(s.start) <= t /\ t < Clock(a) THEN {Content(s)} ELSE {}

LEMMA LaterSays ==
  ASSUME NEW S, Movable(S), NEW s \in S, NEW a \in Places, NEW t,
         NEW x, x = [s EXCEPT !.start = a]
  PROVE  SaysFrom(x, s, a, t)
<1>1. x.start = a /\ x.end = s.end
  BY Moved
<1>2. Content(x) = Content(s)
  BY ContentMoved
<1> QED BY <1>1, <1>2 DEF One, Covers, SaysFrom

LEMMA ShorterSays ==
  ASSUME NEW S, Movable(S), NEW s \in S, NEW a \in Places, NEW t,
         NEW x, x = [s EXCEPT !.end = a]
  PROVE  SaysTo(x, s, a, t)
<1>1. x.end = a /\ x.start = s.start
  BY Moved
<1>2. Content(x) = Content(s)
  BY ContentMoved
<1> QED BY <1>1, <1>2 DEF One, Covers, SaysTo

\* What the list says with the new slot.
NewSays(list, new, slots, i, c) ==
  \A t \in NowTimes : Contents(list, t) = IF Within(c, t) THEN {Content(new)}
                                          ELSE IF t < c.start THEN Before(slots, i, t)
                                          ELSE {}

\* The list with the new slot.
LEMMA NewIn ==
  ASSUME NEW S, NEW slots, Day(slots, S), NEW i \in Nat, NEW c, Fits(c),
         NEW w, Walking(w, S), Awaiting(w, S, c, slots, i),
         NEW new \in S, new.start = c.start, new.end = Text(c.end)
  PROVE  /\ Append(w.out, new) \in Seq(S) /\ Chain(Append(w.out, new), c.end)
         /\ Clock(new.start) = c.start /\ Clock(new.end) = c.end
         /\ NewSays(Append(w.out, new), new, slots, i, c)
<1> DEFINE list == Append(w.out, new)
<1>1. /\ Clock(new.start) = c.start /\ Clock(new.end) = c.end /\ Movable(S)
      /\ c.start \in Int /\ c.end \in Int /\ c.start < c.end
  BY TextIs DEF Fits, Day, LastMinute
<1>2. w.out \in Seq(S) /\ Chain(w.out, w.last) /\ w.last <= c.start
  BY DEF Walking, Awaiting
<1>3. Filled(new)
  BY <1>1 DEF Filled
<1>4. list \in Seq(S) /\ Chain(list, c.end)
  BY <1>1, <1>2, <1>3, Extended
<1>5. w.last \in 0..LastMinute
  BY <1>1, <1>2, ChainLast
<1>6. ASSUME NEW t \in NowTimes
      PROVE  Contents(list, t) = IF Within(c, t) THEN {Content(new)}
                                 ELSE IF t < c.start THEN Before(slots, i, t) ELSE {}
  <2>1. Contents(list, t) = Contents(w.out, t) \cup One(new, t)
    BY <1>2, ContentsAppended
  <2>2. t \in Int
    BY DEF NowTimes
  <2>3. One(new, t) = IF Within(c, t) THEN {Content(new)} ELSE {}
    BY <1>1 DEF One, Covers, Within
  <2>4. CASE t < c.start
    <3>1. Contents(w.out, t) = Before(slots, i, t)
      BY <2>4 DEF Awaiting, Undone
    <3>2. ~Within(c, t)
      BY <2>4, <2>2, <1>1 DEF Within
    <3> QED BY <3>1, <3>2, <2>1, <2>3, <2>4
  <2>5. CASE ~(t < c.start)
    <3>1. w.last <= t
      BY <2>5, <2>2, <1>1, <1>2, <1>5 DEF LastMinute
    <3>2. Contents(w.out, t) = {}
      BY <3>1, <1>1, <1>2, <1>5, <2>2, ContentsLate
    <3> QED BY <3>2, <2>1, <2>3, <2>5
  <2> QED BY <2>4, <2>5
<1> QED BY <1>1, <1>4, <1>6 DEF NewSays

\* The second half of a split slot follows at once.
LEMMA SplitThen ==
  ASSUME NEW S, NEW slots, Day(slots, S), NEW i \in Nat, i + 1 <= Len(slots),
         NEW c, Fits(c), NEW w, Awaiting(w, S, c, slots, i), w.split # <<>>
  PROVE  /\ \E r \in S : w.split = <<r>> /\ Rest(r, slots, i, c)
         /\ c.end < Clock(slots[i + 1].start)
<1>1. PICK r \in S : w.split = <<r>> /\ Rest(r, slots, i, c)
  BY DEF Awaiting
<1>2. Reach(slots, i) <= Clock(slots[i + 1].start)
  /\ Reach(slots, i) \in Int /\ Clock(slots[i + 1].start) \in Int /\ c.end \in Int
  BY NextSlot DEF Fits, LastMinute
<1> QED BY <1>1, <1>2 DEF Rest

(***************************************************************************)
(* The turns of an insertion.                                              *)
(***************************************************************************)
Turn(S, slots, i, c) ==
  Day(slots, S) /\ i \in Nat /\ i + 1 <= Len(slots) /\ Fits(c)

IsNew(new, S, Q, c) ==
  new \in S /\ new.start = c.start /\ new.end = Text(c.end) /\ Content(new) \in Q

\* The new slot replaces the slot.
WholeIn(w, new, slot, c) ==
  [[w EXCEPT !.out = Append(@, new), !.pending = FALSE]
     EXCEPT !.last = c.end,
            !.next = IF Clock(slot.end) < LastMinute THEN c.end ELSE @]

LEMMA InsertWhole ==
  ASSUME NEW S, NEW Q, NEW slots, NEW i, NEW c, Turn(S, slots, i, c),
         NEW w, Walking(w, S), Awaiting(w, S, c, slots, i), NEW new, IsNew(new, S, Q, c),
         NEW slot, slot = slots[i + 1],
         c.start <= Clock(slot.start), c.end >= Clock(slot.end),
         NEW u, u = WholeIn(w, new, slot, c)
  PROVE  Inserting(u, S, Q, c, slots, i + 1) /\ Untouched(w, u)
<1> DEFINE list == Append(w.out, new)
<1>1. /\ Day(slots, S) /\ i \in Nat /\ i + 1 <= Len(slots) /\ Fits(c)
      /\ c.start \in Int /\ c.end \in Int /\ c.start < c.end /\ new \in S
      /\ Content(new) \in Q /\ new.start = c.start /\ new.end = Text(c.end)
  BY DEF Turn, Fits, IsNew
<1>2. /\ slot \in S /\ Filled(slot) /\ Reach(slots, i) \in 0..LastMinute
      /\ Reach(slots, i) <= Clock(slot.start) /\ Reach(slots, i + 1) = Clock(slot.end)
      /\ Clock(slot.start) \in 0..LastMinute /\ Clock(slot.end) \in 0..LastMinute
      /\ Clock(slot.start) < Clock(slot.end)
  BY <1>1, NextSlot DEF Filled
<1>3. w.split = <<>>
  <2>1. w.split # <<>> => c.end < Clock(slots[i + 1].start)
    BY <1>1, SplitThen
  <2> QED BY <2>1, <1>1, <1>2 DEF LastMinute
<1>0. /\ list \in Seq(S) /\ Chain(list, c.end) /\ NewSays(list, new, slots, i, c)
  BY <1>1, NewIn
<1>4. /\ list \in Seq(S) /\ Chain(list, c.end)
      /\ \A t \in NowTimes :
           Contents(list, t) = IF Within(c, t) THEN {Content(new)}
                               ELSE IF t < c.start THEN Before(slots, i, t) ELSE {}
  BY <1>0 DEF NewSays
<1>5. WalkFields \subseteq DOMAIN w
  BY DEF Walking
<1>6. /\ u.out = list /\ u.last = c.end /\ u.split = w.split /\ u.pending = FALSE
      /\ u.next = IF Clock(slot.end) < LastMinute THEN c.end ELSE w.next
      /\ DOMAIN u = DOMAIN w /\ \A f \in DOMAIN w \ WalkFields : u[f] = w[f]
  BY <1>5 DEF WalkFields, WholeIn
<1>7. ASSUME NEW t \in NowTimes
      PROVE  IF Within(c, t) THEN Contents(list, t) \cap Q # {}
             ELSE Contents(list, t) = Before(slots, i + 1, t)
  <2>1. t \in Int BY DEF NowTimes
  <2>2. CASE Within(c, t)
    BY <2>2, <1>4, <1>1
  <2>3. CASE t < c.start
    <3>1. One(slot, t) = {} BY <2>3, <2>1, <1>1, <1>2 DEF One, Covers, LastMinute
    <3>2. Before(slots, i + 1, t) = Before(slots, i, t) \cup One(slot, t)
      BY <1>1, BeforeNext
    <3>3. ~Within(c, t) BY <2>3, <2>1, <1>1 DEF Within
    <3> QED BY <3>1, <3>2, <3>3, <1>4, <2>3
  <2>4. CASE c.end <= t
    <3>1. ~Within(c, t) /\ ~(t < c.start) BY <2>4, <2>1, <1>1 DEF Within
    <3>2. Reach(slots, i + 1) <= t
      BY <2>4, <2>1, <1>1, <1>2 DEF LastMinute
    <3>3. Before(slots, i + 1, t) = {}
      BY <3>2, <1>1, <2>1, BeforeLate
    <3> QED BY <3>1, <3>3, <1>4
  <2> QED BY <2>1, <2>2, <2>3, <2>4, <1>1 DEF Within
<1>8. \/ i + 1 = Len(slots)
      \/ u.next = c.end /\ u.last = c.end /\ c.start <= Reach(slots, i + 1)
  <2>1. CASE Clock(slot.end) < LastMinute
    <3>1. c.start <= Reach(slots, i + 1) BY <1>1, <1>2 DEF LastMinute
    <3> QED BY <2>1, <3>1, <1>6
  <2>2. CASE ~(Clock(slot.end) < LastMinute)
    BY <2>2, <1>1, LastSlot
  <2> QED BY <2>1, <2>2
<1>9. Inserted(u, Q, c, slots, i + 1)
  BY <1>3, <1>6, <1>7, <1>8 DEF Inserted, Done
<1>10. Walking(u, S)
  BY <1>4, <1>5, <1>6 DEF Walking
<1> HIDE DEF list
<1> QED BY <1>6, <1>9, <1>10 DEF Inserting, Pending, Untouched

\* The new slot in its times, the slots passed at the others.
SaysNew(list, new, slots, i, c) ==
  \A t \in NowTimes : Contents(list, t) = IF Within(c, t) THEN {Content(new)}
                                          ELSE Before(slots, i, t)

SameOutside(x, slot, c) ==
  \A t \in NowTimes : ~Within(c, t) => One(x, t) = One(slot, t)

\* The new slot comes before the slot, of which x is left.
LEMMA InsertThen ==
  ASSUME NEW S, NEW Q, NEW slots, NEW i, NEW c, Turn(S, slots, i, c),
         NEW w, Walking(w, S), NEW new, IsNew(new, S, Q, c),
         NEW v, WalkFields \subseteq DOMAIN w, Untouched(w, v), v.pending = FALSE,
         v.next = Unset, v.split = <<>>, v.last <= Clock(slots[i + 1].start),
         v.out \in Seq(S), NEW last \in Int, Chain(v.out, last),
         SaysNew(v.out, new, slots, i, c), v.last \in Int,
         NEW x \in S, Filled(x), last <= Clock(x.start),
         Clock(slots[i + 1].start) <= Clock(x.start),
         Clock(x.end) = Clock(slots[i + 1].end),
         SameOutside(x, slots[i + 1], c),
         NEW u, u = Take(v, x, <<>>)
  PROVE  Inserting(u, S, Q, c, slots, i + 1) /\ Untouched(w, u)
<1>1. /\ Day(slots, S) /\ i \in Nat /\ i + 1 <= Len(slots) /\ Fits(c) /\ Movable(S)
      /\ Content(new) \in Q
  BY DEF Turn, IsNew, Day
<1>2. /\ Reach(slots, i + 1) = Clock(slots[i + 1].end)
      /\ Clock(slots[i + 1].start) \in 0..LastMinute
      /\ Clock(slots[i + 1].end) \in 0..LastMinute
  BY <1>1, NextSlot
<1>3. Clock(x.start) \in 0..LastMinute
  BY <1>1, ClockIs DEF Movable
<1>4. WalkFields \subseteq DOMAIN v
  BY DEF Untouched
<1>5. v.last <= Clock(x.start)
  BY <1>2, <1>3 DEF LastMinute
<1>0. Taken(v, u, x) /\ Walking(u, S) /\ Alike(v, u)
  BY <1>1, <1>4, <1>5, TakeKept
<1>6. /\ u.out = Append(v.out, x) /\ u.last = Clock(x.end)
      /\ Walking(u, S) /\ Alike(v, u) /\ u.split = v.split
  BY <1>0 DEF Taken
<1>7. ASSUME NEW t \in NowTimes
      PROVE  IF Within(c, t) THEN Contents(u.out, t) \cap Q # {}
             ELSE Contents(u.out, t) = Before(slots, i + 1, t)
  <2>0. Contents(Append(v.out, x), t) = Contents(v.out, t) \cup One(x, t)
    BY ContentsAppended
  <2>1. Contents(u.out, t) = Contents(v.out, t) \cup One(x, t)
    BY <1>6, <2>0
  <2>2. Before(slots, i + 1, t) = Before(slots, i, t) \cup One(slots[i + 1], t)
    BY <1>1, BeforeNext
  <2>3. CASE Within(c, t)
    BY <2>1, <2>3, <1>1 DEF SaysNew
  <2>4. CASE ~Within(c, t)
    BY <2>1, <2>2, <2>4 DEF SaysNew, SameOutside
  <2> QED BY <2>3, <2>4
<1>8. u.next = Unset /\ u.pending = FALSE /\ Untouched(w, u)
  BY <1>4, <1>6 DEF Alike, Untouched, WalkFields
<1>9. u.last <= Reach(slots, i + 1)
  BY <1>2, <1>6 DEF LastMinute
<1>10. Inserted(u, Q, c, slots, i + 1)
  BY <1>6, <1>7, <1>8, <1>9 DEF Inserted, Done
<1> QED BY <1>6, <1>8, <1>10 DEF Inserting, Pending

\* What a turn knows of its slot.
LEMMA TurnFacts ==
  ASSUME NEW S, NEW slots, NEW i, NEW c, Turn(S, slots, i, c)
  PROVE  /\ Day(slots, S) /\ Movable(S) /\ i \in Nat /\ i + 1 <= Len(slots)
         /\ Len(slots) \in Nat /\ Fits(c)
         /\ c.start \in 0..LastMinute /\ c.end \in 0..LastMinute /\ c.start < c.end
         /\ slots[i + 1] \in S /\ Filled(slots[i + 1])
         /\ Reach(slots, i) \in 0..LastMinute
         /\ Reach(slots, i) <= Clock(slots[i + 1].start)
         /\ Reach(slots, i + 1) = Clock(slots[i + 1].end)
         /\ Clock(slots[i + 1].start) \in 0..LastMinute
         /\ Clock(slots[i + 1].end) \in 0..LastMinute
         /\ Clock(slots[i + 1].start) < Clock(slots[i + 1].end)
<1>1. Day(slots, S) /\ i \in Nat /\ i + 1 <= Len(slots) /\ Fits(c)
  BY DEF Turn
<1> QED BY <1>1, NextSlot DEF Day, Fits, Filled

\* What is left of a slot after the new one.
LeftOf(x, S, slot, c) ==
  /\ x \in S /\ Filled(x) /\ Clock(x.end) = Clock(slot.end)
  /\ c.end <= Clock(x.start) /\ Clock(slot.start) <= Clock(x.start)
  /\ SameOutside(x, slot, c)

\* It is the rest or, behind the new one, all of it.
Trimmed(slot, c) ==
  IF c.end > Clock(slot.start) THEN [slot EXCEPT !.start = Text(c.end)] ELSE slot

LEMMA RestOf ==
  ASSUME NEW S, NEW slots, NEW i, NEW c, Turn(S, slots, i, c),
         NEW slot, slot = slots[i + 1], c.end < Clock(slot.end),
         NEW x, x = Trimmed(slot, c),
         c.start <= Clock(slot.start)
  PROVE  LeftOf(x, S, slot, c)
<1> USE DEF LeftOf
<1>0. /\ slot \in S /\ Movable(S) /\ Filled(slot) /\ c.end \in 0..LastMinute
      /\ c.start \in Int /\ c.end \in Int /\ Clock(slot.start) \in Int
      /\ Clock(slot.end) \in Int
  BY TurnFacts DEF LastMinute
<1>1. Text(c.end) \in Places /\ Clock(Text(c.end)) = c.end
  BY <1>0, TextIs
<1>2. CASE c.end > Clock(slot.start)
  <2>0. x = [slot EXCEPT !.start = Text(c.end)]
    BY <1>2 DEF Trimmed
  <2>1. /\ x \in S /\ x.start = Text(c.end) /\ x.end = slot.end
    <3>1. StartsAt(x, S, slot, Text(c.end))
      BY <1>0, <1>1, <2>0, Later
    <3> QED BY <3>1 DEF StartsAt
  <2>2. Filled(x)
    BY <2>1, <1>0, <1>1 DEF Filled
  <2>3. ASSUME NEW t \in NowTimes, ~Within(c, t) PROVE One(x, t) = One(slot, t)
    <3>1. One(x, t) = IF c.end <= t /\ t < Clock(slot.end) THEN {Content(slot)} ELSE {}
      <4>1. SaysFrom(x, slot, Text(c.end), t)
        BY <1>0, <1>1, <2>0, LaterSays
      <4> QED BY <4>1, <1>1 DEF SaysFrom
    <3>2. t \in Int /\ c.start \in Int /\ c.end \in Int /\ Clock(slot.start) \in Int
      BY <1>0 DEF NowTimes
    <3>3. t < c.start \/ c.end <= t
      BY <3>2, <2>3 DEF Within
    <3>4. c.end <= t <=> Clock(slot.start) <= t
      BY <3>2, <3>3, <1>2
    <3> QED BY <3>1, <3>4 DEF One, Covers
  <2> QED BY <2>1, <2>2, <2>3, <1>0, <1>1, <1>2 DEF SameOutside
<1>3. CASE ~(c.end > Clock(slot.start))
  <2>1. x = slot /\ c.end <= Clock(slot.start) /\ Clock(slot.start) <= Clock(slot.start)
    BY <1>0, <1>3 DEF Trimmed
  <2> QED BY <2>1, <1>0 DEF SameOutside
<1> QED BY <1>2, <1>3

\* Before a slot that the new one leaves a part of.
LEMMA InsertBefore ==
  ASSUME NEW S, NEW Q, NEW slots, NEW i, NEW c, Turn(S, slots, i, c),
         NEW w, Walking(w, S), Awaiting(w, S, c, slots, i), NEW new, IsNew(new, S, Q, c),
         NEW slot, slot = slots[i + 1],
         c.start <= Clock(slot.start), c.end < Clock(slot.end), w.split = <<>>,
         NEW u, u = Take([w EXCEPT !.out = Append(@, new), !.pending = FALSE],
                         Trimmed(slot, c), <<>>)
  PROVE  Inserting(u, S, Q, c, slots, i + 1) /\ Untouched(w, u)
<1> DEFINE v == [w EXCEPT !.out = Append(@, new), !.pending = FALSE]
           x == Trimmed(slot, c)
           list == Append(w.out, new)
<1>1. /\ Day(slots, S) /\ i \in Nat /\ i + 1 <= Len(slots) /\ Fits(c)
      /\ Clock(slots[i + 1].start) \in Int /\ Reach(slots, i) \in Int
      /\ Reach(slots, i) <= Clock(slots[i + 1].start) /\ c.end \in Int /\ c.start \in Int
      /\ c.start < c.end /\ Movable(S)
  BY TurnFacts DEF LastMinute
<1>2. new \in S /\ new.start = c.start /\ new.end = Text(c.end)
  BY DEF IsNew
<1>3. list \in Seq(S) /\ Chain(list, c.end) /\ NewSays(list, new, slots, i, c)
  BY <1>1, <1>2, NewIn
<1>4. WalkFields \subseteq DOMAIN w /\ w.out \in Seq(S) /\ Chain(w.out, w.last)
  BY DEF Walking
<1>5. /\ v.out = list /\ v.last = w.last /\ v.split = <<>> /\ v.pending = FALSE
      /\ v.next = w.next /\ Untouched(w, v)
  BY <1>4 DEF WalkFields, Untouched
<1>6. /\ w.next = Unset /\ w.last <= Reach(slots, i) /\ Reach(slots, i) <= c.end
  BY DEF Awaiting
<1>7. w.last \in Int
  BY <1>1, <1>4, ChainLast DEF LastMinute
<1>8. w.last <= Clock(slots[i + 1].start)
  BY <1>1, <1>6, <1>7
<1>9. SaysNew(list, new, slots, i, c)
  <2> SUFFICES ASSUME NEW t \in NowTimes
               PROVE  Contents(list, t) = IF Within(c, t) THEN {Content(new)}
                                          ELSE Before(slots, i, t)
    BY DEF SaysNew
  <2>1. t \in Int BY DEF NowTimes
  <2>2. CASE Within(c, t) \/ t < c.start
    BY <2>2, <1>3 DEF NewSays
  <2>3. CASE ~(Within(c, t) \/ t < c.start)
    <3>1. Reach(slots, i) <= t
      BY <2>3, <2>1, <1>1, <1>6 DEF Within
    <3>2. i <= Len(slots)
      BY TurnFacts
    <3>3. Before(slots, i, t) = {}
      BY <3>1, <3>2, <2>1, <1>1, BeforeLate
    <3> QED BY <3>3, <2>3, <1>3 DEF NewSays
  <2> QED BY <2>2, <2>3
<1>10. /\ x \in S /\ Filled(x) /\ Clock(x.end) = Clock(slot.end)
       /\ c.end <= Clock(x.start) /\ Clock(slot.start) <= Clock(x.start)
       /\ SameOutside(x, slot, c)
  <2>1. LeftOf(x, S, slot, c)
    <3> HIDE DEF x
    <3> QED BY RestOf DEF x
  <2> QED BY <2>1 DEF LeftOf
<1>11. u = Take(v, x, <<>>)
  OBVIOUS
<1> HIDE DEF v, x, list
<1>12. v.out \in Seq(S) /\ Chain(v.out, c.end) /\ SaysNew(v.out, new, slots, i, c)
  BY <1>3, <1>5, <1>9
<1>13. v.last \in Int /\ v.last <= Clock(slots[i + 1].start) /\ v.next = Unset
  BY <1>5, <1>6, <1>7, <1>8
<1> QED BY <1>1, <1>4, <1>5, <1>10, <1>11, <1>12, <1>13, InsertThen

\* After the second half of the slot that it begins in.
LEMMA InsertAfterSplit ==
  ASSUME NEW S, NEW Q, NEW slots, NEW i, NEW c, Turn(S, slots, i, c),
         NEW w, Walking(w, S), Awaiting(w, S, c, slots, i), NEW new, IsNew(new, S, Q, c),
         NEW slot, slot = slots[i + 1],
         c.start <= Clock(slot.start), w.split # <<>>,
         NEW u, u = Take([[w EXCEPT !.out = Append(@, new), !.pending = FALSE]
                            EXCEPT !.out = @ \o w.split, !.split = <<>>], slot, <<>>)
  PROVE  Inserting(u, S, Q, c, slots, i + 1) /\ Untouched(w, u)
<1> DEFINE first == [w EXCEPT !.out = Append(@, new), !.pending = FALSE]
           v == [first EXCEPT !.out = @ \o w.split, !.split = <<>>]
           list == Append(w.out, new)
<1>1. /\ Day(slots, S) /\ i \in Nat /\ i + 1 <= Len(slots) /\ Fits(c)
      /\ Clock(slots[i + 1].start) \in Int /\ Reach(slots, i) \in Int
      /\ Reach(slots, i) <= Clock(slots[i + 1].start) /\ c.end \in Int /\ c.start \in Int
      /\ c.start < c.end /\ Movable(S) /\ slot \in S /\ Filled(slot)
  BY TurnFacts DEF LastMinute
<1>2. new \in S /\ new.start = c.start /\ new.end = Text(c.end)
  BY DEF IsNew
<1>3. PICK r \in S : w.split = <<r>> /\ Rest(r, slots, i, c)
  BY <1>1, SplitThen
<1>4. /\ Clock(r.start) = c.end /\ Clock(r.end) = Reach(slots, i) /\ c.end < Reach(slots, i)
      /\ \A t \in NowTimes : c.end <= t => Before(slots, i, t) = One(r, t)
  BY <1>3 DEF Rest
<1>5. list \in Seq(S) /\ Chain(list, c.end) /\ NewSays(list, new, slots, i, c)
  BY <1>1, <1>2, NewIn
<1>6. WalkFields \subseteq DOMAIN w /\ w.out \in Seq(S) /\ Chain(w.out, w.last)
  BY DEF Walking
<1>7. w.next = Unset /\ w.last <= Reach(slots, i)
  BY DEF Awaiting
<1>8. w.last \in Int
  BY <1>1, <1>6, ChainLast DEF LastMinute
<1>9. /\ first.out = list /\ first.last = w.last /\ first.pending = FALSE
      /\ first.next = w.next /\ Untouched(w, first) /\ WalkFields \subseteq DOMAIN first
  BY <1>6 DEF WalkFields, Untouched
<1> HIDE DEF list
<1>10. list \o w.split = Append(list, r)
  BY <1>3, <1>5, ConcatOne
<1>11. /\ v.out = Append(list, r) /\ v.last = w.last /\ v.split = <<>> /\ v.pending = FALSE
       /\ v.next = w.next /\ Untouched(w, v)
  <2> HIDE DEF first
  <2> QED BY <1>9, <1>10 DEF WalkFields, Untouched
<1>12. Append(list, r) \in Seq(S) /\ Chain(Append(list, r), Reach(slots, i))
  <2>1. Filled(r) /\ c.end <= Clock(r.start)
    BY <1>1, <1>4 DEF Filled
  <2> QED BY <2>1, <1>1, <1>3, <1>4, <1>5, Extended
<1>13. SaysNew(Append(list, r), new, slots, i, c)
  <2> SUFFICES ASSUME NEW t \in NowTimes
               PROVE  Contents(Append(list, r), t) = IF Within(c, t) THEN {Content(new)}
                                                     ELSE Before(slots, i, t)
    BY DEF SaysNew
  <2>1. t \in Int BY DEF NowTimes
  <2>2. Contents(Append(list, r), t) = Contents(list, t) \cup One(r, t)
    BY <1>3, <1>5, ContentsAppended
  <2>3. CASE t < c.end
    <3>1. One(r, t) = {}
      BY <2>3, <2>1, <1>1, <1>4 DEF One, Covers
    <3>2. Contents(list, t) = IF Within(c, t) THEN {Content(new)} ELSE Before(slots, i, t)
      BY <2>3, <2>1, <1>1, <1>5 DEF NewSays, Within
    <3> QED BY <2>2, <3>1, <3>2
  <2>4. CASE ~(t < c.end)
    <3>1. Before(slots, i, t) = One(r, t) /\ ~Within(c, t) /\ ~(t < c.start)
      BY <2>4, <2>1, <1>1, <1>4 DEF Within
    <3>2. Contents(list, t) = {}
      BY <3>1, <1>5 DEF NewSays
    <3> QED BY <2>2, <3>1, <3>2
  <2> QED BY <2>3, <2>4
<1>14. SameOutside(slot, slots[i + 1], c) /\ u = Take(v, slot, <<>>)
  BY DEF SameOutside
<1>15. v.last <= Clock(slots[i + 1].start) /\ v.last \in Int /\ v.next = Unset
  BY <1>1, <1>7, <1>8, <1>11
<1> DEFINE more == Append(list, r)
<1> HIDE DEF v, more
<1>16. v.out = more /\ more \in Seq(S) /\ Chain(more, Reach(slots, i))
       /\ SaysNew(more, new, slots, i, c)
  BY <1>11, <1>12, <1>13 DEF more
<1>17. v.out \in Seq(S) /\ Chain(v.out, Reach(slots, i)) /\ SaysNew(v.out, new, slots, i, c)
  BY <1>16
<1>18. /\ slot \in S /\ Filled(slot) /\ Reach(slots, i) <= Clock(slot.start)
       /\ Clock(slots[i + 1].start) <= Clock(slot.start)
       /\ Clock(slot.end) = Clock(slots[i + 1].end) /\ Reach(slots, i) \in Int
  BY <1>1
<1> QED BY <1>6, <1>11, <1>14, <1>15, <1>17, <1>18, InsertThen

\* What the slots passed say before the times of the new one, and after.
LEMMA BeforeSays ==
  ASSUME NEW S, NEW slots, NEW i, NEW c, Turn(S, slots, i, c),
         NEW w, Walking(w, S), Awaiting(w, S, c, slots, i),
         Reach(slots, i) <= c.start, NEW t \in NowTimes
  PROVE  Contents(w.out, t) = Before(slots, i, t)
<1>1. /\ t \in Int /\ c.start \in Int /\ Day(slots, S) /\ Movable(S) /\ i \in Nat
      /\ i <= Len(slots) /\ Reach(slots, i) \in Int
  BY TurnFacts DEF NowTimes, LastMinute
<1>2. CASE t < c.start
  BY <1>2 DEF Awaiting, Undone
<1>3. CASE ~(t < c.start)
  <2>1. w.out \in Seq(S) /\ Chain(w.out, w.last) /\ w.last <= c.start
    BY DEF Walking, Awaiting
  <2>2. w.last \in Int
    BY <1>1, <2>1, ChainLast DEF LastMinute
  <2>3. w.last <= t /\ Reach(slots, i) <= t
    BY <1>1, <1>3, <2>1, <2>2
  <2>4. Contents(w.out, t) = {}
    BY <1>1, <2>1, <2>2, <2>3, ContentsLate
  <2>5. Before(slots, i, t) = {}
    BY <1>1, <2>3, BeforeLate
  <2> QED BY <2>4, <2>5
<1> QED BY <1>2, <1>3

\* The slot up to the start of the new one.
Cut(slot, c) ==
  IF c.start < Clock(slot.end) THEN [slot EXCEPT !.end = Text(c.start)] ELSE slot

CutOf(x, S, slot, c) ==
  /\ x \in S /\ Clock(x.start) = Clock(slot.start)
  /\ Clock(x.end) = Least(Clock(slot.end), c.start)
  /\ Content(x) = Content(slot)

LEMMA CutIs ==
  ASSUME NEW S, NEW slots, NEW i, NEW c, Turn(S, slots, i, c),
         NEW slot, slot = slots[i + 1], Clock(slot.start) < c.start,
         NEW x, x = Cut(slot, c)
  PROVE  CutOf(x, S, slot, c)
<1>0. /\ slot \in S /\ Movable(S) /\ c.start \in 0..LastMinute
      /\ c.start \in Int /\ Clock(slot.end) \in Int
  BY TurnFacts DEF LastMinute
<1>1. Text(c.start) \in Places /\ Clock(Text(c.start)) = c.start
  BY <1>0, TextIs
<1>2. CASE c.start < Clock(slot.end)
  <2>1. x = [slot EXCEPT !.end = Text(c.start)]
    BY <1>2 DEF Cut
  <2>2. EndsAt(x, S, slot, Text(c.start))
    BY <1>0, <1>1, <2>1, Shorter
  <2>3. Content(x) = Content(slot)
    BY <1>0, <1>1, <2>1, ContentMoved
  <2> QED BY <1>0, <1>1, <1>2, <2>2, <2>3 DEF EndsAt, CutOf, Least
<1>3. CASE ~(c.start < Clock(slot.end))
  <2>1. x = slot
    BY <1>3 DEF Cut
  <2> QED BY <1>0, <1>3, <2>1 DEF CutOf, Least
<1> QED BY <1>2, <1>3

\* The slot behind the new one.
RestIs(x, S, slot, c) ==
  /\ x \in S /\ Clock(x.start) = c.end /\ Clock(x.end) = Clock(slot.end)
  /\ Content(x) = Content(slot)

Behind(slot, c) == [slot EXCEPT !.start = Text(c.end)]

LEMMA RestMoved ==
  ASSUME NEW S, NEW slots, NEW i, NEW c, Turn(S, slots, i, c),
         NEW slot, slot = slots[i + 1],
         NEW x, x = Behind(slot, c)
  PROVE  RestIs(x, S, slot, c)
<1>0. /\ slot \in S /\ Movable(S) /\ c.end \in 0..LastMinute
  BY TurnFacts
<1>1. Text(c.end) \in Places /\ Clock(Text(c.end)) = c.end
  BY <1>0, TextIs
<1>4. x = [slot EXCEPT !.start = Text(c.end)]
  BY DEF Behind
<1>2. StartsAt(x, S, slot, Text(c.end))
  BY <1>0, <1>1, <1>4, Later
<1>3. Content(x) = Content(slot)
  BY <1>0, <1>1, <1>4, ContentMoved
<1> QED BY <1>1, <1>2, <1>3 DEF StartsAt, RestIs

\* The list with the slot cut, and then the new one.
CutSays(list, slot, new, slots, i, c) ==
  \A t \in NowTimes : Contents(list, t) = IF Within(c, t) THEN {Content(new)}
                                          ELSE IF t < c.start THEN Before(slots, i + 1, t)
                                          ELSE {}

LEMMA CutThenNew ==
  ASSUME NEW S, NEW slots, NEW i, NEW c, Turn(S, slots, i, c),
         NEW w, Walking(w, S), Awaiting(w, S, c, slots, i),
         NEW slot, slot = slots[i + 1], Clock(slot.start) < c.start,
         NEW x, CutOf(x, S, slot, c),
         NEW new \in S, new.start = c.start, new.end = Text(c.end)
  PROVE  /\ Append(Append(w.out, x), new) \in Seq(S)
         /\ Chain(Append(Append(w.out, x), new), c.end)
         /\ CutSays(Append(Append(w.out, x), new), slot, new, slots, i, c)
         /\ w.last <= Clock(x.start)
<1>1. /\ Day(slots, S) /\ i \in Nat /\ i + 1 <= Len(slots) /\ Movable(S)
      /\ c.start \in 0..LastMinute /\ c.end \in 0..LastMinute
      /\ c.start \in Int /\ c.end \in Int /\ c.start < c.end
      /\ slot \in S /\ Reach(slots, i) \in Int /\ Reach(slots, i) <= Clock(slot.start)
      /\ Clock(slot.start) \in Int /\ Clock(slot.end) \in Int
      /\ Clock(slot.start) < Clock(slot.end)
  BY TurnFacts DEF LastMinute
<1>2. /\ x \in S /\ Clock(x.start) = Clock(slot.start) /\ Content(x) = Content(slot)
      /\ Clock(x.end) = Least(Clock(slot.end), c.start)
  BY DEF CutOf
<1>3. w.out \in Seq(S) /\ Chain(w.out, w.last) /\ w.last <= Reach(slots, i)
  BY DEF Walking, Awaiting
<1>4. w.last \in Int
  BY <1>1, <1>3, ChainLast DEF LastMinute
<1>5. /\ w.last <= Clock(x.start) /\ Filled(x)
      /\ Clock(x.end) <= c.start /\ Clock(x.end) \in Int
  BY <1>1, <1>2, <1>3, <1>4 DEF Filled, Least
<1> DEFINE l1 == Append(w.out, x)
<1>6. l1 \in Seq(S) /\ Chain(l1, Clock(x.end))
  BY <1>1, <1>2, <1>3, <1>5, Extended
<1> HIDE DEF l1
<1>7. Clock(new.start) = c.start /\ Clock(new.end) = c.end
  BY <1>1, TextIs
<1>8. Append(l1, new) \in Seq(S) /\ Chain(Append(l1, new), c.end)
  BY <1>1, <1>5, <1>6, <1>7, Extended DEF Filled
<1>9. ASSUME NEW t \in NowTimes
      PROVE  Contents(Append(l1, new), t)
               = IF Within(c, t) THEN {Content(new)}
                 ELSE IF t < c.start THEN Before(slots, i + 1, t) ELSE {}
  <2>1. t \in Int BY DEF NowTimes
  <2>2. Contents(Append(l1, new), t) = Contents(l1, t) \cup One(new, t)
    BY <1>6, ContentsAppended
  <2>3. One(new, t) = IF Within(c, t) THEN {Content(new)} ELSE {}
    BY <1>7 DEF One, Covers, Within
  <2>4. CASE t < c.start
    <3>1. Contents(l1, t) = Contents(w.out, t) \cup One(x, t)
      BY <1>2, <1>3, ContentsAppended DEF l1
    <3>2. Contents(w.out, t) = Before(slots, i, t)
      BY <2>4 DEF Awaiting, Undone
    <3>3. One(x, t) = One(slot, t)
      BY <2>1, <2>4, <1>1, <1>2 DEF One, Covers, Least
    <3>4. Before(slots, i + 1, t) = Before(slots, i, t) \cup One(slot, t)
      BY <1>1, BeforeNext
    <3>5. ~Within(c, t)
      BY <2>1, <2>4, <1>1 DEF Within
    <3> QED BY <3>1, <3>2, <3>3, <3>4, <3>5, <2>2, <2>3, <2>4
  <2>5. CASE ~(t < c.start)
    <3>1. Clock(x.end) <= t
      BY <2>1, <2>5, <1>1, <1>5
    <3>2. Contents(l1, t) = {}
      BY <3>1, <2>1, <1>1, <1>5, <1>6, ContentsLate
    <3> QED BY <3>2, <2>2, <2>3, <2>5
  <2> QED BY <2>4, <2>5
<1> QED BY <1>5, <1>8, <1>9 DEF l1, CutSays

\* The times of the slot after the new one.
SlotAlone(slots, i, slot, t) ==
  Before(slots, i, t) = IF t < Clock(slot.end) THEN {Content(slot)} ELSE {}

LEMMA BehindSays ==
  ASSUME NEW S, NEW slots, NEW i, NEW c, Turn(S, slots, i, c),
         NEW slot, slot = slots[i + 1], Clock(slot.start) < c.start,
         NEW t \in NowTimes, ~Within(c, t), ~(t < c.start)
  PROVE  SlotAlone(slots, i + 1, slot, t)
<1>1. /\ Day(slots, S) /\ i \in Nat /\ i <= Len(slots)
      /\ c.start \in Int /\ Reach(slots, i) \in Int /\ Reach(slots, i) <= Clock(slot.start)
      /\ Clock(slot.start) \in Int /\ t \in Int
  BY TurnFacts DEF LastMinute, NowTimes
<1>2. Reach(slots, i) <= t /\ Clock(slot.start) <= t
  BY <1>1
<1>3. Before(slots, i, t) = {}
  BY <1>1, <1>2, BeforeLate
<1>4. Before(slots, i + 1, t) = Before(slots, i, t) \cup One(slot, t)
  BY <1>1, BeforeNext
<1> QED BY <1>2, <1>3, <1>4 DEF One, Covers, SlotAlone

\* Without a second half as long as the new slot begins later.
LEMMA NoSplit ==
  ASSUME NEW S, NEW slots, NEW i, NEW c, Turn(S, slots, i, c),
         NEW w, Awaiting(w, S, c, slots, i), Clock(slots[i + 1].start) < c.end
  PROVE  w.split = <<>> /\ Reach(slots, i) <= c.end
<1>1. /\ Day(slots, S) /\ i \in Nat /\ i + 1 <= Len(slots) /\ Fits(c) /\ c.end \in Int
      /\ Clock(slots[i + 1].start) \in Int
  BY TurnFacts DEF LastMinute
<1>2. w.split = <<>>
  <2>1. w.split # <<>> => c.end < Clock(slots[i + 1].start)
    BY <1>1, SplitThen
  <2> QED BY <2>1, <1>1
<1> QED BY <1>2 DEF Awaiting

\* The new slot begins after the start of the last one.
NewLast(w, new, slot, c) ==
  <<new>> \o (IF c.end < Clock(slot.end) THEN <<Behind(slot, c)>> ELSE w.split)

LEMMA InsertLast ==
  ASSUME NEW S, NEW Q, NEW slots, NEW i, NEW c, Turn(S, slots, i, c), i + 1 = Len(slots),
         NEW w, Walking(w, S), Awaiting(w, S, c, slots, i), NEW new, IsNew(new, S, Q, c),
         w.pending \in BOOLEAN,
         NEW slot, slot = slots[i + 1], Clock(slot.start) < c.start,
         NEW u, u = Take(w, Cut(slot, c), NewLast(w, new, slot, c))
  PROVE  Inserting(u, S, Q, c, slots, i + 1) /\ Untouched(w, u)
<1> DEFINE x == Cut(slot, c)
           rest == Behind(slot, c)
           after == NewLast(w, new, slot, c)
           kept == Kept(w, x)
           list == Append(Append(w.out, x), new)
<1>1. /\ c.start \in Int /\ c.end \in Int /\ c.start < c.end /\ Movable(S)
      /\ slot \in S /\ Clock(slot.start) \in Int /\ Clock(slot.end) \in Int
      /\ i \in Nat
  BY TurnFacts DEF LastMinute
<1>2. new \in S /\ new.start = c.start /\ new.end = Text(c.end) /\ Content(new) \in Q
  BY DEF IsNew
<1>3. w.split = <<>>
  <2>1. Clock(slots[i + 1].start) < c.end
    BY <1>1
  <2> QED BY <2>1, NoSplit
<1>4. CutOf(x, S, slot, c)
  BY CutIs
<1>5. RestIs(rest, S, slot, c)
  BY RestMoved
<1> HIDE DEF x
<1>6. /\ list \in Seq(S) /\ Chain(list, c.end) /\ CutSays(list, slot, new, slots, i, c)
      /\ w.last <= Clock(x.start)
  BY <1>2, <1>4, CutThenNew
<1>7. WalkFields \subseteq DOMAIN w /\ w.out \in Seq(S)
  BY DEF Walking
<1>8. kept = Append(w.out, x) /\ x \in S /\ kept \in Seq(S)
  BY <1>4, <1>6, <1>7, AppendProperties DEF Kept, CutOf
<1>9. u = Take(w, x, after)
  BY DEF x
<1>15. list = Append(kept, new)
  BY <1>8
<1>16. /\ c.end < Clock(slot.end) => after = <<new>> \o <<rest>>
       /\ ~(c.end < Clock(slot.end)) => after = <<new>>
  <2>1. ASSUME ~(c.end < Clock(slot.end)) PROVE after = <<new>>
    <3>1. after = <<new>> \o <<>>
      BY <2>1, <1>3, Zenon DEF NewLast
    <3>2. <<new>> \in Seq({new})
      OBVIOUS
    <3> QED BY <3>1, <3>2, ConcatEmptySeq
  <2>2. ASSUME c.end < Clock(slot.end) PROVE after = <<new>> \o <<rest>>
    BY <2>2, Zenon DEF NewLast
  <2> QED BY <2>1, <2>2
<1>17. after # <<>>
  <2>1. new \in S /\ rest \in S /\ <<new>> \in Seq(S)
    BY <1>2, <1>5 DEF RestIs
  <2>2. <<new>> \o <<rest>> = Append(<<new>>, rest) /\ Append(<<new>>, rest) # <<>>
    BY <2>1, ConcatOne, AppendProperties
  <2> QED BY <1>16, <2>2
<1> HIDE DEF list, kept, after, rest
<1>10. \E full \in Seq(S), last \in Int :
         /\ full # <<>> /\ Chain(full, last) /\ full = kept \o after /\ after # <<>>
         /\ Done(full, slots, i + 1, c, Q)
  <2>1. CASE c.end < Clock(slot.end)
    <3>1. after = <<new>> \o <<rest>>
      BY <2>1, <1>16
    <3>2. rest \in S /\ Clock(rest.start) = c.end /\ Clock(rest.end) = Clock(slot.end)
          /\ Content(rest) = Content(slot)
      BY <1>5 DEF RestIs
    <3>3. kept \o after = Append(list, rest)
      <4>1. kept \o (<<new>> \o <<rest>>) = Append(Append(kept, new), rest)
        <5>1. kept \in Seq(S) BY <1>8
        <5>2. new \in S BY <1>2
        <5>3. rest \in S BY <3>2
        <5> QED BY ONLY <5>1, <5>2, <5>3, ConcatTwo
      <4> QED BY <3>1, <4>1, <1>15, Zenon
    <3>4. c.end <= Clock(rest.start) /\ Filled(rest)
      BY <3>2, <2>1, <1>1 DEF Filled
    <3>5. /\ Append(list, rest) \in Seq(S) /\ Append(list, rest) # <<>>
          /\ Chain(Append(list, rest), Clock(rest.end))
      BY <1>1, <1>6, <3>2, <3>4, Extended
    <3>7. ASSUME NEW t \in NowTimes
          PROVE  IF Within(c, t) THEN Contents(Append(list, rest), t) \cap Q # {}
                 ELSE Contents(Append(list, rest), t) = Before(slots, i + 1, t)
      <4>1. t \in Int BY DEF NowTimes
      <4>2. Contents(Append(list, rest), t) = Contents(list, t) \cup One(rest, t)
        BY <1>6, <3>2, ContentsAppended
      <4>3. One(rest, t) = IF c.end <= t /\ t < Clock(slot.end) THEN {Content(slot)} ELSE {}
        BY <3>2 DEF One, Covers
      <4>4. CASE Within(c, t)
        BY <4>2, <4>4, <1>2, <1>6 DEF CutSays
      <4>5. CASE t < c.start
        <5>1. ~Within(c, t) /\ One(rest, t) = {}
          BY <4>1, <4>3, <4>5, <1>1 DEF Within
        <5> QED BY <5>1, <4>2, <4>5, <1>6 DEF CutSays
      <4>6. CASE ~Within(c, t) /\ ~(t < c.start)
        <5>1. SlotAlone(slots, i + 1, slot, t)
          BY <4>6, BehindSays
        <5>2. c.end <= t
          BY <4>1, <4>6, <1>1 DEF Within
        <5>3. Contents(list, t) = {}
          BY <4>6, <1>6 DEF CutSays
        <5> QED BY <5>1, <5>2, <5>3, <4>2, <4>3, <4>6 DEF SlotAlone
      <4> QED BY <4>4, <4>5, <4>6
    <3>8. Done(Append(list, rest), slots, i + 1, c, Q)
      BY <3>7 DEF Done
    <3> QED BY <3>2, <3>3, <3>5, <1>17, <3>8, <1>1
  <2>2. CASE ~(c.end < Clock(slot.end))
    <3>1. after = <<new>>
      BY <2>2, <1>16
    <3>2. kept \o after = list
      BY <3>1, <1>2, <1>8, <1>15, ConcatOne
    <3>3. list # <<>>
      BY <3>1, <1>2, <1>8, <1>15, AppendProperties
    <3>4. ASSUME NEW t \in NowTimes
          PROVE  IF Within(c, t) THEN Contents(list, t) \cap Q # {}
                 ELSE Contents(list, t) = Before(slots, i + 1, t)
      <4>1. t \in Int BY DEF NowTimes
      <4>2. CASE Within(c, t) \/ t < c.start
        BY <4>2, <1>2, <1>6, <4>1, <1>1 DEF CutSays
      <4>3. CASE ~Within(c, t) /\ ~(t < c.start)
        <5>1. SlotAlone(slots, i + 1, slot, t)
          BY <4>3, BehindSays
        <5>2. ~(t < Clock(slot.end))
          BY <4>1, <4>3, <2>2, <1>1 DEF Within
        <5> QED BY <5>1, <5>2, <4>3, <1>6 DEF CutSays, SlotAlone
      <4> QED BY <4>2, <4>3
    <3>5. Done(list, slots, i + 1, c, Q)
      BY <3>4 DEF Done
    <3> QED BY <3>2, <3>3, <3>5, <1>1, <1>6, <1>17
  <2> QED BY <2>1, <2>2
<1>11. PICK full \in Seq(S), last \in Int :
         /\ full # <<>> /\ Chain(full, last) /\ full = kept \o after /\ after # <<>>
         /\ Done(full, slots, i + 1, c, Q)
  BY <1>10
<1>12. /\ u.out = full /\ u.last = last /\ Walking(u, S) /\ Alike(w, u) /\ u.split = <<>>
  <2>1. full = Kept(w, x) \o after
    BY <1>11 DEF kept
  <2>2. Leaves(w, u, S, full, last, after)
    BY <1>7, <1>9, <1>11, <2>1, TakeIs
  <2> QED BY <1>11, <2>2 DEF Leaves
<1>13. Untouched(w, u) /\ u.pending = w.pending
  BY <1>7, <1>12 DEF Alike, Untouched, WalkFields
<1>14. Inserted(u, Q, c, slots, i + 1)
  BY <1>11, <1>12 DEF Inserted
<1> QED BY <1>1, <1>12, <1>13, <1>14 DEF Inserting, Pending

\* The new slot begins in the slot, which is not the last.
UpTo(slot, c) == [slot EXCEPT !.end = c.start]
SecondHalf(w, slot, c) ==
  IF c.end < Clock(slot.end) THEN <<Behind(slot, c)>> ELSE w.split

LEMMA InsertInside ==
  ASSUME NEW S, NEW Q, NEW slots, NEW i, NEW c, Turn(S, slots, i, c), i + 1 < Len(slots),
         NEW w, Walking(w, S), Awaiting(w, S, c, slots, i), w.pending = TRUE,
         NEW slot, slot = slots[i + 1],
         Clock(slot.start) < c.start, c.start <= Clock(slot.end),
         NEW x, x = UpTo(slot, c), NEW split, split = SecondHalf(w, slot, c),
         NEW u, u = Take([w EXCEPT !.split = split], x, <<>>)
  PROVE  Inserting(u, S, Q, c, slots, i + 1) /\ Untouched(w, u)
<1> DEFINE v == [w EXCEPT !.split = split]
           rest == Behind(slot, c)
<1>1. /\ c.start \in 0..LastMinute /\ c.end \in 0..LastMinute
      /\ c.start \in Int /\ c.end \in Int /\ c.start < c.end /\ Movable(S)
      /\ slot \in S /\ Clock(slot.start) \in Int /\ Clock(slot.end) \in Int
      /\ Reach(slots, i) \in Int /\ Reach(slots, i) <= Clock(slot.start)
      /\ Reach(slots, i + 1) = Clock(slot.end)
      /\ Day(slots, S) /\ i \in Nat /\ i <= Len(slots) /\ Clock(slot.start) < Clock(slot.end)
  BY TurnFacts DEF LastMinute
<1>2. c.start \in Places /\ Clock(c.start) = c.start
  BY <1>1, ClockIs, MidnightAssumption DEF LastMinute, Places
<1>17. x = [slot EXCEPT !.end = c.start]
  BY DEF UpTo
<1>3. EndsAt(x, S, slot, c.start)
  BY <1>1, <1>2, <1>17, Shorter
<1>4. /\ x \in S /\ Clock(x.end) = c.start /\ Clock(x.start) = Clock(slot.start) /\ Filled(x)
  BY <1>1, <1>2, <1>3 DEF EndsAt, Filled
<1>5. /\ w.out \in Seq(S) /\ Chain(w.out, w.last) /\ WalkFields \subseteq DOMAIN w
      /\ w.last <= Reach(slots, i) /\ w.next = Unset
  BY DEF Walking, Awaiting
<1>6. w.last \in Int
  BY <1>1, <1>5, ChainLast DEF LastMinute
<1>7. w.split = <<>> /\ Reach(slots, i) <= c.end
  <2>1. Clock(slots[i + 1].start) < c.end
    BY <1>1
  <2> QED BY <2>1, NoSplit
<1>8. /\ v.out = w.out /\ v.last = w.last /\ v.next = w.next /\ v.pending = w.pending
      /\ v.split = split /\ Untouched(w, v) /\ WalkFields \subseteq DOMAIN v
  BY <1>5 DEF WalkFields, Untouched
<1>9. v.last <= Clock(x.start)
  BY <1>1, <1>4, <1>5, <1>6, <1>8
<1> HIDE DEF v
<1>10. u = Take(v, x, <<>>)
  BY DEF v
<1>11. v.out \in Seq(S) /\ Chain(v.out, w.last) /\ w.last <= Clock(x.start)
  BY <1>5, <1>8, <1>9
<1>12. Taken(v, u, x) /\ Walking(u, S) /\ Alike(v, u)
  BY <1>1, <1>4, <1>8, <1>9, <1>10, <1>11, TakeKept
<1>13. /\ u.out = Append(w.out, x) /\ u.last = c.start /\ u.split = split
       /\ u.next = Unset /\ u.pending = TRUE /\ Untouched(w, u)
  BY <1>4, <1>5, <1>8, <1>12 DEF Taken, Alike, Untouched, WalkFields
<1>14. Undone(u.out, slots, i + 1, c)
  <2> SUFFICES ASSUME NEW t \in NowTimes, t < c.start
               PROVE  Contents(u.out, t) = Before(slots, i + 1, t)
    BY DEF Undone
  <2>1. t \in Int BY DEF NowTimes
  <2>2. Contents(Append(w.out, x), t) = Contents(w.out, t) \cup One(x, t)
    BY <1>4, <1>5, ContentsAppended
  <2>3. Contents(w.out, t) = Before(slots, i, t)
    BY DEF Awaiting, Undone
  <2>4. SaysTo(x, slot, c.start, t)
    BY <1>1, <1>2, <1>17, ShorterSays
  <2>5. One(x, t) = One(slot, t)
    BY <2>1, <2>4, <1>1, <1>2 DEF SaysTo, One, Covers
  <2>6. Before(slots, i + 1, t) = Before(slots, i, t) \cup One(slot, t)
    BY <1>1, BeforeNext
  <2> QED BY <2>2, <2>3, <2>5, <2>6, <1>13
<1>15. \/ u.split = <<>> /\ Reach(slots, i + 1) <= c.end
       \/ \E r \in S : u.split = <<r>> /\ Rest(r, slots, i + 1, c)
  <2>1. CASE c.end < Clock(slot.end)
    <3>1. RestIs(rest, S, slot, c)
      BY RestMoved
    <3>2. u.split = <<rest>>
      BY <2>1, <1>13 DEF SecondHalf
    <3> HIDE DEF rest
    <3>3. ASSUME NEW t \in NowTimes, c.end <= t
          PROVE  Before(slots, i + 1, t) = One(rest, t)
      <4>1. t \in Int BY DEF NowTimes
      <4>2. ~Within(c, t) /\ ~(t < c.start)
        BY <4>1, <3>3, <1>1 DEF Within
      <4>3. SlotAlone(slots, i + 1, slot, t)
        BY <4>2, BehindSays
      <4> QED BY <4>3, <3>3, <3>1 DEF RestIs, One, Covers, SlotAlone
    <3>4. Rest(rest, slots, i + 1, c)
      BY <2>1, <3>1, <3>3, <1>1 DEF RestIs, Rest
    <3> QED BY <3>1, <3>2, <3>4 DEF RestIs
  <2>2. CASE ~(c.end < Clock(slot.end))
    BY <2>2, <1>1, <1>7, <1>13 DEF SecondHalf
  <2> QED BY <2>1, <2>2
<1>16. Awaiting(u, S, c, slots, i + 1)
  <2>1. u.next = Unset /\ u.last <= c.start /\ u.last <= Reach(slots, i + 1)
    BY <1>1, <1>13
  <2> QED BY <2>1, <1>14, <1>15, Zenon DEF Awaiting
<1> QED BY <1>1, <1>12, <1>13, <1>16 DEF Inserting, Pending

\* The slot ends before the new one.
LEMMA InsertLater ==
  ASSUME NEW S, NEW Q, NEW slots, NEW i, NEW c, Turn(S, slots, i, c), i + 1 < Len(slots),
         NEW w, Walking(w, S), Awaiting(w, S, c, slots, i), w.pending = TRUE,
         NEW slot, slot = slots[i + 1], Clock(slot.end) < c.start,
         NEW u, u = Take(w, slot, <<>>)
  PROVE  Inserting(u, S, Q, c, slots, i + 1) /\ Untouched(w, u)
<1>1. /\ c.start \in Int /\ c.end \in Int /\ c.start < c.end /\ Movable(S)
      /\ slot \in S /\ Clock(slot.start) \in Int /\ Clock(slot.end) \in Int
      /\ Reach(slots, i) \in Int /\ Reach(slots, i) <= Clock(slot.start)
      /\ Reach(slots, i + 1) = Clock(slot.end)
      /\ Day(slots, S) /\ i \in Nat /\ Clock(slot.start) < Clock(slot.end) /\ Filled(slot)
  BY TurnFacts DEF LastMinute
<1>2. /\ w.out \in Seq(S) /\ Chain(w.out, w.last) /\ WalkFields \subseteq DOMAIN w
      /\ w.last <= Reach(slots, i) /\ w.next = Unset
  BY DEF Walking, Awaiting
<1>3. w.last \in Int
  BY <1>1, <1>2, ChainLast DEF LastMinute
<1>4. w.split = <<>>
  <2>1. Clock(slots[i + 1].start) < c.end
    BY <1>1
  <2> QED BY <2>1, NoSplit
<1>5. w.last <= Clock(slot.start)
  BY <1>1, <1>2, <1>3
<1>6. Taken(w, u, slot) /\ Walking(u, S) /\ Alike(w, u)
  BY <1>1, <1>2, <1>5, TakeKept
<1>7. /\ u.out = Append(w.out, slot) /\ u.last = Clock(slot.end) /\ u.split = <<>>
      /\ u.next = Unset /\ u.pending = TRUE /\ Untouched(w, u)
  BY <1>2, <1>4, <1>6 DEF Taken, Alike, Untouched, WalkFields
<1>8. Undone(u.out, slots, i + 1, c)
  <2> SUFFICES ASSUME NEW t \in NowTimes, t < c.start
               PROVE  Contents(u.out, t) = Before(slots, i + 1, t)
    BY DEF Undone
  <2>1. Contents(Append(w.out, slot), t) = Contents(w.out, t) \cup One(slot, t)
    BY <1>1, <1>2, ContentsAppended
  <2>2. Contents(w.out, t) = Before(slots, i, t)
    BY DEF Awaiting, Undone
  <2>3. Before(slots, i + 1, t) = Before(slots, i, t) \cup One(slot, t)
    BY <1>1, BeforeNext
  <2> QED BY <2>1, <2>2, <2>3, <1>7
<1>9. Awaiting(u, S, c, slots, i + 1)
  BY <1>1, <1>7, <1>8 DEF Awaiting
<1> QED BY <1>1, <1>6, <1>7, <1>9 DEF Inserting, Pending

\* After the new slot: x is what is left of the slot.
LEMMA InsertedThen ==
  ASSUME NEW S, NEW Q, NEW slots, NEW i, NEW c, Turn(S, slots, i, c),
         NEW w, Walking(w, S), Inserted(w, Q, c, slots, i), w.pending = FALSE,
         NEW v, Untouched(w, v), v.pending = FALSE, v.next = Unset,
         v.split = <<>>, v.out = w.out, v.last = w.last,
         NEW x \in S, Filled(x), w.last <= Clock(x.start),
         Clock(x.end) = Clock(slots[i + 1].end), SameOutside(x, slots[i + 1], c),
         NEW u, u = Take(v, x, <<>>)
  PROVE  Inserting(u, S, Q, c, slots, i + 1) /\ Untouched(w, u)
<1>1. /\ i \in Nat /\ Movable(S) /\ Reach(slots, i + 1) = Clock(slots[i + 1].end)
      /\ Clock(slots[i + 1].end) \in Int
  BY TurnFacts DEF LastMinute
<1>2. WalkFields \subseteq DOMAIN w /\ w.out \in Seq(S) /\ Chain(w.out, w.last)
  BY DEF Walking
<1>3. WalkFields \subseteq DOMAIN v
  BY <1>2 DEF Untouched
<1>4. v.out \in Seq(S) /\ Chain(v.out, w.last) /\ v.last <= Clock(x.start)
  BY <1>2
<1>5. Taken(v, u, x) /\ Walking(u, S) /\ Alike(v, u)
  BY <1>1, <1>3, <1>4, TakeKept
<1>6. /\ u.out = Append(w.out, x) /\ u.last = Clock(x.end) /\ u.split = <<>>
      /\ u.next = Unset /\ u.pending = FALSE /\ Untouched(w, u)
  BY <1>2, <1>3, <1>5 DEF Taken, Alike, Untouched, WalkFields
<1>7. Done(u.out, slots, i + 1, c, Q)
  <2> SUFFICES ASSUME NEW t \in NowTimes
               PROVE  IF Within(c, t) THEN Contents(u.out, t) \cap Q # {}
                      ELSE Contents(u.out, t) = Before(slots, i + 1, t)
    BY DEF Done
  <2>1. Contents(Append(w.out, x), t) = Contents(w.out, t) \cup One(x, t)
    BY <1>2, ContentsAppended
  <2>2. Before(slots, i + 1, t) = Before(slots, i, t) \cup One(slots[i + 1], t)
    BY <1>1, BeforeNext
  <2>3. CASE Within(c, t)
    <3>1. Contents(w.out, t) \cap Q # {}
      BY <2>3 DEF Inserted, Done
    <3> QED BY <2>1, <2>3, <3>1, <1>6
  <2>4. CASE ~Within(c, t)
    <3>1. Contents(w.out, t) = Before(slots, i, t)
      BY <2>4 DEF Inserted, Done
    <3>2. One(x, t) = One(slots[i + 1], t)
      BY <2>4 DEF SameOutside
    <3> QED BY <2>1, <2>2, <2>4, <3>1, <3>2, <1>6
  <2> QED BY <2>3, <2>4
<1>8. u.last <= Reach(slots, i + 1)
  BY <1>1, <1>6
<1>9. Inserted(u, Q, c, slots, i + 1)
  BY <1>6, <1>7, <1>8 DEF Inserted
<1> QED BY <1>5, <1>6, <1>9 DEF Inserting, Pending

\* The start of the slot is delayed, if need be.
LEMMA InsertDelayed ==
  ASSUME NEW S, NEW Q, NEW slots, NEW i, NEW c, Turn(S, slots, i, c),
         NEW w, Walking(w, S), Inserted(w, Q, c, slots, i), w.pending = FALSE,
         NEW slot, slot = slots[i + 1], w.next # Unset, w.next < Clock(slot.end),
         NEW u, u = Delay(w, slot)
  PROVE  Inserting(u, S, Q, c, slots, i + 1) /\ Untouched(w, u)
<1> DEFINE v == [w EXCEPT !.next = Unset]
           x == Trimmed(slot, c)
<1>1. /\ i \in Nat /\ i + 1 <= Len(slots) /\ Len(slots) \in Nat
      /\ Reach(slots, i) <= Clock(slot.start)
      /\ Reach(slots, i) \in Int /\ Clock(slot.start) \in Int /\ c.start \in Int
  BY TurnFacts DEF LastMinute
<1>2. /\ w.next = c.end /\ w.last = c.end /\ c.start <= Reach(slots, i) /\ w.split = <<>>
  BY <1>1 DEF Inserted
<1>3. c.start <= Clock(slot.start) /\ c.end < Clock(slot.end)
  BY <1>1, <1>2
<1>4. u = Take(v, x, <<>>)
  BY <1>2 DEF Delay, Trimmed
<1>5. WalkFields \subseteq DOMAIN w
  BY DEF Walking
<1>6. /\ Untouched(w, v) /\ v.pending = FALSE /\ v.next = Unset /\ v.split = <<>>
      /\ v.out = w.out /\ v.last = w.last
  BY <1>2, <1>5 DEF Untouched, WalkFields
<1> HIDE DEF v, x
<1>7. LeftOf(x, S, slot, c)
  BY <1>3, RestOf DEF x
<1>8. /\ x \in S /\ Filled(x) /\ Clock(x.end) = Clock(slots[i + 1].end)
      /\ w.last <= Clock(x.start) /\ SameOutside(x, slots[i + 1], c)
  BY <1>2, <1>7 DEF LeftOf
<1> QED BY <1>4, <1>6, <1>8, InsertedThen

\* The slot is taken over, or dropped: the new one covers it.
LEMMA InsertPassed ==
  ASSUME NEW S, NEW Q, NEW slots, NEW i, NEW c, Turn(S, slots, i, c),
         NEW w, Walking(w, S), Inserted(w, Q, c, slots, i), w.pending = FALSE,
         NEW slot, slot = slots[i + 1], ~(w.next # Unset /\ w.next < Clock(slot.end)),
         NEW u, u = Take(w, slot, <<>>)
  PROVE  Inserting(u, S, Q, c, slots, i + 1) /\ Untouched(w, u)
<1>1. /\ i \in Nat /\ i + 1 <= Len(slots) /\ Len(slots) \in Nat /\ Movable(S)
      /\ Reach(slots, i) <= Clock(slot.start) /\ Reach(slots, i + 1) = Clock(slot.end)
      /\ Reach(slots, i) \in Int /\ Clock(slot.start) \in Int /\ Clock(slot.end) \in Int
      /\ c.start \in Int /\ c.end \in Int /\ Clock(slot.start) < Clock(slot.end)
      /\ slot \in S /\ Filled(slot) /\ c.start < c.end /\ 0 <= c.start
  BY TurnFacts DEF LastMinute
<1>2. WalkFields \subseteq DOMAIN w /\ w.out \in Seq(S) /\ Chain(w.out, w.last)
  BY DEF Walking
<1>3. w.last \in Int
  BY <1>1, <1>2, ChainLast DEF LastMinute
<1>4. CASE w.next = Unset /\ w.last <= Reach(slots, i)
  <2>1. w.last <= Clock(slot.start) /\ w.split = <<>> /\ Untouched(w, w)
    BY <1>1, <1>3, <1>4 DEF Inserted, Untouched
  <2>2. SameOutside(slot, slots[i + 1], c)
    BY DEF SameOutside
  <2>3. Clock(slot.end) = Clock(slots[i + 1].end)
    OBVIOUS
  <2> QED BY <1>1, <1>4, <2>1, <2>2, <2>3, InsertedThen
<1>5. CASE w.next = c.end /\ w.last = c.end /\ c.start <= Reach(slots, i)
  <2>1. /\ Clock(slot.end) <= c.end /\ c.start <= Clock(slot.start)
        /\ ~(w.last <= Clock(slot.start)) /\ w.last # 0
    BY <1>1, <1>5, MidnightAssumption DEF Unset
  <2>2. w.out # <<>>
    BY <2>1, <1>2 DEF Chain
  <2>3. PassedOver(w, u) /\ Walking(u, S) /\ Alike(w, u)
    BY <2>1, <2>2, TakeDropped
  <2>4. /\ u.out = w.out /\ u.last = c.end /\ u.split = <<>> /\ u.next = c.end
        /\ u.pending = FALSE /\ Untouched(w, u)
    BY <2>3, <1>2, <1>5 DEF PassedOver, Alike, Untouched, WalkFields, Inserted
  <2>5. Done(u.out, slots, i + 1, c, Q)
    <3> SUFFICES ASSUME NEW t \in NowTimes
                 PROVE  IF Within(c, t) THEN Contents(w.out, t) \cap Q # {}
                        ELSE Contents(w.out, t) = Before(slots, i + 1, t)
      BY <2>4 DEF Done
    <3>1. IF Within(c, t) THEN Contents(w.out, t) \cap Q # {}
          ELSE Contents(w.out, t) = Before(slots, i, t)
      BY DEF Inserted, Done
    <3>2. Before(slots, i + 1, t) = Before(slots, i, t) \cup One(slot, t)
      BY <1>1, BeforeNext
    <3>3. t \in Int BY DEF NowTimes
    <3>4. ~Within(c, t) => One(slot, t) = {}
      BY <3>3, <2>1, <1>1 DEF Within, One, Covers
    <3> QED BY <3>1, <3>2, <3>4
  <2>6. Inserted(u, Q, c, slots, i + 1)
    <3>1. c.start <= Reach(slots, i + 1)
      BY <2>1, <1>1
    <3> QED BY <2>4, <2>5, <3>1 DEF Inserted
  <2> QED BY <2>3, <2>4, <2>6 DEF Inserting, Pending
<1> QED BY <1>1, <1>4, <1>5 DEF Inserted

\* InsertHere puts the new slot in.
LEMMA InsertedHere ==
  ASSUME NEW S, NEW Q, NEW slots, NEW i, NEW c, Turn(S, slots, i, c),
         NEW w, Walking(w, S), Awaiting(w, S, c, slots, i), w.pending = TRUE,
         NEW new, IsNew(new, S, Q, c), NEW slot, slot = slots[i + 1],
         c.start <= Clock(slot.start) \/ i + 1 = Len(slots),
         NEW u, u = InsertHere(w, c, slot, new)
  PROVE  Inserting(u, S, Q, c, slots, i + 1) /\ Untouched(w, u)
<1>1. /\ c.start \in Int /\ c.end \in Int
      /\ Clock(slot.start) \in Int /\ Clock(slot.end) \in Int
  BY TurnFacts DEF LastMinute
<1>2. CASE c.start <= Clock(slot.start) /\ c.end >= Clock(slot.end)
  <2>1. u = WholeIn(w, new, slot, c)
    BY <1>2 DEF InsertHere, WholeIn
  <2> QED BY <1>2, <2>1, InsertWhole
<1>3. CASE c.start <= Clock(slot.start) /\ ~(c.end >= Clock(slot.end)) /\ w.split # <<>>
  <2>1. u = Take([[w EXCEPT !.out = Append(@, new), !.pending = FALSE]
                    EXCEPT !.out = @ \o w.split, !.split = <<>>], slot, <<>>)
    <3>1. [w EXCEPT !.out = Append(@, new), !.pending = FALSE].split = w.split
      BY DEF Walking, WalkFields
    <3> QED BY <1>3, <3>1 DEF InsertHere
  <2> QED BY <1>3, <2>1, InsertAfterSplit
<1>4. CASE c.start <= Clock(slot.start) /\ ~(c.end >= Clock(slot.end)) /\ w.split = <<>>
  <2>1. u = Take([w EXCEPT !.out = Append(@, new), !.pending = FALSE],
                 Trimmed(slot, c), <<>>)
    BY <1>4 DEF InsertHere, Trimmed
  <2>2. c.end < Clock(slot.end)
    BY <1>1, <1>4
  <2> QED BY <1>4, <2>1, <2>2, InsertBefore
<1>5. CASE ~(c.start <= Clock(slot.start))
  <2>0. InsertHere(w, c, slot, new) = Take(w, Cut(slot, c), NewLast(w, new, slot, c))
    BY <1>5, Zenon DEF InsertHere, Cut, Behind, NewLast
  <2>1. u = Take(w, Cut(slot, c), NewLast(w, new, slot, c))
    BY <2>0
  <2>2. Clock(slot.start) < c.start /\ i + 1 = Len(slots)
    BY <1>1, <1>5
  <2>3. w.pending \in BOOLEAN
    OBVIOUS
  <2> QED BY <2>1, <2>2, <2>3, InsertLast
<1> QED BY <1>2, <1>3, <1>4, <1>5

\* InsertNext gets ready for it.
LEMMA InsertedNext ==
  ASSUME NEW S, NEW Q, NEW slots, NEW i, NEW c, Turn(S, slots, i, c),
         NEW w, Walking(w, S), Awaiting(w, S, c, slots, i), w.pending = TRUE,
         NEW slot, slot = slots[i + 1], i + 1 # Len(slots),
         ~(c.start <= Clock(slot.start)), c.start <= Clock(slot.end),
         NEW u, u = InsertNext(w, c, slot)
  PROVE  Inserting(u, S, Q, c, slots, i + 1) /\ Untouched(w, u)
<1>1. /\ c.start \in Int /\ Clock(slot.start) \in Int /\ i + 1 <= Len(slots)
      /\ Len(slots) \in Nat /\ i \in Nat
  BY TurnFacts DEF LastMinute
<1>2. Clock(slot.start) < c.start /\ i + 1 < Len(slots)
  BY <1>1
<1>3. u = Take([w EXCEPT !.split = SecondHalf(w, slot, c)], UpTo(slot, c), <<>>)
  BY DEF InsertNext, SecondHalf, UpTo, Behind
<1> QED BY <1>2, <1>3, InsertInside

\* Only parameters differ.
SameWalk(w, v) ==
  DOMAIN v = DOMAIN w /\ \A f \in WalkFields : v[f] = w[f]

LEMMA SameGoesOn ==
  ASSUME NEW S, NEW slots, NEW i, NEW c, NEW w, Walking(w, S), NEW v, SameWalk(w, v)
  PROVE  /\ Walking(v, S) /\ v.pending = w.pending /\ v.next = w.next
         /\ Awaiting(w, S, c, slots, i) => Awaiting(v, S, c, slots, i)
  BY DEF Walking, SameWalk, WalkFields, Awaiting

(***************************************************************************)
(* The slots of a first generation schedule, within their limits: b banks, *)
(* m tells whether they have a mode.                                       *)
(***************************************************************************)
LimitsAgree(b) == b = 2 => MinLoad = 2 * DevMin
AllAgree == \A s \in Schedules : LimitsAgree(s.banks)

HomeSlots(b, m) == {s \in LoadSlots : InLoads(s, b) /\ HasMode(s) = m}

\* The banks of the site and the banks that the slots tell.
BanksFit(b, n, m) ==
  /\ b \in {1, 2} /\ n \in {1, 2} /\ n <= b /\ m \in BOOLEAN
  /\ n = 2 => m /\ (m => n = b)

LEMMA HomeMovable ==
  ASSUME NEW b, NEW m PROVE Movable(HomeSlots(b, m))
<1> SUFFICES ASSUME NEW s \in HomeSlots(b, m)
             PROVE  /\ {"start", "end"} \subseteq DOMAIN s
                    /\ s.start \in Places /\ s.end \in Places
                    /\ \A a \in Places : /\ [s EXCEPT !.start = a] \in HomeSlots(b, m)
                                         /\ [s EXCEPT !.end = a] \in HomeSlots(b, m)
  BY DEF Movable
<1>1. s \in LoadSlots /\ InLoads(s, b) /\ HasMode(s) = m
  BY DEF HomeSlots
<1>2. ASSUME NEW a \in Places
      PROVE  [s EXCEPT !.start = a] \in HomeSlots(b, m) /\ [s EXCEPT !.end = a] \in HomeSlots(b, m)
  BY <1>1 DEF HomeSlots, LoadSlots, InLoads, HasMode, Places
<1>3. {"start", "end"} \subseteq DOMAIN s /\ s.start \in Places /\ s.end \in Places
  BY <1>1 DEF LoadSlots, Places
<1> QED BY <1>2, <1>3

LEMMA SlotFacts ==
  ASSUME NEW b, NEW m, NEW s \in HomeSlots(b, m)
  PROVE  /\ s \in LoadSlots /\ (HasMode(s) <=> m)
         /\ s.power \in MinLoad..TopLoad(b)
         /\ m => s.own \in DevMin..PresetMax /\ s.other \in DevMin..PresetMax
         /\ s.power \in Int /\ s.own \in Int /\ s.other \in Int /\ s.on \in Int /\ s.prio \in Int
  BY DEF HomeSlots, InLoads, LoadSlots

LEMMA TopIs ==
  /\ TopLoad(1) = PresetMax /\ TopLoad(2) = 2 * PresetMax
  /\ PresetMax \in Nat /\ MinLoad \in Nat /\ DevMin \in Nat /\ PresetDef \in Nat
  /\ DevMin <= MinLoad /\ MinLoad <= PresetMax /\ PrioDef \in Nat
<1>1. /\ PresetMax \in Nat /\ MinLoad \in Nat /\ DevMin \in Nat /\ MaxLoad \in Nat
      /\ DevMin <= MinLoad /\ MinLoad <= PresetMax /\ PresetMax <= MaxLoad
      /\ PresetDef \in Nat /\ PrioDef \in Nat
  BY HomeAssumption
<1> QED BY <1>1 DEF TopLoad, Least

(***************************************************************************)
(* The parameters of a call, and of the walk.                              *)
(***************************************************************************)
InCall(c, n) ==
  /\ Fits(c) /\ c.kind \in {"now", "all", "insert", "set"}
  /\ c.power = Unset \/ c.power \in MinLoad..TopLoad(n)
  /\ c.own = Unset \/ (n = 2 /\ c.own \in DevMin..PresetMax)
  /\ c.on \in Int /\ c.prio \in Int

ParamFields == {"power", "own", "on", "prio", "mode"}

Loads(w, b, m) ==
  /\ w.power = Unset \/ w.power \in MinLoad..TopLoad(b)
  /\ w.own = Unset \/ (m /\ w.own \in DevMin..PresetMax)
  /\ w.mode \in {"unset", "normal", "advanced"}
  /\ w.mode = "advanced" <=> w.own # Unset
  /\ w.own # Unset => b = 2 \/ w.power # Unset
  /\ w.on \in Int /\ w.prio \in Int

Wants(w, c) ==
  /\ Given(c.on, w.on) /\ Given(c.prio, w.prio) /\ Given(c.own, w.own)
  /\ c.own = Unset /\ c.power # Unset => w.power = c.power /\ w.own = Unset

Params(w, b, m, c) ==
  ParamFields \subseteq DOMAIN w /\ Loads(w, b, m) /\ Wants(w, c)

LEMMA ParamsKept ==
  ASSUME NEW w, NEW u, Untouched(w, u), NEW b, NEW m, NEW c, Params(w, b, m, c)
  PROVE  Params(u, b, m, c)
  BY DEF Untouched, Params, ParamFields, WalkFields, Loads, Wants

LEMMA ReusedIs ==
  ASSUME NEW b, NEW n, NEW m, BanksFit(b, n, m), LimitsAgree(b),
         NEW c, InCall(c, n), NEW w, WalkFields \subseteq DOMAIN w, Params(w, b, m, c),
         NEW slot \in HomeSlots(b, m), NEW r, r = Reused(w, slot)
  PROVE  Params(r, b, m, c) /\ SameWalk(w, r) /\ r.on = w.on /\ r.prio = w.prio
         /\ r.power # Unset
  BY SlotFacts, TopIs DEF Reused, Params, ParamFields, Loads, Wants, Given, SameWalk,
     WalkFields, HasMode, LimitsAgree, Unset, BanksFit

LEMMA ReusedAllIs ==
  ASSUME NEW b, NEW n, NEW m, BanksFit(b, n, m), LimitsAgree(b),
         NEW c, InCall(c, n), NEW w, WalkFields \subseteq DOMAIN w, Params(w, b, m, c),
         NEW slot \in HomeSlots(b, m), NEW r, r = ReusedAll(w, slot)
  PROVE  Params(r, b, m, c) /\ SameWalk(w, r)
<1> DEFINE v == Reused(w, slot)
<1>1. Params(v, b, m, c) /\ SameWalk(w, v) /\ v.on = w.on /\ v.prio = w.prio
  BY ReusedIs
<1>2. r = [v EXCEPT !.on = Or(@, slot.on), !.prio = Or(@, slot.prio)]
  BY DEF ReusedAll
<1>3. slot.on \in Int /\ slot.prio \in Int
  BY SlotFacts
<1> HIDE DEF v
<1>4. WalkFields \cup ParamFields \subseteq DOMAIN v
  BY <1>1 DEF SameWalk, Params
<1>5. /\ r.on = Or(v.on, slot.on) /\ r.prio = Or(v.prio, slot.prio)
      /\ r.power = v.power /\ r.own = v.own /\ r.mode = v.mode /\ DOMAIN r = DOMAIN v
      /\ \A f \in WalkFields : r[f] = v[f]
  BY <1>2, <1>4 DEF WalkFields, ParamFields
<1>6. SameWalk(w, r)
  BY <1>1, <1>5 DEF SameWalk
<1>7. Loads(r, b, m)
  BY <1>1, <1>3, <1>5 DEF Params, Loads, Or
<1>8. Wants(r, c)
  BY <1>1, <1>5 DEF Params, Wants, Given, Or, Unset
<1> QED BY <1>1, <1>5, <1>6, <1>7, <1>8 DEF Params

\* A device load of two banks leaves a load for the other one.
LEMMA FollowedIs ==
  ASSUME NEW own \in DevMin..PresetMax, NEW power \in Int, MinLoad = 2 * DevMin
  PROVE  /\ Followed(power, own, 2) \in MinLoad..TopLoad(2)
         /\ Followed(power, own, 2) - own \in DevMin..PresetMax
  BY TopIs DEF Followed, Most, Least

LEMMA Clamped ==
  ASSUME NEW x \in Int, NEW lo \in Int, NEW hi \in Int, lo <= hi
  PROVE  Clamp(x, lo, hi) \in lo..hi /\ (x \in lo..hi => Clamp(x, lo, hi) = x)
  BY DEF Clamp, Least, Most

LEMMA TopFits ==
  ASSUME NEW b, NEW n, NEW m, BanksFit(b, n, m)
  PROVE  /\ TopLoad(n) \in Int /\ TopLoad(b) \in Int /\ MinLoad \in Int
         /\ MinLoad <= TopLoad(n) /\ TopLoad(n) <= TopLoad(b) /\ PresetMax <= TopLoad(n)
         /\ n \in Int /\ (n = 1 \/ n = 2)
  BY TopIs DEF BanksFit

\* The appliance load of a new slot: what was given, else a default.
LEMMA ApplianceIs ==
  ASSUME NEW b, NEW n, NEW m, BanksFit(b, n, m), LimitsAgree(b),
         NEW c, InCall(c, n), NEW w, Params(w, b, m, c),
         NEW exact, exact \in BOOLEAN, m /\ w.own # Unset => ~exact
  PROVE  /\ Appliance(w.power, w.own, n, exact) \in Int
         /\ w.own = Unset /\ w.power # Unset
              => Appliance(w.power, w.own, n, exact) = w.power
         /\ w.own # Unset /\ n = 2
              => /\ Appliance(w.power, w.own, n, exact) \in MinLoad..TopLoad(2)
                 /\ Appliance(w.power, w.own, n, exact) - w.own \in DevMin..PresetMax
<1> DEFINE load == Appliance(w.power, w.own, n, exact)
<1>1. /\ TopLoad(n) \in Int /\ TopLoad(b) \in Int /\ MinLoad \in Int /\ n \in Int
      /\ (n = 1 \/ n = 2) /\ PresetDef \in Int /\ DevMin \in Nat /\ PresetMax \in Nat
      /\ TopLoad(2) = 2 * PresetMax /\ (n = 2 => MinLoad = 2 * DevMin)
  BY TopFits, TopIs DEF LimitsAgree, BanksFit
<1>2. /\ w.power = Unset \/ w.power \in Int
      /\ w.own = Unset \/ (m /\ w.own \in DevMin..PresetMax)
  BY <1>1 DEF Params, Loads
<1>3. CASE w.own = Unset
  BY <1>1, <1>2, <1>3 DEF Appliance
<1>4. CASE w.own # Unset /\ w.power = Unset
  <2>1. load = w.own * n
    BY <1>4 DEF Appliance
  <2>2. w.own \in DevMin..PresetMax
    BY <1>2, <1>4
  <2>3. CASE n = 1
    BY <2>1, <2>2, <2>3, <1>1, <1>4
  <2>4. CASE n = 2
    <3>1. load = 2 * w.own /\ w.own \in Int
      BY <2>1, <2>2, <2>4, <1>1
    <3> HIDE DEF load
    <3>2. load \in MinLoad..TopLoad(2) /\ load - w.own \in DevMin..PresetMax /\ load \in Int
      BY <3>1, <2>2, <2>4, <1>1
    <3> QED BY <3>2, <1>4 DEF load
  <2> QED BY <2>3, <2>4, <1>1
<1>5. CASE w.own # Unset /\ w.power # Unset
  <2>1. load = Followed(w.power, w.own, n) /\ w.own \in DevMin..PresetMax /\ w.power \in Int
    BY <1>2, <1>5 DEF Appliance
  <2>2. CASE n = 1
    <3>1. Followed(w.power, w.own, 1) \in Int
      BY <2>1, <1>1 DEF Followed, Most, Least
    <3> QED BY <3>1, <2>1, <2>2, <1>5
  <2>3. CASE n = 2
    <3>1. /\ Followed(w.power, w.own, 2) \in MinLoad..TopLoad(2)
          /\ Followed(w.power, w.own, 2) - w.own \in DevMin..PresetMax
      BY <2>1, <2>3, <1>1, FollowedIs
    <3> QED BY <3>1, <2>1, <2>3, <1>1, <1>5
  <2> QED BY <2>2, <2>3, <1>1
<1> QED BY <1>3, <1>4, <1>5

LEMMA InsertLoadIs ==
  ASSUME NEW b, NEW n, NEW m, BanksFit(b, n, m), LimitsAgree(b),
         NEW c, InCall(c, n), NEW r, WalkFields \subseteq DOMAIN r, Params(r, b, m, c),
         NEW slot \in HomeSlots(b, m), NEW load, load = InsertLoad(r, n, slot),
         NEW v, v = [r EXCEPT !.power = load]
  PROVE  /\ Params(v, b, m, c) /\ SameWalk(r, v) /\ v.power = load /\ v.own = r.own
         /\ load \in MinLoad..TopLoad(n)
         /\ r.own # Unset /\ n = 2 => load - r.own \in DevMin..PresetMax
<1> DEFINE exact == r.mode = "unset" \/ ~HasMode(slot)
           free == Appliance(r.power, r.own, n, exact)
<1>1. /\ TopLoad(n) \in Int /\ TopLoad(b) \in Int /\ MinLoad \in Int
      /\ MinLoad <= TopLoad(n) /\ TopLoad(n) <= TopLoad(b)
  BY TopFits
<1>2. exact \in BOOLEAN /\ (m /\ r.own # Unset => ~exact)
  BY SlotFacts DEF Params, Loads
<1>3. load = Clamp(free, MinLoad, TopLoad(n))
  BY DEF InsertLoad
<1> HIDE DEF exact
<1>4. /\ free \in Int
      /\ r.own = Unset /\ r.power # Unset => free = r.power
      /\ r.own # Unset /\ n = 2
           => free \in MinLoad..TopLoad(2) /\ free - r.own \in DevMin..PresetMax
  BY <1>2, ApplianceIs
<1> HIDE DEF free
<1>5. load \in MinLoad..TopLoad(n) /\ (free \in MinLoad..TopLoad(n) => load = free)
  BY <1>1, <1>3, <1>4, Clamped
<1>6. r.own # Unset /\ n = 2 => load - r.own \in DevMin..PresetMax
  BY <1>4, <1>5
<1>7. /\ v.power = load /\ v.own = r.own /\ v.mode = r.mode /\ v.on = r.on /\ v.prio = r.prio
      /\ DOMAIN v = DOMAIN r /\ SameWalk(r, v)
  BY DEF Params, ParamFields, SameWalk, WalkFields
<1>8. load # Unset
  BY <1>1, <1>5, TopIs DEF Unset
<1>9. Loads(v, b, m)
  BY <1>1, <1>5, <1>7, <1>8 DEF Params, Loads
<1>10. Wants(v, c)
  BY <1>4, <1>5, <1>7 DEF Params, Wants, InCall
<1> QED BY <1>5, <1>6, <1>7, <1>9, <1>10 DEF Params

\* What asks for what the call has given.
Wanted(b, m, c) == {Content(s) : s \in {x \in HomeSlots(b, m) : Asks(c, x)}}

LEMMA InsertSlotIs ==
  ASSUME NEW b, NEW n, NEW m, BanksFit(b, n, m), LimitsAgree(b),
         NEW c, InCall(c, n), NEW v, Params(v, b, m, c),
         v.power \in MinLoad..TopLoad(n),
         v.own # Unset /\ n = 2 => v.power - v.own \in DevMin..PresetMax,
         NEW slot \in HomeSlots(b, m), NEW overwrite \in BOOLEAN,
         NEW new, new = InsertSlot(v, n, c, slot, overwrite)
  PROVE  IsNew(new, HomeSlots(b, m), Wanted(b, m, c), c)
<1>1. /\ TopLoad(n) \in Int /\ TopLoad(b) \in Int /\ MinLoad \in Int
      /\ MinLoad <= TopLoad(n) /\ TopLoad(n) <= TopLoad(b) /\ n \in Int /\ (n = 1 \/ n = 2)
      /\ TopLoad(1) = PresetMax /\ TopLoad(2) = 2 * PresetMax /\ (n = 2 => MinLoad = 2 * DevMin)
      /\ DevMin \in Nat /\ PresetMax \in Nat /\ PrioDef \in Nat /\ DevMin <= MinLoad
  BY TopFits, TopIs DEF LimitsAgree, BanksFit
<1>2. /\ slot \in LoadSlots /\ (HasMode(slot) <=> m)
      /\ m => slot.own \in DevMin..PresetMax /\ slot.other \in DevMin..PresetMax
  BY SlotFacts
<1>3. c.start \in Places /\ Text(c.end) \in Places /\ c.start \in Int
  BY TextIs DEF InCall, Fits, LastMinute
<1>4. v.power \in Int /\ v.power \in MinLoad..TopLoad(b)
  BY <1>1
<1>5. v.power \div n \in Int /\ v.power \div n \in DevMin..PresetMax
  <2>1. CASE n = 1 BY <2>1, <1>1
  <2>2. CASE n = 2
    <3>1. v.power \in (2 * DevMin)..(2 * PresetMax)
      BY <2>2, <1>1
    <3>2. v.power \div 2 \in DevMin..PresetMax
      BY <3>1, <1>1
    <3> QED BY <3>2, <2>2, <1>1
  <2> QED BY <2>1, <2>2, <1>1
<1> DEFINE half == v.power \div n
<1>6. half \in DevMin..PresetMax
  BY <1>5
<1> HIDE DEF half
<1>7. /\ v.own = Unset \/ (m /\ v.own \in DevMin..PresetMax)
      /\ v.mode \in {"unset", "normal", "advanced"} /\ v.on \in Int /\ v.prio \in Int
  BY DEF Params, Loads
<1>8. /\ DOMAIN new = DOMAIN slot /\ new.start = c.start /\ new.end = Text(c.end)
      /\ new.power = v.power
      /\ new.mode = IF ~HasMode(slot) THEN slot.mode
                    ELSE IF v.mode = "unset" THEN "normal" ELSE v.mode
      /\ new.own = IF ~HasMode(slot) THEN slot.own
                   ELSE IF v.own = Unset THEN half ELSE v.own
      /\ new.other = IF ~HasMode(slot) \/ n = 1 THEN slot.other
                     ELSE IF v.own = Unset THEN half ELSE v.power - v.own
      /\ new.on = IF v.on # Unset THEN v.on ELSE IF overwrite THEN 1 ELSE slot.on
      /\ new.prio = IF v.prio # Unset THEN v.prio
                    ELSE IF overwrite THEN PrioDef ELSE slot.prio
  BY <1>2 DEF InsertSlot, half, LoadSlots
<1>9. HasMode(new) <=> m
  BY <1>2, <1>7, <1>8 DEF HasMode
<1>10. m => new.own \in DevMin..PresetMax /\ new.other \in DevMin..PresetMax
  BY <1>1, <1>2, <1>6, <1>7, <1>8
<1>11. new \in LoadSlots
  <2>1. new = [start |-> new.start, end |-> new.end, power |-> new.power, on |-> new.on,
               prio |-> new.prio, mode |-> new.mode, own |-> new.own, other |-> new.other]
    BY <1>2 DEF InsertSlot, LoadSlots
  <2>2. new.start \in Places /\ new.end \in Places /\ new.power \in Int
    BY <1>3, <1>4, <1>8
  <2>3. new.on \in Int /\ new.prio \in Int
    BY <1>1, <1>2, <1>7, <1>8 DEF LoadSlots
  <2>4. new.mode \in {"none", "normal", "advanced"}
    BY <1>2, <1>7, <1>8 DEF LoadSlots
  <2>5. new.own \in Int /\ new.other \in Int
    <3>1. CASE m BY <3>1, <1>1, <1>10
    <3>2. CASE ~m BY <3>2, <1>2, <1>8 DEF LoadSlots
    <3> QED BY <3>1, <3>2
  <2> QED BY <2>1, <2>2, <2>3, <2>4, <2>5 DEF LoadSlots, Places
<1>12. InLoads(new, b)
  BY <1>4, <1>8, <1>9, <1>10 DEF InLoads
<1>13. new \in HomeSlots(b, m)
  <2>1. HasMode(new) = m
    BY <1>9 DEF HasMode, BanksFit
  <2> QED BY <2>1, <1>11, <1>12 DEF HomeSlots
<1>14. Asks(c, new)
  BY <1>7, <1>8 DEF Params, Wants, Asks, Given, HasMode
<1> QED BY <1>8, <1>13, <1>14 DEF IsNew, Wanted

\* A turn of a call that inserts a slot.
LEMMA HomeInsertTurn ==
  ASSUME NEW b, NEW n, NEW m, BanksFit(b, n, m), LimitsAgree(b),
         NEW c, InCall(c, n), NEW slots, NEW i, Turn(HomeSlots(b, m), slots, i, c),
         NEW w, Inserting(w, HomeSlots(b, m), Wanted(b, m, c), c, slots, i), Params(w, b, m, c),
         i = 0 => w.pending,
         NEW u, u = InsertTurn(w, n, c, slots[i + 1], i + 1 = Len(slots))
  PROVE  /\ Inserting(u, HomeSlots(b, m), Wanted(b, m, c), c, slots, i + 1)
         /\ Params(u, b, m, c)
<1> DEFINE S == HomeSlots(b, m)
           Q == Wanted(b, m, c)
           slot == slots[i + 1]
           isLast == i + 1 = Len(slots)
           overwrite == Overwrites(c, slot)
           r == IF overwrite THEN w ELSE Reused(w, slot)
           v == [r EXCEPT !.power = InsertLoad(r, n, slot)]
<1>1. /\ slot \in S /\ i \in Nat /\ i + 1 <= Len(slots) /\ Len(slots) \in Nat
      /\ Clock(slot.start) \in Int /\ Clock(slot.end) \in Int
      /\ c.start \in Int /\ c.end \in Int
  BY TurnFacts DEF LastMinute
<1>2. Walking(w, S) /\ WalkFields \subseteq DOMAIN w /\ w.pending \in BOOLEAN
  BY DEF Inserting, Walking
<1>3. (i = 0 \/ i < Len(slots)) /\ overwrite \in BOOLEAN
  BY <1>1 DEF Overwrites
<1> HIDE DEF S, Q, slot, overwrite
<1>4. CASE w.pending = TRUE
  <2>1. Awaiting(w, S, c, slots, i)
    BY <1>3, <1>4 DEF Inserting, Pending, S
  <2>2. CASE c.start <= Clock(slot.start) \/ isLast
    <3>1. u = InsertHere(v, c, slot, InsertSlot(v, n, c, slot, overwrite))
      <4>1. /\ BeginsHere(w, c, slot, isLast) /\ ~BeginsIn(w, c, slot, isLast)
            /\ ~Delayed(w, slot)
        BY <1>4, <2>2 DEF BeginsHere, BeginsIn, Delayed
      <4>2. InsertTurn(w, n, c, slot, isLast)
              = InsertHere(v, c, slot, InsertSlot(v, n, c, slot, overwrite))
        BY <4>1, Zenon DEF InsertTurn, overwrite
      <4> QED BY <4>2 DEF slot
    <3>2. Params(r, b, m, c) /\ SameWalk(w, r)
      <4>1. CASE overwrite
        BY <4>1 DEF SameWalk
      <4>2. CASE ~overwrite
        BY <4>2, <1>1, <1>2, ReusedIs DEF S
      <4> QED BY <4>1, <4>2
    <3> HIDE DEF r
    <3>3. WalkFields \subseteq DOMAIN r
      BY <1>2, <3>2 DEF SameWalk
    <3>4. /\ Params(v, b, m, c) /\ SameWalk(r, v) /\ v.power \in MinLoad..TopLoad(n)
          /\ v.own # Unset /\ n = 2 => v.power - v.own \in DevMin..PresetMax
      BY <1>1, <3>2, <3>3, InsertLoadIs DEF S
    <3>5. SameWalk(w, v)
      BY <3>2, <3>4 DEF SameWalk
    <3> HIDE DEF v
    <3>6. Walking(v, S) /\ Awaiting(v, S, c, slots, i) /\ v.pending = TRUE
      BY <1>2, <1>4, <2>1, <3>5, SameGoesOn
    <3> DEFINE new == InsertSlot(v, n, c, slot, overwrite)
    <3>7. IsNew(new, S, Q, c)
      BY <1>1, <1>3, <3>4, InsertSlotIs DEF S, Q
    <3> HIDE DEF new
    <3>8. Inserting(u, S, Q, c, slots, i + 1) /\ Untouched(v, u)
      <4>1. u = InsertHere(v, c, slot, new)
        BY <3>1 DEF new
      <4>2. Turn(S, slots, i, c) /\ slot = slots[i + 1]
        BY DEF S, slot
      <4>3. c.start <= Clock(slot.start) \/ i + 1 = Len(slots)
        BY <2>2
      <4> HIDE DEF isLast
      <4>4. Walking(v, S) /\ Awaiting(v, S, c, slots, i) /\ v.pending = TRUE
        BY <3>6
      <4> QED BY ONLY <3>7, <4>1, <4>2, <4>3, <4>4, InsertedHere
    <3> QED BY <3>4, <3>8, ParamsKept DEF S, Q
  <2>3. CASE ~(c.start <= Clock(slot.start)) /\ ~isLast /\ c.start <= Clock(slot.end)
    <3> DEFINE z == IF c.end = Clock(slot.end) THEN ReusedAll(w, slot) ELSE w
    <3>1. u = InsertNext(z, c, slot)
      <4>1. /\ BeginsIn(w, c, slot, isLast) /\ ~BeginsHere(w, c, slot, isLast)
            /\ ~Delayed(w, slot)
        BY <1>4, <2>3 DEF BeginsHere, BeginsIn, Delayed
      <4>2. InsertTurn(w, n, c, slot, isLast) = InsertNext(z, c, slot)
        BY <4>1, Zenon DEF InsertTurn
      <4> QED BY <4>2 DEF slot
    <3>2. Params(z, b, m, c) /\ SameWalk(w, z)
      <4>1. CASE c.end = Clock(slot.end)
        BY <4>1, <1>1, <1>2, ReusedAllIs DEF S
      <4>2. CASE c.end # Clock(slot.end)
        BY <4>2 DEF SameWalk
      <4> QED BY <4>1, <4>2
    <3> HIDE DEF z
    <3>3. Walking(z, S) /\ Awaiting(z, S, c, slots, i) /\ z.pending = TRUE
      BY <1>2, <1>4, <2>1, <3>2, SameGoesOn
    <3>4. Inserting(u, S, Q, c, slots, i + 1) /\ Untouched(z, u)
      <4>1. Turn(S, slots, i, c) /\ slot = slots[i + 1]
        BY DEF S, slot
      <4> QED BY <2>3, <3>1, <3>3, <4>1, InsertedNext
    <3> QED BY <3>2, <3>4, ParamsKept DEF S, Q
  <2>4. CASE ~(c.start <= Clock(slot.start)) /\ ~isLast /\ ~(c.start <= Clock(slot.end))
    <3>1. u = Take(w, slot, <<>>)
      BY <1>4, <2>4, Zenon DEF InsertTurn, BeginsHere, BeginsIn, Delayed, slot
    <3>2. Turn(S, slots, i, c) /\ slot = slots[i + 1] /\ i + 1 < Len(slots)
          /\ Clock(slot.end) < c.start
      BY <1>1, <2>4 DEF S, slot
    <3>3. Inserting(u, S, Q, c, slots, i + 1) /\ Untouched(w, u)
      BY <1>2, <1>4, <2>1, <3>1, <3>2, InsertLater
    <3> QED BY <3>3, ParamsKept DEF S, Q
  <2> QED BY <2>2, <2>3, <2>4
<1>5. CASE w.pending = FALSE
  <2>1. Inserted(w, Q, c, slots, i)
    BY <1>3, <1>5 DEF Inserting, Pending, S, Q
  <2>2. Turn(S, slots, i, c) /\ slot = slots[i + 1]
    BY DEF S, slot
  <2>3. CASE w.next # Unset /\ w.next < Clock(slot.end)
    <3>1. u = Delay(w, slot)
      BY <1>5, <2>3, Zenon DEF InsertTurn, BeginsHere, BeginsIn, Delayed, slot
    <3>2. Inserting(u, S, Q, c, slots, i + 1) /\ Untouched(w, u)
      BY <1>2, <1>5, <2>1, <2>2, <2>3, <3>1, InsertDelayed
    <3> QED BY <3>2, ParamsKept DEF S, Q
  <2>4. CASE ~(w.next # Unset /\ w.next < Clock(slot.end))
    <3>1. u = Take(w, slot, <<>>)
      BY <1>5, <2>4, Zenon DEF InsertTurn, BeginsHere, BeginsIn, Delayed, slot
    <3>2. Inserting(u, S, Q, c, slots, i + 1) /\ Untouched(w, u)
      BY <1>2, <1>5, <2>1, <2>2, <2>4, <3>1, InsertPassed
    <3> QED BY <3>2, ParamsKept DEF S, Q
  <2> QED BY <2>3, <2>4
<1> QED BY <1>2, <1>4, <1>5

(***************************************************************************)
(* What slots of a day cover a time.                                       *)
(***************************************************************************)
LEMMA ReachGrows ==
  ASSUME NEW S, NEW slots, Day(slots, S)
  PROVE  \A k \in Nat : k <= Len(slots) => \A j \in 0..k : Reach(slots, j) <= Reach(slots, k)
<1> DEFINE P(k) == k <= Len(slots) => \A j \in 0..k : Reach(slots, j) <= Reach(slots, k)
           N == {k \in Nat : P(k)}
<1>1. Reach(slots, 0) \in Int
  BY DEF Reach
<1>2. 0 \in N
  BY <1>1
<1>3. ASSUME NEW k \in N PROVE k + 1 \in N
  <2>1. k \in Nat /\ P(k) /\ Len(slots) \in Nat
    BY LenProperties DEF Day
  <2>2. ASSUME k + 1 <= Len(slots), NEW j \in 0..(k + 1)
        PROVE  Reach(slots, j) <= Reach(slots, k + 1)
    <3>1. /\ Reach(slots, k) \in Int /\ Reach(slots, k + 1) \in Int
          /\ Reach(slots, k) <= Reach(slots, k + 1)
      <4>1. /\ Reach(slots, k) \in 0..LastMinute
            /\ Reach(slots, k) <= Clock(slots[k + 1].start)
            /\ Reach(slots, k + 1) = Clock(slots[k + 1].end)
            /\ Clock(slots[k + 1].start) \in 0..LastMinute
            /\ Clock(slots[k + 1].end) \in 0..LastMinute /\ Filled(slots[k + 1])
        BY <2>1, <2>2, NextSlot
      <4> QED BY <4>1, MidnightAssumption DEF Filled, LastMinute
    <3>2. CASE j = k + 1
      BY <3>1, <3>2
    <3>3. CASE j # k + 1
      <4>1. j \in 0..k /\ k <= Len(slots) BY <2>1, <2>2, <3>3
      <4>2. Reach(slots, j) <= Reach(slots, k) BY <4>1, <2>1
      <4>3. Reach(slots, j) \in Int
        <5>1. j + 1 <= Len(slots) /\ j \in Nat BY <4>1, <2>1, <2>2
        <5> QED BY <5>1, NextSlot DEF LastMinute
      <4> QED BY <4>2, <4>3, <3>1
    <3> QED BY <3>2, <3>3
  <2> QED BY <2>1, <2>2
<1>4. N = Nat
  <2> HIDE DEF P
  <2> QED BY <1>2, <1>3, NatSet
<1> QED BY <1>4

\* Borders of the slots of a day.
LEMMA SlotPlace ==
  ASSUME NEW S, NEW slots, Day(slots, S), NEW j \in 1..Len(slots)
  PROVE  /\ j - 1 \in Nat /\ (j - 1) + 1 = j
         /\ Reach(slots, j - 1) \in Int /\ Reach(slots, j) \in Int
         /\ Reach(slots, j - 1) <= Clock(slots[j].start)
         /\ Clock(slots[j].start) < Clock(slots[j].end)
         /\ Clock(slots[j].end) = Reach(slots, j) /\ Clock(slots[j].start) \in Int
<1> DEFINE i == j - 1
<1>1. i \in Nat /\ i + 1 = j /\ i + 1 <= Len(slots)
  BY LenProperties DEF Day
<1> HIDE DEF i
<1>2. /\ Reach(slots, i) \in 0..LastMinute /\ Reach(slots, i) <= Clock(slots[i + 1].start)
      /\ Reach(slots, i + 1) = Clock(slots[i + 1].end)
      /\ Clock(slots[i + 1].start) \in 0..LastMinute
      /\ Clock(slots[i + 1].end) \in 0..LastMinute /\ Filled(slots[i + 1])
  BY <1>1, NextSlot
<1> QED BY <1>1, <1>2 DEF i, Filled, LastMinute

LEMMA AtGap ==
  ASSUME NEW S, NEW slots, Day(slots, S), NEW i \in Nat, i <= Len(slots), NEW t \in Int,
         Reach(slots, i) <= t, i + 1 <= Len(slots) => t < Clock(slots[i + 1].start)
  PROVE  At(slots, t) = {}
<1> SUFFICES ASSUME NEW j \in 1..Len(slots), Covers(slots[j], t) PROVE FALSE
  BY DEF At
<1>1. /\ j - 1 \in Nat /\ (j - 1) + 1 = j
      /\ Reach(slots, j - 1) \in Int /\ Reach(slots, j) \in Int
      /\ Reach(slots, j - 1) <= Clock(slots[j].start)
      /\ Clock(slots[j].start) < Clock(slots[j].end)
      /\ Clock(slots[j].end) = Reach(slots, j) /\ Clock(slots[j].start) \in Int
  BY SlotPlace
<1>2. Len(slots) \in Nat
  BY LenProperties DEF Day
<1>3. Clock(slots[j].start) <= t /\ t < Reach(slots, j)
  BY <1>1 DEF Covers
<1>4. Reach(slots, i) \in Int
  <2>1. CASE i = 0 BY <2>1 DEF Reach
  <2>2. CASE i # 0
    <3>1. i \in 1..Len(slots) BY <2>2, <1>2
    <3> QED BY <3>1, SlotPlace
  <2> QED BY <2>1, <2>2
<1>5. CASE j <= i
  <2>1. j \in 0..i BY <1>5
  <2>2. Reach(slots, j) <= Reach(slots, i) BY <2>1, ReachGrows
  <2> QED BY <2>2, <1>1, <1>3, <1>4
<1>6. CASE j = i + 1
  BY <1>6, <1>2, <1>3, <1>1
<1>7. CASE i + 1 < j
  <2>1. i + 1 \in 0..(j - 1) /\ j - 1 <= Len(slots) /\ i + 1 \in 1..Len(slots)
    BY <1>7, <1>1, <1>2
  <2>2. Reach(slots, i + 1) <= Reach(slots, j - 1) BY <1>1, <2>1, ReachGrows
  <2> DEFINE k == i + 1
  <2> HIDE DEF k
  <2>3. /\ Clock(slots[k].start) < Clock(slots[k].end) /\ Clock(slots[k].end) = Reach(slots, k)
        /\ Reach(slots, k) \in Int /\ Clock(slots[k].start) \in Int
    BY <2>1, SlotPlace DEF k
  <2>4. t < Clock(slots[k].start) /\ Reach(slots, k) <= Reach(slots, j - 1)
    BY <2>1, <2>2, <1>2 DEF k
  <2> QED BY <2>3, <2>4, <1>1, <1>3
<1> QED BY <1>5, <1>6, <1>7, <1>1, <1>2

LEMMA AtSlot ==
  ASSUME NEW S, NEW slots, Day(slots, S), NEW i \in Nat, i + 1 <= Len(slots), NEW t \in Int,
         Covers(slots[i + 1], t)
  PROVE  At(slots, t) = {slots[i + 1]}
<1> DEFINE k == i + 1
<1>1. k \in 1..Len(slots) /\ Len(slots) \in Nat
  BY LenProperties DEF Day
<1> HIDE DEF k
<1>2. /\ k - 1 \in Nat /\ Reach(slots, k - 1) \in Int /\ Reach(slots, k) \in Int
      /\ Reach(slots, k - 1) <= Clock(slots[k].start)
      /\ Clock(slots[k].end) = Reach(slots, k) /\ Clock(slots[k].start) \in Int
  BY <1>1, SlotPlace
<1>3. Clock(slots[k].start) <= t /\ t < Reach(slots, k)
  BY <1>2 DEF Covers, k
<1>4. ASSUME NEW j \in 1..Len(slots), Covers(slots[j], t) PROVE j = k
  <2>1. /\ j - 1 \in Nat /\ Reach(slots, j - 1) \in Int /\ Reach(slots, j) \in Int
        /\ Reach(slots, j - 1) <= Clock(slots[j].start)
        /\ Clock(slots[j].end) = Reach(slots, j) /\ Clock(slots[j].start) \in Int
    BY SlotPlace
  <2>2. Clock(slots[j].start) <= t /\ t < Reach(slots, j)
    BY <1>4, <2>1 DEF Covers
  <2>3. CASE j < k
    <3>1. j \in 0..(k - 1) /\ k - 1 <= Len(slots) BY <2>3, <1>1
    <3>2. Reach(slots, j) <= Reach(slots, k - 1) BY <1>2, <3>1, ReachGrows
    <3> QED BY <3>2, <2>1, <2>2, <1>2, <1>3
  <2>4. CASE k < j
    <3>1. k \in 0..(j - 1) /\ j - 1 <= Len(slots) BY <2>4, <1>1
    <3>2. Reach(slots, k) <= Reach(slots, j - 1) BY <2>1, <3>1, ReachGrows
    <3> QED BY <3>2, <2>1, <2>2, <1>2, <1>3
  <2> QED BY <2>3, <2>4, <1>1
<1>5. Covers(slots[k], t)
  BY DEF k
<1> QED BY <1>1, <1>4, <1>5 DEF At, k

(***************************************************************************)
(* A call for the current time.  It may add slots where there are none.    *)
(***************************************************************************)
Spared(list, slots, i, all, now) ==
  \A t \in NowTimes : \/ Contents(list, t) = Before(slots, i, t)
                      \/ At(slots, t) = At(slots, now)
                      \/ all /\ At(slots, t) # {}

\* The values for now are in, or still to come.
Heard(list, current, slots, i, now, Q) ==
  IF now < Reach(slots, i) \/ (i > 0 /\ i = Len(slots))
  THEN Contents(list, now) \cap Q # {} ELSE current

Setting(w, S, Q, slots, i, all, now) ==
  /\ Walking(w, S) /\ w.current \in BOOLEAN
  /\ i < Len(slots) => w.last = Reach(slots, i)
  /\ Heard(w.out, w.current, slots, i, now, Q)
  /\ Spared(w.out, slots, i, all, now)

\* Slots added, none or one, where the day has none.
Extra(G, t) == {Content(g) : g \in {x \in G : Covers(x, t)}}

Fillers(G, slots, now) ==
  \A g \in G : \A t \in NowTimes : Covers(g, t) => At(slots, t) = At(slots, now)

Adds(list, w, G, x) ==
  \A t \in NowTimes : Contents(list, t) = (Contents(w.out, t) \cup Extra(G, t)) \cup One(x, t)

Fills(G, now, Q) == \E g \in G : Covers(g, now) /\ Content(g) \in Q

\* What a turn makes of its slot.
Updated(x, slot, now, all, Q) ==
  /\ x.start = slot.start /\ x.end = slot.end
  /\ IF all \/ Covers(slot, now) THEN Content(x) \in Q ELSE x = slot

LEMMA SetSpares ==
  ASSUME NEW S, NEW slots, Day(slots, S), NEW i \in Nat, i + 1 <= Len(slots),
         NEW w, NEW all \in BOOLEAN, NEW now \in NowTimes, Spared(w.out, slots, i, all, now),
         NEW Q, NEW slot, slot = slots[i + 1], NEW x, Updated(x, slot, now, all, Q),
         NEW G, Fillers(G, slots, now), NEW list, Adds(list, w, G, x)
  PROVE  Spared(list, slots, i + 1, all, now)
<1> SUFFICES ASSUME NEW t \in NowTimes, At(slots, t) # At(slots, now),
                    ~(all /\ At(slots, t) # {})
             PROVE  Contents(list, t) = Before(slots, i + 1, t)
  BY DEF Spared
<1>1. t \in Int /\ now \in Int
  BY DEF NowTimes
<1>2. Contents(w.out, t) = Before(slots, i, t)
  BY DEF Spared
<1>3. Extra(G, t) = {}
  BY DEF Extra, Fillers
<1>4. One(x, t) = One(slot, t)
  <2>1. CASE ~Covers(slot, t)
    <3>1. ~Covers(x, t)
      BY <2>1 DEF Updated, Covers
    <3> QED BY <3>1, <2>1 DEF One
  <2>2. CASE Covers(slot, t)
    <3>1. At(slots, t) = {slot}
      BY <1>1, <2>2, AtSlot
    <3>2. ~all /\ ~Covers(slot, now)
      <4>1. Covers(slot, now) => At(slots, now) = {slot}
        BY <1>1, AtSlot
      <4> QED BY <3>1, <4>1
    <3>3. x = slot
      BY <3>2 DEF Updated
    <3> QED BY <3>3
  <2> QED BY <2>1, <2>2
<1>5. Before(slots, i + 1, t) = Before(slots, i, t) \cup One(slot, t)
  BY BeforeNext
<1> QED BY <1>2, <1>3, <1>4, <1>5 DEF Adds

LEMMA SetHears ==
  ASSUME NEW S, NEW slots, Day(slots, S), NEW i \in Nat, i + 1 <= Len(slots),
         NEW w, NEW all \in BOOLEAN, NEW now \in NowTimes,
         NEW Q, Heard(w.out, w.current, slots, i, now, Q), w.current \in BOOLEAN,
         NEW slot, slot = slots[i + 1], NEW x, Updated(x, slot, now, all, Q),
         NEW G, NEW list, Adds(list, w, G, x),
         w.current /\ Reach(slots, i) <= now /\ now < Clock(slot.start) => Fills(G, now, Q),
         w.current /\ i + 1 = Len(slots) /\ Clock(slot.end) <= now => Fills(G, now, Q),
         NEW current, current \in BOOLEAN,
         w.current /\ ~Covers(slot, now) => current
  PROVE  Heard(list, current, slots, i + 1, now, Q)
<1>1. /\ now \in Int /\ Clock(slot.start) \in Int /\ Clock(slot.end) \in Int
      /\ Reach(slots, i) \in Int /\ Reach(slots, i + 1) = Clock(slot.end)
      /\ Len(slots) \in Nat
  BY NextSlot DEF NowTimes, LastMinute
<1>2. Contents(list, now) = (Contents(w.out, now) \cup Extra(G, now)) \cup One(x, now)
  BY DEF Adds
<1>3. CASE now < Reach(slots, i)
  <2>1. Contents(list, now) \cap Q # {}
    BY <1>2, <1>3 DEF Heard
  <2> QED BY <2>1, <1>1, <1>3, NextSlot DEF Heard, Filled
<1>4. CASE Fills(G, now, Q)
  <2>1. Contents(list, now) \cap Q # {}
    BY <1>2, <1>4 DEF Fills, Extra
  <2>2. CASE now < Reach(slots, i + 1) \/ (i + 1 > 0 /\ i + 1 = Len(slots))
    BY <2>1, <2>2 DEF Heard
  <2>3. CASE ~(now < Reach(slots, i + 1) \/ (i + 1 > 0 /\ i + 1 = Len(slots)))
    <3>1. ~Covers(slot, now)
      BY <2>3, <1>1 DEF Covers
    <3>2. CASE now < Reach(slots, i)
      BY <1>3, <3>2
    <3>3. CASE ~(now < Reach(slots, i))
      <4>1. w.current
        BY <3>3, <1>1 DEF Heard
      <4> QED BY <4>1, <3>1, <2>3 DEF Heard
    <3> QED BY <3>2, <3>3
  <2> QED BY <2>2, <2>3
<1>5. CASE ~(now < Reach(slots, i)) /\ ~Fills(G, now, Q)
  <2>1. w.current
    BY <1>5, <1>1 DEF Heard
  <2>2. ~(now < Clock(slot.start))
    BY <1>1, <1>5, <2>1
  <2>3. CASE now < Clock(slot.end)
    <3>1. Covers(slot, now) /\ Covers(x, now)
      BY <2>2, <2>3, <1>1 DEF Covers, Updated
    <3>2. Content(x) \in Q
      BY <3>1 DEF Updated
    <3>3. Contents(list, now) \cap Q # {}
      BY <1>2, <3>1, <3>2 DEF One
    <3> QED BY <3>3, <2>3, <1>1 DEF Heard
  <2>4. CASE ~(now < Clock(slot.end))
    <3>1. i + 1 # Len(slots)
      BY <1>1, <1>5, <2>1, <2>4
    <3>2. current
      BY <2>1, <2>4 DEF Covers
    <3> QED BY <3>1, <3>2, <2>4, <1>1 DEF Heard
  <2> QED BY <2>3, <2>4
<1> QED BY <1>3, <1>4, <1>5

LEMMA GapSlotIs ==
  ASSUME NEW b, NEW n, NEW m, BanksFit(b, n, m), LimitsAgree(b),
         NEW c, InCall(c, n), NEW w, Params(w, b, m, c), w.own = c.own,
         NEW slot \in HomeSlots(b, m), NEW from \in Places, NEW to \in Places,
         NEW gap, gap = GapSlot(w, n, slot, from, to)
  PROVE  /\ gap \in HomeSlots(b, m) /\ Content(gap) \in Wanted(b, m, c)
         /\ gap.start = from /\ gap.end = to
<1> DEFINE exact == w.mode = "unset" \/ ~HasMode(slot)
           load == Appliance(w.power, w.own, n, exact)
           device == HasMode(slot) /\ w.mode = "advanced" /\ w.own # Unset
<1>1. /\ TopLoad(n) \in Int /\ TopLoad(b) \in Int /\ MinLoad \in Int
      /\ MinLoad <= TopLoad(n) /\ TopLoad(n) <= TopLoad(b) /\ DevMin \in Nat
      /\ PresetMax \in Nat /\ PrioDef \in Nat
  BY TopFits, TopIs
<1>2. /\ slot \in LoadSlots /\ (HasMode(slot) <=> m)
      /\ m => slot.own \in DevMin..PresetMax /\ slot.other \in DevMin..PresetMax
  BY SlotFacts
<1>3. exact \in BOOLEAN /\ (m /\ w.own # Unset => ~exact)
  BY SlotFacts DEF Params, Loads
<1>4. /\ gap = [slot EXCEPT !.start = from, !.end = to,
                  !.power = Clamp(load, MinLoad, TopLoad(n)),
                  !.mode = IF HasMode(slot) /\ w.mode # "unset" THEN w.mode ELSE @,
                  !.own = IF device THEN w.own ELSE @,
                  !.other = IF device THEN load - w.own ELSE @,
                  !.on = Or(w.on, 1), !.prio = Or(w.prio, PrioDef)]
  BY DEF GapSlot
<1> HIDE DEF exact
<1>5. /\ load \in Int
      /\ w.own = Unset /\ w.power # Unset => load = w.power
      /\ w.own # Unset /\ n = 2
           => load \in MinLoad..TopLoad(2) /\ load - w.own \in DevMin..PresetMax
  BY <1>3, ApplianceIs
<1> HIDE DEF load
<1>6. /\ Clamp(load, MinLoad, TopLoad(n)) \in MinLoad..TopLoad(n)
      /\ load \in MinLoad..TopLoad(n) => Clamp(load, MinLoad, TopLoad(n)) = load
  BY <1>1, <1>5, Clamped
<1>7. device => w.own \in DevMin..PresetMax /\ load - w.own \in DevMin..PresetMax
  <2>1. w.own # Unset => n = 2 /\ w.own \in DevMin..PresetMax
    BY DEF InCall
  <2> QED BY <2>1, <1>5
<1>8. /\ w.mode \in {"unset", "normal", "advanced"} /\ w.on \in Int /\ w.prio \in Int
      /\ (w.mode = "advanced" <=> w.own # Unset)
  BY DEF Params, Loads
<1>9. /\ gap.start = from /\ gap.end = to
      /\ gap.power = Clamp(load, MinLoad, TopLoad(n))
      /\ gap.mode = IF HasMode(slot) /\ w.mode # "unset" THEN w.mode ELSE slot.mode
      /\ gap.own = IF device THEN w.own ELSE slot.own
      /\ gap.other = IF device THEN load - w.own ELSE slot.other
      /\ gap.on = Or(w.on, 1) /\ gap.prio = Or(w.prio, PrioDef)
  <2> HIDE DEF device
  <2> QED BY <1>2, <1>4 DEF LoadSlots
<1>10. HasMode(gap) <=> m
  BY <1>2, <1>8, <1>9 DEF HasMode
<1>11. m => gap.own \in DevMin..PresetMax /\ gap.other \in DevMin..PresetMax
  <2> HIDE DEF device
  <2> QED BY <1>2, <1>7, <1>9
<1>12. gap \in LoadSlots
  <2>1. gap = [start |-> gap.start, end |-> gap.end, power |-> gap.power, on |-> gap.on,
               prio |-> gap.prio, mode |-> gap.mode, own |-> gap.own, other |-> gap.other]
    <3> HIDE DEF device
    <3> QED BY <1>2, <1>4 DEF LoadSlots
  <2>2. gap.start \in Places /\ gap.end \in Places /\ gap.power \in Int
    BY <1>1, <1>6, <1>9
  <2>3. gap.on \in Int /\ gap.prio \in Int
    BY <1>1, <1>8, <1>9 DEF Or
  <2>4. gap.mode \in {"none", "normal", "advanced"}
    BY <1>2, <1>8, <1>9 DEF LoadSlots
  <2>5. gap.own \in Int /\ gap.other \in Int
    <3>1. CASE m BY <3>1, <1>1, <1>11
    <3>2. CASE ~m BY <3>2, <1>2, <1>9 DEF LoadSlots
    <3> QED BY <3>1, <3>2
  <2> QED BY <2>1, <2>2, <2>3, <2>4, <2>5 DEF LoadSlots, Places
<1>13. InLoads(gap, b)
  BY <1>1, <1>6, <1>9, <1>10, <1>11 DEF InLoads
<1>14. gap \in HomeSlots(b, m)
  <2>1. HasMode(gap) = m
    BY <1>10 DEF HasMode, BanksFit
  <2> QED BY <2>1, <1>12, <1>13 DEF HomeSlots
<1>15. Asks(c, gap)
  <2>1. Given(c.on, gap.on) /\ Given(c.prio, gap.prio)
    BY <1>9 DEF Params, Wants, Given, Or
  <2>2. c.own = Unset => Given(c.power, gap.power)
    BY <1>5, <1>6, <1>9 DEF Params, Wants, Given, InCall
  <2>3. HasMode(gap) => Given(c.own, gap.own)
    BY <1>2, <1>8, <1>9, <1>10 DEF Given
  <2> QED BY <2>1, <2>2, <2>3 DEF Asks
<1> QED BY <1>9, <1>14, <1>15 DEF Wanted

\* The load of the call for a slot, and the slot with it.
LEMMA SlotLoadIs ==
  ASSUME NEW b, NEW n, NEW m, BanksFit(b, n, m), LimitsAgree(b),
         NEW c, InCall(c, n), NEW w, Params(w, b, m, c), w.own = c.own,
         NEW slot \in HomeSlots(b, m), NEW load, load = SlotLoad(w, n, slot)
  PROVE  /\ load = Unset \/ load \in MinLoad..TopLoad(b)
         /\ w.own = Unset => load = w.power
         /\ w.own # Unset => /\ load \in MinLoad..TopLoad(b)
                             /\ load - w.own \in DevMin..PresetMax
<1>1. /\ TopLoad(2) = 2 * PresetMax /\ PresetMax \in Nat /\ DevMin \in Nat
      /\ (n = 2 => MinLoad = 2 * DevMin)
  BY TopIs DEF LimitsAgree, BanksFit
<1>2. CASE w.own = Unset
  BY <1>2 DEF SlotLoad, Params, Loads
<1>3. CASE w.own # Unset
  <2>1. n = 2 /\ b = 2 /\ m /\ w.own \in DevMin..PresetMax
    BY <1>3 DEF InCall, BanksFit
  <2>2. CASE w.power = Unset
    <3>1. load = w.own + slot.other
      BY <1>3, <2>2 DEF SlotLoad
    <3>2. slot.other \in DevMin..PresetMax
      BY <2>1, SlotFacts
    <3> QED BY <3>1, <3>2, <2>1, <1>1, <1>3
  <2>3. CASE w.power # Unset
    <3>1. load = Followed(w.power, w.own, 2)
      BY <1>3, <2>1, <2>3 DEF SlotLoad
    <3>2. w.power \in Int
      <4>1. w.power \in MinLoad..TopLoad(2)
        BY <2>1, <2>3 DEF Params, Loads
      <4> QED BY <4>1, <1>1
    <3> QED BY <3>1, <3>2, <2>1, <1>1, <1>3, FollowedIs
  <2> QED BY <2>2, <2>3
<1> QED BY <1>2, <1>3

LEMMA UpdateSlotIs ==
  ASSUME NEW b, NEW n, NEW m, BanksFit(b, n, m), LimitsAgree(b),
         NEW c, InCall(c, n), NEW u, Params(u, b, m, c), u.own = c.own,
         u.own # Unset => /\ u.power \in MinLoad..TopLoad(b)
                          /\ u.power - u.own \in DevMin..PresetMax,
         NEW slot \in HomeSlots(b, m), NEW x, x = UpdateSlot(u, slot)
  PROVE  /\ x \in HomeSlots(b, m) /\ Content(x) \in Wanted(b, m, c)
         /\ x.start = slot.start /\ x.end = slot.end
<1> DEFINE device == HasMode(slot) /\ u.mode = "advanced" /\ u.own # Unset
<1>1. /\ TopLoad(b) \in Int /\ MinLoad \in Int /\ DevMin \in Nat /\ PresetMax \in Nat
  BY TopFits, TopIs
<1>2. /\ slot \in LoadSlots /\ (HasMode(slot) <=> m) /\ slot.power \in MinLoad..TopLoad(b)
      /\ m => slot.own \in DevMin..PresetMax /\ slot.other \in DevMin..PresetMax
  BY SlotFacts
<1>3. /\ u.mode \in {"unset", "normal", "advanced"} /\ u.on \in Int /\ u.prio \in Int
      /\ (u.mode = "advanced" <=> u.own # Unset)
      /\ u.power = Unset \/ u.power \in MinLoad..TopLoad(b)
      /\ u.own = Unset \/ u.own \in DevMin..PresetMax
  BY DEF Params, Loads
<1>4. x = [slot EXCEPT
        !.power = Or(u.power, @),
        !.mode = IF HasMode(slot) /\ u.mode # "unset" THEN u.mode ELSE @,
        !.own = IF device THEN u.own ELSE @,
        !.other = IF device THEN u.power - u.own ELSE @,
        !.on = Or(u.on, @), !.prio = Or(u.prio, @)]
  BY DEF UpdateSlot
<1>5. device => u.own \in DevMin..PresetMax /\ u.power - u.own \in DevMin..PresetMax
  BY <1>3
<1>6. /\ x.start = slot.start /\ x.end = slot.end /\ x.power = Or(u.power, slot.power)
      /\ x.mode = IF HasMode(slot) /\ u.mode # "unset" THEN u.mode ELSE slot.mode
      /\ x.own = IF device THEN u.own ELSE slot.own
      /\ x.other = IF device THEN u.power - u.own ELSE slot.other
      /\ x.on = Or(u.on, slot.on) /\ x.prio = Or(u.prio, slot.prio)
  <2> HIDE DEF device
  <2> QED BY <1>2, <1>4 DEF LoadSlots
<1>7. HasMode(x) <=> m
  BY <1>2, <1>3, <1>6 DEF HasMode
<1>8. m => x.own \in DevMin..PresetMax /\ x.other \in DevMin..PresetMax
  <2> HIDE DEF device
  <2> QED BY <1>2, <1>5, <1>6
<1>9. x.power \in MinLoad..TopLoad(b)
  BY <1>2, <1>3, <1>6 DEF Or
<1>10. x \in LoadSlots
  <2>1. x = [start |-> x.start, end |-> x.end, power |-> x.power, on |-> x.on,
             prio |-> x.prio, mode |-> x.mode, own |-> x.own, other |-> x.other]
    <3> HIDE DEF device
    <3> QED BY <1>2, <1>4 DEF LoadSlots
  <2>2. x.start \in 0..Midnight /\ x.end \in 0..Midnight /\ x.power \in Int
    BY <1>1, <1>2, <1>6, <1>9 DEF LoadSlots
  <2>3. x.on \in Int /\ x.prio \in Int
    BY <1>2, <1>3, <1>6 DEF Or, LoadSlots
  <2>4. x.mode \in {"none", "normal", "advanced"}
    BY <1>2, <1>3, <1>6 DEF LoadSlots
  <2>5. x.own \in Int /\ x.other \in Int
    <3>1. CASE m BY <3>1, <1>1, <1>8
    <3>2. CASE ~m BY <3>2, <1>2, <1>6 DEF LoadSlots
    <3> QED BY <3>1, <3>2
  <2> QED BY <2>1, <2>2, <2>3, <2>4, <2>5 DEF LoadSlots
<1>11. InLoads(x, b)
  BY <1>7, <1>8, <1>9 DEF InLoads
<1>12. x \in HomeSlots(b, m)
  <2>1. HasMode(x) = m
    BY <1>7 DEF HasMode, BanksFit
  <2> QED BY <2>1, <1>10, <1>11 DEF HomeSlots
<1>13. Asks(c, x)
  <2>1. Given(c.on, x.on) /\ Given(c.prio, x.prio)
    BY <1>6 DEF Params, Wants, Given, Or
  <2>2. c.own = Unset => Given(c.power, x.power)
    BY <1>6 DEF Params, Wants, Given, Or
  <2>3. HasMode(x) => Given(c.own, x.own)
    BY <1>2, <1>3, <1>6, <1>7 DEF Given
  <2> QED BY <2>1, <2>2, <2>3 DEF Asks
<1> QED BY <1>6, <1>12, <1>13 DEF Wanted

\* What a turn leaves, whatever it adds.
Result(list, end, u, x, after, S, slots, i) ==
  /\ list \in Seq(S) /\ list # <<>> /\ Chain(list, end)
  /\ list = Kept(u, x) \o after
  /\ i + 1 < Len(slots) => end = Reach(slots, i + 1)

GapFilled(w, slots, i, slot, now, G, Q) ==
  /\ w.current /\ Reach(slots, i) <= now /\ now < Clock(slot.start) => Fills(G, now, Q)
  /\ w.current /\ i + 1 = Len(slots) /\ Clock(slot.end) <= now => Fills(G, now, Q)

LEMMA SetOn ==
  ASSUME NEW S, NEW slots, Day(slots, S), NEW i \in Nat, i + 1 <= Len(slots),
         NEW w, NEW Q, NEW all \in BOOLEAN, NEW now \in NowTimes,
         Setting(w, S, Q, slots, i, all, now),
         NEW slot, slot = slots[i + 1], NEW x, Updated(x, slot, now, all, Q),
         NEW u, WalkFields \subseteq DOMAIN u, u.current \in BOOLEAN,
         w.current /\ ~Covers(slot, now) => u.current,
         NEW G, Fillers(G, slots, now), GapFilled(w, slots, i, slot, now, G, Q),
         NEW after, NEW list, NEW end, Result(list, end, u, x, after, S, slots, i),
         Adds(list, w, G, x), NEW z, z = Take(u, x, after)
  PROVE  Setting(z, S, Q, slots, i + 1, all, now) /\ Alike(u, z)
<1>1. Leaves(u, z, S, list, end, after)
  BY TakeIs DEF Result
<1>2. /\ z.out = list /\ z.last = end /\ Walking(z, S) /\ Alike(u, z)
      /\ i + 1 < Len(slots) => end = Reach(slots, i + 1)
  BY <1>1 DEF Leaves, Result
<1>3. z.current = u.current
  BY <1>2 DEF Alike, WalkFields
<1>4. Spared(list, slots, i + 1, all, now)
  <2>1. Spared(w.out, slots, i, all, now)
    BY DEF Setting
  <2> QED BY <2>1, SetSpares
<1>5. Heard(list, u.current, slots, i + 1, now, Q)
  <2>1. Heard(w.out, w.current, slots, i, now, Q) /\ w.current \in BOOLEAN
    BY DEF Setting
  <2>2. /\ w.current /\ Reach(slots, i) <= now /\ now < Clock(slot.start) => Fills(G, now, Q)
        /\ w.current /\ i + 1 = Len(slots) /\ Clock(slot.end) <= now => Fills(G, now, Q)
    BY DEF GapFilled
  <2> QED BY <2>1, <2>2, SetHears
<1> QED BY <1>2, <1>3, <1>4, <1>5 DEF Setting

LEMMA ExtraIs ==
  ASSUME NEW g, NEW t
  PROVE  Extra({g}, t) = One(g, t) /\ Extra({}, t) = {}
  BY DEF Extra, One

\* No gap is filled.
LEMMA AddNothing ==
  ASSUME NEW S, NEW slots, Day(slots, S), NEW i \in Nat, i + 1 <= Len(slots),
         NEW w, Walking(w, S), w.last = Reach(slots, i),
         NEW x \in S, x.start = slots[i + 1].start, x.end = slots[i + 1].end,
         NEW u, u.out = w.out, u.last = w.last, NEW list, list = Append(w.out, x)
  PROVE  /\ Result(list, Clock(x.end), u, x, <<>>, S, slots, i)
         /\ Adds(list, w, {}, x)
<1>1. /\ Filled(x) /\ w.last <= Clock(x.start) /\ Clock(x.end) = Reach(slots, i + 1)
  BY NextSlot DEF Filled
<1>2. /\ Movable(S) /\ w.out \in Seq(S) /\ Chain(w.out, w.last)
  BY DEF Day, Walking
<1>3. list \in Seq(S) /\ list # <<>> /\ Chain(list, Clock(x.end))
  BY <1>1, <1>2, Extended
<1>4. Kept(u, x) = list
  BY <1>1 DEF Kept
<1>5. list \o <<>> = list
  BY <1>3, ConcatEmptySeq
<1>6. Adds(list, w, {}, x)
  <2> SUFFICES ASSUME NEW t \in NowTimes
               PROVE  Contents(list, t) = (Contents(w.out, t) \cup Extra({}, t)) \cup One(x, t)
    BY DEF Adds
  <2>1. Contents(list, t) = Contents(w.out, t) \cup One(x, t)
    BY <1>2, ContentsAppended
  <2> QED BY <2>1, ExtraIs
<1> QED BY <1>1, <1>3, <1>4, <1>5, <1>6 DEF Result

\* The gap before the slot is filled.
LEMMA AddBefore ==
  ASSUME NEW S, NEW slots, Day(slots, S), NEW i \in Nat, i + 1 <= Len(slots),
         NEW w, Walking(w, S), w.last = Reach(slots, i),
         NEW x \in S, x.start = slots[i + 1].start, x.end = slots[i + 1].end,
         NEW gap \in S, Clock(gap.start) = w.last, Clock(gap.end) = Clock(x.start), Filled(gap),
         NEW u, u.out = Append(w.out, gap), u.last = Clock(x.start),
         NEW list, list = Append(Append(w.out, gap), x)
  PROVE  /\ Result(list, Clock(x.end), u, x, <<>>, S, slots, i)
         /\ Adds(list, w, {gap}, x)
<1> DEFINE l1 == Append(w.out, gap)
<1>1. /\ Filled(x) /\ Clock(x.end) = Reach(slots, i + 1) /\ Clock(x.start) \in Int
      /\ w.last \in Int
  BY NextSlot DEF Filled, LastMinute
<1>2. /\ Movable(S) /\ w.out \in Seq(S) /\ Chain(w.out, w.last)
  BY DEF Day, Walking
<1>3. l1 \in Seq(S) /\ Chain(l1, Clock(x.start))
  <2>1. w.last <= Clock(gap.start)
    BY <1>1
  <2> QED BY <1>2, <2>1, Extended
<1> HIDE DEF l1
<1>8. list = Append(l1, x) /\ u.out = l1
  BY DEF l1
<1>4. list \in Seq(S) /\ list # <<>> /\ Chain(list, Clock(x.end))
  BY <1>1, <1>2, <1>3, <1>8, Extended
<1>5. Kept(u, x) = list
  BY <1>1, <1>8 DEF Kept
<1>6. list \o <<>> = list
  BY <1>4, ConcatEmptySeq
<1>7. Adds(list, w, {gap}, x)
  <2> SUFFICES ASSUME NEW t \in NowTimes
               PROVE  Contents(list, t) = (Contents(w.out, t) \cup Extra({gap}, t)) \cup One(x, t)
    BY DEF Adds
  <2>1. Contents(list, t) = Contents(l1, t) \cup One(x, t)
    BY <1>3, <1>8, ContentsAppended
  <2>2. Contents(l1, t) = Contents(w.out, t) \cup One(gap, t)
    BY <1>2, ContentsAppended DEF l1
  <2> QED BY <2>1, <2>2, ExtraIs
<1> QED BY <1>1, <1>4, <1>5, <1>6, <1>7 DEF Result

\* The gap after the last slot is filled.
LEMMA AddAfter ==
  ASSUME NEW S, NEW slots, Day(slots, S), NEW i \in Nat, i + 1 = Len(slots),
         NEW w, Walking(w, S), w.last = Reach(slots, i),
         NEW x \in S, x.start = slots[i + 1].start, x.end = slots[i + 1].end,
         NEW gap \in S, Clock(gap.start) = Clock(x.end), Filled(gap),
         NEW u, u.out = w.out, u.last = w.last,
         NEW list, list = Append(Append(w.out, x), gap)
  PROVE  /\ Result(list, Clock(gap.end), u, x, <<gap>>, S, slots, i)
         /\ Adds(list, w, {gap}, x)
<1> DEFINE l1 == Append(w.out, x)
<1>0. i + 1 <= Len(slots) /\ ~(i + 1 < Len(slots))
  OBVIOUS
<1>1. /\ Filled(x) /\ w.last <= Clock(x.start) /\ Clock(x.end) \in Int /\ Len(slots) \in Nat
  <2>1. /\ Filled(slots[i + 1]) /\ Len(slots) \in Nat
        /\ Reach(slots, i) <= Clock(slots[i + 1].start)
        /\ Clock(slots[i + 1].end) \in 0..LastMinute
    BY <1>0, NextSlot
  <2> QED BY <2>1 DEF Filled
<1>2. /\ Movable(S) /\ w.out \in Seq(S) /\ Chain(w.out, w.last)
  BY DEF Day, Walking
<1>3. l1 \in Seq(S) /\ Chain(l1, Clock(x.end))
  BY <1>1, <1>2, Extended
<1>5. Kept(u, x) = l1
  BY <1>1 DEF Kept
<1> HIDE DEF l1
<1>8. list = Append(l1, gap)
  BY DEF l1
<1>9. Clock(x.end) <= Clock(gap.start)
  BY <1>1
<1>4. list \in Seq(S) /\ list # <<>> /\ Chain(list, Clock(gap.end))
  BY <1>1, <1>2, <1>3, <1>8, <1>9, Extended
<1>6. l1 \o <<gap>> = list
  BY <1>3, <1>8, ConcatOne
<1>7. Adds(list, w, {gap}, x)
  <2> SUFFICES ASSUME NEW t \in NowTimes
               PROVE  Contents(list, t) = (Contents(w.out, t) \cup Extra({gap}, t)) \cup One(x, t)
    BY DEF Adds
  <2>1. Contents(list, t) = Contents(l1, t) \cup One(gap, t)
    BY <1>3, <1>8, ContentsAppended
  <2>2. Contents(l1, t) = Contents(w.out, t) \cup One(x, t)
    BY <1>2, ContentsAppended DEF l1
  <2> QED BY <2>1, <2>2, ExtraIs
<1>10. Result(list, Clock(gap.end), u, x, <<gap>>, S, slots, i)
  BY <1>0, <1>4, <1>5, <1>6 DEF Result
<1> QED BY <1>7, <1>10

(***************************************************************************)
(* A turn of a call for the current time, or for all slots.                *)
(***************************************************************************)
LEMMA GapIsFree ==
  ASSUME NEW S, NEW slots, Day(slots, S), NEW i \in Nat, i <= Len(slots), NEW now \in NowTimes,
         Reach(slots, i) <= now, i + 1 <= Len(slots) => now < Clock(slots[i + 1].start),
         NEW gap, Clock(gap.start) = Reach(slots, i),
         i + 1 <= Len(slots) => Clock(gap.end) = Clock(slots[i + 1].start)
  PROVE  Fillers({gap}, slots, now)
<1> SUFFICES ASSUME NEW t \in NowTimes, Covers(gap, t) PROVE At(slots, t) = At(slots, now)
  BY DEF Fillers
<1>1. t \in Int /\ now \in Int
  BY DEF NowTimes
<1>2. Reach(slots, i) <= t /\ (i + 1 <= Len(slots) => t < Clock(slots[i + 1].start))
  BY DEF Covers
<1>3. At(slots, t) = {}
  BY <1>1, <1>2, AtGap
<1>4. At(slots, now) = {}
  BY <1>1, AtGap
<1> QED BY <1>3, <1>4

LEMMA HomeSetTurn ==
  ASSUME NEW b, NEW n, NEW m, BanksFit(b, n, m), LimitsAgree(b),
         NEW c, InCall(c, n), NEW slots, NEW i, Turn(HomeSlots(b, m), slots, i, c),
         NEW now \in NowTimes, NEW w, Params(w, b, m, c), w.own = c.own,
         Setting(w, HomeSlots(b, m), Wanted(b, m, c), slots, i, c.kind = "all", now),
         NEW z, z = SetTurn(w, n, c, now, slots[i + 1], i + 1 = Len(slots))
  PROVE  /\ Setting(z, HomeSlots(b, m), Wanted(b, m, c), slots, i + 1, c.kind = "all", now)
         /\ Params(z, b, m, c) /\ z.own = c.own
<1> DEFINE S == HomeSlots(b, m)
           Q == Wanted(b, m, c)
           slot == slots[i + 1]
           isLast == i + 1 = Len(slots)
           start == Clock(slot.start)
           before == GapBefore(w, now, slot)
           late == GapAfter(w, now, slot, isLast)
           gap == IF before THEN GapSlot(w, n, slot, w.last, Text(start))
                  ELSE GapSlot(w, n, slot, Clock(slot.end), Midnight)
           v == IF before
                THEN [w EXCEPT !.out = Append(@, gap), !.last = start] ELSE w
           hit == Hit(c, slot, now)
           all == c.kind = "all"
           u == IF ~hit THEN v
                ELSE [v EXCEPT !.power = SlotLoad(w, n, slot),
                               !.current = @ /\ ~Covers(slot, now)]
           x == IF hit THEN UpdateSlot(u, slot) ELSE slot
           after == IF late THEN <<gap>> ELSE <<>>
<1>0. z = Take(u, x, after)
  BY DEF SetTurn
<1>1. /\ Day(slots, S) /\ Movable(S) /\ slot \in S /\ i \in Nat /\ i + 1 <= Len(slots)
      /\ Len(slots) \in Nat /\ start \in 0..LastMinute /\ Clock(slot.end) \in 0..LastMinute
      /\ start < Clock(slot.end) /\ Reach(slots, i) \in 0..LastMinute
      /\ Reach(slots, i) <= start /\ Reach(slots, i + 1) = Clock(slot.end)
      /\ start \in Int /\ Clock(slot.end) \in Int /\ Reach(slots, i) \in Int
  BY TurnFacts DEF LastMinute
<1>2. now \in Int /\ now < LastMinute /\ LastMinute \in Int /\ Midnight \in Int
  BY MidnightAssumption DEF NowTimes, LastMinute
<1>3. /\ Walking(w, S) /\ w.current \in BOOLEAN /\ w.last = Reach(slots, i)
      /\ WalkFields \subseteq DOMAIN w /\ ParamFields \subseteq DOMAIN w
  BY <1>1 DEF Setting, Walking, Params
<1>4. all \in BOOLEAN /\ (hit <=> all \/ Covers(slot, now)) /\ hit \in BOOLEAN
  BY DEF Hit, Covers
<1> HIDE DEF slot, S, Q, start
<1>5. before => /\ gap \in S /\ Content(gap) \in Q
                /\ Clock(gap.start) = w.last /\ Clock(gap.end) = start
  <2> SUFFICES ASSUME before PROVE /\ gap \in S /\ Content(gap) \in Q
                /\ Clock(gap.start) = w.last /\ Clock(gap.end) = start
    OBVIOUS
  <2>1. gap = GapSlot(w, n, slot, w.last, Text(start))
    OBVIOUS
  <2>2. w.last \in Places /\ Clock(w.last) = w.last
    BY <1>1, <1>3, TextIs
  <2>3. Text(start) \in Places /\ Clock(Text(start)) = start
    BY <1>1, TextIs
  <2> HIDE DEF gap, before
  <2>4. /\ gap \in S /\ Content(gap) \in Q /\ gap.start = w.last /\ gap.end = Text(start)
    BY <1>1, <2>1, <2>2, <2>3, GapSlotIs DEF S, Q
  <2> QED BY <2>2, <2>3, <2>4
<1>6. ~before => /\ gap \in S /\ Content(gap) \in Q
                 /\ Clock(gap.start) = Clock(slot.end) /\ Clock(gap.end) = LastMinute
  <2> SUFFICES ASSUME ~before PROVE /\ gap \in S /\ Content(gap) \in Q
                /\ Clock(gap.start) = Clock(slot.end) /\ Clock(gap.end) = LastMinute
    OBVIOUS
  <2>1. gap = GapSlot(w, n, slot, Clock(slot.end), Midnight)
    OBVIOUS
  <2>2. Clock(slot.end) \in Places /\ Clock(Clock(slot.end)) = Clock(slot.end)
    BY <1>1, TextIs
  <2>3. Midnight \in Places /\ Clock(Midnight) = LastMinute
    BY <1>2, MidnightAssumption DEF Places, Clock
  <2> HIDE DEF gap, before
  <2>4. /\ gap \in S /\ Content(gap) \in Q /\ gap.start = Clock(slot.end) /\ gap.end = Midnight
    BY <1>1, <2>1, <2>2, <2>3, GapSlotIs DEF S, Q
  <2> QED BY <2>2, <2>3, <2>4
<1> HIDE DEF gap
<1>7. before <=> w.current /\ w.last <= now /\ now < start
  BY DEF GapBefore, start
<1>8. late <=> w.current /\ ~before /\ isLast /\ now >= Clock(slot.end)
  BY DEF GapAfter
<1> HIDE DEF before, late
<1>9. /\ before => v.out = Append(w.out, gap) /\ v.last = start
      /\ ~before => v.out = w.out /\ v.last = w.last
      /\ DOMAIN v = DOMAIN w
      /\ \A f \in DOMAIN w \ {"out", "last"} : v[f] = w[f]
  BY <1>3 DEF WalkFields
<1> HIDE DEF v
<1>10. /\ u.out = v.out /\ u.last = v.last /\ DOMAIN u = DOMAIN v
       /\ u.own = w.own /\ u.mode = w.mode /\ u.on = w.on /\ u.prio = w.prio
       /\ u.power = IF hit THEN SlotLoad(w, n, slot) ELSE w.power
       /\ u.current = IF hit THEN w.current /\ ~Covers(slot, now) ELSE w.current
  BY <1>3, <1>4, <1>9 DEF WalkFields, ParamFields
<1> HIDE DEF u, hit, all
<1>11. /\ hit => (u.power = Unset \/ u.power \in MinLoad..TopLoad(b))
       /\ hit /\ w.own = Unset => u.power = w.power
       /\ hit /\ w.own # Unset => /\ u.power \in MinLoad..TopLoad(b)
                                  /\ u.power - u.own \in DevMin..PresetMax
  <2> DEFINE load == SlotLoad(w, n, slot)
  <2>1. /\ load = Unset \/ load \in MinLoad..TopLoad(b)
        /\ w.own = Unset => load = w.power
        /\ w.own # Unset => /\ load \in MinLoad..TopLoad(b)
                            /\ load - w.own \in DevMin..PresetMax
    BY <1>1, SlotLoadIs DEF S
  <2>2. hit => u.power = load
    BY <1>10
  <2> HIDE DEF load
  <2> QED BY <2>1, <2>2, <1>10
<1>12. Params(u, b, m, c) /\ u.own = c.own
  <2>1. Loads(u, b, m)
    BY <1>10, <1>11, TopIs DEF Params, Loads, Unset
  <2>2. Wants(u, c)
    BY <1>10, <1>11 DEF Params, Wants
  <2> QED BY <2>1, <2>2, <1>3, <1>9, <1>10 DEF Params
<1>13. x \in S /\ Updated(x, slot, now, all, Q)
  <2>1. CASE hit
    <3>1. x = UpdateSlot(u, slot)
      BY <2>1
    <3>2. u.own # Unset => /\ u.power \in MinLoad..TopLoad(b)
                           /\ u.power - u.own \in DevMin..PresetMax
      BY <2>1, <1>10, <1>11
    <3> HIDE DEF x
    <3>3. /\ x \in S /\ Content(x) \in Q /\ x.start = slot.start /\ x.end = slot.end
      BY <1>1, <1>12, <3>1, <3>2, UpdateSlotIs DEF S, Q
    <3> QED BY <3>3, <2>1, <1>4 DEF Updated
  <2>2. CASE ~hit
    <3>1. x = slot
      BY <2>2
    <3> QED BY <3>1, <2>2, <1>1, <1>4 DEF Updated
  <2> QED BY <2>1, <2>2
<1> HIDE DEF x
<1>14. x.start = slot.start /\ x.end = slot.end /\ slot = slots[i + 1] /\ start = Clock(slot.start)
  BY <1>13 DEF Updated, slot, start
<1>15. u.current \in BOOLEAN /\ (w.current /\ ~Covers(slot, now) => u.current)
       /\ WalkFields \subseteq DOMAIN u
  BY <1>3, <1>9, <1>10
<1>16. Setting(z, S, Q, slots, i + 1, all, now) /\ Alike(u, z)
  <2>0. Setting(w, S, Q, slots, i, all, now)
    BY DEF S, Q, all
  <2>1. CASE before
    <3>1. /\ u.out = Append(w.out, gap) /\ u.last = Clock(x.start) /\ ~late /\ after = <<>>
      BY <2>1, <1>8, <1>9, <1>10, <1>14
    <3>2. /\ gap \in S /\ Content(gap) \in Q
          /\ Clock(gap.start) = w.last /\ Clock(gap.end) = Clock(x.start) /\ Filled(gap)
      BY <2>1, <1>1, <1>2, <1>3, <1>5, <1>7, <1>14 DEF Filled
    <3> DEFINE list == Append(Append(w.out, gap), x)
    <3>3. Result(list, Clock(x.end), u, x, <<>>, S, slots, i) /\ Adds(list, w, {gap}, x)
      BY <1>1, <1>3, <1>13, <1>14, <3>1, <3>2, AddBefore
    <3> HIDE DEF list, after
    <3>4. Fillers({gap}, slots, now)
      <4>1. i <= Len(slots) /\ Reach(slots, i) <= now /\ now < Clock(slots[i + 1].start)
        BY <2>1, <1>1, <1>3, <1>7, <1>14
      <4>2. Clock(gap.start) = Reach(slots, i) /\ Clock(gap.end) = Clock(slots[i + 1].start)
        BY <3>2, <1>3, <1>14
      <4> QED BY <4>1, <4>2, <1>1, GapIsFree
    <3>5. GapFilled(w, slots, i, slot, now, {gap}, Q)
      <4>1. Covers(gap, now)
        BY <2>1, <3>2, <1>7, <1>14 DEF Covers
      <4> QED BY <4>1, <3>2 DEF Fills, GapFilled
    <3>6. z = Take(u, x, <<>>)
      BY <1>0, <3>1
    <3> QED BY <1>1, <1>4, <1>13, <1>14, <1>15, <2>0, <3>3, <3>4, <3>5, <3>6, SetOn
  <2>2. CASE late
    <3>1. /\ u.out = w.out /\ u.last = w.last /\ ~before /\ after = <<gap>>
          /\ i + 1 = Len(slots) /\ Clock(slot.end) <= now
      BY <2>2, <1>1, <1>2, <1>8, <1>9, <1>10
    <3>2. /\ gap \in S /\ Content(gap) \in Q
          /\ Clock(gap.start) = Clock(x.end) /\ Clock(gap.end) = LastMinute /\ Filled(gap)
      BY <3>1, <1>1, <1>2, <1>6, <1>14 DEF Filled
    <3> DEFINE list == Append(Append(w.out, x), gap)
    <3>3. Result(list, Clock(gap.end), u, x, <<gap>>, S, slots, i) /\ Adds(list, w, {gap}, x)
      BY <1>1, <1>3, <1>13, <1>14, <3>1, <3>2, AddAfter
    <3> HIDE DEF list, after
    <3>4. Fillers({gap}, slots, now)
      <4> DEFINE k == i + 1
      <4>1. k \in Nat /\ k <= Len(slots) /\ ~(k + 1 <= Len(slots))
        BY <1>1, <3>1
      <4>2. Reach(slots, k) <= now /\ Clock(gap.start) = Reach(slots, k)
        BY <1>1, <3>1, <3>2, <1>14
      <4> HIDE DEF k
      <4> QED BY <4>1, <4>2, <1>1, GapIsFree
    <3>5. GapFilled(w, slots, i, slot, now, {gap}, Q)
      <4>1. Covers(gap, now)
        BY <3>1, <3>2, <1>2, <1>14 DEF Covers
      <4> QED BY <4>1, <3>2 DEF Fills, GapFilled
    <3>6. z = Take(u, x, <<gap>>)
      BY <1>0, <3>1
    <3> QED BY <1>1, <1>4, <1>13, <1>14, <1>15, <2>0, <3>3, <3>4, <3>5, <3>6, SetOn
  <2>3. CASE ~before /\ ~late
    <3>1. /\ u.out = w.out /\ u.last = w.last /\ after = <<>>
      BY <2>3, <1>9, <1>10
    <3> DEFINE list == Append(w.out, x)
    <3>3. Result(list, Clock(x.end), u, x, <<>>, S, slots, i) /\ Adds(list, w, {}, x)
      BY <1>1, <1>3, <1>13, <1>14, <3>1, AddNothing
    <3> HIDE DEF list, after
    <3>4. Fillers({}, slots, now)
      BY DEF Fillers
    <3>5. GapFilled(w, slots, i, slot, now, {}, Q)
      <4>1. ~(w.current /\ Reach(slots, i) <= now /\ now < Clock(slot.start))
        BY <2>3, <1>3, <1>7, <1>14
      <4>2. ~(w.current /\ i + 1 = Len(slots) /\ Clock(slot.end) <= now)
        BY <2>3, <1>1, <1>2, <1>8
      <4> QED BY <4>1, <4>2 DEF GapFilled
    <3>6. z = Take(u, x, <<>>)
      BY <1>0, <3>1
    <3> QED BY <1>1, <1>4, <1>13, <1>14, <1>15, <2>0, <3>3, <3>4, <3>5, <3>6, SetOn
  <2> QED BY <2>1, <2>2, <2>3
<1>17. Params(z, b, m, c) /\ z.own = c.own
  <2>1. Untouched(u, z)
    BY <1>16 DEF Alike, Untouched, WalkFields
  <2>2. z.own = u.own
    BY <1>3, <1>9, <1>10, <1>16 DEF Alike, ParamFields
  <2> QED BY <2>1, <2>2, <1>12, ParamsKept
<1> QED BY <1>16, <1>17 DEF S, Q, all

(***************************************************************************)
(* The recursion of the walk defines a function.                           *)
(***************************************************************************)
HomeTurn(w, c, n, now, i) ==
  IF c.kind = "insert" THEN InsertTurn(w, n, c, ranges[i], i = Len(ranges))
  ELSE SetTurn(w, n, c, now, ranges[i], i = Len(ranges))

IsWalk(turn, c, n, now, k) ==
  turn = [i \in 0..k |-> IF i = 0 THEN WalkStart(c, n)
                         ELSE IF c.kind = "insert"
                         THEN InsertTurn(turn[i - 1], n, c, ranges[i], i = Len(ranges))
                         ELSE SetTurn(turn[i - 1], n, c, now, ranges[i], i = Len(ranges))]

LEMMA WalkStep ==
  ASSUME NEW c, NEW n, NEW now, NEW k \in Nat, NEW turn, IsWalk(turn, c, n, now, k)
  PROVE  /\ turn[0] = WalkStart(c, n)
         /\ \A i \in 1..k : turn[i] = HomeTurn(turn[i - 1], c, n, now, i)
<1>1. /\ 0 \in 0..k /\ \A i \in 1..k : i \in 0..k /\ i # 0
  OBVIOUS
<1>2. turn[0] = WalkStart(c, n)
  BY <1>1 DEF IsWalk
<1>3. ASSUME NEW i \in 1..k PROVE turn[i] = HomeTurn(turn[i - 1], c, n, now, i)
  BY <1>1 DEF IsWalk, HomeTurn
<1> QED BY <1>2, <1>3

LEMMA WalkExists ==
  ASSUME NEW c, NEW n, NEW now
  PROVE  \A k \in Nat : \E turn : IsWalk(turn, c, n, now, k)
<1> DEFINE N == {k \in Nat : \E turn : IsWalk(turn, c, n, now, k)}
<1>1. 0 \in N
  <2> DEFINE first == [i \in 0..0 |-> WalkStart(c, n)]
  <2>1. first = [i \in 0..0 |-> IF i = 0 THEN WalkStart(c, n)
                                ELSE HomeTurn(first[i - 1], c, n, now, i)]
    OBVIOUS
  <2> HIDE DEF first
  <2>2. IsWalk(first, c, n, now, 0)
    BY <2>1 DEF IsWalk, HomeTurn
  <2> QED BY <2>2
<1>2. ASSUME NEW k \in N PROVE k + 1 \in N
  <2>1. PICK turn : IsWalk(turn, c, n, now, k)
    OBVIOUS
  <2>2. k \in Nat /\ k + 1 \in Nat
    OBVIOUS
  <2> HIDE DEF N
  <2>3. /\ turn[0] = WalkStart(c, n)
        /\ \A i \in 1..k : turn[i] = HomeTurn(turn[i - 1], c, n, now, i)
    BY <2>1, <2>2, WalkStep
  <2> DEFINE last == HomeTurn(turn[k], c, n, now, k + 1)
             more == [i \in 0..(k + 1) |-> IF i = k + 1 THEN last ELSE turn[i]]
             step == [i \in 0..(k + 1) |->
                        IF i = 0 THEN WalkStart(c, n)
                        ELSE HomeTurn(more[i - 1], c, n, now, i)]
  <2>4. ASSUME NEW i \in 0..(k + 1) PROVE more[i] = step[i]
    <3>1. CASE i = 0
      <4>1. i # k + 1 BY <2>2, <3>1
      <4> QED BY <3>1, <4>1, <2>3
    <3>2. CASE i = k + 1
      <4>1. i # 0 /\ i - 1 = k /\ k \in 0..(k + 1) /\ k # k + 1
        BY <2>2, <3>2
      <4>2. more[i - 1] = turn[k]
        BY <4>1
      <4>3. more[i] = last
        BY <3>2
      <4> HIDE DEF more
      <4> QED BY <3>2, <4>1, <4>2, <4>3
    <3>3. CASE i \in 1..k
      <4>1. i # 0 /\ i # k + 1 /\ i - 1 \in 0..(k + 1) /\ i - 1 # k + 1
        BY <2>2, <3>3
      <4>2. more[i - 1] = turn[i - 1] /\ more[i] = turn[i]
        BY <4>1
      <4>3. turn[i] = HomeTurn(turn[i - 1], c, n, now, i)
        BY <2>3, <3>3
      <4> HIDE DEF more, last
      <4> QED BY <4>1, <4>2, <4>3
    <3> QED BY <2>2, <3>1, <3>2, <3>3
  <2>5. more = step
    BY <2>4
  <2> HIDE DEF more, last
  <2>6. IsWalk(more, c, n, now, k + 1)
    BY <2>5 DEF IsWalk, HomeTurn
  <2> QED BY <2>2, <2>6 DEF N
<1> QED BY <1>1, <1>2, NatSet

\* What the walk ends with.
LEMMA WalkIs ==
  ASSUME NEW c, NEW n, NEW now, Len(ranges) \in Nat
  PROVE  \E turn : /\ IsWalk(turn, c, n, now, Len(ranges))
                   /\ Walk(c, n, now) = turn[Len(ranges)].out
<1> DEFINE turn == CHOOSE turn : IsWalk(turn, c, n, now, Len(ranges))
<1>1. Walk(c, n, now) = turn[Len(ranges)].out
  BY DEF Walk, IsWalk
<1>2. IsWalk(turn, c, n, now, Len(ranges))
  BY WalkExists
<1> QED BY <1>1, <1>2

(***************************************************************************)
(* Where the walk begins.                                                  *)
(***************************************************************************)
LEMMA StartIs ==
  ASSUME NEW S, NEW c, NEW n, NEW w, w = WalkStart(c, n)
  PROVE  /\ Walking(w, S) /\ w.last = 0 /\ w.next = Unset /\ w.split = <<>>
         /\ \A t : Contents(w.out, t) = {}
         /\ (c.kind = "insert" => w.pending = TRUE) /\ (c.kind # "insert" => w.current = TRUE)
<1>1. /\ w.out = <<>> /\ w.last = 0 /\ w.next = Unset /\ w.split = <<>>
      /\ (c.kind = "insert" => w.pending = TRUE) /\ (c.kind # "insert" => w.current = TRUE)
      /\ WalkFields \subseteq DOMAIN w
  BY DEF WalkStart, WalkFields
<1>2. w.out \in Seq(S) /\ Len(w.out) = 0
  BY <1>1
<1>3. Chain(w.out, w.last)
  BY <1>1, <1>2 DEF Chain, InOrder
<1>4. \A t : Contents(w.out, t) = {}
  BY <1>2 DEF Contents, At
<1> QED BY <1>1, <1>2, <1>3, <1>4 DEF Walking

LEMMA StartParams ==
  ASSUME NEW b, NEW n, NEW m, BanksFit(b, n, m), NEW c, InCall(c, n),
         NEW w, w = WalkStart(c, n)
  PROVE  Params(w, b, m, c) /\ w.own = c.own
<1>1. /\ w.power = c.power /\ w.own = c.own /\ w.on = c.on /\ w.prio = c.prio
      /\ w.mode = PowerMode(c, n) /\ ParamFields \subseteq DOMAIN w
  BY DEF WalkStart, ParamFields
<1>2. /\ TopLoad(n) \in Int /\ TopLoad(b) \in Int /\ MinLoad \in Int
      /\ TopLoad(n) <= TopLoad(b) /\ (n = 1 \/ n = 2) /\ (n = 2 => m /\ b = 2)
  BY TopFits DEF BanksFit
<1>3. Loads(w, b, m)
  <2>1. w.power = Unset \/ w.power \in MinLoad..TopLoad(b)
    BY <1>1, <1>2 DEF InCall
  <2>2. w.own = Unset \/ (m /\ w.own \in DevMin..PresetMax)
    BY <1>1, <1>2 DEF InCall
  <2>3. c.own # Unset => n = 2
    BY DEF InCall
  <2>4. /\ w.mode \in {"unset", "normal", "advanced"}
        /\ w.mode = "advanced" <=> w.own # Unset
    BY <1>1, <1>2, <2>3 DEF PowerMode
  <2> QED BY <2>1, <2>2, <2>3, <2>4, <1>1, <1>2 DEF Loads, InCall
<1>4. Wants(w, c)
  BY <1>1 DEF Wants, Given
<1> QED BY <1>1, <1>3, <1>4 DEF Params

LEMMA HomeInsertStart ==
  ASSUME NEW S, NEW Q, NEW slots, NEW c, Fits(c), c.kind = "insert", NEW n,
         NEW w, w = WalkStart(c, n)
  PROVE  Inserting(w, S, Q, c, slots, 0) /\ w.pending
<1>1. /\ Walking(w, S) /\ w.last = 0 /\ w.next = Unset /\ w.split = <<>>
      /\ \A t : Contents(w.out, t) = {} 
      /\ w.pending = TRUE
  BY StartIs
<1>2. Reach(slots, 0) = 0 /\ c.start \in Int /\ c.end \in Int /\ 0 <= c.start /\ 0 <= c.end
  BY DEF Reach, Fits, LastMinute
<1>3. Undone(w.out, slots, 0, c)
  BY <1>1, NothingBefore DEF Undone
<1>4. Awaiting(w, S, c, slots, 0)
  BY <1>1, <1>2, <1>3 DEF Awaiting
<1> QED BY <1>1, <1>4 DEF Inserting, Pending

LEMMA HomeSetStart ==
  ASSUME NEW S, NEW Q, NEW slots, NEW c, c.kind # "insert", NEW n, NEW all,
         NEW now \in NowTimes, NEW w, w = WalkStart(c, n)
  PROVE  Setting(w, S, Q, slots, 0, all, now)
<1>1. /\ Walking(w, S) /\ w.last = 0 /\ \A t : Contents(w.out, t) = {} 
      /\ w.current = TRUE
  BY StartIs
<1>2. Reach(slots, 0) = 0 /\ ~(now < 0)
  BY DEF Reach, NowTimes
<1>3. Spared(w.out, slots, 0, all, now)
  BY <1>1, NothingBefore DEF Spared
<1>4. Heard(w.out, w.current, slots, 0, now, Q)
  BY <1>1, <1>2 DEF Heard
<1> QED BY <1>1, <1>2, <1>3, <1>4 DEF Setting

(***************************************************************************)
(* What a walk over the schedule leaves behind.                            *)
(***************************************************************************)
LEMMA HomeInsertWalk ==
  ASSUME NEW b, NEW n, NEW m, BanksFit(b, n, m), LimitsAgree(b),
         NEW c, InCall(c, n), c.kind = "insert", NEW now,
         Day(ranges, HomeSlots(b, m)), ranges # <<>>
  PROVE  /\ Walk(c, n, now) \in Seq(HomeSlots(b, m)) /\ InOrder(Walk(c, n, now))
         /\ Done(Walk(c, n, now), ranges, Len(ranges), c, Wanted(b, m, c))
<1> DEFINE S == HomeSlots(b, m)
           Q == Wanted(b, m, c)
<1>1. Len(ranges) \in Nat /\ Len(ranges) > 0
  BY LenProperties, EmptySeq DEF Day
<1>2. PICK turn : /\ IsWalk(turn, c, n, now, Len(ranges))
                  /\ Walk(c, n, now) = turn[Len(ranges)].out
  BY <1>1, WalkIs
<1>3. /\ turn[0] = WalkStart(c, n)
      /\ \A i \in 1..Len(ranges) : turn[i] = HomeTurn(turn[i - 1], c, n, now, i)
  BY <1>1, <1>2, WalkStep
<1> DEFINE P(i) == i <= Len(ranges)
                     => /\ Inserting(turn[i], S, Q, c, ranges, i) /\ Params(turn[i], b, m, c)
                        /\ i = 0 => turn[i].pending
           N == {i \in Nat : P(i)}
<1>4. 0 \in N
  <2>1. Inserting(turn[0], S, Q, c, ranges, 0) /\ turn[0].pending
    BY <1>3, HomeInsertStart DEF InCall
  <2>2. Params(turn[0], b, m, c)
    BY <1>3, StartParams
  <2> QED BY <2>1, <2>2
<1>5. ASSUME NEW i \in N PROVE i + 1 \in N
  <2>1. i \in Nat /\ P(i)
    OBVIOUS
  <2>2. ASSUME i + 1 <= Len(ranges) PROVE P(i + 1)
    <3>1. /\ i + 1 \in 1..Len(ranges) /\ (i + 1) - 1 = i /\ i <= Len(ranges) /\ i + 1 # 0
      BY <1>1, <2>1, <2>2
    <3>2. turn[i + 1] = InsertTurn(turn[i], n, c, ranges[i + 1], i + 1 = Len(ranges))
      BY <1>3, <3>1 DEF HomeTurn
    <3>3. /\ Inserting(turn[i], S, Q, c, ranges, i) /\ Params(turn[i], b, m, c)
          /\ i = 0 => turn[i].pending
      BY <2>1, <3>1
    <3>4. Turn(S, ranges, i, c)
      BY <2>1, <2>2 DEF Turn, InCall
    <3> HIDE DEF P
    <3>5. /\ Inserting(turn[i + 1], S, Q, c, ranges, i + 1)
          /\ Params(turn[i + 1], b, m, c)
      BY <3>2, <3>3, <3>4, HomeInsertTurn
    <3> QED BY <3>1, <3>5 DEF P
  <2> QED BY <2>1, <2>2
<1>6. N = Nat
  <2> HIDE DEF P
  <2> QED BY <1>4, <1>5, NatSet
<1>7. P(Len(ranges))
  <2> HIDE DEF P
  <2> QED BY <1>1, <1>6
<1> DEFINE u == turn[Len(ranges)]
<1>8. Inserting(u, S, Q, c, ranges, Len(ranges))
  BY <1>1, <1>7
<1> HIDE DEF u, S, Q
<1>9. ~Pending(u, ranges, Len(ranges))
  BY <1>1 DEF Pending
<1>10. /\ u.out \in Seq(S) /\ InOrder(u.out) /\ Done(u.out, ranges, Len(ranges), c, Q)
  BY <1>8, <1>9 DEF Inserting, Inserted, Walking, Chain
<1> QED BY <1>2, <1>10 DEF u, S, Q

LEMMA HomeSetWalk ==
  ASSUME NEW b, NEW n, NEW m, BanksFit(b, n, m), LimitsAgree(b),
         NEW c, InCall(c, n), c.kind # "insert", NEW now \in NowTimes,
         Day(ranges, HomeSlots(b, m)), ranges # <<>>
  PROVE  /\ Walk(c, n, now) \in Seq(HomeSlots(b, m)) /\ InOrder(Walk(c, n, now))
         /\ Contents(Walk(c, n, now), now) \cap Wanted(b, m, c) # {}
         /\ Spared(Walk(c, n, now), ranges, Len(ranges), c.kind = "all", now)
<1> DEFINE S == HomeSlots(b, m)
           Q == Wanted(b, m, c)
           all == c.kind = "all"
<1>1. Len(ranges) \in Nat /\ Len(ranges) > 0
  BY LenProperties, EmptySeq DEF Day
<1>2. PICK turn : /\ IsWalk(turn, c, n, now, Len(ranges))
                  /\ Walk(c, n, now) = turn[Len(ranges)].out
  BY <1>1, WalkIs
<1>3. /\ turn[0] = WalkStart(c, n)
      /\ \A i \in 1..Len(ranges) : turn[i] = HomeTurn(turn[i - 1], c, n, now, i)
  BY <1>1, <1>2, WalkStep
<1> DEFINE P(i) == i <= Len(ranges)
                     => /\ Setting(turn[i], S, Q, ranges, i, all, now)
                        /\ Params(turn[i], b, m, c) /\ turn[i].own = c.own
           N == {i \in Nat : P(i)}
<1>4. 0 \in N
  <2>1. Setting(turn[0], S, Q, ranges, 0, all, now)
    BY <1>3, HomeSetStart
  <2>2. Params(turn[0], b, m, c) /\ turn[0].own = c.own
    BY <1>3, StartParams
  <2> QED BY <2>1, <2>2
<1>5. ASSUME NEW i \in N PROVE i + 1 \in N
  <2>1. i \in Nat /\ P(i)
    OBVIOUS
  <2>2. ASSUME i + 1 <= Len(ranges) PROVE P(i + 1)
    <3>1. /\ i + 1 \in 1..Len(ranges) /\ (i + 1) - 1 = i /\ i <= Len(ranges) /\ i + 1 # 0
      BY <1>1, <2>1, <2>2
    <3>2. turn[i + 1] = SetTurn(turn[i], n, c, now, ranges[i + 1], i + 1 = Len(ranges))
      BY <1>3, <3>1 DEF HomeTurn
    <3>3. /\ Setting(turn[i], S, Q, ranges, i, all, now)
          /\ Params(turn[i], b, m, c) /\ turn[i].own = c.own
      BY <2>1, <3>1
    <3>4. Turn(S, ranges, i, c)
      BY <2>1, <2>2 DEF Turn, InCall
    <3> HIDE DEF P
    <3>5. /\ Setting(turn[i + 1], S, Q, ranges, i + 1, all, now)
          /\ Params(turn[i + 1], b, m, c) /\ turn[i + 1].own = c.own
      BY <3>2, <3>3, <3>4, HomeSetTurn
    <3> QED BY <3>1, <3>5 DEF P
  <2> QED BY <2>1, <2>2
<1>6. N = Nat
  <2> HIDE DEF P
  <2> QED BY <1>4, <1>5, NatSet
<1>7. P(Len(ranges))
  <2> HIDE DEF P
  <2> QED BY <1>1, <1>6
<1> DEFINE u == turn[Len(ranges)]
<1>8. Setting(u, S, Q, ranges, Len(ranges), all, now)
  BY <1>1, <1>7
<1> HIDE DEF u, S, Q, all
<1>9. /\ u.out \in Seq(S) /\ InOrder(u.out) /\ Contents(u.out, now) \cap Q # {}
      /\ Spared(u.out, ranges, Len(ranges), all, now)
  BY <1>1, <1>8 DEF Setting, Heard, Walking, Chain
<1> QED BY <1>2, <1>9 DEF u, S, Q, all

(***************************************************************************)
(* A call within its limits.                                               *)
(***************************************************************************)
LEMMA LimitedIs ==
  ASSUME NEW b, NEW n, NEW m, BanksFit(b, n, m), NEW c \in HomeCalls,
         NEW l, l = Limited(c, n)
  PROVE  InCall(l, n) /\ l.kind = c.kind /\ l.start = c.start /\ l.end = c.end
<1>1. /\ c \in Orders /\ c.start < c.end
  BY HomeAssumption
<1>2. /\ TopLoad(n) \in Int /\ MinLoad \in Int /\ MinLoad <= TopLoad(n)
      /\ (n = 1 \/ n = 2) /\ DevMin \in Int /\ PresetMax \in Int /\ DevMin <= PresetMax
  BY TopFits, TopIs
<1> DEFINE own == IF n = 1 \/ c.own = Unset THEN Unset ELSE Clamp(c.own, DevMin, PresetMax)
           given == IF n = 1 THEN Or(c.power, c.own) ELSE c.power
           power == IF given = Unset THEN Unset ELSE Clamp(given, MinLoad, TopLoad(n))
<1>3. /\ l.own = own /\ l.power = power /\ l.kind = c.kind /\ l.start = c.start
      /\ l.end = c.end /\ l.on = c.on /\ l.prio = c.prio
  BY <1>1 DEF Limited, Orders
<1>4. /\ c.start \in 0..LastMinute /\ c.end \in 0..LastMinute
      /\ c.kind \in {"now", "all", "insert", "set"}
      /\ c.on \in Int /\ c.prio \in Int /\ c.power \in Int /\ c.own \in Int
  BY <1>1 DEF Orders, Unset
<1>5. own = Unset \/ (n = 2 /\ own \in DevMin..PresetMax)
  BY <1>2, <1>4, Clamped
<1>6. given \in Int
  BY <1>4 DEF Or
<1>7. power = Unset \/ power \in MinLoad..TopLoad(n)
  <2> HIDE DEF given
  <2> QED BY <1>2, <1>6, Clamped
<1> HIDE DEF own, power, given
<1> QED BY <1>1, <1>3, <1>4, <1>5, <1>7 DEF InCall, Fits

\* A single slot for the whole schedule.
LEMMA WholeSlotIs ==
  ASSUME NEW b, NEW n, NEW m, BanksFit(b, n, m), LimitsAgree(b),
         NEW c, InCall(c, n), NEW x, x = WholeSlot(c, n)
  PROVE  x \in HomeSlots(b, HasMode(x)) /\ Filled(x)
<1> DEFINE load == Appliance(c.power, c.own, n, FALSE)
           device == PowerMode(c, n) = "advanced" /\ c.power # Unset
<1>1. /\ x = [start |-> c.start, end |-> Text(c.end), power |-> Clamp(load, MinLoad, TopLoad(n)),
              on |-> Or(c.on, 1), prio |-> Or(c.prio, PrioDef),
              mode |-> IF device THEN "advanced" ELSE "none",
              own |-> IF device THEN c.own ELSE 0,
              other |-> IF device THEN load - c.own ELSE 0]
  BY DEF WholeSlot
<1>2. /\ TopLoad(n) \in Int /\ TopLoad(b) \in Int /\ MinLoad \in Int /\ MinLoad <= TopLoad(n)
      /\ TopLoad(n) <= TopLoad(b) /\ (n = 1 \/ n = 2)
      /\ DevMin \in Nat /\ PresetMax \in Nat /\ PrioDef \in Int
  BY TopFits, TopIs
<1> DEFINE w == WalkStart(c, n)
<1>3. w.own = c.own /\ w.power = c.power
  BY DEF WalkStart
<1>4. Params(w, b, m, c)
  BY StartParams
<1> HIDE DEF w
<1>5. /\ Appliance(w.power, w.own, n, FALSE) \in Int
      /\ w.own # Unset /\ n = 2
           => Appliance(w.power, w.own, n, FALSE) - w.own \in DevMin..PresetMax
  BY <1>4, ApplianceIs
<1>6. load \in Int /\ (c.own # Unset /\ n = 2 => load - c.own \in DevMin..PresetMax)
  BY <1>3, <1>5
<1>7. device => n = 2 /\ c.own # Unset /\ c.own \in DevMin..PresetMax
  BY <1>2 DEF PowerMode, InCall
<1> HIDE DEF load, device
<1>8. Clamp(load, MinLoad, TopLoad(n)) \in MinLoad..TopLoad(n)
  BY <1>2, <1>6, Clamped
<1>9. /\ c.start \in 0..LastMinute /\ c.end \in 0..LastMinute /\ c.start < c.end
      /\ c.on \in Int /\ c.prio \in Int
  BY DEF InCall, Fits
<1>10. /\ Clock(c.start) = c.start /\ Clock(Text(c.end)) = c.end
       /\ c.start \in 0..Midnight /\ Text(c.end) \in 0..Midnight
  BY <1>9, MidnightAssumption DEF Clock, Text, LastMinute
<1>11. /\ x.power \in MinLoad..TopLoad(n) /\ x.power \in Int
       /\ x.own = (IF device THEN c.own ELSE 0)
       /\ x.other = (IF device THEN load - c.own ELSE 0)
       /\ x.mode = (IF device THEN "advanced" ELSE "none")
       /\ x.start = c.start /\ x.end = Text(c.end)
  BY <1>1, <1>2, <1>8
<1>12. x \in LoadSlots
  <2>1. Or(c.on, 1) \in Int /\ Or(c.prio, PrioDef) \in Int
    BY <1>2, <1>9 DEF Or
  <2>2. /\ (IF device THEN c.own ELSE 0) \in Int /\ (IF device THEN load - c.own ELSE 0) \in Int
        /\ (IF device THEN "advanced" ELSE "none") \in {"none", "normal", "advanced"}
    BY <1>2, <1>6, <1>7
  <2>3. Clamp(load, MinLoad, TopLoad(n)) \in Int
    BY <1>2, <1>8
  <2> QED BY <2>1, <2>2, <2>3, <1>1, <1>10 DEF LoadSlots
<1>13. InLoads(x, b)
  <2>1. x.power \in MinLoad..TopLoad(b)
    BY <1>2, <1>11
  <2>2. HasMode(x) => device
    BY <1>11 DEF HasMode
  <2>3. device => x.own \in DevMin..PresetMax /\ x.other \in DevMin..PresetMax
    BY <1>6, <1>7, <1>11
  <2> QED BY <2>1, <2>2, <2>3 DEF InLoads
<1>14. Filled(x)
  BY <1>9, <1>10, <1>11 DEF Filled
<1> QED BY <1>12, <1>13, <1>14 DEF HomeSlots

(***************************************************************************)
(* What a list asks for is in the contents of its slots.                   *)
(***************************************************************************)
Says(s) == <<s.power, s.on, s.prio, s.mode, s.own, s.other>>
SaysAll(contents) == {Says(x) : x \in contents}

LEMMA ContentSays ==
  ASSUME NEW s \in LoadSlots
  PROVE  /\ Says(Content(s)) = Says(s) /\ Content(s).power = s.power /\ Content(s).on = s.on
         /\ Content(s).prio = s.prio /\ Content(s).mode = s.mode /\ Content(s).own = s.own
  BY DEF Says, Content, LoadSlots

LEMMA SlotsAt ==
  ASSUME NEW b, NEW m, NEW list \in Seq(HomeSlots(b, m)), NEW t, NEW s \in At(list, t)
  PROVE  s \in LoadSlots
<1>1. PICK i \in 1..Len(list) : s = list[i]
  BY DEF At
<1>2. list[i] \in HomeSlots(b, m)
  BY <1>1, ElementOfSeq
<1> QED BY <1>1, <1>2 DEF HomeSlots

LEMMA AskedIs ==
  ASSUME NEW b, NEW m, NEW list \in Seq(HomeSlots(b, m)), NEW t
  PROVE  AskedAt(list, t) = SaysAll(Contents(list, t))
<1>1. AskedAt(list, t) = {Says(s) : s \in At(list, t)}
  BY DEF AskedAt, Says
<1>2. \A s \in At(list, t) : Says(Content(s)) = Says(s)
  BY SlotsAt, ContentSays
<1>3. {Says(s) : s \in At(list, t)} = {Says(Content(s)) : s \in At(list, t)}
  BY <1>2
<1> QED BY <1>1, <1>3 DEF Contents, SaysAll

LEMMA WantedAsks ==
  ASSUME NEW b, NEW m, NEW list \in Seq(HomeSlots(b, m)), NEW t, NEW c,
         Contents(list, t) \cap Wanted(b, m, c) # {}
  PROVE  \E s \in At(list, t) : Asks(c, s)
<1>1. PICK s \in At(list, t), x \in HomeSlots(b, m) : Content(s) = Content(x) /\ Asks(c, x)
  BY DEF Contents, Wanted
<1>2. s \in LoadSlots /\ x \in LoadSlots
  BY SlotsAt DEF HomeSlots
<1>3. /\ s.power = x.power /\ s.on = x.on /\ s.prio = x.prio /\ s.mode = x.mode
      /\ s.own = x.own
  BY <1>1, <1>2, ContentSays
<1>4. Asks(c, s)
  BY <1>1, <1>3 DEF Asks, HasMode
<1> QED BY <1>4

(***************************************************************************)
(* The invariant: all slots are of one kind, in order, within the limits.  *)
(***************************************************************************)
HomeInv ==
  /\ homeBanks \in {1, 2} /\ LimitsAgree(homeBanks)
  /\ InOrder(ranges)
  /\ \E m \in BOOLEAN : ranges \in Seq(HomeSlots(homeBanks, m))

LEMMA SlotsOf ==
  ASSUME NEW S, NEW X, NEW slots \in Seq(X), \A i \in 1..Len(slots) : slots[i] \in S
  PROVE  slots \in Seq(S)
<1>1. /\ Len(slots) \in Nat /\ slots = [i \in 1..Len(slots) |-> slots[i]]
  BY LenProperties
<1>2. slots \in [1..Len(slots) -> S]
  BY <1>1
<1> QED BY <1>1, <1>2, SeqDef

LEMMA HomeInitInv ==
  ASSUME AllAgree, HomeInit PROVE HomeInv
<1>1. PICK s \in Schedules : ranges = s.ranges /\ homeBanks = s.banks
  BY DEF HomeInit
<1>2. /\ homeBanks \in {1, 2} /\ LimitsAgree(homeBanks) /\ ranges \in Seq(LoadSlots) /\ InOrder(ranges) /\ OneKind(ranges)
      /\ \A i \in 1..Len(ranges) : InLoads(ranges[i], homeBanks)
  BY <1>1, HomeAssumption DEF AllAgree
<1> DEFINE m == HasMode(ranges[1])
<1>3. m \in BOOLEAN
  BY DEF HasMode
<1>4. ASSUME NEW i \in 1..Len(ranges) PROVE ranges[i] \in HomeSlots(homeBanks, m)
  <2>1. Len(ranges) \in Nat /\ 1 \in 1..Len(ranges)
    BY <1>2, <1>4, LenProperties
  <2>2. HasMode(ranges[i]) = m
    BY <1>2, <2>1 DEF OneKind
  <2>3. ranges[i] \in LoadSlots
    BY <1>2, ElementOfSeq
  <2> QED BY <1>2, <2>2, <2>3 DEF HomeSlots
<1> HIDE DEF m
<1>5. ranges \in Seq(HomeSlots(homeBanks, m))
  BY <1>2, <1>4, SlotsOf
<1> QED BY <1>2, <1>3, <1>5 DEF HomeInv

\* The banks that a schedule tells.
LEMMA BanksAre ==
  ASSUME HomeInv
  PROVE  \E m \in BOOLEAN : /\ BanksFit(homeBanks, Banks(ranges), m)
                            /\ LimitsAgree(homeBanks)
                            /\ Day(ranges, HomeSlots(homeBanks, m))
<1>1. PICK m \in BOOLEAN : ranges \in Seq(HomeSlots(homeBanks, m))
  BY DEF HomeInv
<1>2. homeBanks \in {1, 2} /\ LimitsAgree(homeBanks) /\ InOrder(ranges)
  BY DEF HomeInv
<1>3. CASE ranges = <<>>
  <2>1. BanksFit(homeBanks, Banks(ranges), TRUE)
    BY <1>2, <1>3 DEF BanksFit, Banks
  <2>2. ranges \in Seq(HomeSlots(homeBanks, TRUE))
    BY <1>3
  <2>3. Day(ranges, HomeSlots(homeBanks, TRUE))
    BY <2>2, <1>2, HomeMovable DEF Day
  <2> QED BY <1>2, <2>1, <2>3
<1>4. CASE ranges # <<>>
  <2>1. ranges[1] \in HomeSlots(homeBanks, m)
    <3>1. 1 \in 1..Len(ranges)
      BY <1>1, <1>4, EmptySeq, LenProperties
    <3> QED BY <3>1, <1>1, ElementOfSeq
  <2>2. HasMode(ranges[1]) <=> m
    BY <2>1 DEF HomeSlots
  <2>3. BanksFit(homeBanks, Banks(ranges), m)
    BY <1>2, <1>4, <2>2 DEF BanksFit, Banks
  <2>4. Day(ranges, HomeSlots(homeBanks, m))
    BY <1>1, <1>2, HomeMovable DEF Day
  <2> QED BY <1>2, <2>3, <2>4
<1> QED BY <1>3, <1>4

\* A single slot, and the new list of a walk, are a schedule again.
LEMMA OneSlot ==
  ASSUME NEW S, NEW x \in S, Filled(x)
  PROVE  <<x>> \in Seq(S) /\ InOrder(<<x>>)
<1>1. <<x>> \in Seq(S) /\ Len(<<x>>) = 1 /\ <<x>>[1] = x
  OBVIOUS
<1> QED BY <1>1 DEF InOrder, Filled

LEMMA HomeStepInv ==
  ASSUME HomeInv, NEW c \in HomeCalls, NEW now \in NowTimes, SetHomeLoad(c, now)
  PROVE  HomeInv'
<1> DEFINE n == Banks(ranges)
           l == Limited(c, n)
<1>1. PICK m \in BOOLEAN : /\ BanksFit(homeBanks, n, m) /\ LimitsAgree(homeBanks)
                           /\ Day(ranges, HomeSlots(homeBanks, m))
  BY BanksAre
<1>2. /\ homeBanks' = homeBanks /\ homeBanks \in {1, 2} /\ LimitsAgree(homeBanks)
      /\ ranges' = IF c.kind = "set" \/ ranges = <<>> THEN <<WholeSlot(l, n)>>
                   ELSE Walk(l, n, now)
  BY DEF SetHomeLoad, HomeInv
<1>3. InCall(l, n) /\ l.kind = c.kind
  BY <1>1, LimitedIs
<1> HIDE DEF n, l
<1>4. \E k \in BOOLEAN : ranges' \in Seq(HomeSlots(homeBanks, k)) /\ InOrder(ranges')
  <2>1. CASE c.kind = "set" \/ ranges = <<>>
    <3> DEFINE x == WholeSlot(l, n)
    <3>1. x \in HomeSlots(homeBanks, HasMode(x)) /\ Filled(x)
      BY <1>1, <1>3, WholeSlotIs
    <3>2. HasMode(x) \in BOOLEAN
      BY DEF HasMode
    <3> HIDE DEF x
    <3>3. <<x>> \in Seq(HomeSlots(homeBanks, HasMode(x))) /\ InOrder(<<x>>)
      BY <3>1, OneSlot
    <3>4. ranges' = <<x>>
      BY <1>2, <2>1 DEF x
    <3> QED BY <3>2, <3>3, <3>4
  <2>2. CASE ~(c.kind = "set" \/ ranges = <<>>) /\ c.kind = "insert"
    <3>1. Walk(l, n, now) \in Seq(HomeSlots(homeBanks, m)) /\ InOrder(Walk(l, n, now))
      BY <1>1, <1>3, <2>2, HomeInsertWalk
    <3> QED BY <1>2, <2>2, <3>1
  <2>3. CASE ~(c.kind = "set" \/ ranges = <<>>) /\ c.kind # "insert"
    <3>1. Walk(l, n, now) \in Seq(HomeSlots(homeBanks, m)) /\ InOrder(Walk(l, n, now))
      BY <1>1, <1>3, <2>3, HomeSetWalk
    <3> QED BY <1>2, <2>3, <3>1
  <2> QED BY <2>1, <2>2, <2>3
<1> QED BY <1>2, <1>4 DEF HomeInv, LimitsAgree

\* homeCall is the call within its limits.
LEMMA CallIs ==
  ASSUME NEW c \in HomeCalls, NEW now \in NowTimes, SetHomeLoad(c, now),
         NEW l, l = Limited(c, Banks(ranges))
  PROVE  /\ homeCall'.kind = l.kind /\ homeCall'.start = l.start /\ homeCall'.end = l.end
         /\ homeCall'.now = now
         /\ \A s : Asks(l, s) => Asks(homeCall', s)
<1>1. c \in Orders
  BY HomeAssumption
<1>2. {"kind", "start", "end", "power", "own", "on", "prio", "now"} \subseteq DOMAIN l
  BY <1>1 DEF Limited, Orders
<1>3. homeCall' = [l EXCEPT !.now = now]
  BY DEF SetHomeLoad
<1>4. /\ homeCall'.kind = l.kind /\ homeCall'.start = l.start /\ homeCall'.end = l.end
      /\ homeCall'.now = now /\ homeCall'.power = l.power /\ homeCall'.own = l.own
      /\ homeCall'.on = l.on /\ homeCall'.prio = l.prio
  BY <1>2, <1>3
<1> QED BY <1>4 DEF Asks

LEMMA HomeStepInserts ==
  ASSUME HomeInv, NEW c \in HomeCalls, NEW now \in NowTimes, SetHomeLoad(c, now)
  PROVE  HomeInsertExact
<1> SUFFICES ASSUME homeCall'.kind = "insert", ranges # <<>>, NEW t \in NowTimes
             PROVE  IF homeCall'.start <= t /\ t < homeCall'.end
                    THEN \E s \in At(ranges', t) : Asks(homeCall', s)
                    ELSE AskedAt(ranges', t) = AskedAt(ranges, t)
  BY DEF HomeInsertExact
<1> DEFINE n == Banks(ranges)
           l == Limited(c, n)
<1>1. PICK m \in BOOLEAN : /\ BanksFit(homeBanks, n, m) /\ LimitsAgree(homeBanks)
                           /\ Day(ranges, HomeSlots(homeBanks, m))
  BY BanksAre
<1>2. /\ homeCall'.kind = l.kind /\ homeCall'.start = l.start /\ homeCall'.end = l.end
      /\ \A s : Asks(l, s) => Asks(homeCall', s)
  BY CallIs
<1>3. InCall(l, n) /\ l.kind = c.kind
  BY <1>1, LimitedIs
<1> DEFINE new == Walk(l, n, now)
           Q == Wanted(homeBanks, m, l)
<1>4. ranges' = new
  BY <1>2, <1>3 DEF SetHomeLoad
<1> HIDE DEF n, l, new, Q
<1>5. /\ new \in Seq(HomeSlots(homeBanks, m))
      /\ Done(new, ranges, Len(ranges), l, Q)
  BY <1>1, <1>2, <1>3, HomeInsertWalk DEF new, Q
<1>6. CASE Within(l, t)
  <2>1. Contents(new, t) \cap Wanted(homeBanks, m, l) # {}
    BY <1>5, <1>6 DEF Done, Q
  <2>2. \E s \in At(new, t) : Asks(l, s)
    BY <1>5, <2>1, WantedAsks
  <2> QED BY <1>2, <1>4, <1>6, <2>2 DEF Within
<1>7. CASE ~Within(l, t)
  <2>1. Contents(new, t) = Contents(ranges, t)
    BY <1>5, <1>7, BeforeAll DEF Done
  <2>2. AskedAt(new, t) = AskedAt(ranges, t)
    BY <1>1, <1>5, <2>1, AskedIs DEF Day
  <2> QED BY <1>2, <1>4, <1>7, <2>2 DEF Within
<1> QED BY <1>6, <1>7

LEMMA HomeStepSets ==
  ASSUME HomeInv, NEW c \in HomeCalls, NEW now \in NowTimes, SetHomeLoad(c, now)
  PROVE  HomeNowExact
<1> SUFFICES ASSUME homeCall'.kind \in {"now", "all"}, ranges # <<>>
             PROVE  /\ \E s \in At(ranges', homeCall'.now) : Asks(homeCall', s)
                    /\ \A t \in NowTimes :
                         \/ AskedAt(ranges', t) = AskedAt(ranges, t)
                         \/ At(ranges, t) = At(ranges, homeCall'.now)
                         \/ homeCall'.kind = "all" /\ At(ranges, t) # {}
  BY DEF HomeNowExact
<1> DEFINE n == Banks(ranges)
           l == Limited(c, n)
<1>1. PICK m \in BOOLEAN : /\ BanksFit(homeBanks, n, m) /\ LimitsAgree(homeBanks)
                           /\ Day(ranges, HomeSlots(homeBanks, m))
  BY BanksAre
<1>2. /\ homeCall'.kind = l.kind /\ homeCall'.now = now
      /\ \A s : Asks(l, s) => Asks(homeCall', s)
  BY CallIs
<1>3. InCall(l, n) /\ l.kind = c.kind /\ l.kind \in {"now", "all"}
  BY <1>1, <1>2, LimitedIs
<1> DEFINE new == Walk(l, n, now)
<1>4. ranges' = new
  BY <1>3 DEF SetHomeLoad
<1> HIDE DEF n, l, new
<1>5. /\ new \in Seq(HomeSlots(homeBanks, m))
      /\ Contents(new, now) \cap Wanted(homeBanks, m, l) # {}
      /\ Spared(new, ranges, Len(ranges), l.kind = "all", now)
  BY <1>1, <1>3, HomeSetWalk DEF new
<1>6. \E s \in At(new, now) : Asks(l, s)
  BY <1>5, WantedAsks
<1>7. ASSUME NEW t \in NowTimes
      PROVE  \/ AskedAt(new, t) = AskedAt(ranges, t)
             \/ At(ranges, t) = At(ranges, now)
             \/ l.kind = "all" /\ At(ranges, t) # {}
  <2>1. \/ Contents(new, t) = Contents(ranges, t)
        \/ At(ranges, t) = At(ranges, now)
        \/ l.kind = "all" /\ At(ranges, t) # {}
    BY <1>5, BeforeAll DEF Spared
  <2>2. Contents(new, t) = Contents(ranges, t) => AskedAt(new, t) = AskedAt(ranges, t)
    BY <1>1, <1>5, AskedIs DEF Day
  <2> QED BY <2>1, <2>2
<1> QED BY <1>2, <1>4, <1>6, <1>7

LEMMA HomeSound == HomeInv => HomeScheduleSound
<1> SUFFICES ASSUME HomeInv PROVE HomeScheduleSound
  OBVIOUS
<1>1. PICK m \in BOOLEAN : ranges \in Seq(HomeSlots(homeBanks, m))
  BY DEF HomeInv
<1>2. ASSUME NEW i \in 1..Len(ranges)
      PROVE  /\ ranges[i].power \in MinLoad..TopLoad(homeBanks)
             /\ ranges[i].mode = "advanced"
                  => {ranges[i].own, ranges[i].other} \subseteq DevMin..PresetMax
  <2>1. ranges[i] \in HomeSlots(homeBanks, m)
    BY <1>1, ElementOfSeq
  <2>2. InLoads(ranges[i], homeBanks)
    BY <2>1 DEF HomeSlots
  <2> QED BY <2>2 DEF InLoads, HasMode
<1>3. HomeLoadsInLimits
  BY <1>2 DEF HomeLoadsInLimits
<1> QED BY <1>3 DEF HomeInv, HomeScheduleSound, HomeSlotsInOrder

LEMMA HomeStep ==
  ASSUME HomeInv, [HomeNext]_homeVars
  PROVE  HomeInv' /\ [HomeInsertExact /\ HomeNowExact]_homeVars
<1>1. CASE HomeNext
  <2>1. PICK c \in HomeCalls, now \in NowTimes : SetHomeLoad(c, now)
    BY <1>1 DEF HomeNext
  <2> QED BY <2>1, HomeStepInv, HomeStepInserts, HomeStepSets
<1>2. CASE UNCHANGED homeVars
  <2>1. ranges' = ranges /\ homeBanks' = homeBanks
    BY <1>2 DEF homeVars
  <2> QED BY <1>2, <2>1 DEF HomeInv, LimitsAgree
<1> QED BY <1>1, <1>2

LEMMA HomeInvariant ==
  ASSUME AllAgree PROVE HomeSpec => []HomeInv
<1>1. HomeInv /\ [HomeNext]_homeVars => HomeInv'
  BY HomeStep
<1> QED BY HomeInitInv, <1>1, PTL DEF HomeSpec

(***************************************************************************)
(* The schedule can be sent after any calls: slots in order, none empty,   *)
(* and the loads of the appliance and of each bank within their limits,    *)
(* where the lower limit of the schedule is twice that of a bank.          *)
(***************************************************************************)
THEOREM HomeScheduleStaysSound ==
  ASSUME AllAgree PROVE HomeSpec => []HomeScheduleSound
BY HomeInvariant, HomeSound, PTL

(***************************************************************************)
(* An inserted slot rules exactly its own times, and a change for now the  *)
(* slot or the gap of the current time (or all slots), whatever slots the  *)
(* schedule has and whatever calls were made before.                       *)
(***************************************************************************)
THEOREM HomeEditsStayExact ==
  ASSUME AllAgree PROVE HomeSpec => HomeEditsExact
<1>1. HomeInv /\ [HomeNext]_homeVars => [HomeInsertExact /\ HomeNowExact]_homeVars
  BY HomeStep
<1> QED BY HomeInvariant, <1>1, PTL DEF HomeSpec, HomeEditsExact

(***************************************************************************)
(* The slots of a plan: the same walk with parameters of its own.          *)
(***************************************************************************)
PlanFields == {"power", "type"}

InPlan(c) == Fits(c) /\ c.power \in Int /\ c.type \in Int

PlanParams(w, c) ==
  /\ PlanFields \subseteq DOMAIN w /\ w.power \in Int /\ w.type \in Int
  /\ c.power # Unset => w.power = InLimits(c.power)
  /\ c.type # Unset => w.type = c.type

AskedOf(c, s) == Given(InLimits(c.power), s.power) /\ Given(c.type, s.type)

PlanWanted(c) == {Content(s) : s \in {x \in PowerSlots : AskedOf(c, x)}}

LEMMA PlanMovable == Movable(PowerSlots)
<1> SUFFICES ASSUME NEW s \in PowerSlots
             PROVE  /\ {"start", "end"} \subseteq DOMAIN s
                    /\ s.start \in Places /\ s.end \in Places
                    /\ \A a \in Places : /\ [s EXCEPT !.start = a] \in PowerSlots
                                         /\ [s EXCEPT !.end = a] \in PowerSlots
  BY DEF Movable
<1> QED BY DEF PowerSlots, Places

LEMMA PlanParamsKept ==
  ASSUME NEW w, NEW u, Untouched(w, u), NEW c, PlanParams(w, c)
  PROVE  PlanParams(u, c)
  BY DEF Untouched, PlanParams, PlanFields, WalkFields

LEMMA InLimitsIs ==
  ASSUME NEW p \in Int, NEW d \in Int
  PROVE  /\ InLimits(p) \in Int /\ (p = Unset <=> InLimits(p) = Unset)
         /\ Clamp(d, MinPower, MaxPower) \in Int
         /\ p # Unset => Clamp(InLimits(p), MinPower, MaxPower) = InLimits(p)
<1>1. MinPower \in Nat /\ MaxPower \in Nat /\ MinPower <= MaxPower
  BY PlanAssumption
<1> QED BY <1>1 DEF InLimits, Clamp, Least, Most, Unset

\* A slot with power and type of the walk, whatever its borders.
LEMMA PlanSlotWanted ==
  ASSUME NEW c, InPlan(c), NEW w, PlanParams(w, c), NEW x \in PowerSlots,
         c.power # Unset => x.power = w.power, c.type # Unset => x.type = w.type
  PROVE  Content(x) \in PlanWanted(c)
<1>1. AskedOf(c, x)
  BY InLimitsIs DEF PlanParams, AskedOf, Given, InPlan
<1> QED BY <1>1 DEF PlanWanted

LEMMA PlanGapIs ==
  ASSUME NEW c, InPlan(c), NEW w, PlanParams(w, c), NEW slot \in PowerSlots,
         NEW from \in Places, NEW to \in Places, NEW gap, gap = PlanGap(w, slot, from, to)
  PROVE  /\ gap \in PowerSlots /\ Content(gap) \in PlanWanted(c)
         /\ gap.start = from /\ gap.end = to
<1> DEFINE load == Clamp(Or(w.power, PowerDef), MinPower, MaxPower)
           type == Or(w.type, slot.type)
<1>1. /\ w.power \in Int /\ w.type \in Int /\ slot.type \in Int /\ PowerDef \in Int
  BY PlanAssumption DEF PlanParams, PowerSlots
<1>2. load \in Int /\ type \in Int
  BY <1>1, InLimitsIs DEF Or
<1>3. c.power # Unset => load = w.power
  BY <1>1, InLimitsIs DEF PlanParams, Or, InPlan
<1>4. c.type # Unset => type = w.type
  BY DEF PlanParams, Or
<1>5. gap = [slot EXCEPT !.start = from, !.end = to, !.power = load, !.type = type]
  BY DEF PlanGap
<1> HIDE DEF load, type
<1>6. /\ gap \in PowerSlots /\ gap.start = from /\ gap.end = to
      /\ gap.power = load /\ gap.type = type
  BY <1>2, <1>5 DEF PowerSlots, Places
<1> QED BY <1>3, <1>4, <1>6, PlanSlotWanted

PlanUpdated(w, slot) ==
  [slot EXCEPT !.power = Or(w.power, @), !.type = Or(w.type, @)]

LEMMA PlanUpdateIs ==
  ASSUME NEW c, InPlan(c), NEW w, PlanParams(w, c), NEW slot \in PowerSlots,
         NEW x, x = PlanUpdated(w, slot)
  PROVE  /\ x \in PowerSlots /\ Content(x) \in PlanWanted(c)
         /\ x.start = slot.start /\ x.end = slot.end
<1>1. /\ w.power \in Int /\ w.type \in Int /\ slot.type \in Int /\ slot.power \in Int
  BY DEF PlanParams, PowerSlots
<1>2. Or(w.power, slot.power) \in Int /\ Or(w.type, slot.type) \in Int
  BY <1>1 DEF Or
<1>3. /\ x \in PowerSlots /\ x.start = slot.start /\ x.end = slot.end
      /\ x.power = Or(w.power, slot.power) /\ x.type = Or(w.type, slot.type)
  BY <1>2 DEF PowerSlots, PlanUpdated
<1>4. /\ c.power # Unset => x.power = w.power
      /\ c.type # Unset => x.type = w.type
  BY <1>3, InLimitsIs DEF PlanParams, Or, InPlan
<1> QED BY <1>3, <1>4, PlanSlotWanted

LEMMA PlanNewIs ==
  ASSUME NEW c, InPlan(c), NEW v, PlanParams(v, c), NEW slot \in PowerSlots,
         NEW new, new = PlanInsertSlot(v, c, slot)
  PROVE  IsNew(new, PowerSlots, PlanWanted(c), c)
<1> DEFINE load == Clamp(Or(v.power, PowerDef), MinPower, MaxPower)
           type == Or(v.type, Supply)
<1>1. /\ v.power \in Int /\ v.type \in Int /\ PowerDef \in Int
  BY PlanAssumption DEF PlanParams
<1>2. load \in Int /\ type \in Int
  BY <1>1, InLimitsIs DEF Or, Supply
<1>3. c.power # Unset => load = v.power
  BY <1>1, InLimitsIs DEF PlanParams, Or, InPlan
<1>4. c.type # Unset => type = v.type
  BY DEF PlanParams, Or
<1>5. c.start \in Places /\ Text(c.end) \in Places
  BY TextIs DEF InPlan, Fits, LastMinute
<1>6. new = [slot EXCEPT !.start = c.start, !.end = Text(c.end), !.power = load, !.type = type]
  BY DEF PlanInsertSlot
<1> HIDE DEF load, type
<1>7. /\ new \in PowerSlots /\ new.start = c.start /\ new.end = Text(c.end)
      /\ new.power = load /\ new.type = type
  BY <1>2, <1>5, <1>6 DEF PowerSlots, Places
<1> QED BY <1>3, <1>4, <1>7, PlanSlotWanted DEF IsNew

\* The parameters taken from the slot, or changed otherwise.
LEMMA PlanReusedIs ==
  ASSUME NEW c, InPlan(c), NEW w, WalkFields \subseteq DOMAIN w, PlanParams(w, c),
         NEW slot \in PowerSlots
  PROVE  /\ PlanParams(PlanReused(w, slot), c) /\ SameWalk(w, PlanReused(w, slot))
         /\ PlanParams([w EXCEPT !.power = Or(@, slot.power)], c)
         /\ SameWalk(w, [w EXCEPT !.power = Or(@, slot.power)])
<1> DEFINE r == PlanReused(w, slot)
           v == [w EXCEPT !.power = Or(@, slot.power)]
<1>1. /\ w.power \in Int /\ w.type \in Int /\ slot.type \in Int /\ slot.power \in Int
  BY DEF PlanParams, PowerSlots
<1>2. Or(w.power, slot.power) \in Int /\ Or(w.type, slot.type) \in Int
  BY <1>1 DEF Or
<1>3. /\ c.power # Unset => Or(w.power, slot.power) = w.power
      /\ c.type # Unset => Or(w.type, slot.type) = w.type
  BY InLimitsIs DEF PlanParams, Or, InPlan
<1>4. /\ DOMAIN r = DOMAIN w /\ r.power = Or(w.power, slot.power)
      /\ r.type = Or(w.type, slot.type) /\ \A f \in WalkFields : r[f] = w[f]
  BY DEF PlanReused, PlanParams, PlanFields, WalkFields
<1>5. /\ DOMAIN v = DOMAIN w /\ v.power = Or(w.power, slot.power)
      /\ v.type = w.type /\ \A f \in WalkFields : v[f] = w[f]
  BY DEF PlanParams, PlanFields, WalkFields
<1> HIDE DEF r, v
<1>6. PlanParams(r, c) /\ SameWalk(w, r)
  BY <1>2, <1>3, <1>4 DEF PlanParams, SameWalk
<1>7. PlanParams(v, c) /\ SameWalk(w, v)
  BY <1>1, <1>2, <1>3, <1>5 DEF PlanParams, SameWalk
<1> QED BY <1>6, <1>7 DEF r, v

\* A turn of a call that inserts a slot in a plan.
LEMMA PlanInserts ==
  ASSUME NEW c, InPlan(c), NEW slots, NEW i, Turn(PowerSlots, slots, i, c),
         NEW w, Inserting(w, PowerSlots, PlanWanted(c), c, slots, i), PlanParams(w, c),
         NEW u, u = PlanInsertTurn(w, c, slots[i + 1], i + 1 = Len(slots))
  PROVE  Inserting(u, PowerSlots, PlanWanted(c), c, slots, i + 1) /\ PlanParams(u, c)
<1> DEFINE S == PowerSlots
           Q == PlanWanted(c)
           slot == slots[i + 1]
           isLast == i + 1 = Len(slots)
           v == IF Overwrites(c, slot) THEN w ELSE PlanReused(w, slot)
<1>1. /\ slot \in S /\ i \in Nat /\ i + 1 <= Len(slots) /\ Len(slots) \in Nat
      /\ Clock(slot.start) \in Int /\ Clock(slot.end) \in Int
      /\ c.start \in Int /\ c.end \in Int
  BY TurnFacts DEF LastMinute
<1>2. Walking(w, S) /\ WalkFields \subseteq DOMAIN w /\ w.pending \in BOOLEAN
  BY DEF Inserting, Walking
<1>3. i = 0 \/ i < Len(slots)
  BY <1>1
<1> HIDE DEF S, Q, slot
<1>4. CASE w.pending = TRUE
  <2>1. Awaiting(w, S, c, slots, i)
    BY <1>3, <1>4 DEF Inserting, Pending, S
  <2>2. CASE c.start <= Clock(slot.start) \/ isLast
    <3>1. u = InsertHere(v, c, slot, PlanInsertSlot(v, c, slot))
      <4>1. /\ BeginsHere(w, c, slot, isLast) /\ ~BeginsIn(w, c, slot, isLast)
            /\ ~Delayed(w, slot)
        BY <1>4, <2>2 DEF BeginsHere, BeginsIn, Delayed
      <4>2. PlanInsertTurn(w, c, slot, isLast)
              = InsertHere(v, c, slot, PlanInsertSlot(v, c, slot))
        BY <4>1, Zenon DEF PlanInsertTurn
      <4> QED BY <4>2 DEF slot
    <3>2. PlanParams(v, c) /\ SameWalk(w, v)
      <4>1. CASE Overwrites(c, slot)
        BY <4>1 DEF SameWalk
      <4>2. CASE ~Overwrites(c, slot)
        BY <4>2, <1>1, <1>2, PlanReusedIs DEF S
      <4> QED BY <4>1, <4>2
    <3> HIDE DEF v
    <3>3. Walking(v, S) /\ Awaiting(v, S, c, slots, i) /\ v.pending = TRUE
      BY <1>2, <1>4, <2>1, <3>2, SameGoesOn
    <3> DEFINE new == PlanInsertSlot(v, c, slot)
    <3>4. IsNew(new, S, Q, c)
      BY <1>1, <3>2, PlanNewIs DEF S, Q
    <3> HIDE DEF new
    <3>5. Inserting(u, S, Q, c, slots, i + 1) /\ Untouched(v, u)
      <4>1. u = InsertHere(v, c, slot, new)
        BY <3>1 DEF new
      <4>2. Turn(S, slots, i, c) /\ slot = slots[i + 1]
        BY DEF S, slot
      <4>3. c.start <= Clock(slot.start) \/ i + 1 = Len(slots)
        BY <2>2
      <4> HIDE DEF isLast
      <4> QED BY ONLY <3>3, <3>4, <4>1, <4>2, <4>3, InsertedHere
    <3> QED BY <3>2, <3>5, PlanParamsKept DEF S, Q
  <2>3. CASE ~(c.start <= Clock(slot.start)) /\ ~isLast /\ c.start <= Clock(slot.end)
    <3> DEFINE z == [w EXCEPT !.power = IF c.end = Clock(slot.end) THEN Or(@, slot.power)
                                        ELSE @]
    <3>1. u = InsertNext(z, c, slot)
      <4>1. /\ BeginsIn(w, c, slot, isLast) /\ ~BeginsHere(w, c, slot, isLast)
            /\ ~Delayed(w, slot)
        BY <1>4, <2>3 DEF BeginsHere, BeginsIn, Delayed
      <4>2. PlanInsertTurn(w, c, slot, isLast) = InsertNext(z, c, slot)
        BY <4>1, Zenon DEF PlanInsertTurn
      <4> QED BY <4>2 DEF slot
    <3>2. PlanParams(z, c) /\ SameWalk(w, z)
      <4>1. CASE c.end = Clock(slot.end)
        <5>1. z = [w EXCEPT !.power = Or(@, slot.power)]
          BY <4>1
        <5> HIDE DEF z
        <5> QED BY <5>1, <1>1, <1>2, PlanReusedIs DEF S
      <4>2. CASE c.end # Clock(slot.end)
        <5>1. /\ DOMAIN z = DOMAIN w /\ z.power = w.power /\ z.type = w.type
              /\ \A f \in WalkFields : z[f] = w[f]
          BY <4>2 DEF PlanParams, PlanFields, WalkFields
        <5> HIDE DEF z
        <5> QED BY <5>1 DEF SameWalk, PlanParams
      <4> QED BY <4>1, <4>2
    <3> HIDE DEF z
    <3>3. Walking(z, S) /\ Awaiting(z, S, c, slots, i) /\ z.pending = TRUE
      BY <1>2, <1>4, <2>1, <3>2, SameGoesOn
    <3>4. Inserting(u, S, Q, c, slots, i + 1) /\ Untouched(z, u)
      <4>1. Turn(S, slots, i, c) /\ slot = slots[i + 1]
        BY DEF S, slot
      <4> QED BY <2>3, <3>1, <3>3, <4>1, InsertedNext
    <3> QED BY <3>2, <3>4, PlanParamsKept DEF S, Q
  <2>4. CASE ~(c.start <= Clock(slot.start)) /\ ~isLast /\ ~(c.start <= Clock(slot.end))
    <3>1. u = Take(w, slot, <<>>)
      BY <1>4, <2>4, Zenon DEF PlanInsertTurn, BeginsHere, BeginsIn, Delayed, slot
    <3>2. Turn(S, slots, i, c) /\ slot = slots[i + 1] /\ i + 1 < Len(slots)
          /\ Clock(slot.end) < c.start
      BY <1>1, <2>4 DEF S, slot
    <3>3. Inserting(u, S, Q, c, slots, i + 1) /\ Untouched(w, u)
      BY <1>2, <1>4, <2>1, <3>1, <3>2, InsertLater
    <3> QED BY <3>3, PlanParamsKept DEF S, Q
  <2> QED BY <2>2, <2>3, <2>4
<1>5. CASE w.pending = FALSE
  <2>1. Inserted(w, Q, c, slots, i)
    BY <1>3, <1>5 DEF Inserting, Pending, S, Q
  <2>2. Turn(S, slots, i, c) /\ slot = slots[i + 1]
    BY DEF S, slot
  <2>3. CASE w.next # Unset /\ w.next < Clock(slot.end)
    <3>1. u = Delay(w, slot)
      BY <1>5, <2>3, Zenon DEF PlanInsertTurn, BeginsHere, BeginsIn, Delayed, slot
    <3>2. Inserting(u, S, Q, c, slots, i + 1) /\ Untouched(w, u)
      BY <1>2, <1>5, <2>1, <2>2, <2>3, <3>1, InsertDelayed
    <3> QED BY <3>2, PlanParamsKept DEF S, Q
  <2>4. CASE ~(w.next # Unset /\ w.next < Clock(slot.end))
    <3>1. u = Take(w, slot, <<>>)
      BY <1>5, <2>4, Zenon DEF PlanInsertTurn, BeginsHere, BeginsIn, Delayed, slot
    <3>2. Inserting(u, S, Q, c, slots, i + 1) /\ Untouched(w, u)
      BY <1>2, <1>5, <2>1, <2>2, <2>4, <3>1, InsertPassed
    <3> QED BY <3>2, PlanParamsKept DEF S, Q
  <2> QED BY <2>3, <2>4
<1> QED BY <1>2, <1>4, <1>5

\* A turn of a call for the current time.
LEMMA PlanSets ==
  ASSUME NEW c, InPlan(c), NEW slots, NEW i, Turn(PowerSlots, slots, i, c),
         NEW now \in NowTimes, NEW w, PlanParams(w, c),
         Setting(w, PowerSlots, PlanWanted(c), slots, i, FALSE, now),
         NEW z, z = PlanSetTurn(w, now, slots[i + 1], i + 1 = Len(slots))
  PROVE  Setting(z, PowerSlots, PlanWanted(c), slots, i + 1, FALSE, now) /\ PlanParams(z, c)
<1> DEFINE S == PowerSlots
           Q == PlanWanted(c)
           slot == slots[i + 1]
           isLast == i + 1 = Len(slots)
           start == Clock(slot.start)
           before == GapBefore(w, now, slot)
           late == GapAfter(w, now, slot, isLast)
           gap == IF before THEN PlanGap(w, slot, w.last, Text(start))
                  ELSE PlanGap(w, slot, Clock(slot.end), Midnight)
           v == IF before
                THEN [w EXCEPT !.out = Append(@, gap), !.last = start] ELSE w
           hit == Covers(slot, now)
           u == IF hit THEN [v EXCEPT !.current = FALSE] ELSE v
           x == IF hit THEN [slot EXCEPT !.power = Or(w.power, @), !.type = Or(w.type, @)]
                ELSE slot
           after == IF hit THEN <<>> ELSE IF late THEN <<gap>> ELSE <<>>
<1>0. z = Take(u, x, after)
  BY DEF PlanSetTurn
<1>1. /\ Day(slots, S) /\ Movable(S) /\ slot \in S /\ i \in Nat /\ i + 1 <= Len(slots)
      /\ Len(slots) \in Nat /\ start \in 0..LastMinute /\ Clock(slot.end) \in 0..LastMinute
      /\ start < Clock(slot.end) /\ Reach(slots, i) \in 0..LastMinute
      /\ Reach(slots, i) <= start /\ Reach(slots, i + 1) = Clock(slot.end)
      /\ start \in Int /\ Clock(slot.end) \in Int /\ Reach(slots, i) \in Int
  BY TurnFacts DEF LastMinute
<1>2. now \in Int /\ now < LastMinute /\ LastMinute \in Int /\ Midnight \in Int
  BY MidnightAssumption DEF NowTimes, LastMinute
<1>3. /\ Walking(w, S) /\ w.current \in BOOLEAN /\ w.last = Reach(slots, i)
      /\ WalkFields \subseteq DOMAIN w /\ PlanFields \subseteq DOMAIN w
  BY <1>1 DEF Setting, Walking, PlanParams
<1>4. hit \in BOOLEAN /\ (hit <=> start <= now /\ now < Clock(slot.end))
  BY DEF Covers
<1> HIDE DEF slot, S, Q, start
<1>5. before => /\ gap \in S /\ Content(gap) \in Q
                /\ Clock(gap.start) = w.last /\ Clock(gap.end) = start
  <2> SUFFICES ASSUME before PROVE /\ gap \in S /\ Content(gap) \in Q
                /\ Clock(gap.start) = w.last /\ Clock(gap.end) = start
    OBVIOUS
  <2>1. gap = PlanGap(w, slot, w.last, Text(start))
    OBVIOUS
  <2>2. w.last \in Places /\ Clock(w.last) = w.last
    BY <1>1, <1>3, TextIs
  <2>3. Text(start) \in Places /\ Clock(Text(start)) = start
    BY <1>1, TextIs
  <2> HIDE DEF gap, before
  <2>4. /\ gap \in S /\ Content(gap) \in Q /\ gap.start = w.last /\ gap.end = Text(start)
    BY <1>1, <2>1, <2>2, <2>3, PlanGapIs DEF S, Q
  <2> QED BY <2>2, <2>3, <2>4
<1>6. ~before => /\ gap \in S /\ Content(gap) \in Q
                 /\ Clock(gap.start) = Clock(slot.end) /\ Clock(gap.end) = LastMinute
  <2> SUFFICES ASSUME ~before PROVE /\ gap \in S /\ Content(gap) \in Q
                /\ Clock(gap.start) = Clock(slot.end) /\ Clock(gap.end) = LastMinute
    OBVIOUS
  <2>1. gap = PlanGap(w, slot, Clock(slot.end), Midnight)
    OBVIOUS
  <2>2. Clock(slot.end) \in Places /\ Clock(Clock(slot.end)) = Clock(slot.end)
    BY <1>1, TextIs
  <2>3. Midnight \in Places /\ Clock(Midnight) = LastMinute
    BY <1>2, MidnightAssumption DEF Places, Clock
  <2> HIDE DEF gap, before
  <2>4. /\ gap \in S /\ Content(gap) \in Q /\ gap.start = Clock(slot.end) /\ gap.end = Midnight
    BY <1>1, <2>1, <2>2, <2>3, PlanGapIs DEF S, Q
  <2> QED BY <2>2, <2>3, <2>4
<1> HIDE DEF gap
<1>7. before <=> w.current /\ w.last <= now /\ now < start
  BY DEF GapBefore, start
<1>8. late <=> w.current /\ ~before /\ isLast /\ now >= Clock(slot.end)
  BY DEF GapAfter
<1> HIDE DEF before, late
<1>9. /\ before => v.out = Append(w.out, gap) /\ v.last = start
      /\ ~before => v.out = w.out /\ v.last = w.last
      /\ DOMAIN v = DOMAIN w
      /\ \A f \in DOMAIN w \ {"out", "last"} : v[f] = w[f]
  BY <1>3 DEF WalkFields
<1> HIDE DEF v
<1>10. /\ u.out = v.out /\ u.last = v.last /\ DOMAIN u = DOMAIN v
       /\ u.power = w.power /\ u.type = w.type
       /\ u.current = IF hit THEN FALSE ELSE w.current
  BY <1>3, <1>4, <1>9 DEF WalkFields, PlanFields
<1> HIDE DEF u, hit
<1>11. PlanParams(u, c)
  BY <1>3, <1>9, <1>10 DEF PlanParams
<1>12. x \in S /\ Updated(x, slot, now, FALSE, Q)
  <2>1. CASE hit
    <3>1. x = PlanUpdated(w, slot)
      BY <2>1 DEF PlanUpdated
    <3> HIDE DEF x
    <3>2. /\ x \in S /\ Content(x) \in Q /\ x.start = slot.start /\ x.end = slot.end
      BY <1>1, <3>1, PlanUpdateIs DEF S, Q
    <3> QED BY <3>2, <2>1 DEF Updated, hit
  <2>2. CASE ~hit
    <3>1. x = slot
      BY <2>2
    <3> QED BY <3>1, <2>2, <1>1 DEF Updated, hit
  <2> QED BY <2>1, <2>2
<1> HIDE DEF x
<1>13. x.start = slot.start /\ x.end = slot.end /\ slot = slots[i + 1] /\ start = Clock(slot.start)
  BY <1>12 DEF Updated, slot, start
<1>14. u.current \in BOOLEAN /\ (w.current /\ ~Covers(slot, now) => u.current)
       /\ WalkFields \subseteq DOMAIN u
  BY <1>3, <1>9, <1>10 DEF hit
<1>15. Setting(z, S, Q, slots, i + 1, FALSE, now) /\ Alike(u, z)
  <2>0. Setting(w, S, Q, slots, i, FALSE, now) /\ FALSE \in BOOLEAN
    BY DEF S, Q
  <2>1. CASE before
    <3>1. /\ u.out = Append(w.out, gap) /\ u.last = Clock(x.start) /\ ~late /\ after = <<>>
      BY <2>1, <1>8, <1>9, <1>10, <1>13
    <3>2. /\ gap \in S /\ Content(gap) \in Q
          /\ Clock(gap.start) = w.last /\ Clock(gap.end) = Clock(x.start) /\ Filled(gap)
      BY <2>1, <1>1, <1>2, <1>3, <1>5, <1>7, <1>13 DEF Filled
    <3> DEFINE list == Append(Append(w.out, gap), x)
    <3>3. Result(list, Clock(x.end), u, x, <<>>, S, slots, i) /\ Adds(list, w, {gap}, x)
      BY <1>1, <1>3, <1>12, <1>13, <3>1, <3>2, AddBefore
    <3> HIDE DEF list, after
    <3>4. Fillers({gap}, slots, now)
      <4>1. i <= Len(slots) /\ Reach(slots, i) <= now /\ now < Clock(slots[i + 1].start)
        BY <2>1, <1>1, <1>3, <1>7, <1>13
      <4>2. Clock(gap.start) = Reach(slots, i) /\ Clock(gap.end) = Clock(slots[i + 1].start)
        BY <3>2, <1>3, <1>13
      <4> QED BY <4>1, <4>2, <1>1, GapIsFree
    <3>5. GapFilled(w, slots, i, slot, now, {gap}, Q)
      <4>1. Covers(gap, now)
        BY <2>1, <3>2, <1>7, <1>13 DEF Covers
      <4> QED BY <4>1, <3>2 DEF Fills, GapFilled
    <3>6. z = Take(u, x, <<>>)
      BY <1>0, <3>1
    <3> QED BY <1>1, <1>12, <1>13, <1>14, <2>0, <3>3, <3>4, <3>5, <3>6, SetOn
  <2>2. CASE late
    <3>1. /\ u.out = w.out /\ u.last = w.last /\ ~before /\ after = <<gap>>
          /\ i + 1 = Len(slots) /\ Clock(slot.end) <= now
      BY <2>2, <1>1, <1>2, <1>4, <1>8, <1>9, <1>10
    <3>2. /\ gap \in S /\ Content(gap) \in Q
          /\ Clock(gap.start) = Clock(x.end) /\ Clock(gap.end) = LastMinute /\ Filled(gap)
      BY <3>1, <1>1, <1>2, <1>6, <1>13 DEF Filled
    <3> DEFINE list == Append(Append(w.out, x), gap)
    <3>3. Result(list, Clock(gap.end), u, x, <<gap>>, S, slots, i) /\ Adds(list, w, {gap}, x)
      BY <1>1, <1>3, <1>12, <1>13, <3>1, <3>2, AddAfter
    <3> HIDE DEF list, after
    <3>4. Fillers({gap}, slots, now)
      <4> DEFINE k == i + 1
      <4>1. k \in Nat /\ k <= Len(slots) /\ ~(k + 1 <= Len(slots))
        BY <1>1, <3>1
      <4>2. Reach(slots, k) <= now /\ Clock(gap.start) = Reach(slots, k)
        BY <1>1, <3>1, <3>2, <1>13
      <4> HIDE DEF k
      <4> QED BY <4>1, <4>2, <1>1, GapIsFree
    <3>5. GapFilled(w, slots, i, slot, now, {gap}, Q)
      <4>1. Covers(gap, now)
        BY <3>1, <3>2, <1>2, <1>13 DEF Covers
      <4> QED BY <4>1, <3>2 DEF Fills, GapFilled
    <3>6. z = Take(u, x, <<gap>>)
      BY <1>0, <3>1
    <3> QED BY <1>1, <1>12, <1>13, <1>14, <2>0, <3>3, <3>4, <3>5, <3>6, SetOn
  <2>3. CASE ~before /\ ~late
    <3>1. /\ u.out = w.out /\ u.last = w.last /\ after = <<>>
      BY <2>3, <1>9, <1>10
    <3> DEFINE list == Append(w.out, x)
    <3>3. Result(list, Clock(x.end), u, x, <<>>, S, slots, i) /\ Adds(list, w, {}, x)
      BY <1>1, <1>3, <1>12, <1>13, <3>1, AddNothing
    <3> HIDE DEF list, after
    <3>4. Fillers({}, slots, now)
      BY DEF Fillers
    <3>5. GapFilled(w, slots, i, slot, now, {}, Q)
      <4>1. ~(w.current /\ Reach(slots, i) <= now /\ now < Clock(slot.start))
        BY <2>3, <1>3, <1>7, <1>13
      <4>2. ~(w.current /\ i + 1 = Len(slots) /\ Clock(slot.end) <= now)
        BY <2>3, <1>1, <1>2, <1>8
      <4> QED BY <4>1, <4>2 DEF GapFilled
    <3>6. z = Take(u, x, <<>>)
      BY <1>0, <3>1
    <3> QED BY <1>1, <1>12, <1>13, <1>14, <2>0, <3>3, <3>4, <3>5, <3>6, SetOn
  <2> QED BY <2>1, <2>2, <2>3
<1>16. PlanParams(z, c)
  <2>1. Untouched(u, z)
    BY <1>15 DEF Alike, Untouched, WalkFields
  <2> QED BY <2>1, <1>11, PlanParamsKept
<1> QED BY <1>15, <1>16 DEF S, Q

-----------------------------------------------------------------------------
(***************************************************************************)
(* Backup charges.                                                         *)
(***************************************************************************)
ChargeOk(b) == b \in Charges /\ (b.start # Unset => b.start < b.end)

\* Every copy of the schedule holds a backup charge that ends after it starts.
ChargeInv ==
  /\ {"mode", "custom", "blend", "use", "backup"} \subseteq DOMAIN cached
  /\ {"mode", "custom", "blend", "use", "backup"} \subseteq DOMAIN stored
  /\ ChargeOk(cached.backup) /\ ChargeOk(stored.backup)
  /\ "part" \in DOMAIN sending
  /\ sending.part = "charge" => ChargeOk(sending.backup)
  /\ sending.part \in {"none", "slots", "charge"}

\* What a call makes of a backup charge, at a time of the clock.
LEMMA BackupIs ==
  ASSUME NEW b, ChargeOk(b), NEW c \in ChargeOrders, NEW now \in Nat,
         NEW x, x = Backup(b, c, now)
  PROVE  /\ ChargeOk(x)
         /\ x.switch /\ ~b.switch /\ c.duration = Unset => x.end > now
         /\ c.start # Unset /\ c.start < c.end /\ now < c.end /\ c.duration = Unset
              => x.start = c.start /\ x.end = c.end
<1> DEFINE on == c.switch = 1
           given == IF b.known THEN Or(c.start, Most(b.start, 0)) ELSE c.start
           to == IF b.known THEN Or(c.end, Most(b.end, 0)) ELSE c.end
           from == IF on /\ (given = Unset \/ Passed(b, to, c, now)) THEN now ELSE given
           start == Or(from, to)
           end == Most(start, to)
           long == Most(Or(c.duration, ChargeDef), 1)
           last == IF start = end \/ c.duration # Unset THEN start + long ELSE end
           switch == IF c.switch = Unset THEN b.switch ELSE on
           switched == [b EXCEPT !.known = TRUE, !.switch = IF c.switch = Unset THEN @ ELSE on]
<1>1. /\ b.known \in BOOLEAN /\ b.switch \in BOOLEAN /\ b.start \in Int /\ b.end \in Int
      /\ c.start \in Int /\ c.end \in Int /\ c.duration \in Int /\ ChargeDef \in Int
      /\ now \in Int /\ now >= 0 /\ Unset = 0 - 1
      /\ (c.start = Unset \/ c.start >= 0) /\ (c.end = Unset \/ c.end >= 0)
      /\ on \in BOOLEAN
  BY PlanAssumption DEF ChargeOk, Charges, ChargeOrders, Unset
<1>2. given \in Int /\ to \in Int
  BY <1>1 DEF Or, Most
<1>3. from \in Int /\ (from = now \/ from = given)
  BY <1>1, <1>2
<1>4. start \in Int /\ end \in Int /\ start <= end /\ to <= end /\ long \in Int /\ 1 <= long
  BY <1>1, <1>2, <1>3 DEF Or, Most
<1>5. last \in Int /\ start < last /\ (c.duration = Unset => to <= last)
  BY <1>1, <1>2, <1>4
<1>6. /\ switched \in Charges /\ switched.switch = switch
      /\ switched.start = b.start /\ switched.end = b.end
  BY <1>1 DEF ChargeOk, Charges
<1>7. x = IF from = Unset /\ to = Unset THEN switched
          ELSE [switched EXCEPT !.start = start, !.end = last]
  BY DEF Backup
<1> HIDE DEF switched, last
<1>8. /\ x \in Charges /\ x.switch = switch
      /\ IF from = Unset /\ to = Unset THEN x.start = b.start /\ x.end = b.end
         ELSE x.start = start /\ x.end = last
  <2>1. CASE from = Unset /\ to = Unset
    BY <1>6, <1>7, <2>1
  <2>2. CASE ~(from = Unset /\ to = Unset)
    <3>1. x = [switched EXCEPT !.start = start, !.end = last]
      BY <1>7, <2>2
    <3> HIDE DEF start
    <3>2. /\ x \in Charges /\ x.switch = switched.switch /\ x.start = start /\ x.end = last
      BY <1>4, <1>5, <1>6, <3>1 DEF Charges
    <3> QED BY <1>6, <2>2, <3>2
  <2> QED BY <2>1, <2>2
<1>9. ChargeOk(x)
  BY <1>5, <1>8 DEF ChargeOk
<1>10. ASSUME x.switch, ~b.switch, c.duration = Unset PROVE x.end > now
  <2>1. on
    BY <1>8, <1>10 DEF switch
  <2>2. from # Unset /\ start = from
    BY <1>1, <1>2, <2>1 DEF Or
  <2>3. CASE given = Unset \/ Passed(b, to, c, now)
    <3>1. from = now
      BY <2>1, <2>3
    <3> HIDE DEF from, start
    <3> QED BY <1>1, <1>5, <1>8, <2>2, <3>1
  <2>4. CASE ~Passed(b, to, c, now)
    <3>1. to > now
      BY <1>1, <1>2, <1>10, <2>4 DEF Passed, Or
    <3> HIDE DEF from, start, to
    <3> QED BY <1>1, <1>2, <1>5, <1>8, <1>10, <2>2, <3>1
  <2> QED BY <2>3, <2>4
<1>11. ASSUME c.start # Unset, c.start < c.end, now < c.end, c.duration = Unset
       PROVE  x.start = c.start /\ x.end = c.end
  <2>1. given = c.start /\ to = c.end /\ c.end # Unset
    BY <1>1, <1>11 DEF Or
  <2>2. ~Passed(b, to, c, now)
    BY <1>1, <1>11, <2>1 DEF Passed, Or
  <2>3. from = c.start
    BY <1>11, <2>1, <2>2
  <2>4. start = c.start /\ end = c.end
    BY <1>1, <1>11, <2>1, <2>3 DEF Or, Most
  <2>5. last = c.end
    BY <1>1, <1>11, <2>4 DEF last
  <2> QED BY <1>8, <1>11, <2>3, <2>4, <2>5
<1> QED BY <1>9, <1>10, <1>11

LEMMA ChargeStart == PlanInit => ChargeInv
<1> SUFFICES ASSUME PlanInit PROVE ChargeInv
  OBVIOUS
<1>1. PICK plans \in PlanLists, mode \in ModeOptions, use \in BOOLEAN, backup \in Backups :
        stored = [mode |-> mode, custom |-> plans, blend |-> <<>>,
                  use |-> use, backup |-> backup]
  BY DEF PlanInit
<1>2. ChargeOk(backup)
  BY PlanAssumption DEF ChargeOk
<1>3. cached = stored /\ sending = [part |-> "none"]
  BY DEF PlanInit
<1> QED BY <1>1, <1>2, <1>3 DEF ChargeInv

SchedKept(x) ==
  /\ {"mode", "custom", "blend", "use", "backup"} \subseteq DOMAIN x
  /\ x.backup = cached.backup

LEMMA EditKeepsCharge ==
  ASSUME ChargeInv, NEW c, NEW now, NEW day
  PROVE  /\ SchedKept(Edited(c, now, day))
         /\ SchedKept([Edited(c, now, day) EXCEPT !.mode = Mode(c)])
<1>1. SchedKept(Edited(c, now, day))
  BY DEF Edited, ChargeInv, SchedKept
<1> QED BY <1>1 DEF SchedKept

\* A call for the slots leaves the charge alone.
LEMMA SetPlanKeepsCharge ==
  ASSUME ChargeInv, NEW c \in PlanCalls, NEW now, NEW day, SetPlan(c, now, day)
  PROVE  ChargeInv' /\ planCall'.kind # "backup"
<1> DEFINE done == Edited(c, now, day)
           raises == Mode(c) = "use_time" /\ ~done.use
           final == [done EXCEPT !.mode = Mode(c)]
<1>1. SchedKept(done) /\ SchedKept(final)
  BY EditKeepsCharge
<1>2. /\ cached' = IF raises THEN done ELSE final
      /\ sending' = IF raises THEN [part |-> "none"]
                    ELSE IF HasSlots(PlanName(c)) THEN SlotPart(final) ELSE ChargePart(final)
      /\ planCall' = [c EXCEPT !.now = now, !.day = day, !.plan = PlanName(c)]
      /\ stored' = stored
  BY DEF SetPlan
<1> HIDE DEF done, raises, final
<1>3. SchedKept(cached')
  BY <1>1, <1>2
<1>4. /\ "part" \in DOMAIN sending' /\ sending'.part \in {"none", "slots", "charge"}
      /\ sending'.part = "charge" => ChargeOk(sending'.backup)
  <2>1. CASE raises
    BY <1>2, <2>1
  <2>2. CASE ~raises /\ HasSlots(PlanName(c))
    BY <1>2, <2>2 DEF SlotPart
  <2>3. CASE ~raises /\ ~HasSlots(PlanName(c))
    <3>1. sending' = ChargePart(final)
      BY <1>2, <2>3
    <3> QED BY <1>1, <3>1 DEF ChargePart, SchedKept, ChargeInv
  <2> QED BY <2>1, <2>2, <2>3
<1>5. planCall'.kind = c.kind /\ c.kind # "backup"
  BY <1>2, PlanAssumption DEF PlanOrders
<1> QED BY <1>2, <1>3, <1>4, <1>5 DEF ChargeInv, SchedKept

LEMMA ChargeStep == ChargeInv /\ [PlanNext]_planVars => ChargeInv'
<1> SUFFICES ASSUME ChargeInv, [PlanNext]_planVars PROVE ChargeInv'
  OBVIOUS
<1>1. ASSUME NEW c \in PlanCalls, NEW now \in NowTimes, NEW day \in Days, SetPlan(c, now, day)
      PROVE  ChargeInv'
  BY <1>1, SetPlanKeepsCharge
<1>2. ASSUME NEW c \in ChargeCalls, NEW now \in ChargeTimes, BackupCharge(c, now)
      PROVE  ChargeInv'
  <2> DEFINE b == Backup(cached.backup, c, now)
  <2>1. c \in ChargeOrders /\ now \in Nat
    BY PlanAssumption
  <2>2. ChargeOk(b)
    BY <2>1, BackupIs DEF ChargeInv
  <2>3. /\ cached' = [cached EXCEPT !.backup = b] /\ stored' = stored
        /\ sending' = IF c.cacheOnly THEN sending ELSE ChargePart(cached')
    BY <1>2 DEF BackupCharge
  <2> HIDE DEF b
  <2>4. DOMAIN cached' = DOMAIN cached /\ cached'.backup = b
    BY <2>3 DEF ChargeInv
  <2>5. /\ "part" \in DOMAIN sending' /\ sending'.part \in {"none", "slots", "charge"}
        /\ sending'.part = "charge" => ChargeOk(sending'.backup)
    <3>1. CASE c.cacheOnly
      BY <2>3, <3>1 DEF ChargeInv
    <3>2. CASE ~c.cacheOnly
      BY <2>2, <2>3, <2>4, <3>2 DEF ChargePart
    <3> QED BY <3>1, <3>2
  <2> QED BY <2>2, <2>3, <2>4, <2>5 DEF ChargeInv
<1>3. CASE Accept
  <2>1. /\ stored' = IF sending.part = "slots"
                     THEN [stored EXCEPT !.mode = sending.mode,
                             !.custom = sending.custom, !.blend = sending.blend]
                     ELSE [stored EXCEPT !.mode = sending.mode,
                             !.backup = sending.backup, !.use = sending.use]
        /\ cached' = stored' /\ sending' = [part |-> "none"] /\ sending.part # "none"
    BY <1>3 DEF Accept
  <2>2. DOMAIN stored' = DOMAIN stored
        /\ stored'.backup = IF sending.part = "slots" THEN stored.backup ELSE sending.backup
    BY <2>1 DEF ChargeInv
  <2>3. "part" \in DOMAIN sending' /\ sending'.part = "none"
    BY <2>1
  <2> QED BY <2>1, <2>2, <2>3 DEF ChargeInv
<1>4. CASE Reject
  <2>1. sending' = [part |-> "none"] /\ cached' = cached /\ stored' = stored
    BY <1>4 DEF Reject
  <2>2. "part" \in DOMAIN sending' /\ sending'.part = "none"
    BY <2>1
  <2> QED BY <2>1, <2>2 DEF ChargeInv
<1>5. CASE ReadSchedule
  BY <1>5 DEF ReadSchedule, ChargeInv
<1>6. CASE UNCHANGED planVars
  BY <1>6 DEF planVars, ChargeInv
<1> QED BY <1>1, <1>2, <1>3, <1>4, <1>5, <1>6 DEF PlanNext

\* BackupAhead: a backup charge always ends after it starts, one that is
\* enabled without a duration ends after now, and times that lie ahead are used
\* as they were given (set_sb2_ac_charge(), schedule.py:2206-2262).
THEOREM BackupStaysAhead == PlanSpec => BackupAhead
<1>1. ChargeInv /\ [PlanNext]_planVars
      => [planCalls' # planCalls /\ planCall'.kind = "backup"
          => LET c == planCall'
                 b == cached'.backup
             IN /\ b.start # Unset => b.start < b.end
                /\ b.switch /\ ~cached.backup.switch /\ c.duration = Unset
                   => b.end > c.now
                /\ c.start # Unset /\ c.start < c.end /\ c.now < c.end
                     /\ c.duration = Unset
                   => b.start = c.start /\ b.end = c.end]_planVars
  <2> SUFFICES ASSUME ChargeInv, [PlanNext]_planVars, planCalls' # planCalls,
                      planCall'.kind = "backup"
               PROVE  /\ cached'.backup.start # Unset
                           => cached'.backup.start < cached'.backup.end
                      /\ cached'.backup.switch /\ ~cached.backup.switch
                           /\ planCall'.duration = Unset
                         => cached'.backup.end > planCall'.now
                      /\ planCall'.start # Unset /\ planCall'.start < planCall'.end
                           /\ planCall'.now < planCall'.end /\ planCall'.duration = Unset
                         => /\ cached'.backup.start = planCall'.start
                            /\ cached'.backup.end = planCall'.end
    OBVIOUS
  <2>1. PICK c \in ChargeCalls, now \in ChargeTimes : BackupCharge(c, now)
    <3>1. ~(\E c \in PlanCalls, now \in NowTimes, day \in Days : SetPlan(c, now, day))
      BY SetPlanKeepsCharge
    <3>2. ~Accept /\ ~Reject /\ ~ReadSchedule
      BY DEF Accept, Reject, ReadSchedule
    <3>3. PlanNext
      BY DEF planVars
    <3> QED BY <3>1, <3>2, <3>3 DEF PlanNext
  <2>2. c \in ChargeOrders /\ now \in Nat
    BY PlanAssumption
  <2> DEFINE b == Backup(cached.backup, c, now)
  <2>3. cached' = [cached EXCEPT !.backup = b] /\ planCall' = [c EXCEPT !.now = now]
    BY <2>1 DEF BackupCharge
  <2>4. /\ ChargeOk(b)
        /\ b.switch /\ ~cached.backup.switch /\ c.duration = Unset => b.end > now
        /\ c.start # Unset /\ c.start < c.end /\ now < c.end /\ c.duration = Unset
             => b.start = c.start /\ b.end = c.end
    <3> HIDE DEF b
    <3>1. ChargeOk(cached.backup) /\ b = Backup(cached.backup, c, now)
      BY DEF b, ChargeInv
    <3> QED BY <2>2, <3>1, BackupIs
  <2> HIDE DEF b
  <2>5. cached'.backup = b
    BY <2>3 DEF ChargeInv
  <2>6. /\ planCall'.now = now /\ planCall'.start = c.start /\ planCall'.end = c.end
        /\ planCall'.duration = c.duration
    BY <2>2, <2>3 DEF ChargeOrders
  <2> QED BY <2>4, <2>5, <2>6 DEF ChargeOk
<1> QED BY <1>1, ChargeStart, ChargeStep, PTL DEF PlanSpec, BackupAhead

-----------------------------------------------------------------------------
(***************************************************************************)
(* The walk over the slots of a plan.                                      *)
(***************************************************************************)
PlanTurn(w, slots, c, now, i) ==
  IF c.kind = "insert" THEN PlanInsertTurn(w, c, slots[i], i = Len(slots))
  ELSE PlanSetTurn(w, now, slots[i], i = Len(slots))

IsPlanWalk(turn, slots, c, now, k) ==
  turn = [i \in 0..k |-> IF i = 0 THEN PlanWalkStart(c)
                         ELSE IF c.kind = "insert"
                         THEN PlanInsertTurn(turn[i - 1], c, slots[i], i = Len(slots))
                         ELSE PlanSetTurn(turn[i - 1], now, slots[i], i = Len(slots))]

LEMMA PlanWalkStep ==
  ASSUME NEW slots, NEW c, NEW now, NEW k \in Nat, NEW turn,
         IsPlanWalk(turn, slots, c, now, k)
  PROVE  /\ turn[0] = PlanWalkStart(c)
         /\ \A i \in 1..k : turn[i] = PlanTurn(turn[i - 1], slots, c, now, i)
<1>1. /\ 0 \in 0..k /\ \A i \in 1..k : i \in 0..k /\ i # 0
  OBVIOUS
<1>2. turn[0] = PlanWalkStart(c)
  BY <1>1 DEF IsPlanWalk
<1>3. ASSUME NEW i \in 1..k PROVE turn[i] = PlanTurn(turn[i - 1], slots, c, now, i)
  BY <1>1 DEF IsPlanWalk, PlanTurn
<1> QED BY <1>2, <1>3

LEMMA PlanWalkExists ==
  ASSUME NEW slots, NEW c, NEW now
  PROVE  \A k \in Nat : \E turn : IsPlanWalk(turn, slots, c, now, k)
<1> DEFINE N == {k \in Nat : \E turn : IsPlanWalk(turn, slots, c, now, k)}
<1>1. 0 \in N
  <2> DEFINE first == [i \in 0..0 |-> PlanWalkStart(c)]
  <2>1. first = [i \in 0..0 |-> IF i = 0 THEN PlanWalkStart(c)
                                ELSE PlanTurn(first[i - 1], slots, c, now, i)]
    OBVIOUS
  <2> HIDE DEF first
  <2>2. IsPlanWalk(first, slots, c, now, 0)
    BY <2>1 DEF IsPlanWalk, PlanTurn
  <2> QED BY <2>2
<1>2. ASSUME NEW k \in N PROVE k + 1 \in N
  <2>1. PICK turn : IsPlanWalk(turn, slots, c, now, k)
    OBVIOUS
  <2>2. k \in Nat /\ k + 1 \in Nat
    OBVIOUS
  <2> HIDE DEF N
  <2>3. /\ turn[0] = PlanWalkStart(c)
        /\ \A i \in 1..k : turn[i] = PlanTurn(turn[i - 1], slots, c, now, i)
    BY <2>1, <2>2, PlanWalkStep
  <2> DEFINE last == PlanTurn(turn[k], slots, c, now, k + 1)
             more == [i \in 0..(k + 1) |-> IF i = k + 1 THEN last ELSE turn[i]]
             step == [i \in 0..(k + 1) |->
                        IF i = 0 THEN PlanWalkStart(c)
                        ELSE PlanTurn(more[i - 1], slots, c, now, i)]
  <2>4. ASSUME NEW i \in 0..(k + 1) PROVE more[i] = step[i]
    <3>1. CASE i = 0
      <4>1. i # k + 1 BY <2>2, <3>1
      <4> QED BY <3>1, <4>1, <2>3
    <3>2. CASE i = k + 1
      <4>1. i # 0 /\ i - 1 = k /\ k \in 0..(k + 1) /\ k # k + 1
        BY <2>2, <3>2
      <4>2. more[i - 1] = turn[k]
        BY <4>1
      <4>3. more[i] = last
        BY <3>2
      <4> HIDE DEF more
      <4> QED BY <3>2, <4>1, <4>2, <4>3
    <3>3. CASE i \in 1..k
      <4>1. i # 0 /\ i # k + 1 /\ i - 1 \in 0..(k + 1) /\ i - 1 # k + 1
        BY <2>2, <3>3
      <4>2. more[i - 1] = turn[i - 1] /\ more[i] = turn[i]
        BY <4>1
      <4>3. turn[i] = PlanTurn(turn[i - 1], slots, c, now, i)
        BY <2>3, <3>3
      <4> HIDE DEF more, last
      <4> QED BY <4>1, <4>2, <4>3
    <3> QED BY <2>2, <3>1, <3>2, <3>3
  <2>5. more = step
    BY <2>4
  <2> HIDE DEF more, last
  <2>6. IsPlanWalk(more, slots, c, now, k + 1)
    BY <2>5 DEF IsPlanWalk, PlanTurn
  <2> QED BY <2>2, <2>6 DEF N
<1> QED BY <1>1, <1>2, NatSet

LEMMA PlanWalkIs ==
  ASSUME NEW slots, NEW c, NEW now, Len(slots) \in Nat
  PROVE  \E turn : /\ IsPlanWalk(turn, slots, c, now, Len(slots))
                   /\ PlanWalk(slots, c, now) = turn[Len(slots)].out
<1> DEFINE turn == CHOOSE turn : IsPlanWalk(turn, slots, c, now, Len(slots))
<1>1. PlanWalk(slots, c, now) = turn[Len(slots)].out
  BY DEF PlanWalk, IsPlanWalk
<1>2. IsPlanWalk(turn, slots, c, now, Len(slots))
  BY PlanWalkExists
<1> QED BY <1>1, <1>2

\* Where it begins.
LEMMA PlanStartIs ==
  ASSUME NEW c, InPlan(c), NEW w, w = PlanWalkStart(c)
  PROVE  /\ Walking(w, PowerSlots) /\ w.last = 0 /\ w.next = Unset /\ w.split = <<>>
         /\ w.pending \in BOOLEAN /\ w.current \in BOOLEAN
         /\ \A t : Contents(w.out, t) = {}
         /\ (c.kind = "insert" => w.pending = TRUE) /\ (c.kind # "insert" => w.current = TRUE)
         /\ PlanParams(w, c)
<1>1. /\ w.out = <<>> /\ w.last = 0 /\ w.next = Unset /\ w.split = <<>>
      /\ w.pending \in BOOLEAN /\ w.current \in BOOLEAN
      /\ (c.kind = "insert" => w.pending = TRUE) /\ (c.kind # "insert" => w.current = TRUE)
      /\ WalkFields \subseteq DOMAIN w /\ PlanFields \subseteq DOMAIN w
      /\ w.power = InLimits(c.power) /\ w.type = c.type
  BY DEF PlanWalkStart, WalkFields, PlanFields
<1>2. w.out \in Seq(PowerSlots) /\ Len(w.out) = 0
  BY <1>1
<1>3. Chain(w.out, w.last)
  BY <1>1, <1>2 DEF Chain, InOrder
<1>4. \A t : Contents(w.out, t) = {}
  BY <1>2 DEF Contents, At
<1>5. PlanParams(w, c)
  <2>1. InLimits(c.power) \in Int /\ c.type \in Int
    BY InLimitsIs DEF InPlan
  <2> QED BY <1>1, <2>1 DEF PlanParams
<1> QED BY <1>1, <1>2, <1>3, <1>4, <1>5 DEF Walking

LEMMA PlanInsertWalk ==
  ASSUME NEW c, InPlan(c), c.kind = "insert", NEW now,
         NEW slots, Day(slots, PowerSlots), slots # <<>>
  PROVE  /\ PlanWalk(slots, c, now) \in Seq(PowerSlots) /\ InOrder(PlanWalk(slots, c, now))
         /\ Done(PlanWalk(slots, c, now), slots, Len(slots), c, PlanWanted(c))
<1> DEFINE S == PowerSlots
           Q == PlanWanted(c)
<1>1. Len(slots) \in Nat /\ Len(slots) > 0
  BY LenProperties, EmptySeq DEF Day
<1>2. PICK turn : /\ IsPlanWalk(turn, slots, c, now, Len(slots))
                  /\ PlanWalk(slots, c, now) = turn[Len(slots)].out
  BY <1>1, PlanWalkIs
<1>3. /\ turn[0] = PlanWalkStart(c)
      /\ \A i \in 1..Len(slots) : turn[i] = PlanTurn(turn[i - 1], slots, c, now, i)
  BY <1>1, <1>2, PlanWalkStep
<1> DEFINE P(i) == i <= Len(slots)
                     => Inserting(turn[i], S, Q, c, slots, i) /\ PlanParams(turn[i], c)
           N == {i \in Nat : P(i)}
<1>4. 0 \in N
  <2> DEFINE w == turn[0]
  <2>1. /\ Walking(w, S) /\ w.last = 0 /\ w.next = Unset /\ w.split = <<>>
        /\ \A t : Contents(w.out, t) = {}
        /\ w.pending = TRUE /\ PlanParams(w, c)
    BY <1>3, PlanStartIs
  <2> HIDE DEF w
  <2>2. Reach(slots, 0) = 0 /\ c.start \in Int /\ c.end \in Int /\ 0 <= c.start /\ 0 <= c.end
    BY DEF Reach, InPlan, Fits, LastMinute
  <2>3. Undone(w.out, slots, 0, c)
    BY <2>1, NothingBefore DEF Undone
  <2>4. Awaiting(w, S, c, slots, 0)
    BY <2>1, <2>2, <2>3 DEF Awaiting
  <2>5. Inserting(w, S, Q, c, slots, 0)
    BY <2>1, <2>4 DEF Inserting, Pending
  <2> QED BY <2>1, <2>5 DEF w
<1>5. ASSUME NEW i \in N PROVE i + 1 \in N
  <2>1. i \in Nat /\ P(i)
    OBVIOUS
  <2>2. ASSUME i + 1 <= Len(slots) PROVE P(i + 1)
    <3>1. /\ i + 1 \in 1..Len(slots) /\ (i + 1) - 1 = i /\ i <= Len(slots) /\ i + 1 # 0
      BY <1>1, <2>1, <2>2
    <3>2. turn[i + 1] = PlanInsertTurn(turn[i], c, slots[i + 1], i + 1 = Len(slots))
      BY <1>3, <3>1 DEF PlanTurn
    <3>3. Inserting(turn[i], S, Q, c, slots, i) /\ PlanParams(turn[i], c)
      BY <2>1, <3>1
    <3>4. Turn(S, slots, i, c)
      BY <2>1, <2>2 DEF Turn, InPlan
    <3> HIDE DEF P
    <3>5. Inserting(turn[i + 1], S, Q, c, slots, i + 1) /\ PlanParams(turn[i + 1], c)
      BY <3>2, <3>3, <3>4, PlanInserts
    <3> QED BY <3>1, <3>5 DEF P
  <2> QED BY <2>1, <2>2
<1>6. N = Nat
  <2> HIDE DEF P
  <2> QED BY <1>4, <1>5, NatSet
<1>7. P(Len(slots))
  <2> HIDE DEF P
  <2> QED BY <1>1, <1>6
<1> DEFINE u == turn[Len(slots)]
<1>8. Inserting(u, S, Q, c, slots, Len(slots))
  BY <1>1, <1>7
<1> HIDE DEF u, S, Q
<1>9. ~Pending(u, slots, Len(slots))
  BY <1>1 DEF Pending
<1>10. /\ u.out \in Seq(S) /\ InOrder(u.out) /\ Done(u.out, slots, Len(slots), c, Q)
  BY <1>8, <1>9 DEF Inserting, Inserted, Walking, Chain
<1> QED BY <1>2, <1>10 DEF u, S, Q

SettingOne(w, c, slots, i, now) ==
  Setting(w, PowerSlots, PlanWanted(c), slots, i, FALSE, now)

LEMMA PlanSetWalk ==
  ASSUME NEW c, InPlan(c), c.kind # "insert", NEW now \in NowTimes,
         NEW slots, Day(slots, PowerSlots), slots # <<>>
  PROVE  /\ PlanWalk(slots, c, now) \in Seq(PowerSlots) /\ InOrder(PlanWalk(slots, c, now))
         /\ Contents(PlanWalk(slots, c, now), now) \cap PlanWanted(c) # {}
         /\ Spared(PlanWalk(slots, c, now), slots, Len(slots), FALSE, now)
<1> DEFINE S == PowerSlots
           Q == PlanWanted(c)
<1>1. Len(slots) \in Nat /\ Len(slots) > 0
  BY LenProperties, EmptySeq DEF Day
<1>2. PICK turn : /\ IsPlanWalk(turn, slots, c, now, Len(slots))
                  /\ PlanWalk(slots, c, now) = turn[Len(slots)].out
  BY <1>1, PlanWalkIs
<1>3. /\ turn[0] = PlanWalkStart(c)
      /\ \A i \in 1..Len(slots) : turn[i] = PlanTurn(turn[i - 1], slots, c, now, i)
  BY <1>1, <1>2, PlanWalkStep
<1> DEFINE P(i) == i <= Len(slots)
                     => SettingOne(turn[i], c, slots, i, now) /\ PlanParams(turn[i], c)
           N == {i \in Nat : P(i)}
<1>4. 0 \in N
  <2> DEFINE w == turn[0]
  <2>1. /\ Walking(w, S) /\ w.last = 0 /\ \A t : Contents(w.out, t) = {}
        /\ w.current = TRUE /\ PlanParams(w, c)
    BY <1>3, PlanStartIs
  <2> HIDE DEF w
  <2>2. Reach(slots, 0) = 0 /\ ~(now < 0)
    BY DEF Reach, NowTimes
  <2>3. Spared(w.out, slots, 0, FALSE, now)
    BY <2>1, NothingBefore DEF Spared
  <2>4. Heard(w.out, w.current, slots, 0, now, Q)
    BY <2>1, <2>2 DEF Heard
  <2>5. SettingOne(w, c, slots, 0, now)
    BY <2>1, <2>2, <2>3, <2>4 DEF Setting, SettingOne
  <2> QED BY <2>1, <2>5 DEF w
<1>5. ASSUME NEW i \in N PROVE i + 1 \in N
  <2>1. i \in Nat /\ P(i)
    OBVIOUS
  <2>2. ASSUME i + 1 <= Len(slots) PROVE P(i + 1)
    <3>1. /\ i + 1 \in 1..Len(slots) /\ (i + 1) - 1 = i /\ i <= Len(slots) /\ i + 1 # 0
      BY <1>1, <2>1, <2>2
    <3>2. turn[i + 1] = PlanSetTurn(turn[i], now, slots[i + 1], i + 1 = Len(slots))
      BY <1>3, <3>1 DEF PlanTurn
    <3>3. SettingOne(turn[i], c, slots, i, now) /\ PlanParams(turn[i], c)
      BY <2>1, <3>1
    <3>4. Turn(S, slots, i, c)
      BY <2>1, <2>2 DEF Turn, InPlan
    <3> HIDE DEF P
    <3>5. Setting(turn[i], S, Q, slots, i, FALSE, now)
      BY <3>3 DEF SettingOne
    <3>6. /\ Setting(turn[i + 1], S, Q, slots, i + 1, FALSE, now)
          /\ PlanParams(turn[i + 1], c)
      BY <3>2, <3>3, <3>4, <3>5, PlanSets
    <3>7. SettingOne(turn[i + 1], c, slots, i + 1, now)
      BY <3>6 DEF SettingOne
    <3> QED BY <3>1, <3>6, <3>7 DEF P
  <2> QED BY <2>1, <2>2
<1>6. N = Nat
  <2> HIDE DEF P
  <2> QED BY <1>4, <1>5, NatSet
<1>7. P(Len(slots))
  <2> HIDE DEF P
  <2> QED BY <1>1, <1>6
<1> DEFINE u == turn[Len(slots)]
<1>8. SettingOne(u, c, slots, Len(slots), now)
  BY <1>1, <1>7
<1> HIDE DEF u, S, Q
<1>9. /\ u.out \in Seq(S) /\ InOrder(u.out) /\ Contents(u.out, now) \cap Q # {}
      /\ Spared(u.out, slots, Len(slots), FALSE, now)
  BY <1>1, <1>8 DEF SettingOne, Setting, Heard, Walking, Chain, S, Q
<1> QED BY <1>2, <1>9 DEF u, S, Q

(***************************************************************************)
(* What the slots of a plan ask for after a call.                          *)
(***************************************************************************)
Load(s) == <<s.power, s.type>>
LoadAll(contents) == {Load(x) : x \in contents}
LoadAt(list, t) == {<<s.power, s.type>> : s \in At(list, t)}

\* The slots list are what call c may make of those of base.
Honours(c, base, list) == \A t \in NowTimes : Honoured(c, base, LoadAt(list, t), t)

\* A call with the time it is made at.
SameCall(q, c, now) ==
  /\ q.kind = c.kind /\ q.power = c.power /\ q.type = c.type
  /\ q.start = c.start /\ q.end = c.end /\ q.now = now

LEMMA ContentLoad ==
  ASSUME NEW s \in PowerSlots
  PROVE  Load(Content(s)) = Load(s) /\ Content(s).power = s.power /\ Content(s).type = s.type
  BY DEF Load, Content, PowerSlots

LEMMA PowerSlotsAt ==
  ASSUME NEW list \in Seq(PowerSlots), NEW t, NEW s \in At(list, t)
  PROVE  s \in PowerSlots
<1>1. PICK i \in 1..Len(list) : s = list[i]
  BY DEF At
<1> QED BY <1>1, ElementOfSeq

LEMMA LoadAtIs ==
  ASSUME NEW list \in Seq(PowerSlots), NEW t
  PROVE  LoadAt(list, t) = LoadAll(Contents(list, t))
<1>1. LoadAt(list, t) = {Load(s) : s \in At(list, t)}
  BY DEF LoadAt, Load
<1>2. \A s \in At(list, t) : Load(Content(s)) = Load(s)
  BY PowerSlotsAt, ContentLoad
<1>3. {Load(s) : s \in At(list, t)} = {Load(Content(s)) : s \in At(list, t)}
  BY <1>2
<1> QED BY <1>1, <1>3 DEF Contents, LoadAll

Asking(c, load) == \E x \in load : Given(InLimits(c.power), x[1]) /\ Given(c.type, x[2])

LEMMA PlanWantedAsks ==
  ASSUME NEW list \in Seq(PowerSlots), NEW t, NEW c,
         Contents(list, t) \cap PlanWanted(c) # {}
  PROVE  Asking(c, LoadAt(list, t))
<1>1. PICK s \in At(list, t), x \in PowerSlots : Content(s) = Content(x) /\ AskedOf(c, x)
  BY DEF Contents, PlanWanted
<1>2. s \in PowerSlots
  BY PowerSlotsAt
<1>3. s.power = x.power /\ s.type = x.type
  BY <1>1, <1>2, ContentLoad
<1>4. AskedOf(c, s)
  BY <1>1, <1>3 DEF AskedOf
<1> DEFINE y == <<s.power, s.type>>
<1>5. y \in LoadAt(list, t) /\ y[1] = s.power /\ y[2] = s.type
  BY <1>1 DEF LoadAt
<1> QED BY <1>4, <1>5 DEF AskedOf, Asking

\* A list of the one slot that was given.
LEMMA NewSlotIs ==
  ASSUME NEW c, InPlan(c), NEW x, x = NewSlot(c)
  PROVE  /\ <<x>> \in Seq(PowerSlots) /\ InOrder(<<x>>)
         /\ \A t \in NowTimes : IF Within(c, t) THEN Asking(c, LoadAt(<<x>>, t))
                                ELSE LoadAt(<<x>>, t) = {}
<1>1. /\ x.start = c.start /\ x.end = Text(c.end)
      /\ x.power = Or(InLimits(c.power), PowerDef) /\ x.type = Or(c.type, Supply)
      /\ x = [start |-> x.start, end |-> x.end, power |-> x.power, type |-> x.type]
  BY DEF NewSlot
<1>2. /\ c.start \in Places /\ Text(c.end) \in Places
      /\ Clock(c.start) = c.start /\ Clock(Text(c.end)) = c.end
      /\ c.start \in Int /\ c.end \in Int /\ c.start < c.end
  <2>1. c.start \in 0..LastMinute /\ c.end \in 0..LastMinute /\ c.start < c.end
    BY DEF InPlan, Fits
  <2> QED BY <2>1, TextIs DEF LastMinute
<1>3. x.power \in Int /\ x.type \in Int
  <2>1. InLimits(c.power) \in Int /\ c.type \in Int /\ PowerDef \in Int /\ Supply \in Int
    <3>1. c.power \in Int /\ c.type \in Int
      BY DEF InPlan
    <3>2. PowerDef \in Int /\ Supply \in Int
      BY PlanAssumption DEF Supply
    <3> QED BY <3>1, <3>2, InLimitsIs
  <2> QED BY <1>1, <2>1 DEF Or
<1>4. x \in PowerSlots
  BY <1>1, <1>2, <1>3 DEF PowerSlots, Places
<1>5. /\ <<x>> \in Seq(PowerSlots) /\ Len(<<x>>) = 1 /\ <<x>>[1] = x
  BY <1>4
<1>6. InOrder(<<x>>)
  BY <1>1, <1>2, <1>5 DEF InOrder
<1>7. \A t : At(<<x>>, t) = IF Within(c, t) THEN {x} ELSE {}
  <2>1. \A t : Covers(x, t) <=> Within(c, t)
    BY <1>1, <1>2 DEF Covers, Within
  <2> DEFINE list == <<x>>
  <2>2. Len(list) = 1 /\ list[1] = x /\ 1..1 = {1}
    BY <1>5
  <2> HIDE DEF list
  <2>3. \A t : At(list, t) = IF Within(c, t) THEN {x} ELSE {}
    BY <2>1, <2>2 DEF At
  <2> QED BY <2>3 DEF list
<1>8. Given(InLimits(c.power), x.power) /\ Given(c.type, x.type)
  BY <1>1 DEF Given, Or
<1>9. ASSUME NEW t \in NowTimes, Within(c, t) PROVE Asking(c, LoadAt(<<x>>, t))
  <2> DEFINE y == <<x.power, x.type>>
  <2>1. y \in LoadAt(<<x>>, t) /\ y[1] = x.power /\ y[2] = x.type
    BY <1>7, <1>9 DEF LoadAt
  <2> QED BY <1>8, <2>1 DEF Asking
<1>10. ASSUME NEW t \in NowTimes, ~Within(c, t) PROVE LoadAt(<<x>>, t) = {}
  BY <1>7, <1>10 DEF LoadAt
<1> QED BY <1>5, <1>6, <1>9, <1>10

LEMMA PlanSlotsAre ==
  ASSUME NEW c, InPlan(c), c.kind \in {"insert", "set", "now"}, NEW now \in NowTimes,
         NEW slots, Day(slots, PowerSlots), NEW q, SameCall(q, c, now)
  PROVE  /\ PlanSlots(slots, c, now) \in Seq(PowerSlots)
         /\ InOrder(PlanSlots(slots, c, now))
         /\ Honours(q, slots, PlanSlots(slots, c, now))
<1> DEFINE list == PlanSlots(slots, c, now)
<1>1. \A load : Asking(q, load) <=> Asking(c, load)
  BY DEF SameCall, Asking
<1>2. CASE c.kind = "set" \/ slots = <<>>
  <2> DEFINE x == NewSlot(c)
  <2>1. list = <<x>>
    BY <1>2 DEF PlanSlots
  <2> HIDE DEF x, list
  <2>2. /\ list \in Seq(PowerSlots) /\ InOrder(list)
        /\ \A t \in NowTimes : IF Within(c, t) THEN Asking(c, LoadAt(list, t))
                               ELSE LoadAt(list, t) = {}
    BY <2>1, NewSlotIs DEF x
  <2>3. ASSUME NEW t \in NowTimes PROVE Honoured(q, slots, LoadAt(list, t), t)
    <3>1. q.start = c.start /\ q.end = c.end /\ q.kind = c.kind
      BY DEF SameCall
    <3>2. IF q.start <= t /\ t < q.end THEN Asking(q, LoadAt(list, t))
          ELSE LoadAt(list, t) = {}
      BY <1>1, <2>2, <3>1 DEF Within
    <3>3. q.kind # "delete" /\ ~(q.kind = "now" /\ slots # <<>>)
      BY <1>2, <3>1
    <3>4. q.kind = "insert" => {<<s.power, s.type>> : s \in At(slots, t)} = {}
      <4>1. q.kind = "insert" => slots = <<>>
        BY <1>2, <3>1
      <4>2. slots = <<>> => At(slots, t) = {}
        BY DEF At
      <4> QED BY <4>1, <4>2
    <3>5. Honoured(q, slots, LoadAt(list, t), t)
            <=> IF q.start <= t /\ t < q.end THEN Asking(q, LoadAt(list, t))
                ELSE LoadAt(list, t) = IF q.kind = "insert"
                       THEN {<<s.power, s.type>> : s \in At(slots, t)} ELSE {}
      BY <3>3, Zenon DEF Honoured, Asking
    <3> QED BY <3>2, <3>4, <3>5
  <2> QED BY <2>2, <2>3 DEF Honours, list
<1>3. CASE c.kind = "insert" /\ slots # <<>>
  <2>1. list = PlanWalk(slots, c, now)
    BY <1>3 DEF PlanSlots
  <2> HIDE DEF list
  <2>2. /\ list \in Seq(PowerSlots) /\ InOrder(list)
        /\ Done(list, slots, Len(slots), c, PlanWanted(c))
    BY <1>3, <2>1, PlanInsertWalk
  <2>3. ASSUME NEW t \in NowTimes PROVE Honoured(q, slots, LoadAt(list, t), t)
    <3>1. q.start = c.start /\ q.end = c.end /\ q.kind = c.kind
      BY DEF SameCall
    <3>2. Within(c, t) => Asking(c, LoadAt(list, t))
      BY <2>2, PlanWantedAsks DEF Done
    <3>3. ~Within(c, t) => LoadAt(list, t) = LoadAt(slots, t)
      <4>1. ~Within(c, t) => Contents(list, t) = Contents(slots, t)
        BY <2>2, BeforeAll DEF Done
      <4>2. slots \in Seq(PowerSlots)
        BY DEF Day
      <4> QED BY <2>2, <4>1, <4>2, LoadAtIs
    <3>4. q.kind # "delete" /\ ~(q.kind = "now" /\ slots # <<>>)
      BY <1>3, <3>1
    <3>5. Honoured(q, slots, LoadAt(list, t), t)
            <=> IF q.start <= t /\ t < q.end THEN Asking(q, LoadAt(list, t))
                ELSE LoadAt(list, t) = IF q.kind = "insert" THEN LoadAt(slots, t) ELSE {}
      BY <3>4, Zenon DEF Honoured, Asking, LoadAt
    <3> QED BY <1>1, <1>3, <3>1, <3>2, <3>3, <3>5 DEF Within
  <2> QED BY <2>2, <2>3 DEF Honours, list
<1>4. CASE c.kind = "now" /\ slots # <<>>
  <2>1. list = PlanWalk(slots, c, now)
    BY <1>4 DEF PlanSlots
  <2> HIDE DEF list
  <2>2. /\ list \in Seq(PowerSlots) /\ InOrder(list)
        /\ Contents(list, now) \cap PlanWanted(c) # {}
        /\ Spared(list, slots, Len(slots), FALSE, now)
    BY <1>4, <2>1, PlanSetWalk
  <2>3. ASSUME NEW t \in NowTimes PROVE Honoured(q, slots, LoadAt(list, t), t)
    <3>1. q.now = now /\ q.kind = c.kind
      BY DEF SameCall
    <3>2. Asking(q, LoadAt(list, now))
      BY <1>1, <2>2, PlanWantedAsks
    <3>3. LoadAt(list, t) = LoadAt(slots, t) \/ At(slots, t) = At(slots, now)
      <4>1. Contents(list, t) = Contents(slots, t) \/ At(slots, t) = At(slots, now)
        BY <2>2, BeforeAll DEF Spared
      <4>2. slots \in Seq(PowerSlots)
        BY DEF Day
      <4> QED BY <2>2, <4>1, <4>2, LoadAtIs
    <3>4. q.kind # "delete" /\ q.kind = "now" /\ slots # <<>>
      BY <1>4, <3>1
    <3>5. Honoured(q, slots, LoadAt(list, t), t)
            <=> IF t = q.now THEN Asking(q, LoadAt(list, t))
                ELSE LoadAt(list, t) = LoadAt(slots, t) \/ At(slots, t) = At(slots, q.now)
      BY <3>4, Zenon DEF Honoured, Asking, LoadAt
    <3> QED BY <3>1, <3>2, <3>3, <3>5
  <2> QED BY <2>2, <2>3 DEF Honours, list
<1> QED BY <1>2, <1>3, <1>4

-----------------------------------------------------------------------------
(***************************************************************************)
(* Which plan a call is for.                                               *)
(***************************************************************************)
Listed(plans) ==
  plans \in Seq(Plans) /\ \A i \in 1..Len(plans) : InOrder(plans[i].slots)

\* The first of the largest.
FirstMost(g, k, i) ==
  /\ i \in 1..k /\ \A j \in 1..k : g[j] <= g[i]
  /\ \A j \in 1..(i - 1) : g[j] < g[i]

LEMMA FirstMostExists ==
  ASSUME NEW n \in Nat, NEW g \in [1..n -> Nat]
  PROVE  \A k \in Nat : 1 <= k /\ k <= n => \E i : FirstMost(g, k, i)
<1> DEFINE N == {k \in Nat : 1 <= k /\ k <= n => \E i : FirstMost(g, k, i)}
<1>1. 0 \in N
  OBVIOUS
<1>2. ASSUME NEW k \in N PROVE k + 1 \in N
  <2>1. k \in Nat /\ (1 <= k /\ k <= n => \E i : FirstMost(g, k, i))
    OBVIOUS
  <2>2. ASSUME k + 1 <= n PROVE \E i : FirstMost(g, k + 1, i)
    <3>1. \A j \in 1..(k + 1) : g[j] \in Nat
      BY <2>1, <2>2
    <3>2. CASE k = 0
      <4>1. FirstMost(g, k + 1, 1)
        BY <3>1, <3>2 DEF FirstMost
      <4> QED BY <4>1
    <3>3. CASE k # 0
      <4>1. PICK i : FirstMost(g, k, i)
        BY <2>1, <2>2, <3>3
      <4>2. /\ i \in 1..k /\ \A j \in 1..k : g[j] <= g[i]
            /\ \A j \in 1..(i - 1) : g[j] < g[i]
        BY <4>1 DEF FirstMost
      <4>3. CASE g[k + 1] <= g[i]
        <5>1. FirstMost(g, k + 1, i)
          BY <2>1, <4>2, <4>3 DEF FirstMost
        <5> QED BY <5>1
      <4>4. CASE ~(g[k + 1] <= g[i])
        <5>1. g[k + 1] \in Nat /\ g[i] \in Nat /\ g[i] < g[k + 1]
          BY <2>1, <3>1, <4>2, <4>4
        <5>2. \A j \in 1..k : g[j] \in Nat /\ g[j] < g[k + 1]
          BY <2>1, <3>1, <4>2, <5>1
        <5>3. FirstMost(g, k + 1, k + 1)
          BY <2>1, <5>1, <5>2 DEF FirstMost
        <5> QED BY <5>3
      <4> QED BY <4>3, <4>4
    <3> QED BY <3>2, <3>3
  <2> QED BY <2>1, <2>2
<1> QED BY <1>1, <1>2, NatSet

\* A plan has a day of the call.
Touches(plans, week, i) == i \in 1..Len(plans) /\ plans[i].week \cap week # {}

LEMMA BestIs ==
  ASSUME NEW plans, Listed(plans), NEW week \in SUBSET Days, NEW h, Touches(plans, week, h)
  PROVE  Touches(plans, week, Best(plans, week))
<1> DEFINE n == Len(plans)
           g == [j \in 1..n |-> Cardinality(plans[j].week \cap week)]
<1>1. n \in Nat /\ h \in 1..n /\ 1 <= n
  BY LenProperties DEF Listed, Touches
<1>2. ASSUME NEW j \in 1..n
      PROVE  /\ IsFiniteSet(plans[j].week \cap week)
             /\ Cardinality(plans[j].week \cap week) \in Nat
  <2>1. IsFiniteSet(Days)
    BY PlanAssumption
  <2>2. plans[j].week \cap week \subseteq Days
    OBVIOUS
  <2>3. IsFiniteSet(plans[j].week \cap week)
    BY <2>1, <2>2, FS_Subset
  <2> QED BY <2>3, FS_CardinalityType
<1>3. g \in [1..n -> Nat]
  BY <1>2
<1>4. PICK i : FirstMost(g, n, i)
  <2> HIDE DEF g, n
  <2> QED BY <1>1, <1>3, FirstMostExists
<1>5. i \in 1..n /\ \A j \in 1..(i - 1) : j \in 1..n
  BY <1>1, <1>4 DEF FirstMost
<1>6. /\ \A j \in 1..Len(plans) :
           Cardinality(plans[j].week \cap week) <= Cardinality(plans[i].week \cap week)
      /\ \A j \in 1..(i - 1) :
           Cardinality(plans[j].week \cap week) < Cardinality(plans[i].week \cap week)
  BY <1>4, <1>5 DEF FirstMost
<1> DEFINE best == Best(plans, week)
<1>7. best \in 1..n
      /\ \A j \in 1..n :
           Cardinality(plans[j].week \cap week) <= Cardinality(plans[best].week \cap week)
  <2>1. \E x \in 1..n : /\ \A j \in 1..Len(plans) :
                             Cardinality(plans[j].week \cap week)
                               <= Cardinality(plans[x].week \cap week)
                        /\ \A j \in 1..(x - 1) :
                             Cardinality(plans[j].week \cap week)
                               < Cardinality(plans[x].week \cap week)
    BY <1>5, <1>6
  <2> QED BY <2>1 DEF Best
<1> HIDE DEF best, g
<1>8. Cardinality(plans[h].week \cap week) # 0
  BY <1>1, <1>2, FS_EmptySet DEF Touches
<1>9. Cardinality(plans[best].week \cap week) # 0
  <2>1. /\ Cardinality(plans[h].week \cap week) \in Nat
        /\ Cardinality(plans[best].week \cap week) \in Nat
        /\ Cardinality(plans[h].week \cap week) <= Cardinality(plans[best].week \cap week)
    BY <1>1, <1>2, <1>7
  <2> QED BY <1>8, <2>1
<1>10. plans[best].week \cap week # {}
  BY <1>7, <1>9, FS_EmptySet
<1> QED BY <1>7, <1>10 DEF Touches, best

\* The first plan that has a day of the call.
LEMMA FirstIs ==
  ASSUME NEW plans, Listed(plans), NEW week, NEW h, Touches(plans, week, h)
  PROVE  \E i \in 1..Len(plans) : /\ plans[i].week \cap week # {}
                                  /\ \A j \in 1..(i - 1) : plans[j].week \cap week = {}
<1> DEFINE T == {i \in Nat : Touches(plans, week, i)}
<1>1. h \in T /\ Len(plans) \in Nat
  BY LenProperties DEF Listed, Touches
<1>2. PICK x \in T : \A y \in T : ~(<<y, x>> \in OpToRel(<, Nat))
  <2>1. T \subseteq Nat /\ T # {}
    BY <1>1
  <2> HIDE DEF T
  <2> QED BY <2>1, WFMin, NatLessThanWellFounded
<1>3. x \in 1..Len(plans) /\ plans[x].week \cap week # {}
  BY DEF Touches
<1>4. ASSUME NEW j \in 1..(x - 1) PROVE plans[j].week \cap week = {}
  <2>1. j \in Nat /\ j < x /\ j \in 1..Len(plans) /\ x \in Nat
    BY <1>1, <1>3
  <2>2. <<j, x>> \in OpToRel(<, Nat)
    BY <2>1 DEF OpToRel
  <2> QED BY <1>2, <2>1, <2>2 DEF Touches
<1> QED BY <1>3, <1>4

LEMMA MatchIs ==
  ASSUME NEW plans, Listed(plans), NEW week \in SUBSET Days, NEW given \in BOOLEAN,
         NEW h, Touches(plans, week, h)
  PROVE  Touches(plans, week, Match(plans, week, given))
<1>1. CASE given
  <2>1. Match(plans, week, given) = Best(plans, week)
    BY <1>1 DEF Match
  <2> QED BY <2>1, BestIs
<1>2. CASE ~given
  <2> DEFINE i == Match(plans, week, given)
  <2>1. i \in 1..Len(plans) /\ plans[i].week \cap week # {}
    BY <1>2, FirstIs DEF Match
  <2> QED BY <2>1 DEF Touches
<1> QED BY <1>1, <1>2

\* The plan goes on, or a new one is appended for the call.
PlanKnown(plans, m, k) ==
  m.plans = plans /\ k \in 1..Len(plans) /\ plans[k].week \subseteq m.week

PlanAdded(plans, m, k) ==
  /\ Len(m.plans) = Len(plans) + 1 /\ k = Len(plans) + 1
  /\ \A j \in 1..Len(plans) : m.plans[j] = plans[j]

NoneTouches(plans, week) == \A i \in 1..Len(plans) : plans[i].week \cap week = {}

\* The weekdays a call turns out to be for, and the slots it starts from.
ChosenFrom(plans, week, given, m, base) ==
  IF NoneTouches(plans, week) THEN m.week = week /\ base = <<>>
  ELSE LET i == Match(plans, week, given)
       IN m.week = (IF given THEN week ELSE plans[i].week) /\ base = plans[i].slots

Indexed(plans) == \A i \in 1..Len(plans) : plans[i].index = i - 1

LEMMA PlanAppended ==
  ASSUME NEW plans, Listed(plans), NEW p \in Plans, InOrder(p.slots)
  PROVE  /\ Listed(Append(plans, p)) /\ Len(Append(plans, p)) = Len(plans) + 1
         /\ \A j \in 1..Len(plans) : Append(plans, p)[j] = plans[j]
         /\ Append(plans, p)[Len(plans) + 1] = p
<1> DEFINE more == Append(plans, p)
<1>1. /\ more \in Seq(Plans) /\ Len(more) = Len(plans) + 1 /\ Len(plans) \in Nat
      /\ \A j \in 1..Len(plans) : more[j] = plans[j]
      /\ more[Len(plans) + 1] = p
  BY AppendProperties, LenProperties DEF Listed
<1> HIDE DEF more
<1>2. ASSUME NEW i \in 1..Len(more) PROVE InOrder(more[i].slots)
  <2>1. i \in 1..Len(plans) \/ i = Len(plans) + 1
    BY <1>1
  <2> QED BY <2>1, <1>1 DEF Listed
<1> QED BY <1>1, <1>2 DEF Listed, more

LEMMA PlanFacts ==
  ASSUME NEW plans, Listed(plans), NEW i \in 1..Len(plans)
  PROVE  /\ plans[i] \in Plans /\ plans[i].index \in Nat /\ plans[i].week \in SUBSET Days
         /\ plans[i].slots \in Seq(PowerSlots) /\ InOrder(plans[i].slots)
<1>1. plans[i] \in Plans
  BY ElementOfSeq DEF Listed
<1> QED BY <1>1 DEF Listed, Plans

NewPlan(index, week, slots) == [index |-> index, week |-> week, slots |-> slots]

LEMMA NewPlanIs ==
  ASSUME NEW index \in Nat, NEW week \in SUBSET Days, NEW slots \in Seq(PowerSlots),
         NEW p, p = NewPlan(index, week, slots)
  PROVE  p \in Plans /\ p.index = index /\ p.week = week /\ p.slots = slots
  BY DEF NewPlan, Plans

\* How a call chooses, in three cases.
ChooseNone(plans, week, m) ==
  LET index == IF plans = <<>> THEN 0 ELSE NextIndex(plans)
  IN /\ m.index = index /\ m.week = week
     /\ m.plans = Append(plans, NewPlan(index, week, <<>>))

ChooseSame(plans, wanted, i, m) ==
  m.index = plans[i].index /\ m.week = wanted /\ m.plans = plans

ChooseClone(plans, wanted, i, m) ==
  LET last == plans[Len(plans)].index
      index == IF last = 0 THEN Len(plans) ELSE last + 1
  IN /\ m.index = index /\ m.week = wanted
     /\ m.plans = Append(plans, NewPlan(index, wanted, plans[i].slots))

LEMMA ChooseIs ==
  ASSUME NEW plans, NEW week, NEW given, NEW m, m = Choose(plans, week, given),
         NEW i, i = Match(plans, week, given),
         NEW wanted, wanted = IF given THEN week ELSE plans[i].week
  PROVE  /\ NoneTouches(plans, week) => ChooseNone(plans, week, m)
         /\ ~NoneTouches(plans, week) /\ plans[i].week \subseteq wanted
              => ChooseSame(plans, wanted, i, m)
         /\ ~NoneTouches(plans, week) /\ ~(plans[i].week \subseteq wanted)
              => ChooseClone(plans, wanted, i, m)
<1>1. CASE NoneTouches(plans, week)
  <2> DEFINE index == IF plans = <<>> THEN 0 ELSE NextIndex(plans)
  <2>1. m = [index |-> index, week |-> week,
             plans |-> Append(plans, [index |-> index, week |-> week, slots |-> <<>>])]
    BY <1>1, Zenon DEF Choose, NoneTouches
  <2> HIDE DEF index
  <2>2. ChooseNone(plans, week, m)
    BY <2>1 DEF ChooseNone, NewPlan, index
  <2> QED BY <1>1, <2>2
<1>2. CASE ~NoneTouches(plans, week) /\ plans[i].week \subseteq wanted
  <2>1. m = [index |-> plans[i].index, week |-> wanted, plans |-> plans]
    BY <1>2, Zenon DEF Choose, NoneTouches
  <2>2. ChooseSame(plans, wanted, i, m)
    BY <2>1 DEF ChooseSame
  <2> QED BY <1>2, <2>2
<1>3. CASE ~NoneTouches(plans, week) /\ ~(plans[i].week \subseteq wanted)
  <2> DEFINE last == plans[Len(plans)].index
             index == IF last = 0 THEN Len(plans) ELSE last + 1
  <2>1. m = [index |-> index, week |-> wanted,
             plans |-> Append(plans, [index |-> index, week |-> wanted,
                                      slots |-> plans[i].slots])]
    BY <1>3, Zenon DEF Choose, NoneTouches
  <2> HIDE DEF index
  <2>2. ChooseClone(plans, wanted, i, m)
    BY <2>1 DEF ChooseClone, NewPlan, index
  <2> QED BY <1>3, <2>2
<1> QED BY <1>1, <1>2, <1>3

\* What is chosen is a list of plans, and some weekdays.
Chosen(m) ==
  /\ Listed(m.plans) /\ m.index \in Int /\ m.week \in SUBSET Days /\ m.week # {}

LEMMA MatchTouches ==
  ASSUME NEW plans, Listed(plans), NEW week \in SUBSET Days, NEW given \in BOOLEAN,
         ~NoneTouches(plans, week)
  PROVE  Touches(plans, week, Match(plans, week, given))
<1>1. PICK h \in 1..Len(plans) : plans[h].week \cap week # {}
  BY DEF NoneTouches
<1>2. Touches(plans, week, h)
  BY <1>1 DEF Touches
<1> QED BY <1>2, MatchIs

\* The indexes of the plans it may append.
LEMMA LastIndex ==
  ASSUME NEW plans, Listed(plans), plans # <<>>
  PROVE  /\ Len(plans) \in Nat /\ Len(plans) \in 1..Len(plans)
         /\ plans[Len(plans)].index \in Nat /\ NextIndex(plans) \in Nat
<1>1. Len(plans) \in Nat /\ Len(plans) \in 1..Len(plans)
  BY LenProperties, EmptySeq DEF Listed
<1>2. plans[Len(plans)].index \in Nat
  BY <1>1, PlanFacts
<1> QED BY <1>1, <1>2 DEF NextIndex

LEMMA NoSlots == <<>> \in Seq(PowerSlots) /\ InOrder(<<>>) /\ Listed(<<>>)
<1>1. <<>> \in Seq(PowerSlots) /\ <<>> \in Seq(Plans) /\ Len(<<>>) = 0
  OBVIOUS
<1> QED BY <1>1 DEF InOrder, Listed

LEMMA ChooseTypes ==
  ASSUME NEW plans, Listed(plans), NEW week \in SUBSET Days, week # {},
         NEW given \in BOOLEAN, NEW m, m = Choose(plans, week, given)
  PROVE  Chosen(m)
<1> DEFINE i == Match(plans, week, given)
           wanted == IF given THEN week ELSE plans[i].week
<1>1. CASE NoneTouches(plans, week)
  <2> DEFINE index == IF plans = <<>> THEN 0 ELSE NextIndex(plans)
             p == NewPlan(index, week, <<>>)
  <2>1. ChooseNone(plans, week, m)
    BY <1>1, ChooseIs
  <2>2. index \in Nat
    BY LastIndex
  <2>3. m.index = index /\ m.week = week /\ m.plans = Append(plans, p)
    BY <2>1 DEF ChooseNone
  <2> HIDE DEF index, p
  <2>4. p \in Plans /\ p.slots = <<>>
    BY <2>2, NoSlots DEF p, NewPlan, Plans
  <2>5. Listed(Append(plans, p))
    BY <2>4, NoSlots, PlanAppended
  <2> QED BY <2>2, <2>3, <2>5 DEF Chosen
<1>2. CASE ~NoneTouches(plans, week)
  <2>1. Touches(plans, week, i)
    BY <1>2, MatchTouches
  <2>2. i \in 1..Len(plans) /\ plans[i].week \cap week # {}
    BY <2>1 DEF Touches
  <2> HIDE DEF i
  <2>3. /\ plans[i].index \in Nat /\ plans[i].week \in SUBSET Days
        /\ plans[i].slots \in Seq(PowerSlots) /\ InOrder(plans[i].slots)
    BY <2>2, PlanFacts
  <2>4. wanted \in SUBSET Days /\ wanted # {}
    BY <2>2, <2>3
  <2>5. plans # <<>>
    BY <2>2
  <2>6. CASE plans[i].week \subseteq wanted
    <3>1. ChooseSame(plans, wanted, i, m)
      BY <1>2, <2>6, ChooseIs DEF i
    <3> QED BY <2>3, <2>4, <3>1 DEF ChooseSame, Chosen
  <2>7. CASE ~(plans[i].week \subseteq wanted)
    <3> DEFINE last == plans[Len(plans)].index
               index == IF last = 0 THEN Len(plans) ELSE last + 1
               p == NewPlan(index, wanted, plans[i].slots)
    <3>1. ChooseClone(plans, wanted, i, m)
      BY <1>2, <2>7, ChooseIs DEF i
    <3>2. index \in Nat
      BY <2>5, LastIndex
    <3>3. m.index = index /\ m.week = wanted /\ m.plans = Append(plans, p)
      BY <3>1 DEF ChooseClone
    <3> HIDE DEF index, p, wanted
    <3>4. p \in Plans /\ p.slots = plans[i].slots
      BY <2>3, <2>4, <3>2, NewPlanIs DEF p
    <3>5. Listed(Append(plans, p))
      BY <2>3, <3>4, PlanAppended
    <3> QED BY <2>4, <3>2, <3>3, <3>5 DEF Chosen
  <2> QED BY <2>6, <2>7
<1> QED BY <1>1, <1>2

\* In tidy plans it is clear which one is meant, even of one to be appended.
Target(plans, m, k) ==
  /\ k \in 1..Len(m.plans) /\ m.index = k - 1 /\ Indexed(m.plans)
  /\ PlanKnown(plans, m, k) \/ PlanAdded(plans, m, k)

LEMMA AppendedIndexed ==
  ASSUME NEW plans, Listed(plans), Indexed(plans), NEW p \in Plans, InOrder(p.slots),
         p.index = Len(plans), NEW m, m.plans = Append(plans, p), m.index = p.index
  PROVE  Target(plans, m, Len(plans) + 1) /\ m.plans[Len(plans) + 1] = p
<1> DEFINE more == m.plans
           k == Len(plans) + 1
<1>1. /\ Len(more) = Len(plans) + 1 /\ Len(plans) \in Nat
      /\ \A j \in 1..Len(plans) : more[j] = plans[j]
      /\ more[Len(plans) + 1] = p
  BY PlanAppended, LenProperties DEF Listed
<1> HIDE DEF more
<1>2. Indexed(more)
  <2>1. ASSUME NEW i \in 1..Len(more) PROVE more[i].index = i - 1
    <3>1. CASE i \in 1..Len(plans)
      BY <3>1, <1>1 DEF Indexed
    <3>2. CASE i = Len(plans) + 1
      BY <3>2, <1>1
    <3> QED BY <3>1, <3>2, <1>1
  <2> QED BY <2>1 DEF Indexed
<1>3. PlanAdded(plans, m, k)
  BY <1>1 DEF PlanAdded, more
<1>4. k \in 1..Len(more) /\ m.index = k - 1
  BY <1>1
<1> QED BY <1>1, <1>2, <1>3, <1>4 DEF Target, more

LEMMA ChooseTarget ==
  ASSUME NEW plans, Listed(plans), Tidy(plans), NEW week \in SUBSET Days, week # {},
         NEW given \in BOOLEAN, ~Clash(plans, week), NEW m, m = Choose(plans, week, given)
  PROVE  \E k : /\ Target(plans, m, k)
                /\ ChosenFrom(plans, week, given, m, m.plans[k].slots)
<1> DEFINE i == Match(plans, week, given)
           wanted == IF given THEN week ELSE plans[i].week
           n == Len(plans)
<1>0. n \in Nat /\ Indexed(plans)
  BY LenProperties DEF Tidy, Indexed, Listed
<1>1. CASE NoneTouches(plans, week)
  <2> DEFINE index == IF plans = <<>> THEN 0 ELSE NextIndex(plans)
             p == NewPlan(index, week, <<>>)
  <2>1. ChooseNone(plans, week, m)
    BY <1>1, ChooseIs
  <2>2. index = n
    <3>1. CASE plans = <<>>
      BY <3>1
    <3>2. CASE plans # <<>>
      <4>1. n \in 1..n /\ plans[n].index = n - 1
        BY <1>0, <3>2, LastIndex DEF Indexed
      <4>2. n # 1
        BY <1>1, <4>1 DEF Clash, NoneTouches
      <4> QED BY <1>0, <3>2, <4>1, <4>2 DEF NextIndex
    <3> QED BY <3>1, <3>2
  <2>3. m.index = index /\ m.week = week /\ m.plans = Append(plans, p)
    BY <2>1 DEF ChooseNone
  <2> HIDE DEF index, p
  <2>4. p \in Plans /\ p.slots = <<>> /\ p.index = n
    BY <1>0, <2>2, NoSlots DEF p, NewPlan, Plans
  <2>5. Target(plans, m, n + 1) /\ m.plans[n + 1] = p
    BY <1>0, <2>2, <2>3, <2>4, NoSlots, AppendedIndexed
  <2>6. ChosenFrom(plans, week, given, m, m.plans[n + 1].slots)
    BY <1>1, <2>3, <2>4, <2>5 DEF ChosenFrom
  <2> QED BY <2>5, <2>6
<1>2. CASE ~NoneTouches(plans, week)
  <2>1. Touches(plans, week, i)
    BY <1>2, MatchTouches
  <2>2. i \in 1..Len(plans) /\ plans[i].week \cap week # {}
    BY <2>1 DEF Touches
  <2> HIDE DEF i
  <2>3. /\ plans[i].index \in Nat /\ plans[i].week \in SUBSET Days
        /\ plans[i].slots \in Seq(PowerSlots) /\ InOrder(plans[i].slots)
    BY <2>2, PlanFacts
  <2>4. wanted \in SUBSET Days
    BY <2>3
  <2>5. plans # <<>>
    BY <2>2
  <2>6. CASE plans[i].week \subseteq wanted
    <3>1. ChooseSame(plans, wanted, i, m)
      BY <1>2, <2>6, ChooseIs DEF i
    <3>2. Target(plans, m, i)
      BY <1>0, <2>2, <2>6, <3>1 DEF ChooseSame, Target, PlanKnown, Indexed
    <3>3. ChosenFrom(plans, week, given, m, m.plans[i].slots)
      BY <1>2, <3>1 DEF ChosenFrom, ChooseSame, i
    <3> QED BY <3>2, <3>3
  <2>7. CASE ~(plans[i].week \subseteq wanted)
    <3> DEFINE last == plans[Len(plans)].index
               index == IF last = 0 THEN Len(plans) ELSE last + 1
               p == NewPlan(index, wanted, plans[i].slots)
    <3>1. ChooseClone(plans, wanted, i, m)
      BY <1>2, <2>7, ChooseIs DEF i
    <3>2. index = n
      <4>1. n \in 1..n /\ plans[n].index = n - 1
        BY <1>0, <2>5, LastIndex DEF Indexed
      <4> QED BY <1>0, <4>1
    <3>3. m.index = index /\ m.week = wanted /\ m.plans = Append(plans, p)
      BY <3>1 DEF ChooseClone
    <3> HIDE DEF index, p
    <3>4. p \in Plans /\ p.slots = plans[i].slots /\ p.index = n
      <4> HIDE DEF wanted
      <4> QED BY <1>0, <2>3, <2>4, <3>2, NewPlanIs DEF p
    <3>5. Target(plans, m, n + 1) /\ m.plans[n + 1] = p
      BY <1>0, <2>3, <3>2, <3>3, <3>4, AppendedIndexed
    <3>6. ChosenFrom(plans, week, given, m, m.plans[n + 1].slots)
      BY <1>2, <3>3, <3>4, <3>5 DEF ChosenFrom, i
    <3> QED BY <3>5, <3>6
  <2> QED BY <2>6, <2>7
<1> QED BY <1>1, <1>2

(***************************************************************************)
(* Taking the weekdays away from the other plans.                          *)
(***************************************************************************)
CutPlan(plan, place, week) == [plan EXCEPT !.index = place, !.week = week]

CutTurn(done, m, plan) ==
  LET week == Left(m, plan, done.index)
      place == Len(done.out)
  IN IF week = {} THEN done
     ELSE [out |-> Append(done.out, [plan EXCEPT !.index = place, !.week = week]),
           index |-> IF plan.index = done.index THEN place ELSE done.index]

IsCuration(turn, m, k) ==
  turn = [i \in 0..k |->
            IF i = 0 THEN [out |-> <<>>, index |-> m.index]
            ELSE LET done == turn[i - 1]
                     plan == m.plans[i]
                     week == Left(m, plan, done.index)
                     place == Len(done.out)
                 IN IF week = {} THEN done
                    ELSE [out |-> Append(done.out,
                            [plan EXCEPT !.index = place, !.week = week]),
                          index |-> IF plan.index = done.index THEN place
                                    ELSE done.index]]

LEMMA CurationStep ==
  ASSUME NEW m, NEW k \in Nat, NEW turn, IsCuration(turn, m, k)
  PROVE  /\ turn[0] = [out |-> <<>>, index |-> m.index]
         /\ \A i \in 1..k : turn[i] = CutTurn(turn[i - 1], m, m.plans[i])
<1>1. /\ 0 \in 0..k /\ \A i \in 1..k : i \in 0..k /\ i # 0
  OBVIOUS
<1>0. turn = [i \in 0..k |-> IF i = 0 THEN [out |-> <<>>, index |-> m.index]
                             ELSE CutTurn(turn[i - 1], m, m.plans[i])]
  BY DEF IsCuration, CutTurn
<1>2. turn[0] = [out |-> <<>>, index |-> m.index]
  BY <1>0, <1>1
<1>3. ASSUME NEW i \in 1..k PROVE turn[i] = CutTurn(turn[i - 1], m, m.plans[i])
  BY <1>0, <1>1
<1> QED BY <1>2, <1>3

LEMMA CurationExists ==
  ASSUME NEW m
  PROVE  \A k \in Nat : \E turn : IsCuration(turn, m, k)
<1> DEFINE N == {k \in Nat : \E turn : IsCuration(turn, m, k)}
           start == [out |-> <<>>, index |-> m.index]
<1>1. 0 \in N
  <2> DEFINE first == [i \in 0..0 |-> start]
  <2>1. first = [i \in 0..0 |-> IF i = 0 THEN start
                                ELSE CutTurn(first[i - 1], m, m.plans[i])]
    OBVIOUS
  <2> HIDE DEF first
  <2>2. IsCuration(first, m, 0)
    BY <2>1 DEF IsCuration, CutTurn
  <2> QED BY <2>2
<1>2. ASSUME NEW k \in N PROVE k + 1 \in N
  <2>1. PICK turn : IsCuration(turn, m, k)
    OBVIOUS
  <2>2. k \in Nat /\ k + 1 \in Nat
    OBVIOUS
  <2> HIDE DEF N
  <2>3. /\ turn[0] = start
        /\ \A i \in 1..k : turn[i] = CutTurn(turn[i - 1], m, m.plans[i])
    BY <2>1, <2>2, CurationStep
  <2> DEFINE last == CutTurn(turn[k], m, m.plans[k + 1])
             more == [i \in 0..(k + 1) |-> IF i = k + 1 THEN last ELSE turn[i]]
             step == [i \in 0..(k + 1) |->
                        IF i = 0 THEN start ELSE CutTurn(more[i - 1], m, m.plans[i])]
  <2>4. ASSUME NEW i \in 0..(k + 1) PROVE more[i] = step[i]
    <3>1. CASE i = 0
      <4>1. i # k + 1 BY <2>2, <3>1
      <4> QED BY <3>1, <4>1, <2>3
    <3>2. CASE i = k + 1
      <4>1. i # 0 /\ i - 1 = k /\ k \in 0..(k + 1) /\ k # k + 1
        BY <2>2, <3>2
      <4>2. more[i - 1] = turn[k]
        BY <4>1
      <4>3. more[i] = last
        BY <3>2
      <4> HIDE DEF more
      <4> QED BY <3>2, <4>1, <4>2, <4>3
    <3>3. CASE i \in 1..k
      <4>1. i # 0 /\ i # k + 1 /\ i - 1 \in 0..(k + 1) /\ i - 1 # k + 1
        BY <2>2, <3>3
      <4>2. more[i - 1] = turn[i - 1] /\ more[i] = turn[i]
        BY <4>1
      <4>3. turn[i] = CutTurn(turn[i - 1], m, m.plans[i])
        BY <2>3, <3>3
      <4> HIDE DEF more, last
      <4> QED BY <4>1, <4>2, <4>3
    <3> QED BY <2>2, <3>1, <3>2, <3>3
  <2>5. more = step
    BY <2>4
  <2> HIDE DEF more, last
  <2>6. IsCuration(more, m, k + 1)
    BY <2>5 DEF IsCuration, CutTurn
  <2> QED BY <2>2, <2>6 DEF N
<1> QED BY <1>1, <1>2, NatSet

LEMMA CuratedIs ==
  ASSUME NEW m, Len(m.plans) \in Nat
  PROVE  \E turn : /\ turn[0] = [out |-> <<>>, index |-> m.index]
                   /\ \A i \in 1..Len(m.plans) :
                        turn[i] = CutTurn(turn[i - 1], m, m.plans[i])
                   /\ Curated(m) = turn[Len(m.plans)]
<1> DEFINE turn == CHOOSE turn : IsCuration(turn, m, Len(m.plans))
<1>1. Curated(m) = turn[Len(m.plans)]
  BY DEF Curated, IsCuration
<1>2. IsCuration(turn, m, Len(m.plans))
  BY CurationExists
<1> HIDE DEF turn
<1> QED BY <1>1, <1>2, CurationStep

\* A turn in its two cases.
LEMMA CutTurnIs ==
  ASSUME NEW done, NEW m, NEW plan, NEW week, week = Left(m, plan, done.index),
         NEW u, u = CutTurn(done, m, plan)
  PROVE  /\ week = {} => u = done
         /\ week # {} => /\ u.out = Append(done.out, CutPlan(plan, Len(done.out), week))
                         /\ u.index = IF plan.index = done.index THEN Len(done.out)
                                      ELSE done.index
<1>1. CASE week = {}
  BY <1>1 DEF CutTurn
<1>2. CASE week # {}
  <2> DEFINE index == IF plan.index = done.index THEN Len(done.out) ELSE done.index
             out == Append(done.out, CutPlan(plan, Len(done.out), week))
  <2>1. u = [out |-> out, index |-> index]
    BY <1>2 DEF CutTurn, CutPlan
  <2> HIDE DEF out, index
  <2>2. u.out = out /\ u.index = index
    BY <2>1
  <2> QED BY <1>2, <2>2 DEF out, index
<1> QED BY <1>1, <1>2

LEMMA CutPlanIs ==
  ASSUME NEW plan \in Plans, NEW place \in Nat, NEW week \in SUBSET Days,
         NEW x, x = CutPlan(plan, place, week)
  PROVE  /\ x \in Plans /\ x.index = place /\ x.week = week /\ x.slots = plan.slots
  BY DEF CutPlan, Plans

LEMMA CuratedTypes ==
  ASSUME NEW m, Listed(m.plans), m.index \in Int, m.week \in SUBSET Days
  PROVE  Listed(Curated(m).out) /\ Curated(m).index \in Int
<1> DEFINE n == Len(m.plans)
<1>1. n \in Nat
  BY LenProperties DEF Listed
<1>2. PICK turn : /\ turn[0] = [out |-> <<>>, index |-> m.index]
                  /\ \A i \in 1..n : turn[i] = CutTurn(turn[i - 1], m, m.plans[i])
                  /\ Curated(m) = turn[n]
  BY <1>1, CuratedIs
<1> DEFINE P(i) == i <= n => Listed(turn[i].out) /\ turn[i].index \in Int
           N == {i \in Nat : P(i)}
<1>3. 0 \in N
  <2>1. turn[0].out = <<>> /\ turn[0].index = m.index
    BY <1>2
  <2> QED BY <2>1, NoSlots
<1>4. ASSUME NEW i \in N PROVE i + 1 \in N
  <2>1. i \in Nat /\ P(i)
    OBVIOUS
  <2>2. ASSUME i + 1 <= n PROVE P(i + 1)
    <3> DEFINE done == turn[i]
               plan == m.plans[i + 1]
               week == Left(m, plan, done.index)
               u == turn[i + 1]
               x == CutPlan(plan, Len(done.out), week)
    <3>1. i + 1 \in 1..n /\ (i + 1) - 1 = i /\ i <= n
      BY <1>1, <2>1, <2>2
    <3>2. u = CutTurn(done, m, plan)
      BY <1>2, <3>1
    <3>3. Listed(done.out) /\ done.index \in Int
      BY <2>1, <3>1
    <3>4. plan \in Plans /\ plan.week \in SUBSET Days /\ InOrder(plan.slots)
      BY <3>1, PlanFacts
    <3> HIDE DEF plan, u, done, P
    <3>5. week \in SUBSET Days
      BY <3>4 DEF Left
    <3>6. Len(done.out) \in Nat
      BY <3>3, LenProperties DEF Listed
    <3> HIDE DEF week
    <3>7. CASE week = {}
      <4>1. u = done
        BY <3>2, <3>7, CutTurnIs DEF week
      <4> QED BY <3>3, <4>1 DEF P, u
    <3>8. CASE week # {}
      <4>0. week = Left(m, plan, done.index)
        BY DEF week
      <4>1. /\ u.out = Append(done.out, x)
            /\ u.index = IF plan.index = done.index THEN Len(done.out) ELSE done.index
        BY ONLY <3>2, <3>8, <4>0, CutTurnIs
      <4>2. x \in Plans /\ InOrder(x.slots)
        BY <3>4, <3>5, <3>6, CutPlanIs
      <4> HIDE DEF x
      <4>3. Listed(Append(done.out, x))
        BY <3>3, <4>2, PlanAppended
      <4> QED BY <3>3, <3>6, <4>1, <4>3 DEF P, u
    <3> QED BY <3>7, <3>8
  <2> QED BY <2>1, <2>2
<1>5. N = Nat
  <2> HIDE DEF P
  <2> QED BY <1>3, <1>4, NatSet
<1>6. P(n)
  <2> HIDE DEF P, n
  <2> QED BY <1>1, <1>5
<1> QED BY <1>1, <1>2, <1>6

\* What a plan is left with where plan k is the one the call is for (0: none).
CutWeek(m, k, j) == IF j = k THEN m.week ELSE m.plans[j].week \ m.week

Stems(x, m, k, j) == x.week = CutWeek(m, k, j) /\ x.slots = m.plans[j].slots

CutsApart(m, k) ==
  \A i, j \in 1..Len(m.plans) : i # j => CutWeek(m, k, i) \cap CutWeek(m, k, j) = {}

\* The plans left of the first i are tidy, and the one the call is for is found
\* by the number that is carried along.
AllStem(out, m, k, i) == \A p \in 1..Len(out) : \E j \in 1..i : Stems(out[p], m, k, j)
NoneLost(out, m, k, i) ==
  \A j \in 1..i : CutWeek(m, k, j) # {} => \E p \in 1..Len(out) : Stems(out[p], m, k, j)
IndexFollows(done, m, k, i) ==
  IF 1 <= k /\ k <= i
  THEN done.index + 1 \in 1..Len(done.out) /\ Stems(done.out[done.index + 1], m, k, k)
  ELSE done.index = k - 1

Cleared(done, m, k, i) ==
  /\ Listed(done.out) /\ Len(done.out) <= i /\ Tidy(done.out)
  /\ AllStem(done.out, m, k, i) /\ NoneLost(done.out, m, k, i)
  /\ IndexFollows(done, m, k, i)

\* A call with its plan found among the plans, or for none.
Ready(m, k) ==
  /\ Listed(m.plans) /\ Indexed(m.plans) /\ m.week \in SUBSET Days
  /\ k \in 0..Len(m.plans) /\ m.index = k - 1 /\ (k # 0 => m.week # {}) /\ CutsApart(m, k)

LEMMA TidyMore ==
  ASSUME NEW out, Listed(out), Tidy(out), NEW x \in Plans, InOrder(x.slots),
         x.index = Len(out), \A p \in 1..Len(out) : out[p].week \cap x.week = {}
  PROVE  Listed(Append(out, x)) /\ Tidy(Append(out, x))
<1> DEFINE more == Append(out, x)
<1>1. /\ Listed(more) /\ Len(more) = Len(out) + 1 /\ Len(out) \in Nat
      /\ \A j \in 1..Len(out) : more[j] = out[j]
      /\ more[Len(out) + 1] = x
  BY PlanAppended, LenProperties DEF Listed
<1> HIDE DEF more
<1>2. ASSUME NEW p \in 1..Len(more) PROVE more[p].index = p - 1
  <2>1. p \in 1..Len(out) \/ p = Len(out) + 1
    BY <1>1
  <2> QED BY <2>1, <1>1 DEF Tidy
<1>3. ASSUME NEW p \in 1..Len(more), NEW q \in 1..Len(more), p # q
      PROVE  more[p].week \cap more[q].week = {}
  <2>1. CASE p \in 1..Len(out) /\ q \in 1..Len(out)
    BY <2>1, <1>1, <1>3 DEF Tidy
  <2>2. CASE p \in 1..Len(out) /\ q = Len(out) + 1
    BY <2>2, <1>1
  <2>3. CASE q \in 1..Len(out) /\ p = Len(out) + 1
    BY <2>3, <1>1
  <2> QED BY <2>1, <2>2, <2>3, <1>1, <1>3
<1>4. Tidy(more)
  BY <1>2, <1>3 DEF Tidy
<1> QED BY <1>1, <1>4 DEF more

LEMMA ClearGoesOn ==
  ASSUME NEW m, NEW k, Ready(m, k), NEW i \in Nat, i + 1 <= Len(m.plans),
         NEW done, Cleared(done, m, k, i), NEW u, u = CutTurn(done, m, m.plans[i + 1])
  PROVE  Cleared(u, m, k, i + 1)
<1> DEFINE plan == m.plans[i + 1]
           week == Left(m, plan, done.index)
           out == done.out
           x == CutPlan(plan, Len(out), week)
<1>1. /\ Len(m.plans) \in Nat /\ i + 1 \in 1..Len(m.plans) /\ k \in Int
      /\ plan \in Plans /\ plan.index = i /\ InOrder(plan.slots)
  <2>1. Len(m.plans) \in Nat
    BY LenProperties DEF Ready, Listed
  <2>2. i + 1 \in 1..Len(m.plans) /\ k \in Int
    BY <2>1 DEF Ready
  <2>3. plan \in Plans /\ InOrder(plan.slots)
    BY <2>2, PlanFacts DEF Ready
  <2>4. plan.index = i
    BY <2>2 DEF Ready, Indexed
  <2> QED BY <2>1, <2>2, <2>3, <2>4
<1>2. /\ Listed(out) /\ Len(out) \in Nat /\ Len(out) <= i /\ Tidy(out)
      /\ AllStem(out, m, k, i) /\ NoneLost(out, m, k, i) /\ IndexFollows(done, m, k, i)
  BY LenProperties DEF Cleared, Listed
<1>3. plan.index = done.index <=> i + 1 = k
  <2>1. CASE 1 <= k /\ k <= i
    <3>1. done.index + 1 \in 1..Len(out)
      BY <1>2, <2>1 DEF IndexFollows
    <3>2. done.index # i
      BY <1>2, <3>1
    <3> QED BY <1>1, <2>1, <3>2
  <2>2. CASE ~(1 <= k /\ k <= i)
    <3>1. done.index = k - 1
      BY <1>2, <2>2 DEF IndexFollows
    <3> QED BY <1>1, <3>1
  <2> QED BY <2>1, <2>2
<1> HIDE DEF plan
<1>4. week = CutWeek(m, k, i + 1) /\ week \in SUBSET Days
  <2>1. week = CutWeek(m, k, i + 1)
    BY <1>3 DEF Left, CutWeek, plan
  <2>2. plan.week \in SUBSET Days /\ m.week \in SUBSET Days
    BY <1>1 DEF Plans, Ready
  <2> QED BY <2>1, <2>2 DEF Left
<1>5. i + 1 = k => week # {}
  BY <1>1, <1>4 DEF CutWeek, Ready
<1>6. CASE week = {}
  <2>1. u = done
    BY <1>6, CutTurnIs DEF plan
  <2>2. i + 1 # k /\ CutWeek(m, k, i + 1) = {}
    BY <1>4, <1>5, <1>6
  <2>3. AllStem(out, m, k, i + 1)
    BY <1>2 DEF AllStem
  <2>4. NoneLost(out, m, k, i + 1)
    <3>1. \A j \in 1..(i + 1) : j \in 1..i \/ j = i + 1
      OBVIOUS
    <3> QED BY <1>2, <2>2, <3>1 DEF NoneLost
  <2>5. IndexFollows(done, m, k, i + 1)
    BY <1>1, <1>2, <2>2 DEF IndexFollows
  <2> QED BY <1>2, <2>1, <2>3, <2>4, <2>5 DEF Cleared
<1>7. CASE week # {}
  <2>1. /\ u.out = Append(out, x)
        /\ u.index = IF plan.index = done.index THEN Len(out) ELSE done.index
    <3>1. week = Left(m, plan, done.index) /\ u = CutTurn(done, m, plan)
      BY DEF plan
    <3> HIDE DEF week
    <3> QED BY ONLY <1>7, <3>1, CutTurnIs
  <2> HIDE DEF week
  <2>2. /\ x \in Plans /\ x.index = Len(out) /\ x.week = week /\ x.slots = plan.slots
    BY <1>1, <1>2, <1>4, CutPlanIs
  <2> HIDE DEF x
  <2>3. Stems(x, m, k, i + 1)
    BY <1>4, <2>2 DEF Stems, plan
  <2>4. ASSUME NEW p \in 1..Len(out) PROVE out[p].week \cap x.week = {}
    <3>1. PICK j \in 1..i : Stems(out[p], m, k, j)
      BY <1>2 DEF AllStem
    <3>2. j \in 1..Len(m.plans) /\ i + 1 \in 1..Len(m.plans) /\ j # i + 1
      BY <1>1
    <3>3. CutWeek(m, k, j) \cap CutWeek(m, k, i + 1) = {}
      BY <3>2 DEF Ready, CutsApart
    <3> QED BY <2>3, <3>1, <3>3 DEF Stems
  <2> DEFINE more == Append(out, x)
  <2>5. Listed(more) /\ Tidy(more)
    BY <1>1, <1>2, <2>2, <2>4, TidyMore
  <2>6. /\ Len(more) = Len(out) + 1
        /\ \A p \in 1..Len(out) : more[p] = out[p]
        /\ more[Len(out) + 1] = x
    BY <1>1, <1>2, <2>2, PlanAppended
  <2> HIDE DEF more
  <2>7. AllStem(more, m, k, i + 1)
    <3>1. ASSUME NEW p \in 1..Len(more) PROVE \E j \in 1..(i + 1) : Stems(more[p], m, k, j)
      <4>1. CASE p \in 1..Len(out)
        <5>1. PICK j \in 1..i : Stems(out[p], m, k, j)
          BY <1>2, <4>1 DEF AllStem
        <5> QED BY <4>1, <5>1, <2>6
      <4>2. CASE p = Len(out) + 1
        BY <4>2, <2>3, <2>6
      <4> QED BY <4>1, <4>2, <2>6, <1>2
    <3> QED BY <3>1 DEF AllStem
  <2>8. NoneLost(more, m, k, i + 1)
    <3>1. ASSUME NEW j \in 1..(i + 1), CutWeek(m, k, j) # {}
          PROVE  \E p \in 1..Len(more) : Stems(more[p], m, k, j)
      <4>1. CASE j \in 1..i
        <5>1. PICK p \in 1..Len(out) : Stems(out[p], m, k, j)
          BY <1>2, <3>1, <4>1 DEF NoneLost
        <5>2. p \in 1..Len(more) /\ more[p] = out[p]
          BY <1>2, <2>6
        <5> QED BY <5>1, <5>2
      <4>2. CASE j = i + 1
        <5>1. Len(out) + 1 \in 1..Len(more)
          BY <1>2, <2>6
        <5> QED BY <4>2, <5>1, <2>3, <2>6
      <4> QED BY <4>1, <4>2
    <3> QED BY <3>1 DEF NoneLost
  <2>9. IF 1 <= k /\ k <= i + 1
        THEN u.index + 1 \in 1..Len(more) /\ Stems(more[u.index + 1], m, k, k)
        ELSE u.index = k - 1
    <3>1. CASE i + 1 = k
      <4>1. u.index = Len(out)
        BY <1>3, <2>1, <3>1
      <4> QED BY <1>2, <2>3, <2>6, <3>1, <4>1
    <3>2. CASE i + 1 # k /\ (1 <= k /\ k <= i)
      <4>1. u.index = done.index
        BY <1>3, <2>1, <3>2
      <4>2. done.index + 1 \in 1..Len(out) /\ Stems(out[done.index + 1], m, k, k)
        BY <1>2, <3>2 DEF IndexFollows
      <4>3. done.index + 1 \in 1..Len(more) /\ more[done.index + 1] = out[done.index + 1]
        BY <1>2, <2>6, <4>2
      <4> QED BY <1>1, <3>2, <4>1, <4>2, <4>3
    <3>3. CASE i + 1 # k /\ ~(1 <= k /\ k <= i)
      <4>1. u.index = done.index
        BY <1>3, <2>1, <3>3
      <4>2. done.index = k - 1 /\ ~(1 <= k /\ k <= i + 1)
        BY <1>1, <1>2, <3>3 DEF IndexFollows
      <4> QED BY <4>1, <4>2
    <3> QED BY <3>1, <3>2, <3>3
  <2>10. IndexFollows(u, m, k, i + 1) /\ u.out = more
    BY <2>1, <2>9 DEF IndexFollows, more
  <2> QED BY <1>2, <2>5, <2>6, <2>7, <2>8, <2>10 DEF Cleared
<1> QED BY <1>6, <1>7

LEMMA CuratedTidy ==
  ASSUME NEW m, NEW k, Ready(m, k)
  PROVE  Cleared(Curated(m), m, k, Len(m.plans))
<1> DEFINE n == Len(m.plans)
<1>1. n \in Nat
  BY LenProperties DEF Ready, Listed
<1>2. PICK turn : /\ turn[0] = [out |-> <<>>, index |-> m.index]
                  /\ \A i \in 1..n : turn[i] = CutTurn(turn[i - 1], m, m.plans[i])
                  /\ Curated(m) = turn[n]
  BY <1>1, CuratedIs
<1> DEFINE P(i) == i <= n => Cleared(turn[i], m, k, i)
           N == {i \in Nat : P(i)}
<1>3. 0 \in N
  <2>1. turn[0].out = <<>> /\ turn[0].index = m.index /\ m.index = k - 1
    BY <1>2 DEF Ready
  <2>2. Len(<<>>) = 0 /\ Tidy(<<>>) /\ AllStem(<<>>, m, k, 0) /\ NoneLost(<<>>, m, k, 0)
    BY DEF Tidy, AllStem, NoneLost
  <2>3. IndexFollows(turn[0], m, k, 0)
    <3>1. ~(1 <= k /\ k <= 0)
      BY DEF Ready
    <3> QED BY <2>1, <3>1 DEF IndexFollows
  <2>4. Cleared(turn[0], m, k, 0)
    BY <2>1, <2>2, <2>3, NoSlots DEF Cleared
  <2> QED BY <2>4
<1>4. ASSUME NEW i \in N PROVE i + 1 \in N
  <2>1. i \in Nat /\ P(i)
    OBVIOUS
  <2>2. ASSUME i + 1 <= n PROVE P(i + 1)
    <3>1. i + 1 \in 1..n /\ (i + 1) - 1 = i /\ i <= n
      BY <1>1, <2>1, <2>2
    <3>2. turn[i + 1] = CutTurn(turn[i], m, m.plans[i + 1])
      BY <1>2, <3>1
    <3>3. Cleared(turn[i], m, k, i)
      BY <2>1, <3>1
    <3> HIDE DEF P
    <3>4. Cleared(turn[i + 1], m, k, i + 1)
      BY <2>1, <2>2, <3>2, <3>3, ClearGoesOn
    <3> QED BY <3>4 DEF P
  <2> QED BY <2>1, <2>2
<1>5. N = Nat
  <2> HIDE DEF P
  <2> QED BY <1>3, <1>4, NatSet
<1>6. P(n)
  <2> HIDE DEF P, n
  <2> QED BY <1>1, <1>5
<1> QED BY <1>1, <1>2, <1>6

-----------------------------------------------------------------------------
(***************************************************************************)
(* An edit: the plan that was found gets its slots, the other days keep    *)
(* theirs.                                                                 *)
(***************************************************************************)
LEMMA TargetReady ==
  ASSUME NEW plans, Listed(plans), Tidy(plans), NEW m, Chosen(m), NEW k, Target(plans, m, k)
  PROVE  Ready(m, k)
<1>1. Len(plans) \in Nat /\ Len(m.plans) \in Nat
  BY LenProperties DEF Listed, Chosen
<1>2. k \in 0..Len(m.plans) /\ m.index = k - 1 /\ m.week # {} /\ m.week \in SUBSET Days
      /\ Listed(m.plans) /\ Indexed(m.plans)
  BY <1>1 DEF Target, Chosen
<1>3. ASSUME NEW i \in 1..Len(m.plans), NEW j \in 1..Len(m.plans), i # j
      PROVE  CutWeek(m, k, i) \cap CutWeek(m, k, j) = {}
  <2>1. CASE i = k \/ j = k
    BY <1>3, <2>1 DEF CutWeek
  <2>2. CASE i # k /\ j # k
    <3>1. m.plans[i].week \cap m.plans[j].week = {}
      <4>1. CASE PlanKnown(plans, m, k)
        BY <1>3, <4>1 DEF PlanKnown, Tidy
      <4>2. CASE PlanAdded(plans, m, k)
        <5>1. i \in 1..Len(plans) /\ j \in 1..Len(plans)
          BY <1>1, <2>2, <4>2 DEF PlanAdded
        <5>2. m.plans[i] = plans[i] /\ m.plans[j] = plans[j]
          BY <4>2, <5>1 DEF PlanAdded
        <5> QED BY <1>3, <5>1, <5>2 DEF Tidy
      <4> QED BY <4>1, <4>2 DEF Target
    <3> QED BY <2>2, <3>1 DEF CutWeek
  <2> QED BY <2>1, <2>2
<1> QED BY <1>2, <1>3 DEF Ready, CutsApart

\* The plans a call turns to are those that there were, but for its own.
Among(plans, m, k) ==
  \/ k = 0 /\ m.plans = plans
  \/ PlanKnown(plans, m, k)
  \/ PlanAdded(plans, m, k)

LEMMA SlotsOnIs ==
  ASSUME NEW plans, NEW d
  PROVE  SlotsOn(plans, d) = {s \in SlotsOn(plans, d) :
           \E i \in 1..Len(plans) : d \in plans[i].week /\ plans[i].slots = s}
         /\ \A i \in 1..Len(plans) : d \in plans[i].week
                                    => plans[i].slots \in SlotsOn(plans, d)
<1> DEFINE on == {j \in 1..Len(plans) : d \in plans[j].week}
<1>1. SlotsOn(plans, d) = UNION {{plans[i].slots} : i \in on}
  BY DEF SlotsOn
<1>2. \A s \in SlotsOn(plans, d) : \E i \in on : s = plans[i].slots
  <2> HIDE DEF on
  <2> QED BY <1>1
<1>3. \A i \in on : plans[i].slots \in SlotsOn(plans, d)
  <2> HIDE DEF on
  <2> QED BY <1>1
<1> QED BY <1>2, <1>3

LEMMA OtherDays ==
  ASSUME NEW plans, Listed(plans), NEW m, NEW k, Ready(m, k), Among(plans, m, k),
         NEW out, Listed(out), AllStem(out, m, k, Len(m.plans)),
         NoneLost(out, m, k, Len(m.plans)), NEW d, d \notin m.week
  PROVE  SlotsOn(out, d) = SlotsOn(plans, d)
<1>1. Len(plans) \in Nat /\ Len(m.plans) \in Nat /\ Len(out) \in Nat
  BY LenProperties DEF Listed, Ready
<1>2. ASSUME NEW p \in 1..Len(out), d \in out[p].week
      PROVE  \E i \in 1..Len(plans) : d \in plans[i].week /\ plans[i].slots = out[p].slots
  <2>1. PICK j \in 1..Len(m.plans) : Stems(out[p], m, k, j)
    BY DEF AllStem
  <2>2. j # k /\ d \in m.plans[j].week
    BY <1>2, <2>1 DEF Stems, CutWeek
  <2>3. j \in 1..Len(plans) /\ m.plans[j] = plans[j]
    <3>1. CASE m.plans = plans
      BY <3>1
    <3>2. CASE PlanAdded(plans, m, k)
      BY <1>1, <2>2, <3>2 DEF PlanAdded
    <3> QED BY <3>1, <3>2 DEF Among, PlanKnown
  <2> QED BY <2>1, <2>2, <2>3 DEF Stems
<1>3. ASSUME NEW i \in 1..Len(plans), d \in plans[i].week
      PROVE  \E p \in 1..Len(out) : d \in out[p].week /\ out[p].slots = plans[i].slots
  <2>1. i \in 1..Len(m.plans) /\ i # k /\ m.plans[i] = plans[i]
    <3>1. CASE k = 0 /\ m.plans = plans
      BY <3>1
    <3>2. CASE PlanKnown(plans, m, k)
      BY <1>3, <3>2 DEF PlanKnown
    <3>3. CASE PlanAdded(plans, m, k)
      BY <1>1, <3>3 DEF PlanAdded
    <3> QED BY <3>1, <3>2, <3>3 DEF Among
  <2>2. d \in CutWeek(m, k, i)
    BY <1>3, <2>1 DEF CutWeek
  <2>3. PICK p \in 1..Len(out) : Stems(out[p], m, k, i)
    BY <2>1, <2>2 DEF NoneLost
  <2> QED BY <2>1, <2>2, <2>3 DEF Stems
<1>4. ASSUME NEW s \in SlotsOn(out, d) PROVE s \in SlotsOn(plans, d)
  <2>1. PICK p \in 1..Len(out) : d \in out[p].week /\ out[p].slots = s
    BY SlotsOnIs
  <2>2. PICK i \in 1..Len(plans) : d \in plans[i].week /\ plans[i].slots = out[p].slots
    BY <1>2, <2>1
  <2> QED BY <2>1, <2>2, SlotsOnIs
<1>5. ASSUME NEW s \in SlotsOn(plans, d) PROVE s \in SlotsOn(out, d)
  <2>1. PICK i \in 1..Len(plans) : d \in plans[i].week /\ plans[i].slots = s
    BY SlotsOnIs
  <2>2. PICK p \in 1..Len(out) : d \in out[p].week /\ out[p].slots = plans[i].slots
    BY <1>3, <2>1
  <2> QED BY <2>1, <2>2, SlotsOnIs
<1> QED BY <1>4, <1>5

\* The plan at place e gets its slots.
Rewritten(out, e, c, now) == [out EXCEPT ![e].slots = PlanSlots(@, c, now)]

LEMMA RewrittenIs ==
  ASSUME NEW out, Listed(out), NEW e \in 1..Len(out), NEW c, InPlan(c),
         c.kind \in {"insert", "set", "now"}, NEW now \in NowTimes,
         NEW x, x = Rewritten(out, e, c, now)
  PROVE  /\ Listed(x) /\ Len(x) = Len(out)
         /\ \A p \in 1..Len(out) :
              /\ x[p].index = out[p].index /\ x[p].week = out[p].week
              /\ x[p].slots = IF p = e THEN PlanSlots(out[e].slots, c, now)
                              ELSE out[p].slots
<1> DEFINE new == PlanSlots(out[e].slots, c, now)
           plan == [out[e] EXCEPT !.slots = new]
<1>1. out \in Seq(Plans) /\ out[e] \in Plans /\ Day(out[e].slots, PowerSlots)
  BY PlanFacts, PlanMovable DEF Listed, Day
<1>2. SameCall([kind |-> c.kind, power |-> c.power, type |-> c.type, start |-> c.start,
                end |-> c.end, now |-> now], c, now)
  BY DEF SameCall
<1>3. new \in Seq(PowerSlots) /\ InOrder(new)
  BY <1>1, <1>2, PlanSlotsAre
<1>4. x = [out EXCEPT ![e] = plan]
  BY DEF Rewritten
<1> HIDE DEF new
<1>5. plan \in Plans /\ plan.slots = new /\ plan.index = out[e].index /\ plan.week = out[e].week
  BY <1>1, <1>3 DEF Plans
<1> HIDE DEF plan
<1>6. x \in Seq(Plans) /\ Len(x) = Len(out)
      /\ \A j \in 1..Len(out) : x[j] = IF j = e THEN plan ELSE out[j]
  BY <1>1, <1>4, <1>5, ExceptSeq
<1>7. \A j \in 1..Len(x) : InOrder(x[j].slots)
  BY <1>3, <1>5, <1>6 DEF Listed
<1> QED BY <1>5, <1>6, <1>7 DEF Listed, new

\* Outside of the list nothing changes.
LEMMA RewrittenListed ==
  ASSUME NEW out, Listed(out), NEW e, NEW c, InPlan(c),
         c.kind \in {"insert", "set", "now"}, NEW now \in NowTimes
  PROVE  Listed(Rewritten(out, e, c, now))
<1>1. CASE e \in 1..Len(out)
  BY <1>1, RewrittenIs
<1>2. CASE e \notin 1..Len(out)
  <2>1. DOMAIN out = 1..Len(out) /\ out = [i \in DOMAIN out |-> out[i]]
    BY LenProperties DEF Listed
  <2>2. Rewritten(out, e, c, now) = out
    BY <1>2, <2>1 DEF Rewritten
  <2> QED BY <2>2
<1> QED BY <1>1, <1>2

\* Slots that go with the same weekdays are those of the same days.
LEMMA SameSlotsOn ==
  ASSUME NEW x, NEW out, NEW d, Len(x) = Len(out),
         \A p \in 1..Len(out) : x[p].week = out[p].week
                                /\ (d \in out[p].week => x[p].slots = out[p].slots)
  PROVE  SlotsOn(x, d) = SlotsOn(out, d)
<1>1. ASSUME NEW s \in SlotsOn(x, d) PROVE s \in SlotsOn(out, d)
  <2>1. PICK p \in 1..Len(x) : d \in x[p].week /\ x[p].slots = s
    BY SlotsOnIs
  <2>2. p \in 1..Len(out) /\ d \in out[p].week /\ out[p].slots = s
    BY <2>1
  <2> QED BY <2>2, SlotsOnIs
<1>2. ASSUME NEW s \in SlotsOn(out, d) PROVE s \in SlotsOn(x, d)
  <2>1. PICK p \in 1..Len(out) : d \in out[p].week /\ out[p].slots = s
    BY SlotsOnIs
  <2>2. p \in 1..Len(x) /\ d \in x[p].week /\ x[p].slots = s
    BY <2>1
  <2> QED BY <2>2, SlotsOnIs
<1> QED BY <1>1, <1>2

DaysRewritten(x, plans, week, new) ==
  /\ Listed(x) /\ Tidy(x)
  /\ \A d \in Days \ week : SlotsOn(x, d) = SlotsOn(plans, d)
  /\ \A d \in week : SlotsOn(x, d) = {new}

\* The plan that was found is the only one of the days of the call, and it has
\* the slots that are made of its own.
LEMMA RewriteDays ==
  ASSUME NEW plans, Listed(plans), NEW m, NEW k, Ready(m, k), k # 0, Among(plans, m, k),
         NEW done, Cleared(done, m, k, Len(m.plans)), NEW c, InPlan(c),
         c.kind \in {"insert", "set", "now"}, NEW now \in NowTimes,
         NEW x, x = Rewritten(done.out, done.index + 1, c, now)
  PROVE  DaysRewritten(x, plans, m.week, PlanSlots(m.plans[k].slots, c, now))
<1> DEFINE e == done.index + 1
           out == done.out
           new == PlanSlots(m.plans[k].slots, c, now)
<1>1. /\ Listed(out) /\ Tidy(out) /\ AllStem(out, m, k, Len(m.plans))
      /\ NoneLost(out, m, k, Len(m.plans)) /\ IndexFollows(done, m, k, Len(m.plans))
  BY DEF Cleared
<1>2. 1 <= k /\ k <= Len(m.plans)
  BY LenProperties DEF Ready, Listed
<1>3. e \in 1..Len(out) /\ out[e].week = m.week /\ out[e].slots = m.plans[k].slots
  BY <1>1, <1>2 DEF IndexFollows, Stems, CutWeek
<1>4. x = Rewritten(out, e, c, now)
  OBVIOUS
<1> HIDE DEF e, out, new
<1>5. /\ Listed(x) /\ Len(x) = Len(out)
      /\ \A p \in 1..Len(out) :
           /\ x[p].index = out[p].index /\ x[p].week = out[p].week
           /\ x[p].slots = IF p = e THEN new ELSE out[p].slots
  BY <1>1, <1>3, <1>4, RewrittenIs DEF new
<1>6. Tidy(x)
  BY ZenonT(40), <1>1, <1>5 DEF Tidy
<1>7. ASSUME NEW d \in Days \ m.week PROVE SlotsOn(x, d) = SlotsOn(plans, d)
  <2>1. \A p \in 1..Len(out) : x[p].week = out[p].week
                               /\ (d \in out[p].week => x[p].slots = out[p].slots)
    BY <1>3, <1>5
  <2>2. SlotsOn(x, d) = SlotsOn(out, d)
    BY <1>5, <2>1, SameSlotsOn
  <2>3. SlotsOn(out, d) = SlotsOn(plans, d)
    BY <1>1, OtherDays
  <2> QED BY <2>2, <2>3
<1>8. ASSUME NEW d \in m.week PROVE SlotsOn(x, d) = {new}
  <2>1. e \in 1..Len(x) /\ d \in x[e].week /\ x[e].slots = new
    BY <1>3, <1>5
  <2>2. \A p \in 1..Len(x) : d \in x[p].week => p = e
    BY <1>6, <2>1 DEF Tidy
  <2>3. \A s \in SlotsOn(x, d) : s = new
    BY <2>1, <2>2, SlotsOnIs
  <2>4. new \in SlotsOn(x, d)
    BY <2>1, SlotsOnIs
  <2> QED BY <2>3, <2>4
<1> QED BY <1>5, <1>6, <1>7, <1>8 DEF DaysRewritten, new

\* Without its days a plan is gone.
LEMMA DeleteDays ==
  ASSUME NEW plans, Listed(plans), Tidy(plans), NEW week \in SUBSET Days,
         NEW x, x = Deleted(plans, week)
  PROVE  /\ Listed(x) /\ Tidy(x)
         /\ \A d \in Days \ week : SlotsOn(x, d) = SlotsOn(plans, d)
         /\ \A d \in week : SlotsOn(x, d) = {}
<1> DEFINE m == [index |-> Unset, week |-> week, plans |-> plans]
           done == Curated(m)
<1>1. m.plans = plans /\ m.week = week /\ m.index = 0 - 1 /\ x = done.out
  BY DEF Deleted, Unset
<1> HIDE DEF m, done
<1>2. Len(plans) \in Nat
  BY LenProperties DEF Listed
<1>3. Ready(m, 0)
  <2>1. CutsApart(m, 0)
    BY <1>1 DEF CutsApart, CutWeek, Tidy
  <2>2. Indexed(plans)
    BY DEF Indexed, Tidy
  <2> QED BY <1>1, <1>2, <2>1, <2>2 DEF Ready
<1>4. Cleared(done, m, 0, Len(m.plans))
  BY <1>3, CuratedTidy DEF done
<1>5. /\ Listed(x) /\ Tidy(x) /\ AllStem(x, m, 0, Len(m.plans))
      /\ NoneLost(x, m, 0, Len(m.plans))
  BY <1>1, <1>4 DEF Cleared
<1>6. Among(plans, m, 0)
  BY <1>1 DEF Among
<1>7. \A d \in Days \ week : SlotsOn(x, d) = SlotsOn(plans, d)
  BY <1>1, <1>3, <1>5, <1>6, OtherDays
<1>8. ASSUME NEW d \in week, NEW s \in SlotsOn(x, d) PROVE FALSE
  <2>1. PICK p \in 1..Len(x) : d \in x[p].week /\ x[p].slots = s
    BY SlotsOnIs
  <2>2. PICK j \in 1..Len(m.plans) : Stems(x[p], m, 0, j)
    BY <1>5 DEF AllStem
  <2>3. x[p].week = m.plans[j].week \ m.week
    BY <2>2 DEF Stems, CutWeek
  <2> QED BY <1>1, <2>1, <2>3
<1> QED BY <1>5, <1>7, <1>8

\* A call with the weekdays it is for and the day it is made on.
SameDays(q, c, day) == q.kind = c.kind /\ q.week = c.week /\ q.day = day

Todays(plans, day) == {i \in 1..Len(plans) : day \in plans[i].week}

WeekdaysFit(c, plans, day, week) ==
  /\ week \in SUBSET Days /\ week # {}
  /\ c.week # {} => week = c.week
  /\ c.week = {} /\ c.kind # "delete" /\ Todays(plans, day) # {} => week = {day}
  /\ c.week = {} /\ c.kind # "delete" /\ plans # <<>> => week = {day}

LEMMA WeekdaysAre ==
  ASSUME NEW plans, NEW c, c.week \in SUBSET Days, NEW day \in Days
  PROVE  WeekdaysFit(c, plans, day, Weekdays(c, plans, day))
<1>1. Todays(<<>>, day) = {}
  BY DEF Todays
<1> QED BY <1>1, PlanAssumption DEF Weekdays, WeekdaysFit

LEMMA WeekOfIs ==
  ASSUME NEW plans, NEW c, NEW day, NEW q, SameDays(q, c, day)
  PROVE  WeekOf(q, plans)
         = IF c.week # {} \/ Todays(plans, day) = {} \/ c.kind = "delete"
           THEN Weekdays(c, plans, day)
           ELSE UNION {plans[i].week : i \in Todays(plans, day)}
  BY DEF WeekOf, Weekdays, Todays, SameDays

LEMMA BasesAre ==
  ASSUME NEW plans, NEW week
  PROVE  /\ NoneTouches(plans, week) => <<>> \in Bases(plans, week)
         /\ \A i \in 1..Len(plans) : plans[i].week \cap week # {}
                                     => plans[i].slots \in Bases(plans, week)
<1> DEFINE hit == {i \in 1..Len(plans) : plans[i].week \cap week # {}}
<1>1. Bases(plans, week) = IF hit = {} THEN {<<>>} ELSE {plans[i].slots : i \in hit}
  BY DEF Bases
<1>2. NoneTouches(plans, week) => hit = {}
  BY DEF NoneTouches
<1>3. \A i \in 1..Len(plans) : plans[i].week \cap week # {} => i \in hit
  OBVIOUS
<1> HIDE DEF hit
<1> QED BY <1>1, <1>2, <1>3

\* The days a call turns out to be for are those of the plan of today, when it
\* names none.
LEMMA WeekIs ==
  ASSUME NEW plans, Listed(plans), Tidy(plans), NEW c, c.week \in SUBSET Days,
         c.kind # "delete", NEW day \in Days, NEW q, SameDays(q, c, day),
         NEW week, week = Weekdays(c, plans, day)
  PROVE  /\ NoneTouches(plans, week) => WeekOf(q, plans) = week
         /\ c.week # {} => WeekOf(q, plans) = week
         /\ \A i : Touches(plans, week, i) /\ c.week = {} => WeekOf(q, plans) = plans[i].week
<1>1. /\ week \in SUBSET Days /\ week # {}
      /\ c.week # {} => week = c.week
      /\ c.week = {} /\ Todays(plans, day) # {} => week = {day}
      /\ c.week = {} /\ plans # <<>> => week = {day}
  <2>1. WeekdaysFit(c, plans, day, week)
    BY WeekdaysAre
  <2> QED BY <2>1 DEF WeekdaysFit
<1>2. WeekOf(q, plans) = IF c.week # {} \/ Todays(plans, day) = {} THEN week
                         ELSE UNION {plans[i].week : i \in Todays(plans, day)}
  BY WeekOfIs
<1>3. ASSUME NoneTouches(plans, week), c.week = {} PROVE Todays(plans, day) = {}
  <2>1. SUFFICES ASSUME NEW i \in Todays(plans, day) PROVE FALSE
    OBVIOUS
  <2>2. week = {day}
    BY <1>1, <1>3, <2>1
  <2>3. i \in 1..Len(plans) /\ day \in plans[i].week
    BY <2>1 DEF Todays
  <2> QED BY <1>3, <2>2, <2>3 DEF NoneTouches
<1>4. ASSUME NEW i, Touches(plans, week, i), c.week = {}
      PROVE  WeekOf(q, plans) = plans[i].week
  <2>1. i \in 1..Len(plans) /\ plans[i].week \cap week # {}
    BY <1>4 DEF Touches
  <2>2. plans # <<>>
    BY <2>1
  <2>3. week = {day}
    BY <1>1, <1>4, <2>2
  <2>4. day \in plans[i].week
    BY <2>1, <2>3
  <2>5. Todays(plans, day) = {i}
    BY <2>1, <2>4 DEF Todays, Tidy
  <2> QED BY <1>2, <1>4, <2>5
<1> QED BY <1>2, <1>3, <1>4

LEMMA ChosenWeek ==
  ASSUME NEW plans, Listed(plans), Tidy(plans), NEW c, c.week \in SUBSET Days,
         c.kind # "delete", NEW day \in Days, NEW q, SameDays(q, c, day),
         NEW week, week = Weekdays(c, plans, day), NEW m, NEW base,
         NEW given \in BOOLEAN, (given <=> c.week # {}),
         ChosenFrom(plans, week, given, m, base)
  PROVE  m.week = WeekOf(q, plans) /\ base \in Bases(plans, WeekOf(q, plans))
<1>1. week \in SUBSET Days
  <2>1. WeekdaysFit(c, plans, day, week)
    BY WeekdaysAre
  <2> QED BY <2>1 DEF WeekdaysFit
<1>2. CASE NoneTouches(plans, week)
  <2>1. m.week = week /\ base = <<>>
    BY <1>2 DEF ChosenFrom
  <2>2. WeekOf(q, plans) = week
    BY <1>2, WeekIs
  <2> QED BY <1>2, <2>1, <2>2, BasesAre
<1>3. CASE ~NoneTouches(plans, week)
  <2> DEFINE i == Match(plans, week, given)
  <2>1. Touches(plans, week, i)
    BY <1>1, <1>3, MatchTouches
  <2>2. m.week = (IF given THEN week ELSE plans[i].week) /\ base = plans[i].slots
    BY <1>3 DEF ChosenFrom
  <2> HIDE DEF i
  <2>3. i \in 1..Len(plans) /\ plans[i].week \cap week # {}
    BY <2>1 DEF Touches
  <2>4. CASE given
    <3>0. c.week # {}
      BY <2>4
    <3>1. WeekOf(q, plans) = week
      BY <3>0, WeekIs
    <3> QED BY <2>2, <2>3, <2>4, <3>1, BasesAre
  <2>5. CASE ~given
    <3>0. c.week = {}
      BY <2>5
    <3>1. WeekOf(q, plans) = plans[i].week
      BY <2>1, <3>0, WeekIs
    <3>2. plans[i].week \cap plans[i].week # {}
      BY <2>3
    <3> QED BY <2>2, <2>3, <2>5, <3>1, <3>2, BasesAre
  <2> QED BY <2>4, <2>5
<1> QED BY <1>2, <1>3

LEMMA ClashIs ==
  ASSUME NEW plans, Listed(plans), Tidy(plans), NEW c, c.week \in SUBSET Days,
         c.kind # "delete", NEW day \in Days, NEW q, SameDays(q, c, day),
         NEW week, week = Weekdays(c, plans, day), ~Clash(plans, WeekOf(q, plans))
  PROVE  ~Clash(plans, week)
<1> SUFFICES ASSUME Clash(plans, week) PROVE FALSE
  OBVIOUS
<1>1. NoneTouches(plans, week)
  BY DEF Clash, NoneTouches
<1>2. WeekOf(q, plans) = week
  BY <1>1, WeekIs
<1> QED BY <1>2

Editing == {"insert", "set", "now"}

LEMMA OrderIs ==
  ASSUME NEW c \in PlanCalls
  PROVE  /\ c.kind \in {"now", "insert", "set", "delete", "mode"}
         /\ c.week \in SUBSET Days
         /\ c.kind \in Editing => InPlan(c)
<1>1. c \in PlanOrders /\ (c.kind \notin {"delete", "mode"} => c.start < c.end)
  BY PlanAssumption
<1>2. /\ c.kind \in {"now", "insert", "set", "delete", "mode"} /\ c.week \in SUBSET Days
      /\ c.power \in Nat \cup {Unset} /\ c.type \in Nat \cup {Unset}
      /\ c.start \in 0..LastMinute /\ c.end \in 0..LastMinute
  BY <1>1 DEF PlanOrders
<1>3. c.power \in Int /\ c.type \in Int
  BY <1>2 DEF Unset
<1> QED BY <1>1, <1>2, <1>3 DEF InPlan, Fits, Editing

\* The plans of a mode call, and those of a call that edits them.
Started(plans, week) ==
  IF plans # <<>> THEN plans ELSE <<[index |-> 0, week |-> week, slots |-> <<>>]>>

EditOf(plans, c, now, week) ==
  LET done == Curated(Choose(plans, week, c.week # {}))
  IN Rewritten(done.out, done.index + 1, c, now)

LEMMA ChangedIs ==
  ASSUME NEW plans, NEW c, NEW now, NEW day, NEW week, week = Weekdays(c, plans, day)
  PROVE  /\ c.kind = "delete" => Changed(plans, c, now, day) = Deleted(plans, week)
         /\ c.kind = "mode" => Changed(plans, c, now, day) = Started(plans, week)
         /\ c.kind \in Editing => Changed(plans, c, now, day) = EditOf(plans, c, now, week)
<1>1. ASSUME c.kind = "delete" PROVE Changed(plans, c, now, day) = Deleted(plans, week)
  <2>1. c.kind # "mode"
    BY <1>1
  <2> QED BY <1>1, <2>1 DEF Changed
<1>2. ASSUME c.kind = "mode" PROVE Changed(plans, c, now, day) = Started(plans, week)
  <2>1. c.kind # "delete"
    BY <1>2
  <2> QED BY <1>2, <2>1 DEF Changed, Started
<1>3. ASSUME c.kind \in Editing
      PROVE  Changed(plans, c, now, day) = EditOf(plans, c, now, week)
  <2>1. c.kind # "delete" /\ c.kind # "mode"
    BY <1>3 DEF Editing
  <2>2. Changed(plans, c, now, day)
        = LET done == Curated(Choose(plans, Weekdays(c, plans, day), c.week # {}))
          IN [done.out EXCEPT ![done.index + 1].slots = PlanSlots(@, c, now)]
    BY <2>1, Zenon DEF Changed
  <2> QED BY <2>2 DEF EditOf, Rewritten
<1> QED BY <1>1, <1>2, <1>3

LEMMA ChangedListed ==
  ASSUME NEW plans, Listed(plans), NEW c \in PlanCalls, NEW now \in NowTimes, NEW day \in Days
  PROVE  Listed(Changed(plans, c, now, day))
<1> DEFINE week == Weekdays(c, plans, day)
<1>1. week \in SUBSET Days /\ week # {}
  <2>1. WeekdaysFit(c, plans, day, week)
    BY OrderIs, WeekdaysAre
  <2> QED BY <2>1 DEF WeekdaysFit
<1>2. week = Weekdays(c, plans, day)
  OBVIOUS
<1> HIDE DEF week
<1>3. CASE c.kind = "delete"
  <2>1. Listed(Deleted(plans, week))
    <3> DEFINE m == [index |-> Unset, week |-> week, plans |-> plans]
    <3>1. Listed(m.plans) /\ m.index \in Int /\ m.week \in SUBSET Days
      BY <1>1 DEF Unset
    <3>2. Deleted(plans, week) = Curated(m).out
      BY DEF Deleted
    <3> HIDE DEF m
    <3> QED BY <3>1, <3>2, CuratedTypes
  <2> QED BY <1>2, <1>3, <2>1, ChangedIs
<1>4. CASE c.kind = "mode"
  <2>1. Listed(Started(plans, week))
    <3>1. CASE plans # <<>>
      BY <3>1 DEF Started
    <3>2. CASE plans = <<>>
      <4> DEFINE p == NewPlan(0, week, <<>>)
      <4>1. p \in Plans /\ p.slots = <<>>
        <5>1. p = [index |-> 0, week |-> week, slots |-> <<>>]
          BY DEF NewPlan
        <5> HIDE DEF p
        <5> QED BY <1>1, <5>1, NoSlots DEF Plans
      <4>2. InOrder(p.slots)
        BY <4>1, NoSlots
      <4>3. Started(plans, week) = <<p>>
        BY <3>2 DEF Started, NewPlan
      <4> HIDE DEF p
      <4>4. Listed(<<p>>)
        BY <4>1, <4>2 DEF Listed
      <4> QED BY <4>3, <4>4
    <3> QED BY <3>1, <3>2
  <2> QED BY <1>2, <1>4, <2>1, ChangedIs
<1>5. CASE c.kind \in Editing
  <2> DEFINE given == (c.week # {})
             m == Choose(plans, week, given)
             done == Curated(m)
  <2>1. given \in BOOLEAN /\ m = Choose(plans, week, given) /\ done = Curated(m)
    OBVIOUS
  <2>2. EditOf(plans, c, now, week) = Rewritten(done.out, done.index + 1, c, now)
    BY DEF EditOf
  <2> HIDE DEF given, m, done
  <2>3. Chosen(m)
    BY <1>1, <2>1, ChooseTypes
  <2>4. Listed(done.out)
    <3>1. Listed(m.plans) /\ m.index \in Int /\ m.week \in SUBSET Days
      BY <2>3 DEF Chosen
    <3> QED BY <2>1, <3>1, CuratedTypes
  <2>5. InPlan(c) /\ c.kind \in {"insert", "set", "now"}
    BY <1>5, OrderIs DEF Editing
  <2>6. Listed(EditOf(plans, c, now, week))
    BY <2>2, <2>4, <2>5, RewrittenListed
  <2> QED BY <1>2, <1>5, <2>6, ChangedIs
<1> QED BY <1>3, <1>4, <1>5, OrderIs DEF Editing

LEMMA LoadOnIs ==
  ASSUME NEW plans, NEW d, NEW t
  PROVE  /\ SlotsOn(plans, d) = {} => LoadOn(plans, d, t) = {}
         /\ \A new : SlotsOn(plans, d) = {new} => LoadOn(plans, d, t) = LoadAt(new, t)
         /\ \A other : SlotsOn(plans, d) = SlotsOn(other, d)
                       => LoadOn(plans, d, t) = LoadOn(other, d, t)
<1>1. ASSUME SlotsOn(plans, d) = {} PROVE LoadOn(plans, d, t) = {}
  BY <1>1 DEF LoadOn
<1>2. ASSUME NEW new, SlotsOn(plans, d) = {new} PROVE LoadOn(plans, d, t) = LoadAt(new, t)
  <2>1. LoadOn(plans, d, t)
        = UNION {{<<s.power, s.type>> : s \in At(slots, t)} : slots \in {new}}
    BY <1>2 DEF LoadOn
  <2> QED BY <2>1 DEF LoadAt
<1>3. ASSUME NEW other, SlotsOn(plans, d) = SlotsOn(other, d)
      PROVE  LoadOn(plans, d, t) = LoadOn(other, d, t)
  BY <1>3 DEF LoadOn
<1> QED BY <1>1, <1>2, <1>3

\* What PlanEditExact says of a call q, of the plans before it and after it.
Exact(q, before, after) ==
  LET week == WeekOf(q, before)
  IN Tidy(before) /\ (q.kind = "delete" \/ ~Clash(before, week))
     => /\ Tidy(after)
        /\ \A i \in 1..Len(after) : InOrder(after[i].slots)
        /\ \A d \in Days \ week, t \in NowTimes :
             LoadOn(after, d, t) = LoadOn(before, d, t)
        /\ \E base \in Bases(before, week) :
             \A d \in week, t \in NowTimes :
               Honoured(q, base, LoadOn(after, d, t), t)

LEMMA ExactFrom ==
  ASSUME NEW q, NEW before, NEW after, NEW week, week = WeekOf(q, before),
         Listed(after), Tidy(after),
         \A d \in Days \ week : SlotsOn(after, d) = SlotsOn(before, d),
         NEW base \in Bases(before, week),
         \A d \in week, t \in NowTimes : Honoured(q, base, LoadOn(after, d, t), t)
  PROVE  Exact(q, before, after)
<1>1. \A d \in Days \ week, t \in NowTimes : LoadOn(after, d, t) = LoadOn(before, d, t)
  BY LoadOnIs
<1> QED BY <1>1 DEF Exact, Listed

LEMMA DeleteExact ==
  ASSUME NEW before, Listed(before), NEW c \in PlanCalls, c.kind = "delete",
         NEW now, NEW day \in Days, NEW q, SameCall(q, c, now), SameDays(q, c, day),
         NEW after, after = Changed(before, c, now, day)
  PROVE  Exact(q, before, after)
<1> DEFINE week == Weekdays(c, before, day)
<1>1. week \in SUBSET Days
  <2>1. WeekdaysFit(c, before, day, week)
    BY OrderIs, WeekdaysAre
  <2> QED BY <2>1 DEF WeekdaysFit
<1>2. week = WeekOf(q, before)
  BY WeekOfIs
<1>3. week = Weekdays(c, before, day)
  OBVIOUS
<1> HIDE DEF week
<1>4. after = Deleted(before, week)
  BY <1>3, ChangedIs
<1>5. SUFFICES ASSUME Tidy(before) PROVE Exact(q, before, after)
  BY DEF Exact
<1>6. /\ Listed(after) /\ Tidy(after)
      /\ \A d \in Days \ week : SlotsOn(after, d) = SlotsOn(before, d)
      /\ \A d \in week : SlotsOn(after, d) = {}
  BY <1>1, <1>4, <1>5, DeleteDays
<1>7. PICK base : base \in Bases(before, week)
  <2>1. CASE NoneTouches(before, week)
    BY <2>1, BasesAre
  <2>2. CASE ~NoneTouches(before, week)
    BY <2>2, BasesAre DEF NoneTouches
  <2> QED BY <2>1, <2>2
<1>8. q.kind = "delete"
  BY DEF SameCall
<1>9. ASSUME NEW d \in week, NEW t \in NowTimes
      PROVE  Honoured(q, base, LoadOn(after, d, t), t)
  <2>1. LoadOn(after, d, t) = {}
    BY <1>6, LoadOnIs
  <2> QED BY <1>8, <2>1 DEF Honoured
<1> QED BY <1>2, <1>6, <1>7, <1>9, ExactFrom

LEMMA ChangeExact ==
  ASSUME NEW before, Listed(before), NEW c \in PlanCalls, c.kind \in Editing,
         NEW now \in NowTimes, NEW day \in Days,
         NEW q, SameCall(q, c, now), SameDays(q, c, day),
         NEW after, after = Changed(before, c, now, day)
  PROVE  Exact(q, before, after)
<1> DEFINE week == Weekdays(c, before, day)
           given == (c.week # {})
           m == Choose(before, week, given)
           done == Curated(m)
<1>1. week \in SUBSET Days /\ week # {}
  <2>1. WeekdaysFit(c, before, day, week)
    BY OrderIs, WeekdaysAre
  <2> QED BY <2>1 DEF WeekdaysFit
<1>2. EditOf(before, c, now, week) = Rewritten(done.out, done.index + 1, c, now)
  BY DEF EditOf
<1>3. /\ week = Weekdays(c, before, day) /\ given \in BOOLEAN /\ (given <=> c.week # {})
      /\ m = Choose(before, week, given) /\ done = Curated(m)
  OBVIOUS
<1> HIDE DEF week, given, m, done
<1>4. after = Rewritten(done.out, done.index + 1, c, now)
  <2>1. after = EditOf(before, c, now, week)
    BY <1>3, ChangedIs
  <2> QED BY <1>2, <2>1
<1>5. /\ q.kind = c.kind /\ q.kind # "delete" /\ c.kind # "delete" /\ c.week \in SUBSET Days
      /\ InPlan(c) /\ c.kind \in {"insert", "set", "now"}
  BY OrderIs DEF SameCall, Editing
<1>6. SUFFICES ASSUME Tidy(before), ~Clash(before, WeekOf(q, before))
               PROVE  Exact(q, before, after)
  BY <1>5 DEF Exact
<1>7. ~Clash(before, week)
  BY <1>3, <1>5, <1>6, ClashIs
<1>8. PICK k : Target(before, m, k) /\ ChosenFrom(before, week, given, m, m.plans[k].slots)
  BY <1>1, <1>3, <1>6, <1>7, ChooseTarget
<1>9. Chosen(m)
  BY <1>1, <1>3, ChooseTypes
<1> DEFINE base == m.plans[k].slots
           new == PlanSlots(m.plans[k].slots, c, now)
<1>10. m.week = WeekOf(q, before) /\ base \in Bases(before, WeekOf(q, before))
  <2>1. ChosenFrom(before, week, given, m, base)
    BY <1>8
  <2> HIDE DEF base, new
  <2> QED BY <1>3, <1>5, <1>6, <2>1, ChosenWeek
<1>11. Ready(m, k) /\ k # 0 /\ Among(before, m, k)
  <2>1. Ready(m, k)
    BY <1>6, <1>8, <1>9, TargetReady
  <2>2. k # 0
    BY <1>8 DEF Target
  <2> QED BY <1>8, <2>1, <2>2 DEF Target, Among
<1>12. Cleared(done, m, k, Len(m.plans))
  BY <1>3, <1>11, CuratedTidy
<1>13. /\ Listed(after) /\ Tidy(after)
       /\ \A d \in Days \ m.week : SlotsOn(after, d) = SlotsOn(before, d)
       /\ \A d \in m.week : SlotsOn(after, d) = {new}
  <2>1. DaysRewritten(after, before, m.week, PlanSlots(m.plans[k].slots, c, now))
    BY <1>4, <1>5, <1>11, <1>12, RewriteDays
  <2> QED BY <2>1 DEF DaysRewritten
<1>14. Day(base, PowerSlots)
  <2>1. k \in 1..Len(m.plans) /\ Listed(m.plans)
    BY <1>8, <1>9 DEF Target, Chosen
  <2> QED BY <2>1, PlanFacts, PlanMovable DEF Day
<1>15. Honours(q, base, new)
  <2>1. new = PlanSlots(base, c, now)
    OBVIOUS
  <2> HIDE DEF base, new
  <2> QED BY <1>5, <1>14, <2>1, PlanSlotsAre
<1> HIDE DEF base, new
<1>16. ASSUME NEW d \in m.week, NEW t \in NowTimes
       PROVE  Honoured(q, base, LoadOn(after, d, t), t)
  <2>1. SlotsOn(after, d) = {new}
    BY <1>13
  <2>2. LoadOn(after, d, t) = LoadAt(new, t)
    BY <2>1, LoadOnIs
  <2> QED BY <1>15, <2>2 DEF Honours
<1> DEFINE days == m.week
<1>17. days = WeekOf(q, before) /\ base \in Bases(before, days)
  BY <1>10
<1> QED BY <1>13, <1>16, <1>17, ExactFrom

\* Every copy of the schedule holds lists of plans with slots in order: the
\* cached one, that of the cloud, and the one that is being sent.
PlanInv ==
  /\ ChargeInv
  /\ Listed(cached.custom) /\ Listed(cached.blend)
  /\ Listed(stored.custom) /\ Listed(stored.blend)
  /\ sending.part = "slots" => Listed(sending.custom) /\ Listed(sending.blend)

LEMMA PlanStart == PlanInit => PlanInv
<1> SUFFICES ASSUME PlanInit PROVE PlanInv
  OBVIOUS
<1>1. PICK plans \in PlanLists, mode \in ModeOptions, use \in BOOLEAN, backup \in Backups :
        stored = [mode |-> mode, custom |-> plans, blend |-> <<>>,
                  use |-> use, backup |-> backup]
  BY DEF PlanInit
<1>2. Listed(plans)
  BY PlanAssumption DEF Listed
<1>3. cached = stored /\ sending = [part |-> "none"]
  BY DEF PlanInit
<1>4. Listed(stored.custom) /\ Listed(stored.blend)
  BY <1>1, <1>2, NoSlots
<1>5. sending.part # "slots"
  BY <1>3
<1> QED BY <1>3, <1>4, <1>5, ChargeStart DEF PlanInv

\* The plans of a schedule after a call.
PlansEdited(x, c, now, day) ==
  /\ x.custom = IF PlanName(c) = "custom" THEN Changed(cached.custom, c, now, day)
                ELSE cached.custom
  /\ x.blend = IF PlanName(c) = "blend" THEN Changed(cached.blend, c, now, day)
               ELSE cached.blend

LEMMA EditPlans ==
  ASSUME ChargeInv, NEW c, NEW now, NEW day
  PROVE  /\ PlansEdited(Edited(c, now, day), c, now, day)
         /\ PlansEdited([Edited(c, now, day) EXCEPT !.mode = Mode(c)], c, now, day)
<1>1. PlansEdited(Edited(c, now, day), c, now, day)
  BY DEF Edited, ChargeInv, PlansEdited
<1>2. /\ [Edited(c, now, day) EXCEPT !.mode = Mode(c)].custom = Edited(c, now, day).custom
      /\ [Edited(c, now, day) EXCEPT !.mode = Mode(c)].blend = Edited(c, now, day).blend
  BY EditKeepsCharge DEF SchedKept
<1> QED BY <1>1, <1>2 DEF PlansEdited

\* A call changes the plans of the mode it names and sends what it made.
LEMMA SetPlanIs ==
  ASSUME PlanInv, NEW c \in PlanCalls, NEW now \in NowTimes, NEW day \in Days,
         SetPlan(c, now, day)
  PROVE  /\ PlansEdited(cached', c, now, day) /\ stored' = stored
         /\ planCall' = [c EXCEPT !.now = now, !.day = day, !.plan = PlanName(c)]
         /\ sending'.part = "slots"
            => sending'.custom = cached'.custom /\ sending'.blend = cached'.blend
<1> DEFINE done == Edited(c, now, day)
           raises == Mode(c) = "use_time" /\ ~done.use
           final == [done EXCEPT !.mode = Mode(c)]
<1>1. PlansEdited(done, c, now, day) /\ PlansEdited(final, c, now, day)
  BY EditPlans DEF PlanInv
<1>2. /\ cached' = IF raises THEN done ELSE final
      /\ sending' = IF raises THEN [part |-> "none"]
                    ELSE IF HasSlots(PlanName(c)) THEN SlotPart(final) ELSE ChargePart(final)
      /\ planCall' = [c EXCEPT !.now = now, !.day = day, !.plan = PlanName(c)]
      /\ stored' = stored
  BY DEF SetPlan
<1> HIDE DEF done, raises, final
<1>3. sending'.part = "slots"
      => sending'.custom = cached'.custom /\ sending'.blend = cached'.blend
  <2>1. CASE raises
    BY <1>2, <2>1
  <2>2. CASE ~raises /\ HasSlots(PlanName(c))
    BY <1>2, <2>2 DEF SlotPart
  <2>3. CASE ~raises /\ ~HasSlots(PlanName(c))
    BY <1>2, <2>3 DEF ChargePart
  <2> QED BY <2>1, <2>2, <2>3
<1> QED BY <1>1, <1>2, <1>3

LEMMA PlanStep == PlanInv /\ [PlanNext]_planVars => PlanInv'
<1> SUFFICES ASSUME PlanInv, [PlanNext]_planVars PROVE PlanInv'
  OBVIOUS
<1>0. ChargeInv'
  BY ChargeStep DEF PlanInv
<1>1. ASSUME NEW c \in PlanCalls, NEW now \in NowTimes, NEW day \in Days, SetPlan(c, now, day)
      PROVE  PlanInv'
  <2>1. /\ PlansEdited(cached', c, now, day) /\ stored' = stored
        /\ sending'.part = "slots"
           => sending'.custom = cached'.custom /\ sending'.blend = cached'.blend
    BY <1>1, SetPlanIs
  <2>2. /\ Listed(Changed(cached.custom, c, now, day))
        /\ Listed(Changed(cached.blend, c, now, day))
    BY ChangedListed DEF PlanInv
  <2>3. Listed(cached'.custom) /\ Listed(cached'.blend)
    BY <2>1, <2>2 DEF PlansEdited, PlanInv
  <2> QED BY <1>0, <2>1, <2>3 DEF PlanInv
<1>2. ASSUME NEW c \in ChargeCalls, NEW now \in ChargeTimes, BackupCharge(c, now)
      PROVE  PlanInv'
  <2>1. /\ cached' = [cached EXCEPT !.backup = Backup(@, c, now)] /\ stored' = stored
        /\ sending' = IF c.cacheOnly THEN sending ELSE ChargePart(cached')
    BY <1>2 DEF BackupCharge
  <2>2. cached'.custom = cached.custom /\ cached'.blend = cached.blend
    BY <2>1 DEF PlanInv, ChargeInv
  <2>3. sending' = sending \/ sending'.part = "charge"
    BY <2>1 DEF ChargePart
  <2> QED BY <1>0, <2>1, <2>2, <2>3 DEF PlanInv
<1>3. CASE Accept
  <2>1. /\ stored' = IF sending.part = "slots"
                     THEN [stored EXCEPT !.mode = sending.mode,
                             !.custom = sending.custom, !.blend = sending.blend]
                     ELSE [stored EXCEPT !.mode = sending.mode,
                             !.backup = sending.backup, !.use = sending.use]
        /\ cached' = stored' /\ sending' = [part |-> "none"]
    BY <1>3 DEF Accept
  <2>2. /\ stored'.custom = IF sending.part = "slots" THEN sending.custom ELSE stored.custom
        /\ stored'.blend = IF sending.part = "slots" THEN sending.blend ELSE stored.blend
    BY <2>1 DEF PlanInv, ChargeInv
  <2>3. sending'.part # "slots"
    BY <2>1
  <2> QED BY <1>0, <2>1, <2>2, <2>3 DEF PlanInv
<1>4. CASE Reject
  <2>1. sending' = [part |-> "none"] /\ cached' = cached /\ stored' = stored
    BY <1>4 DEF Reject
  <2>2. sending'.part # "slots"
    BY <2>1
  <2> QED BY <1>0, <2>1, <2>2 DEF PlanInv
<1>5. CASE ReadSchedule
  BY <1>0, <1>5 DEF ReadSchedule, PlanInv
<1>6. CASE UNCHANGED planVars
  BY <1>0, <1>6 DEF planVars, PlanInv
<1> QED BY <1>1, <1>2, <1>3, <1>4, <1>5, <1>6 DEF PlanNext

\* The last call, as the property reads it.
MadeAs(q, c, now, day, plan) == q = [c EXCEPT !.now = now, !.day = day, !.plan = plan]

LEMMA LastCallIs ==
  ASSUME NEW c \in PlanCalls, NEW now, NEW day, NEW plan, NEW q,
         MadeAs(q, c, now, day, plan)
  PROVE  SameCall(q, c, now) /\ SameDays(q, c, day) /\ q.plan = plan
<1>1. c \in PlanOrders
  BY PlanAssumption
<1> QED BY <1>1 DEF PlanOrders, SameCall, SameDays, MadeAs

\* PlanEditExact: a call changes the days it is for and no other, one of the
\* plans they had goes on with what was asked for within its times only, and
\* the weekdays stay in one plan at most (set_sb2_home_load(),
\* schedule.py:1597-1836).
THEOREM PlanEditsStayExact == PlanSpec => PlanEditExact
<1>1. PlanInv /\ [PlanNext]_planVars
      => [Edits({"insert", "set", "now", "delete"})
          => LET before == PlansOf(cached, planCall'.plan)
                 after == PlansOf(cached', planCall'.plan)
                 week == WeekOf(planCall', before)
             IN Tidy(before) /\ (planCall'.kind = "delete" \/ ~Clash(before, week))
                => /\ Tidy(after)
                   /\ \A i \in 1..Len(after) : InOrder(after[i].slots)
                   /\ \A d \in Days \ week, t \in NowTimes :
                        LoadOn(after, d, t) = LoadOn(before, d, t)
                   /\ \E base \in Bases(before, week) :
                        \A d \in week, t \in NowTimes :
                          Honoured(planCall', base, LoadOn(after, d, t), t)]_planVars
  <2> SUFFICES ASSUME PlanInv, [PlanNext]_planVars,
                      Edits({"insert", "set", "now", "delete"})
               PROVE  Exact(planCall', PlansOf(cached, planCall'.plan),
                            PlansOf(cached', planCall'.plan))
    BY Zenon DEF Exact
  <2>1. planCalls' # planCalls /\ planCall'.kind \in {"insert", "set", "now", "delete"}
        /\ HasSlots(planCall'.plan)
    BY DEF Edits
  <2>2. PICK c \in PlanCalls, now \in NowTimes, day \in Days : SetPlan(c, now, day)
    <3>1. ASSUME NEW c \in ChargeCalls, NEW now \in ChargeTimes, BackupCharge(c, now)
          PROVE  planCall'.kind = "backup"
      <4>1. planCall' = [c EXCEPT !.now = now]
        BY <3>1 DEF BackupCharge
      <4>2. c \in ChargeOrders
        BY PlanAssumption
      <4> QED BY <4>1, <4>2 DEF ChargeOrders
    <3>2. ~Accept /\ ~Reject /\ ~ReadSchedule
      BY <2>1 DEF Accept, Reject, ReadSchedule
    <3>3. PlanNext
      BY <2>1 DEF planVars
    <3> QED BY <2>1, <3>1, <3>2, <3>3 DEF PlanNext
  <2>3. /\ PlansEdited(cached', c, now, day)
        /\ planCall' = [c EXCEPT !.now = now, !.day = day, !.plan = PlanName(c)]
    BY <2>2, SetPlanIs
  <2>4. /\ SameCall(planCall', c, now) /\ SameDays(planCall', c, day)
        /\ planCall'.plan = PlanName(c)
    <3>1. MadeAs(planCall', c, now, day, PlanName(c))
      BY <2>3 DEF MadeAs
    <3> QED BY <3>1, LastCallIs
  <2>5. c.kind \in Editing \/ c.kind = "delete"
    BY <2>1, <2>4 DEF SameCall, Editing
  <2> DEFINE before == PlansOf(cached, planCall'.plan)
             after == PlansOf(cached', planCall'.plan)
  <2>6. after = Changed(before, c, now, day) /\ Listed(before)
    <3>1. PlanName(c) \in {"custom", "blend"}
      BY <2>1, <2>4 DEF HasSlots
    <3> QED BY <2>3, <2>4, <3>1 DEF PlansEdited, PlansOf, PlanInv
  <2> HIDE DEF before, after
  <2>7. Exact(planCall', before, after)
    BY <2>4, <2>5, <2>6, ChangeExact, DeleteExact
  <2> QED BY <2>7 DEF before, after
<1> QED BY <1>1, PlanStart, PlanStep, PTL DEF PlanSpec, PlanEditExact

=============================================================================
