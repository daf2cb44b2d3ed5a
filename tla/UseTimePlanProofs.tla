------------------------- MODULE UseTimePlanProofs -------------------------
(***************************************************************************)
(* Proofs about the use time plan: the walks over the slots, the prices,   *)
(* the day types and the seasons are proved turn by turn, with what each   *)
(* keeps up to the hour or the month that it has passed.                   *)
(***************************************************************************)
EXTENDS UseTimePlan, SequenceTheorems, FiniteSetTheorems,
        WellFoundedInduction, TLAPS

LEMMA NatSet ==
  ASSUME NEW S \in SUBSET Nat, 0 \in S, \A n \in S : n + 1 \in S
  PROVE  S = Nat
<1> SUFFICES ASSUME Nat \ S # {} PROVE FALSE
  OBVIOUS
<1>1. PICK x \in Nat \ S : \A y \in Nat \ S : ~(<<y, x>> \in OpToRel(<,Nat))
  <2>1. Nat \ S \subseteq Nat OBVIOUS
  <2> QED BY <2>1, WFMin, NatLessThanWellFounded
<1>2. x # 0 /\ x - 1 \in Nat
  OBVIOUS
<1>3. CASE x - 1 \in S
  <2>1. (x - 1) + 1 \in S BY <1>3
  <2> QED BY <2>1
<1>4. CASE x - 1 \notin S
  <2>1. <<x - 1, x>> \in OpToRel(<,Nat)
    BY <1>2 DEF OpToRel
  <2> QED BY <2>1, <1>1, <1>2, <1>4
<1> QED BY <1>3, <1>4

\* A walk of n turns over states in W, made by the functions F[1], F[2], ...
Steps(g, start, F, n) ==
  g[0] = start /\ \A i \in 1..n : g[i] = F[i][g[i - 1]]

\* Such a walk exists.
LEMMA StepsExist ==
  ASSUME NEW n \in Nat, NEW W, NEW start \in W, NEW F \in [1..n -> [W -> W]]
  PROVE  \E g \in [0..n -> W] : Steps(g, start, F, n)
<1> DEFINE Reached == {k \in Nat : k <= n => \E g \in [0..k -> W] : Steps(g, start, F, k)}
<1>1. 0 \in Reached
  <2> DEFINE g == [i \in 0..0 |-> start]
  <2>1. g \in [0..0 -> W] /\ Steps(g, start, F, 0)
    BY DEF Steps
  <2> QED BY <2>1
<1>2. ASSUME NEW k \in Reached PROVE k + 1 \in Reached
  <2> SUFFICES ASSUME k + 1 <= n
               PROVE  \E g \in [0..(k + 1) -> W] : Steps(g, start, F, k + 1)
    OBVIOUS
  <2>1. PICK g \in [0..k -> W] : Steps(g, start, F, k)
    BY <1>2
  <2>2. k + 1 \in 1..n /\ F[k + 1] \in [W -> W] /\ g[k] \in W
    OBVIOUS
  <2> DEFINE h == [i \in 0..(k + 1) |-> IF i <= k THEN g[i] ELSE F[k + 1][g[k]]]
  <2>3. h \in [0..(k + 1) -> W]
    BY <2>2
  <2>4. h[0] = start
    BY <2>1 DEF Steps
  <2>5. ASSUME NEW i \in 1..(k + 1) PROVE h[i] = F[i][h[i - 1]]
    <3>1. CASE i <= k
      <4>1. i \in 1..k /\ i - 1 <= k /\ i - 1 \in 0..(k + 1) /\ i \in 0..(k + 1)
        BY <3>1
      <4>2. h[i] = g[i] /\ h[i - 1] = g[i - 1]
        BY <4>1, <3>1
      <4> QED BY <2>1, <4>1, <4>2 DEF Steps
    <3>2. CASE i = k + 1
      <4>1. h[i] = F[k + 1][g[k]] /\ h[i - 1] = g[k]
        BY <3>2
      <4> QED BY <4>1, <3>2
    <3> QED BY <3>1, <3>2
  <2> QED BY <2>3, <2>4, <2>5 DEF Steps
<1>3. Reached = Nat
  <2>1. Reached \in SUBSET Nat
    OBVIOUS
  <2> HIDE DEF Reached
  <2> QED BY <2>1, <1>1, <1>2, NatSet
<1> QED BY <1>3

\* What holds at the start and is kept by each turn holds all along.
LEMMA StepsKeep ==
  ASSUME NEW n \in Nat, NEW P, 0 \in P, \A i \in 1..n : i - 1 \in P => i \in P
  PROVE  0..n \subseteq P
<1> DEFINE Held == {k \in Nat : k <= n => k \in P}
<1>1. 0 \in Held
  OBVIOUS
<1>2. ASSUME NEW k \in Held PROVE k + 1 \in Held
  <2> SUFFICES ASSUME k + 1 <= n PROVE k + 1 \in P
    OBVIOUS
  <2>1. k \in P /\ k + 1 \in 1..n /\ (k + 1) - 1 = k
    BY <1>2
  <2> QED BY <2>1
<1>3. Held = Nat
  <2>1. Held \in SUBSET Nat
    OBVIOUS
  <2> HIDE DEF Held
  <2> QED BY <2>1, <1>1, <1>2, NatSet
<1> QED BY <1>3

(***************************************************************************)
(* The walk over the slots.                                                *)
(***************************************************************************)
FiniteInts == {f \in SUBSET Int : IsFiniteSet(f)}

SlotWalks ==
  [out : Seq(TariffSlots), found : FiniteInts, delay : Int, start : Int,
   end : Int, type : Int]

\* The calls that reach the walk.
GoodOrder(c) ==
  /\ c \in UseOrders
  /\ c.month \in 1..Months
  /\ c.hour \in 0..(Hours - 1)
  /\ c.startMonth # Missing /\ c.endMonth # Missing => c.startMonth <= c.endMonth
  /\ c.startHour # Missing /\ c.endHour # Missing => c.startHour < c.endHour

\* Slots that follow each other from the start of the day to an hour.
Tiled(list, end) ==
  IF list = <<>> THEN end = 0
  ELSE /\ list[1].start = 0
       /\ list[Len(list)].end = end
       /\ \A i \in 1..Len(list) : list[i].start < list[i].end
       /\ \A i \in 2..Len(list) : list[i].start = list[i - 1].end

\* The tariffs of the slots are among those found.
Found(w) == \A i \in 1..Len(w.out) : w.out[i].type \in w.found

\* Lists of a kind of which the last element may end at a time.
Endable(S, end) == \A s \in S : [s EXCEPT !.end = end] \in S

EndMoved(new, list, end) ==
  /\ Len(new) = Len(list)
  /\ \A i \in 1..Len(list) :
       new[i] = IF i = Len(list) THEN [list[i] EXCEPT !.end = end] ELSE list[i]

LEMMA EndLastType ==
  ASSUME NEW S, NEW list \in Seq(S), NEW end, Endable(S, end)
  PROVE  /\ EndLast(list, end) \in Seq(S)
         /\ EndMoved(EndLast(list, end), list, end)
<1>1. CASE list = <<>>
  BY <1>1 DEF EndLast, EndMoved
<1>2. CASE list # <<>>
  <2>1. Len(list) \in 1..Len(list) /\ list[Len(list)] \in S
    BY <1>2, EmptySeq, LenProperties, ElementOfSeq
  <2>2. EndLast(list, end) = [list EXCEPT ![Len(list)] = [list[Len(list)] EXCEPT !.end = end]]
    BY <1>2 DEF EndLast
  <2>3. [list[Len(list)] EXCEPT !.end = end] \in S
    BY <2>1 DEF Endable
  <2> QED BY <2>1, <2>2, <2>3, ExceptSeq DEF EndMoved
<1> QED BY <1>1, <1>2

LEMMA SlotEnd ==
  ASSUME NEW s \in TariffSlots, NEW a \in Int
  PROVE  /\ [s EXCEPT !.end = a] \in TariffSlots
         /\ [s EXCEPT !.start = a] \in TariffSlots
         /\ [s EXCEPT !.end = a].start = s.start
         /\ [s EXCEPT !.end = a].end = a
         /\ [s EXCEPT !.end = a].type = s.type
         /\ [s EXCEPT !.start = a].start = a
         /\ [s EXCEPT !.start = a].end = s.end
         /\ [s EXCEPT !.start = a].type = s.type
BY DEF TariffSlots

\* The last slot made longer.
LEMMA EndLastTiled ==
  ASSUME NEW list \in Seq(TariffSlots), NEW a \in Int, NEW b \in Int,
         list # <<>>, Tiled(list, a), a <= b
  PROVE  /\ Tiled(EndLast(list, b), b)
         /\ EndLast(list, b) # <<>>
<1> DEFINE new == EndLast(list, b)
<1>1. Len(list) \in Nat /\ Len(list) >= 1
  BY EmptySeq, LenProperties
<1>0. Endable(TariffSlots, b)
  BY SlotEnd DEF Endable
<1>2. /\ new \in Seq(TariffSlots) /\ Len(new) = Len(list)
      /\ \A i \in 1..Len(list) :
           new[i] = IF i = Len(list) THEN [list[i] EXCEPT !.end = b] ELSE list[i]
  <2>1. new \in Seq(TariffSlots) /\ EndMoved(new, list, b)
    BY <1>0, EndLastType
  <2> QED BY <2>1 DEF EndMoved
<1> HIDE DEF new
<1>3. \A i \in 1..Len(list) : list[i] \in TariffSlots /\ list[i].start \in Int /\ list[i].end \in Int
  <2>1. \A i \in 1..Len(list) : list[i] \in TariffSlots
    BY ElementOfSeq
  <2>2. \A s \in TariffSlots : s.start \in Int /\ s.end \in Int
    BY DEF TariffSlots
  <2> QED BY <2>1, <2>2
<1>4. ASSUME NEW i \in 1..Len(list)
      PROVE  /\ new[i].start = list[i].start
             /\ new[i].end = IF i = Len(list) THEN b ELSE list[i].end
  <2>1. list[i] \in TariffSlots
    BY <1>3
  <2>2. CASE i = Len(list)
    <3>1. new[i] = [list[i] EXCEPT !.end = b]
      BY <2>2, <1>2
    <3> QED BY <2>1, <2>2, <3>1, SlotEnd
  <2>3. CASE i # Len(list)
    BY <2>3, <1>2
  <2> QED BY <2>2, <2>3
<1>5. new # <<>>
  BY <1>1, <1>2, EmptySeq
<1>6. new[1].start = 0 /\ new[Len(new)].end = b
  BY <1>1, <1>2, <1>4 DEF Tiled
<1>7. ASSUME NEW i \in 1..Len(new) PROVE new[i].start < new[i].end
  <2>1. CASE i = Len(list)
    BY <2>1, <1>1, <1>2, <1>3, <1>4 DEF Tiled
  <2>2. CASE i # Len(list)
    BY <2>2, <1>1, <1>2, <1>3, <1>4 DEF Tiled
  <2> QED BY <2>1, <2>2
<1>8. ASSUME NEW i \in 2..Len(new) PROVE new[i].start = new[i - 1].end
  <2>1. i \in 1..Len(list) /\ i - 1 \in 1..Len(list) /\ i - 1 # Len(list)
    BY <1>1, <1>2
  <2> QED BY <2>1, <1>2, <1>4 DEF Tiled
<1>9. Tiled(new, b)
  BY <1>5, <1>6, <1>7, <1>8 DEF Tiled
<1> QED BY <1>5, <1>9 DEF new

\* A slot more.
LEMMA AppendTiled ==
  ASSUME NEW list \in Seq(TariffSlots), NEW s \in TariffSlots,
         Tiled(list, s.start), s.start < s.end
  PROVE  /\ Tiled(Append(list, s), s.end)
         /\ Append(list, s) # <<>>
<1> DEFINE new == Append(list, s)
<1>1. Len(list) \in Nat
  BY LenProperties
<1>2. new \in Seq(TariffSlots) /\ Len(new) = Len(list) + 1 /\ new[Len(list) + 1] = s
  OBVIOUS
<1>3. \A i \in 1..Len(list) : new[i] = list[i]
  OBVIOUS
<1>4. new # <<>>
  BY <1>1, <1>2, EmptySeq
<1> HIDE DEF new
<1>5. CASE list = <<>>
  <2>1. Len(new) = 1 /\ new[1] = s /\ s.start = 0
    BY <1>5, <1>2, EmptySeq DEF Tiled
  <2> QED BY <2>1, <1>4 DEF Tiled, new
<1>6. CASE list # <<>>
  <2>1. Len(list) >= 1
    BY <1>6, <1>1, EmptySeq
  <2>2. ASSUME NEW i \in 1..Len(new) PROVE new[i].start < new[i].end
    BY <1>6, <1>1, <1>2, <1>3 DEF Tiled
  <2>3. ASSUME NEW i \in 2..Len(new) PROVE new[i].start = new[i - 1].end
    <3>1. CASE i = Len(list) + 1
      BY <3>1, <2>1, <1>6, <1>1, <1>2, <1>3 DEF Tiled
    <3>2. CASE i # Len(list) + 1
      <4>1. i \in 1..Len(list) /\ i - 1 \in 1..Len(list) /\ i \in 2..Len(list)
        BY <3>2, <1>1, <1>2
      <4> QED BY <4>1, <1>6, <1>3 DEF Tiled
    <3> QED BY <3>1, <3>2
  <2>4. new[1].start = 0 /\ new[Len(new)].end = s.end
    BY <2>1, <1>1, <1>2, <1>3, <1>6 DEF Tiled
  <2> QED BY <2>2, <2>3, <2>4, <1>4 DEF Tiled, new
<1> QED BY <1>5, <1>6

\* What joining a slot does to the walk.
JoinedWell(w, v, slot) ==
  /\ v \in SlotWalks
  /\ v.delay = w.delay /\ v.start = w.start /\ v.end = w.end /\ v.type = w.type
  /\ v.found \subseteq w.found \cup {slot.type}
  /\ Found(w) => Found(v)
  /\ Tiled(w.out, slot.start) /\ slot.start < slot.end
       => Tiled(v.out, slot.end) /\ v.out # <<>>

LEMMA FoundMore ==
  ASSUME NEW f \in FiniteInts, NEW t \in Int
  PROVE  f \cup {t} \in FiniteInts
BY FS_AddElement DEF FiniteInts

LEMMA SlotWalkFields ==
  ASSUME NEW w \in SlotWalks
  PROVE  /\ w.out \in Seq(TariffSlots) /\ w.found \in FiniteInts
         /\ w.delay \in Int /\ w.start \in Int /\ w.end \in Int /\ w.type \in Int
BY DEF SlotWalks

LEMMA SlotFields ==
  ASSUME NEW s \in TariffSlots
  PROVE  s.start \in Int /\ s.end \in Int /\ s.type \in Int
BY DEF TariffSlots

LEMMA AppendElements ==
  ASSUME NEW S, NEW list \in Seq(S), NEW s \in S
  PROVE  /\ Append(list, s) \in Seq(S)
         /\ Len(Append(list, s)) = Len(list) + 1
         /\ Len(list) \in Nat
         /\ \A i \in 1..(Len(list) + 1) :
              Append(list, s)[i] = IF i = Len(list) + 1 THEN s ELSE list[i]
BY LenProperties

\* The types of slots that are made longer or appended.
LEMMA EndLastTypes ==
  ASSUME NEW list \in Seq(TariffSlots), NEW b \in Int
  PROVE  /\ EndLast(list, b) \in Seq(TariffSlots)
         /\ Len(EndLast(list, b)) = Len(list)
         /\ \A i \in 1..Len(list) : EndLast(list, b)[i].type = list[i].type
<1> DEFINE new == EndLast(list, b)
<1>1. Endable(TariffSlots, b)
  BY SlotEnd DEF Endable
<1>2. /\ new \in Seq(TariffSlots) /\ Len(new) = Len(list)
      /\ \A i \in 1..Len(list) :
           new[i] = IF i = Len(list) THEN [list[i] EXCEPT !.end = b] ELSE list[i]
  <2>1. new \in Seq(TariffSlots) /\ EndMoved(new, list, b)
    BY <1>1, EndLastType
  <2> QED BY <2>1 DEF EndMoved
<1> HIDE DEF new
<1>3. ASSUME NEW i \in 1..Len(list) PROVE new[i].type = list[i].type
  <2>1. list[i] \in TariffSlots
    BY ElementOfSeq
  <2>2. CASE i = Len(list)
    <3>1. new[i] = [list[i] EXCEPT !.end = b]
      BY <2>2, <1>2
    <3> QED BY <2>1, <3>1, SlotEnd
  <2>3. CASE i # Len(list)
    BY <2>3, <1>2
  <2> QED BY <2>2, <2>3
<1> QED BY <1>2, <1>3 DEF new

LEMMA JoinedIs ==
  ASSUME NEW c, NEW w \in SlotWalks, NEW slot \in TariffSlots
  PROVE  JoinedWell(w, Joined(c, w, slot), slot)
<1> DEFINE v == Joined(c, w, slot)
<1>1. /\ w.out \in Seq(TariffSlots) /\ w.found \in FiniteInts
      /\ slot.start \in Int /\ slot.end \in Int /\ slot.type \in Int
  BY SlotWalkFields, SlotFields
<1>2. CASE w.out # <<>> /\ w.out[Len(w.out)].type = slot.type /\ c.merge
  <2>1. EndLast(w.out, slot.end) \in Seq(TariffSlots)
    BY <1>1, EndLastTypes
  <2>2. /\ v \in SlotWalks
        /\ v.delay = w.delay /\ v.start = w.start /\ v.end = w.end /\ v.type = w.type
        /\ v.found = w.found /\ v.out = EndLast(w.out, slot.end)
    BY <1>2, <2>1 DEF Joined, SlotWalks
  <2> HIDE DEF v
  <2>3. Found(w) => Found(v)
    BY <2>2, <1>1, EndLastTypes DEF Found
  <2>4. Tiled(w.out, slot.start) /\ slot.start < slot.end
          => Tiled(v.out, slot.end) /\ v.out # <<>>
    BY <2>2, <1>1, <1>2, EndLastTiled
  <2>5. v.found \subseteq w.found \cup {slot.type}
    BY <2>2
  <2> QED BY <2>2, <2>3, <2>4, <2>5 DEF JoinedWell, v
<1>3. CASE ~(w.out # <<>> /\ w.out[Len(w.out)].type = slot.type /\ c.merge)
  <2>1. Append(w.out, slot) \in Seq(TariffSlots) /\ w.found \cup {slot.type} \in FiniteInts
    BY <1>1, FoundMore
  <2>2. /\ v \in SlotWalks
        /\ v.delay = w.delay /\ v.start = w.start /\ v.end = w.end /\ v.type = w.type
        /\ v.found = w.found \cup {slot.type} /\ v.out = Append(w.out, slot)
    BY <1>3, <2>1 DEF Joined, SlotWalks
  <2> HIDE DEF v
  <2>3. ASSUME Found(w) PROVE Found(v)
    <3>1. Len(v.out) = Len(w.out) + 1 /\ Len(w.out) \in Nat
      BY <2>2, <1>1, AppendElements
    <3>2. ASSUME NEW i \in 1..Len(v.out) PROVE v.out[i].type \in v.found
      <4>1. v.out[i] = IF i = Len(w.out) + 1 THEN slot ELSE w.out[i]
        BY <2>2, <1>1, <3>1, AppendElements
      <4> QED BY <4>1, <3>1, <2>2, <2>3 DEF Found
    <3> QED BY <3>2 DEF Found
  <2>4. Tiled(w.out, slot.start) /\ slot.start < slot.end
          => Tiled(v.out, slot.end) /\ v.out # <<>>
    BY <2>2, <1>1, AppendTiled
  <2>5. v.found \subseteq w.found \cup {slot.type}
    BY <2>2
  <2> QED BY <2>2, <2>3, <2>4, <2>5 DEF JoinedWell, v
<1> QED BY <1>2, <1>3

\* The slots up to an hour are gone.
GoneWell(w, v, to) ==
  /\ v \in SlotWalks
  /\ v.delay = to /\ v.start = w.start /\ v.end = w.end /\ v.type = w.type
  /\ v.found = w.found
  /\ Found(w) => Found(v)
  /\ w.out = <<>> => v.out = <<>>
  /\ \A a \in Int : w.out # <<>> /\ Tiled(w.out, a) /\ a <= to => Tiled(v.out, to)

LEMMA GoneIs ==
  ASSUME NEW w \in SlotWalks, NEW to \in Int
  PROVE  GoneWell(w, Gone(w, to), to)
<1> DEFINE v == Gone(w, to)
<1>1. w.out \in Seq(TariffSlots)
  BY SlotWalkFields
<1>2. EndLast(w.out, to) \in Seq(TariffSlots)
  BY <1>1, EndLastTypes
<1>3. /\ v \in SlotWalks
      /\ v.delay = to /\ v.start = w.start /\ v.end = w.end /\ v.type = w.type
      /\ v.found = w.found /\ v.out = EndLast(w.out, to)
  BY <1>2 DEF Gone, SlotWalks
<1> HIDE DEF v
<1>4. Found(w) => Found(v)
  BY <1>1, <1>3, EndLastTypes DEF Found
<1>5. w.out = <<>> => v.out = <<>>
  BY <1>3 DEF EndLast
<1>6. \A a \in Int : w.out # <<>> /\ Tiled(w.out, a) /\ a <= to => Tiled(v.out, to)
  BY <1>1, <1>3, EndLastTiled
<1> QED BY <1>3, <1>4, <1>5, <1>6 DEF GoneWell, v

LEMMA OrderFields ==
  ASSUME NEW c \in UseOrders
  PROVE  /\ Months \in Nat /\ Months >= 1 /\ Hours \in Nat /\ Hours >= 1
         /\ c.startMonth \in Int /\ (c.startMonth # Missing => c.startMonth \in 1..Months)
         /\ c.endMonth \in Int /\ (c.endMonth # Missing => c.endMonth \in 1..Months)
         /\ c.startHour \in Int /\ (c.startHour # Missing => c.startHour \in 0..(Hours - 1))
         /\ c.endHour \in Int /\ (c.endHour # Missing => c.endHour \in 0..Hours)
         /\ c.tariff \in Int /\ c.price \in Int /\ c.month \in Int /\ c.hour \in Int
         /\ c.day \in DayTypes \cup {"all", "none"} /\ c.today \in DayTypes
         /\ c.delete \in BOOLEAN /\ c.merge \in BOOLEAN /\ c.clear \in BOOLEAN
<1>1. /\ Months \in Nat /\ Months >= 1 /\ Hours \in Nat /\ Hours >= 1
      /\ Tariffs \subseteq Nat
  BY UseAssumption
<1>2. /\ c.startMonth \in Int /\ (c.startMonth # Missing => c.startMonth \in 1..Months)
      /\ c.endMonth \in Int /\ (c.endMonth # Missing => c.endMonth \in 1..Months)
  BY <1>1 DEF UseOrders, Missing
<1>3. /\ c.startHour \in Int /\ (c.startHour # Missing => c.startHour \in 0..(Hours - 1))
      /\ c.endHour \in Int /\ (c.endHour # Missing => c.endHour \in 0..Hours)
  BY <1>1 DEF UseOrders, Missing
<1>4. c.tariff \in Int /\ c.price \in Int /\ c.month \in Int /\ c.hour \in Int
  <2>1. c.tariff \in Tariffs \cup {Missing} /\ c.price \in Nat \cup {Missing}
        /\ c.month \in Int /\ c.hour \in Int
    BY DEF UseOrders
  <2>2. Missing \in Int
    BY DEF Missing
  <2>3. Tariffs \cup {Missing} \subseteq Int /\ Nat \cup {Missing} \subseteq Int
    BY <2>2, <1>1
  <2> QED BY <2>1, <2>3
<1>5. /\ c.day \in DayTypes \cup {"all", "none"} /\ c.today \in DayTypes
      /\ c.delete \in BOOLEAN /\ c.merge \in BOOLEAN /\ c.clear \in BOOLEAN
  BY DEF UseOrders
<1> QED BY <1>1, <1>2, <1>3, <1>4, <1>5

LEMMA ChangesIs ==
  ASSUME NEW c \in UseOrders, NEW slots
  PROVE  /\ ChangesTariff(c, slots) \in BOOLEAN
         /\ ChangesTariff(c, slots) => c.tariff # Missing /\ ~Low(c)
BY DEF ChangesTariff

\* The slots of a list after the slot that was looked for.
HitWell(c, w, r, slot, change) ==
  /\ r \in SlotWalks
  /\ Found(w) => Found(r)
  /\ ~change => /\ r.found \subseteq w.found \cup {slot.type}
                /\ r.type = IF w.type = Missing THEN slot.type ELSE w.type

\* The hours are within the slot, and the slot goes on where the list ends.
Fits(w, slot) ==
  /\ w.delay = Missing /\ slot.start >= 0
  /\ Tiled(w.out, slot.start) /\ slot.start < slot.end /\ slot.end <= Hours
  /\ w.start # Missing => /\ slot.start <= w.start /\ w.start < slot.end
                          /\ w.end # Missing /\ w.start < w.end /\ w.end <= Hours

HitTiled(r, slot) ==
  /\ r.out # <<>> /\ r.end <= Hours
  /\ \/ r.delay = Missing /\ Tiled(r.out, slot.end)
     \/ r.delay # Missing /\ slot.end <= r.delay /\ r.delay <= Hours
        /\ Tiled(r.out, r.delay)

LEMMA SlotHitIs ==
  ASSUME NEW c \in UseOrders, NEW w \in SlotWalks, NEW slot \in TariffSlots,
         NEW old \in TariffSlots, NEW change \in BOOLEAN, slot.end = old.end
  PROVE  /\ HitWell(c, w, SlotHit(c, w, slot, old, change), slot, change)
         /\ Fits(w, slot) /\ slot.start = old.start
              => HitTiled(SlotHit(c, w, slot, old, change), slot)
<1> DEFINE none == w.start = Missing
           start == IF none THEN old.start ELSE w.start
           asked == IF none THEN old.end ELSE w.end
           until == [slot EXCEPT !.end = start]
           splitsBefore == ~none /\ start > old.start /\ asked # Missing
           before == IF splitsBefore THEN Joined(c, w, until) ELSE w
           splits == /\ asked # Missing
                     /\ asked < old.end
                     /\ (change /\ c.tariff # slot.type) \/ ~c.merge
           end == IF splits THEN asked ELSE Larger(asked, old.end)
           new == [slot EXCEPT !.start = start, !.end = end,
                               !.type = IF change THEN c.tariff ELSE @]
           mid == [before EXCEPT
                     !.start = start, !.end = end,
                     !.delay = IF asked > old.end THEN asked ELSE @,
                     !.type = IF ~change /\ @ = Missing THEN slot.type ELSE @]
           done == Joined(c, mid, new)
           from == [slot EXCEPT !.start = asked]
           r == IF splits
                THEN [done EXCEPT !.out = Append(@, from), !.found = @ \cup {slot.type}]
                ELSE done
<1>1. SlotHit(c, w, slot, old, change) = r
  BY DEF SlotHit
<1>2. /\ c.tariff \in Int /\ Hours \in Int
      /\ w.out \in Seq(TariffSlots) /\ w.found \in FiniteInts
      /\ w.delay \in Int /\ w.start \in Int /\ w.end \in Int /\ w.type \in Int
      /\ slot.start \in Int /\ slot.end \in Int /\ slot.type \in Int
      /\ old.start \in Int /\ old.end \in Int /\ old.type \in Int
  BY OrderFields, SlotWalkFields, SlotFields
<1>3. start \in Int /\ asked \in Int /\ end \in Int
      /\ (~splits => asked <= end /\ old.end <= end /\ end \in {asked, old.end})
      /\ (splits => end = asked /\ asked < old.end)
  BY <1>2 DEF Larger
<1>4. /\ none => start = old.start /\ asked = old.end /\ ~splits
      /\ ~none => start = w.start /\ asked = w.end
  BY <1>2
<1> HIDE DEF start, asked, end, splits
<1>5. /\ until \in TariffSlots /\ until.start = slot.start /\ until.end = start
      /\ until.type = slot.type
  BY <1>3, SlotEnd
<1>6. /\ from \in TariffSlots /\ from.start = asked /\ from.end = slot.end
      /\ from.type = slot.type
  BY <1>3, SlotEnd
<1>7. /\ new \in TariffSlots /\ new.start = start /\ new.end = end
      /\ new.type = IF change THEN c.tariff ELSE slot.type
  BY <1>2, <1>3 DEF TariffSlots
<1> HIDE DEF until, from, new
<1>8. /\ before \in SlotWalks /\ before.delay = w.delay /\ before.type = w.type
      /\ before.found \subseteq w.found \cup {slot.type}
      /\ Found(w) => Found(before)
  <2>1. CASE splitsBefore
    <3>1. JoinedWell(w, before, until)
      BY <2>1, <1>5, JoinedIs
    <3> QED BY <3>1, <1>5 DEF JoinedWell
  <2>2. CASE ~splitsBefore
    BY <2>2
  <2> QED BY <2>1, <2>2
<1>9. splitsBefore /\ Tiled(w.out, slot.start) /\ slot.start < start
        => Tiled(before.out, start)
  BY <1>5, JoinedIs DEF JoinedWell
<1>10. ~splitsBefore => before = w
  OBVIOUS
<1>11. splitsBefore <=> (~none /\ start > old.start /\ asked # Missing)
  OBVIOUS
<1> HIDE DEF before, splitsBefore
<1>12. before.out \in Seq(TariffSlots) /\ before.found \in FiniteInts
  BY <1>8, SlotWalkFields
<1>13. /\ mid \in SlotWalks /\ mid.out = before.out /\ mid.found = before.found
       /\ mid.end = end
       /\ mid.delay = IF asked > old.end THEN asked ELSE w.delay
       /\ mid.type = IF ~change /\ w.type = Missing THEN slot.type ELSE w.type
  BY <1>2, <1>3, <1>8, <1>12 DEF SlotWalks
<1> HIDE DEF mid
<1>14. JoinedWell(mid, done, new)
  BY <1>7, <1>13, JoinedIs
<1> HIDE DEF done
<1>15. /\ done \in SlotWalks /\ done.delay = mid.delay /\ done.end = end
       /\ done.type = mid.type /\ done.found \subseteq mid.found \cup {new.type}
       /\ Found(w) => Found(done)
       /\ Tiled(before.out, start) /\ start < end => Tiled(done.out, end) /\ done.out # <<>>
  BY <1>7, <1>8, <1>13, <1>14 DEF JoinedWell, Found
<1>16. done.out \in Seq(TariffSlots) /\ done.found \in FiniteInts
  BY <1>15, SlotWalkFields
<1>17. Append(done.out, from) \in Seq(TariffSlots) /\ done.found \cup {slot.type} \in FiniteInts
  BY <1>2, <1>6, <1>16, FoundMore
<1>18. /\ r \in SlotWalks /\ r.delay = done.delay /\ r.end = end /\ r.type = done.type
       /\ r.found \subseteq done.found \cup {slot.type} /\ done.found \subseteq r.found
       /\ r.out = IF splits THEN Append(done.out, from) ELSE done.out
       /\ splits => slot.type \in r.found
  BY <1>15, <1>17 DEF SlotWalks
<1> HIDE DEF r
<1>19. ASSUME Found(w) PROVE Found(r)
  <2>1. CASE ~splits
    BY <2>1, <1>15, <1>18, <1>19 DEF Found
  <2>2. CASE splits
    <3>1. Len(r.out) = Len(done.out) + 1 /\ Len(done.out) \in Nat
      BY <2>2, <1>6, <1>16, <1>18, AppendElements
    <3>2. ASSUME NEW i \in 1..Len(r.out) PROVE r.out[i].type \in r.found
      <4>1. r.out[i] = IF i = Len(done.out) + 1 THEN from ELSE done.out[i]
        BY <2>2, <3>1, <1>6, <1>16, <1>18, AppendElements
      <4> QED BY <4>1, <3>1, <2>2, <1>6, <1>15, <1>18, <1>19 DEF Found
    <3> QED BY <3>2 DEF Found
  <2> QED BY <2>1, <2>2
<1>20. HitWell(c, w, r, slot, change)
  <2>1. ASSUME ~change
        PROVE  /\ r.found \subseteq w.found \cup {slot.type}
               /\ r.type = IF w.type = Missing THEN slot.type ELSE w.type
    BY <2>1, <1>7, <1>8, <1>13, <1>15, <1>18
  <2> QED BY <2>1, <1>18, <1>19 DEF HitWell
<1>21. ASSUME Fits(w, slot), slot.start = old.start PROVE HitTiled(r, slot)
  <2>1. /\ w.delay = Missing /\ slot.start = old.start /\ slot.start >= 0
        /\ Tiled(w.out, slot.start) /\ slot.start < slot.end /\ slot.end <= Hours
        /\ w.start # Missing => /\ slot.start <= w.start /\ w.start < slot.end
                                /\ w.end # Missing /\ w.start < w.end /\ w.end <= Hours
    BY <1>21 DEF Fits
  <2>2. asked # Missing /\ start < asked /\ asked <= Hours /\ old.start <= start /\ start < old.end
    BY <2>1, <1>2, <1>3, <1>4 DEF Missing
  <2>3. start < end /\ end <= Hours
    BY <2>1, <2>2, <1>2, <1>3
  <2>4. Tiled(before.out, start)
    <3>1. CASE splitsBefore
      BY <3>1, <2>1, <1>2, <1>3, <1>9, <1>11
    <3>2. CASE ~splitsBefore
      <4>1. start = old.start
        BY <3>2, <2>2, <1>2, <1>3, <1>4, <1>11
      <4> QED BY <4>1, <3>2, <2>1, <1>10
    <3> QED BY <3>1, <3>2
  <2>5. Tiled(done.out, end) /\ done.out # <<>>
    BY <2>3, <2>4, <1>15
  <2>6. CASE splits
    <3>1. Tiled(r.out, slot.end) /\ r.out # <<>>
      <4>1. from.start = end /\ from.start < from.end
        BY <2>6, <1>3, <1>6
      <4> QED BY <4>1, <2>5, <2>6, <1>6, <1>16, <1>18, AppendTiled
    <3>2. r.delay = Missing
      BY <2>1, <2>6, <1>2, <1>3, <1>13, <1>15, <1>18
    <3> QED BY <3>1, <3>2, <2>3, <1>18 DEF HitTiled
  <2>7. CASE ~splits /\ asked > old.end
    <3>1. r.delay = asked /\ end = asked /\ r.out = done.out
      BY <2>7, <1>2, <1>3, <1>13, <1>15, <1>18
    <3> QED BY <3>1, <2>2, <2>3, <2>5, <2>7, <1>2, <1>3, <1>18 DEF HitTiled
  <2>8. CASE ~splits /\ ~(asked > old.end)
    <3>1. r.delay = Missing /\ end = old.end /\ r.out = done.out
      BY <2>1, <2>8, <1>2, <1>3, <1>13, <1>15, <1>18
    <3> QED BY <3>1, <2>3, <2>5, <2>8, <1>2, <1>3, <1>18 DEF HitTiled
  <2> QED BY <2>6, <2>7, <2>8
<1> QED BY <1>1, <1>20, <1>21

(***************************************************************************)
(* The turns of the walk over the slots, one by one.                       *)
(***************************************************************************)
TurnGone(c, old) == Scope(c) = "tariff" /\ old.type = c.tariff
TurnFirst(w) == w.delay # Missing /\ w.out = <<>> /\ w.delay < Hours
TurnOver(w, old) == w.delay # Missing /\ old.end <= w.delay
TurnHit(c, old) == old.start <= FindHour(c) /\ FindHour(c) < old.end
TurnSlot(w, old) ==
  IF w.delay = Missing THEN old
  ELSE [old EXCEPT !.start = IF w.out = <<>> THEN 0 ELSE w.delay]
Undelayed(w) == [w EXCEPT !.delay = Missing]
FirstSlot(w, old) ==
  [Undelayed(w) EXCEPT !.out = <<[old EXCEPT !.start = 0]>>,
                       !.found = @ \cup {old.type}]
SlotHitGone(w, old) ==
  LET to == Larger(Undelayed(w).end, old.end)
  IN [Gone(Undelayed(w), to) EXCEPT !.start = old.start, !.end = to]

LEMMA SlotTurnGone ==
  ASSUME NEW c, NEW w, NEW old, NEW change, TurnGone(c, old)
  PROVE  SlotTurn(c, w, old, change) = Gone(w, Larger(w.delay, old.end))
BY Zenon DEF SlotTurn, TurnGone

LEMMA SlotTurnFirst ==
  ASSUME NEW c, NEW w, NEW old, NEW change, ~TurnGone(c, old), TurnFirst(w)
  PROVE  SlotTurn(c, w, old, change) = FirstSlot(w, old)
<1>1. /\ ~(Scope(c) = "tariff" /\ old.type = c.tariff)
      /\ w.delay # Missing /\ w.out = <<>> /\ w.delay < Hours
  BY DEF TurnGone, TurnFirst
<1> QED BY <1>1, Zenon DEF SlotTurn, FirstSlot, Undelayed

LEMMA SlotTurnOver ==
  ASSUME NEW c, NEW w, NEW old, NEW change,
         ~TurnGone(c, old), ~TurnFirst(w), TurnOver(w, old)
  PROVE  SlotTurn(c, w, old, change) = w
<1>1. /\ ~(Scope(c) = "tariff" /\ old.type = c.tariff)
      /\ ~(w.delay # Missing /\ w.out = <<>> /\ w.delay < Hours)
      /\ w.delay # Missing /\ old.end <= w.delay
  BY DEF TurnGone, TurnFirst, TurnOver
<1> QED BY <1>1, Zenon DEF SlotTurn

LEMMA SlotTurnDeleted ==
  ASSUME NEW c, NEW w, NEW old, NEW change,
         ~TurnGone(c, old), ~TurnFirst(w), ~TurnOver(w, old), TurnHit(c, old),
         Scope(c) = "slot"
  PROVE  SlotTurn(c, w, old, change) = SlotHitGone(w, old)
<1>1. /\ ~(Scope(c) = "tariff" /\ old.type = c.tariff)
      /\ ~(w.delay # Missing /\ w.out = <<>> /\ w.delay < Hours)
      /\ ~(w.delay # Missing /\ old.end <= w.delay)
      /\ old.start <= FindHour(c) /\ FindHour(c) < old.end
  BY DEF TurnGone, TurnFirst, TurnOver, TurnHit
<1> QED BY <1>1, Zenon DEF SlotTurn, SlotHitGone, Undelayed

LEMMA SlotTurnHit ==
  ASSUME NEW c, NEW w, NEW old, NEW change,
         ~TurnGone(c, old), ~TurnFirst(w), ~TurnOver(w, old), TurnHit(c, old),
         Scope(c) # "slot"
  PROVE  SlotTurn(c, w, old, change)
           = SlotHit(c, Undelayed(w), TurnSlot(w, old), old, change)
<1>1. /\ ~(Scope(c) = "tariff" /\ old.type = c.tariff)
      /\ ~(w.delay # Missing /\ w.out = <<>> /\ w.delay < Hours)
      /\ ~(w.delay # Missing /\ old.end <= w.delay)
      /\ old.start <= FindHour(c) /\ FindHour(c) < old.end
  BY DEF TurnGone, TurnFirst, TurnOver, TurnHit
<1> QED BY <1>1, Zenon DEF SlotTurn, Undelayed, TurnSlot

LEMMA SlotTurnOther ==
  ASSUME NEW c, NEW w, NEW old, NEW change,
         ~TurnGone(c, old), ~TurnFirst(w), ~TurnOver(w, old), ~TurnHit(c, old)
  PROVE  SlotTurn(c, w, old, change) = Joined(c, Undelayed(w), TurnSlot(w, old))
<1>1. /\ ~(Scope(c) = "tariff" /\ old.type = c.tariff)
      /\ ~(w.delay # Missing /\ w.out = <<>> /\ w.delay < Hours)
      /\ ~(w.delay # Missing /\ old.end <= w.delay)
      /\ ~(old.start <= FindHour(c) /\ FindHour(c) < old.end)
  BY DEF TurnGone, TurnFirst, TurnOver, TurnHit
<1> QED BY <1>1, Zenon DEF SlotTurn, Undelayed, TurnSlot

LEMMA UndelayedIs ==
  ASSUME NEW w \in SlotWalks
  PROVE  /\ Undelayed(w) \in SlotWalks
         /\ Undelayed(w).out = w.out /\ Undelayed(w).found = w.found
         /\ Undelayed(w).start = w.start /\ Undelayed(w).end = w.end
         /\ Undelayed(w).type = w.type /\ Undelayed(w).delay = Missing
         /\ Found(w) => Found(Undelayed(w))
<1> DEFINE v == Undelayed(w)
<1>0. Missing \in Int
  BY DEF Missing
<1>1. /\ v \in SlotWalks
      /\ v.out = w.out /\ v.found = w.found
      /\ v.start = w.start /\ v.end = w.end
      /\ v.type = w.type /\ v.delay = Missing
  BY <1>0 DEF Undelayed, SlotWalks
<1> HIDE DEF v
<1>2. Found(w) => Found(v)
  BY <1>1 DEF Found
<1> QED BY <1>1, <1>2 DEF v

From(s, a) == [s EXCEPT !.start = a]

LEMMA FromIs ==
  ASSUME NEW s \in TariffSlots, NEW a \in Int
  PROVE  /\ From(s, a) \in TariffSlots
         /\ From(s, a).start = a
         /\ From(s, a).end = s.end
         /\ From(s, a).type = s.type
BY DEF From, TariffSlots

LEMMA TurnSlotIs ==
  ASSUME NEW w \in SlotWalks, NEW old \in TariffSlots
  PROVE  /\ TurnSlot(w, old) \in TariffSlots
         /\ TurnSlot(w, old).end = old.end /\ TurnSlot(w, old).type = old.type
         /\ TurnSlot(w, old).start = IF w.delay = Missing THEN old.start
                                     ELSE IF w.out = <<>> THEN 0 ELSE w.delay
<1>1. w.delay \in Int
  BY SlotWalkFields
<1>2. CASE w.delay = Missing
  BY <1>2 DEF TurnSlot
<1>3. CASE w.delay # Missing
  <2> DEFINE a == IF w.out = <<>> THEN 0 ELSE w.delay
  <2>1. TurnSlot(w, old) = From(old, a)
    BY <1>3 DEF TurnSlot, From
  <2>2. a \in Int
    BY <1>1
  <2>3. a = IF w.out = <<>> THEN 0 ELSE w.delay
    OBVIOUS
  <2> HIDE DEF a
  <2> QED BY <1>3, <2>1, <2>2, <2>3, FromIs
<1> QED BY <1>2, <1>3

LEMMA FirstSlotIs ==
  ASSUME NEW w \in SlotWalks, NEW old \in TariffSlots
  PROVE  LET r == FirstSlot(w, old)
         IN /\ r \in SlotWalks
            /\ r.start = w.start /\ r.end = w.end /\ r.type = w.type
            /\ r.delay = Missing /\ r.found = w.found \cup {old.type}
            /\ Found(r) /\ r.out # <<>>
            /\ 0 < old.end => Tiled(r.out, old.end)
<1> DEFINE r == FirstSlot(w, old)
           s == From(old, 0)
<1>1. s \in TariffSlots /\ s.start = 0 /\ s.end = old.end /\ s.type = old.type
  BY FromIs
<1> HIDE DEF s
<1>2. <<s>> \in Seq(TariffSlots) /\ Len(<<s>>) = 1 /\ <<s>>[1] = s /\ <<s>> # <<>>
  BY <1>1
<1>3. w.found \cup {old.type} \in FiniteInts
  BY SlotWalkFields, SlotFields, FoundMore
<1>4. r = [Undelayed(w) EXCEPT !.out = <<s>>, !.found = @ \cup {old.type}]
  BY DEF FirstSlot, s, From
<1>5. /\ r \in SlotWalks
      /\ r.start = w.start /\ r.end = w.end /\ r.type = w.type
      /\ r.delay = Missing /\ r.found = w.found \cup {old.type} /\ r.out = <<s>>
  <2> DEFINE v == Undelayed(w)
  <2>1. /\ v \in SlotWalks /\ v.out = w.out /\ v.found = w.found
        /\ v.start = w.start /\ v.end = w.end /\ v.type = w.type /\ v.delay = Missing
    BY UndelayedIs
  <2>2. r = [v EXCEPT !.out = <<s>>, !.found = @ \cup {old.type}]
    BY <1>4
  <2> HIDE DEF v, r
  <2> QED BY <1>2, <1>3, <2>1, <2>2 DEF SlotWalks
<1> HIDE DEF r
<1>6. Found(r)
  BY <1>1, <1>2, <1>5 DEF Found
<1>7. 0 < old.end => Tiled(r.out, old.end)
  BY <1>1, <1>2, <1>5 DEF Tiled
<1> QED BY <1>2, <1>5, <1>6, <1>7 DEF r

LEMMA SlotHitGoneIs ==
  ASSUME NEW w \in SlotWalks, NEW old \in TariffSlots
  PROVE  LET r == SlotHitGone(w, old)
             to == Larger(w.end, old.end)
         IN /\ r \in SlotWalks
            /\ r.delay = to /\ r.end = to /\ r.type = w.type /\ r.found = w.found
            /\ Found(w) => Found(r)
            /\ w.out = <<>> => r.out = <<>>
            /\ \A a \in Int : w.out # <<>> /\ Tiled(w.out, a) /\ a <= to
                               => Tiled(r.out, to)
<1> DEFINE v == Undelayed(w)
           to == Larger(w.end, old.end)
           g == Gone(v, to)
           r == SlotHitGone(w, old)
<1>1. /\ v \in SlotWalks /\ v.out = w.out /\ v.found = w.found /\ v.end = w.end
      /\ v.type = w.type /\ (Found(w) => Found(v))
  BY UndelayedIs
<1>2. r = [g EXCEPT !.start = old.start, !.end = to]
  BY <1>1 DEF SlotHitGone
<1> HIDE DEF v
<1>3. to \in Int /\ old.start \in Int
  BY SlotWalkFields, SlotFields DEF Larger
<1> HIDE DEF to
<1>4. GoneWell(v, g, to)
  BY <1>1, <1>3, GoneIs
<1> HIDE DEF g
<1>5. g \in SlotWalks
  BY <1>4 DEF GoneWell
<1>6. /\ r \in SlotWalks /\ r.delay = g.delay /\ r.end = to /\ r.type = g.type
      /\ r.found = g.found /\ r.out = g.out
  BY <1>2, <1>3, <1>5 DEF SlotWalks
<1> HIDE DEF r
<1>7. Found(g) => Found(r)
  BY <1>6 DEF Found
<1>8. /\ r.delay = to /\ r.type = w.type /\ r.found = w.found
      /\ Found(w) => Found(r)
      /\ w.out = <<>> => r.out = <<>>
  BY <1>1, <1>4, <1>6, <1>7 DEF GoneWell
<1>9. \A a \in Int : w.out # <<>> /\ Tiled(w.out, a) /\ a <= to => Tiled(r.out, to)
  BY <1>1, <1>4, <1>6 DEF GoneWell
<1> QED BY <1>6, <1>8, <1>9 DEF r, to

\* A tariff that is deleted is not among those found.
TariffGone(c, w) ==
  Scope(c) = "tariff" => c.tariff \notin w.found /\ w.type = c.tariff

\* What the walk keeps, whatever the slots are.
SlotKept(c, w) == w \in SlotWalks /\ Found(w) /\ TariffGone(c, w)

LEMMA ScopeIs ==
  ASSUME NEW c \in UseOrders
  PROVE  /\ Scope(c) = "tariff" => c.tariff # Missing /\ Low(c)
         /\ Scope(c) = "slot" => Low(c)
         /\ ~Low(c) /\ SlotGiven(c) => ~c.delete
         /\ Scope(c) # "slot" /\ SlotGiven(c) => ~c.delete
         /\ ~Low(c) /\ (c.startMonth # Missing \/ c.endMonth # Missing)
              => Scope(c) = "season" \/ ~c.delete
         /\ Scope(c) = "season" => ~Low(c)
         /\ Scope(c) = "none" => ~Low(c)
         /\ Scope(c) = "plan" => ~Low(c)
         /\ ~Low(c) => Scope(c) \in {"none", "plan", "season"}
<1>1. c.delete \in BOOLEAN
  BY OrderFields
<1>2. /\ ~c.delete => Scope(c) = "none"
      /\ c.delete /\ SlotGiven(c) => Scope(c) = "slot"
      /\ c.delete /\ ~SlotGiven(c) /\ c.tariff # Missing => Scope(c) = "tariff"
      /\ c.delete /\ ~SlotGiven(c) /\ c.tariff = Missing /\ c.day \in DayTypes
           => Scope(c) = "daytype"
      /\ c.delete /\ ~SlotGiven(c) /\ c.tariff = Missing /\ c.day \notin DayTypes
           /\ (c.startMonth # Missing \/ c.endMonth # Missing)
           => Scope(c) = "season"
      /\ c.delete /\ ~SlotGiven(c) /\ c.tariff = Missing /\ c.day \notin DayTypes
           /\ ~(c.startMonth # Missing \/ c.endMonth # Missing)
           => Scope(c) \in {"plan", "none"}
  BY DEF Scope
<1> QED BY <1>1, <1>2 DEF Low

LEMMA SlotTurnKept ==
  ASSUME NEW c \in UseOrders, NEW w, NEW old \in TariffSlots,
         NEW change \in BOOLEAN, change => ~Low(c), SlotKept(c, w)
  PROVE  SlotKept(c, SlotTurn(c, w, old, change))
<1> DEFINE r == SlotTurn(c, w, old, change)
           v == Undelayed(w)
           slot == TurnSlot(w, old)
<1> SUFFICES SlotKept(c, r)
  OBVIOUS
<1>1. w \in SlotWalks /\ Found(w) /\ TariffGone(c, w)
  BY DEF SlotKept
<1>2. /\ old.type \in Int /\ old.end \in Int /\ w.delay \in Int
      /\ Larger(w.delay, old.end) \in Int
  BY <1>1, SlotFields, SlotWalkFields DEF Larger
<1>3. /\ v \in SlotWalks /\ v.out = w.out /\ v.found = w.found /\ v.type = w.type
      /\ Found(v)
  BY <1>1, UndelayedIs
<1>4. slot \in TariffSlots /\ slot.type = old.type /\ slot.end = old.end
  BY <1>1, TurnSlotIs
<1>5. CASE TurnGone(c, old)
  <2>1. r = Gone(w, Larger(w.delay, old.end))
    BY <1>5, SlotTurnGone
  <2>2. GoneWell(w, r, Larger(w.delay, old.end))
    BY <1>1, <1>2, <2>1, GoneIs
  <2> HIDE DEF r
  <2> QED BY <1>1, <2>2 DEF GoneWell, SlotKept, TariffGone
<1>6. CASE ~TurnGone(c, old)
  <2>0. Scope(c) = "tariff" => c.tariff # Missing /\ Low(c)
    BY ScopeIs
  <2>1. Scope(c) = "tariff" => old.type # c.tariff /\ c.tariff # Missing /\ ~change
    BY <1>6, <2>0, Zenon DEF TurnGone
  <2>2. CASE TurnFirst(w)
    <3>1. r = FirstSlot(w, old)
      BY <1>6, <2>2, SlotTurnFirst
    <3>2. r \in SlotWalks /\ r.type = w.type /\ r.found = w.found \cup {old.type} /\ Found(r)
      BY <1>1, <3>1, FirstSlotIs
    <3> HIDE DEF r
    <3>3. Scope(c) = "tariff" => c.tariff \notin r.found /\ r.type = c.tariff
      BY <1>1, <2>1, <3>2 DEF TariffGone
    <3> QED BY <3>2, <3>3 DEF SlotKept, TariffGone
  <2>3. CASE ~TurnFirst(w) /\ TurnOver(w, old)
    BY <1>6, <2>3, SlotTurnOver
  <2>4. CASE ~TurnFirst(w) /\ ~TurnOver(w, old) /\ TurnHit(c, old) /\ Scope(c) = "slot"
    <3>1. r = SlotHitGone(w, old)
      BY <1>6, <2>4, SlotTurnDeleted
    <3>2. r \in SlotWalks /\ Found(r)
      BY <1>1, <3>1, SlotHitGoneIs
    <3> HIDE DEF r
    <3> QED BY <2>4, <3>2 DEF SlotKept, TariffGone
  <2>5. CASE ~TurnFirst(w) /\ ~TurnOver(w, old) /\ TurnHit(c, old) /\ Scope(c) # "slot"
    <3>1. r = SlotHit(c, v, slot, old, change)
      BY <1>6, <2>5, SlotTurnHit
    <3>2. HitWell(c, v, r, slot, change)
      BY <1>3, <1>4, <3>1, SlotHitIs
    <3> HIDE DEF r, v, slot
    <3>3. Scope(c) = "tariff" => c.tariff \notin r.found /\ r.type = c.tariff
      BY <1>1, <1>3, <1>4, <2>1, <3>2 DEF HitWell, TariffGone
    <3> QED BY <1>3, <3>2, <3>3 DEF HitWell, SlotKept, TariffGone
  <2>6. CASE ~TurnFirst(w) /\ ~TurnOver(w, old) /\ ~TurnHit(c, old)
    <3>1. r = Joined(c, v, slot)
      BY <1>6, <2>6, SlotTurnOther
    <3>2. JoinedWell(v, r, slot)
      BY <1>3, <1>4, <3>1, JoinedIs
    <3> HIDE DEF r, v, slot
    <3>3. Scope(c) = "tariff" => c.tariff \notin r.found /\ r.type = c.tariff
      BY <1>1, <1>3, <1>4, <2>1, <3>2 DEF JoinedWell, TariffGone
    <3> QED BY <1>3, <3>2, <3>3 DEF JoinedWell, SlotKept, TariffGone
  <2> QED BY <2>2, <2>3, <2>4, <2>5, <2>6
<1> QED BY <1>5, <1>6

(***************************************************************************)
(* Up to an hour h the slots of the walk follow each other: they end there *)
(* or, when slots after them are gone or were overwritten, at the hour     *)
(* that the next one is delayed to.                                        *)
(***************************************************************************)
SlotSound(c, w, h) ==
  /\ w.delay = Missing => Tiled(w.out, h)
  /\ w.delay # Missing => /\ h <= w.delay /\ w.delay <= Hours
                          /\ w.out = <<>> \/ Tiled(w.out, w.delay)
                          /\ h < w.delay => FindHour(c) < h
  /\ h <= FindHour(c) => w.start = c.startHour /\ w.end = c.endHour
  /\ w.end <= Hours
  /\ ~Low(c) /\ w.out = <<>> => h = 0 /\ w.delay = Missing

LEMMA FindHourIs ==
  ASSUME NEW c, GoodOrder(c)
  PROVE  /\ FindHour(c) \in 0..(Hours - 1) \/ (c.startHour = Missing /\ FindHour(c) = -1)
         /\ c.startHour # Missing => FindHour(c) = c.startHour
<1>1. c \in UseOrders /\ c.hour \in 0..(Hours - 1)
  BY DEF GoodOrder
<1>2. /\ c.startHour \in Int /\ (c.startHour # Missing => c.startHour \in 0..(Hours - 1))
      /\ c.endHour \in Int /\ (c.endHour # Missing => c.endHour \in 0..Hours)
      /\ Hours \in Nat
  BY <1>1, OrderFields
<1>3. CASE c.startHour # Missing
  BY <1>3, <1>2 DEF FindHour
<1>4. CASE c.startHour = Missing /\ c.endHour # Missing
  <2>1. FindHour(c) = c.endHour - 1
    BY <1>4 DEF FindHour
  <2> QED BY <2>1, <1>4, <1>2
<1>5. CASE c.startHour = Missing /\ c.endHour = Missing
  <2>1. FindHour(c) = c.hour
    BY <1>5 DEF FindHour
  <2> QED BY <2>1, <1>5, <1>1
<1> QED BY <1>3, <1>4, <1>5

LEMMA SlotTurnSound ==
  ASSUME NEW c, NEW w \in SlotWalks, NEW old \in TariffSlots,
         NEW change \in BOOLEAN, GoodOrder(c), ~OpenEnded(c),
         0 <= old.start, old.start < old.end, old.end <= Hours,
         SlotSound(c, w, old.start)
  PROVE  SlotSound(c, SlotTurn(c, w, old, change), old.end)
<1> DEFINE r == SlotTurn(c, w, old, change)
           v == Undelayed(w)
           slot == TurnSlot(w, old)
           h == old.start
           e == old.end
           f == FindHour(c)
<1> SUFFICES SlotSound(c, r, e)
  OBVIOUS
<1>1. c \in UseOrders
  BY DEF GoodOrder
<1>2. /\ h \in Int /\ e \in Int /\ f \in Int /\ Hours \in Int
      /\ w.out \in Seq(TariffSlots) /\ w.delay \in Int /\ w.start \in Int /\ w.end \in Int
      /\ 0 <= h /\ h < e /\ e <= Hours
      /\ c.startHour # Missing => f = c.startHour
  <2>1. f \in Int /\ (c.startHour # Missing => f = c.startHour) /\ Hours \in Int
    BY <1>1, FindHourIs, OrderFields
  <2>2. w.out \in Seq(TariffSlots) /\ w.delay \in Int /\ w.start \in Int /\ w.end \in Int
    BY SlotWalkFields
  <2>3. h \in Int /\ e \in Int
    BY SlotFields
  <2> QED BY <2>1, <2>2, <2>3
<1>3. /\ w.delay = Missing => Tiled(w.out, h)
      /\ w.delay # Missing => /\ h <= w.delay /\ w.delay <= Hours
                              /\ w.out = <<>> \/ Tiled(w.out, w.delay)
                              /\ h < w.delay => f < h
      /\ h <= f => w.start = c.startHour /\ w.end = c.endHour
      /\ w.end <= Hours
      /\ ~Low(c) /\ w.out = <<>> => h = 0 /\ w.delay = Missing
  BY DEF SlotSound
<1>4. /\ v \in SlotWalks /\ v.out = w.out /\ v.start = w.start /\ v.end = w.end
      /\ v.delay = Missing
  BY UndelayedIs
<1>5. /\ slot \in TariffSlots /\ slot.end = e
      /\ slot.start = IF w.delay = Missing THEN h
                      ELSE IF w.out = <<>> THEN 0 ELSE w.delay
  BY TurnSlotIs
<1> HIDE DEF v, slot, h, f, e
<1>6. CASE TurnGone(c, old)
  <2> DEFINE to == Larger(w.delay, e)
  <2>1. r = Gone(w, to)
    BY <1>6, SlotTurnGone DEF e
  <2>2. to \in Int /\ e <= to /\ w.delay <= to /\ to <= Hours /\ to \in {w.delay, e}
    BY <1>2, <1>3 DEF Larger, Missing
  <2> HIDE DEF to
  <2>3. GoneWell(w, r, to)
    BY <2>1, <2>2, GoneIs
  <2> HIDE DEF r
  <2>4. r.delay = to /\ r.start = w.start /\ r.end = w.end /\ (w.out = <<>> => r.out = <<>>)
    BY <2>3 DEF GoneWell
  <2>5. w.out # <<>> => Tiled(r.out, to)
    <3>1. CASE w.delay = Missing
      <4>1. h <= to /\ Tiled(w.out, h)
        BY <3>1, <2>2, <1>2, <1>3
      <4> QED BY <4>1, <2>3, <1>2 DEF GoneWell
    <3>2. CASE w.delay # Missing
      BY <3>2, <2>2, <2>3, <1>2, <1>3 DEF GoneWell
    <3> QED BY <3>1, <3>2
  <2>6. e < to => f < e
    BY <2>2, <1>2, <1>3 DEF Missing
  <2>7. Low(c)
    BY <1>1, <1>6, ScopeIs DEF TurnGone
  <2>8. e <= f => r.start = c.startHour /\ r.end = c.endHour
    BY <2>4, <1>2, <1>3
  <2>9. r.delay # Missing
    BY <2>2, <2>4, <1>2 DEF Missing
  <2> QED BY <2>2, <2>4, <2>5, <2>6, <2>7, <2>8, <2>9, <1>3 DEF SlotSound, f
<1>7. CASE ~TurnGone(c, old) /\ TurnFirst(w)
  <2>1. r = FirstSlot(w, old)
    BY <1>7, SlotTurnFirst
  <2>2. /\ r.start = w.start /\ r.end = w.end /\ r.delay = Missing /\ r.out # <<>>
        /\ 0 < e => Tiled(r.out, e)
    BY <2>1, FirstSlotIs DEF e
  <2> HIDE DEF r
  <2>3. e <= f => r.start = c.startHour /\ r.end = c.endHour
    BY <2>2, <1>2, <1>3
  <2> QED BY <2>2, <2>3, <1>2, <1>3 DEF SlotSound, f
<1>8. CASE ~TurnGone(c, old) /\ ~TurnFirst(w) /\ TurnOver(w, old)
  <2>1. r = w
    BY <1>8, SlotTurnOver
  <2>2. w.delay # Missing /\ e <= w.delay
    BY <1>8 DEF TurnOver, e
  <2> HIDE DEF r
  <2>3. e < w.delay => f < e
    BY <2>2, <1>2, <1>3
  <2>4. e <= f => w.start = c.startHour /\ w.end = c.endHour
    BY <1>2, <1>3
  <2>5. ~Low(c) => w.out # <<>>
    BY <2>2, <1>3
  <2> QED BY <2>1, <2>2, <2>3, <2>4, <2>5, <1>3 DEF SlotSound, f
<1>9. CASE ~TurnGone(c, old) /\ ~TurnFirst(w) /\ ~TurnOver(w, old)
  <2>1. w.delay # Missing => w.delay < e /\ w.out # <<>>
    <3>1. w.delay # Missing => ~(e <= w.delay)
      BY <1>9 DEF TurnOver, e
    <3>2. w.delay # Missing /\ w.out = <<>> => ~(w.delay < Hours)
      BY <1>9 DEF TurnFirst
    <3> QED BY <3>1, <3>2, <1>2
  <2>2. slot.start < e /\ Tiled(v.out, slot.start)
    BY <2>1, <1>2, <1>3, <1>4, <1>5
  <2>3. CASE TurnHit(c, old) /\ Scope(c) = "slot"
    <3> DEFINE to == Larger(w.end, e)
    <3>1. r = SlotHitGone(w, old)
      BY <1>9, <2>3, SlotTurnDeleted
    <3>2. to \in Int /\ e <= to /\ to <= Hours /\ to = Larger(w.end, old.end)
      BY <1>2, <1>3 DEF Larger, e
    <3> HIDE DEF to
    <3>3. /\ r.delay = to /\ r.end = to
          /\ w.out = <<>> => r.out = <<>>
          /\ \A a \in Int : w.out # <<>> /\ Tiled(w.out, a) /\ a <= to => Tiled(r.out, to)
      BY <3>1, <3>2, SlotHitGoneIs
    <3> HIDE DEF r
    <3>4. w.out # <<>> => Tiled(r.out, to)
      <4>1. slot.start \in Int /\ slot.start <= to
        BY <1>5, <2>2, <3>2, <1>2, SlotFields
      <4> QED BY <4>1, <3>3, <2>2, <1>4
    <3>5. f < e
      BY <2>3 DEF TurnHit, e, f
    <3>6. Low(c)
      BY <2>3, <1>1, ScopeIs
    <3>7. to # Missing
      BY <3>2, <1>2 DEF Missing
    <3>8. ~(e <= f)
      BY <3>5, <1>2
    <3> QED BY <3>2, <3>3, <3>4, <3>5, <3>6, <3>7, <3>8 DEF SlotSound, f
  <2>4. CASE TurnHit(c, old) /\ Scope(c) # "slot"
    <3>1. r = SlotHit(c, v, slot, old, change)
      BY <1>9, <2>4, SlotTurnHit DEF v, slot
    <3>2. h <= f /\ f < e
      BY <2>4 DEF TurnHit, e, f, h
    <3>3. slot.start = h
      BY <2>1, <3>2, <1>2, <1>3, <1>5
    <3>4. v.start = c.startHour /\ v.end = c.endHour
      BY <3>2, <1>3, <1>4
    <3>5. v.start # Missing => v.start = f /\ v.end # Missing /\ v.start < v.end
      <4> SUFFICES ASSUME c.startHour # Missing
                   PROVE  c.endHour # Missing /\ c.startHour < c.endHour
        BY <3>4, <1>2
      <4>1. ~c.delete
        BY <2>4, <1>1, ScopeIs DEF SlotGiven
      <4>2. c.endHour # Missing
        BY <4>1 DEF OpenEnded
      <4> QED BY <4>2 DEF GoodOrder
    <3>6. Fits(v, slot)
      BY <3>2, <3>3, <3>4, <3>5, <2>2, <1>2, <1>3, <1>4, <1>5 DEF Fits
    <3>7. HitTiled(r, slot)
      BY <3>1, <3>3, <3>6, <1>1, <1>4, <1>5, SlotHitIs DEF e, h
    <3> HIDE DEF r
    <3>8. ~(e <= f)
      BY <3>2, <1>2
    <3>9. f = FindHour(c)
      BY DEF f
    <3> QED BY <3>2, <3>7, <3>8, <3>9, <1>2, <1>5 DEF SlotSound, HitTiled
  <2>5. CASE ~TurnHit(c, old)
    <3>1. r = Joined(c, v, slot)
      BY <1>9, <2>5, SlotTurnOther DEF v, slot
    <3>2. JoinedWell(v, r, slot)
      BY <1>4, <1>5, <3>1, JoinedIs
    <3> HIDE DEF r
    <3>3. /\ r.delay = Missing /\ r.start = w.start /\ r.end = w.end
          /\ Tiled(r.out, e) /\ r.out # <<>>
      BY <3>2, <2>2, <1>4, <1>5 DEF JoinedWell
    <3>4. e <= f => r.start = c.startHour /\ r.end = c.endHour
      BY <3>3, <1>2, <1>3
    <3> QED BY <3>3, <3>4, <1>3 DEF SlotSound, f
  <2> QED BY <2>3, <2>4, <2>5
<1> QED BY <1>6, <1>7, <1>8, <1>9

\* Periods in order lie between the start of the first and the end of the last.
LEMMA Between ==
  ASSUME NEW n \in Nat \ {0}, NEW s \in [1..n -> Int], NEW e \in [1..n -> Int],
         \A i \in 1..n : s[i] <= e[i], \A i \in 2..n : e[i - 1] <= s[i]
  PROVE  \A i \in 1..n : s[1] <= s[i] /\ e[i] <= e[n]
<1>1. 0..(n - 1) \subseteq {i \in 0..(n - 1) : s[1] <= s[i + 1]}
  <2> DEFINE P == {i \in 0..(n - 1) : s[1] <= s[i + 1]}
  <2>1. 0 \in P
    OBVIOUS
  <2>2. ASSUME NEW i \in 1..(n - 1), i - 1 \in P PROVE i \in P
    <3>1. i \in 1..n /\ i + 1 \in 1..n /\ i + 1 \in 2..n /\ (i + 1) - 1 = i /\ (i - 1) + 1 = i
      OBVIOUS
    <3>2. s[1] <= s[i] /\ s[i] <= e[i] /\ e[i] <= s[i + 1]
      BY <2>2, <3>1
    <3>3. s[1] \in Int /\ s[i] \in Int /\ e[i] \in Int /\ s[i + 1] \in Int
      BY <3>1
    <3> QED BY <3>2, <3>3
  <2> HIDE DEF P
  <2>3. n - 1 \in Nat
    OBVIOUS
  <2>4. 0..(n - 1) \subseteq P
    BY <2>1, <2>2, <2>3, StepsKeep
  <2> QED BY <2>4 DEF P
<1>2. 0..(n - 1) \subseteq {i \in 0..(n - 1) : e[n - i] <= e[n]}
  <2> DEFINE P == {i \in 0..(n - 1) : e[n - i] <= e[n]}
  <2>1. 0 \in P
    OBVIOUS
  <2>2. ASSUME NEW i \in 1..(n - 1), i - 1 \in P PROVE i \in P
    <3> DEFINE k == n - i
    <3>1. k \in 1..n /\ k + 1 \in 1..n /\ k + 1 \in 2..n /\ (k + 1) - 1 = k /\ n - (i - 1) = k + 1
      OBVIOUS
    <3>2. e[k + 1] <= e[n] /\ s[k + 1] <= e[k + 1] /\ e[k] <= s[k + 1]
      BY <2>2, <3>1
    <3>3. e[n] \in Int /\ s[k + 1] \in Int /\ e[k + 1] \in Int /\ e[k] \in Int
      BY <3>1
    <3> QED BY <3>2, <3>3
  <2> HIDE DEF P
  <2>3. n - 1 \in Nat
    OBVIOUS
  <2>4. 0..(n - 1) \subseteq P
    BY <2>1, <2>2, <2>3, StepsKeep
  <2> QED BY <2>4 DEF P
<1>3. ASSUME NEW i \in 1..n PROVE s[1] <= s[i] /\ e[i] <= e[n]
  <2>1. i - 1 \in 0..(n - 1) /\ (i - 1) + 1 = i /\ n - i \in 0..(n - 1) /\ n - (n - i) = i
    OBVIOUS
  <2> QED BY <2>1, <1>1, <1>2
<1> QED BY <1>3

\* The slots of a day, each in order within the day.
LEMMA DayIs ==
  ASSUME NEW slots \in Seq(TariffSlots), CoversDay(slots)
  PROVE  /\ Len(slots) \in Nat \ {0}
         /\ \A i \in 1..Len(slots) : /\ slots[i] \in TariffSlots
                                     /\ 0 <= slots[i].start
                                     /\ slots[i].start < slots[i].end
                                     /\ slots[i].end <= Hours
<1> DEFINE n == Len(slots)
           s == [i \in 1..n |-> slots[i].start]
           e == [i \in 1..n |-> slots[i].end]
<1>1. n \in Nat \ {0}
  BY EmptySeq DEF CoversDay
<1>2. \A i \in 1..n : slots[i] \in TariffSlots
  BY ElementOfSeq
<1>3. \A i \in 1..n : slots[i].start \in Int /\ slots[i].end \in Int
  BY <1>2, SlotFields
<1>4. s \in [1..n -> Int] /\ e \in [1..n -> Int]
  BY <1>3
<1>5. \A i \in 1..n : s[i] <= e[i]
  BY <1>3 DEF CoversDay
<1>6. \A i \in 2..n : e[i - 1] <= s[i]
  <2> SUFFICES ASSUME NEW i \in 2..n PROVE e[i - 1] <= s[i]
    OBVIOUS
  <2>1. i \in 1..n /\ i - 1 \in 1..n /\ slots[i].start = slots[i - 1].end
    BY <1>1 DEF CoversDay
  <2> QED BY <2>1, <1>3
<1>7. s[1] = 0 /\ e[n] = Hours
  BY <1>1 DEF CoversDay
<1>8. \A i \in 1..n : s[i] = slots[i].start /\ e[i] = slots[i].end
  OBVIOUS
<1> HIDE DEF s, e
<1>9. \A i \in 1..n : s[1] <= s[i] /\ e[i] <= e[n]
  BY <1>1, <1>4, <1>5, <1>6, Between
<1> QED BY <1>1, <1>2, <1>7, <1>8, <1>9 DEF CoversDay

IsSlotTurns(turn, c, slots, change) ==
  turn = [i \in 0..Len(slots) |->
            IF i = 0 THEN SlotStart(c)
            ELSE SlotTurn(c, turn[i - 1], slots[i], change)]

LEMMA SlotStartKept ==
  ASSUME NEW c \in UseOrders
  PROVE  SlotKept(c, SlotStart(c))
<1> DEFINE w == SlotStart(c)
<1> SUFFICES SlotKept(c, w)
  OBVIOUS
<1>1. c.startHour \in Int /\ c.endHour \in Int /\ c.tariff \in Int /\ Missing \in Int
  BY OrderFields DEF Missing
<1>2. {} \in FiniteInts /\ <<>> \in Seq(TariffSlots) /\ Len(<<>>) = 0
  BY FS_EmptySet, EmptySeq DEF FiniteInts
<1>3. w \in SlotWalks /\ w.out = <<>> /\ w.found = {} /\ w.type = c.tariff
  BY <1>1, <1>2 DEF SlotStart, SlotWalks
<1> HIDE DEF w
<1>4. Found(w)
  BY <1>2, <1>3 DEF Found
<1>5. TariffGone(c, w)
  BY <1>3 DEF TariffGone
<1> QED BY <1>3, <1>4, <1>5 DEF SlotKept

\* The walk: its turns, and what they keep.
LEMMA SlotTurns ==
  ASSUME NEW c \in UseOrders, NEW slots \in Seq(TariffSlots)
  PROVE  \E turn : /\ SlotWalk(c, slots) = turn[Len(slots)]
                   /\ turn[0] = SlotStart(c)
                   /\ \A i \in 1..Len(slots) :
                        turn[i] = SlotTurn(c, turn[i - 1], slots[i], ChangesTariff(c, slots))
                   /\ \A i \in 0..Len(slots) : SlotKept(c, turn[i])
<1> DEFINE n == Len(slots)
           change == ChangesTariff(c, slots)
           W == {w \in SlotWalks : SlotKept(c, w)}
           F == [i \in 1..n |-> [w \in W |-> SlotTurn(c, w, slots[i], change)]]
           turn == CHOOSE turn : IsSlotTurns(turn, c, slots, change)
<1>1. n \in Nat /\ \A i \in 1..n : slots[i] \in TariffSlots
  BY LenProperties, ElementOfSeq
<1>2. change \in BOOLEAN /\ (change => ~Low(c))
  BY ChangesIs
<1>3. SlotWalk(c, slots) = turn[n]
  BY DEF SlotWalk, IsSlotTurns
<1> HIDE DEF change
<1>4. ASSUME NEW i \in 1..n, NEW w \in W PROVE SlotTurn(c, w, slots[i], change) \in W
  <2>1. SlotKept(c, SlotTurn(c, w, slots[i], change))
    BY <1>1, <1>2, SlotTurnKept
  <2> QED BY <2>1 DEF SlotKept
<1>5. SlotStart(c) \in W
  BY SlotStartKept DEF SlotKept
<1>6. F \in [1..n -> [W -> W]]
  BY <1>4
<1> HIDE DEF W
<1>7. PICK g \in [0..n -> W] : Steps(g, SlotStart(c), F, n)
  <2> HIDE DEF F
  <2> QED BY <1>1, <1>5, <1>6, StepsExist
<1>8. IsSlotTurns(g, c, slots, change)
  <2>1. g = [i \in 0..n |-> g[i]]
    OBVIOUS
  <2>2. ASSUME NEW i \in 0..n
        PROVE  g[i] = IF i = 0 THEN SlotStart(c)
                      ELSE SlotTurn(c, g[i - 1], slots[i], change)
    <3>1. CASE i = 0
      BY <3>1, <1>7 DEF Steps
    <3>2. CASE i # 0
      <4>1. i \in 1..n /\ i - 1 \in 0..n
        BY <3>2, <1>1
      <4>2. g[i - 1] \in W /\ g[i] = F[i][g[i - 1]]
        BY <4>1, <1>7 DEF Steps
      <4> QED BY <3>2, <4>1, <4>2
    <3> QED BY <3>1, <3>2
  <2> QED BY <2>1, <2>2 DEF IsSlotTurns
<1>9. IsSlotTurns(turn, c, slots, change)
  BY <1>8
<1> HIDE DEF turn
<1>10. /\ turn[0] = SlotStart(c)
       /\ \A i \in 1..n : turn[i] = SlotTurn(c, turn[i - 1], slots[i], change)
  <2>1. 0 \in 0..n /\ \A i \in 1..n : i \in 0..n /\ i # 0
    BY <1>1
  <2> QED BY <2>1, <1>9 DEF IsSlotTurns
<1>11. \A i \in 0..n : turn[i] \in W
  <2> DEFINE P == {i \in 0..n : turn[i] \in W}
  <2>1. 0 \in P
    BY <1>1, <1>5, <1>10
  <2>2. ASSUME NEW i \in 1..n, i - 1 \in P PROVE i \in P
    BY <2>2, <1>4, <1>10
  <2> HIDE DEF P
  <2>3. 0..n \subseteq P
    BY <2>1, <2>2, <1>1, StepsKeep
  <2> QED BY <2>3 DEF P
<1> QED BY <1>3, <1>10, <1>11 DEF W, change

LEMMA SlotWalkKept ==
  ASSUME NEW c \in UseOrders, NEW slots \in Seq(TariffSlots)
  PROVE  SlotKept(c, SlotWalk(c, slots))
<1>1. Len(slots) \in 0..Len(slots)
  BY LenProperties
<1> QED BY <1>1, SlotTurns

\* The slots that are left of a day cover it again.
LEMMA SlotWalkCovers ==
  ASSUME NEW c, NEW slots \in Seq(TariffSlots), GoodOrder(c), ~OpenEnded(c),
         CoversDay(slots)
  PROVE  LET w == SlotWalk(c, slots)
         IN /\ w.out = <<>> \/ CoversDay(w.out)
            /\ ~Low(c) => w.out # <<>>
<1> DEFINE w == SlotWalk(c, slots)
           n == Len(slots)
           h(i) == IF i = 0 THEN 0 ELSE slots[i].end
<1>1. c \in UseOrders
  BY DEF GoodOrder
<1>2. PICK turn : /\ w = turn[n]
                  /\ turn[0] = SlotStart(c)
                  /\ \A i \in 1..n :
                       turn[i] = SlotTurn(c, turn[i - 1], slots[i], ChangesTariff(c, slots))
                  /\ \A i \in 0..n : SlotKept(c, turn[i])
  BY <1>1, SlotTurns
<1>3. /\ n \in Nat \ {0}
      /\ \A i \in 1..n : /\ slots[i] \in TariffSlots
                         /\ 0 <= slots[i].start
                         /\ slots[i].start < slots[i].end
                         /\ slots[i].end <= Hours
  BY DayIs
<1> HIDE DEF w
<1>4. SlotSound(c, turn[0], 0)
  <2>1. /\ turn[0].out = <<>> /\ turn[0].delay = Missing
        /\ turn[0].start = c.startHour /\ turn[0].end = c.endHour
    BY <1>2 DEF SlotStart
  <2>2. Tiled(turn[0].out, 0)
    BY <2>1 DEF Tiled
  <2>3. c.endHour <= Hours
    BY <1>1, OrderFields DEF Missing
  <2> QED BY <2>1, <2>2, <2>3 DEF SlotSound
<1>5. ASSUME NEW i \in 1..n, SlotSound(c, turn[i - 1], h(i - 1))
      PROVE  SlotSound(c, turn[i], h(i))
  <2>1. h(i - 1) = slots[i].start
    <3>1. CASE i = 1
      BY <3>1 DEF CoversDay
    <3>2. CASE i # 1
      BY <3>2, <1>3 DEF CoversDay
    <3> QED BY <3>1, <3>2
  <2>2. turn[i - 1] \in SlotWalks
    <3>1. i - 1 \in 0..n
      BY <1>3
    <3> QED BY <3>1, <1>2 DEF SlotKept
  <2>3. ChangesTariff(c, slots) \in BOOLEAN
    BY <1>1, ChangesIs
  <2>4. SlotSound(c, turn[i - 1], slots[i].start)
    BY <1>5, <2>1
  <2>5. SlotSound(c, SlotTurn(c, turn[i - 1], slots[i], ChangesTariff(c, slots)), slots[i].end)
    BY <2>2, <2>3, <2>4, <1>3, SlotTurnSound
  <2> QED BY <2>5, <1>2
<1>6. 0..n \subseteq {i \in 0..n : SlotSound(c, turn[i], h(i))}
  <2> DEFINE P == {i \in 0..n : SlotSound(c, turn[i], h(i))}
  <2>1. 0 \in P
    BY <1>3, <1>4
  <2>2. ASSUME NEW i \in 1..n, i - 1 \in P PROVE i \in P
    BY <2>2, <1>5
  <2> HIDE DEF P
  <2>3. 0..n \subseteq P
    BY <2>1, <2>2, <1>3, StepsKeep
  <2> QED BY <2>3 DEF P
<1>7. SlotSound(c, w, Hours)
  <2>1. n \in 0..n /\ n # 0 /\ h(n) = Hours
    BY <1>3 DEF CoversDay
  <2> QED BY <2>1, <1>2, <1>6
<1>8. Hours \in Nat /\ Hours >= 1
  BY <1>1, OrderFields
<1>9. w.delay \in Int
  <2>1. n \in 0..n
    BY <1>3
  <2> QED BY <2>1, <1>2, SlotWalkFields DEF SlotKept
<1>10. w.out = <<>> \/ Tiled(w.out, Hours)
  <2>1. CASE w.delay = Missing
    BY <2>1, <1>7 DEF SlotSound
  <2>2. CASE w.delay # Missing
    <3>1. w.delay = Hours
      BY <2>2, <1>7, <1>8, <1>9 DEF SlotSound
    <3> QED BY <2>2, <3>1, <1>7 DEF SlotSound
  <2> QED BY <2>1, <2>2
<1>11. w.out = <<>> \/ CoversDay(w.out)
  BY <1>10 DEF Tiled, CoversDay
<1>12. ~Low(c) => w.out # <<>>
  BY <1>7, <1>8 DEF SlotSound
<1> QED BY <1>11, <1>12 DEF w

(***************************************************************************)
(* The prices.                                                             *)
(***************************************************************************)
\* How many of the types are not above one.
UpTo(types, t) == {u \in types : u <= t}

LEMMA UpToIs ==
  ASSUME NEW types \in FiniteInts, NEW t \in types
  PROVE  /\ IsFiniteSet(UpTo(types, t))
         /\ Cardinality(UpTo(types, t)) \in 1..Cardinality(types)
<1>1. IsFiniteSet(types) /\ types \subseteq Int
  BY DEF FiniteInts
<1>2. UpTo(types, t) \subseteq types /\ t \in UpTo(types, t)
  <2>1. t \in Int /\ t <= t
    BY <1>1
  <2> QED BY <2>1 DEF UpTo
<1>3. IsFiniteSet(UpTo(types, t)) /\ Cardinality(UpTo(types, t)) <= Cardinality(types)
  BY <1>1, <1>2, FS_Subset
<1>4. Cardinality(UpTo(types, t)) \in Nat /\ Cardinality(types) \in Nat
  BY <1>1, <1>3, FS_CardinalityType
<1>5. Cardinality(UpTo(types, t)) # 0
  BY <1>2, <1>3, FS_EmptySet
<1> QED BY <1>3, <1>4, <1>5

LEMMA UpToLess ==
  ASSUME NEW types \in FiniteInts, NEW t \in types, NEW u \in types, t < u
  PROVE  Cardinality(UpTo(types, t)) # Cardinality(UpTo(types, u))
<1>1. types \subseteq Int
  BY DEF FiniteInts
<1>2. UpTo(types, t) \subseteq UpTo(types, u) /\ u \in UpTo(types, u) /\ u \notin UpTo(types, t)
  <2>1. t \in Int /\ u \in Int /\ u <= u /\ ~(u <= t)
    BY <1>1
  <2>2. \A x \in Int : x <= t => x <= u
    BY <2>1
  <2> QED BY <2>1, <2>2, <1>1 DEF UpTo
<1>3. IsFiniteSet(UpTo(types, u))
  BY UpToIs
<1> QED BY <1>2, <1>3, FS_Subset

LEMMA AscendingIs ==
  ASSUME NEW types \in FiniteInts
  PROVE  /\ Cardinality(types) \in Nat
         /\ Ascending(types) \in [1..Cardinality(types) -> types]
         /\ \A i, j \in 1..Cardinality(types) :
              i # j => Ascending(types)[i] # Ascending(types)[j]
         /\ \A t \in types : \E i \in 1..Cardinality(types) : Ascending(types)[i] = t
<1> DEFINE n == Cardinality(types)
           rank == [t \in types |-> Cardinality(UpTo(types, t))]
           a == Ascending(types)
<1>1. n \in Nat /\ types \subseteq Int /\ IsFiniteSet(types)
  BY FS_CardinalityType DEF FiniteInts
<1>2. rank \in [types -> 1..n]
  BY UpToIs
<1>3. ASSUME NEW t \in types, NEW u \in types, rank[t] = rank[u] PROVE t = u
  <2>1. t \in Int /\ u \in Int
    BY <1>1
  <2>2. ~(t < u) /\ ~(u < t)
    BY <1>3, UpToLess
  <2> QED BY <2>1, <2>2
<1>4. IsFiniteSet(1..n) /\ Cardinality(1..n) = n
  BY <1>1, FS_Interval
<1>5. rank \in Surjection(types, 1..n)
  <2>1. rank \in Injection(types, 1..n)
    BY <1>2, <1>3 DEF Injection, IsInjective
  <2> QED BY <2>1, <1>4, FS_Injection
<1>6. \A i \in 1..n : \E t \in types : rank[t] = i
  BY <1>5 DEF Surjection
<1>7. a = [i \in 1..n |-> CHOOSE t \in types : Cardinality(UpTo(types, t)) = i]
  BY DEF Ascending, UpTo
<1>8. \A i \in 1..n : a[i] \in types /\ rank[a[i]] = i
  BY <1>6, <1>7
<1>9. a \in [1..n -> types]
  BY <1>7, <1>8
<1>10. \A i, j \in 1..n : i # j => a[i] # a[j]
  BY <1>8
<1>11. ASSUME NEW t \in types PROVE \E i \in 1..n : a[i] = t
  <2>1. rank[t] \in 1..n
    BY <1>2
  <2>2. a[rank[t]] \in types /\ rank[a[rank[t]]] = rank[t]
    BY <2>1, <1>8
  <2>3. a[rank[t]] = t
    BY <2>2, <1>3
  <2> QED BY <2>1, <2>3
<1> QED BY <1>1, <1>9, <1>10, <1>11

PriceWalks == [out : Seq(TariffPrices), default : Int]

\* One turn keeps the price of a type that was found.
PriceKept(r, w, old, found) ==
  /\ r \in PriceWalks
  /\ \/ r.out = w.out /\ old.type \notin found
     \/ \E x \in TariffPrices : x.type = old.type /\ r.out = Append(w.out, x)

LEMMA PriceTurnIs ==
  ASSUME NEW c \in UseOrders, NEW walked, SlotKept(c, walked),
         NEW w \in PriceWalks, NEW old \in TariffPrices
  PROVE  PriceKept(PriceTurn(c, walked.found, walked.type, w, old), w, old, walked.found)
<1> DEFINE type == walked.type
           found == walked.found
           gone == /\ c.clear
                   /\ (Scope(c) = "tariff" /\ old.type = type)
                      \/ old.type \notin found
           new == IF c.price # Missing /\ old.type = type
                  THEN [old EXCEPT !.price = c.price] ELSE old
           default == IF c.price # Missing \/ type = Missing \/ type = old.type
                      THEN w.default
                      ELSE IF type < old.type THEN Larger(w.default, new.price)
                      ELSE Smaller(w.default, new.price)
           r == PriceTurn(c, found, type, w, old)
<1> SUFFICES PriceKept(r, w, old, found)
  OBVIOUS
<1>1. r = IF gone THEN w ELSE [out |-> Append(w.out, new), default |-> default]
  BY DEF PriceTurn
<1>2. c.price \in Int /\ old.price \in Int /\ old.type \in Int
  BY OrderFields DEF TariffPrices
<1>3. new \in TariffPrices /\ new.type = old.type /\ new.price \in Int
  BY <1>2 DEF TariffPrices
<1>4. w.out \in Seq(TariffPrices) /\ w.default \in Int
  BY DEF PriceWalks
<1>5. default \in Int
  BY <1>3, <1>4 DEF Larger, Smaller
<1>6. gone => old.type \notin found
  BY DEF SlotKept, TariffGone
<1> HIDE DEF gone, new, default, r
<1>7. CASE gone
  BY <1>1, <1>6, <1>7 DEF PriceKept
<1>8. CASE ~gone
  <2>1. Append(w.out, new) \in Seq(TariffPrices)
    BY <1>3, <1>4, AppendElements
  <2>2. r = [out |-> Append(w.out, new), default |-> default]
    BY <1>1, <1>8
  <2>3. r \in PriceWalks /\ r.out = Append(w.out, new)
    BY <2>1, <2>2, <1>5 DEF PriceWalks
  <2> QED BY <1>3, <2>3 DEF PriceKept
<1> QED BY <1>7, <1>8

\* After i prices: the types kept are among these, without repetition if
\* these are, and those that were found are kept.
PriceSound(w, prices, i, found) ==
  /\ \A k \in 1..Len(w.out) : \E j \in 1..i : prices[j].type = w.out[k].type
  /\ \A j \in 1..i : prices[j].type \in found
       => \E k \in 1..Len(w.out) : w.out[k].type = prices[j].type
  /\ PricedOnce(prices) => PricedOnce(w.out)

LEMMA PriceTurnSound ==
  ASSUME NEW w \in PriceWalks, NEW r, NEW prices \in Seq(TariffPrices),
         NEW i \in 1..Len(prices), NEW found,
         PriceKept(r, w, prices[i], found), PriceSound(w, prices, i - 1, found)
  PROVE  PriceSound(r, prices, i, found)
<1>1. Len(prices) \in Nat /\ i \in Nat /\ i - 1 \in Nat /\ 1..(i - 1) \subseteq 1..i /\ i \in 1..i
      /\ 1..i = 1..(i - 1) \cup {i} /\ 1..i \subseteq 1..Len(prices)
  BY LenProperties
<1>2. w.out \in Seq(TariffPrices)
  BY DEF PriceWalks
<1>3. CASE r.out = w.out /\ prices[i].type \notin found
  BY <1>1, <1>3 DEF PriceSound
<1>4. ASSUME NEW x \in TariffPrices, x.type = prices[i].type, r.out = Append(w.out, x)
      PROVE  PriceSound(r, prices, i, found)
  <2> DEFINE m == Len(w.out)
  <2>1. /\ m \in Nat /\ Len(r.out) = m + 1 /\ r.out[m + 1] = x
        /\ \A k \in 1..m : r.out[k] = w.out[k]
    BY <1>2, <1>4, AppendElements
  <2>2. m + 1 \in 1..Len(r.out) /\ 1..m \subseteq 1..Len(r.out) /\ 1..Len(r.out) = 1..m \cup {m + 1}
    BY <2>1
  <2>3. ASSUME NEW k \in 1..Len(r.out) PROVE \E j \in 1..i : prices[j].type = r.out[k].type
    <3>1. CASE k = m + 1
      BY <3>1, <2>1, <1>1, <1>4
    <3>2. CASE k \in 1..m
      BY SMTT(30), <3>2, <2>1, <1>1 DEF PriceSound
    <3> QED BY <3>1, <3>2, <2>2
  <2>4. ASSUME NEW j \in 1..i, prices[j].type \in found
        PROVE  \E k \in 1..Len(r.out) : r.out[k].type = prices[j].type
    <3>1. CASE j = i
      BY <3>1, <2>1, <2>2, <1>4
    <3>2. CASE j \in 1..(i - 1)
      <4>1. PICK k \in 1..m : w.out[k].type = prices[j].type
        BY <3>2, <2>4 DEF PriceSound
      <4> QED BY <4>1, <2>1, <2>2
    <3> QED BY <3>1, <3>2, <1>1
  <2>5. ASSUME PricedOnce(prices), NEW k \in 1..Len(r.out), NEW l \in 1..Len(r.out), k # l
        PROVE  r.out[k].type # r.out[l].type
    <3>1. \A q \in 1..m : r.out[q].type # x.type
      <4> SUFFICES ASSUME NEW q \in 1..m PROVE r.out[q].type # x.type
        OBVIOUS
      <4>1. PICK j \in 1..(i - 1) : prices[j].type = w.out[q].type
        BY DEF PriceSound
      <4>2. j # i /\ j \in 1..Len(prices)
        BY <1>1
      <4>3. prices[j].type # prices[i].type
        BY <4>2, <2>5 DEF PricedOnce
      <4> QED BY <4>1, <4>3, <2>1, <1>4
    <3>2. CASE k \in 1..m /\ l \in 1..m
      <4>1. PricedOnce(w.out)
        BY <2>5 DEF PriceSound
      <4> QED BY <3>2, <4>1, <2>1, <2>5 DEF PricedOnce
    <3>3. CASE k \in 1..m /\ l = m + 1
      BY <3>1, <3>3, <2>1
    <3>4. CASE k = m + 1 /\ l \in 1..m
      BY <3>1, <3>4, <2>1
    <3> QED BY <3>2, <3>3, <3>4, <2>2, <2>5
  <2>6. PricedOnce(prices) => PricedOnce(r.out)
    BY <2>5 DEF PricedOnce
  <2> QED BY <2>3, <2>4, <2>6 DEF PriceSound
<1> QED BY <1>3, <1>4 DEF PriceKept

IsPriceTurns(turn, c, walked, prices, default) ==
  turn = [i \in 0..Len(prices) |->
            IF i = 0 THEN [out |-> <<>>, default |-> default]
            ELSE PriceTurn(c, walked.found, walked.type, turn[i - 1], prices[i])]

TypesOf(prices) == {prices[i].type : i \in 1..Len(prices)}

AddedPrices(c, missing, default) ==
  [i \in 1..Len(missing) |->
     [type |-> missing[i], price |-> IF c.price # Missing THEN c.price ELSE default]]

LEMMA PriceTurns ==
  ASSUME NEW c \in UseOrders, NEW walked, SlotKept(c, walked),
         NEW prices \in Seq(TariffPrices), NEW default \in Int
  PROVE  \E done \in PriceWalks :
           /\ PriceWalk(c, walked, prices, default)
                = [done EXCEPT !.out =
                     @ \o AddedPrices(c, Ascending(walked.found \ TypesOf(prices)),
                                      done.default)]
           /\ PriceSound(done, prices, Len(prices), walked.found)
<1> DEFINE n == Len(prices)
           W == PriceWalks
           F == [i \in 1..n |->
                   [w \in W |-> PriceTurn(c, walked.found, walked.type, w, prices[i])]]
           start == [out |-> <<>>, default |-> default]
           turn == CHOOSE turn : IsPriceTurns(turn, c, walked, prices, default)
<1>1. n \in Nat /\ \A i \in 1..n : prices[i] \in TariffPrices
  BY LenProperties, ElementOfSeq
<1>3. PriceWalk(c, walked, prices, default)
        = [turn[n] EXCEPT !.out =
             @ \o AddedPrices(c, Ascending(walked.found \ TypesOf(prices)),
                              turn[n].default)]
  BY DEF PriceWalk, IsPriceTurns, AddedPrices, TypesOf
<1>4. ASSUME NEW i \in 1..n, NEW w \in W
      PROVE  PriceKept(PriceTurn(c, walked.found, walked.type, w, prices[i]),
                       w, prices[i], walked.found)
  BY <1>1, PriceTurnIs
<1>5. start \in W /\ start.out = <<>>
  BY EmptySeq DEF PriceWalks
<1> HIDE DEF W, start
<1>6. F \in [1..n -> [W -> W]]
  <2>1. \A i \in 1..n, w \in W : PriceTurn(c, walked.found, walked.type, w, prices[i]) \in W
    BY <1>4 DEF PriceKept, W
  <2> QED BY <2>1
<1>7. PICK g \in [0..n -> W] : Steps(g, start, F, n)
  <2> HIDE DEF F
  <2> QED BY <1>1, <1>5, <1>6, StepsExist
<1>8. IsPriceTurns(g, c, walked, prices, default)
  <2>1. g = [i \in 0..n |-> g[i]]
    OBVIOUS
  <2>2. ASSUME NEW i \in 0..n
        PROVE  g[i] = IF i = 0 THEN start
                      ELSE PriceTurn(c, walked.found, walked.type, g[i - 1], prices[i])
    <3>1. CASE i = 0
      BY <3>1, <1>7 DEF Steps
    <3>2. CASE i # 0
      <4>1. i \in 1..n /\ i - 1 \in 0..n
        BY <3>2, <1>1
      <4>2. g[i - 1] \in W /\ g[i] = F[i][g[i - 1]]
        BY <4>1, <1>7 DEF Steps
      <4> QED BY <3>2, <4>1, <4>2
    <3> QED BY <3>1, <3>2
  <2> QED BY <2>1, <2>2 DEF IsPriceTurns, start
<1>9. IsPriceTurns(turn, c, walked, prices, default)
  BY <1>8
<1> HIDE DEF turn
<1>10. /\ turn[0] = start
       /\ \A i \in 1..n :
            turn[i] = PriceTurn(c, walked.found, walked.type, turn[i - 1], prices[i])
  <2>1. 0 \in 0..n /\ \A i \in 1..n : i \in 0..n /\ i # 0
    BY <1>1
  <2> QED BY <2>1, <1>9 DEF IsPriceTurns, start
<1>11. PriceSound(turn[0], prices, 0, walked.found)
  <2>1. Len(turn[0].out) = 0
    BY <1>5, <1>10, EmptySeq
  <2> QED BY <2>1 DEF PriceSound, PricedOnce
<1>12. \A i \in 0..n : turn[i] \in W /\ PriceSound(turn[i], prices, i, walked.found)
  <2> DEFINE P == {i \in 0..n : turn[i] \in W /\ PriceSound(turn[i], prices, i, walked.found)}
  <2>1. 0 \in P
    BY <1>1, <1>5, <1>10, <1>11
  <2>2. ASSUME NEW i \in 1..n, i - 1 \in P PROVE i \in P
    <3>1. turn[i - 1] \in W /\ PriceSound(turn[i - 1], prices, i - 1, walked.found)
      BY <2>2
    <3>2. PriceKept(turn[i], turn[i - 1], prices[i], walked.found)
      BY <3>1, <1>4, <1>10
    <3>3. PriceSound(turn[i], prices, i, walked.found)
      BY <3>1, <3>2, PriceTurnSound DEF W
    <3> QED BY <3>2, <3>3 DEF PriceKept, W
  <2> HIDE DEF P
  <2>3. 0..n \subseteq P
    BY <2>1, <2>2, <1>1, StepsKeep
  <2> QED BY <2>3 DEF P
<1>13. n \in 0..n
  BY <1>1
<1> QED BY <1>3, <1>12, <1>13 DEF W

LEMMA AddedPricesIs ==
  ASSUME NEW c \in UseOrders, NEW types \in FiniteInts, NEW default \in Int
  PROVE  LET a == AddedPrices(c, Ascending(types), default)
         IN /\ a \in Seq(TariffPrices)
            /\ \A i \in 1..Len(a) : a[i].type \in types
            /\ \A t \in types : \E i \in 1..Len(a) : a[i].type = t
            /\ PricedOnce(a)
<1> DEFINE m == Ascending(types)
           n == Cardinality(types)
           price == IF c.price # Missing THEN c.price ELSE default
           a == AddedPrices(c, Ascending(types), default)
<1>1. /\ n \in Nat /\ m \in [1..n -> types]
      /\ \A i, j \in 1..n : i # j => m[i] # m[j]
      /\ \A t \in types : \E i \in 1..n : m[i] = t
  BY AscendingIs
<1> HIDE DEF m, n
<1>2. Len(m) = n
  BY <1>1
<1>3. price \in Int /\ types \subseteq Int
  BY OrderFields DEF FiniteInts
<1>4. a = [i \in 1..n |-> [type |-> m[i], price |-> price]]
  BY <1>2 DEF AddedPrices, m
<1> HIDE DEF a, price
<1>5. \A i \in 1..n : [type |-> m[i], price |-> price] \in TariffPrices
  BY <1>1, <1>3 DEF TariffPrices
<1>6. a \in [1..n -> TariffPrices]
  BY <1>4, <1>5
<1>7. a \in Seq(TariffPrices) /\ Len(a) = n
  BY <1>1, <1>6, SeqDef
<1>8. \A i \in 1..n : a[i].type = m[i]
  BY <1>4
<1>9. PricedOnce(a)
  BY <1>1, <1>7, <1>8 DEF PricedOnce
<1>10. \A i \in 1..Len(a) : a[i].type \in types
  BY <1>1, <1>7, <1>8
<1>11. \A t \in types : \E i \in 1..Len(a) : a[i].type = t
  BY <1>1, <1>7, <1>8
<1> QED BY <1>7, <1>9, <1>10, <1>11 DEF a, m

\* No tariff gets two prices, and each tariff of the new slots has one.
LEMMA PriceWalkIs ==
  ASSUME NEW c \in UseOrders, NEW walked, SlotKept(c, walked),
         NEW prices \in Seq(TariffPrices), NEW default \in Int
  PROVE  LET p == PriceWalk(c, walked, prices, default)
         IN /\ p \in PriceWalks
            /\ PricedAll(walked.out, p.out)
            /\ PricedOnce(prices) => PricedOnce(p.out)
<1> DEFINE p == PriceWalk(c, walked, prices, default)
           found == walked.found
           types == found \ TypesOf(prices)
<1>1. PICK done \in PriceWalks :
        /\ p = [done EXCEPT !.out = @ \o AddedPrices(c, Ascending(types), done.default)]
        /\ PriceSound(done, prices, Len(prices), found)
  BY PriceTurns
<1> DEFINE add == AddedPrices(c, Ascending(types), done.default)
           m == Len(done.out)
           n == Len(add)
<1> HIDE DEF p
<1>2. /\ walked.found \in FiniteInts /\ Found(walked)
      /\ done.out \in Seq(TariffPrices) /\ done.default \in Int
  BY SlotWalkFields DEF SlotKept, PriceWalks
<1>3. types \in FiniteInts
  <2>1. types \subseteq found /\ IsFiniteSet(found) /\ found \subseteq Int
    BY <1>2 DEF FiniteInts
  <2>2. IsFiniteSet(types)
    BY <2>1, FS_Subset
  <2> QED BY <2>1, <2>2 DEF FiniteInts
<1>4. /\ add \in Seq(TariffPrices)
      /\ \A i \in 1..n : add[i].type \in types
      /\ \A t \in types : \E i \in 1..n : add[i].type = t
      /\ PricedOnce(add)
  BY <1>2, <1>3, AddedPricesIs
<1>5. p = [done EXCEPT !.out = @ \o add]
  BY <1>1
<1> HIDE DEF add
<1>6. /\ done.out \o add \in Seq(TariffPrices) /\ Len(done.out \o add) = m + n
      /\ \A i \in 1..(m + n) : (done.out \o add)[i] = IF i <= m THEN done.out[i] ELSE add[i - m]
  BY <1>2, <1>4, ConcatProperties
<1>7. p \in PriceWalks /\ p.out = done.out \o add
  BY <1>5, <1>6 DEF PriceWalks
<1> DEFINE out == done.out \o add
<1> HIDE DEF out
<1>8. /\ m \in Nat /\ n \in Nat /\ Len(out) = m + n
      /\ \A i \in 1..m : i \in 1..Len(out) /\ out[i] = done.out[i]
      /\ \A i \in 1..n : i + m \in 1..Len(out) /\ out[i + m] = add[i]
      /\ \A i \in 1..Len(out) : i \in 1..m \/ (i - m \in 1..n /\ i = (i - m) + m)
  <2>1. m \in Nat /\ n \in Nat /\ Len(out) = m + n
    BY <1>2, <1>4, <1>6, LenProperties DEF out
  <2>2. ASSUME NEW i \in 1..m PROVE i \in 1..Len(out) /\ out[i] = done.out[i]
    BY <2>1, <1>6 DEF out
  <2>3. ASSUME NEW i \in 1..n PROVE i + m \in 1..Len(out) /\ out[i + m] = add[i]
    <3>1. i + m \in 1..(m + n) /\ ~(i + m <= m) /\ (i + m) - m = i
      BY <2>1
    <3> QED BY <3>1, <2>1, <1>6 DEF out
  <2>4. ASSUME NEW i \in 1..Len(out)
        PROVE  i \in 1..m \/ (i - m \in 1..n /\ i = (i - m) + m)
    BY <2>1
  <2> QED BY <2>1, <2>2, <2>3, <2>4
<1>9. PricedAll(walked.out, out)
  <2> SUFFICES ASSUME NEW i \in 1..Len(walked.out)
               PROVE  \E j \in 1..Len(out) : out[j].type = walked.out[i].type
    BY DEF PricedAll
  <2>1. walked.out[i].type \in found
    BY <1>2 DEF Found
  <2>2. CASE walked.out[i].type \in types
    <3>1. PICK j \in 1..n : add[j].type = walked.out[i].type
      BY <2>2, <1>4
    <3>2. j + m \in 1..Len(out) /\ out[j + m] = add[j]
      BY <1>8
    <3> QED BY <3>1, <3>2
  <2>3. CASE walked.out[i].type \notin types
    <3>1. PICK j \in 1..Len(prices) : prices[j].type = walked.out[i].type
      BY <2>1, <2>3 DEF TypesOf
    <3>2. PICK k \in 1..m : done.out[k].type = prices[j].type
      BY <2>1, <3>1, <1>1 DEF PriceSound
    <3> QED BY <3>1, <3>2, <1>8
  <2> QED BY <2>2, <2>3
<1>10. ASSUME PricedOnce(prices) PROVE PricedOnce(out)
  <2>1. PricedOnce(done.out)
    BY <1>1, <1>10 DEF PriceSound
  <2>2. ASSUME NEW i \in 1..m, NEW j \in 1..n PROVE out[i].type # out[j + m].type
    <3>1. PICK k \in 1..Len(prices) : prices[k].type = done.out[i].type
      BY <1>1 DEF PriceSound
    <3>2. done.out[i].type \in TypesOf(prices)
      BY <3>1 DEF TypesOf
    <3>3. add[j].type \in types
      BY <1>4
    <3> QED BY <3>2, <3>3, <1>8
  <2> SUFFICES ASSUME NEW i \in 1..Len(out), NEW j \in 1..Len(out), i # j
               PROVE  out[i].type # out[j].type
    BY DEF PricedOnce
  <2>3. CASE i \in 1..m /\ j \in 1..m
    BY <2>3, <2>1, <1>8 DEF PricedOnce
  <2>4. CASE i \in 1..m /\ j \notin 1..m
    <3>1. j - m \in 1..n /\ j = (j - m) + m
      BY <2>4, <1>8
    <3> QED BY <3>1, <2>4, <2>2
  <2>5. CASE i \notin 1..m /\ j \in 1..m
    <3>1. i - m \in 1..n /\ i = (i - m) + m
      BY <2>5, <1>8
    <3>2. out[j].type # out[(i - m) + m].type
      BY <3>1, <2>5, <2>2
    <3> QED BY <3>1, <3>2
  <2>6. CASE i \notin 1..m /\ j \notin 1..m
    <3>1. i - m \in 1..n /\ j - m \in 1..n /\ i = (i - m) + m /\ j = (j - m) + m
      BY <2>6, <1>8
    <3>2. i - m # j - m
      BY <3>1
    <3>3. add[i - m].type # add[j - m].type
      BY <3>1, <3>2, <1>4 DEF PricedOnce
    <3> QED BY <3>1, <3>3, <1>8
  <2> QED BY <2>3, <2>4, <2>5, <2>6
<1> QED BY <1>7, <1>9, <1>10 DEF p, out

(***************************************************************************)
(* The day types of a season.                                              *)
(***************************************************************************)
DayWalks == [season : Seq(Seasons), same : BOOLEAN, default : Int]

DayFull(slots, price) ==
  CoversDay(slots) /\ PricedOnce(price) /\ PricedAll(slots, price)

DaysFull(s) == \A d \in DayTypes : DayFull(s.slots[d], s.price[d])

SameTrue(s) ==
  s.same => /\ s.slots["weekday"] = s.slots["weekend"]
            /\ s.price["weekday"] = s.price["weekend"]

SeasonFull(s) == DaysFull(s) /\ SameTrue(s)

WithDay(s, day, slots, price) ==
  [s EXCEPT !.slots[day] = slots, !.price[day] = price]

WithSame(s, same) == [s EXCEPT !.same = same]

LEMMA OtherIs ==
  ASSUME NEW day \in DayTypes
  PROVE  /\ Other(day) \in DayTypes /\ Other(day) # day
         /\ DayTypes = {day, Other(day)}
         /\ Other(Other(day)) = day
BY DEF DayTypes, Other

LEMMA SeasonFields ==
  ASSUME NEW s \in Seasons
  PROVE  /\ s.start \in Int /\ s.end \in Int /\ s.same \in BOOLEAN
         /\ \A d \in DayTypes : s.slots[d] \in Seq(TariffSlots) /\ s.price[d] \in Seq(TariffPrices)
BY DEF Seasons

\* A season with the slots and prices of a day type set.
LEMMA WithDayIs ==
  ASSUME NEW s \in Seasons, NEW day \in DayTypes,
         NEW slots \in Seq(TariffSlots), NEW price \in Seq(TariffPrices)
  PROVE  LET t == WithDay(s, day, slots, price)
         IN /\ t \in Seasons
            /\ t.start = s.start /\ t.end = s.end /\ t.same = s.same
            /\ t.slots[day] = slots /\ t.price[day] = price
            /\ t.slots[Other(day)] = s.slots[Other(day)]
            /\ t.price[Other(day)] = s.price[Other(day)]
<1> DEFINE t == WithDay(s, day, slots, price)
           A == [s.slots EXCEPT ![day] = slots]
           B == [s.price EXCEPT ![day] = price]
<1>1. s.slots \in [DayTypes -> Seq(TariffSlots)] /\ s.price \in [DayTypes -> Seq(TariffPrices)]
  BY DEF Seasons
<1>2. /\ A \in [DayTypes -> Seq(TariffSlots)] /\ B \in [DayTypes -> Seq(TariffPrices)]
      /\ A[day] = slots /\ B[day] = price
      /\ A[Other(day)] = s.slots[Other(day)] /\ B[Other(day)] = s.price[Other(day)]
  BY <1>1, OtherIs
<1>3. t = [s EXCEPT !.slots = A, !.price = B]
  BY DEF WithDay, Seasons
<1> HIDE DEF A, B
<1>4. /\ t \in Seasons /\ t.start = s.start /\ t.end = s.end /\ t.same = s.same
      /\ t.slots = A /\ t.price = B
  BY <1>2, <1>3 DEF Seasons
<1> HIDE DEF t
<1> QED BY <1>2, <1>4 DEF t

LEMMA CopiedIs ==
  ASSUME NEW s \in Seasons, NEW day \in DayTypes
  PROVE  LET t == Copied(s, day, Other(day))
         IN /\ t \in Seasons
            /\ t.start = s.start /\ t.end = s.end /\ t.same = s.same
            /\ \A d \in DayTypes : t.slots[d] = s.slots[day] /\ t.price[d] = s.price[day]
<1> DEFINE t == Copied(s, day, Other(day))
<1>1. t = WithDay(s, Other(day), s.slots[day], s.price[day])
  BY DEF Copied, WithDay
<1>2. Other(day) \in DayTypes /\ Other(Other(day)) = day /\ DayTypes = {day, Other(day)}
  BY OtherIs
<1>3. s.slots[day] \in Seq(TariffSlots) /\ s.price[day] \in Seq(TariffPrices)
  BY SeasonFields
<1> HIDE DEF t
<1>4. /\ t \in Seasons
      /\ t.start = s.start /\ t.end = s.end /\ t.same = s.same
      /\ t.slots[Other(day)] = s.slots[day] /\ t.price[Other(day)] = s.price[day]
      /\ t.slots[Other(Other(day))] = s.slots[Other(Other(day))]
      /\ t.price[Other(Other(day))] = s.price[Other(Other(day))]
  BY <1>1, <1>2, <1>3, WithDayIs
<1>5. \A d \in DayTypes : t.slots[d] = s.slots[day] /\ t.price[d] = s.price[day]
  BY <1>2, <1>4
<1> QED BY <1>4, <1>5 DEF t

LEMMA WithSameIs ==
  ASSUME NEW s \in Seasons, NEW same \in BOOLEAN
  PROVE  LET t == WithSame(s, same)
         IN /\ t \in Seasons /\ t.start = s.start /\ t.end = s.end /\ t.same = same
            /\ t.slots = s.slots /\ t.price = s.price
BY DEF WithSame, Seasons

\* What is left of a season: nothing, or one season with the same months.
Left(list, s) ==
  /\ list \in Seq(Seasons)
  /\ list # <<>> => Len(list) = 1 /\ list[1] \in Seasons
                    /\ list[1].start = s.start /\ list[1].end = s.end

LEMMA OneLeft ==
  ASSUME NEW s \in Seasons, NEW t \in Seasons, t.start = s.start, t.end = s.end
  PROVE  Left(<<t>>, s) /\ <<t>> # <<>> /\ <<t>>[1] = t
BY DEF Left

DayTurnWell(r, v, s) ==
  /\ r \in DayWalks /\ Left(r.season, s)
  /\ v.same = FALSE => r.season # <<>>

DayKeptWell(r, v, s, new, day, copy, isLast) ==
  /\ DayTurnWell(r, v, s) /\ r.season # <<>>
  /\ DaysFull(s) /\ DayFull(new.slots[day], new.price[day])
       /\ new.slots[Other(day)] = s.slots[Other(day)]
       /\ new.price[Other(day)] = s.price[Other(day)]
       /\ (v.same => copy = Other(day))
       => SeasonFull(r.season[1])
  /\ v.same = FALSE /\ isLast = FALSE => r.same = FALSE

LEMMA DayKeptIs ==
  ASSUME NEW v \in DayWalks, NEW s \in Seasons, NEW new \in Seasons,
         new.start = s.start, new.end = s.end,
         NEW day \in DayTypes, NEW copy \in {"none", Other(day)},
         NEW isLast \in BOOLEAN, NEW default \in Int
  PROVE  DayKeptWell(DayKept(v, new, day, copy, isLast, default),
                     v, s, new, day, copy, isLast)
<1> DEFINE equal == /\ copy = "none"
                    /\ isLast
                    /\ new.slots[day] = new.slots[Other(day)]
                    /\ new.price[day] = new.price[Other(day)]
           same == v.same \/ equal
           copied == IF copy = "none" THEN new ELSE Copied(new, day, copy)
           t == WithSame(copied, same)
           r == DayKept(v, new, day, copy, isLast, default)
<1>1. r = [season |-> <<t>>, same |-> same, default |-> default]
  BY DEF DayKept, WithSame
<1>2. v.same \in BOOLEAN
  BY DEF DayWalks
<1>3. same \in BOOLEAN /\ (same <=> (v.same \/ equal))
  BY <1>2
<1> HIDE DEF same
<1>4. "none" \notin DayTypes /\ Other(day) \in DayTypes /\ DayTypes = {day, Other(day)}
  BY OtherIs DEF DayTypes
<1>5. /\ copied \in Seasons /\ copied.start = s.start /\ copied.end = s.end
      /\ copy = "none" => copied = new
      /\ copy # "none" => \A d \in DayTypes : /\ copied.slots[d] = new.slots[day]
                                              /\ copied.price[d] = new.price[day]
  <2>1. CASE copy = "none"
    BY <2>1
  <2>2. CASE copy # "none"
    <3>1. copied = Copied(new, day, Other(day))
      BY <2>2
    <3> HIDE DEF copied
    <3> QED BY <2>2, <3>1, CopiedIs
  <2> QED BY <2>1, <2>2
<1> HIDE DEF copied
<1>6. /\ t \in Seasons /\ t.start = s.start /\ t.end = s.end /\ t.same = same
      /\ t.slots = copied.slots /\ t.price = copied.price
  BY <1>3, <1>5, WithSameIs
<1> HIDE DEF t
<1>7. Left(<<t>>, s) /\ <<t>> # <<>> /\ <<t>>[1] = t
  BY <1>6, OneLeft
<1>8. r \in DayWalks /\ r.season = <<t>> /\ r.same = same
  BY <1>1, <1>3, <1>7 DEF DayWalks, Left
<1> HIDE DEF r
<1>9. ASSUME DaysFull(s), DayFull(new.slots[day], new.price[day]),
             new.slots[Other(day)] = s.slots[Other(day)],
             new.price[Other(day)] = s.price[Other(day)],
             v.same => copy = Other(day)
      PROVE  SeasonFull(t)
  <2>1. DayFull(s.slots[Other(day)], s.price[Other(day)])
    BY <1>9, <1>4 DEF DaysFull
  <2>2. CASE copy = "none"
    <3>1. t.slots = new.slots /\ t.price = new.price /\ ~v.same
      BY <2>2, <1>4, <1>5, <1>6, <1>9
    <3>2. DaysFull(t)
      BY <3>1, <2>1, <1>4, <1>9 DEF DaysFull
    <3>3. SameTrue(t)
      <4> SUFFICES ASSUME t.same PROVE \A d \in DayTypes : t.slots[d] = t.slots[day]
                                                          /\ t.price[d] = t.price[day]
        BY DEF SameTrue, DayTypes
      <4>1. equal
        BY <3>1, <1>3, <1>6
      <4> QED BY <3>1, <4>1, <1>4
    <3> QED BY <3>2, <3>3 DEF SeasonFull
  <2>3. CASE copy # "none"
    <3>1. \A d \in DayTypes : t.slots[d] = new.slots[day] /\ t.price[d] = new.price[day]
      BY <2>3, <1>5, <1>6
    <3>2. DaysFull(t)
      BY <3>1, <1>9 DEF DaysFull
    <3>3. SameTrue(t)
      BY <3>1 DEF SameTrue, DayTypes
    <3> QED BY <3>2, <3>3 DEF SeasonFull
  <2> QED BY <2>2, <2>3
<1>10. v.same = FALSE /\ isLast = FALSE => r.same = FALSE
  BY <1>3, <1>8
<1>11. DayTurnWell(r, v, s) /\ r.season # <<>> /\ r.season[1] = t
  BY <1>7, <1>8 DEF DayTurnWell
<1>12. DayKeptWell(r, v, s, new, day, copy, isLast)
  BY <1>9, <1>10, <1>11 DEF DayKeptWell
<1> QED BY <1>12 DEF r

\* The call is one after which the plan stays complete.
Closed(c) == GoodOrder(c) /\ ~OpenEnded(c)

DayTurnFull(c, r, v, isLast) ==
  /\ r.season = <<>> \/ SeasonFull(r.season[1])
  /\ ~Low(c) => /\ r.season # <<>>
                /\ v.same = FALSE /\ isLast = FALSE => r.same = FALSE

LEMMA DayTurnIs ==
  ASSUME NEW c \in UseOrders, NEW v \in DayWalks, NEW s \in Seasons,
         s = v.season[1], NEW day \in DayTypes, NEW copy \in {"none", Other(day)},
         NEW isLast \in BOOLEAN
  PROVE  LET r == DayTurn(c, v, day, copy, isLast)
         IN /\ DayTurnWell(r, v, s)
            /\ Closed(c) /\ DaysFull(s) /\ (v.same => copy = Other(day))
                 => DayTurnFull(c, r, v, isLast)
<1> DEFINE walked == SlotWalk(c, s.slots[day])
           priced == PriceWalk(c, walked, s.price[day], v.default)
           new == WithDay(s, day, walked.out, priced.out)
           r == DayTurn(c, v, day, copy, isLast)
           kept == DayKept(v, new, day, copy, isLast, priced.default)
           other == WithSame(Copied(s, Other(day), day), TRUE)
<1>1. /\ s.slots[day] \in Seq(TariffSlots) /\ s.price[day] \in Seq(TariffPrices)
      /\ v.default \in Int /\ v.same \in BOOLEAN
  BY SeasonFields DEF DayWalks
<1>2. SlotKept(c, walked)
  BY <1>1, SlotWalkKept
<1>3. r = IF walked.out # <<>> THEN kept
          ELSE IF ~v.same
          THEN [v EXCEPT !.same = TRUE, !.season = <<other>>]
          ELSE [v EXCEPT !.season = <<>>]
  BY DEF DayTurn, DayWalked, DayPriced, WithDay, WithSame
<1>4. ASSUME Closed(c), DaysFull(s)
      PROVE  /\ walked.out = <<>> \/ CoversDay(walked.out)
             /\ ~Low(c) => walked.out # <<>>
             /\ PricedOnce(s.price[day])
  <2>1. CoversDay(s.slots[day]) /\ PricedOnce(s.price[day])
    BY <1>4 DEF DaysFull, DayFull
  <2>2. GoodOrder(c) /\ ~OpenEnded(c)
    BY <1>4 DEF Closed
  <2> QED BY <2>1, <2>2, <1>1, SlotWalkCovers
<1> HIDE DEF walked
<1>5. /\ priced \in PriceWalks /\ PricedAll(walked.out, priced.out)
      /\ PricedOnce(s.price[day]) => PricedOnce(priced.out)
  BY <1>1, <1>2, PriceWalkIs
<1> HIDE DEF priced
<1>6. /\ walked.out \in Seq(TariffSlots) /\ priced.out \in Seq(TariffPrices)
      /\ priced.default \in Int
  BY <1>2, <1>5, SlotWalkFields DEF SlotKept, PriceWalks
<1>7. /\ new \in Seasons
      /\ new.start = s.start /\ new.end = s.end
      /\ new.slots[day] = walked.out /\ new.price[day] = priced.out
      /\ new.slots[Other(day)] = s.slots[Other(day)]
      /\ new.price[Other(day)] = s.price[Other(day)]
  BY <1>6, WithDayIs
<1> HIDE DEF new
<1>8. CASE walked.out # <<>>
  <2>1. DayKeptWell(kept, v, s, new, day, copy, isLast)
    BY <1>6, <1>7, DayKeptIs
  <2> HIDE DEF kept
  <2>2. r = kept
    BY <1>3, <1>8
  <2> HIDE DEF r
  <2>3. ASSUME Closed(c), DaysFull(s), v.same => copy = Other(day)
        PROVE  DayTurnFull(c, kept, v, isLast)
    <3>1. DayFull(new.slots[day], new.price[day])
      BY <1>4, <1>5, <1>7, <1>8, <2>3 DEF DayFull
    <3> QED BY <3>1, <2>1, <2>3, <1>7 DEF DayTurnFull, DayKeptWell
  <2> QED BY <2>1, <2>2, <2>3 DEF r, DayKeptWell
<1>9. CASE walked.out = <<>> /\ v.same = FALSE
  <2>1. r = [v EXCEPT !.same = TRUE, !.season = <<other>>]
    BY <1>3, <1>9
  <2> DEFINE o == Other(day)
             t == Copied(s, o, Other(o))
  <2>2. o \in DayTypes /\ Other(o) = day
    BY OtherIs
  <2>3. /\ t \in Seasons /\ t.start = s.start /\ t.end = s.end
        /\ \A d \in DayTypes : t.slots[d] = s.slots[o] /\ t.price[d] = s.price[o]
    BY <2>2, CopiedIs
  <2>4. other = WithSame(t, TRUE)
    BY <2>2
  <2> HIDE DEF o, t, other
  <2>5. /\ other \in Seasons /\ other.start = s.start /\ other.end = s.end
        /\ other.slots = t.slots /\ other.price = t.price
    BY <2>3, <2>4, WithSameIs
  <2>6. Left(<<other>>, s) /\ <<other>> # <<>> /\ <<other>>[1] = other
    BY <2>5, OneLeft
  <2>7. r \in DayWalks /\ r.season = <<other>>
    BY <2>1, <2>6 DEF DayWalks, Left
  <2> HIDE DEF r
  <2>8. ASSUME Closed(c), DaysFull(s) PROVE DayTurnFull(c, r, v, isLast)
    <3>1. DaysFull(other)
      BY <2>2, <2>3, <2>5, <2>8 DEF DaysFull
    <3>2. SameTrue(other)
      BY <2>3, <2>5 DEF SameTrue, DayTypes
    <3>3. Low(c)
      BY <1>4, <1>9, <2>8
    <3> QED BY <3>1, <3>2, <3>3, <2>6, <2>7 DEF DayTurnFull, SeasonFull
  <2> QED BY <2>6, <2>7, <2>8 DEF r, DayTurnWell
<1>10. CASE walked.out = <<>> /\ v.same = TRUE
  <2>1. r = [v EXCEPT !.season = <<>>]
    BY <1>3, <1>10
  <2>2. <<>> \in Seq(Seasons)
    BY EmptySeq
  <2>3. r \in DayWalks /\ r.season = <<>>
    BY <2>1, <2>2 DEF DayWalks
  <2> HIDE DEF r
  <2>4. DayTurnWell(r, v, s)
    BY <1>10, <2>2, <2>3 DEF DayTurnWell, Left
  <2>5. ASSUME Closed(c), DaysFull(s) PROVE DayTurnFull(c, r, v, isLast)
    BY <1>4, <1>10, <2>3, <2>5 DEF DayTurnFull
  <2> QED BY <2>4, <2>5 DEF r
<1> QED BY <1>1, <1>8, <1>9, <1>10

\* The day types chosen.
DaysChosen(c, old, days) ==
  /\ days \in Seq(DayTypes) /\ Len(days) <= 2
  /\ Low(c) => Len(days) <= 1
  /\ ~Low(c) => Len(days) >= 1
  /\ \A i \in 1..Len(days) : CopyOf(c, old) \in {"none", Other(days[i])}
  /\ SameFirst(c, old) => \A i \in 1..Len(days) : CopyOf(c, old) = Other(days[i])
  /\ Len(days) = 2 => ~SameFirst(c, old)

LEMMA OneDay ==
  ASSUME NEW d \in DayTypes
  PROVE  <<d>> \in Seq(DayTypes) /\ Len(<<d>>) = 1 /\ \A i \in 1..1 : <<d>>[i] = d
OBVIOUS

LEMMA DaysOfIs ==
  ASSUME NEW c \in UseOrders, NEW w, NEW old \in Seasons,
         w.days \in Seq(DayTypes), Low(c) => Len(w.days) <= 1
  PROVE  /\ DaysChosen(c, old, DaysOf(c, w, old))
         /\ SameFirst(c, old) \in BOOLEAN
<1>1. old.same \in BOOLEAN /\ c.today \in DayTypes
      /\ c.day \in DayTypes \cup {"all", "none"} /\ Low(c) \in BOOLEAN
  BY SeasonFields, OrderFields DEF Low
<1>2. /\ "weekday" \in DayTypes /\ "weekend" \in DayTypes /\ "none" \notin DayTypes
      /\ "all" \notin DayTypes
      /\ Other("weekday") = "weekend" /\ Other("weekend") = "weekday"
      /\ \A d \in DayTypes : Other(d) \in DayTypes /\ Other(Other(d)) = d
  BY DEF DayTypes, Other
<1> DEFINE days == DaysOf(c, w, old)
           same == SameFirst(c, old)
           copy == CopyOf(c, old)
<1>10. same \in BOOLEAN
  BY <1>1 DEF SameFirst
<1>3. CASE Low(c) /\ old.same
  <2>1. same
    BY <1>3 DEF SameFirst
  <2>2. days = IF Scope(c) = "daytype" THEN <<>> ELSE <<"weekday">>
    BY <1>3, Zenon DEF DaysOf
  <2>3. copy = IF Scope(c) = "daytype" THEN "none" ELSE "weekend"
    BY <1>3 DEF CopyOf
  <2> HIDE DEF days, same, copy
  <2>4. CASE Scope(c) = "daytype"
    <3>1. days \in Seq(DayTypes) /\ Len(days) = 0
      BY <2>2, <2>4, EmptySeq
    <3> QED BY <3>1, <2>1, <1>3, <1>10 DEF DaysChosen, days, same
  <2>5. CASE Scope(c) # "daytype"
    <3>1. days \in Seq(DayTypes) /\ Len(days) = 1 /\ (\A i \in 1..1 : days[i] = "weekday")
      BY <2>2, <2>5, <1>2, OneDay
    <3>2. copy = "weekend"
      BY <2>3, <2>5
    <3> QED BY <3>1, <3>2, <2>1, <1>2, <1>3, <1>10 DEF DaysChosen, days, same, copy
  <2> QED BY <2>4, <2>5
<1>4. CASE Low(c) /\ ~old.same /\ c.day \in DayTypes
  <2>1. same
    BY <1>4 DEF SameFirst
  <2>2. days = <<Other(c.day)>>
    BY <1>4, Zenon DEF DaysOf
  <2>3. copy = c.day
    BY <1>4 DEF CopyOf
  <2> HIDE DEF days, same, copy
  <2>4. /\ days \in Seq(DayTypes) /\ Len(days) = 1
        /\ \A i \in 1..1 : days[i] = Other(c.day)
    BY <2>2, <1>2, <1>4, OneDay
  <2> QED BY <2>1, <2>3, <2>4, <1>10, <1>2, <1>4 DEF DaysChosen, days, same, copy
<1>5. CASE Low(c) /\ ~old.same /\ c.day \notin DayTypes
  <2>1. ~same
    BY <1>5 DEF SameFirst
  <2>2. days = w.days
    BY <1>5, Zenon DEF DaysOf
  <2>3. copy = "none"
    BY <1>5 DEF CopyOf
  <2>4. days \in Seq(DayTypes) /\ Len(days) <= 1 /\ Len(days) \in Nat
    BY <2>2, <1>5, LenProperties
  <2> HIDE DEF days, same, copy
  <2> QED BY <2>1, <2>3, <2>4, <1>10, <1>5 DEF DaysChosen, days, same, copy
<1>6. CASE ~Low(c) /\ c.day \in DayTypes
  <2>1. ~same
    BY <1>6, <1>1 DEF SameFirst
  <2>2. days = <<c.day>>
    BY <1>2, <1>6, Zenon DEF DaysOf
  <2>3. copy = "none"
    BY <1>6 DEF CopyOf
  <2> HIDE DEF days, same, copy
  <2>4. days \in Seq(DayTypes) /\ Len(days) = 1
    BY <2>2, <1>6, OneDay
  <2> QED BY <2>1, <2>3, <2>4, <1>10, <1>6 DEF DaysChosen, days, same, copy
<1>7. CASE ~Low(c) /\ c.day \notin DayTypes /\ old.same
  <2>1. same
    BY <1>7 DEF SameFirst
  <2>2. days = <<"weekday">>
    BY <1>7, Zenon DEF DaysOf
  <2>3. copy = "weekend"
    BY <1>7 DEF CopyOf
  <2> HIDE DEF days, same, copy
  <2>4. days \in Seq(DayTypes) /\ Len(days) = 1 /\ (\A i \in 1..1 : days[i] = "weekday")
    BY <2>2, <1>2, OneDay
  <2> QED BY <2>1, <2>3, <2>4, <1>10, <1>2, <1>7 DEF DaysChosen, days, same, copy
<1>8. CASE ~Low(c) /\ c.day = "all" /\ ~old.same
  <2>1. ~same
    BY <1>8, <1>1 DEF SameFirst
  <2>2. days = <<"weekday", "weekend">>
    BY <1>8, <1>2, Zenon DEF DaysOf
  <2>3. copy = "none"
    BY <1>8, <1>1 DEF CopyOf
  <2> HIDE DEF days, same, copy
  <2>4. days \in Seq(DayTypes) /\ Len(days) = 2
    BY <2>2, <1>2
  <2> QED BY <2>1, <2>3, <2>4, <1>10, <1>8 DEF DaysChosen, days, same, copy
<1>9. CASE ~Low(c) /\ c.day = "none" /\ ~old.same
  <2>1. ~same
    BY <1>9, <1>1 DEF SameFirst
  <2>2. days = <<c.today>>
    <3>1. c.day \notin DayTypes /\ c.day # "all"
      BY <1>9, <1>2
    <3> QED BY <3>1, <1>9, Zenon DEF DaysOf
  <2>3. copy = "none"
    BY <1>9, <1>1 DEF CopyOf
  <2> HIDE DEF days, same, copy
  <2>4. days \in Seq(DayTypes) /\ Len(days) = 1
    BY <2>2, <1>1, OneDay
  <2> QED BY <2>1, <2>3, <2>4, <1>10, <1>9 DEF DaysChosen, days, same, copy
<1> QED BY <1>1, <1>3, <1>4, <1>5, <1>6, <1>7, <1>8, <1>9, <1>10

IsDayTurns(turn, c, w, season, old, days) ==
  turn = [i \in 0..Len(days) |->
            IF i = 0
            THEN [season |-> <<season>>, same |-> SameFirst(c, old),
                  default |-> w.default]
            ELSE DayTurn(c, turn[i - 1], days[i], CopyOf(c, old), i = Len(days))]

\* The turns over at most two day types.
LEMMA DayTurns ==
  ASSUME NEW c, NEW w, NEW season, NEW old, NEW days, Len(days) \in 0..2,
         days = DaysOf(c, w, old)
  PROVE  \E turn : /\ DaysWalk(c, w, season, old) = turn[Len(days)]
                   /\ turn[0] = [season |-> <<season>>, same |-> SameFirst(c, old),
                                 default |-> w.default]
                   /\ \A i \in 1..Len(days) :
                        turn[i] = DayTurn(c, turn[i - 1], days[i], CopyOf(c, old),
                                          i = Len(days))
<1> DEFINE n == Len(days)
           start == [season |-> <<season>>, same |-> SameFirst(c, old),
                     default |-> w.default]
           one == DayTurn(c, start, days[1], CopyOf(c, old), 1 = n)
           two == DayTurn(c, one, days[2], CopyOf(c, old), 2 = n)
           g == [i \in 0..n |-> IF i = 0 THEN start ELSE IF i = 1 THEN one ELSE two]
           turn == CHOOSE turn : IsDayTurns(turn, c, w, season, old, days)
<1>1. DaysWalk(c, w, season, old) = turn[n]
  BY DEF DaysWalk, IsDayTurns
<1>2. \A i \in 0..n :
        g[i] = IF i = 0 THEN start
               ELSE DayTurn(c, g[i - 1], days[i], CopyOf(c, old), i = n)
  <2> SUFFICES ASSUME NEW i \in 0..n
               PROVE  g[i] = IF i = 0 THEN start
                             ELSE DayTurn(c, g[i - 1], days[i], CopyOf(c, old), i = n)
    OBVIOUS
  <2>1. CASE i = 0
    BY <2>1
  <2>2. CASE i = 1
    <3>1. g[i] = one /\ g[i - 1] = start
      BY <2>2
    <3> HIDE DEF g
    <3> QED BY <2>2, <3>1
  <2>3. CASE i = 2
    <3>1. g[i] = two /\ g[i - 1] = one
      BY <2>3
    <3> HIDE DEF g, one
    <3> QED BY <2>3, <3>1
  <2> QED BY <2>1, <2>2, <2>3
<1>3. g = [i \in 0..n |-> g[i]]
  OBVIOUS
<1> HIDE DEF g
<1>4. IsDayTurns(g, c, w, season, old, days)
  BY <1>2, <1>3 DEF IsDayTurns
<1>5. IsDayTurns(turn, c, w, season, old, days)
  BY <1>4
<1> HIDE DEF turn
<1>6. /\ turn[0] = start
      /\ \A i \in 1..n : turn[i] = DayTurn(c, turn[i - 1], days[i], CopyOf(c, old), i = n)
  <2>1. 0 \in 0..n /\ \A i \in 1..n : i \in 0..n /\ i # 0
    OBVIOUS
  <2> QED BY <2>1, <1>5 DEF IsDayTurns
<1> QED BY <1>1, <1>6

\* A season is gone, or it is left with the same months, whole again.
DaysWalkWell(c, r, season) ==
  /\ r \in DayWalks /\ Left(r.season, season)
  /\ Closed(c) /\ SeasonFull(season)
       => /\ r.season = <<>> \/ SeasonFull(r.season[1])
          /\ ~Low(c) => r.season # <<>>

LEMMA DaysWalkIs ==
  ASSUME NEW c \in UseOrders, NEW w, NEW old \in Seasons, NEW season \in Seasons,
         w.default \in Int, DaysChosen(c, old, DaysOf(c, w, old)),
         SameFirst(c, old) \in BOOLEAN
  PROVE  DaysWalkWell(c, DaysWalk(c, w, season, old), season)
<1> DEFINE days == DaysOf(c, w, old)
           n == Len(days)
           copy == CopyOf(c, old)
           r == DaysWalk(c, w, season, old)
           same == SameFirst(c, old)
           start == [season |-> <<season>>, same |-> same, default |-> w.default]
<1>1. /\ days \in Seq(DayTypes) /\ n \in 0..2 /\ n \in Nat
      /\ Low(c) => n <= 1
      /\ ~Low(c) => n >= 1
      /\ \A i \in 1..n : copy \in {"none", Other(days[i])}
      /\ same => \A i \in 1..n : copy = Other(days[i])
      /\ n = 2 => ~same
      /\ same \in BOOLEAN
  <2>1. DaysChosen(c, old, days)
    OBVIOUS
  <2>2. same \in BOOLEAN
    OBVIOUS
  <2> HIDE DEF days, same
  <2>3. days \in Seq(DayTypes) /\ Len(days) <= 2 /\ Len(days) \in Nat
    BY <2>1, LenProperties DEF DaysChosen
  <2>4. n \in 0..2 /\ n \in Nat
    <3>1. \A k \in Nat : k <= 2 => k \in 0..2
      OBVIOUS
    <3>2. n \in Nat /\ n <= 2
      BY <2>3
    <3> HIDE DEF n
    <3> QED BY <3>1, <3>2
  <2>5. /\ Low(c) => n <= 1
        /\ ~Low(c) => n >= 1
    BY <2>1 DEF DaysChosen
  <2>6. \A i \in 1..n : copy \in {"none", Other(days[i])}
    BY <2>1 DEF DaysChosen
  <2>7. same => \A i \in 1..n : copy = Other(days[i])
    BY <2>1 DEF DaysChosen, same
  <2>8. n = 2 => ~same
    BY <2>1 DEF DaysChosen, same
  <2> HIDE DEF n, copy
  <2> QED BY <2>2, <2>3, <2>4, <2>5, <2>6, <2>7, <2>8
<1>2. \A i \in 1..n : days[i] \in DayTypes
  BY <1>1, ElementOfSeq
<1>3. PICK turn : /\ r = turn[n]
                  /\ turn[0] = start
                  /\ \A i \in 1..n :
                       turn[i] = DayTurn(c, turn[i - 1], days[i], copy, i = n)
  BY <1>1, DayTurns
<1>4. start \in DayWalks /\ start.season = <<season>> /\ (start.same <=> same)
  BY <1>1 DEF DayWalks
<1>5. Left(<<season>>, season) /\ <<season>> # <<>> /\ <<season>>[1] = season
  BY OneLeft
<1> HIDE DEF days, copy, r, start, same
<1> SUFFICES DaysWalkWell(c, r, season)
  BY DEF r
<1>6. CASE n = 0
  BY <1>1, <1>3, <1>4, <1>5, <1>6 DEF DaysWalkWell
<1>7. ASSUME n >= 1
      PROVE  /\ DayTurnWell(turn[1], start, season)
             /\ Closed(c) /\ DaysFull(season) => DayTurnFull(c, turn[1], start, 1 = n)
  <2>1. 1 \in 1..n /\ 1 - 1 = 0 /\ (1 = n) \in BOOLEAN
    BY <1>1, <1>7
  <2>2. turn[1] = DayTurn(c, start, days[1], copy, 1 = n)
    BY <2>1, <1>3
  <2>3. days[1] \in DayTypes /\ copy \in {"none", Other(days[1])}
        /\ (start.same => copy = Other(days[1]))
    BY <2>1, <1>1, <1>2, <1>4
  <2> DEFINE last == 1 = n
  <2>4. last \in BOOLEAN /\ turn[1] = DayTurn(c, start, days[1], copy, last)
    BY <2>1, <2>2
  <2>5. season = start.season[1]
    BY <1>4, <1>5
  <2>6. /\ DayTurnWell(turn[1], start, season)
        /\ Closed(c) /\ DaysFull(season) => DayTurnFull(c, turn[1], start, last)
    <3> HIDE DEF last
    <3> QED BY <2>3, <2>4, <2>5, <1>4, DayTurnIs
  <2> QED BY <2>6
<1>8. CASE n = 1
  <2>1. r = turn[1] /\ n >= 1
    BY <1>3, <1>8
  <2> QED BY <2>1, <1>7 DEF DaysWalkWell, DayTurnWell, DayTurnFull, SeasonFull
<1>9. CASE n = 2
  <2>1. r = turn[2] /\ n >= 1 /\ ~Low(c) /\ start.same = FALSE
    <3>1. start.same \in BOOLEAN /\ ~start.same
      BY <1>1, <1>4, <1>9 DEF DayWalks
    <3> QED BY <3>1, <1>1, <1>3, <1>9
  <2> DEFINE v == turn[1]
             s == v.season[1]
  <2>2. v \in DayWalks /\ v.season # <<>> /\ Left(v.season, season)
    BY <2>1, <1>7 DEF DayTurnWell
  <2>3. s \in Seasons /\ s.start = season.start /\ s.end = season.end
    BY <2>2 DEF Left
  <2>4. 2 \in 1..n /\ 2 - 1 = 1
    BY <1>9
  <2> DEFINE last == 2 = n
  <2>5. last \in BOOLEAN /\ turn[2] = DayTurn(c, v, days[2], copy, last)
    BY <2>4, <1>3
  <2>6. days[2] \in DayTypes /\ copy \in {"none", Other(days[2])}
    BY <2>4, <1>1, <1>2
  <2> HIDE DEF v, last
  <2>7. /\ DayTurnWell(turn[2], v, s)
        /\ Closed(c) /\ DaysFull(s) /\ (v.same => copy = Other(days[2]))
             => DayTurnFull(c, turn[2], v, last)
    BY <2>2, <2>3, <2>5, <2>6, DayTurnIs
  <2>8. Left(turn[2].season, season) /\ turn[2] \in DayWalks
    BY <2>3, <2>7 DEF DayTurnWell, Left
  <2>9. ASSUME Closed(c), SeasonFull(season)
        PROVE  DayTurnFull(c, turn[2], v, last)
    <3>1. DayTurnFull(c, v, start, 1 = n)
      BY <2>1, <2>9, <1>7 DEF SeasonFull, v
    <3>2. (1 = n) = FALSE
      BY <1>9
    <3>3. DaysFull(s) /\ v.same = FALSE
      BY <3>1, <3>2, <2>1, <2>2 DEF DayTurnFull, SeasonFull
    <3> QED BY <3>3, <2>7, <2>9
  <2> QED BY <2>1, <2>8, <2>9 DEF DaysWalkWell, DayTurnFull
<1> QED BY <1>1, <1>6, <1>8, <1>9

(***************************************************************************)
(* The seasons.                                                            *)
(***************************************************************************)
\* Seasons that follow each other from the start of the year to a month.
YearTiled(list, end) ==
  IF list = <<>> THEN end = 0
  ELSE /\ list[1].start = 1
       /\ list[Len(list)].end = end
       /\ \A i \in 1..Len(list) : list[i].start <= list[i].end
       /\ \A i \in 2..Len(list) : list[i].start = list[i - 1].end + 1

SeasonsFull(list) == \A i \in 1..Len(list) : SeasonFull(list[i])

\* Seasons that differ in their months only.
Alike(s, t) == t.slots = s.slots /\ t.price = s.price /\ t.same = s.same

Until(s, b) == [s EXCEPT !.end = b]

LEMMA AlikeFull ==
  ASSUME NEW s, NEW t, Alike(s, t), SeasonFull(s)
  PROVE  SeasonFull(t)
BY DEF Alike, SeasonFull, DaysFull, SameTrue

LEMMA UntilIs ==
  ASSUME NEW s \in Seasons, NEW b \in Int
  PROVE  /\ Until(s, b) \in Seasons /\ Alike(s, Until(s, b))
         /\ Until(s, b).start = s.start /\ Until(s, b).end = b
BY DEF Until, Seasons, Alike

LEMMA SeasonFromIs ==
  ASSUME NEW s \in Seasons, NEW a \in Int
  PROVE  /\ From(s, a) \in Seasons /\ Alike(s, From(s, a))
         /\ From(s, a).start = a /\ From(s, a).end = s.end
BY DEF From, Seasons, Alike

LEMMA SeasonEndLast ==
  ASSUME NEW list \in Seq(Seasons), NEW b \in Int
  PROVE  /\ EndLast(list, b) \in Seq(Seasons)
         /\ Len(EndLast(list, b)) = Len(list)
         /\ SeasonsFull(list) => SeasonsFull(EndLast(list, b))
         /\ \A i \in 1..Len(list) :
              /\ EndLast(list, b)[i].start = list[i].start
              /\ EndLast(list, b)[i].end = IF i = Len(list) THEN b ELSE list[i].end
<1> DEFINE new == EndLast(list, b)
<1>1. Endable(Seasons, b)
  BY UntilIs DEF Endable, Until
<1>2. new \in Seq(Seasons) /\ EndMoved(new, list, b)
  BY <1>1, EndLastType
<1>3. /\ Len(new) = Len(list)
      /\ \A i \in 1..Len(list) :
           new[i] = IF i = Len(list) THEN Until(list[i], b) ELSE list[i]
  BY <1>2 DEF EndMoved, Until
<1> HIDE DEF new
<1>4. ASSUME NEW i \in 1..Len(list)
      PROVE  /\ new[i].start = list[i].start
             /\ new[i].end = IF i = Len(list) THEN b ELSE list[i].end
             /\ SeasonFull(list[i]) => SeasonFull(new[i])
  <2>1. list[i] \in Seasons
    BY ElementOfSeq
  <2>2. CASE i = Len(list)
    <3>1. new[i] = Until(list[i], b)
      BY <2>2, <1>3
    <3>2. /\ Alike(list[i], new[i]) /\ new[i].start = list[i].start /\ new[i].end = b
      BY SMTT(30), <2>1, <3>1, UntilIs
    <3> QED BY <2>2, <3>2, AlikeFull
  <2>3. CASE i # Len(list)
    BY <2>3, <1>3
  <2> QED BY <2>2, <2>3
<1>5. SeasonsFull(list) => SeasonsFull(new)
  BY <1>3, <1>4 DEF SeasonsFull
<1> QED BY <1>2, <1>3, <1>4, <1>5 DEF new

LEMMA SeasonEndLastTiled ==
  ASSUME NEW list \in Seq(Seasons), NEW a \in Int, NEW b \in Int,
         list # <<>>, YearTiled(list, a), a <= b
  PROVE  YearTiled(EndLast(list, b), b)
<1> DEFINE new == EndLast(list, b)
<1>1. Len(list) \in Nat /\ Len(list) >= 1
  BY EmptySeq, LenProperties
<1>2. /\ new \in Seq(Seasons) /\ Len(new) = Len(list)
      /\ \A i \in 1..Len(list) :
           /\ new[i].start = list[i].start
           /\ new[i].end = IF i = Len(list) THEN b ELSE list[i].end
  BY SeasonEndLast
<1> HIDE DEF new
<1>3. \A i \in 1..Len(list) : list[i].start \in Int /\ list[i].end \in Int
  BY ElementOfSeq, SeasonFields
<1>4. new # <<>>
  BY <1>1, <1>2, EmptySeq
<1>5. new[1].start = 1 /\ new[Len(new)].end = b
  BY <1>1, <1>2 DEF YearTiled
<1>6. ASSUME NEW i \in 1..Len(new) PROVE new[i].start <= new[i].end
  <2>1. CASE i = Len(list)
    BY <2>1, <1>1, <1>2, <1>3 DEF YearTiled
  <2>2. CASE i # Len(list)
    BY <2>2, <1>1, <1>2, <1>3 DEF YearTiled
  <2> QED BY <2>1, <2>2
<1>7. ASSUME NEW i \in 2..Len(new) PROVE new[i].start = new[i - 1].end + 1
  <2>1. i \in 1..Len(list) /\ i - 1 \in 1..Len(list) /\ i - 1 # Len(list) /\ i \in 2..Len(list)
    BY <1>1, <1>2
  <2> QED BY <2>1, <1>2 DEF YearTiled
<1> QED BY <1>4, <1>5, <1>6, <1>7 DEF YearTiled, new

\* A season more.
LEMMA SeasonAppend ==
  ASSUME NEW list \in Seq(Seasons), NEW s \in Seasons
  PROVE  /\ Append(list, s) \in Seq(Seasons)
         /\ Append(list, s) # <<>>
         /\ SeasonsFull(list) /\ SeasonFull(s) => SeasonsFull(Append(list, s))
         /\ YearTiled(list, s.start - 1) /\ s.start <= s.end
              => YearTiled(Append(list, s), s.end)
<1> DEFINE new == Append(list, s)
           n == Len(list)
<1>1. /\ new \in Seq(Seasons) /\ Len(new) = n + 1 /\ n \in Nat
      /\ \A i \in 1..(n + 1) : new[i] = IF i = n + 1 THEN s ELSE list[i]
  BY AppendElements
<1> HIDE DEF new
<1>2. new # <<>>
  BY <1>1, EmptySeq
<1>3. SeasonsFull(list) /\ SeasonFull(s) => SeasonsFull(new)
  <2> SUFFICES ASSUME SeasonsFull(list), SeasonFull(s), NEW i \in 1..Len(new)
               PROVE  SeasonFull(new[i])
    BY DEF SeasonsFull
  <2>1. CASE i = n + 1
    BY <2>1, <1>1
  <2>2. CASE i # n + 1
    <3>1. i \in 1..n /\ new[i] = list[i]
      BY <2>2, <1>1
    <3> QED BY <3>1 DEF SeasonsFull
  <2> QED BY <2>1, <2>2
<1>4. ASSUME YearTiled(list, s.start - 1), s.start <= s.end PROVE YearTiled(new, s.end)
  <2>0. s.start \in Int /\ s.end \in Int
    BY SeasonFields
  <2>1. CASE list = <<>>
    <3>1. n = 0 /\ s.start = 1
      BY <2>0, <2>1, <1>4, EmptySeq DEF YearTiled
    <3>2. Len(new) = 1 /\ new[1] = s
      BY <3>1, <1>1
    <3> QED BY <3>1, <3>2, <1>2, <1>4 DEF YearTiled
  <2>2. CASE list # <<>>
    <3>1. n >= 1
      BY <2>2, <1>1, EmptySeq
    <3>2. ASSUME NEW i \in 1..Len(new) PROVE new[i].start <= new[i].end
      BY <2>2, <1>1, <1>4 DEF YearTiled
    <3>3. ASSUME NEW i \in 2..Len(new) PROVE new[i].start = new[i - 1].end + 1
      <4>1. CASE i = n + 1
        <5>1. new[i] = s /\ new[i - 1] = list[n] /\ list[n].end = s.start - 1
          BY <4>1, <3>1, <2>2, <1>1, <1>4 DEF YearTiled
        <5> QED BY <5>1, <2>0
      <4>2. CASE i # n + 1
        <5>1. i \in 1..n /\ i - 1 \in 1..n /\ i \in 2..n /\ new[i] = list[i]
              /\ new[i - 1] = list[i - 1]
          BY <4>2, <1>1
        <5> QED BY <5>1, <2>2, <1>4 DEF YearTiled
      <4> QED BY <4>1, <4>2
    <3>4. new[1].start = 1 /\ new[Len(new)].end = s.end
      BY <3>1, <2>2, <1>1, <1>4 DEF YearTiled
    <3> QED BY <3>2, <3>3, <3>4, <1>2 DEF YearTiled
  <2> QED BY <2>1, <2>2
<1> QED BY <1>1, <1>2, <1>3, <1>4 DEF new

\* One more season or none, as the code adds a list.
LEMMA ConcatSeason ==
  ASSUME NEW list \in Seq(Seasons), NEW s \in Seasons
  PROVE  list \o <<s>> = Append(list, s) /\ list \o <<>> = list
<1>1. <<s>> \in Seq(Seasons) /\ Len(<<s>>) = 1 /\ <<s>>[1] = s /\ Len(list) \in Nat
  BY LenProperties
<1>2. /\ list \o <<s>> \in Seq(Seasons) /\ Len(list \o <<s>>) = Len(list) + 1
      /\ \A i \in 1..(Len(list) + 1) :
           (list \o <<s>>)[i] = IF i <= Len(list) THEN list[i] ELSE <<s>>[i - Len(list)]
  BY <1>1, ConcatProperties
<1>3. /\ Append(list, s) \in Seq(Seasons) /\ Len(Append(list, s)) = Len(list) + 1
      /\ \A i \in 1..(Len(list) + 1) :
           Append(list, s)[i] = IF i = Len(list) + 1 THEN s ELSE list[i]
  BY AppendElements
<1>4. ASSUME NEW i \in 1..(Len(list) + 1) PROVE (list \o <<s>>)[i] = Append(list, s)[i]
  <2>1. CASE i <= Len(list)
    <3>1. i # Len(list) + 1
      BY <2>1, <1>1
    <3> QED BY <2>1, <3>1, <1>2, <1>3
  <2>2. CASE ~(i <= Len(list))
    <3>1. i = Len(list) + 1 /\ i - Len(list) = 1
      BY <2>2, <1>1
    <3> QED BY <2>2, <3>1, <1>1, <1>2, <1>3
  <2> QED BY <2>1, <2>2
<1>5. list \o <<s>> = Append(list, s)
  BY <1>1, <1>2, <1>3, <1>4, SeqEqual
<1> QED BY <1>5, ConcatEmptySeq

SeasonWalks ==
  [out : Seq(Seasons), find : Int, start : Int, end : Int, delay : Int,
   days : Seq(DayTypes), default : Int, failed : BOOLEAN]

\* What the walk keeps, whatever the seasons are.
SeasonKept(c, w) == w \in SeasonWalks /\ (Low(c) => Len(w.days) <= 1)

(***************************************************************************)
(* Up to a month m the seasons of the walk follow each other, as the slots *)
(* do, and each is whole.                                                  *)
(***************************************************************************)
SeasonSound(c, w, m) ==
  ~w.failed =>
    /\ SeasonsFull(w.out)
    /\ w.delay = Missing => YearTiled(w.out, m)
    /\ w.delay # Missing => /\ m + 1 <= w.delay /\ w.delay <= Months + 1
                            /\ w.out = <<>> \/ YearTiled(w.out, w.delay - 1)
    /\ m < w.find /\ Low(c) => w.delay = Missing \/ w.delay = m + 1
    /\ m < w.find /\ ~Low(c) => /\ w.delay = Missing /\ w.find = FindMonth(c)
                                /\ w.start = c.startMonth /\ w.end = c.endMonth
    /\ w.end <= Months

LEMMA SeasonWalkFields ==
  ASSUME NEW w \in SeasonWalks
  PROVE  /\ w.out \in Seq(Seasons) /\ w.find \in Int /\ w.start \in Int /\ w.end \in Int
         /\ w.delay \in Int /\ w.days \in Seq(DayTypes) /\ w.default \in Int
         /\ w.failed \in BOOLEAN
BY DEF SeasonWalks

\* The season looked for goes on where the list ends.
SeasonFits(c, w, season, old) ==
  /\ w.delay = Missing
  /\ 1 <= old.start /\ old.start <= w.find /\ w.find <= old.end /\ old.end <= Months
  /\ SeasonsFull(w.out) /\ SeasonFull(season)
  /\ YearTiled(w.out, season.start - 1) /\ season.start <= old.end
  /\ w.end <= Months
  /\ ~Low(c) => /\ season.start = old.start /\ w.find = FindMonth(c)
                /\ w.start = c.startMonth /\ w.end = c.endMonth

\* What a turn makes of the season that is looked for.
SeasonDone(r, c, w, old, start, end, days, delay, out) ==
  /\ r \in SeasonWalks
  /\ r.start = start /\ r.end = end /\ r.days = days /\ r.delay = delay /\ r.out = out
  /\ r.find = NextMonth(c, w, old, end) /\ r.failed = w.failed

LEMMA SeasonDoneIs ==
  ASSUME NEW c \in UseOrders, NEW w \in SeasonWalks, NEW old \in Seasons,
         NEW start \in Int, NEW end \in Int, NEW days \in Seq(DayTypes),
         NEW out \in Seq(Seasons), NEW rest \in Seq(Seasons), NEW walked \in DayWalks,
         NEW season, Left(walked.season, season)
  PROVE  LET hit == [w EXCEPT !.start = start, !.end = end, !.days = days,
                              !.find = NextMonth(c, w, old, end)]
             r == SeasonWalked(c, hit, old, end, out, rest, walked)
         IN SeasonDone(r, c, w, old, start, end, days,
                       IF walked.season = <<>> THEN old.end + 1
                       ELSE IF ~Low(c) /\ end > old.end THEN end + 1 ELSE w.delay,
                       (IF walked.season = <<>> THEN EndLast(out, old.end)
                        ELSE Append(out, walked.season[1])) \o rest)
<1> DEFINE find == NextMonth(c, w, old, end)
           hit == [w EXCEPT !.start = start, !.end = end, !.days = days, !.find = find]
           r == SeasonWalked(c, hit, old, end, out, rest, walked)
           delay == IF walked.season = <<>> THEN old.end + 1
                    ELSE IF ~Low(c) /\ end > old.end THEN end + 1 ELSE w.delay
           list == IF walked.season = <<>> THEN EndLast(out, old.end)
                   ELSE Append(out, walked.season[1])
<1>1. w.find \in Int /\ w.delay \in Int /\ old.end \in Int /\ walked.default \in Int
  BY SeasonWalkFields, SeasonFields DEF DayWalks
<1>2. find \in Int /\ delay \in Int
  BY <1>1 DEF NextMonth
<1>3. list \in Seq(Seasons)
  BY <1>1, SeasonEndLast, AppendElements DEF Left
<1>4. list \o rest \in Seq(Seasons)
  BY <1>3, ConcatProperties
<1> HIDE DEF find, list
<1>5. /\ hit \in SeasonWalks /\ hit.start = start /\ hit.end = end /\ hit.days = days
      /\ hit.find = find /\ hit.delay = w.delay /\ hit.failed = w.failed
  BY <1>2 DEF SeasonWalks
<1>6. r = [hit EXCEPT !.default = walked.default, !.delay = delay, !.out = list \o rest]
  BY <1>5 DEF SeasonWalked, list
<1> HIDE DEF hit, delay, r
<1>7. /\ r \in SeasonWalks /\ r.start = start /\ r.end = end /\ r.days = days
      /\ r.find = find /\ r.delay = delay /\ r.failed = w.failed /\ r.out = list \o rest
  BY <1>1, <1>2, <1>4, <1>5, <1>6 DEF SeasonWalks
<1>8. SeasonDone(r, c, w, old, start, end, days, delay, list \o rest)
  BY <1>7 DEF SeasonDone, find
<1> QED BY <1>8 DEF r, hit, find, delay, list

LEMMA SplitBeforeIs ==
  ASSUME NEW w \in SeasonWalks, NEW season \in Seasons, NEW splits \in BOOLEAN
  PROVE  LET out == SplitBefore(w, season, splits)
         IN /\ out \in Seq(Seasons)
            /\ splits => out = Append(w.out, Until(season, w.start - 1))
            /\ ~splits => out = w.out
<1>1. w.out \in Seq(Seasons) /\ w.start - 1 \in Int
  BY SeasonWalkFields
<1>2. Until(season, w.start - 1) \in Seasons
  BY <1>1, UntilIs
<1>3. Append(w.out, Until(season, w.start - 1)) \in Seq(Seasons)
  BY <1>1, <1>2, AppendElements
<1> QED BY <1>1, <1>3 DEF SplitBefore, Until

LEMMA SeasonHitIs ==
  ASSUME NEW c \in UseOrders, NEW w, SeasonKept(c, w), w.delay = Missing,
         NEW season \in Seasons, NEW old \in Seasons,
         season.end = old.end, season.same = old.same
  PROVE  /\ SeasonKept(c, SeasonHit(c, w, season, old))
         /\ Closed(c) /\ Scope(c) # "season" /\ Scope(c) # "plan"
              /\ SeasonFits(c, w, season, old)
              => SeasonSound(c, SeasonHit(c, w, season, old), old.end)
<1> DEFINE low == Low(c)
           none == w.start = Missing
           start == IF low \/ none THEN old.start ELSE w.start
           asked == IF ~low /\ none THEN old.end ELSE w.end
           end == IF asked = Missing THEN old.end ELSE asked
           splits == ~low /\ ~none /\ start > old.start /\ asked # Missing
           out == SplitBefore(w, season, splits)
           new == IF low THEN season
                  ELSE [season EXCEPT !.start = start, !.end = end]
           days == DaysOf(c, w, old)
           rests == ~low /\ asked # Missing /\ asked < old.end
           rest == IF rests THEN <<From(season, asked + 1)>> ELSE <<>>
           hit == [w EXCEPT !.start = start, !.end = end, !.days = days,
                            !.find = NextMonth(c, w, old, end)]
           walked == DaysWalk(c, w, new, old)
           done == SeasonWalked(c, hit, old, end, out, rest, walked)
           r == SeasonHit(c, w, season, old)
           fails == low /\ ~old.same /\ days = <<>>
<1>1. r = IF fails THEN [w EXCEPT !.failed = TRUE] ELSE done
  BY DEF SeasonHit, From
<1>2. /\ w \in SeasonWalks /\ (low => Len(w.days) <= 1)
      /\ w.out \in Seq(Seasons) /\ w.find \in Int /\ w.start \in Int /\ w.end \in Int
      /\ w.days \in Seq(DayTypes) /\ w.default \in Int /\ w.failed \in BOOLEAN
      /\ season.start \in Int /\ season.end \in Int
      /\ old.start \in Int /\ old.end \in Int
      /\ low \in BOOLEAN
  BY SeasonWalkFields, SeasonFields DEF SeasonKept, Low
<1>3. start \in Int /\ asked \in Int /\ end \in Int /\ splits \in BOOLEAN /\ rests \in BOOLEAN
  BY <1>2
<1>4. DaysChosen(c, old, days) /\ SameFirst(c, old) \in BOOLEAN
  BY <1>2, DaysOfIs
<1>5. CASE fails
  <2>1. r = [w EXCEPT !.failed = TRUE]
    BY <1>1, <1>5
  <2>2. r \in SeasonWalks /\ r.days = w.days /\ r.failed = TRUE
    BY <2>1, <1>2 DEF SeasonWalks
  <2> HIDE DEF r
  <2>3. SeasonKept(c, r) /\ SeasonSound(c, r, old.end)
    BY <2>2, <1>2 DEF SeasonKept, SeasonSound
  <2> QED BY <2>3 DEF r
<1>6. CASE ~fails
  <2>1. r = done
    BY <1>1, <1>6
  <2>2. /\ start = IF low \/ none THEN old.start ELSE w.start
        /\ asked = IF ~low /\ none THEN old.end ELSE w.end
        /\ end = IF asked = Missing THEN old.end ELSE asked
        /\ splits <=> (~low /\ ~none /\ start > old.start /\ asked # Missing)
        /\ rests <=> (~low /\ asked # Missing /\ asked < old.end)
        /\ none <=> w.start = Missing
    OBVIOUS
  <2> HIDE DEF start, asked, end, splits, rests, none
  <2>3. /\ new \in Seasons /\ Alike(season, new)
        /\ low => new = season
        /\ ~low => new.start = start /\ new.end = end
    BY <1>3 DEF Seasons, Alike
  <2> HIDE DEF new
  <2>4. DaysWalkWell(c, walked, new)
    BY <2>3, <1>2, <1>4, DaysWalkIs
  <2> HIDE DEF walked
  <2>5. /\ out \in Seq(Seasons)
        /\ splits => out = Append(w.out, Until(season, w.start - 1))
        /\ ~splits => out = w.out
    BY <1>2, <1>3, SplitBeforeIs
  <2>6. asked + 1 \in Int
    BY <1>3
  <2>7. /\ From(season, asked + 1) \in Seasons /\ Alike(season, From(season, asked + 1))
        /\ From(season, asked + 1).start = asked + 1
        /\ From(season, asked + 1).end = old.end
    BY <2>6, SeasonFromIs
  <2>8. rest \in Seq(Seasons) /\ (~rests => rest = <<>>)
    BY <2>7, EmptySeq
  <2>9. days \in Seq(DayTypes) /\ (low => Len(days) <= 1)
    BY <1>4 DEF DaysChosen
  <2> HIDE DEF out, days, rest
  <2> DEFINE delay == IF walked.season = <<>> THEN old.end + 1
                      ELSE IF ~low /\ end > old.end THEN end + 1 ELSE w.delay
             most == IF walked.season = <<>> THEN EndLast(out, old.end)
                     ELSE Append(out, walked.season[1])
  <2>10. walked \in DayWalks /\ Left(walked.season, new)
    BY <2>4 DEF DaysWalkWell
  <2>11. SeasonDone(done, c, w, old, start, end, days, delay, most \o rest)
    BY <2>5, <2>8, <2>9, <2>10, <1>2, <1>3, SeasonDoneIs
  <2> HIDE DEF done, hit
  <2>12. SeasonKept(c, done)
    BY <2>9, <2>11 DEF SeasonKept, SeasonDone
  <2>13. ASSUME Closed(c), Scope(c) # "season", Scope(c) # "plan",
                SeasonFits(c, w, season, old)
         PROVE  SeasonSound(c, done, old.end)
    <3>1. /\ 1 <= old.start /\ old.start <= w.find /\ w.find <= old.end /\ old.end <= Months
          /\ SeasonsFull(w.out) /\ SeasonFull(season)
          /\ YearTiled(w.out, season.start - 1) /\ season.start <= old.end
          /\ w.end <= Months
          /\ ~low => /\ season.start = old.start /\ w.find = FindMonth(c)
                     /\ w.start = c.startMonth /\ w.end = c.endMonth
      BY <2>13 DEF SeasonFits
    <3>2. SeasonFull(new)
      BY <3>1, <2>3, AlikeFull
    <3>3. /\ walked.season = <<>> \/ SeasonFull(walked.season[1])
          /\ ~low => walked.season # <<>>
      BY <3>2, <2>4, <2>13 DEF DaysWalkWell
    <3>4. walked.season # <<>>
            => /\ walked.season[1] \in Seasons
               /\ walked.season[1].start = new.start /\ walked.season[1].end = new.end
      BY <2>10 DEF Left
    <3>5. /\ done.delay = delay /\ done.out = most \o rest /\ done.end = end
          /\ done.find = NextMonth(c, w, old, end)
      BY <2>11 DEF SeasonDone
    <3>6. Months \in Nat
      BY OrderFields
    <3>7. ~rests => most \o rest = most
      <4>1. most \in Seq(Seasons)
        BY <2>5, <2>10, <1>2, SeasonEndLast, AppendElements DEF Left
      <4> HIDE DEF most
      <4> QED BY <4>1, <2>8, ConcatEmptySeq
    <3>8. CASE low
      <4>1. ~splits /\ ~rests /\ out = w.out /\ new = season /\ end <= Months
        BY <3>1, <3>8, <2>2, <2>3, <2>5, <1>2, <1>3
      <4>2. done.find = IF end > old.end THEN old.end + 1 ELSE w.find
        BY <3>5, <3>8 DEF NextMonth
      <4>3. CASE walked.season = <<>>
        <5>1. done.delay = old.end + 1 /\ done.out = EndLast(w.out, old.end)
          BY <4>1, <4>3, <3>5, <3>7
        <5>2. done.delay # Missing
          BY <5>1, <3>1, <1>2 DEF Missing
        <5>3. SeasonsFull(done.out)
          BY <5>1, <3>1, <1>2, SeasonEndLast
        <5>4. done.out = <<>> \/ YearTiled(done.out, old.end)
          <6>1. CASE w.out = <<>>
            BY <5>1, <6>1 DEF EndLast
          <6>2. CASE w.out # <<>>
            <7>1. season.start - 1 \in Int /\ season.start - 1 <= old.end
              BY <3>1, <1>2
            <7> QED BY <5>1, <6>2, <7>1, <3>1, <1>2, SeasonEndLastTiled
          <6> QED BY <6>1, <6>2
        <5>5. done.delay - 1 = old.end
          BY <5>1, <1>2
        <5>6. old.end + 1 <= done.delay /\ done.delay <= Months + 1
          BY <5>1, <3>1, <3>6, <1>2
        <5> QED BY <5>1, <5>2, <5>3, <5>4, <5>5, <5>6, <4>1, <3>5, <3>8 DEF SeasonSound
      <4>4. CASE walked.season # <<>>
        <5> DEFINE t == walked.season[1]
        <5>1. t \in Seasons /\ t.start = season.start /\ t.end = old.end /\ SeasonFull(t)
          BY <4>1, <4>4, <3>3, <3>4
        <5>2. done.delay = Missing /\ done.out = Append(w.out, t)
          BY <4>1, <4>4, <3>5, <3>7, <3>8
        <5> HIDE DEF t
        <5>3. SeasonsFull(done.out) /\ YearTiled(done.out, old.end)
          BY <5>1, <5>2, <3>1, <1>2, SeasonAppend
        <5> QED BY <5>2, <5>3, <4>1, <3>5, <3>8 DEF SeasonSound
      <4> QED BY <4>3, <4>4
    <3>9. CASE ~low
      <4> DEFINE t == walked.season[1]
      <4>1. /\ t \in Seasons /\ t.start = start /\ t.end = end /\ SeasonFull(t)
            /\ done.out = Append(out, t) \o rest
            /\ done.delay = IF end > old.end THEN end + 1 ELSE w.delay
            /\ walked.season # <<>>
        BY <3>3, <3>4, <3>5, <3>9, <2>3
      <4> HIDE DEF t
      <4>2. done.find = w.find /\ ~(old.end < done.find)
        BY <3>1, <3>5, <3>9, <1>2 DEF NextMonth
      <4>3. CASE none
        <5>1. /\ start = old.start /\ end = old.end /\ ~splits /\ ~rests /\ out = w.out
          BY <4>3, <3>1, <3>9, <2>2, <2>5, <1>2, <1>3 DEF Missing
        <5>2. done.out = Append(w.out, t) /\ done.delay = Missing
          <6>1. ~(end > old.end)
            BY <5>1, <1>2
          <6>2. Append(w.out, t) \in Seq(Seasons) /\ rest = <<>>
            BY <5>1, <4>1, <2>8, <1>2, AppendElements
          <6> QED BY <5>1, <6>1, <6>2, <4>1, ConcatEmptySeq
        <5>3. SeasonsFull(done.out) /\ YearTiled(done.out, old.end)
          <6>1. YearTiled(w.out, t.start - 1) /\ t.start <= t.end /\ t.end = old.end
            BY <5>1, <4>1, <3>1, <3>9, <1>2
          <6> QED BY <5>2, <6>1, <4>1, <3>1, <1>2, SeasonAppend
        <5> QED BY <5>1, <5>2, <5>3, <4>2, <3>1, <3>5 DEF SeasonSound
      <4>4. CASE ~none
        <5>1. start = w.start /\ asked = w.end /\ start = c.startMonth /\ asked = c.endMonth
              /\ c.startMonth # Missing
          BY <4>4, <3>1, <3>9, <2>2
        <5>2. asked # Missing /\ start <= asked /\ asked <= Months /\ end = asked
              /\ start = w.find
          <6>1. ~c.delete
            BY <5>1, <3>9, <2>13, ScopeIs
          <6>2. c.endMonth # Missing
            BY <5>1, <6>1, <2>13 DEF Closed, OpenEnded
          <6>3. start <= asked
            BY <5>1, <6>2, <2>13 DEF Closed, GoodOrder
          <6>4. FindMonth(c) = c.startMonth
            BY <5>1 DEF FindMonth
          <6> QED BY <5>1, <6>2, <6>3, <6>4, <3>1, <3>9, <2>2
        <5>3. YearTiled(out, start - 1) /\ SeasonsFull(out)
          <6>1. CASE splits
            <7> DEFINE u == Until(season, w.start - 1)
            <7>1. out = Append(w.out, u) /\ start > old.start /\ w.start - 1 \in Int
              BY <6>1, <2>2, <2>5, <1>2
            <7>2. u \in Seasons /\ Alike(season, u) /\ u.start = season.start
                  /\ u.end = start - 1
              BY <7>1, <5>1, UntilIs
            <7>3. SeasonFull(u)
              BY <7>2, <3>1, AlikeFull
            <7> HIDE DEF u
            <7>4. YearTiled(w.out, u.start - 1) /\ u.start <= u.end
              BY <7>1, <7>2, <3>1, <3>9, <1>2, <1>3
            <7> QED BY <7>1, <7>2, <7>3, <7>4, <3>1, <1>2, SeasonAppend
          <6>2. CASE ~splits
            <7>1. start = old.start /\ out = w.out
              BY <6>2, <5>2, <4>4, <3>1, <3>9, <2>2, <2>5, <1>2, <1>3
            <7> QED BY <7>1, <3>1, <3>9
          <6> QED BY <6>1, <6>2, <1>3
        <5> DEFINE more == Append(out, t)
        <5>4. more \in Seq(Seasons) /\ SeasonsFull(more) /\ YearTiled(more, end)
          <6>1. YearTiled(out, t.start - 1) /\ t.start <= t.end
            BY <5>2, <5>3, <4>1
          <6> QED BY <6>1, <5>3, <4>1, <2>5, SeasonAppend
        <5> HIDE DEF more
        <5>5. CASE rests
          <6> DEFINE u == From(season, asked + 1)
          <6>1. rest = <<u>> /\ asked < old.end
            BY <5>5, <2>2 DEF rest
          <6>2. u \in Seasons /\ u.start = asked + 1 /\ u.end = old.end /\ SeasonFull(u)
            BY <2>7, <3>1, AlikeFull
          <6> HIDE DEF u
          <6>3. done.out = Append(more, u)
            BY <6>1, <6>2, <5>4, <4>1, ConcatSeason DEF more
          <6>4. YearTiled(more, u.start - 1) /\ u.start <= u.end
            <7>1. u.start - 1 = end
              BY <6>2, <5>2, <1>3
            <7>2. u.start <= u.end
              BY <6>1, <6>2, <1>2, <1>3
            <7> QED BY <7>1, <7>2, <5>4
          <6>5. SeasonsFull(done.out) /\ YearTiled(done.out, old.end)
            BY <6>2, <6>3, <6>4, <5>4, SeasonAppend
          <6>6. done.delay = Missing
            BY <6>1, <5>2, <4>1, <1>2, <1>3
          <6> QED BY <6>5, <6>6, <5>2, <4>2, <3>5 DEF SeasonSound
        <5>6. CASE ~rests
          <6>1. done.out = more
            BY <5>6, <5>4, <4>1, <2>8, ConcatEmptySeq DEF more
          <6>2. old.end <= asked
            BY <5>2, <5>6, <3>9, <2>2, <1>2, <1>3
          <6>3. CASE asked = old.end
            <7>1. done.delay = Missing
              BY <6>3, <5>2, <4>1, <1>2, <1>3
            <7> QED BY <6>1, <6>3, <7>1, <5>2, <5>4, <4>2, <3>5 DEF SeasonSound
          <6>4. CASE asked > old.end
            <7>1. done.delay = end + 1 /\ done.delay # Missing /\ done.delay - 1 = end
                  /\ old.end + 1 <= done.delay /\ done.delay <= Months + 1
              BY SMTT(30), <6>4, <5>2, <4>1, <3>1, <3>6, <1>2, <1>3 DEF Missing
            <7> QED BY <6>1, <7>1, <5>2, <5>4, <4>2, <3>5 DEF SeasonSound
          <6> QED BY <6>2, <6>3, <6>4, <1>2, <1>3
        <5> QED BY <5>5, <5>6, <1>3
      <4> QED BY <4>3, <4>4
    <3> QED BY <3>8, <3>9, <1>2
  <2> QED BY <2>1, <2>12, <2>13
<1> QED BY <1>5, <1>6

(***************************************************************************)
(* The turns of the walk over the seasons.                                 *)
(***************************************************************************)
YearFirst(w, old) ==
  w.delay # Missing /\ w.out = <<>> /\ w.delay <= Months /\ w.find < old.start
YearOver(w, old) == w.delay # Missing /\ old.end < w.delay /\ w.find < old.start
YearHit(w, old) == old.start <= w.find /\ w.find <= old.end
TurnSeason(w, old) ==
  IF w.delay = Missing THEN old ELSE From(old, IF w.out = <<>> THEN 1 ELSE w.delay)
FirstSeason(w, old) == [Undelayed(w) EXCEPT !.out = <<From(old, 1)>>]
NextSeason(w, season) == [Undelayed(w) EXCEPT !.out = Append(@, season)]

LEMMA SeasonTurnFailed ==
  ASSUME NEW c, NEW w, NEW old, w.failed
  PROVE  SeasonTurn(c, w, old) = w
BY Zenon DEF SeasonTurn

LEMMA SeasonTurnFirst ==
  ASSUME NEW c, NEW w, NEW old, ~w.failed, YearFirst(w, old)
  PROVE  SeasonTurn(c, w, old) = FirstSeason(w, old)
<1>1. w.delay # Missing /\ w.out = <<>> /\ w.delay <= Months /\ w.find < old.start
  BY DEF YearFirst
<1> QED BY <1>1, Zenon DEF SeasonTurn, FirstSeason, Undelayed, From

LEMMA SeasonTurnOver ==
  ASSUME NEW c, NEW w, NEW old, ~w.failed, ~YearFirst(w, old), YearOver(w, old)
  PROVE  SeasonTurn(c, w, old) = w
<1>1. /\ ~(w.delay # Missing /\ w.out = <<>> /\ w.delay <= Months /\ w.find < old.start)
      /\ w.delay # Missing /\ old.end < w.delay /\ w.find < old.start
  BY DEF YearFirst, YearOver
<1> QED BY <1>1, Zenon DEF SeasonTurn

LEMMA SeasonTurnGone ==
  ASSUME NEW c, NEW w, NEW old, ~w.failed, ~YearFirst(w, old), ~YearOver(w, old),
         YearHit(w, old), Scope(c) = "season"
  PROVE  SeasonTurn(c, w, old) = SeasonGone(c, Undelayed(w), old)
<1>1. /\ ~(w.delay # Missing /\ w.out = <<>> /\ w.delay <= Months /\ w.find < old.start)
      /\ ~(w.delay # Missing /\ old.end < w.delay /\ w.find < old.start)
      /\ old.start <= w.find /\ w.find <= old.end
  BY DEF YearFirst, YearOver, YearHit
<1> QED BY <1>1, Zenon DEF SeasonTurn, Undelayed

LEMMA SeasonTurnHit ==
  ASSUME NEW c, NEW w, NEW old, ~w.failed, ~YearFirst(w, old), ~YearOver(w, old),
         YearHit(w, old), Scope(c) # "season"
  PROVE  SeasonTurn(c, w, old) = SeasonHit(c, Undelayed(w), TurnSeason(w, old), old)
<1>1. /\ ~(w.delay # Missing /\ w.out = <<>> /\ w.delay <= Months /\ w.find < old.start)
      /\ ~(w.delay # Missing /\ old.end < w.delay /\ w.find < old.start)
      /\ old.start <= w.find /\ w.find <= old.end
  BY DEF YearFirst, YearOver, YearHit
<1> QED BY <1>1, Zenon DEF SeasonTurn, Undelayed, TurnSeason, From

LEMMA SeasonTurnOther ==
  ASSUME NEW c, NEW w, NEW old, ~w.failed, ~YearFirst(w, old), ~YearOver(w, old),
         ~YearHit(w, old)
  PROVE  SeasonTurn(c, w, old) = NextSeason(w, TurnSeason(w, old))
<1>1. /\ ~(w.delay # Missing /\ w.out = <<>> /\ w.delay <= Months /\ w.find < old.start)
      /\ ~(w.delay # Missing /\ old.end < w.delay /\ w.find < old.start)
      /\ ~(old.start <= w.find /\ w.find <= old.end)
  BY DEF YearFirst, YearOver, YearHit
<1> QED BY <1>1, Zenon DEF SeasonTurn, Undelayed, TurnSeason, NextSeason, From

\* A turn that only sets the seasons, when none is delayed any more.
Relisted(r, w, out) ==
  /\ r \in SeasonWalks /\ r.out = out /\ r.delay = Missing /\ r.find = w.find
  /\ r.start = w.start /\ r.end = w.end /\ r.days = w.days /\ r.failed = w.failed

LEMMA UndelayedSeasons ==
  ASSUME NEW w \in SeasonWalks
  PROVE  Relisted(Undelayed(w), w, w.out)
<1>1. Missing \in Int
  BY DEF Missing
<1> QED BY <1>1 DEF Undelayed, SeasonWalks, Relisted

LEMMA FirstSeasonIs ==
  ASSUME NEW w \in SeasonWalks, NEW old \in Seasons
  PROVE  Relisted(FirstSeason(w, old), w, <<From(old, 1)>>)
<1> DEFINE v == Undelayed(w)
           out == <<From(old, 1)>>
<1>1. Relisted(v, w, w.out)
  BY UndelayedSeasons
<1>2. out \in Seq(Seasons)
  BY SeasonFromIs
<1>3. FirstSeason(w, old) = [v EXCEPT !.out = out]
  BY DEF FirstSeason
<1> HIDE DEF v, out
<1>4. Relisted([v EXCEPT !.out = out], w, out)
  BY <1>1, <1>2 DEF Relisted, SeasonWalks
<1> QED BY <1>3, <1>4 DEF out

LEMMA NextSeasonIs ==
  ASSUME NEW w \in SeasonWalks, NEW season \in Seasons
  PROVE  Relisted(NextSeason(w, season), w, Append(w.out, season))
<1> DEFINE v == Undelayed(w)
           out == Append(w.out, season)
<1>1. Relisted(v, w, w.out)
  BY UndelayedSeasons
<1>2. out \in Seq(Seasons)
  BY SeasonWalkFields, AppendElements
<1>3. NextSeason(w, season) = [v EXCEPT !.out = out]
  BY <1>1 DEF NextSeason, Relisted
<1> HIDE DEF v, out
<1>4. Relisted([v EXCEPT !.out = out], w, out)
  BY <1>1, <1>2 DEF Relisted, SeasonWalks
<1> QED BY <1>3, <1>4 DEF out

LEMMA TurnSeasonIs ==
  ASSUME NEW w \in SeasonWalks, NEW old \in Seasons
  PROVE  /\ TurnSeason(w, old) \in Seasons /\ Alike(old, TurnSeason(w, old))
         /\ TurnSeason(w, old).end = old.end
         /\ TurnSeason(w, old).start = IF w.delay = Missing THEN old.start
                                       ELSE IF w.out = <<>> THEN 1 ELSE w.delay
<1>1. CASE w.delay = Missing
  BY <1>1 DEF TurnSeason, Alike
<1>2. CASE w.delay # Missing
  <2> DEFINE a == IF w.out = <<>> THEN 1 ELSE w.delay
  <2>1. a \in Int /\ TurnSeason(w, old) = From(old, a)
    BY <1>2, SeasonWalkFields DEF TurnSeason
  <2>2. a = IF w.out = <<>> THEN 1 ELSE w.delay
    OBVIOUS
  <2> HIDE DEF a
  <2> QED BY <1>2, <2>1, <2>2, SeasonFromIs
<1> QED BY <1>1, <1>2

\* The season is gone up to a month.
SeasonGoneWell(r, w, to) ==
  /\ r \in SeasonWalks /\ r.out = EndLast(w.out, to) /\ r.delay = to + 1
  /\ r.end = to /\ r.find = w.find /\ r.days = w.days /\ r.failed = w.failed

LEMMA SeasonGoneIs ==
  ASSUME NEW c, NEW w \in SeasonWalks, NEW old \in Seasons
  PROVE  SeasonGoneWell(SeasonGone(c, w, old), w,
                        IF w.start # Missing THEN Larger(w.end, old.end) ELSE old.end)
<1> DEFINE to == IF w.start # Missing THEN Larger(w.end, old.end) ELSE old.end
           out == EndLast(w.out, to)
<1>1. w.out \in Seq(Seasons) /\ to \in Int
  BY SeasonWalkFields, SeasonFields DEF Larger
<1>2. SeasonGone(c, w, old) = [w EXCEPT !.end = to, !.delay = to + 1, !.out = out]
  BY DEF SeasonGone
<1> HIDE DEF to
<1>3. out \in Seq(Seasons)
  BY <1>1, SeasonEndLast
<1>4. out = EndLast(w.out, to)
  OBVIOUS
<1> HIDE DEF out
<1> DEFINE next == to + 1
           r == [w EXCEPT !.end = to, !.delay = next, !.out = out]
<1>5. next \in Int
  BY <1>1
<1> HIDE DEF next
<1>6. /\ r \in SeasonWalks /\ r.out = out /\ r.delay = next
      /\ r.end = to /\ r.find = w.find /\ r.days = w.days /\ r.failed = w.failed
  BY <1>1, <1>3, <1>5 DEF SeasonWalks
<1>7. SeasonGone(c, w, old) = r
  BY <1>2 DEF next
<1> HIDE DEF r
<1>8. SeasonGoneWell(r, w, to)
  BY <1>4, <1>6 DEF SeasonGoneWell, next
<1> QED BY <1>7, <1>8 DEF to

LEMMA SeasonTurnKept ==
  ASSUME NEW c \in UseOrders, NEW w, SeasonKept(c, w), NEW old \in Seasons
  PROVE  SeasonKept(c, SeasonTurn(c, w, old))
<1> DEFINE r == SeasonTurn(c, w, old)
           v == Undelayed(w)
           season == TurnSeason(w, old)
<1> SUFFICES SeasonKept(c, r)
  OBVIOUS
<1>1. w \in SeasonWalks /\ (Low(c) => Len(w.days) <= 1) /\ w.failed \in BOOLEAN
  BY SeasonWalkFields DEF SeasonKept
<1>2. Relisted(v, w, w.out)
  BY <1>1, UndelayedSeasons
<1>3. season \in Seasons /\ Alike(old, season) /\ season.end = old.end
  BY <1>1, TurnSeasonIs
<1>4. CASE w.failed
  BY <1>4, SeasonTurnFailed
<1>5. CASE ~w.failed /\ YearFirst(w, old)
  <2>1. Relisted(r, w, <<From(old, 1)>>)
    BY <1>1, <1>5, SeasonTurnFirst, FirstSeasonIs
  <2> HIDE DEF r
  <2> QED BY <2>1, <1>1 DEF Relisted, SeasonKept
<1>6. CASE ~w.failed /\ ~YearFirst(w, old) /\ YearOver(w, old)
  BY <1>6, SeasonTurnOver
<1>7. CASE ~w.failed /\ ~YearFirst(w, old) /\ ~YearOver(w, old) /\ YearHit(w, old)
           /\ Scope(c) = "season"
  <2> DEFINE to == IF v.start # Missing THEN Larger(v.end, old.end) ELSE old.end
  <2>1. SeasonGoneWell(SeasonGone(c, v, old), v, to)
    BY <1>2, SeasonGoneIs DEF Relisted
  <2>2. r = SeasonGone(c, v, old)
    BY <1>7, SeasonTurnGone
  <2> HIDE DEF r, v, to
  <2> QED BY <2>1, <2>2, <1>1, <1>2 DEF SeasonGoneWell, Relisted, SeasonKept
<1>8. CASE ~w.failed /\ ~YearFirst(w, old) /\ ~YearOver(w, old) /\ YearHit(w, old)
           /\ Scope(c) # "season"
  <2>1. r = SeasonHit(c, v, season, old)
    BY <1>8, SeasonTurnHit
  <2>2. SeasonKept(c, v) /\ v.delay = Missing
    BY <1>1, <1>2 DEF Relisted, SeasonKept
  <2>3. season.same = old.same
    BY <1>3 DEF Alike
  <2> HIDE DEF r, v, season
  <2> QED BY <2>1, <2>2, <2>3, <1>3, SeasonHitIs
<1>9. CASE ~w.failed /\ ~YearFirst(w, old) /\ ~YearOver(w, old) /\ ~YearHit(w, old)
  <2>1. r = NextSeason(w, season)
    BY <1>9, SeasonTurnOther
  <2>2. Relisted(r, w, Append(w.out, season))
    BY <2>1, <1>1, <1>3, NextSeasonIs
  <2> HIDE DEF r
  <2> QED BY <2>2, <1>1 DEF Relisted, SeasonKept
<1> QED BY <1>1, <1>4, <1>5, <1>6, <1>7, <1>8, <1>9

LEMMA SeasonTurnSound ==
  ASSUME NEW c \in UseOrders, NEW w, SeasonKept(c, w), NEW old \in Seasons,
         NEW m \in Nat, Closed(c), Scope(c) # "plan",
         old.start = m + 1, old.start <= old.end, old.end <= Months,
         SeasonFull(old), SeasonSound(c, w, m)
  PROVE  SeasonSound(c, SeasonTurn(c, w, old), old.end)
<1> DEFINE r == SeasonTurn(c, w, old)
           v == Undelayed(w)
           season == TurnSeason(w, old)
           e == old.end
<1> SUFFICES SeasonSound(c, r, e)
  OBVIOUS
<1>1. w \in SeasonWalks /\ w.failed \in BOOLEAN
  BY SeasonWalkFields DEF SeasonKept
<1>2. Relisted(v, w, w.out)
  BY <1>1, UndelayedSeasons
<1>3. /\ season \in Seasons /\ Alike(old, season) /\ season.end = e
      /\ season.start = IF w.delay = Missing THEN old.start
                        ELSE IF w.out = <<>> THEN 1 ELSE w.delay
  BY <1>1, TurnSeasonIs
<1>4. SeasonFull(season)
  BY <1>3, AlikeFull
<1>5. /\ w.out \in Seq(Seasons) /\ w.find \in Int /\ w.start \in Int /\ w.end \in Int
      /\ w.delay \in Int /\ season.start \in Int /\ old.start \in Int /\ e \in Int
      /\ old.start = m + 1 /\ m < e /\ e <= Months /\ Months \in Nat /\ Low(c) \in BOOLEAN
  <2>1. Months \in Nat
    BY OrderFields
  <2>2. Low(c) \in BOOLEAN
    BY DEF Low
  <2> QED BY <2>1, <2>2, <1>1, <1>3, SeasonWalkFields, SeasonFields
<1>6. CASE w.failed
  BY <1>6, SeasonTurnFailed DEF SeasonSound
<1>7. ASSUME ~w.failed PROVE SeasonSound(c, r, e)
  <2>1. /\ SeasonsFull(w.out)
        /\ w.delay = Missing => YearTiled(w.out, m)
        /\ w.delay # Missing => /\ m + 1 <= w.delay /\ w.delay <= Months + 1
                                /\ w.out = <<>> \/ YearTiled(w.out, w.delay - 1)
        /\ m < w.find /\ Low(c) => w.delay = Missing \/ w.delay = m + 1
        /\ m < w.find /\ ~Low(c) => /\ w.delay = Missing /\ w.find = FindMonth(c)
                                    /\ w.start = c.startMonth /\ w.end = c.endMonth
        /\ w.end <= Months
    BY <1>7 DEF SeasonSound
  <2>2. e < w.find => m < w.find
    BY <1>5
  <2> HIDE DEF v, season, e
  <2>3. CASE YearFirst(w, old)
    <3> DEFINE t == From(old, 1)
    <3>1. r = FirstSeason(w, old)
      BY <1>7, <2>3, SeasonTurnFirst
    <3>2. Relisted(r, w, <<t>>)
      BY <3>1, <1>1, FirstSeasonIs
    <3> HIDE DEF r
    <3>3. /\ t \in Seasons /\ Alike(old, t) /\ t.start = 1 /\ t.end = e
      BY SeasonFromIs DEF e
    <3>4. SeasonFull(t)
      BY <3>3, AlikeFull
    <3> HIDE DEF t
    <3>5. <<t>> # <<>> /\ Len(<<t>>) = 1 /\ <<t>>[1] = t
      BY <3>3
    <3>6. SeasonsFull(<<t>>) /\ YearTiled(<<t>>, e)
      BY <3>3, <3>4, <3>5, <1>5 DEF SeasonsFull, YearTiled
    <3> QED BY <3>2, <3>6, <2>1, <2>2 DEF Relisted, SeasonSound
  <2>4. CASE ~YearFirst(w, old) /\ YearOver(w, old)
    <3>1. r = w
      BY <1>7, <2>4, SeasonTurnOver
    <3>2. w.delay # Missing /\ e < w.delay /\ w.find < old.start
      BY <2>4 DEF YearOver, e
    <3>3. ~(e < w.find) /\ e + 1 <= w.delay
      BY <3>2, <1>5
    <3> HIDE DEF r
    <3> QED BY <3>1, <3>2, <3>3, <2>1 DEF SeasonSound
  <2>5. CASE ~YearFirst(w, old) /\ ~YearOver(w, old)
    <3>1. w.find < old.start /\ w.delay # Missing => w.delay <= e /\ w.out # <<>>
      <4>1. w.find < old.start /\ w.delay # Missing => ~(e < w.delay)
        BY <2>5 DEF YearOver, e
      <4>2. w.find < old.start /\ w.delay # Missing /\ w.out = <<>> => ~(w.delay <= Months)
        BY <2>5 DEF YearFirst
      <4> QED BY <4>1, <4>2, <1>5
    <3>2. season.start <= e /\ 1 <= season.start
      BY <3>1, <2>1, <1>3, <1>5
    <3>3. YearTiled(w.out, season.start - 1)
      <4>1. CASE w.delay = Missing
        <5>1. season.start - 1 = m
          BY <4>1, <1>3, <1>5
        <5> QED BY <4>1, <5>1, <2>1
      <4>2. CASE w.delay # Missing /\ w.out = <<>>
        <5>1. season.start - 1 = 0
          BY <4>2, <1>3
        <5> QED BY <4>2, <5>1 DEF YearTiled
      <4>3. CASE w.delay # Missing /\ w.out # <<>>
        BY <4>3, <2>1, <1>3
      <4> QED BY <4>1, <4>2, <4>3
    <3>4. CASE YearHit(w, old) /\ Scope(c) = "season"
      <4> DEFINE to == IF v.start # Missing THEN Larger(v.end, old.end) ELSE old.end
      <4>1. r = SeasonGone(c, v, old)
        BY <1>7, <2>5, <3>4, SeasonTurnGone DEF v
      <4>2. SeasonGoneWell(r, v, to)
        BY <4>1, <1>2, SeasonGoneIs DEF Relisted
      <4>3. v.end = w.end /\ v.out = w.out /\ v.find = w.find
        BY <1>2 DEF Relisted
      <4>4. to \in Int /\ e <= to /\ to <= Months
        BY <4>3, <2>1, <1>5 DEF Larger, e
      <4> HIDE DEF r, to
      <4>5. r.out = EndLast(w.out, to) /\ r.delay = to + 1 /\ r.end = to /\ r.find = w.find
        BY <4>2, <4>3 DEF SeasonGoneWell
      <4>6. w.find <= e
        BY <3>4 DEF YearHit, e
      <4>7. SeasonsFull(r.out)
        BY <4>4, <4>5, <2>1, <1>5, SeasonEndLast
      <4>8. r.out = <<>> \/ YearTiled(r.out, to)
        <5>1. CASE w.out = <<>>
          BY <5>1, <4>5 DEF EndLast
        <5>2. CASE w.out # <<>>
          <6>1. season.start - 1 \in Int /\ season.start - 1 <= to
            BY <3>2, <4>4, <1>5
          <6> QED BY <5>2, <6>1, <3>3, <4>4, <4>5, <1>5, SeasonEndLastTiled
        <5> QED BY <5>1, <5>2
      <4>9. /\ r.delay # Missing /\ r.delay - 1 = to /\ e + 1 <= r.delay
            /\ r.delay <= Months + 1 /\ ~(e < r.find)
        BY <4>4, <4>5, <4>6, <1>5 DEF Missing
      <4> QED BY <4>4, <4>5, <4>7, <4>8, <4>9 DEF SeasonSound
    <3>5. CASE YearHit(w, old) /\ Scope(c) # "season"
      <4>1. r = SeasonHit(c, v, season, old)
        BY <1>7, <2>5, <3>5, SeasonTurnHit DEF v, season
      <4>2. SeasonKept(c, v) /\ v.delay = Missing
        BY <1>2 DEF Relisted, SeasonKept
      <4>3. season.same = old.same /\ season.end = old.end
        BY <1>3 DEF Alike, e
      <4>4. old.start <= w.find /\ w.find <= e
        BY <3>5 DEF YearHit, e
      <4>5. SeasonFits(c, v, season, old)
        <5>1. m < w.find
          BY <4>4, <1>5
        <5>2. 1 <= old.start
          BY <1>5
        <5>3. v.out = w.out /\ v.find = w.find /\ v.start = w.start /\ v.end = w.end
          BY <1>2 DEF Relisted
        <5>4. ~Low(c) => /\ season.start = old.start /\ w.find = FindMonth(c)
                         /\ w.start = c.startMonth /\ w.end = c.endMonth
          BY <5>1, <2>1, <1>3
        <5> QED BY <5>2, <5>3, <5>4, <4>2, <4>4, <3>2, <3>3, <2>1, <1>4, <1>5
                   DEF SeasonFits, e
      <4> HIDE DEF r
      <4>6. SeasonSound(c, SeasonHit(c, v, season, old), old.end)
        BY <4>2, <4>3, <4>5, <3>5, <1>3, SeasonHitIs
      <4> QED BY <4>1, <4>6 DEF e
    <3>6. CASE ~YearHit(w, old)
      <4>1. r = NextSeason(w, season)
        BY <1>7, <2>5, <3>6, SeasonTurnOther DEF season
      <4>2. Relisted(r, w, Append(w.out, season))
        BY <4>1, <1>1, <1>3, NextSeasonIs
      <4> HIDE DEF r
      <4>3. SeasonsFull(Append(w.out, season)) /\ YearTiled(Append(w.out, season), e)
        BY <3>2, <3>3, <2>1, <1>3, <1>4, <1>5, SeasonAppend
      <4> QED BY <4>2, <4>3, <2>1, <2>2 DEF Relisted, SeasonSound
    <3> QED BY <3>4, <3>5, <3>6
  <2> QED BY <2>3, <2>4, <2>5
<1> QED BY <1>1, <1>6, <1>7

(***************************************************************************)
(* The walk over the seasons of a plan.                                    *)
(***************************************************************************)
LEMMA SeasonStartKept ==
  ASSUME NEW c \in UseOrders
  PROVE  /\ SeasonKept(c, SeasonStart(c))
         /\ SeasonSound(c, SeasonStart(c), 0)
<1> DEFINE w == SeasonStart(c)
<1> SUFFICES SeasonKept(c, w) /\ SeasonSound(c, w, 0)
  OBVIOUS
<1>1. /\ c.startMonth \in Int /\ c.endMonth \in Int /\ c.price \in Int /\ Missing \in Int
      /\ c.month \in Int /\ c.endMonth <= Months
  BY OrderFields DEF Missing
<1>2. FindMonth(c) \in Int
  BY <1>1 DEF FindMonth
<1>3. (IF c.price = Missing THEN PriceDef ELSE c.price) \in Int
  BY <1>1, UseAssumption
<1>4. /\ <<>> \in Seq(Seasons) /\ <<>> \in Seq(DayTypes) /\ Len(<<>>) = 0
  BY EmptySeq
<1>5. /\ w \in SeasonWalks /\ w.out = <<>> /\ w.delay = Missing /\ w.find = FindMonth(c)
      /\ w.start = c.startMonth /\ w.end = c.endMonth /\ w.days = <<>>
  BY <1>1, <1>2, <1>3, <1>4 DEF SeasonStart, SeasonWalks
<1> HIDE DEF w
<1>6. SeasonsFull(w.out) /\ YearTiled(w.out, 0)
  BY <1>4, <1>5 DEF SeasonsFull, YearTiled
<1>7. SeasonKept(c, w)
  BY <1>4, <1>5 DEF SeasonKept
<1>8. SeasonSound(c, w, 0)
  BY <1>1, <1>5, <1>6 DEF SeasonSound
<1> QED BY <1>7, <1>8

IsSeasonTurns(turn, c, plan) ==
  turn = [i \in 0..Len(plan) |->
            IF i = 0 THEN SeasonStart(c) ELSE SeasonTurn(c, turn[i - 1], plan[i])]

\* The walk: its turns, and what they keep.
LEMMA SeasonTurns ==
  ASSUME NEW c \in UseOrders, NEW plan \in Seq(Seasons)
  PROVE  \E turn : /\ SeasonWalk(c, plan) = turn[Len(plan)]
                   /\ turn[0] = SeasonStart(c)
                   /\ \A i \in 1..Len(plan) : turn[i] = SeasonTurn(c, turn[i - 1], plan[i])
                   /\ \A i \in 0..Len(plan) : SeasonKept(c, turn[i])
<1> DEFINE n == Len(plan)
           W == {w \in SeasonWalks : SeasonKept(c, w)}
           F == [i \in 1..n |-> [w \in W |-> SeasonTurn(c, w, plan[i])]]
           turn == CHOOSE turn : IsSeasonTurns(turn, c, plan)
<1>1. n \in Nat /\ \A i \in 1..n : plan[i] \in Seasons
  BY LenProperties, ElementOfSeq
<1>2. SeasonWalk(c, plan) = turn[n]
  BY DEF SeasonWalk, IsSeasonTurns
<1>3. ASSUME NEW i \in 1..n, NEW w \in W PROVE SeasonTurn(c, w, plan[i]) \in W
  <2>1. SeasonKept(c, SeasonTurn(c, w, plan[i]))
    BY <1>1, SeasonTurnKept
  <2> QED BY <2>1 DEF SeasonKept
<1>4. SeasonStart(c) \in W
  BY SeasonStartKept DEF SeasonKept
<1>5. F \in [1..n -> [W -> W]]
  BY <1>3
<1> HIDE DEF W
<1>6. PICK g \in [0..n -> W] : Steps(g, SeasonStart(c), F, n)
  <2> HIDE DEF F
  <2> QED BY <1>1, <1>4, <1>5, StepsExist
<1>7. IsSeasonTurns(g, c, plan)
  <2>1. g = [i \in 0..n |-> g[i]]
    OBVIOUS
  <2>2. ASSUME NEW i \in 0..n
        PROVE  g[i] = IF i = 0 THEN SeasonStart(c) ELSE SeasonTurn(c, g[i - 1], plan[i])
    <3>1. CASE i = 0
      BY <3>1, <1>6 DEF Steps
    <3>2. CASE i # 0
      <4>1. i \in 1..n /\ i - 1 \in 0..n
        BY <3>2, <1>1
      <4>2. g[i - 1] \in W /\ g[i] = F[i][g[i - 1]]
        BY <4>1, <1>6 DEF Steps
      <4> QED BY <3>2, <4>1, <4>2
    <3> QED BY <3>1, <3>2
  <2> QED BY <2>1, <2>2 DEF IsSeasonTurns
<1>8. IsSeasonTurns(turn, c, plan)
  BY <1>7
<1> HIDE DEF turn
<1>9. /\ turn[0] = SeasonStart(c)
      /\ \A i \in 1..n : turn[i] = SeasonTurn(c, turn[i - 1], plan[i])
  <2>1. 0 \in 0..n /\ \A i \in 1..n : i \in 0..n /\ i # 0
    BY <1>1
  <2> QED BY <2>1, <1>8 DEF IsSeasonTurns
<1>10. \A i \in 0..n : turn[i] \in W
  <2> DEFINE P == {i \in 0..n : turn[i] \in W}
  <2>1. 0 \in P
    BY <1>1, <1>4, <1>9
  <2>2. ASSUME NEW i \in 1..n, i - 1 \in P PROVE i \in P
    BY <2>2, <1>3, <1>9
  <2> HIDE DEF P
  <2>3. 0..n \subseteq P
    BY <2>1, <2>2, <1>1, StepsKeep
  <2> QED BY <2>3 DEF P
<1> QED BY <1>2, <1>9, <1>10 DEF W

LEMMA SeasonWalkKept ==
  ASSUME NEW c \in UseOrders, NEW plan \in Seq(Seasons)
  PROVE  SeasonKept(c, SeasonWalk(c, plan))
<1>1. Len(plan) \in 0..Len(plan)
  BY LenProperties
<1> QED BY <1>1, SeasonTurns

\* The seasons of a year, each in order within the year.
LEMMA YearIs ==
  ASSUME NEW plan \in Seq(Seasons), CoversYear(plan), Months \in Nat
  PROVE  /\ Len(plan) \in Nat \ {0}
         /\ \A i \in 1..Len(plan) : /\ plan[i] \in Seasons
                                    /\ plan[i].start \in Nat \ {0}
                                    /\ plan[i].end \in Nat
                                    /\ plan[i].start <= plan[i].end
                                    /\ plan[i].end <= Months
<1> DEFINE n == Len(plan)
           s == [i \in 1..n |-> plan[i].start]
           e == [i \in 1..n |-> plan[i].end]
<1>1. n \in Nat \ {0}
  BY EmptySeq DEF CoversYear
<1>2. \A i \in 1..n : plan[i] \in Seasons
  BY ElementOfSeq
<1>3. \A i \in 1..n : plan[i].start \in Int /\ plan[i].end \in Int
  BY <1>2, SeasonFields
<1>4. s \in [1..n -> Int] /\ e \in [1..n -> Int]
  BY <1>3
<1>5. \A i \in 1..n : s[i] <= e[i]
  BY <1>3 DEF CoversYear
<1>6. \A i \in 2..n : e[i - 1] <= s[i]
  <2> SUFFICES ASSUME NEW i \in 2..n PROVE e[i - 1] <= s[i]
    OBVIOUS
  <2>1. i \in 1..n /\ i - 1 \in 1..n /\ plan[i].start = plan[i - 1].end + 1
    BY <1>1 DEF CoversYear
  <2> QED BY <2>1, <1>3
<1>7. s[1] = 1 /\ e[n] = Months
  BY <1>1 DEF CoversYear
<1>8. \A i \in 1..n : s[i] = plan[i].start /\ e[i] = plan[i].end
  OBVIOUS
<1> HIDE DEF s, e
<1>9. \A i \in 1..n : s[1] <= s[i] /\ e[i] <= e[n]
  BY <1>1, <1>4, <1>5, <1>6, Between
<1>10. ASSUME NEW i \in 1..n
       PROVE  /\ plan[i].start \in Nat \ {0} /\ plan[i].end \in Nat
              /\ plan[i].start <= plan[i].end /\ plan[i].end <= Months
  <2>1. /\ 1 <= plan[i].start /\ plan[i].end <= Months
        /\ plan[i].start <= plan[i].end
    BY <1>5, <1>7, <1>8, <1>9
  <2>2. plan[i].start \in Int /\ plan[i].end \in Int
    BY <1>3
  <2> QED BY <2>1, <2>2
<1> QED BY <1>1, <1>2, <1>10

LEMMA CompleteIs ==
  ASSUME NEW plan
  PROVE  Complete(plan) <=> CoversYear(plan) /\ SeasonsFull(plan)
<1>1. ASSUME NEW s
      PROVE  SeasonFull(s) <=>
               /\ \A d \in DayTypes : CoversDay(s.slots[d])
               /\ Priced(s)
               /\ s.same => /\ s.slots["weekday"] = s.slots["weekend"]
                            /\ s.price["weekday"] = s.price["weekend"]
  BY DEF SeasonFull, DaysFull, DayFull, SameTrue, Priced
<1> QED BY <1>1 DEF Complete, SeasonsFull

\* The seasons that are left of a complete plan make a complete plan again.
LEMMA SeasonWalkCompletes ==
  ASSUME NEW c, Closed(c), Scope(c) # "plan", NEW plan \in Seq(Seasons), Complete(plan),
         ~SeasonWalk(c, plan).failed
  PROVE  SeasonWalk(c, plan).out = <<>> \/ Complete(SeasonWalk(c, plan).out)
<1> DEFINE w == SeasonWalk(c, plan)
           n == Len(plan)
           m(i) == IF i = 0 THEN 0 ELSE plan[i].end
<1>1. c \in UseOrders
  BY DEF Closed, GoodOrder
<1>2. PICK turn : /\ w = turn[n]
                  /\ turn[0] = SeasonStart(c)
                  /\ \A i \in 1..n : turn[i] = SeasonTurn(c, turn[i - 1], plan[i])
                  /\ \A i \in 0..n : SeasonKept(c, turn[i])
  BY <1>1, SeasonTurns
<1>3. Months \in Nat
  BY <1>1, OrderFields
<1>4. CoversYear(plan) /\ SeasonsFull(plan)
  BY CompleteIs
<1>5. /\ n \in Nat \ {0}
      /\ \A i \in 1..n : /\ plan[i] \in Seasons
                         /\ plan[i].start \in Nat \ {0} /\ plan[i].end \in Nat
                         /\ plan[i].start <= plan[i].end /\ plan[i].end <= Months
  BY <1>3, <1>4, YearIs
<1> HIDE DEF w
<1>6. SeasonSound(c, turn[0], 0)
  BY <1>1, <1>2, SeasonStartKept
<1>7. ASSUME NEW i \in 1..n, SeasonSound(c, turn[i - 1], m(i - 1))
      PROVE  SeasonSound(c, turn[i], m(i))
  <2>1. m(i - 1) \in Nat /\ plan[i].start = m(i - 1) + 1
    <3>1. CASE i = 1
      BY <3>1, <1>4 DEF CoversYear
    <3>2. CASE i # 1
      <4>1. i - 1 \in 1..n /\ i - 1 # 0 /\ i \in 2..n
        BY <3>2, <1>5
      <4> QED BY <4>1, <1>4, <1>5 DEF CoversYear
    <3> QED BY <3>1, <3>2
  <2>2. SeasonKept(c, turn[i - 1])
    <3>1. i - 1 \in 0..n
      BY <1>5
    <3> QED BY <3>1, <1>2
  <2>3. SeasonFull(plan[i])
    BY <1>4 DEF SeasonsFull
  <2>4. m(i) = plan[i].end
    BY <1>5
  <2>5. SeasonSound(c, turn[i - 1], m(i - 1))
    BY <1>7
  <2>6. plan[i] \in Seasons /\ plan[i].start <= plan[i].end /\ plan[i].end <= Months
    BY <1>5
  <2> HIDE DEF m
  <2>7. SeasonSound(c, SeasonTurn(c, turn[i - 1], plan[i]), plan[i].end)
    BY <2>1, <2>2, <2>3, <2>5, <2>6, <1>1, SeasonTurnSound
  <2> QED BY <2>4, <2>7, <1>2
<1>8. 0..n \subseteq {i \in 0..n : SeasonSound(c, turn[i], m(i))}
  <2> DEFINE P == {i \in 0..n : SeasonSound(c, turn[i], m(i))}
  <2>1. 0 \in P
    BY <1>5, <1>6
  <2>2. ASSUME NEW i \in 1..n, i - 1 \in P PROVE i \in P
    BY <2>2, <1>7
  <2> HIDE DEF P
  <2>3. 0..n \subseteq P
    BY <2>1, <2>2, <1>5, StepsKeep
  <2> QED BY <2>3 DEF P
<1>9. SeasonSound(c, w, Months)
  <2>1. n \in 0..n /\ n # 0 /\ m(n) = Months
    BY <1>4, <1>5 DEF CoversYear
  <2> QED BY <2>1, <1>2, <1>8
<1>10. w.delay \in Int
  <2>1. n \in 0..n
    BY <1>5
  <2> QED BY <2>1, <1>2, SeasonWalkFields DEF SeasonKept
<1>11. ~w.failed
  BY DEF w
<1>12. SeasonsFull(w.out) /\ (w.out = <<>> \/ YearTiled(w.out, Months))
  <2>1. CASE w.delay = Missing
    BY <2>1, <1>9, <1>11 DEF SeasonSound
  <2>2. CASE w.delay # Missing
    <3>1. Months + 1 <= w.delay /\ w.delay <= Months + 1
      BY <2>2, <1>9, <1>11 DEF SeasonSound
    <3>2. w.delay - 1 = Months
      BY <3>1, <1>3, <1>10
    <3> QED BY <2>2, <3>2, <1>9, <1>11 DEF SeasonSound
  <2> QED BY <2>1, <2>2
<1>13. w.out = <<>> \/ CoversYear(w.out)
  BY <1>12 DEF YearTiled, CoversYear
<1>14. w.out = <<>> \/ Complete(w.out)
  BY <1>12, <1>13, CompleteIs
<1> QED BY <1>14 DEF w

(***************************************************************************)
(* The calls.                                                              *)
(***************************************************************************)
\* A call, as it is validated.
LEMMA ValidatedIs ==
  ASSUME NEW c \in UseCalls, NEW month \in UseMonths, NEW hour \in 0..(Hours - 1),
         NEW today \in DayTypes
  PROVE  GoodOrder(Validated([c EXCEPT !.month = month, !.hour = hour, !.today = today]))
<1> DEFINE given == [c EXCEPT !.month = month, !.hour = hour, !.today = today]
           last == IF c.startMonth # Missing /\ c.endMonth < c.startMonth
                   THEN Missing ELSE c.endMonth
           until == IF c.startHour # Missing /\ c.endHour <= c.startHour
                    THEN Missing ELSE c.endHour
           r == Validated(given)
<1> SUFFICES GoodOrder(r)
  OBVIOUS
<1>1. c \in UseOrders /\ month \in 1..Months /\ month \in Int /\ hour \in Int
  BY UseAssumption
<1>2. /\ given \in UseOrders /\ given.month = month /\ given.hour = hour
      /\ given.startMonth = c.startMonth /\ given.endMonth = c.endMonth
      /\ given.startHour = c.startHour /\ given.endHour = c.endHour
  BY <1>1 DEF UseOrders
<1>3. /\ c.startMonth \in 1..Months \cup {Missing} /\ c.endMonth \in 1..Months \cup {Missing}
      /\ c.startHour \in 0..(Hours - 1) \cup {Missing} /\ c.endHour \in 0..Hours \cup {Missing}
  BY <1>1 DEF UseOrders
<1>4. last \in 1..Months \cup {Missing} /\ until \in 0..Hours \cup {Missing}
  BY <1>3
<1>5. /\ c.startMonth # Missing /\ last # Missing => c.startMonth <= last
      /\ c.startHour # Missing /\ until # Missing => c.startHour < until
  BY <1>1, OrderFields
<1>6. r = [given EXCEPT !.endMonth = last, !.endHour = until]
  BY <1>2 DEF Validated
<1> HIDE DEF given, last, until, r
<1>7. /\ r \in UseOrders /\ r.month = month /\ r.hour = hour
      /\ r.startMonth = c.startMonth /\ r.endMonth = last
      /\ r.startHour = c.startHour /\ r.endHour = until
  BY <1>2, <1>4, <1>6 DEF UseOrders
<1> QED BY <1>1, <1>5, <1>7 DEF GoodOrder

LEMMA DefaultPlanIs ==
  ASSUME NEW c \in UseOrders
  PROVE  DefaultPlan(c) \in Seq(Seasons)
<1> DEFINE type == IF c.tariff = Missing THEN TariffDef ELSE c.tariff
           price == IF c.price = Missing THEN PriceDef ELSE c.price
           slot == [start |-> 0, end |-> Hours, type |-> type]
           tariff == [type |-> type, price |-> price]
           season == [start |-> 1, end |-> Months, same |-> TRUE,
                      slots |-> [d \in DayTypes |-> <<slot>>],
                      price |-> [d \in DayTypes |-> <<tariff>>]]
<1>1. c.tariff \in Int /\ c.price \in Int /\ Hours \in Int /\ Months \in Int
  BY OrderFields
<1>2. TariffDef \in Int /\ PriceDef \in Int
  BY UseAssumption
<1>3. type \in Int /\ price \in Int
  BY <1>1, <1>2
<1>4. DefaultPlan(c) = <<season>>
  BY DEF DefaultPlan
<1> HIDE DEF type, price
<1>5. slot \in TariffSlots /\ tariff \in TariffPrices
  BY <1>1, <1>3 DEF TariffSlots, TariffPrices
<1> HIDE DEF slot, tariff
<1>6. <<slot>> \in Seq(TariffSlots) /\ <<tariff>> \in Seq(TariffPrices)
  BY <1>5
<1>7. season \in Seasons
  BY <1>1, <1>6 DEF Seasons
<1> HIDE DEF season
<1> QED BY <1>4, <1>7

\* What a call makes of a plan.
UseCallDone(call, plan, next) ==
  /\ next \in Seq(Seasons)
  /\ Closed(call) /\ Complete(plan) => next = <<>> \/ Complete(next)

LEMMA UseCallIs ==
  ASSUME NEW call, GoodOrder(call), NEW plan \in Seq(Seasons), NEW was \in Seq(Seasons),
         Complete(was) => plan = was
  PROVE  LET done == SeasonWalk(call, plan)
         IN UseCallDone(call, was,
                        IF done.failed /\ Scope(call) # "plan" THEN was
                        ELSE IF Scope(call) = "plan" THEN <<>> ELSE done.out)
<1> DEFINE done == SeasonWalk(call, plan)
           next == IF done.failed /\ Scope(call) # "plan" THEN was
                   ELSE IF Scope(call) = "plan" THEN <<>> ELSE done.out
<1> SUFFICES UseCallDone(call, was, next)
  OBVIOUS
<1>1. call \in UseOrders
  BY DEF GoodOrder
<1>2. done.out \in Seq(Seasons)
  BY <1>1, SeasonWalkKept, SeasonWalkFields DEF SeasonKept
<1>3. Closed(call) /\ Scope(call) # "plan" /\ Complete(was) /\ ~done.failed
        => done.out = <<>> \/ Complete(done.out)
  BY SeasonWalkCompletes
<1> HIDE DEF done
<1>4. next \in Seq(Seasons)
  BY <1>2, EmptySeq
<1>5. Closed(call) /\ Complete(was) => next = <<>> \/ Complete(next)
  <2>1. CASE Scope(call) = "plan"
    <3>1. next = <<>>
      BY <2>1
    <3> QED BY <3>1
  <2>2. CASE Scope(call) # "plan" /\ done.failed
    <3>1. next = was
      BY <2>2
    <3> HIDE DEF next
    <3> QED BY <3>1
  <2>3. CASE Scope(call) # "plan" /\ ~done.failed
    <3>1. next = done.out
      BY <2>3
    <3> HIDE DEF next
    <3> QED BY <2>3, <3>1, <1>3
  <2> QED BY <2>1, <2>2, <2>3
<1> QED BY <1>4, <1>5 DEF UseCallDone

(***************************************************************************)
(* The plan keeps its form, whatever the calls are, also when it has gaps: *)
(* each season has slots and prices for both day types.                    *)
(***************************************************************************)
UseTypeOk == seasons \in Seq(Seasons) /\ useMode \in BOOLEAN /\ useCalls \in Nat

\* The calls change a plan as UseCallIs says.
LEMMA SetUseTimeIs ==
  ASSUME UseTypeOk, NEW c \in UseCalls, NEW month \in UseMonths,
         NEW hour \in 0..(Hours - 1), NEW today \in DayTypes,
         SetUseTime(c, month, hour, today)
  PROVE  /\ UseTypeOk'
         /\ Complete(seasons) /\ ~OpenEnded(useCall') => seasons' = <<>> \/ Complete(seasons')
<1> DEFINE call == Validated([c EXCEPT !.month = month, !.hour = hour, !.today = today])
           plan == IF seasons = <<>> THEN DefaultPlan(call) ELSE seasons
           done == SeasonWalk(call, plan)
           out == IF Scope(call) = "plan" THEN <<>> ELSE done.out
           raises == done.failed \/ (out = <<>> /\ useMode)
<1>1. GoodOrder(call)
  BY ValidatedIs
<1>2. /\ seasons' = IF done.failed /\ Scope(call) # "plan" THEN seasons ELSE out
      /\ useCall' = [call EXCEPT !.raised = raises]
      /\ useCalls' = useCalls + 1 /\ useMode' = useMode
  BY DEF SetUseTime
<1> HIDE DEF call
<1>3. call \in UseOrders
  BY <1>1 DEF GoodOrder
<1>4. seasons \in Seq(Seasons)
  BY DEF UseTypeOk
<1>5. plan \in Seq(Seasons)
  BY <1>3, <1>4, DefaultPlanIs
<1>6. Complete(seasons) => plan = seasons
  BY DEF Complete, CoversYear
<1> HIDE DEF plan
<1>7. UseCallDone(call, seasons, seasons')
  BY <1>1, <1>2, <1>4, <1>5, <1>6, UseCallIs
<1>8. OpenEnded(useCall') <=> OpenEnded(call)
  <2>1. useCall' = [call EXCEPT !.raised = raises]
    BY <1>2
  <2> HIDE DEF raises
  <2>2. /\ useCall'.delete = call.delete
        /\ useCall'.startMonth = call.startMonth /\ useCall'.endMonth = call.endMonth
        /\ useCall'.startHour = call.startHour /\ useCall'.endHour = call.endHour
    BY <2>1, <1>3 DEF UseOrders
  <2> QED BY <2>2 DEF OpenEnded
<1>9. UseTypeOk'
  BY <1>2, <1>7 DEF UseTypeOk, UseCallDone
<1>10. Complete(seasons) /\ ~OpenEnded(useCall') => seasons' = <<>> \/ Complete(seasons')
  BY <1>1, <1>7, <1>8 DEF UseCallDone, Closed
<1> QED BY <1>9, <1>10

\* The plan is a list of seasons, each with slots and prices for both day
\* types, after every call, whatever it makes of the plan.
THEOREM UsePlanTyped == UseSpec => []UseTypeOk
<1>1. UseInit => UseTypeOk
  BY UseAssumption DEF UseInit, UseTypeOk
<1>2. UseTypeOk /\ [UseNext]_useVars => UseTypeOk'
  <2>1. ASSUME UseTypeOk, UseNext PROVE UseTypeOk'
    BY <2>1, SetUseTimeIs DEF UseNext
  <2>2. ASSUME UseTypeOk, UNCHANGED useVars PROVE UseTypeOk'
    BY <2>2 DEF UseTypeOk, useVars
  <2> QED BY <2>1, <2>2
<1> QED BY <1>1, <1>2, PTL DEF UseSpec

\* A complete plan stays complete whatever a call splits, extends, merges or
\* deletes, or goes as a whole.
THEOREM UsePlansComplete == UseSpec => UsePlanStaysComplete
<1> DEFINE Kept == useCalls' # useCalls /\ Complete(seasons) /\ ~OpenEnded(useCall')
                     => seasons' = <<>> \/ Complete(seasons')
<1>1. UseTypeOk /\ [UseNext]_useVars => [Kept]_useVars
  <2>1. ASSUME UseTypeOk, UseNext PROVE Kept
    BY <2>1, SetUseTimeIs DEF UseNext
  <2>2. ASSUME UNCHANGED useVars PROVE [Kept]_useVars
    BY <2>2
  <2> QED BY <2>1, <2>2
<1> QED BY <1>1, UsePlanTyped, PTL DEF UseSpec, UsePlanStaysComplete

=============================================================================
