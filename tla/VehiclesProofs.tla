--------------------------- MODULE VehiclesProofs ---------------------------
(***************************************************************************)
(* Proofs about Vehicles, for any catalogue, garage and bounds, whatever   *)
(* order the variants come in and however the poll, the user's calls, the  *)
(* app and failures interleave.                                            *)
(*                                                                         *)
(* First the choice of a variant: the pass over the options ends with the  *)
(* one of the selected id, or one of the present capacity, whatever their  *)
(* order.  Then VehicleInv: an errand that counts is the only one since it *)
(* began, so the dictionary and the list it holds are those of the cache,  *)
(* and the cache is as far as the errand is (StageOf); an errand about to  *)
(* restore attributes asks for the variants of its own car (RestoreOk).    *)
(***************************************************************************)
EXTENDS Vehicles, FiniteSetTheorems, WellFoundedInduction, TLAPS

(***************************************************************************)
(* The choice of a variant.                                                *)
(***************************************************************************)
\* Induction over the numbers of a set.
LEMMA NatSet ==
  ASSUME NEW S \in SUBSET Nat, 0 \in S, \A n \in S : n + 1 \in S
  PROVE  S = Nat
<1> SUFFICES ASSUME Nat \ S # {} PROVE FALSE
  OBVIOUS
<1>1. PICK x \in Nat \ S : \A y \in Nat \ S : ~(<<y, x>> \in OpToRel(<,Nat))
  <2>1. Nat \ S \subseteq Nat OBVIOUS
  <2> QED BY <2>1, WFMin, NatLessThanWellFounded
<1>2. x # 0 /\ x - 1 \in Nat
  OBVIOUS
<1>3. CASE x - 1 \in S
  <2>1. (x - 1) + 1 \in S BY <1>3
  <2> QED BY <2>1
<1>4. CASE x - 1 \notin S
  <2>1. <<x - 1, x>> \in OpToRel(<,Nat)
    BY <1>2 DEF OpToRel
  <2> QED BY <2>1, <1>1, <1>2, <1>4
<1> QED BY <1>3, <1>4

\* best is the function of BestMatch() for the first n options.
IsBest(best, want, list, n) ==
  best = [i \in 1..n |->
            IF i = 1 THEN list[1]
            ELSE IF Better(want, best[i - 1], list[i]) THEN list[i] ELSE best[i - 1]]

\* What the pass holds after each option.
LEMMA BestStep ==
  ASSUME NEW want, NEW list, NEW n \in Nat, NEW best, IsBest(best, want, list, n),
         NEW i \in 1..n
  PROVE  best[i] = IF i = 1 THEN list[1]
                   ELSE IF Better(want, best[i - 1], list[i]) THEN list[i]
                   ELSE best[i - 1]
  BY DEF IsBest

\* The recursion defines a function, for any number of options.
LEMMA BestExists ==
  ASSUME NEW want, NEW list
  PROVE  \A n \in Nat : \E best : IsBest(best, want, list, n)
<1> DEFINE S == {n \in Nat : \E best : IsBest(best, want, list, n)}
<1>1. 0 \in S
  <2>1. IsBest([i \in 1..0 |-> list[1]], want, list, 0)
    BY DEF IsBest
  <2> QED BY <2>1
<1>2. ASSUME NEW n \in S PROVE n + 1 \in S
  <2>1. PICK best : IsBest(best, want, list, n)
    OBVIOUS
  <2>6. n \in Nat
    OBVIOUS
  <2> HIDE DEF S
  <2>5. \A i \in 1..n : best[i] = IF i = 1 THEN list[1]
                         ELSE IF Better(want, best[i - 1], list[i]) THEN list[i]
                         ELSE best[i - 1]
    BY <2>6, <2>1, BestStep
  <2> DEFINE last == IF n + 1 = 1 THEN list[1]
                     ELSE IF Better(want, best[n], list[n + 1]) THEN list[n + 1]
                     ELSE best[n]
             more == [i \in 1..(n + 1) |-> IF i = n + 1 THEN last ELSE best[i]]
             step == [i \in 1..(n + 1) |->
                        IF i = 1 THEN list[1]
                        ELSE IF Better(want, more[i - 1], list[i]) THEN list[i]
                        ELSE more[i - 1]]
  <2>2. ASSUME NEW i \in 1..(n + 1) PROVE more[i] = step[i]
    <3>1. CASE i = n + 1 /\ i = 1
      BY <3>1
    <3>2. CASE i = n + 1 /\ i # 1
      <4>1. i - 1 = n /\ n \in 1..(n + 1) /\ n # n + 1
        BY <2>6, <3>2
      <4>2. more[i - 1] = best[n]
        BY <4>1
      <4>3. more[i] = last
        BY <3>2
      <4> HIDE DEF more
      <4>4. step[i] = last
        BY <3>2, <4>1, <4>2
      <4> QED BY <4>3, <4>4
    <3>3. CASE i \in 1..n
      <4>1. i # n + 1 /\ (i # 1 => i - 1 \in 1..(n + 1) /\ i - 1 # n + 1)
        BY <2>6, <3>3
      <4>2. (i # 1 => more[i - 1] = best[i - 1]) /\ more[i] = best[i]
        BY <4>1
      <4>3. best[i] = IF i = 1 THEN list[1]
                      ELSE IF Better(want, best[i - 1], list[i]) THEN list[i]
                      ELSE best[i - 1]
        BY <2>5, <3>3
      <4> HIDE DEF more, last
      <4>4. CASE i = 1
        BY <4>2, <4>3, <4>4
      <4>5. CASE i # 1
        BY <4>2, <4>3, <4>5
      <4> QED BY <4>4, <4>5
    <3> QED BY <2>6, <3>1, <3>2, <3>3
  <2>3. more = step
    BY <2>2
  <2>4. IsBest(more, want, list, n + 1)
    BY <2>3 DEF IsBest
  <2>7. n + 1 \in Nat
    BY <2>6
  <2> HIDE DEF more, step, last
  <2> QED BY <2>4, <2>7 DEF S
<1> QED BY <1>1, <1>2, NatSet

\* The best of the first options has the id, or the capacity, if one of them has.
BestOf(m, want, list, i) ==
  /\ \E j \in 1..i : m = list[j]
  /\ want.id # NoDetail /\ (\E j \in 1..i : list[j].id = want.id) => m.id = want.id
  /\ want.id = NoDetail /\ (\E j \in 1..i : list[j].capacity = want.capacity)
       => m.capacity = want.capacity

\* After the last option the pass holds the best of all.
LEMMA BestMatchIs ==
  ASSUME NEW want, NEW list, NEW n \in Nat \ {0}, list \in Seq(Catalogue), Len(list) = n
  PROVE  BestOf(BestMatch(want, list), want, list, n)
<1> DEFINE best == CHOOSE best : IsBest(best, want, list, n)
<1>1. BestMatch(want, list) = best[n]
  BY DEF BestMatch, IsBest
<1>2. IsBest(best, want, list, n)
  BY BestExists
<1> HIDE DEF best
<1>3. \A i \in 1..n : best[i] = IF i = 1 THEN list[1]
                       ELSE IF Better(want, best[i - 1], list[i]) THEN list[i]
                       ELSE best[i - 1]
  BY <1>2, BestStep
<1> DEFINE S == {i \in Nat : i + 1 <= n => BestOf(best[i + 1], want, list, i + 1)}
<1>4. 0 \in S
  <2>1. best[1] = list[1]
    BY <1>3
  <2> QED BY <2>1 DEF BestOf
<1>5. ASSUME NEW k \in S PROVE k + 1 \in S
  <2> DEFINE i == k + 2
  <2> SUFFICES ASSUME i <= n PROVE BestOf(best[i], want, list, i)
    OBVIOUS
  <2>1. i \in 1..n /\ i # 1 /\ i - 1 = k + 1 /\ k + 1 \in Nat /\ i - 1 \in 1..(i - 1)
    OBVIOUS
  <2>2. BestOf(best[i - 1], want, list, i - 1)
    BY <2>1
  <2>3. best[i] = IF Better(want, best[i - 1], list[i]) THEN list[i] ELSE best[i - 1]
    BY <2>1, <1>3
  <2>4. \A j \in 1..i : j = i \/ j \in 1..(i - 1)
    BY <2>1
  <2>5. i \in 1..i /\ \A j \in 1..(i - 1) : j \in 1..i
    BY <2>1
  <2>6. list[i].id # NoDetail
    <3>1. list[i] \in Catalogue
      BY <2>1
    <3> QED BY <3>1, VehicleAssumption DEF NoDetail
  <2> HIDE DEF i
  <2>7. CASE Better(want, best[i - 1], list[i])
    <3>1. best[i] = list[i]
      BY <2>3, <2>7
    <3>2. want.id # NoDetail => list[i].id = want.id
      BY <2>7 DEF Better
    <3>3. want.id = NoDetail =>
            list[i].capacity = want.capacity \/ best[i - 1].capacity # want.capacity
      BY <2>6, <2>7 DEF Better
    <3>4. want.id = NoDetail /\ (\E j \in 1..i : list[j].capacity = want.capacity)
            => list[i].capacity = want.capacity
      BY <2>2, <2>4, <3>3 DEF BestOf
    <3> QED BY <2>5, <3>1, <3>2, <3>4 DEF BestOf
  <2>8. CASE ~Better(want, best[i - 1], list[i])
    <3>1. best[i] = best[i - 1]
      BY <2>3, <2>8
    <3>2. list[i].id # want.id
      BY <2>8 DEF Better
    <3>3. want.id = NoDetail => list[i].capacity # want.capacity
      BY <2>8 DEF Better
    <3> QED BY <2>2, <2>4, <2>5, <3>1, <3>2, <3>3 DEF BestOf
  <2> QED BY <2>7, <2>8
<1>6. S = Nat
  BY <1>4, <1>5, NatSet
<1> HIDE DEF S
<1>7. n - 1 \in S /\ (n - 1) + 1 = n
  BY <1>6
<1> USE DEF S
<1> QED BY <1>1, <1>7

\* The attributes that are found, in whatever order the options come.
LEMMA MatchesAre ==
  ASSUME NEW want, NEW m \in Matches(want)
  PROVE  /\ m \in VariantsOf(want.car)
         /\ want.id # NoDetail /\ (\E c \in VariantsOf(want.car) : c.id = want.id)
              => m.id = want.id
         /\ want.id = NoDetail
            /\ (\E c \in VariantsOf(want.car) : c.capacity = want.capacity)
              => m.capacity = want.capacity
<1> DEFINE V == VariantsOf(want.car)
           n == Cardinality(V)
<1>1. V \subseteq Catalogue /\ IsFiniteSet(V) /\ n \in Nat
  <2>1. V \subseteq Catalogue
    BY DEF VariantsOf
  <2> QED BY <2>1, VehicleAssumption, FS_Subset, FS_CardinalityType
<1>2. PICK list \in SetToSeqs(V) \ {<<>>} : m = BestMatch(want, list)
  BY DEF Matches
<1> HIDE DEF V
<1>3. /\ list \in [1..n -> V]
      /\ \A i, j \in 1..n : i # j => list[i] # list[j]
  BY DEF SetToSeqs
<1>4. n # 0
  <2> SUFFICES ASSUME n = 0 PROVE FALSE
    OBVIOUS
  <2>1. list \in Seq(V) /\ Len(list) = 0
    BY <1>1, <1>3
  <2> QED BY <2>1, <1>2
<1>5. list \in Seq(Catalogue) /\ Len(list) = n
  BY <1>1, <1>3
<1>6. \A c \in V : \E i \in 1..n : list[i] = c
  <2>1. list \in Injection(1..n, V)
    BY <1>3 DEF Injection, IsInjective
  <2>2. Cardinality(1..n) = n
    BY <1>1, FS_Interval
  <2>3. list \in Surjection(1..n, V)
    BY <1>1, <2>1, <2>2, FS_Injection
  <2> QED BY <2>3 DEF Surjection
<1>7. BestOf(m, want, list, n)
  BY <1>1, <1>2, <1>4, <1>5, BestMatchIs
<1>8. m \in V
  BY <1>3, <1>7 DEF BestOf
<1>9. want.id # NoDetail /\ (\E c \in V : c.id = want.id) => m.id = want.id
  BY <1>6, <1>7 DEF BestOf
<1>10. want.id = NoDetail /\ (\E c \in V : c.capacity = want.capacity)
         => m.capacity = want.capacity
  BY <1>6, <1>7 DEF BestOf
<1> QED BY <1>8, <1>9, <1>10 DEF V

(***************************************************************************)
(* Errands.                                                                *)
(***************************************************************************)
\* The attributes of an errand that runs.
ErrandFields ==
  {"task", "kind", "at", "good", "v", "clean", "left", "same", "base", "list",
   "broken", "car", "then", "fields", "entry", "check", "choice", "id",
   "capacity", "power", "use"}

IsErrand(x) == x = [f \in ErrandFields |-> x[f]]

\* What an errand keeps when it waits for something else.
Carried(e, n) ==
  /\ n.task = e.task /\ n.kind = e.kind /\ n.v = e.v /\ n.clean = e.clean
  /\ n.left = e.left /\ n.same = e.same /\ n.fields = e.fields
  /\ n.entry = e.entry /\ n.id = e.id /\ n.capacity = e.capacity

\* An errand that waits keeps what it was asked for.
LEMMA Waiting ==
  ASSUME NEW e, IsErrand(e), NEW at
  PROVE  /\ IsErrand(Waits(e, at)) /\ Carried(e, Waits(e, at))
         /\ Waits(e, at).at = at /\ Waits(e, at).car = e.car
         /\ Waits(e, at).then = e.then
  BY DEF IsErrand, ErrandFields, Carried, Waits

\* So does one that asks for options.
LEMMA Loading ==
  ASSUME NEW e, IsErrand(e), NEW car, NEW then
  PROVE  /\ IsErrand(Loads(e, car, then)) /\ Carried(e, Loads(e, car, then))
         /\ Loads(e, car, then).at = "load" /\ Loads(e, car, then).car = car
         /\ Loads(e, car, then).then = then
  BY DEF IsErrand, ErrandFields, Carried, Loads

\* An errand that met a failure keeps all but its good end.
LEMMA Spoiling ==
  ASSUME NEW e, IsErrand(e)
  PROVE  /\ IsErrand(Spoilt(e)) /\ Spoilt(e).clean = FALSE
         /\ Spoilt(e).at = e.at /\ Spoilt(e).task = e.task
         /\ Spoilt(e).kind = e.kind /\ Spoilt(e).then = e.then
         /\ Spoilt(e).car = e.car /\ Spoilt(e).fields = e.fields
         /\ Spoilt(e).id = e.id /\ Spoilt(e).v = e.v
         /\ Spoilt(e).capacity = e.capacity
  BY DEF IsErrand, ErrandFields, Spoilt

\* An errand ends well if it met no failure and was not disturbed.
LEMMA Ending ==
  ASSUME NEW e
  PROVE  ErrandOver(e).at = "idle" /\ ErrandOver(e).good = e.clean
  BY DEF ErrandOver

\* An errand whose attributes are being restored asks for its own variant.
RestoreOk(e) ==
  /\ e.at = "load" => e.then \in {"brands", "restore", "list", "register",
                                  "detailed", "over"}
  /\ e.at = "action" => e.kind \in {"delete", "default", "update", "restore"}
  /\ e.at = "load" /\ e.then = "restore" =>
       /\ e.kind = "restore" /\ e.car = e.fields
       /\ e.id # NoDetail => \E m \in VariantsOf(e.car) : m.id = e.id

Running(t, e) == IsErrand(e) /\ e.task = t /\ e.at # "idle" /\ RestoreOk(e)

\* What another call may do to an errand.
Alike(e, n) ==
  /\ n.at = e.at
  /\ e.at = "idle" /\ n.good => e.good
  /\ e.at # "idle" =>
       /\ IsErrand(n) /\ n.task = e.task /\ n.kind = e.kind /\ n.then = e.then
       /\ n.car = e.car /\ n.fields = e.fields /\ n.id = e.id
       /\ n.clean => e.clean

\* What an errand ends with, or will, counts.
Judged(e) == IF e.at = "idle" THEN e.good ELSE e.clean

\* An errand another call changes runs on, and counts no more than before.
LEMMA AlikeRuns ==
  ASSUME NEW t, NEW e, NEW n, Alike(e, n), e.at = "idle" \/ Running(t, e)
  PROVE  /\ n.at = "idle" \/ Running(t, n)
         /\ Judged(n) => Judged(e)
  BY DEF Alike, Running, RestoreOk, Judged

\* An errand whose dictionary or list is replaced is alike.
LEMMA AlikeDropped ==
  ASSUME NEW e, e.at = "idle" \/ IsErrand(e)
  PROVE  /\ Alike(e, e) /\ Alike(e, DropVehicles(e)) /\ Alike(e, DropRegistered(e))
         /\ Alike(e, DropVehicles(DropRegistered(e)))
<1>1. Alike(e, e)
  BY DEF Alike
<1>2. ASSUME e.at # "idle" PROVE Alike(e, [e EXCEPT !.same = FALSE, !.base = vehicles])
  BY <1>2 DEF Alike, IsErrand, ErrandFields
<1>3. ASSUME e.at # "idle" PROVE Alike(e, [e EXCEPT !.list = FALSE])
  BY <1>3 DEF Alike, IsErrand, ErrandFields
<1>4. Alike(e, DropVehicles(e)) /\ Alike(e, DropRegistered(e))
  BY <1>1, <1>2, <1>3 DEF DropVehicles, DropRegistered
<1>5. ASSUME e.at # "idle", NEW d, d = [e EXCEPT !.list = FALSE]
      PROVE  Alike(e, [d EXCEPT !.same = FALSE, !.base = vehicles])
  BY <1>5 DEF Alike, IsErrand, ErrandFields
<1>6. Alike(e, DropVehicles(DropRegistered(e)))
  <2>1. CASE e.at = "idle"
    BY <1>1, <2>1 DEF DropVehicles, DropRegistered
  <2>2. CASE e.at # "idle"
    <3> DEFINE d == [e EXCEPT !.list = FALSE]
    <3>1. DropRegistered(e) = d
      BY <2>2 DEF DropRegistered
    <3>2. DropVehicles(d) = d \/ DropVehicles(d) = [d EXCEPT !.same = FALSE, !.base = vehicles]
      BY DEF DropVehicles
    <3> HIDE DEF d
    <3>3. Alike(e, d)
      BY <1>3, <2>2 DEF d
    <3>4. Alike(e, [d EXCEPT !.same = FALSE, !.base = vehicles])
      BY <1>5, <2>2 DEF d
    <3> QED BY <3>1, <3>2, <3>3, <3>4
  <2> QED BY <2>1, <2>2
<1> QED BY <1>1, <1>4, <1>6

\* So is one that another call or the app disturbs; it counts no longer.
LEMMA AlikeDisturbed ==
  ASSUME NEW e, e.at = "idle" \/ IsErrand(e), NEW n,
         n = IF e.at = "idle" THEN NoErrand ELSE Spoilt(e)
  PROVE  /\ Alike(e, n) /\ ~Judged(n)
         /\ Alike(e, Breaks(n)) /\ ~Judged(Breaks(n))
<1>1. CASE e.at = "idle"
  BY <1>1 DEF Alike, Judged, NoErrand, Breaks
<1>2. CASE e.at # "idle"
  <2>1. /\ IsErrand(n) /\ n.clean = FALSE /\ n.at = e.at /\ n.task = e.task
        /\ n.kind = e.kind /\ n.then = e.then /\ n.car = e.car
        /\ n.fields = e.fields /\ n.id = e.id
    BY <1>2, Spoiling
  <2>2. Breaks(n) = n \/ Breaks(n) = [n EXCEPT !.broken = TRUE]
    BY DEF Breaks
  <2> DEFINE b == [n EXCEPT !.broken = TRUE]
  <2>3. /\ IsErrand(b) /\ b.clean = n.clean /\ b.at = n.at /\ b.task = n.task
        /\ b.kind = n.kind /\ b.then = n.then /\ b.car = n.car
        /\ b.fields = n.fields /\ b.id = n.id
    BY <2>1 DEF IsErrand, ErrandFields
  <2> HIDE DEF b
  <2>4. Alike(e, n) /\ ~Judged(n) /\ Alike(e, b) /\ ~Judged(b)
    BY <1>2, <2>1, <2>3 DEF Alike, Judged
  <2> QED BY <2>2, <2>4 DEF b
<1> QED BY <1>1, <1>2

(***************************************************************************)
(* The invariant.                                                          *)
(***************************************************************************)
\* The cached vehicles are those of the cloud.
Agree(g, vs) ==
  /\ DOMAIN vs = DOMAIN g
  /\ \A v \in DOMAIN g : /\ vs[v].car = g[v].car
                         /\ vs[v].capacity = g[v].capacity
                         /\ vs[v].default = g[v].default

\* The list of vehicles has been stored; their details may be awaited.
Listed(e) ==
  \/ e.at \in {"idle", "details"}
  \/ e.at = "load" /\ e.then \in {"detailed", "over"}

IsVehicle(x) == DOMAIN x = Attributes

\* What an errand that counts has reached.
StageOf(e, g, vs, reg) ==
  /\ Listed(e) => Agree(g, vs) /\ reg = DOMAIN g
  /\ e.at = "load" /\ e.then = "register" => Agree(g, vs) /\ e.same
  /\ e.at = "load" /\ e.then = "detailed" =>
       /\ e.same /\ e.v \in DOMAIN g /\ IsVehicle(e.entry)
       /\ e.entry.car = g[e.v].car /\ e.entry.capacity = g[e.v].capacity
       /\ e.entry.default = g[e.v].default

GarageOk(g) == \A v \in DOMAIN g : IsVehicle(g[v])

ErrandsInv ==
  /\ errands = [t \in Errands |-> errands[t]]
  /\ \A t \in Errands : errands[t].at = "idle" \/ Running(t, errands[t])

\* An errand that counts is the only one since it began.
JudgedInv ==
  \A t \in Errands :
    Judged(errands[t]) =>
      /\ StageOf(errands[t], garage, vehicles, registered)
      /\ \A u \in Errands \ {t} : errands[u].at = "idle" /\ ~errands[u].good

VehicleInv == GarageOk(garage) /\ ErrandsInv /\ JudgedInv

\* The attributes sent are those of the selected variant.
Exact(e) ==
  /\ e.choice.car = e.fields
  /\ e.id # NoDetail => e.choice.id = e.id
  /\ e.id = NoDetail /\ (\E m \in VariantsOf(e.fields) : m.capacity = e.capacity)
       => e.choice.capacity = e.capacity

Sends(e, n) == e.at # "action" /\ n.at = "action" /\ n.kind = "restore" => Exact(n)

\* One step of an errand that runs: it goes on as n, and the others are alike.
Advances(t, others, n) ==
  /\ \A u \in Errands : Alike(errands[u], others[u])
  /\ errands' = [u \in Errands |-> IF u = t THEN n ELSE others[u]]
  /\ n.at = "idle" \/ Running(t, n)
  /\ Judged(n) => /\ Judged(errands[t])
                  /\ StageOf(n, garage', vehicles', registered')
  /\ Sends(errands[t], n)

\* An errand starts, or a change by the app: no other one counts any more.
Begins(t, others, n) ==
  /\ \A u \in Errands : Alike(errands[u], others[u]) /\ ~Judged(others[u])
  /\ errands' = [u \in Errands |-> IF u = t THEN n ELSE others[u]]
  /\ n.at = "idle" \/ Running(t, n)
  /\ Judged(n) => /\ \A u \in Errands : errands[u].at = "idle"
                  /\ StageOf(n, garage', vehicles', registered')
  /\ Sends(errands[t], n)

RestoreStep == \A t \in Errands : Sends(errands[t], errands'[t])

\* The step of an errand that runs keeps the invariant.
LEMMA AdvanceKeeps ==
  ASSUME VehicleInv, NEW t \in Errands, errands[t].at # "idle", NEW others, NEW n,
         Advances(t, others, n), GarageOk(garage)'
  PROVE  VehicleInv' /\ RestoreStep
<1>1. \A u \in Errands : errands'[u] = IF u = t THEN n ELSE others[u]
  BY DEF Advances
<1>2. ErrandsInv'
  <2>1. errands' = [u \in Errands |-> errands'[u]]
    BY <1>1 DEF Advances
  <2>2. ASSUME NEW u \in Errands PROVE errands'[u].at = "idle" \/ Running(u, errands'[u])
    <3>1. errands[u].at = "idle" \/ Running(u, errands[u])
      BY DEF VehicleInv, ErrandsInv
    <3> QED BY <1>1, <3>1, AlikeRuns DEF Advances
  <2> QED BY <2>1, <2>2 DEF ErrandsInv, Running, RestoreOk, VariantsOf
<1>3. ASSUME NEW u \in Errands \ {t} PROVE ~Judged(errands'[u])
  <2>1. errands[u].at = "idle" \/ Running(u, errands[u])
    BY DEF VehicleInv, ErrandsInv
  <2>2. ~Judged(errands[u])
    BY DEF VehicleInv, JudgedInv
  <2> QED BY <1>1, <2>1, <2>2, AlikeRuns DEF Advances
<1>4. ASSUME Judged(n), NEW u \in Errands \ {t}
      PROVE  errands'[u].at = "idle" /\ ~errands'[u].good
  <2>1. Judged(errands[t])
    BY <1>4 DEF Advances
  <2>2. errands[u].at = "idle" /\ ~errands[u].good
    BY <2>1 DEF VehicleInv, JudgedInv
  <2> QED BY <1>1, <2>2 DEF Advances, Alike
<1>5. JudgedInv'
  <2> SUFFICES ASSUME NEW w \in Errands, Judged(errands'[w])
               PROVE  /\ StageOf(errands'[w], garage', vehicles', registered')
                      /\ \A u \in Errands \ {w} :
                           errands'[u].at = "idle" /\ ~errands'[u].good
    BY DEF JudgedInv, Judged, StageOf, Listed, Agree, IsVehicle
  <2>1. w = t /\ errands'[w] = n
    BY <1>1, <1>3
  <2> QED BY <1>4, <2>1 DEF Advances
<1>6. RestoreStep
  <2> SUFFICES ASSUME NEW u \in Errands PROVE Sends(errands[u], errands'[u])
    BY DEF RestoreStep
  <2>1. CASE u = t
    BY <1>1, <2>1 DEF Advances
  <2>2. CASE u # t
    BY <1>1, <2>2 DEF Advances, Alike, Sends
  <2> QED BY <2>1, <2>2
<1> QED BY <1>2, <1>5, <1>6 DEF VehicleInv

\* So does the start of an errand.
LEMMA BeginKeeps ==
  ASSUME VehicleInv, NEW t \in Errands, NEW others, NEW n, Begins(t, others, n),
         GarageOk(garage)'
  PROVE  VehicleInv' /\ RestoreStep
<1>1. \A u \in Errands : errands'[u] = IF u = t THEN n ELSE others[u]
  BY DEF Begins
<1>2. ErrandsInv'
  <2>1. errands' = [u \in Errands |-> errands'[u]]
    BY <1>1 DEF Begins
  <2>2. ASSUME NEW u \in Errands PROVE errands'[u].at = "idle" \/ Running(u, errands'[u])
    <3>1. errands[u].at = "idle" \/ Running(u, errands[u])
      BY DEF VehicleInv, ErrandsInv
    <3> QED BY <1>1, <3>1, AlikeRuns DEF Begins
  <2> QED BY <2>1, <2>2 DEF ErrandsInv, Running, RestoreOk, VariantsOf
<1>3. ASSUME NEW u \in Errands \ {t} PROVE ~Judged(errands'[u])
  BY <1>1 DEF Begins
<1>4. ASSUME Judged(n), NEW u \in Errands \ {t}
      PROVE  errands'[u].at = "idle" /\ ~errands'[u].good
  <2>1. errands[u].at = "idle"
    BY <1>4 DEF Begins
  <2>2. errands'[u].at = "idle"
    BY <1>1, <2>1 DEF Begins, Alike
  <2> QED BY <1>3, <2>2 DEF Judged
<1>5. JudgedInv'
  <2> SUFFICES ASSUME NEW w \in Errands, Judged(errands'[w])
               PROVE  /\ StageOf(errands'[w], garage', vehicles', registered')
                      /\ \A u \in Errands \ {w} :
                           errands'[u].at = "idle" /\ ~errands'[u].good
    BY DEF JudgedInv, Judged, StageOf, Listed, Agree, IsVehicle
  <2>1. w = t /\ errands'[w] = n
    BY <1>1, <1>3
  <2> QED BY <1>4, <2>1 DEF Begins
<1>6. RestoreStep
  <2> SUFFICES ASSUME NEW u \in Errands PROVE Sends(errands[u], errands'[u])
    BY DEF RestoreStep
  <2>1. CASE u = t
    BY <1>1, <2>1 DEF Begins
  <2>2. CASE u # t
    BY <1>1, <2>2 DEF Begins, Alike, Sends
  <2> QED BY <2>1, <2>2
<1> QED BY <1>2, <1>5, <1>6 DEF VehicleInv

\* Whatever an errand stores, the others are alike.
LEMMA OthersAlike ==
  ASSUME ErrandsInv, NEW others \in {errands, OwnVehicles, OwnRegistered, OwnBoth}
  PROVE  /\ others = [u \in Errands |-> others[u]]
         /\ \A u \in Errands : Alike(errands[u], others[u])
<1>1. \A u \in Errands : errands[u].at = "idle" \/ IsErrand(errands[u])
  BY DEF ErrandsInv, Running
<1>2. CASE others = errands
  BY <1>1, <1>2, AlikeDropped DEF ErrandsInv
<1>3. CASE others = OwnVehicles
  <2>1. \A u \in Errands : others[u] = DropVehicles(errands[u])
    BY <1>3 DEF OwnVehicles
  <2> QED BY <1>1, <1>3, <2>1, AlikeDropped DEF OwnVehicles
<1>4. CASE others = OwnRegistered
  <2>1. \A u \in Errands : others[u] = DropRegistered(errands[u])
    BY <1>4 DEF OwnRegistered
  <2> QED BY <1>1, <1>4, <2>1, AlikeDropped DEF OwnRegistered
<1>5. CASE others = OwnBoth
  <2>1. \A u \in Errands : others[u] = DropVehicles(DropRegistered(errands[u]))
    BY <1>5 DEF OwnBoth
  <2> QED BY <1>1, <1>5, <2>1, AlikeDropped DEF OwnBoth
<1> QED BY <1>2, <1>3, <1>4, <1>5

\* What an errand does after it stored a list or a vehicle.
Follows(e, n) ==
  \/ n.at = "idle" /\ n.good = e.clean
  \/ /\ IsErrand(n) /\ n.task = e.task /\ n.clean = e.clean
     /\ \/ n.at = "details"
        \/ n.at = "load" /\ n.then = "over"

\* The next vehicle is asked for, or the options of the choice, or it is over.
LEMMA NextFollows ==
  ASSUME NEW e, IsErrand(e), NEW known, NEW others,
         others = [u \in Errands |-> others[u]], NextDetails(e, known, others)
  PROVE  \E n : /\ Follows(e, n)
                /\ errands' = [u \in Errands |-> IF u = e.task THEN n ELSE others[u]]
<1> DEFINE least == CHOOSE v \in e.left : \A w \in e.left : v <= w
           d == [Waits(e, "details") EXCEPT !.v = least, !.left = @ \ {least}]
           n == IF e.left # {} THEN d
                ELSE IF MissingNodes(known, e.fields) # {}
                  THEN Loads(e, e.fields, "over")
                ELSE ErrandOver(e)
<1>1. errands' = [others EXCEPT ![e.task] = n]
  BY DEF NextDetails
<1>2. errands' = [u \in Errands |-> IF u = e.task THEN n ELSE others[u]]
  <2> HIDE DEF n
  <2> QED BY <1>1
<1>3. Follows(e, d)
  <2>1. /\ IsErrand(Waits(e, "details")) /\ Carried(e, Waits(e, "details"))
        /\ Waits(e, "details").at = "details"
    BY Waiting
  <2> HIDE DEF least
  <2> QED BY <2>1 DEF IsErrand, ErrandFields, Carried, Follows
<1>4. Follows(e, Loads(e, e.fields, "over"))
  BY Loading DEF Follows, Carried
<1>5. Follows(e, ErrandOver(e))
  BY Ending DEF Follows
<1>6. Follows(e, n)
  BY <1>3, <1>4, <1>5
<1> HIDE DEF n
<1> QED BY <1>2, <1>6

\* Once the vehicles agree, what follows counts if the errand did.
LEMMA FollowsAdvance ==
  ASSUME ErrandsInv, NEW t \in Errands, errands[t].at # "idle",
         NEW e, e.task = t, e.clean => errands[t].clean,
         NEW others \in {errands, OwnVehicles, OwnRegistered, OwnBoth},
         NEW n, Follows(e, n),
         errands' = [u \in Errands |-> IF u = e.task THEN n ELSE others[u]],
         e.clean => Agree(garage', vehicles') /\ registered' = DOMAIN garage'
  PROVE  Advances(t, others, n)
<1>1. Running(t, n) \/ n.at = "idle"
  BY DEF Follows, Running, RestoreOk
<1>2. Judged(n) => e.clean
  BY DEF Judged, Follows
<1>3. n.at \in {"idle", "details"} \/ (n.at = "load" /\ n.then = "over")
  BY DEF Follows
<1>4. Judged(n) => Judged(errands[t])
  BY <1>2 DEF Judged
<1>5. Judged(n) => StageOf(n, garage', vehicles', registered')
  BY <1>2, <1>3 DEF StageOf
<1>6. Sends(errands[t], n)
  BY <1>3 DEF Sends
<1> QED BY <1>1, <1>4, <1>5, <1>6, OthersAlike DEF Advances

\* An errand that only goes on: the caches do not matter to it.
LEMMA GoesOn ==
  ASSUME ErrandsInv, NEW t \in Errands, errands[t].at # "idle",
         NEW others \in {errands, OwnVehicles, OwnRegistered, OwnBoth},
         NEW n, errands' = [others EXCEPT ![t] = n],
         n.at = "idle" \/ Running(t, n),
         Judged(n) => /\ Judged(errands[t])
                      /\ StageOf(n, garage', vehicles', registered'),
         Sends(errands[t], n)
  PROVE  Advances(t, others, n)
<1>1. /\ others = [u \in Errands |-> others[u]]
      /\ \A u \in Errands : Alike(errands[u], others[u])
  BY OthersAlike
<1>2. errands' = [u \in Errands |-> IF u = t THEN n ELSE others[u]]
  BY <1>1
<1> QED BY <1>1, <1>2 DEF Advances

\* An errand that asks for the list of vehicles.
LEMMA WaitsAdvance ==
  ASSUME ErrandsInv, NEW t \in Errands, errands[t].at # "idle",
         NEW e, IsErrand(e), e.task = t, e.clean => errands[t].clean,
         NEW others \in {errands, OwnVehicles, OwnRegistered, OwnBoth},
         errands' = [others EXCEPT ![e.task] = Waits(e, "list")]
  PROVE  Advances(t, others, Waits(e, "list"))
<1> DEFINE n == Waits(e, "list")
<1>1. /\ IsErrand(n) /\ n.task = t /\ n.clean = e.clean /\ n.at = "list"
  BY Waiting DEF Carried
<1> HIDE DEF n
<1>2. Running(t, n) /\ (Judged(n) => Judged(errands[t])) /\ Sends(errands[t], n)
  BY <1>1 DEF Running, RestoreOk, Judged, Sends
<1>3. StageOf(n, garage', vehicles', registered')
  BY <1>1 DEF StageOf, Listed
<1> QED BY <1>2, <1>3, GoesOn DEF n

\* An errand that asks for options on its way.
LEMMA LoadsAdvance ==
  ASSUME ErrandsInv, NEW t \in Errands, errands[t].at # "idle",
         NEW e, IsErrand(e), e.task = t, e.clean => errands[t].clean,
         NEW others \in {errands, OwnVehicles, OwnRegistered, OwnBoth},
         NEW car, NEW then \in {"list", "register", "detailed", "over"},
         errands' = [others EXCEPT ![e.task] = Loads(e, car, then)],
         e.clean => StageOf(Loads(e, car, then), garage', vehicles', registered')
  PROVE  Advances(t, others, Loads(e, car, then))
<1> DEFINE n == Loads(e, car, then)
<1>1. /\ IsErrand(n) /\ n.task = t /\ n.clean = e.clean /\ n.at = "load"
      /\ n.then = then
  BY Loading DEF Carried
<1>2. e.clean => StageOf(n, garage', vehicles', registered')
  OBVIOUS
<1> HIDE DEF n
<1>3. Running(t, n) /\ (Judged(n) => Judged(errands[t])) /\ Sends(errands[t], n)
  BY <1>1 DEF Running, RestoreOk, Judged, Sends
<1>4. Judged(n) => StageOf(n, garage', vehicles', registered')
  BY <1>1, <1>2 DEF Judged
<1> QED BY <1>3, <1>4, GoesOn DEF n

\* An errand that ends; what it leaves counts if it did.
LEMMA EndAdvance ==
  ASSUME ErrandsInv, NEW t \in Errands, errands[t].at # "idle",
         NEW e, e.task = t, e.clean => errands[t].clean,
         e.clean => Agree(garage', vehicles') /\ registered' = DOMAIN garage',
         errands' = [errands EXCEPT ![e.task] = ErrandOver(e)]
  PROVE  Advances(t, errands, ErrandOver(e))
<1> DEFINE n == ErrandOver(e)
<1>1. n.at = "idle" /\ n.good = e.clean
  BY Ending
<1> HIDE DEF n
<1>2. (Judged(n) => Judged(errands[t])) /\ Sends(errands[t], n)
  BY <1>1 DEF Judged, Sends
<1>3. Judged(n) => StageOf(n, garage', vehicles', registered')
  BY <1>1 DEF Judged, StageOf
<1> QED BY <1>1, <1>2, <1>3, GoesOn DEF n

\* What a vehicle's details are stored from.
EntryTrue(e) ==
  /\ Agree(garage, vehicles) /\ registered = DOMAIN garage /\ e.same
  /\ e.v \in DOMAIN garage /\ IsVehicle(e.entry)
  /\ e.entry.car = garage[e.v].car /\ e.entry.capacity = garage[e.v].capacity
  /\ e.entry.default = garage[e.v].default

\* An errand that stored what it was told goes on.
LEMMA NextAdvances ==
  ASSUME ErrandsInv, NEW t \in Errands, errands[t].at # "idle",
         NEW e, IsErrand(e), e.task = t, e.clean => errands[t].clean,
         NEW others \in {errands, OwnVehicles, OwnRegistered, OwnBoth},
         NEW known, NextDetails(e, known, others),
         e.clean => Agree(garage', vehicles') /\ registered' = DOMAIN garage'
  PROVE  \E n : Advances(t, others, n)
<1>1. others = [u \in Errands |-> others[u]]
  BY OthersAlike
<1>2. PICK n :
        /\ Follows(e, n)
        /\ errands' = [u \in Errands |-> IF u = e.task THEN n ELSE others[u]]
  BY <1>1, NextFollows
<1> QED BY <1>2, FollowsAdvance

\* get_vehicle_list(): the options of the next vehicle, or all are registered.
LEMMA RegisterAdvances ==
  ASSUME ErrandsInv, NEW t \in Errands, errands[t].at # "idle",
         NEW e, IsErrand(e), e.task = t, e.clean => errands[t].clean,
         e.clean => Agree(garage, vehicles) /\ e.same,
         garage' = garage, vehicles' = vehicles, NEW known, Register(e, known)
  PROVE  \E others, n : Advances(t, others, n)
<1> DEFINE seen == Held(e)
           open == {v \in DOMAIN seen \ registered :
                      MissingNodes(known, seen[v].car) # {}}
           v == CHOOSE v \in open : \A w \in open : v <= w
<1>1. \/ errands' = [errands EXCEPT ![e.task] = Loads(e, seen[v].car, "register")]
      \/ registered' = DOMAIN seen /\ NextDetails(e, known, OwnRegistered)
  BY DEF Register
<1>2. e.clean => seen = vehicles
  BY DEF Held
<1> HIDE DEF seen, open, v
<1>3. CASE errands' = [errands EXCEPT ![e.task] = Loads(e, seen[v].car, "register")]
  <2> DEFINE car == seen[v].car
             n == Loads(e, car, "register")
  <2>1. e.clean => StageOf(n, garage', vehicles', registered')
    <3>1. n.at = "load" /\ n.then = "register" /\ n.same = e.same
      BY Loading DEF Carried
    <3> HIDE DEF n
    <3> QED BY <3>1 DEF StageOf, Listed
  <2>2. Advances(t, errands, n)
    BY <1>3, <2>1, LoadsAdvance
  <2> QED BY <2>2
<1>4. CASE registered' = DOMAIN seen /\ NextDetails(e, known, OwnRegistered)
  <2>1. e.clean => Agree(garage', vehicles') /\ registered' = DOMAIN garage'
    BY <1>2, <1>4 DEF Agree
  <2> QED BY <1>4, <2>1, NextAdvances
<1> QED BY <1>1, <1>3, <1>4

\* get_vehicle_details(): the vehicle is stored over the dictionary it holds.
LEMMA WriteAdvances ==
  ASSUME ErrandsInv, NEW t \in Errands, errands[t].at # "idle",
         NEW e, IsErrand(e), e.task = t, e.clean => errands[t].clean,
         e.clean => EntryTrue(e), garage' = garage, NEW known, Write(e, known)
  PROVE  \E others, n : Advances(t, others, n)
<1>1. PICK id : vehicles' = Added(Held(e), e.v, [e.entry EXCEPT !.id = id])
  BY DEF Write
<1>2. NextDetails(e, known, OwnVehicles)
  BY DEF Write
<1>3. ASSUME e.clean PROVE registered' = DOMAIN garage'
  BY <1>3 DEF Write, EntryTrue
<1>4. ASSUME e.clean PROVE Agree(garage', vehicles')
  <2> DEFINE entry == [e.entry EXCEPT !.id = id]
  <2>1. /\ Agree(garage, vehicles) /\ e.v \in DOMAIN garage
        /\ IsVehicle(e.entry) /\ e.entry.car = garage[e.v].car
        /\ e.entry.capacity = garage[e.v].capacity
        /\ e.entry.default = garage[e.v].default /\ Held(e) = vehicles
    BY <1>4 DEF EntryTrue, Held
  <2>2. entry.car = garage[e.v].car /\ entry.capacity = garage[e.v].capacity
        /\ entry.default = garage[e.v].default
    BY <2>1 DEF IsVehicle, Attributes
  <2> HIDE DEF entry
  <2>3. vehicles' = [w \in DOMAIN garage |-> IF w = e.v THEN entry ELSE vehicles[w]]
    BY <1>1, <2>1 DEF Added, Agree, entry
  <2> QED BY <2>1, <2>2, <2>3 DEF Agree
<1> QED BY <1>2, <1>3, <1>4, NextAdvances

\* It is stored at once, or its options are asked for first.
LEMMA AskAdvances ==
  ASSUME ErrandsInv, NEW t \in Errands, errands[t].at # "idle",
         NEW e, IsErrand(e), e.task = t, e.clean => errands[t].clean,
         e.clean => EntryTrue(e), garage' = garage, NEW known, AskOptions(e, known)
  PROVE  \E others, n : Advances(t, others, n)
<1>1. CASE Write(e, known)
  BY <1>1, WriteAdvances
<1>2. CASE /\ errands' = [errands EXCEPT ![e.task] = Loads(e, e.entry.car, "detailed")]
           /\ UNCHANGED <<vehicles, registered>>
  <2> DEFINE car == e.entry.car
             n == Loads(e, car, "detailed")
  <2>1. e.clean => StageOf(n, garage', vehicles', registered')
    <3>1. n.at = "load" /\ n.then = "detailed" /\ Carried(e, n)
      BY Loading
    <3> HIDE DEF n
    <3> QED BY <1>2, <3>1 DEF StageOf, Listed, EntryTrue, Carried
  <2>2. Advances(t, errands, n)
    BY <1>2, <2>1, LoadsAdvance
  <2> QED BY <2>2
<1> QED BY <1>1, <1>2 DEF AskOptions

\* An errand that looks the attributes of its variant up.
Restores(e) ==
  /\ e.kind = "restore" /\ e.car = e.fields
  /\ e.id # NoDetail => \E m \in VariantsOf(e.car) : m.id = e.id

\* manage_vehicle() sends what get_vehicle_attributes() found, or ends.
LEMMA RestoredIs ==
  ASSUME NEW t, NEW e, IsErrand(e), e.task = t, Restores(e), NEW n \in Restored(e)
  PROVE  /\ \/ n.at = "idle" /\ ~n.good
            \/ n.at = "action" /\ Running(t, n) /\ n.clean = e.clean
         /\ n.at = "action" => Exact(n)
<1>1. CASE n = ErrandOver(Spoilt(e))
  BY <1>1, Ending, Spoiling
<1>2. CASE n # ErrandOver(Spoilt(e))
  <2>1. PICK m \in Matches(e) : n = [Waits(e, "action") EXCEPT !.choice = m]
    BY <1>2 DEF Restored
  <2> DEFINE w == Waits(e, "action")
  <2>2. /\ IsErrand(w) /\ w.at = "action" /\ w.task = t /\ w.kind = "restore"
        /\ w.clean = e.clean /\ w.fields = e.fields /\ w.id = e.id
        /\ w.capacity = e.capacity
    BY Waiting DEF Carried, Restores
  <2> HIDE DEF w
  <2>3. /\ IsErrand(n) /\ n.at = "action" /\ n.task = t /\ n.kind = "restore"
        /\ n.clean = e.clean /\ n.fields = e.fields /\ n.id = e.id
        /\ n.capacity = e.capacity /\ n.choice = m
    BY <2>1, <2>2 DEF w, IsErrand, ErrandFields
  <2>4. /\ m.car = e.car
        /\ e.id # NoDetail /\ (\E c \in VariantsOf(e.car) : c.id = e.id) => m.id = e.id
        /\ e.id = NoDetail
           /\ (\E c \in VariantsOf(e.car) : c.capacity = e.capacity)
             => m.capacity = e.capacity
    BY MatchesAre DEF VariantsOf
  <2>5. Exact(n)
    BY <2>3, <2>4 DEF Exact, Restores
  <2>6. Running(t, n)
    BY <2>3 DEF Running, RestoreOk
  <2> QED BY <2>3, <2>5, <2>6
<1> QED BY <1>1, <1>2

\* The steps of errands that run: an answer for a node of the tree,
LEMMA LoadAdvances ==
  ASSUME VehicleInv, NEW t \in Errands, Load(t)
  PROVE  /\ errands[t].at # "idle" /\ GarageOk(garage)'
         /\ \E others, n : Advances(t, others, n)
<1> DEFINE e == errands[t]
           known == options \cup IF MissingNodes(options, e.car) = {} THEN {}
                                 ELSE {NextNode(options, e.car)}
<1>1. /\ e.at = "load" /\ garage' = garage
      /\ IF MissingNodes(known, e.car) # {}
           THEN UNCHANGED <<errands, vehicles, registered>>
         ELSE CASE e.then = "brands" ->
                     /\ registered' = {}
                     /\ errands' = [OwnRegistered EXCEPT ![e.task] = Waits(e, "list")]
                     /\ UNCHANGED vehicles
                [] e.then = "restore" ->
                     /\ \E next \in Restored(e) :
                          errands' = [errands EXCEPT ![t] = next]
                     /\ UNCHANGED <<vehicles, registered>>
                [] e.then = "list" -> Ask(e, "list")
                [] e.then = "register" ->
                     IF e.broken THEN Finish(Spoilt(e))
                     ELSE Register(e, known) /\ UNCHANGED vehicles
                [] e.then = "detailed" -> Write(e, known)
                [] e.then = "over" -> Finish(e)
  BY DEF Load
<1>2. /\ ErrandsInv /\ Running(t, e) /\ GarageOk(garage) /\ e.at # "idle"
      /\ IsErrand(e) /\ e.task = t /\ RestoreOk(e)
  BY <1>1 DEF VehicleInv, ErrandsInv, Running
<1>3. e.clean => Judged(e) /\ StageOf(e, garage, vehicles, registered)
  BY <1>2 DEF VehicleInv, JudgedInv, Judged
<1>4. e.then \in {"brands", "restore", "list", "register", "detailed", "over"}
  BY <1>1, <1>2 DEF RestoreOk
<1>5. GarageOk(garage)'
  BY <1>1, <1>2 DEF GarageOk, IsVehicle
<1> HIDE DEF known
<1>6. CASE MissingNodes(known, e.car) # {}
  <2>1. UNCHANGED <<errands, vehicles, registered>>
    BY <1>1, <1>6
  <2>2. errands' = [errands EXCEPT ![t] = e]
    BY <2>1, <1>2 DEF ErrandsInv
  <2>3. Judged(e) => StageOf(e, garage', vehicles', registered')
    BY <1>1, <1>2, <1>3, <2>1 DEF Judged
  <2>4. Advances(t, errands, e)
    BY <1>1, <1>2, <2>2, <2>3, GoesOn DEF Sends
  <2> QED BY <1>2, <1>5, <2>4
<1>7. CASE MissingNodes(known, e.car) = {} /\ e.then = "brands"
  <2>1. errands' = [OwnRegistered EXCEPT ![e.task] = Waits(e, "list")]
    BY <1>1, <1>7
  <2>2. Advances(t, OwnRegistered, Waits(e, "list"))
    BY <1>2, <2>1, WaitsAdvance
  <2> QED BY <1>2, <1>5, <2>2
<1>8. CASE MissingNodes(known, e.car) = {} /\ e.then = "restore"
  <2>1. PICK n \in Restored(e) : errands' = [errands EXCEPT ![t] = n]
    BY <1>1, <1>8
  <2>2. Restores(e)
    BY <1>1, <1>2, <1>8 DEF RestoreOk, Restores
  <2>3. /\ \/ n.at = "idle" /\ ~n.good
           \/ n.at = "action" /\ Running(t, n) /\ n.clean = e.clean
        /\ n.at = "action" => Exact(n)
    BY <1>2, <2>2, RestoredIs
  <2>4. Judged(n) => Judged(e) /\ StageOf(n, garage', vehicles', registered')
    BY <1>2, <2>3 DEF Judged, StageOf, Listed
  <2>5. Advances(t, errands, n)
    BY <1>2, <2>1, <2>3, <2>4, GoesOn DEF Sends
  <2> QED BY <1>2, <1>5, <2>5
<1>9. CASE MissingNodes(known, e.car) = {} /\ e.then = "list"
  <2>1. errands' = [errands EXCEPT ![e.task] = Waits(e, "list")]
    BY <1>1, <1>9 DEF Ask
  <2>2. Advances(t, errands, Waits(e, "list"))
    BY <1>2, <2>1, WaitsAdvance
  <2> QED BY <1>2, <1>5, <2>2
<1>10. CASE MissingNodes(known, e.car) = {} /\ e.then = "register"
  <2>1. CASE e.broken
    <3> DEFINE s == Spoilt(e)
    <3>1. errands' = [errands EXCEPT ![s.task] = ErrandOver(s)]
      BY <1>1, <1>10, <2>1 DEF Finish
    <3>2. s.task = t /\ s.clean = FALSE
      BY <1>2, Spoiling
    <3> HIDE DEF s
    <3>3. Advances(t, errands, ErrandOver(s))
      BY <1>2, <3>1, <3>2, EndAdvance
    <3> QED BY <1>2, <1>5, <3>3
  <2>2. CASE ~e.broken
    <3>1. Register(e, known) /\ vehicles' = vehicles
      BY <1>1, <1>10, <2>2
    <3>2. e.clean => Agree(garage, vehicles) /\ e.same
      BY <1>1, <1>3, <1>10 DEF StageOf
    <3> QED BY <1>1, <1>2, <1>5, <3>1, <3>2, RegisterAdvances
  <2> QED BY <2>1, <2>2
<1>11. CASE MissingNodes(known, e.car) = {} /\ e.then = "detailed"
  <2>1. Write(e, known)
    BY <1>1, <1>11
  <2>2. e.clean => EntryTrue(e)
    BY <1>1, <1>3, <1>11 DEF StageOf, Listed, EntryTrue
  <2> QED BY <1>1, <1>2, <1>5, <2>1, <2>2, WriteAdvances
<1>12. CASE MissingNodes(known, e.car) = {} /\ e.then = "over"
  <2>1. /\ errands' = [errands EXCEPT ![e.task] = ErrandOver(e)]
        /\ UNCHANGED <<vehicles, registered>>
    BY <1>1, <1>12 DEF Finish
  <2>2. e.clean => Agree(garage', vehicles') /\ registered' = DOMAIN garage'
    BY <1>1, <1>3, <1>12, <2>1 DEF StageOf, Listed
  <2>3. Advances(t, errands, ErrandOver(e))
    BY <1>2, <2>1, <2>2, EndAdvance
  <2> QED BY <1>2, <1>5, <2>3
<1> QED BY <1>2, <1>4, <1>5, <1>6, <1>7, <1>8, <1>9, <1>10, <1>11, <1>12

\* the list of vehicles,
LEMMA AnswerListAdvances ==
  ASSUME VehicleInv, NEW t \in Errands, AnswerList(t)
  PROVE  /\ errands[t].at # "idle" /\ GarageOk(garage)'
         /\ \E others, n : Advances(t, others, n)
<1> DEFINE e == errands[t]
           listed == [v \in DOMAIN garage |-> Entry(Cached(vehicles, v), garage[v])]
           held == [e EXCEPT !.same = TRUE, !.list = TRUE, !.broken = FALSE,
                      !.left = IF e.kind = "poll" THEN DOMAIN garage
                               ELSE IF e.kind = "delete" THEN {} ELSE {e.v}]
           open == {v \in DOMAIN listed \ registered :
                      MissingNodes(options, listed[v].car) # {}}
           least == CHOOSE v \in open : \A w \in open : v <= w
<1>1. /\ e.at = "list" /\ garage' = garage /\ vehicles' = listed
      /\ \/ errands' = [OwnVehicles EXCEPT ![t] = Loads(held, listed[least].car, "register")]
         \/ registered' = DOMAIN listed /\ NextDetails(held, options, OwnBoth)
  BY DEF AnswerList
<1>2. ErrandsInv /\ IsErrand(e) /\ e.task = t /\ GarageOk(garage) /\ e.at # "idle"
  BY <1>1 DEF VehicleInv, ErrandsInv, Running
<1>3. GarageOk(garage)'
  BY <1>1, <1>2 DEF GarageOk, IsVehicle
<1>4. IsErrand(held) /\ held.task = t /\ held.clean = e.clean /\ held.same = TRUE
  BY <1>2 DEF IsErrand, ErrandFields
<1>5. Agree(garage, listed)
  <2>1. ASSUME NEW v \in DOMAIN garage, NEW old
        PROVE  /\ Entry(old, garage[v]).car = garage[v].car
               /\ Entry(old, garage[v]).capacity = garage[v].capacity
               /\ Entry(old, garage[v]).default = garage[v].default
    BY <1>2 DEF GarageOk, IsVehicle, Attributes, Entry
  <2> QED BY <2>1 DEF Agree
<1> HIDE DEF held, open, least, listed
<1>6. CASE errands' = [OwnVehicles EXCEPT ![t] = Loads(held, listed[least].car, "register")]
  <2> DEFINE car == listed[least].car
             n == Loads(held, car, "register")
  <2>1. StageOf(n, garage', vehicles', registered')
    <3>1. n.at = "load" /\ n.then = "register" /\ n.same = TRUE
      BY <1>4, Loading DEF Carried
    <3> HIDE DEF n
    <3> QED BY <1>1, <1>5, <3>1 DEF StageOf, Listed
  <2>2. errands' = [OwnVehicles EXCEPT ![held.task] = n]
    BY <1>4, <1>6
  <2>3. Advances(t, OwnVehicles, n)
    BY <1>2, <1>4, <2>1, <2>2, LoadsAdvance
  <2> QED BY <1>2, <1>3, <2>3
<1>7. CASE registered' = DOMAIN listed /\ NextDetails(held, options, OwnBoth)
  <2>1. Agree(garage', vehicles') /\ registered' = DOMAIN garage'
    BY <1>1, <1>5, <1>7 DEF Agree
  <2> QED BY <1>2, <1>3, <1>4, <1>7, <2>1, NextAdvances
<1> QED BY <1>1, <1>6, <1>7

\* the details of one,
LEMMA AnswerDetailsAdvances ==
  ASSUME VehicleInv, NEW t \in Errands, AnswerDetails(t)
  PROVE  /\ errands[t].at # "idle" /\ GarageOk(garage)'
         /\ \E others, n : Advances(t, others, n)
<1> DEFINE e == errands[t]
           old == Cached(vehicles, e.v)
           new == [garage[e.v] EXCEPT !.id = old.id]
           told == [e EXCEPT !.same = TRUE, !.list = TRUE, !.entry = new,
                             !.check = Doubtful(old, new)]
<1>1. /\ e.at = "details" /\ garage' = garage
      /\ IF e.v \in DOMAIN garage THEN AskOptions(told, options)
         ELSE /\ NextDetails(e, options, errands)
              /\ UNCHANGED <<vehicles, registered>>
  BY DEF AnswerDetails
<1>2. ErrandsInv /\ IsErrand(e) /\ e.task = t /\ GarageOk(garage) /\ e.at # "idle"
  BY <1>1 DEF VehicleInv, ErrandsInv, Running
<1>3. GarageOk(garage)'
  BY <1>1, <1>2 DEF GarageOk, IsVehicle
<1>4. e.clean => Agree(garage, vehicles) /\ registered = DOMAIN garage
  BY <1>1, <1>2 DEF VehicleInv, JudgedInv, Judged, StageOf, Listed
<1> HIDE DEF old
<1>5. CASE e.v \in DOMAIN garage
  <2>1. /\ IsVehicle(new) /\ new.car = garage[e.v].car
        /\ new.capacity = garage[e.v].capacity /\ new.default = garage[e.v].default
    BY <1>2, <1>5 DEF GarageOk, IsVehicle, Attributes
  <2> HIDE DEF new
  <2>2. /\ IsErrand(told) /\ told.task = t /\ told.clean = e.clean /\ told.same = TRUE
        /\ told.entry = new /\ told.v = e.v
    BY <1>2 DEF IsErrand, ErrandFields
  <2> HIDE DEF told
  <2>3. told.clean => EntryTrue(told)
    BY <1>4, <1>5, <2>1, <2>2 DEF EntryTrue
  <2>4. AskOptions(told, options)
    BY <1>1, <1>5
  <2> QED BY <1>1, <1>2, <1>3, <2>2, <2>3, <2>4, AskAdvances
<1>6. CASE e.v \notin DOMAIN garage
  <2>1. NextDetails(e, options, errands) /\ UNCHANGED <<vehicles, registered>>
    BY <1>1, <1>6
  <2>2. e.clean => Agree(garage', vehicles') /\ registered' = DOMAIN garage'
    BY <1>1, <1>4, <2>1
  <2> QED BY <1>2, <1>3, <2>1, <2>2, NextAdvances
<1> QED BY <1>5, <1>6

\* what follows an action,
LEMMA ActedAdvances ==
  ASSUME ErrandsInv, NEW t \in Errands, errands[t].at # "idle",
         NEW e, IsErrand(e), e.task = t, e.clean => errands[t].clean, Acted(e)
  PROVE  \E others, n : Advances(t, others, n)
<1>1. \/ errands' = [OwnRegistered EXCEPT ![e.task] = Waits(e, "list")]
      \/ errands' = [errands EXCEPT ![e.task] = Loads(e, e.fields, "list")]
      \/ errands' = [errands EXCEPT ![e.task] = Waits(e, "list")]
  BY DEF Acted, Ask
<1>2. CASE errands' = [OwnRegistered EXCEPT ![e.task] = Waits(e, "list")]
  <2>1. Advances(t, OwnRegistered, Waits(e, "list"))
    BY <1>2, WaitsAdvance
  <2> QED BY <2>1
<1>3. CASE errands' = [errands EXCEPT ![e.task] = Loads(e, e.fields, "list")]
  <2> DEFINE car == e.fields
             n == Loads(e, car, "list")
  <2>1. StageOf(n, garage', vehicles', registered')
    <3>1. n.at = "load" /\ n.then = "list"
      BY Loading
    <3> HIDE DEF n
    <3> QED BY <3>1 DEF StageOf, Listed
  <2>2. Advances(t, errands, n)
    BY <1>3, <2>1, LoadsAdvance
  <2> QED BY <2>2
<1>4. CASE errands' = [errands EXCEPT ![e.task] = Waits(e, "list")]
  <2>1. Advances(t, errands, Waits(e, "list"))
    BY <1>4, WaitsAdvance
  <2> QED BY <2>1
<1> QED BY <1>1, <1>2, <1>3, <1>4

\* what the cloud does with it,
LEMMA AppliedOk ==
  ASSUME GarageOk(garage), NEW e, e.v \in DOMAIN garage,
         e.kind \in {"delete", "default", "update", "restore"}
  PROVE  GarageOk(Applied(e))
<1>1. CASE e.kind = "delete"
  <2>1. Applied(e) = [v \in DOMAIN garage \ {e.v} |-> garage[v]]
    BY <1>1 DEF Applied, Without, Restrict
  <2> QED BY <2>1 DEF GarageOk, IsVehicle
<1>2. CASE e.kind = "default"
  <2>1. Applied(e) = [v \in DOMAIN garage |-> [garage[v] EXCEPT !.default = v = e.v]]
    BY <1>2 DEF Applied
  <2>2. ASSUME NEW v \in DOMAIN garage, NEW x
        PROVE  DOMAIN [garage[v] EXCEPT !.default = x] = Attributes
    BY DEF GarageOk, IsVehicle
  <2> QED BY <2>1, <2>2 DEF GarageOk, IsVehicle
<1>3. CASE e.kind = "update"
  <2> DEFINE car == e.fields \o SubSeq(garage[e.v].car, Len(e.fields) + 1, 3)
             capacity(g) == IF e.capacity # NoDetail THEN e.capacity
                            ELSE g[e.v].capacity
             g1 == [garage EXCEPT ![e.v].car = car]
  <2>1. Applied(e) = [g1 EXCEPT ![e.v].capacity = capacity(g1)]
    BY <1>3 DEF Applied
  <2> HIDE DEF car, capacity
  <2>2. GarageOk(g1) /\ DOMAIN g1 = DOMAIN garage
    BY DEF GarageOk, IsVehicle
  <2> HIDE DEF g1
  <2>3. GarageOk([g1 EXCEPT ![e.v].capacity = capacity(g1)])
    BY <2>2 DEF GarageOk, IsVehicle
  <2> QED BY <2>1, <2>3
<1>4. CASE e.kind = "restore"
  <2> DEFINE entry == [garage[e.v] EXCEPT
                         !.car = e.choice.car, !.capacity = e.choice.capacity,
                         !.power = e.choice.power, !.use = e.choice.use]
  <2>1. Applied(e) = [garage EXCEPT ![e.v] = entry]
    BY <1>4 DEF Applied
  <2>2. DOMAIN entry = Attributes
    BY DEF GarageOk, IsVehicle
  <2> HIDE DEF entry
  <2> QED BY <2>1, <2>2 DEF GarageOk, IsVehicle
<1> QED BY <1>1, <1>2, <1>3, <1>4

\* its answer,
LEMMA AnswerActionAdvances ==
  ASSUME VehicleInv, NEW t \in Errands, AnswerAction(t)
  PROVE  /\ errands[t].at # "idle" /\ GarageOk(garage)'
         /\ \E others, n : Advances(t, others, n)
<1> DEFINE e == errands[t]
<1>1. /\ e.at = "action" /\ e.v \in DOMAIN garage /\ garage' = Applied(e)
      /\ Acted(e)
  BY DEF AnswerAction
<1>2. /\ ErrandsInv /\ IsErrand(e) /\ e.task = t /\ GarageOk(garage) /\ e.at # "idle"
      /\ e.kind \in {"delete", "default", "update", "restore"}
  BY <1>1 DEF VehicleInv, ErrandsInv, Running, RestoreOk
<1>3. GarageOk(garage')
  BY <1>1, <1>2, AppliedOk
<1>4. GarageOk(garage)'
  BY <1>3 DEF GarageOk, IsVehicle
<1> QED BY <1>1, <1>2, <1>4, ActedAdvances

\* the end after a failure,
LEMMA SpoiltEnd ==
  ASSUME ErrandsInv, NEW t \in Errands, errands[t].at # "idle",
         Finish(Spoilt(errands[t]))
  PROVE  \E others, n : Advances(t, others, n)
<1> DEFINE s == Spoilt(errands[t])
<1>1. errands' = [errands EXCEPT ![s.task] = ErrandOver(s)]
  BY DEF Finish
<1>2. IsErrand(errands[t]) /\ errands[t].task = t
  BY DEF ErrandsInv, Running
<1>3. s.task = t /\ s.clean = FALSE
  BY <1>2, Spoiling
<1> HIDE DEF s
<1>4. Advances(t, errands, ErrandOver(s))
  BY <1>1, <1>3, EndAdvance
<1> QED BY <1>4

\* and a refusal or failure.
LEMMA RefuseAdvances ==
  ASSUME VehicleInv, NEW t \in Errands, Refuse(t) \/ FailErrand(t)
  PROVE  /\ errands[t].at # "idle" /\ GarageOk(garage)'
         /\ \E others, n : Advances(t, others, n)
<1>1. errands[t].at # "idle" /\ garage' = garage
  BY DEF Refuse, FailErrand
<1>2. /\ ErrandsInv /\ IsErrand(errands[t]) /\ errands[t].task = t
      /\ GarageOk(garage)
  BY <1>1 DEF VehicleInv, ErrandsInv, Running
<1>3. GarageOk(garage)'
  BY <1>1, <1>2 DEF GarageOk, IsVehicle
<1>4. Acted(Spoilt(errands[t])) \/ Finish(Spoilt(errands[t]))
  BY DEF Refuse, FailErrand
<1>5. CASE Acted(Spoilt(errands[t]))
  <2> DEFINE s == Spoilt(errands[t])
  <2>1. IsErrand(s) /\ s.task = t /\ s.clean = FALSE
    BY <1>2, Spoiling
  <2>2. Acted(s)
    BY <1>5
  <2> HIDE DEF s
  <2> QED BY <1>1, <1>2, <1>3, <2>1, <2>2, ActedAdvances
<1>6. CASE Finish(Spoilt(errands[t]))
  BY <1>1, <1>2, <1>3, <1>6, SpoiltEnd
<1> QED BY <1>4, <1>5, <1>6

(***************************************************************************)
(* The start of errands, and the app.                                      *)
(***************************************************************************)
\* A new errand counts if none runs.
LEMMA ErrandIs ==
  ASSUME NEW t, NEW kind
  PROVE  /\ IsErrand(Errand(t, kind))
         /\ Errand(t, kind).task = t /\ Errand(t, kind).kind = kind
         /\ Errand(t, kind).clean => \A u \in Errands : errands[u].at = "idle"
  BY DEF Errand, IsErrand, ErrandFields

\* The others when an errand starts.
LEMMA DisturbedAlike ==
  ASSUME ErrandsInv,
         NEW others \in {Disturbed, [t \in Errands |-> Breaks(Disturbed[t])]}
  PROVE  /\ others = [u \in Errands |-> others[u]]
         /\ \A u \in Errands : Alike(errands[u], others[u]) /\ ~Judged(others[u])
<1>1. \A u \in Errands : errands[u].at = "idle" \/ IsErrand(errands[u])
  BY DEF ErrandsInv, Running
<1>2. \A u \in Errands :
        Disturbed[u] = IF errands[u].at = "idle" THEN NoErrand
                       ELSE Spoilt(errands[u])
  BY DEF Disturbed
<1>3. CASE others = Disturbed
  BY <1>1, <1>2, <1>3, AlikeDisturbed DEF Disturbed
<1>4. CASE others = [t \in Errands |-> Breaks(Disturbed[t])]
  <2>1. \A u \in Errands : others[u] = Breaks(Disturbed[u])
    BY <1>4
  <2> QED BY <1>1, <1>2, <1>4, <2>1, AlikeDisturbed
<1> QED BY <1>3, <1>4

\* An errand begins, and no other one that runs counts any more.
LEMMA StartBegins ==
  ASSUME ErrandsInv, NEW t \in Errands,
         NEW others \in {Disturbed, [u \in Errands |-> Breaks(Disturbed[u])]},
         NEW n, errands' = [others EXCEPT ![t] = n],
         \/ n.at = "idle" /\ ~n.good
         \/ /\ Running(t, n)
            /\ n.clean => \A u \in Errands : errands[u].at = "idle"
            /\ \/ n.at \in {"list", "action"}
               \/ n.at = "load" /\ n.then \in {"brands", "restore"},
         n.at = "action" /\ n.kind = "restore" => Exact(n)
  PROVE  Begins(t, others, n)
<1>1. /\ others = [u \in Errands |-> others[u]]
      /\ \A u \in Errands : Alike(errands[u], others[u]) /\ ~Judged(others[u])
  BY DisturbedAlike
<1>2. errands' = [u \in Errands |-> IF u = t THEN n ELSE others[u]]
  BY <1>1
<1>3. Judged(n) => StageOf(n, garage', vehicles', registered')
  BY DEF Judged, StageOf, Listed
<1>4. Judged(n) => \A u \in Errands : errands[u].at = "idle"
  BY DEF Judged, Running
<1> QED BY <1>1, <1>2, <1>3, <1>4 DEF Begins, Sends

\* The poll and the refresh button.
LEMMA PollBegins ==
  ASSUME VehicleInv, PollVehicles \/ RefreshVehicles
  PROVE  GarageOk(garage)' /\ \E t \in Errands : \E others, n : Begins(t, others, n)
<1>1. ErrandsInv /\ GarageOk(garage) /\ garage' = garage
  BY DEF VehicleInv, PollVehicles, RefreshVehicles
<1>2. GarageOk(garage)'
  BY <1>1 DEF GarageOk, IsVehicle
<1>3. "poll" \in Errands /\ "user" \in Errands
  BY DEF Errands
<1>4. PICK t \in Errands :
        \E n \in {Waits(Errand(t, "poll"), "list"),
                 Loads(Errand(t, "poll"), <<>>, "brands")} :
          errands' = [Disturbed EXCEPT ![t] = n]
  BY <1>3 DEF PollVehicles, RefreshVehicles
<1> DEFINE e == Errand(t, "poll")
<1>9. PICK n \in {Waits(e, "list"), Loads(e, <<>>, "brands")} :
        errands' = [Disturbed EXCEPT ![t] = n]
  BY <1>4
<1>5. /\ IsErrand(e) /\ e.task = t /\ e.kind = "poll"
      /\ e.clean => \A u \in Errands : errands[u].at = "idle"
  BY ErrandIs
<1> HIDE DEF e
<1>6. /\ IsErrand(n) /\ n.task = t /\ n.clean = e.clean /\ n.kind = "poll"
      /\ \/ n.at = "list"
         \/ n.at = "load" /\ n.then = "brands"
  <2>1. CASE n = Waits(e, "list")
    BY <1>5, <2>1, Waiting DEF Carried
  <2>2. CASE n = Loads(e, <<>>, "brands")
    BY <1>5, <2>2, Loading DEF Carried
  <2> QED BY <1>9, <2>1, <2>2
<1>7. Running(t, n)
  BY <1>6 DEF Running, RestoreOk
<1>8. Begins(t, Disturbed, n)
  BY <1>1, <1>9, <1>5, <1>6, <1>7, StartBegins
<1> QED BY <1>2, <1>8

\* What the selects, buttons and numbers call for.
LEMMA UserCallIs ==
  ASSUME NEW v, NEW c \in UserCalls(v)
  PROVE  /\ c.kind \in {"delete", "default", "update", "restore"}
         /\ c.kind = "restore" /\ c.id # NoDetail =>
              \E m \in VariantsOf(c.fields) : m.id = c.id
<1> DEFINE Call(kind, fields, id, capacity) ==
             [kind |-> kind, fields |-> fields, id |-> id, capacity |-> capacity]
           car == vehicles[v].car
           Offered(k) == {d \in Catalogue : /\ SubSeq(car, 1, k - 1) \in options
                                            /\ SubSeq(d.car, 1, k - 1) = SubSeq(car, 1, k - 1)}
           models == UNION {{Call("update", SubSeq(d.car, 1, k), NoDetail, NoDetail) :
                               d \in Offered(k)} : k \in 1..3}
           sizes == {Call("update", <<>>, NoDetail, capacity) : capacity \in Capacities}
           variants == {Call("restore", car, m.id, NoDetail) :
                          m \in {d \in VariantsOf(car) : car \in options}}
           others == {Call("restore", car, NoDetail, vehicles[v].capacity),
                      Call("default", <<>>, NoDetail, NoDetail),
                      Call("delete", <<>>, NoDetail, NoDetail)}
<1>1. c \in sizes \cup variants \cup others \cup models
  <2>1. UserCalls(v) = sizes \cup variants \cup others \cup models
    BY DEF UserCalls
  <2> QED BY <2>1
<1>2. CASE c \in models
  <2>1. PICK k \in 1..3 :
          c \in {Call("update", SubSeq(d.car, 1, k), NoDetail, NoDetail) :
                   d \in Offered(k)}
    BY <1>2
  <2>2. PICK d \in Offered(k) :
          c = Call("update", SubSeq(d.car, 1, k), NoDetail, NoDetail)
    BY <2>1
  <2>3. c.kind = "update"
    BY <2>2
  <2> QED BY <2>3
<1>3. CASE c \in sizes
  BY <1>3
<1>4. CASE c \in variants
  <2>1. PICK m \in VariantsOf(car) : c = Call("restore", car, m.id, NoDetail)
    BY <1>4
  <2>2. c.kind = "restore" /\ c.fields = car /\ c.id = m.id
    BY <2>1
  <2> QED BY <2>2
<1>5. CASE c \in others
  <2>1. c.kind \in {"restore", "default", "delete"} /\ c.id = NoDetail
    BY <1>5
  <2> QED BY <2>1
<1> HIDE DEF models, sizes, variants, others
<1> QED BY <1>1, <1>2, <1>3, <1>4, <1>5

\* A call of the user, whose vehicle leaves the cache.
LEMMA ManageBegins ==
  ASSUME VehicleInv, Manage
  PROVE  GarageOk(garage)' /\ \E t \in Errands : \E others, n : Begins(t, others, n)
<1>1. ErrandsInv /\ GarageOk(garage) /\ garage' = garage
  BY DEF VehicleInv, Manage
<1>2. GarageOk(garage)'
  BY <1>1 DEF GarageOk, IsVehicle
<1> DEFINE others == [t \in Errands |-> Breaks(Disturbed[t])]
<1>3. PICK v \in DOMAIN vehicles : \E c \in UserCalls(v) :
        LET e == [Errand("user", c.kind) EXCEPT
                    !.v = v, !.fields = c.fields, !.id = c.id,
                    !.capacity = c.capacity, !.car = c.fields]
        IN \E n \in IF c.kind # "restore" THEN {Waits(e, "action")}
                    ELSE IF MissingNodes(options, c.fields) # {}
                      THEN {Loads(e, c.fields, "restore")}
                    ELSE Restored(e) :
             errands' = [others EXCEPT !.user = n]
  BY DEF Manage
<1>4. PICK c \in UserCalls(v) :
        LET e == [Errand("user", c.kind) EXCEPT
                    !.v = v, !.fields = c.fields, !.id = c.id,
                    !.capacity = c.capacity, !.car = c.fields]
        IN \E n \in IF c.kind # "restore" THEN {Waits(e, "action")}
                    ELSE IF MissingNodes(options, c.fields) # {}
                      THEN {Loads(e, c.fields, "restore")}
                    ELSE Restored(e) :
             errands' = [others EXCEPT !.user = n]
  BY <1>3
<1> DEFINE e == [Errand("user", c.kind) EXCEPT
                   !.v = v, !.fields = c.fields, !.id = c.id,
                   !.capacity = c.capacity, !.car = c.fields]
<1>5. PICK n \in IF c.kind # "restore" THEN {Waits(e, "action")}
                 ELSE IF MissingNodes(options, c.fields) # {}
                   THEN {Loads(e, c.fields, "restore")}
                 ELSE Restored(e) :
        errands' = [others EXCEPT !.user = n]
  BY <1>4
<1>6. /\ IsErrand(e) /\ e.task = "user" /\ e.kind = c.kind /\ e.fields = c.fields
      /\ e.id = c.id /\ e.car = c.fields
      /\ e.clean => \A u \in Errands : errands[u].at = "idle"
  <2> DEFINE r == Errand("user", c.kind)
  <2>1. /\ IsErrand(r) /\ r.task = "user" /\ r.kind = c.kind
        /\ r.clean => \A u \in Errands : errands[u].at = "idle"
    BY ErrandIs
  <2> HIDE DEF r
  <2> QED BY <2>1 DEF r, IsErrand, ErrandFields
<1> HIDE DEF e
<1>7. /\ c.kind \in {"delete", "default", "update", "restore"}
      /\ c.kind = "restore" => Restores(e)
  BY <1>6, UserCallIs DEF Restores
<1>8. /\ \/ n.at = "idle" /\ ~n.good
         \/ /\ Running("user", n) /\ n.clean = e.clean
            /\ \/ n.at = "action"
               \/ n.at = "load" /\ n.then = "restore"
      /\ n.at = "action" /\ n.kind = "restore" => Exact(n)
  <2>1. CASE c.kind # "restore"
    <3>1. n = Waits(e, "action")
      BY <1>5, <2>1
    <3>2. IsErrand(n) /\ Carried(e, n) /\ n.at = "action"
      BY <1>6, <3>1, Waiting
    <3> QED BY <1>6, <1>7, <2>1, <3>2 DEF Carried, Running, RestoreOk
  <2>2. CASE c.kind = "restore" /\ MissingNodes(options, c.fields) # {}
    <3> DEFINE fields == c.fields
    <3>1. n = Loads(e, fields, "restore")
      BY <1>5, <2>2
    <3>2. /\ IsErrand(n) /\ Carried(e, n) /\ n.at = "load" /\ n.then = "restore"
          /\ n.car = c.fields
      BY <1>6, <3>1, Loading
    <3> QED BY <1>6, <1>7, <2>2, <3>2 DEF Carried, Running, RestoreOk, Restores
  <2>3. CASE c.kind = "restore" /\ MissingNodes(options, c.fields) = {}
    <3>1. n \in Restored(e)
      BY <1>5, <2>3
    <3> QED BY <1>6, <1>7, <2>3, <3>1, RestoredIs
  <2> QED BY <2>1, <2>2, <2>3
<1>9. "user" \in Errands /\ errands' = [others EXCEPT !["user"] = n]
  BY <1>5 DEF Errands
<1> HIDE DEF others
<1>10. Begins("user", others, n)
  BY <1>1, <1>6, <1>8, <1>9, StartBegins DEF others
<1> QED BY <1>2, <1>9, <1>10

\* A change by the app disturbs every errand.
LEMMA ChangeKeeps ==
  ASSUME VehicleInv, ChangeGarage
  PROVE  VehicleInv' /\ RestoreStep
<1>1. ErrandsInv /\ GarageOk(garage) /\ errands' = Disturbed
  BY DEF VehicleInv, ChangeGarage
<1>2. GarageOk(garage)'
  <2>1. PICK v \in VehicleIds :
          \/ garage' = Without(garage, v)
          \/ \E c \in Catalogue :
               garage' = Added(garage, v,
                 [IF v \in DOMAIN garage THEN garage[v] ELSE NewVehicle
                    EXCEPT !.car = c.car])
    BY DEF ChangeGarage
  <2>2. CASE garage' = Without(garage, v)
    <3>1. garage' = [w \in DOMAIN garage \ {v} |-> garage[w]]
      BY <2>2 DEF Without, Restrict
    <3> QED BY <1>1, <3>1 DEF GarageOk, IsVehicle
  <2>3. ASSUME NEW c \in Catalogue,
               garage' = Added(garage, v,
                 [IF v \in DOMAIN garage THEN garage[v] ELSE NewVehicle
                    EXCEPT !.car = c.car])
        PROVE  GarageOk(garage)'
    <3> DEFINE known == IF v \in DOMAIN garage THEN garage[v] ELSE NewVehicle
               entry == [known EXCEPT !.car = c.car]
    <3>1. DOMAIN known = Attributes
      BY <1>1, VehicleAssumption DEF GarageOk, IsVehicle
    <3> HIDE DEF known
    <3>2. DOMAIN entry = Attributes
      BY <3>1
    <3>3. garage' = Added(garage, v, entry)
      BY <2>3 DEF known
    <3> HIDE DEF entry
    <3>4. garage' = [w \in DOMAIN garage \cup {v} |->
                       IF w = v THEN entry ELSE garage[w]]
      BY <3>3 DEF Added
    <3> QED BY <1>1, <3>2, <3>4 DEF GarageOk, IsVehicle
  <2> QED BY <2>1, <2>2, <2>3
<1>3. /\ errands' = [u \in Errands |-> errands'[u]]
      /\ \A u \in Errands : Alike(errands[u], errands'[u]) /\ ~Judged(errands'[u])
  BY <1>1, DisturbedAlike
<1>4. ErrandsInv'
  <2>1. ASSUME NEW u \in Errands PROVE errands'[u].at = "idle" \/ Running(u, errands'[u])
    <3>1. errands[u].at = "idle" \/ Running(u, errands[u])
      BY <1>1 DEF ErrandsInv
    <3> QED BY <1>3, <3>1, AlikeRuns
  <2> QED BY <1>3, <2>1 DEF ErrandsInv, Running, RestoreOk, VariantsOf
<1>5. JudgedInv'
  BY <1>3 DEF JudgedInv, Judged
<1>6. RestoreStep
  BY <1>3 DEF RestoreStep, Sends, Alike
<1> QED BY <1>2, <1>4, <1>5, <1>6 DEF VehicleInv

(***************************************************************************)
(* The theorems.                                                           *)
(***************************************************************************)
\* The start, and each step.
LEMMA VehicleStart == VehicleInit => VehicleInv
<1> SUFFICES ASSUME VehicleInit PROVE VehicleInv
  OBVIOUS
<1>1. GarageOk(garage)
  BY VehicleAssumption DEF VehicleInit, GarageOk, IsVehicle
<1>2. \A t \in Errands : errands[t] = NoErrand
  BY DEF VehicleInit
<1>3. NoErrand.at = "idle" /\ ~NoErrand.good
  BY DEF NoErrand
<1>4. ErrandsInv
  BY <1>2, <1>3 DEF VehicleInit, ErrandsInv
<1>5. JudgedInv
  BY <1>2, <1>3 DEF JudgedInv, Judged
<1> QED BY <1>1, <1>4, <1>5 DEF VehicleInv

LEMMA VehicleStep ==
  VehicleInv /\ [VehicleNext]_vehicleVars => VehicleInv' /\ RestoreStep
<1> SUFFICES ASSUME VehicleInv, [VehicleNext]_vehicleVars
             PROVE  VehicleInv' /\ RestoreStep
  OBVIOUS
<1>1. CASE UNCHANGED vehicleVars
  <2>1. /\ garage' = garage /\ vehicles' = vehicles /\ registered' = registered
        /\ errands' = errands
    BY <1>1 DEF vehicleVars
  <2>2. RestoreStep
    BY <2>1 DEF RestoreStep, Sends
  <2>3. GarageOk(garage)'
    BY <2>1 DEF VehicleInv, GarageOk, IsVehicle
  <2>4. ErrandsInv'
    BY <2>1 DEF VehicleInv, ErrandsInv, Running, RestoreOk, IsErrand, VariantsOf
  <2>5. JudgedInv'
    BY <2>1 DEF VehicleInv, JudgedInv, Judged, StageOf, Listed, Agree, IsVehicle
  <2> QED BY <2>2, <2>3, <2>4, <2>5 DEF VehicleInv
<1>2. CASE PollVehicles \/ RefreshVehicles
  BY <1>2, PollBegins, BeginKeeps
<1>3. CASE Manage
  BY <1>3, ManageBegins, BeginKeeps
<1>4. CASE ChangeGarage
  BY <1>4, ChangeKeeps
<1>5. ASSUME NEW t \in Errands, Load(t) PROVE VehicleInv' /\ RestoreStep
  BY <1>5, LoadAdvances, AdvanceKeeps
<1>6. ASSUME NEW t \in Errands, AnswerList(t) PROVE VehicleInv' /\ RestoreStep
  BY <1>6, AnswerListAdvances, AdvanceKeeps
<1>7. ASSUME NEW t \in Errands, AnswerDetails(t) PROVE VehicleInv' /\ RestoreStep
  BY <1>7, AnswerDetailsAdvances, AdvanceKeeps
<1>8. ASSUME NEW t \in Errands, AnswerAction(t) PROVE VehicleInv' /\ RestoreStep
  BY <1>8, AnswerActionAdvances, AdvanceKeeps
<1>9. ASSUME NEW t \in Errands, Refuse(t) \/ FailErrand(t)
      PROVE  VehicleInv' /\ RestoreStep
  BY <1>9, RefuseAdvances, AdvanceKeeps
<1> QED BY <1>1, <1>2, <1>3, <1>4, <1>5, <1>6, <1>7, <1>8, <1>9 DEF VehicleNext

\* An errand that counts has been alone since it began, and the cache is as far
\* as the errand is.
THEOREM VehicleInvariant == VehicleSpec => []VehicleInv
<1>1. VehicleInv /\ [VehicleNext]_vehicleVars => VehicleInv'
  BY VehicleStep
<1> QED BY VehicleStart, <1>1, PTL DEF VehicleSpec

\* After an undisturbed poll or call the cache holds the vehicles of the cloud,
\* whatever the calls before it took out of the cache or replaced.
THEOREM CacheFollows == VehicleSpec => []VehiclesFollow
<1>1. VehicleInv => VehiclesFollow
  <2> SUFFICES ASSUME VehicleInv, NEW t \in Errands, errands[t].at = "idle",
                      errands[t].good
               PROVE  /\ registered = DOMAIN garage
                      /\ DOMAIN vehicles = DOMAIN garage
                      /\ \A v \in DOMAIN garage, f \in {"car", "capacity", "default"} :
                           vehicles[v][f] = garage[v][f]
    BY DEF VehiclesFollow
  <2>1. Agree(garage, vehicles) /\ registered = DOMAIN garage
    BY DEF VehicleInv, JudgedInv, Judged, StageOf, Listed
  <2> QED BY <2>1 DEF Agree
<1> QED BY VehicleInvariant, <1>1, PTL

\* Whatever the options come like and whatever other calls change meanwhile,
\* restoring sends the selected variant, or one with the present capacity.
THEOREM RestoresExactly == VehicleSpec => RestoreExact
<1>1. VehicleInv /\ [VehicleNext]_vehicleVars
        => [\A t \in Errands :
              LET e == errands'[t]
              IN (errands[t].at # "action" /\ e.at = "action" /\ e.kind = "restore") =>
                   /\ e.choice.car = e.fields
                   /\ e.id # NoDetail => e.choice.id = e.id
                   /\ e.id = NoDetail
                      /\ (\E m \in VariantsOf(e.fields) : m.capacity = e.capacity)
                        => e.choice.capacity = e.capacity]_vehicleVars
  BY VehicleStep DEF RestoreStep, Sends, Exact
<1> QED BY VehicleInvariant, <1>1, PTL DEF VehicleSpec, RestoreExact
=============================================================================
