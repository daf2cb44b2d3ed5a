------------------------------ MODULE Vehicles ------------------------------
(***************************************************************************)
(* The vehicles of an account: solixapi/vehicle.py, with the poll of       *)
(* solixapi/poller.py, the refresh and restore buttons (button.py), the    *)
(* selects and numbers of a vehicle (select.py, number.py) and its removal *)
(* (coordinator.py).                                                       *)
(*                                                                         *)
(* The account caches the vehicles, which of them are registered, and a    *)
(* tree of options: brands, models, years and the variants of a year.  A   *)
(* node of the tree is asked for once.  The poll and a call of the user    *)
(* interleave at every request; Python dictionaries are shared, so a call  *)
(* changes the dictionary another one holds, or replaces it.               *)
(*                                                                         *)
(* A car is the sequence of its brand, model and year.                     *)
(***************************************************************************)
EXTENDS Integers, Sequences, FiniteSets, SequencesExt, Functions

CONSTANTS
  VehicleIds,
  Catalogue,          \* variants: [car, id, capacity, power, use]
  Garages,            \* the vehicles the cloud may know at the start
  NewVehicle,         \* a vehicle the owner adds, but for its car
  Capacities,         \* capacities a user may set
  MaxVehicleCalls, MaxVehicleFaults, MaxAppChanges \* bounds

Attributes == {"car", "id", "capacity", "power", "use", "default"}

\* Ids of variants are numbers other than 0, which stands for none.
ASSUME VehicleAssumption ==
  /\ IsFiniteSet(Catalogue) /\ \A c \in Catalogue : c.id # 0
  /\ DOMAIN NewVehicle = Attributes
  /\ \A g \in Garages : \A v \in DOMAIN g : DOMAIN g[v] = Attributes

VARIABLES
  garage,             \* the vehicles the cloud knows
  vehicles,           \* account["vehicles"]
  registered,         \* account["vehicles_registered"]
  options,            \* nodes of account["vehicle_brands"] that are "cached"
  errands,            \* the poll and the call under way
  vehicleCalls, vehicleFaults, appChanges \* counters for the bounds

vehicleVars == <<garage, vehicles, registered, options, errands, vehicleCalls,
                 vehicleFaults, appChanges>>

NoDetail == 0
Errands == {"poll", "user"}
NoErrand == [at |-> "idle", good |-> FALSE]
Details == {"capacity", "power", "use"}

(***************************************************************************)
(* The tree of options.                                                    *)
(***************************************************************************)
Nodes == {<<>>} \cup UNION {{SubSeq(c.car, 1, k) : k \in 0..3} : c \in Catalogue}

\* update_vehicle_options() asks for each level down to the vehicle's, as far
\* as the tree knows it.
MissingNodes(known, car) ==
  ({SubSeq(car, 1, k) : k \in 0..Len(car)} \cap Nodes) \ known

NextNode(known, car) ==
  CHOOSE n \in MissingNodes(known, car) :
    \A m \in MissingNodes(known, car) : Len(n) <= Len(m)

VariantsOf(car) == {c \in Catalogue : c.car = car}

(***************************************************************************)
(* get_vehicle_attributes(): the best match, in whatever order the options *)
(* come out of their set.                                                  *)
(***************************************************************************)
\* Faulty: an option is better if it is other than the best one so far.
BetterOther(want, best, option) ==
  \/ option.id = want.id
  \/ want.id = NoDetail /\ option.capacity # best.capacity

Better(want, best, option) ==
  \/ option.id = want.id
  \/ /\ want.id = NoDetail
     /\ \/ option.capacity = want.capacity
        \/ /\ best.capacity # want.capacity
           /\ \/ option.power = want.power
              \/ best.power # want.power /\ option.use = want.use

BestMatch(want, list) ==
  LET best[i \in 1..Len(list)] ==
        IF i = 1 THEN list[1]
        ELSE IF Better(want, best[i - 1], list[i]) THEN list[i] ELSE best[i - 1]
  IN best[Len(list)]

Matches(want) ==
  {BestMatch(want, list) : list \in SetToSeqs(VariantsOf(want.car)) \ {<<>>}}

(***************************************************************************)
(* Shared dictionaries.                                                    *)
(***************************************************************************)
\* What the errand's reference to the vehicles shows.
Held(e) == IF e.same THEN vehicles ELSE e.base

\* The other errand keeps the dictionary or list this one replaces.
DropVehicles(e) ==
  IF e.at # "idle" /\ e.same THEN [e EXCEPT !.same = FALSE, !.base = vehicles]
                             ELSE e
DropRegistered(e) == IF e.at # "idle" THEN [e EXCEPT !.list = FALSE] ELSE e

\* The errands when one stores its own dictionary, list, or both.
OwnVehicles == [t \in Errands |-> DropVehicles(errands[t])]
OwnRegistered == [t \in Errands |-> DropRegistered(errands[t])]
OwnBoth == [t \in Errands |-> DropVehicles(DropRegistered(errands[t]))]

Without(vs, v) == Restrict(vs, DOMAIN vs \ {v})
Added(vs, v, entry) ==
  [w \in DOMAIN vs \cup {v} |-> IF w = v THEN entry ELSE vs[w]]

(***************************************************************************)
(* What follows in an errand, with the options known by then.  Each is an  *)
(* alternative that sets "errands", "vehicles" and "registered".           *)
(***************************************************************************)
Waits(e, at) == [e EXCEPT !.at = at]
Loads(e, car, then) == [e EXCEPT !.at = "load", !.car = car, !.then = then]
ErrandOver(e) == [at |-> "idle", good |-> e.clean]
Spoilt(e) == [e EXCEPT !.clean = FALSE]

Finish(e) ==
  /\ errands' = [errands EXCEPT ![e.task] = ErrandOver(e)]
  /\ UNCHANGED <<vehicles, registered>>

Ask(e, at) ==
  /\ errands' = [errands EXCEPT ![e.task] = Waits(e, at)]
  /\ UNCHANGED <<vehicles, registered>>

\* The next vehicle of the list; the select loads the options of its choice.
NextDetails(e, known, others) ==
  LET now == IF e.left # {}
               THEN [Waits(e, "details") EXCEPT
                       !.v = CHOOSE v \in e.left : \A w \in e.left : v <= w,
                       !.left = @ \ {CHOOSE v \in e.left : \A w \in e.left : v <= w}]
             ELSE IF MissingNodes(known, e.fields) # {}
               THEN Loads(e, e.fields, "over")
             ELSE ErrandOver(e)
  IN errands' = [others EXCEPT ![e.task] = now]

\* get_vehicle_list(): the options of vehicles that are not registered.
Register(e, known) ==
  LET seen == Held(e)
      open == {v \in DOMAIN seen \ registered :
                 MissingNodes(known, seen[v].car) # {}}
  IN IF open # {}
       THEN LET v == CHOOSE v \in open : \A w \in open : v <= w
            IN /\ errands' = [errands EXCEPT ![e.task] = Loads(e, seen[v].car, "register")]
               /\ UNCHANGED registered
       ELSE /\ registered' = DOMAIN seen
            /\ NextDetails(e, known, OwnRegistered)

\* get_vehicle_details(): the model id is looked up, the vehicle is stored.
Write(e, known) ==
  /\ registered' = IF e.list THEN registered \cup {e.v} ELSE registered
  /\ \E id \in IF e.check /\ VariantsOf(e.entry.car) # {}
                 THEN {m.id : m \in Matches(e.entry)} ELSE {e.entry.id} :
       vehicles' = Added(Held(e), e.v, [e.entry EXCEPT !.id = id])
  /\ NextDetails(e, known, OwnVehicles)

AskOptions(e, known) ==
  IF (e.v \notin registered \/ e.check) /\ MissingNodes(known, e.entry.car) # {}
    THEN /\ errands' = [errands EXCEPT ![e.task] = Loads(e, e.entry.car, "detailed")]
         /\ UNCHANGED <<vehicles, registered>>
    ELSE Write(e, known)

\* manage_vehicle(): "restore" sends the attributes that were found, if any.
Restored(e) ==
  IF Matches(e) = {} THEN {ErrandOver(Spoilt(e))}
  ELSE {[Waits(e, "action") EXCEPT !.choice = m] : m \in Matches(e)}

(***************************************************************************)
(* Answers and failures.                                                   *)
(***************************************************************************)
\* A request for options is answered, though the other errand may have loaded
\* the same node in the meantime.
Load(t) ==
  LET e == errands[t]
      known == options \cup IF MissingNodes(options, e.car) = {} THEN {}
                            ELSE {NextNode(options, e.car)}
  IN /\ e.at = "load"
     /\ options' = known
     /\ IF MissingNodes(known, e.car) # {}
          THEN UNCHANGED <<errands, vehicles, registered>>
        ELSE CASE e.then = "brands" ->
                    /\ registered' = {}
                    /\ errands' = [OwnRegistered EXCEPT ![e.task] = Waits(e, "list")]
                    /\ UNCHANGED vehicles
               [] e.then = "restore" ->
                    /\ \E next \in Restored(e) :
                         errands' = [errands EXCEPT ![t] = next]
                    /\ UNCHANGED <<vehicles, registered>>
               [] e.then = "list" -> Ask(e, "list")
               [] e.then = "register" ->
                    IF e.broken THEN Finish(Spoilt(e))
                    ELSE Register(e, known) /\ UNCHANGED vehicles
               [] e.then = "detailed" -> Write(e, known)
               [] e.then = "over" -> Finish(e)
     /\ UNCHANGED <<garage, vehicleCalls, vehicleFaults, appChanges>>

\* Faulty: which vehicle is the default is not taken over.
EntryStale(old, new) ==
  [new EXCEPT !.power = old.power, !.use = old.use, !.id = old.id,
              !.default = old.default]

\* The entry keeps what only the details told before, and the model id.
Entry(old, new) == [new EXCEPT !.power = old.power, !.use = old.use, !.id = old.id]
Unseen == [car |-> <<>>, id |-> NoDetail, capacity |-> NoDetail,
           power |-> NoDetail, use |-> NoDetail, default |-> FALSE]
Cached(vs, v) == IF v \in DOMAIN vs THEN vs[v] ELSE Unseen

AnswerList(t) ==
  LET e == errands[t]
      listed == [v \in DOMAIN garage |-> Entry(Cached(vehicles, v), garage[v])]
      held == [e EXCEPT !.same = TRUE, !.list = TRUE, !.broken = FALSE,
                 !.left = IF e.kind = "poll" THEN DOMAIN garage
                          ELSE IF e.kind = "delete" THEN {} ELSE {e.v}]
      open == {v \in DOMAIN listed \ registered :
                 MissingNodes(options, listed[v].car) # {}}
  IN /\ e.at = "list"
     /\ vehicles' = listed
     /\ IF open # {}
          THEN LET v == CHOOSE v \in open : \A w \in open : v <= w
               IN /\ errands' = [OwnVehicles EXCEPT
                                   ![t] = Loads(held, listed[v].car, "register")]
                  /\ UNCHANGED registered
          ELSE /\ registered' = DOMAIN listed
               /\ NextDetails(held, options, OwnBoth)
     /\ UNCHANGED <<garage, options, vehicleCalls, vehicleFaults, appChanges>>

\* Other values than the cached ones make the model id doubtful.
Doubtful(old, new) == \E f \in Details \cup {"car"} : old[f] # new[f]

AnswerDetails(t) ==
  LET e == errands[t]
      old == Cached(vehicles, e.v)
  IN /\ e.at = "details"
     /\ IF e.v \in DOMAIN garage
          THEN LET new == [garage[e.v] EXCEPT !.id = old.id]
               IN AskOptions([e EXCEPT !.same = TRUE, !.list = TRUE, !.entry = new,
                             !.check = Doubtful(old, new)], options)
          ELSE /\ NextDetails(e, options, errands)
               /\ UNCHANGED <<vehicles, registered>>
     /\ UNCHANGED <<garage, options, vehicleCalls, vehicleFaults, appChanges>>

\* The cloud changes what was sent and keeps the rest.
Applied(e) ==
  CASE e.kind = "delete" -> Without(garage, e.v)
    [] e.kind = "default" -> [v \in DOMAIN garage |->
                                [garage[v] EXCEPT !.default = v = e.v]]
    [] e.kind = "update" ->
         [garage EXCEPT ![e.v].car = e.fields \o SubSeq(@, Len(e.fields) + 1, 3),
                        ![e.v].capacity = IF e.capacity # NoDetail THEN e.capacity
                                          ELSE @]
    [] e.kind = "restore" ->
         [garage EXCEPT ![e.v] = [@ EXCEPT
            !.car = e.choice.car, !.capacity = e.choice.capacity,
            !.power = e.choice.power, !.use = e.choice.use]]

\* What follows an action; a refused update goes on all the same.
Acted(e) ==
  CASE e.kind = "delete" ->
         /\ registered' = registered \ {e.v}
         /\ errands' = [OwnRegistered EXCEPT ![e.task] = Waits(e, "list")]
         /\ UNCHANGED vehicles
    [] /\ e.kind \in {"update", "restore"} /\ e.v \in registered
       /\ MissingNodes(options, e.fields) # {} ->
         /\ errands' = [errands EXCEPT ![e.task] = Loads(e, e.fields, "list")]
         /\ UNCHANGED <<vehicles, registered>>
    [] OTHER -> Ask(e, "list")

AnswerAction(t) ==
  LET e == errands[t]
  IN /\ e.at = "action" /\ e.v \in DOMAIN garage
     /\ garage' = Applied(e)
     /\ Acted(e)
     /\ UNCHANGED <<options, vehicleCalls, vehicleFaults, appChanges>>

Refuse(t) ==
  LET e == errands[t]
  IN /\ e.at = "action"
     /\ IF e.v \in DOMAIN garage
          THEN /\ vehicleFaults < MaxVehicleFaults
               /\ vehicleFaults' = vehicleFaults + 1
          ELSE UNCHANGED vehicleFaults
     /\ IF e.kind \in {"update", "restore"} THEN Acted(Spoilt(e))
                                            ELSE Finish(Spoilt(e))
     /\ UNCHANGED <<garage, options, vehicleCalls, appChanges>>

\* A request raises: nothing is put back.
FailErrand(t) ==
  /\ errands[t].at # "idle"
  /\ vehicleFaults < MaxVehicleFaults /\ vehicleFaults' = vehicleFaults + 1
  /\ Finish(Spoilt(errands[t]))
  /\ UNCHANGED <<garage, options, vehicleCalls, appChanges>>

(***************************************************************************)
(* The start of errands, and the app.                                      *)
(***************************************************************************)
Errand(t, kind) ==
  [task |-> t, kind |-> kind, at |-> "idle", good |-> FALSE, v |-> 0,
   clean |-> \A u \in Errands : errands[u].at = "idle", left |-> {},
   same |-> FALSE, base |-> <<>>, list |-> FALSE, broken |-> FALSE,
   car |-> <<>>, then |-> "", fields |-> <<>>, entry |-> Unseen,
   check |-> FALSE, choice |-> Unseen, id |-> NoDetail,
   capacity |-> NoDetail, power |-> NoDetail, use |-> NoDetail]

\* A call or a change meanwhile: what the others end with is not judged.
Disturbed ==
  [t \in Errands |-> IF errands[t].at = "idle" THEN NoErrand
                     ELSE Spoilt(errands[t])]

\* poll_device_details(); the brands come first, once.
PollVehicles ==
  LET e == Errand("poll", "poll")
  IN /\ errands.poll.at = "idle"
     /\ errands' = [Disturbed EXCEPT
                      !.poll = IF <<>> \in options THEN Waits(e, "list")
                               ELSE Loads(e, <<>>, "brands")]
     /\ UNCHANGED <<garage, vehicles, registered, options, vehicleCalls,
                    vehicleFaults, appChanges>>

\* The button refreshes the vehicles as the poll does.
RefreshVehicles ==
  /\ errands.user.at = "idle" /\ <<>> \in options
  /\ vehicleCalls < MaxVehicleCalls /\ vehicleCalls' = vehicleCalls + 1
  /\ errands' = [Disturbed EXCEPT !.user = Waits(Errand("user", "poll"), "list")]
  /\ UNCHANGED <<garage, vehicles, registered, options, vehicleFaults, appChanges>>

\* The selects offer the options of the cache; the button and the select of
\* the variant restore attributes, the number sets one.
UserCalls(v) ==
  LET car == vehicles[v].car
      Call(kind, fields, id, capacity) ==
        [kind |-> kind, fields |-> fields, id |-> id, capacity |-> capacity]
      Offered(k) == {c \in Catalogue : /\ SubSeq(car, 1, k - 1) \in options
                                       /\ SubSeq(c.car, 1, k - 1) = SubSeq(car, 1, k - 1)}
  IN {Call("update", <<>>, NoDetail, capacity) : capacity \in Capacities}
     \cup {Call("restore", car, m.id, NoDetail) :
             m \in {d \in VariantsOf(car) : car \in options}}
     \cup {Call("restore", car, NoDetail, vehicles[v].capacity),
           Call("default", <<>>, NoDetail, NoDetail),
           Call("delete", <<>>, NoDetail, NoDetail)}
     \cup UNION {{Call("update", SubSeq(c.car, 1, k), NoDetail, NoDetail) :
                    c \in Offered(k)} : k \in 1..3}

\* A loop over the dictionary the vehicle is taken from breaks.
Breaks(o) ==
  IF o.at = "load" /\ o.then = "register" /\ o.same
    THEN [o EXCEPT !.broken = TRUE] ELSE o

\* manage_vehicle() takes the vehicle out of the cache before it asks for
\* anything.
Manage ==
  /\ errands.user.at = "idle"
  /\ vehicleCalls < MaxVehicleCalls /\ vehicleCalls' = vehicleCalls + 1
  /\ \E v \in DOMAIN vehicles : \E c \in UserCalls(v) :
       LET e == [Errand("user", c.kind) EXCEPT
                   !.v = v, !.fields = c.fields, !.id = c.id,
                   !.capacity = c.capacity, !.car = c.fields]
       IN \E next \in IF c.kind # "restore" THEN {Waits(e, "action")}
                      ELSE IF MissingNodes(options, c.fields) # {}
                        THEN {Loads(e, c.fields, "restore")}
                      ELSE Restored(e) :
            errands' = [[t \in Errands |-> Breaks(Disturbed[t])] EXCEPT !.user = next]
       /\ vehicles' = Without(vehicles, v)
  /\ UNCHANGED <<garage, registered, options, vehicleFaults, appChanges>>

\* The owner adds, changes or removes a vehicle in the app.
ChangeGarage ==
  /\ appChanges < MaxAppChanges /\ appChanges' = appChanges + 1
  /\ \E v \in VehicleIds :
       \/ v \in DOMAIN garage /\ garage' = Without(garage, v)
       \/ \E c \in Catalogue :
            garage' = Added(garage, v,
              [IF v \in DOMAIN garage THEN garage[v] ELSE NewVehicle
                 EXCEPT !.car = c.car])
  /\ garage' # garage
  /\ errands' = Disturbed
  /\ UNCHANGED <<vehicles, registered, options, vehicleCalls, vehicleFaults>>

VehicleInit ==
  /\ garage \in Garages
  /\ vehicles = <<>> /\ registered = {} /\ options = {}
  /\ errands = [t \in Errands |-> NoErrand]
  /\ vehicleCalls = 0 /\ vehicleFaults = 0 /\ appChanges = 0

VehicleNext ==
  \/ PollVehicles \/ RefreshVehicles \/ Manage \/ ChangeGarage
  \/ \E t \in Errands : \/ Load(t) \/ AnswerList(t) \/ AnswerDetails(t)
                        \/ AnswerAction(t) \/ Refuse(t) \/ FailErrand(t)

VehicleSpec == VehicleInit /\ [][VehicleNext]_vehicleVars

(***************************************************************************)
(* Properties.                                                             *)
(***************************************************************************)
\* After a poll or a call that met no failure, no other call and no change by
\* the app, the cache holds the vehicles of the cloud with their attributes
\* and registers all of them; what is lost when a call takes its vehicle out of
\* the cache is back.
VehiclesFollow ==
  (\E t \in Errands : errands[t].at = "idle" /\ errands[t].good) =>
    /\ registered = DOMAIN garage
    /\ DOMAIN vehicles = DOMAIN garage
    /\ \A v \in DOMAIN garage, f \in {"car", "capacity", "default"} :
         vehicles[v][f] = garage[v][f]

\* Restoring the attributes of a vehicle sends those of the selected variant,
\* and by the button those of a variant with the present capacity if there is
\* one, whatever the order of the options.
RestoreExact ==
  [][\A t \in Errands :
       LET e == errands'[t]
       IN (errands[t].at # "action" /\ e.at = "action" /\ e.kind = "restore") =>
            /\ e.choice.car = e.fields
            /\ e.id # NoDetail => e.choice.id = e.id
            /\ e.id = NoDetail
               /\ (\E m \in VariantsOf(e.fields) : m.capacity = e.capacity)
                 => e.choice.capacity = e.capacity]_vehicleVars
=============================================================================
