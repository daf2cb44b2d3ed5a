---------------------- MODULE RefreshCoordinatorProofs ----------------------
(***************************************************************************)
(* Theorems about the refresh of a hub, for any devices, jobs and bounds.  *)
(* The inductive invariant is TypeOK and FlagOwned: each step either       *)
(* clears the mark of a details refresh, leaves the job that owns it where *)
(* it is, or moves it to a point where it still refreshes.                 *)
(***************************************************************************)
EXTENDS RefreshCoordinator, TLAPS

Pc == {"idle", "stagger", "reload"} \cup Request

\* A step of job j alone: it goes to one of the points pcs, no other job moves.
Moves(j, pcs) ==
    /\ job' \in [Jobs -> Job]
    /\ job'[j].pc \in pcs
    /\ \A i \in Jobs \ {j} : job'[i].pc = job[i].pc

----------------------------------------------------------------------------
(* The steps of a job *)

LEMMA GotoMoves ==
    ASSUME job \in [Jobs -> Job], NEW j \in Jobs, NEW pc \in Pc, Goto(j, pc)
    PROVE  Moves(j, {pc})
BY DEF Goto, Moves, Job, Pc

LEMMA EnterMoves ==
    ASSUME job \in [Jobs -> Job], caches \in Nat, NEW j \in Jobs,
           NEW pc \in Pc, Enter(j, pc)
    PROVE  Moves(j, {pc})
BY DEF Enter, Moves, Job, Pc

LEMMA IdleType == Idle \in Job
BY DEF Idle, Job

LEMMA DoneMoves ==
    ASSUME job \in [Jobs -> Job], NEW j \in Jobs, Done(j)
    PROVE  Moves(j, {"idle"})
<1>1. Idle.pc = "idle"
  BY DEF Idle
<1> QED
  BY <1>1, IdleType DEF Done, Moves

LEMMA ReloadMoves ==
    ASSUME job \in [Jobs -> Job], caches \in Nat, NEW j \in Jobs,
           NEW ids \in SUBSET Keys, NEW late \in BOOLEAN, Reload(j, ids, late)
    PROVE  Moves(j, {"reload"})
<1> DEFINE moved == [job[j] EXCEPT !.pc = "reload", !.ids = ids, !.late = late,
                                   !.born = caches]
<1>1. moved \in Job /\ moved.pc = "reload"
  BY DEF Job
<1>2. job' = [job EXCEPT ![j] = moved]
  BY DEF Reload
<1> QED
  BY <1>1, <1>2 DEF Moves

LEMMA PollMoves ==
    ASSUME job \in [Jobs -> Job], NEW j \in Jobs, Poll(j)
    PROVE  Moves(j, {"list"})
<1> DEFINE alone == \A i \in Jobs \ {j} : ~Polling(i)
           start == [Idle EXCEPT !.pc = "list", !.alone = alone]
<1>1. start \in Job /\ start.pc = "list"
  BY DEF Idle, Job, Request
<1>2. \A k \in Jobs : /\ [job[k] EXCEPT !.alone = FALSE] \in Job
                      /\ [job[k] EXCEPT !.alone = FALSE].pc = job[k].pc
  BY DEF Job
<1> HIDE DEF start
<1>3. job' = [k \in Jobs |-> IF k = j THEN start
                             ELSE IF Polling(k) THEN [job[k] EXCEPT !.alone = FALSE]
                             ELSE job[k]]
  BY DEF Poll, start
<1> QED
  BY <1>1, <1>2, <1>3 DEF Moves

----------------------------------------------------------------------------
(* The end of a job *)

CoordOK ==
    /\ data \subseteq Keys /\ registered \subseteq Keys
    /\ scheduled \in BOOLEAN /\ ready \in BOOLEAN
    /\ outdated \in BOOLEAN /\ lost \subseteq Devices \X BOOLEAN

LEMMA RemoveType ==
    ASSUME TypeOK, NEW j \in Jobs, NEW gone, Remove(j, gone)
    PROVE  /\ registered' \subseteq Keys /\ outdated' \in BOOLEAN
           /\ lost' \subseteq Devices \X BOOLEAN
<1> DEFINE lone == job[j].alone /\ ~outdated
<1>1. lone \in BOOLEAN
  OBVIOUS
<1>2. lost' = lost \cup {<<d, lone>> : d \in (gone \cap cloud) \ left}
  BY DEF Remove
<1>3. cloud \subseteq Devices /\ lost \subseteq Devices \X BOOLEAN
  BY DEF TypeOK
<1> HIDE DEF lone
<1>4. lost' \subseteq Devices \X BOOLEAN
  BY <1>1, <1>2, <1>3
<1> QED
  BY <1>4 DEF Remove, TypeOK

LEMMA CoordType == TypeOK => job \in [Jobs -> Job] /\ caches \in Nat /\ CoordOK
BY DEF TypeOK, CoordOK

LEMMA UpdateMoves ==
    ASSUME TypeOK, NEW j \in Jobs, NEW ids \in SUBSET Keys,
           NEW late \in BOOLEAN, NEW start \in BOOLEAN,
           FinishUpdate(j, ids, late, start)
    PROVE  Moves(j, {"idle", "reload"}) /\ CoordOK'
<1>1. CASE /\ Reload(j, ids, late)
           /\ UNCHANGED <<data, registered, scheduled, outdated, lost>>
  <2>1. ready' = TRUE
    BY DEF FinishUpdate
  <2>2. CoordOK'
    BY <1>1, <2>1, CoordType DEF CoordOK
  <2> QED
    BY <1>1, <2>2, ReloadMoves, CoordType DEF Moves
<1>2. CASE /\ IF start THEN registered' = ids /\ outdated' = FALSE /\ UNCHANGED lost
              ELSE IF ids # {} THEN Remove(j, (registered \ ids) \ data)
              ELSE UNCHANGED <<registered, outdated, lost>>
           /\ data' = ids /\ Done(j) /\ scheduled' = TRUE
  <2>1. ready' = TRUE
    BY DEF FinishUpdate
  <2>2. /\ registered' \subseteq Keys /\ outdated' \in BOOLEAN
        /\ lost' \subseteq Devices \X BOOLEAN
    BY <1>2, CoordType, RemoveType DEF CoordOK
  <2>3. CoordOK'
    BY <1>2, <2>1, <2>2 DEF CoordOK
  <2> QED
    BY <1>2, <2>3, DoneMoves, CoordType DEF Moves
<1> QED
  BY <1>1, <1>2 DEF FinishUpdate

LEMMA ButtonMoves ==
    ASSUME TypeOK, NEW j \in Jobs, NEW ids \in SUBSET Keys,
           FinishButton(j, ids)
    PROVE  Moves(j, {"idle", "reload"}) /\ CoordOK'
<1>1. data' = ids /\ scheduled' = TRUE /\ ready' = ready
  BY DEF FinishButton
<1>2. CASE Reload(j, ids, FALSE) /\ UNCHANGED <<registered, outdated, lost>>
  <2>1. CoordOK'
    BY <1>1, <1>2, CoordType DEF CoordOK
  <2> QED
    BY <1>2, <2>1, ReloadMoves, CoordType DEF Moves
<1>3. CASE /\ Done(j)
           /\ IF ids # {} THEN Remove(j, registered \ ids)
              ELSE UNCHANGED <<registered, outdated, lost>>
  <2>1. /\ registered' \subseteq Keys /\ outdated' \in BOOLEAN
        /\ lost' \subseteq Devices \X BOOLEAN
    BY <1>3, CoordType, RemoveType DEF CoordOK
  <2>2. CoordOK'
    BY <1>1, <2>1, CoordType DEF CoordOK
  <2> QED
    BY <1>3, <2>2, DoneMoves, CoordType DEF Moves
<1> QED
  BY <1>2, <1>3 DEF FinishButton

\* Whatever it does with its data, a job that polled ends or reloads.
LEMMA FinishMoves ==
    ASSUME TypeOK, NEW j \in Jobs, NEW ids \in SUBSET Keys,
           NEW late \in BOOLEAN, NEW start \in BOOLEAN,
           Finish(j, ids, late, start)
    PROVE  Moves(j, {"idle", "reload"}) /\ CoordOK'
<1>1. CASE FinishUpdate(j, ids, late, start)
  BY <1>1, UpdateMoves
<1>2. CASE FinishButton(j, ids)
  BY <1>2, ButtonMoves
<1>3. CASE FinishSwitch(j, ids)
  <2>1. CoordOK'
    BY <1>3, CoordType DEF CoordOK, FinishSwitch
  <2> QED
    BY <1>3, <2>1, ReloadMoves, CoordType DEF Moves, FinishSwitch
<1> QED
  BY <1>1, <1>2, <1>3 DEF Finish

----------------------------------------------------------------------------
(* Types *)

ClientOK ==
    /\ allow \in BOOLEAN /\ startup \in BOOLEAN /\ deferred \in BOOLEAN
    /\ active \in BOOLEAN /\ count \in Int /\ recent \in BOOLEAN
CacheOK ==
    /\ devices \subseteq Devices /\ siteDevices \subseteq Devices
    /\ caches \in Nat /\ energy \in BOOLEAN
WorldOK ==
    /\ cloud \subseteq Devices /\ left \subseteq Devices
    /\ presses \in Nat /\ toggles \in Nat /\ changes \in Nat /\ faults \in Nat

LEMMA TypeParts ==
    TypeOK <=> /\ job \in [Jobs -> Job]
               /\ ClientOK /\ CacheOK /\ CoordOK /\ WorldOK
BY DEF TypeOK, ClientOK, CacheOK, CoordOK, WorldOK

LEMMA NextParts ==
    ASSUME job' \in [Jobs -> Job], ClientOK', CacheOK', CoordOK', WorldOK'
    PROVE  TypeOK'
BY DEF TypeOK, ClientOK, CacheOK, CoordOK, WorldOK

LEMMA CachesType ==
    ASSUME NEW devs \in SUBSET Devices
    PROVE  GetCaches(devs) \in SUBSET Keys
BY DEF GetCaches, Keys

LEMMA InitType == Init => TypeOK
<1> SUFFICES ASSUME Init PROVE TypeOK
  OBVIOUS
<1> USE DEF Init
<1>1. job \in [Jobs -> Job]
  BY IdleType
<1>2. ClientOK
  <2>1. count \in Int
    OBVIOUS
  <2>2. /\ allow \in BOOLEAN /\ startup \in BOOLEAN /\ deferred \in BOOLEAN
        /\ active \in BOOLEAN /\ recent \in BOOLEAN
    OBVIOUS
  <2> QED
    BY <2>1, <2>2 DEF ClientOK
<1>3. CacheOK
  <2>1. devices = {} /\ siteDevices = {} /\ caches \in Nat
    OBVIOUS
  <2>2. energy \in BOOLEAN
    OBVIOUS
  <2> QED
    BY <2>1, <2>2 DEF CacheOK
<1>4. CoordOK
  <2>1. data = {} /\ registered = {} /\ lost = {}
    OBVIOUS
  <2>2. scheduled \in BOOLEAN /\ ready \in BOOLEAN /\ outdated \in BOOLEAN
    OBVIOUS
  <2> QED
    BY <2>1, <2>2 DEF CoordOK
<1>5. WorldOK
  BY RefreshAssumption DEF WorldOK
<1> QED
  BY <1>1, <1>2, <1>3, <1>4, <1>5, TypeParts

\* The start of an update, now or after the delay between hubs.
LEMMA BeginType ==
    ASSUME TypeOK, NEW j \in Jobs, BeginUpdate(j)
    PROVE  /\ job' \in [Jobs -> Job] /\ CoordOK' /\ active' \in BOOLEAN
           /\ \/ active' = FALSE
              \/ Moves(j, {"list"}) /\ active' = active
<1>1. CASE allow /\ Poll(j) /\ scheduled' = (scheduled /\ At(j, "stagger"))
           /\ UNCHANGED <<active, data, registered, ready, outdated, lost>>
  BY <1>1, PollMoves, TypeParts DEF Moves, CoordOK, ClientOK, At
<1>2. CASE Unmark /\ FinishUpdate(j, {}, deferred, startup)
  BY <1>2, UpdateMoves, TypeParts DEF Moves, ClientOK, Unmark
<1> QED
  BY <1>1, <1>2 DEF BeginUpdate

LEMMA StartUpdateType ==
    ASSUME TypeOK, NEW j \in Jobs, StartUpdate(j)
    PROVE  TypeOK'
<1>1. ClientOK' /\ CoordOK' /\ job' \in [Jobs -> Job]
  <2>1. CASE BeginUpdate(j)
    BY <2>1, BeginType, TypeParts DEF StartUpdate, ClientOK
  <2>2. CASE /\ Goto(j, "stagger") /\ scheduled' = FALSE
             /\ UNCHANGED <<active, data, registered, ready, outdated, lost>>
    BY <2>2, GotoMoves, TypeParts DEF StartUpdate, ClientOK, CoordOK, Moves, Pc
  <2> QED
    BY <2>1, <2>2 DEF StartUpdate
<1>2. CacheOK' /\ WorldOK'
  BY TypeParts DEF StartUpdate, cacheVars, cloudVars, boundVars, CacheOK, WorldOK
<1> QED
  BY <1>1, <1>2, NextParts

LEMMA StaggerType ==
    ASSUME TypeOK, NEW j \in Jobs, Stagger(j)
    PROVE  TypeOK'
<1>1. ClientOK' /\ CoordOK' /\ job' \in [Jobs -> Job]
  BY BeginType, TypeParts DEF Stagger, ClientOK
<1>2. CacheOK' /\ WorldOK'
  BY TypeParts DEF Stagger, cacheVars, cloudVars, boundVars, CacheOK, WorldOK
<1> QED
  BY <1>1, <1>2, NextParts

LEMMA PressType ==
    ASSUME TypeOK, NEW j \in Jobs, Press(j)
    PROVE  TypeOK'
<1>1. active' \in BOOLEAN /\ CoordOK' /\ job' \in [Jobs -> Job]
  <2>1. CASE active' = TRUE /\ Poll(j) /\ UNCHANGED coordVars
    BY <2>1, PollMoves, TypeParts DEF coordVars, CoordOK, Moves
  <2>2. CASE Unmark /\ FinishButton(j, {})
    BY <2>2, ButtonMoves, TypeParts DEF Unmark, Moves
  <2> QED
    BY <2>1, <2>2 DEF Press
<1>2. ClientOK' /\ CacheOK' /\ WorldOK'
  BY <1>1, TypeParts
     DEF Press, cacheVars, cloudVars, ClientOK, CacheOK, WorldOK
<1> QED
  BY <1>1, <1>2, NextParts

LEMMA SuspendType ==
    ASSUME TypeOK, Suspend
    PROVE  TypeOK'
<1>1. ClientOK'
  BY TypeParts DEF Suspend, Unmark, ClientOK
<1>2. CacheOK' /\ CoordOK' /\ WorldOK'
  BY TypeParts DEF Suspend, cacheVars, cloudVars, CacheOK, CoordOK, WorldOK
<1>3. job' \in [Jobs -> Job]
  BY TypeParts DEF Suspend
<1> QED
  BY <1>1, <1>2, <1>3, NextParts

LEMMA ResumeType ==
    ASSUME TypeOK, NEW j \in Jobs, Resume(j)
    PROVE  TypeOK'
<1>1. job' \in [Jobs -> Job]
  BY PollMoves, TypeParts DEF Resume, Moves
<1>2. GetCaches(devices) \in SUBSET Keys
  BY CachesType, TypeParts DEF CacheOK
<1>3. ClientOK'
  BY TypeParts DEF Resume, ClientOK
<1>4. CacheOK'
  <2>1. devices' = {} /\ siteDevices' \subseteq Devices /\ caches' \in Nat
    BY TypeParts DEF Resume, CacheOK
  <2>2. energy' \in BOOLEAN
    BY DEF Resume
  <2> QED
    BY <2>1, <2>2 DEF CacheOK
<1>5. CoordOK' /\ WorldOK'
  BY <1>2, TypeParts DEF Resume, cloudVars, boundVars, CoordOK, WorldOK
<1> QED
  BY <1>1, <1>3, <1>4, <1>5, NextParts

LEMMA RefreshFromCacheType ==
    ASSUME TypeOK, RefreshFromCache
    PROVE  TypeOK'
<1>1. GetCaches(devices) \in SUBSET Keys
  BY CachesType, TypeParts DEF CacheOK
<1>2. ClientOK' /\ CacheOK' /\ CoordOK' /\ WorldOK'
  BY <1>1, TypeParts
     DEF RefreshFromCache, Unmark, cacheVars, cloudVars, boundVars,
         ClientOK, CacheOK, CoordOK, WorldOK
<1>3. job' \in [Jobs -> Job]
  BY TypeParts DEF RefreshFromCache
<1> QED
  BY <1>2, <1>3, NextParts

LEMMA ListAnsweredType ==
    ASSUME TypeOK, NEW j \in Jobs, ListAnswered(j)
    PROVE  TypeOK'
<1>1. job' \in [Jobs -> Job]
  BY GotoMoves, TypeParts DEF ListAnswered, Moves, Pc, Request
<1>2. \A i \in 1 .. Len(SiteList) : SiteList[i] \in Devices
  BY RefreshAssumption
<1>3. devices' \subseteq Devices /\ siteDevices' \subseteq Devices
  BY <1>2, TypeParts DEF ListAnswered, CacheOK
<1>4. ClientOK' /\ CacheOK' /\ CoordOK' /\ WorldOK'
  BY <1>3, TypeParts DEF ListAnswered, clientVars, coordVars, cloudVars, boundVars,
                         ClientOK, CacheOK, CoordOK, WorldOK
<1> QED
  BY <1>1, <1>4, NextParts

\* A details refresh or a request for the deferred data starts, or the job
\* ends.
LEMMA SceneAnsweredMoves ==
    ASSUME TypeOK, NEW j \in Jobs, SceneAnswered(j)
    PROVE  /\ CoordOK' /\ active' \in BOOLEAN
           /\ \/ Moves(j, {"bind", "deferred"})
              \/ Moves(j, {"idle", "reload"}) /\ active' = FALSE
<1>1. CASE /\ active' = (IF j \in Updates THEN TRUE ELSE active)
           /\ \E pc \in {"bind", "deferred"} : Enter(j, pc)
           /\ UNCHANGED coordVars
  <2>1. PICK pc \in {"bind", "deferred"} : Enter(j, pc)
    BY <1>1
  <2>2. Moves(j, {pc})
    BY <2>1, EnterMoves, TypeParts DEF Pc, Request, CacheOK
  <2> QED
    BY <1>1, <2>2, TypeParts DEF Moves, coordVars, CoordOK, ClientOK
<1>2. CASE Unmark /\ Finish(j, GetCaches(devices'), deferred, startup)
  <2>1. devices' \in SUBSET Devices
    BY RefreshAssumption, TypeParts DEF SceneAnswered, Seen, CacheOK
  <2> QED
    BY <1>2, <2>1, CachesType, FinishMoves, TypeParts DEF Unmark, ClientOK
<1> QED
  BY <1>1, <1>2 DEF SceneAnswered

LEMMA SceneAnsweredType ==
    ASSUME TypeOK, NEW j \in Jobs, SceneAnswered(j)
    PROVE  TypeOK'
<1>1. job' \in [Jobs -> Job] /\ CoordOK' /\ active' \in BOOLEAN
  BY SceneAnsweredMoves DEF Moves
<1>2. devices' \subseteq Devices /\ siteDevices' \subseteq Devices
  BY RefreshAssumption, TypeParts DEF SceneAnswered, Seen, CacheOK
<1>3. count' \in Int
  BY TypeParts DEF SceneAnswered, Countdown, ClientOK
<1>4. ClientOK' /\ CacheOK' /\ WorldOK'
  BY <1>1, <1>2, <1>3, TypeParts
     DEF SceneAnswered, cloudVars, boundVars, ClientOK, CacheOK, WorldOK
<1> QED
  BY <1>1, <1>4, NextParts

LEMMA BindAnsweredMoves ==
    ASSUME TypeOK, NEW j \in Jobs, BindAnswered(j)
    PROVE  Moves(j, {"loop"}) /\ devices' \subseteq Devices
<1>1. devices' \subseteq Devices
  BY RefreshAssumption, TypeParts DEF BindAnswered, Recycle, CacheOK
<1>2. caches \in Nat /\ job \in [Jobs -> Job]
  BY TypeParts DEF CacheOK
<1>3. job' = [job EXCEPT ![j].pc = "loop", ![j].snap = devices', ![j].born = caches]
  BY DEF BindAnswered
<1>4. Moves(j, {"loop"})
  BY ZenonT(40), <1>1, <1>2, <1>3 DEF Moves, Job, Request
<1> QED
  BY <1>1, <1>4

LEMMA BindAnsweredType ==
    ASSUME TypeOK, NEW j \in Jobs, BindAnswered(j)
    PROVE  TypeOK'
<1>1. job' \in [Jobs -> Job] /\ devices' \subseteq Devices
  BY BindAnsweredMoves DEF Moves
<1>2. ClientOK' /\ CacheOK' /\ CoordOK' /\ WorldOK'
  BY <1>1, TypeParts
     DEF BindAnswered, clientVars, coordVars, cloudVars, boundVars,
         ClientOK, CacheOK, CoordOK, WorldOK
<1> QED
  BY <1>1, <1>2, NextParts

\* The end of a details refresh, in the devices a step leaves cached.
LEMMA EndDetailsMoves ==
    ASSUME TypeOK, NEW j \in Jobs, devices' \subseteq Devices, EndDetails(j)
    PROVE  /\ Moves(j, {"idle", "reload"}) /\ CoordOK'
           /\ count' \in Int /\ recent' = TRUE /\ active' = FALSE
<1>1. GetCaches(devices') \in SUBSET Keys
  BY DEF GetCaches, Keys
<1>2. Finish(j, GetCaches(devices'), deferred, startup)
  BY DEF EndDetails
<1>3. Moves(j, {"idle", "reload"}) /\ CoordOK'
  BY <1>1, <1>2, FinishMoves, TypeParts DEF ClientOK
<1>4. count' \in Int
  BY RefreshAssumption DEF EndDetails
<1> QED
  BY <1>3, <1>4 DEF EndDetails

LEMMA LoopAnsweredMoves ==
    ASSUME TypeOK, NEW j \in Jobs, LoopAnswered(j)
    PROVE  /\ devices' \subseteq Devices /\ CoordOK'
           /\ count' \in Int /\ recent' \in BOOLEAN /\ active' \in BOOLEAN
           /\ \/ Moves(j, {"energy"})
              \/ Moves(j, {"idle", "reload"}) /\ active' = FALSE
<1>1. devices' \subseteq Devices
  <2>1. job[j].snap \subseteq Devices
    BY TypeParts DEF Job
  <2> QED
    BY <2>1, TypeParts DEF LoopAnswered, CacheOK
<1>2. CASE EndDetails(j)
  BY <1>1, <1>2, EndDetailsMoves
<1>3. CASE Enter(j, "energy") /\ UNCHANGED <<active, count, recent, coordVars>>
  BY <1>1, <1>3, EnterMoves, TypeParts
     DEF Pc, Request, CacheOK, coordVars, CoordOK, ClientOK
<1> QED
  BY <1>2, <1>3 DEF LoopAnswered

LEMMA LoopAnsweredType ==
    ASSUME TypeOK, NEW j \in Jobs, LoopAnswered(j)
    PROVE  TypeOK'
<1>1. /\ job' \in [Jobs -> Job] /\ devices' \subseteq Devices /\ CoordOK'
      /\ count' \in Int /\ recent' \in BOOLEAN /\ active' \in BOOLEAN
  BY LoopAnsweredMoves DEF Moves
<1>2. ClientOK' /\ CacheOK' /\ WorldOK'
  BY <1>1, TypeParts
     DEF LoopAnswered, cloudVars, boundVars, ClientOK, CacheOK, WorldOK
<1> QED
  BY <1>1, <1>2, NextParts

LEMMA EnergyAnsweredMoves ==
    ASSUME TypeOK, NEW j \in Jobs, EnergyAnswered(j)
    PROVE  /\ Moves(j, {"idle", "reload"}) /\ CoordOK'
           /\ count' \in Int /\ recent' = TRUE /\ active' = FALSE
<1>1. devices' \subseteq Devices
  BY TypeParts DEF EnergyAnswered, CacheOK
<1> QED
  BY <1>1, EndDetailsMoves DEF EnergyAnswered

LEMMA EnergyAnsweredType ==
    ASSUME TypeOK, NEW j \in Jobs, EnergyAnswered(j)
    PROVE  TypeOK'
<1>1. /\ job' \in [Jobs -> Job] /\ CoordOK'
      /\ count' \in Int /\ recent' = TRUE /\ active' = FALSE
  BY EnergyAnsweredMoves DEF Moves
<1>2. energy' \in BOOLEAN
  BY TypeParts DEF EnergyAnswered, CacheOK
<1>3. ClientOK' /\ CacheOK' /\ WorldOK'
  BY <1>1, <1>2, TypeParts
     DEF EnergyAnswered, cloudVars, boundVars, ClientOK, CacheOK, WorldOK
<1> QED
  BY <1>1, <1>3, NextParts

LEMMA DeferredAnsweredMoves ==
    ASSUME TypeOK, NEW j \in Jobs, DeferredAnswered(j)
    PROVE  Moves(j, {"idle", "reload"}) /\ CoordOK' /\ active' = FALSE
<1>1. GetCaches(devices) \in SUBSET Keys
  BY CachesType, TypeParts DEF CacheOK
<1>2. Finish(j, GetCaches(devices), TRUE, FALSE)
  BY DEF DeferredAnswered
<1>3. Moves(j, {"idle", "reload"}) /\ CoordOK'
  BY <1>1, <1>2, FinishMoves
<1> QED
  BY <1>3 DEF DeferredAnswered

LEMMA DeferredAnsweredType ==
    ASSUME TypeOK, NEW j \in Jobs, DeferredAnswered(j)
    PROVE  TypeOK'
<1>1. job' \in [Jobs -> Job] /\ CoordOK'
  BY DeferredAnsweredMoves DEF Moves
<1>2. energy' \in BOOLEAN
  BY TypeParts DEF DeferredAnswered, CacheOK
<1>3. ClientOK'
  BY TypeParts DEF DeferredAnswered, ClientOK
<1>4. CacheOK' /\ WorldOK'
  BY <1>2, TypeParts
     DEF DeferredAnswered, cloudVars, boundVars, CacheOK, WorldOK
<1> QED
  BY <1>1, <1>3, <1>4, NextParts

\* A failed job, for any reason.
LEMMA AbandonType ==
    ASSUME TypeOK, NEW j \in Jobs, Abandon(j), faults' \in Nat
    PROVE  TypeOK'
<1>1. job' \in [Jobs -> Job]
  BY DoneMoves, TypeParts DEF Abandon, Moves
<1>2. ClientOK'
  <2>1. count' \in Int
    BY TypeParts DEF Abandon, ClientOK
  <2> QED
    BY <2>1, TypeParts DEF Abandon, Unmark, ClientOK
<1>3. devices' \subseteq Devices /\ siteDevices' \subseteq Devices
  BY TypeParts DEF Abandon, CacheOK
<1>4. scheduled' \in BOOLEAN
  BY TypeParts DEF Abandon, CoordOK
<1>5. CacheOK' /\ CoordOK' /\ WorldOK'
  BY <1>3, <1>4, TypeParts
     DEF Abandon, cloudVars, CacheOK, CoordOK, WorldOK
<1> QED
  BY <1>1, <1>2, <1>5, NextParts

LEMMA ReloadDoneType ==
    ASSUME TypeOK, NEW j \in Jobs, ReloadDone(j)
    PROVE  TypeOK'
<1>1. job' \in [Jobs -> Job]
  BY DoneMoves, TypeParts DEF ReloadDone, Moves
<1>2. job[j].ids \subseteq Keys
  BY TypeParts DEF Job
<1>3. deferred' \in BOOLEAN
  BY TypeParts DEF ReloadDone, ClientOK
<1>4. faults' \in Nat
  BY TypeParts DEF ReloadDone, WorldOK
<1>5. registered' \subseteq Keys /\ data' \subseteq Keys /\ outdated' \in BOOLEAN
  BY <1>2, TypeParts DEF ReloadDone, Register, CoordOK
<1>6. scheduled' \in BOOLEAN
  BY TypeParts DEF ReloadDone, CoordOK
<1>7. ClientOK' /\ CacheOK' /\ CoordOK' /\ WorldOK'
  BY <1>3, <1>4, <1>5, <1>6, TypeParts
     DEF ReloadDone, cacheVars, cloudVars,
         ClientOK, CacheOK, CoordOK, WorldOK
<1> QED
  BY <1>1, <1>7, NextParts

LEMMA WorldType ==
    ASSUME TypeOK, SixtySecondsPass \/ CloudChange
    PROVE  TypeOK'
<1>1. CASE SixtySecondsPass
  <2>1. ClientOK'
    BY <1>1, TypeParts DEF SixtySecondsPass, ClientOK
  <2>2. CacheOK' /\ CoordOK' /\ WorldOK' /\ job' \in [Jobs -> Job]
    BY <1>1, TypeParts DEF SixtySecondsPass, cacheVars, coordVars, cloudVars,
                           boundVars, CacheOK, CoordOK, WorldOK
  <2> QED
    BY <2>1, <2>2, NextParts
<1>2. CASE CloudChange
  <2>1. ClientOK' /\ CacheOK' /\ CoordOK' /\ job' \in [Jobs -> Job]
    BY <1>2, TypeParts DEF CloudChange, clientVars, cacheVars, coordVars,
                           ClientOK, CacheOK, CoordOK
  <2>2. WorldOK'
    BY <1>2, TypeParts DEF CloudChange, WorldOK
  <2> QED
    BY <2>1, <2>2, NextParts
<1> QED
  BY <1>1, <1>2

LEMMA NextType == TypeOK /\ [Next]_vars => TypeOK'
<1> SUFFICES ASSUME TypeOK, [Next]_vars PROVE TypeOK'
  OBVIOUS
<1>1. ASSUME NEW j \in Jobs, StartUpdate(j) \/ Press(j) \/ Resume(j)
      PROVE  TypeOK'
  BY <1>1, StartUpdateType, PressType, ResumeType
<1>2. ASSUME NEW j \in Jobs, Stagger(j) \/ ListAnswered(j) \/ SceneAnswered(j)
      PROVE  TypeOK'
  BY <1>2, StaggerType, ListAnsweredType, SceneAnsweredType
<1>3. ASSUME NEW j \in Jobs,
             BindAnswered(j) \/ LoopAnswered(j) \/ EnergyAnswered(j)
      PROVE  TypeOK'
  BY <1>3, BindAnsweredType, LoopAnsweredType, EnergyAnsweredType
<1>4. ASSUME NEW j \in Jobs, DeferredAnswered(j) \/ ReloadDone(j)
      PROVE  TypeOK'
  BY <1>4, DeferredAnsweredType, ReloadDoneType
<1>5. ASSUME NEW j \in Jobs, Fail(j) \/ LoopBroken(j)
      PROVE  TypeOK'
  <2>1. Abandon(j) /\ faults' \in Nat
    BY <1>5, TypeParts DEF Fail, LoopBroken, WorldOK
  <2> QED
    BY <2>1, AbandonType
<1>6. CASE Suspend \/ RefreshFromCache \/ SixtySecondsPass \/ CloudChange
  BY <1>6, SuspendType, RefreshFromCacheType, WorldType
<1>7. CASE UNCHANGED vars
  BY <1>7 DEF vars, clientVars, cacheVars, coordVars, cloudVars, boundVars, TypeOK
<1> QED
  BY <1>1, <1>2, <1>3, <1>4, <1>5, <1>6, <1>7 DEF Next, Step

----------------------------------------------------------------------------
(* The mark of a details refresh *)

Details == {"bind", "loop", "energy", "deferred"}

\* At these points every job is in a details refresh.
LEMMA DetailsRefresh ==
    ASSUME NEW j \in Jobs, job'[j].pc \in Details
    PROVE  FlagOwned'
BY DEF FlagOwned, Refreshing, Details, Request

\* The move of a job that was not in a details refresh takes no mark away.
LEMMA OthersRefresh ==
    ASSUME FlagOwned, active' = active, NEW j \in Jobs, ~Refreshing(j),
           \A i \in Jobs \ {j} : job'[i].pc = job[i].pc
    PROVE  FlagOwned'
BY DEF FlagOwned, Refreshing

LEMMA PollRefreshes ==
    ASSUME NEW j \in Buttons \cup Switches, Moves(j, {"list"})
    PROVE  FlagOwned'
<1>1. j \notin Updates
  BY RefreshAssumption
<1> QED
  BY <1>1 DEF FlagOwned, Refreshing, Request, Moves, Jobs

LEMMA NextFlag == TypeOK /\ FlagOwned /\ [Next]_vars => FlagOwned'
<1> SUFFICES ASSUME TypeOK, FlagOwned, [Next]_vars PROVE FlagOwned'
  OBVIOUS
<1>0. ~active' => FlagOwned'
  BY DEF FlagOwned
<1>1. ASSUME NEW j \in Jobs, StartUpdate(j) PROVE FlagOwned'
  <2>1. ~active'
    BY <1>1, BeginType DEF StartUpdate
  <2> QED
    BY <1>0, <2>1
<1>2. ASSUME NEW j \in Jobs, Stagger(j) PROVE FlagOwned'
  <2>1. CASE Moves(j, {"list"}) /\ active' = active
    <3>1. ~Refreshing(j)
      BY <1>2 DEF Stagger, At, Refreshing, Request
    <3> QED
      BY <2>1, <3>1, OthersRefresh DEF Moves
  <2> QED
    BY <1>0, <1>2, <2>1, BeginType DEF Stagger
<1>3. ASSUME NEW j \in Jobs, Press(j) PROVE FlagOwned'
  <2>1. CASE Poll(j)
    BY <1>3, <2>1, PollMoves, PollRefreshes, TypeParts DEF Press
  <2> QED
    BY <1>0, <1>3, <2>1 DEF Press, Unmark
<1>4. ASSUME NEW j \in Jobs, Resume(j) PROVE FlagOwned'
  BY <1>4, PollMoves, PollRefreshes, TypeParts DEF Resume
<1>5. ASSUME NEW j \in Jobs, ListAnswered(j) PROVE FlagOwned'
  <2>1. Moves(j, {"scene"})
    BY <1>5, GotoMoves, TypeParts DEF ListAnswered, Pc, Request
  <2>2. active' = active
    BY <1>5 DEF ListAnswered, clientVars
  <2>3. CASE j \in Updates
    <3>1. ~Refreshing(j)
      BY <1>5, <2>3 DEF ListAnswered, At, Refreshing
    <3> QED
      BY <2>1, <2>2, <3>1, OthersRefresh DEF Moves
  <2>4. CASE j \notin Updates
    BY <2>1, <2>4 DEF Moves, FlagOwned, Refreshing, Request
  <2> QED
    BY <2>3, <2>4
<1>6. ASSUME NEW j \in Jobs, SceneAnswered(j) PROVE FlagOwned'
  BY <1>0, <1>6, SceneAnsweredMoves, DetailsRefresh DEF Moves, Details
<1>7. ASSUME NEW j \in Jobs, BindAnswered(j) PROVE FlagOwned'
  BY <1>7, BindAnsweredMoves, DetailsRefresh DEF Moves, Details
<1>8. ASSUME NEW j \in Jobs, LoopAnswered(j) PROVE FlagOwned'
  BY <1>0, <1>8, LoopAnsweredMoves, DetailsRefresh DEF Moves, Details
<1>9. ASSUME NEW j \in Jobs, EnergyAnswered(j) \/ DeferredAnswered(j)
      PROVE  FlagOwned'
  BY <1>0, <1>9, EnergyAnsweredMoves, DeferredAnsweredMoves
<1>10. ASSUME NEW j \in Jobs, Fail(j) \/ LoopBroken(j) PROVE FlagOwned'
  BY <1>0, <1>10 DEF Fail, LoopBroken, Abandon, Unmark
<1>11. ASSUME NEW j \in Jobs, ReloadDone(j) PROVE FlagOwned'
  <2>1. Moves(j, {"idle"}) /\ active' = active
    BY <1>11, DoneMoves, TypeParts DEF ReloadDone
  <2>2. ~Refreshing(j)
    BY <1>11 DEF ReloadDone, At, Refreshing, Request
  <2> QED
    BY <2>1, <2>2, OthersRefresh DEF Moves
<1>12. CASE Suspend \/ RefreshFromCache
  BY <1>0, <1>12 DEF Suspend, RefreshFromCache, Unmark
<1>13. CASE SixtySecondsPass \/ CloudChange
  BY <1>13 DEF SixtySecondsPass, CloudChange, clientVars, FlagOwned, Refreshing
<1>14. CASE UNCHANGED vars
  BY <1>14 DEF vars, clientVars, FlagOwned, Refreshing
<1> QED
  BY <1>1, <1>2, <1>3, <1>4, <1>5, <1>6, <1>7, <1>8, <1>9, <1>10, <1>11, <1>12,
     <1>13, <1>14 DEF Next, Step

\* Every variable keeps its type, for any devices, jobs and bounds.
THEOREM TypeCorrect == Spec => []TypeOK
<1> QED
  BY InitType, NextType, PTL DEF Spec

\* The mark of a details refresh is set only while one is under way, however
\* it ends, for any number of jobs and failures: updates are not locked out.
THEOREM MarkOwned == Spec => []FlagOwned
<1>1. Init => FlagOwned
  BY DEF Init, FlagOwned
<1> QED
  BY <1>1, NextFlag, TypeCorrect, PTL DEF Spec

----------------------------------------------------------------------------
(* What a job that polls alone removes.  A device is removed when it is    *)
(* registered and a poll did not find it.  The invariant follows a device  *)
(* that never left the cloud, by where the cloud shows it: a bound one     *)
(* stays in the caches it was found in, one of the scenes is found by      *)
(* every poll of the sites, and the details of the devices keep both.      *)

\* The cloud shows what a site lists in the scene of the site too, or among
\* the bound devices.
ListedShown == \A i \in 1 .. Len(SiteList) : SiteList[i] \in Scenes \cup Bound

Shown(S) == \A d \in S \ {Account} : d \in cloud \cup left /\ d \in Scenes \cup Bound

\* Only what the cloud showed once is cached, registered or polled.
AllShown ==
    /\ Shown(registered) /\ Shown(devices)
    /\ \A j \in Jobs : Shown(job[j].ids) /\ Shown(job[j].snap)

\* Before the hub is set up nothing is registered and only updates run.
SetUp ==
    /\ ~ready => /\ registered = {}
                 /\ \A j \in Jobs : /\ ~At(j, "reload")
                                    /\ j \notin Updates => At(j, "idle")
    /\ \A j \in Jobs : /\ At(j, "stagger") \/ At(j, "deferred") => j \in Updates
                       /\ job[j].born <= caches

Covered(S) == \A d \in S \cap Bound : d \notin left => d \in devices

\* The caches keep the bound devices that are registered, or about to be, if
\* these were found since the caches were cleared.
BoundCached ==
    /\ ~startup /\ ~deferred /\ ~outdated => Covered(registered)
    /\ \A j \in Jobs : At(j, "reload") /\ job[j].born = caches => Covered(job[j].ids)

\* Registered or about to be, and never gone from the cloud.
Stays(d) ==
    /\ d \notin left
    /\ d \in registered \/ \E i \in Jobs : At(i, "reload") /\ d \in job[i].ids

\* A job that polls alone has the devices of the scenes once it got the
\* scenes, and the bound ones once it got these.
LoneDetails ==
    \A j \in Jobs : Polling(j) /\ job[j].alone =>
        /\ \A i \in Jobs \ {j} : ~Polling(i)
        /\ At(j, "bind") =>
               \A d \in Scenes : Stays(d) => d \in devices /\ d \in siteDevices
        /\ At(j, "loop") \/ At(j, "energy") =>
               \A d \in Scenes \cup Bound : Stays(d) => d \in devices

Lone == AllShown /\ SetUp /\ BoundCached /\ LoneDetails

----------------------------------------------------------------------------
(* The steps of a job, field by field *)

OthersSame(j) == \A i \in Jobs \ {j} : job'[i] = job[i]

\* Job j ends, moves on to pc, or reloads.
Ends(j) ==
    /\ OthersSame(j)
    /\ job'[j].pc = "idle" /\ job'[j].ids = {} /\ job'[j].snap = {}
    /\ job'[j].born = 0
Walks(j, pc) ==
    /\ OthersSame(j)
    /\ job'[j].pc = pc /\ job'[j].ids = job[j].ids
    /\ job'[j].alone = job[j].alone
Reloads(j, ids) ==
    /\ OthersSame(j)
    /\ job'[j].pc = "reload" /\ job'[j].ids = ids /\ job'[j].born = caches
    /\ job'[j].snap = job[j].snap

LEMMA DoneEnds ==
    ASSUME job \in [Jobs -> Job], NEW j \in Jobs, Done(j)
    PROVE  Ends(j)
<1>1. job'[j] = Idle /\ OthersSame(j)
  BY DEF Done, OthersSame
<1>2. Idle.pc = "idle" /\ Idle.ids = {} /\ Idle.snap = {} /\ Idle.born = 0
  BY DEF Idle
<1> QED
  BY <1>1, <1>2 DEF Ends

LEMMA GotoWalks ==
    ASSUME job \in [Jobs -> Job], NEW j \in Jobs, NEW pc \in Pc, Goto(j, pc)
    PROVE  Walks(j, pc) /\ job'[j].snap = job[j].snap /\ job'[j].born = job[j].born
BY DEF Goto, Walks, OthersSame, Job

LEMMA EnterWalks ==
    ASSUME job \in [Jobs -> Job], NEW j \in Jobs, NEW pc \in Pc, Enter(j, pc)
    PROVE  Walks(j, pc) /\ job'[j].snap = job[j].snap /\ job'[j].born = caches
BY DEF Enter, Walks, OthersSame, Job

LEMMA BindWalks ==
    ASSUME job \in [Jobs -> Job], NEW j \in Jobs, BindAnswered(j)
    PROVE  Walks(j, "loop") /\ job'[j].snap = devices' /\ job'[j].born = caches
<1> DEFINE moved == [job[j] EXCEPT !.pc = "loop", !.snap = devices', !.born = caches]
<1>1. /\ moved.pc = "loop" /\ moved.snap = devices' /\ moved.born = caches
      /\ moved.ids = job[j].ids /\ moved.alone = job[j].alone
  BY DEF Job
<1>2. job' = [job EXCEPT ![j] = moved]
  BY DEF BindAnswered
<1> QED
  BY <1>1, <1>2 DEF Walks, OthersSame

LEMMA ReloadReloads ==
    ASSUME job \in [Jobs -> Job], NEW j \in Jobs, NEW ids, NEW late,
           Reload(j, ids, late)
    PROVE  Reloads(j, ids)
<1> DEFINE moved == [job[j] EXCEPT !.pc = "reload", !.ids = ids, !.late = late,
                                   !.born = caches]
<1>1. /\ moved.pc = "reload" /\ moved.ids = ids /\ moved.born = caches
      /\ moved.snap = job[j].snap
  BY DEF Job
<1>2. job' = [job EXCEPT ![j] = moved]
  BY DEF Reload
<1> QED
  BY <1>1, <1>2 DEF Reloads, OthersSame

\* The start of the requests: no job that polls already remains alone.
Polls(j) ==
    /\ job'[j].pc = "list" /\ job'[j].ids = {} /\ job'[j].snap = {}
    /\ job'[j].born = 0
    /\ job'[j].alone => \A i \in Jobs \ {j} : ~Polling(i)
    /\ \A i \in Jobs \ {j} :
           /\ job'[i].pc = job[i].pc /\ job'[i].ids = job[i].ids
           /\ job'[i].snap = job[i].snap /\ job'[i].born = job[i].born
           /\ Polling(i) => job'[i].alone = FALSE

LEMMA PollPolls ==
    ASSUME job \in [Jobs -> Job], NEW j \in Jobs, Poll(j)
    PROVE  Polls(j)
<1> DEFINE lone == \A i \in Jobs \ {j} : ~Polling(i)
           start == [Idle EXCEPT !.pc = "list", !.alone = lone]
<1>1. /\ start.pc = "list" /\ start.ids = {} /\ start.snap = {}
      /\ start.born = 0
  BY DEF Idle
<1>2. start.alone => lone
  BY DEF Idle
<1>3. \A k \in Jobs : LET met == [job[k] EXCEPT !.alone = FALSE] IN
                      /\ met.pc = job[k].pc /\ met.ids = job[k].ids
                      /\ met.snap = job[k].snap /\ met.born = job[k].born
                      /\ met.alone = FALSE
  BY DEF Job
<1> HIDE DEF start
<1>4. job' = [k \in Jobs |-> IF k = j THEN start
                             ELSE IF Polling(k) THEN [job[k] EXCEPT !.alone = FALSE]
                             ELSE job[k]]
  BY DEF Poll, start
<1> QED
  BY <1>1, <1>2, <1>3, <1>4 DEF Polls

----------------------------------------------------------------------------
(* What the coordinator makes of the data of a job *)

\* Devices the end of job j removes although they never left the cloud.
Dropped(j, ids, late, start, d) ==
    /\ ids # {} /\ j \notin Switches
    /\ j \in Updates => ~late /\ ~start
    /\ d \in registered /\ d \notin ids /\ d \in cloud /\ d \notin left
    /\ job[j].alone /\ ~outdated

LosesOnly(j, ids, late, start) ==
    \A d \in Devices : <<d, TRUE>> \in lost' =>
        <<d, TRUE>> \in lost \/ Dropped(j, ids, late, start, d)

Outcome(j, ids, late, start) ==
    /\ Ends(j) \/ Reloads(j, ids)
    /\ \/ registered' \subseteq registered /\ outdated' = outdated
       \/ start /\ registered' = ids
    /\ ready' = (ready \/ j \in Updates)
    /\ LosesOnly(j, ids, late, start)

LEMMA NoLoss ==
    ASSUME NEW j, NEW ids, NEW late, NEW start, lost' = lost
    PROVE  LosesOnly(j, ids, late, start)
BY DEF LosesOnly

LEMMA RemoveLoss ==
    ASSUME TypeOK, NEW j \in Jobs, NEW ids, NEW late, NEW start, NEW gone,
           Remove(j, gone), ids # {}, j \notin Switches,
           j \in Updates => ~late /\ ~start,
           gone \subseteq registered \ ids
    PROVE  LosesOnly(j, ids, late, start)
<1> SUFFICES ASSUME NEW d \in Devices, <<d, TRUE>> \in lost',
                    <<d, TRUE>> \notin lost
             PROVE  Dropped(j, ids, late, start, d)
  BY DEF LosesOnly
<1>1. PICK c \in (gone \cap cloud) \ left :
          <<d, TRUE>> = <<c, job[j].alone /\ ~outdated>>
  BY DEF Remove
<1>2. d = c /\ (job[j].alone /\ ~outdated) = TRUE
  BY <1>1
<1>3. job[j].alone /\ ~outdated
  BY <1>2
<1> QED
  BY <1>1, <1>2, <1>3 DEF Dropped

LEMMA UpdateOutcome ==
    ASSUME TypeOK, NEW j \in Updates, NEW ids \in SUBSET Keys,
           NEW late \in BOOLEAN, NEW start \in BOOLEAN,
           FinishUpdate(j, ids, late, start)
    PROVE  Outcome(j, ids, late, start)
<1>1. j \in Jobs /\ j \notin Switches /\ job \in [Jobs -> Job]
  BY RefreshAssumption, TypeParts DEF Jobs
<1>2. ready' = (ready \/ j \in Updates)
  BY DEF FinishUpdate
<1>3. CASE /\ Reload(j, ids, late)
           /\ UNCHANGED <<data, registered, scheduled, outdated, lost>>
  BY <1>1, <1>2, <1>3, ReloadReloads, NoLoss DEF Outcome
<1>4. CASE ~late /\ start /\ registered' = ids /\ outdated' = FALSE
           /\ UNCHANGED lost /\ Done(j)
  BY <1>1, <1>2, <1>4, DoneEnds, NoLoss DEF Outcome
<1>5. CASE ~late /\ ~start /\ ids # {} /\ Done(j)
           /\ Remove(j, (registered \ ids) \ data)
  <2>1. LosesOnly(j, ids, late, start)
    BY <1>1, <1>5, RemoveLoss
  <2> QED
    BY <1>1, <1>2, <1>5, <2>1, DoneEnds DEF Outcome, Remove
<1>6. CASE Done(j) /\ UNCHANGED <<registered, outdated, lost>>
  BY <1>1, <1>2, <1>6, DoneEnds, NoLoss DEF Outcome
<1> QED
  BY <1>3, <1>4, <1>5, <1>6 DEF FinishUpdate

LEMMA ButtonOutcome ==
    ASSUME TypeOK, NEW j \in Buttons, NEW ids \in SUBSET Keys,
           NEW late \in BOOLEAN, NEW start \in BOOLEAN,
           FinishButton(j, ids)
    PROVE  Outcome(j, ids, late, start)
<1>1. /\ j \in Jobs /\ j \notin Switches /\ j \notin Updates
      /\ job \in [Jobs -> Job] /\ ready \in BOOLEAN
  BY RefreshAssumption, TypeParts DEF Jobs, CoordOK
<1>2. ready' = (ready \/ j \in Updates)
  BY <1>1 DEF FinishButton
<1>3. CASE Reload(j, ids, FALSE) /\ UNCHANGED <<registered, outdated, lost>>
  BY <1>1, <1>2, <1>3, ReloadReloads, NoLoss DEF Outcome
<1>4. CASE Done(j) /\ ids # {} /\ Remove(j, registered \ ids)
  <2>1. LosesOnly(j, ids, late, start)
    BY <1>1, <1>4, RemoveLoss
  <2> QED
    BY <1>1, <1>2, <1>4, <2>1, DoneEnds DEF Outcome, Remove
<1>5. CASE Done(j) /\ UNCHANGED <<registered, outdated, lost>>
  BY <1>1, <1>2, <1>5, DoneEnds, NoLoss DEF Outcome
<1> QED
  BY <1>3, <1>4, <1>5 DEF FinishButton

LEMMA FinishOutcome ==
    ASSUME TypeOK, NEW j \in Jobs, NEW ids \in SUBSET Keys,
           NEW late \in BOOLEAN, NEW start \in BOOLEAN,
           Finish(j, ids, late, start)
    PROVE  Outcome(j, ids, late, start)
<1>1. CASE j \in Switches /\ FinishSwitch(j, ids)
  <2>1. /\ j \notin Updates /\ job \in [Jobs -> Job] /\ ready \in BOOLEAN
    BY <1>1, RefreshAssumption, TypeParts DEF CoordOK
  <2> QED
    BY <1>1, <2>1, ReloadReloads, NoLoss DEF Outcome, FinishSwitch
<1> QED
  BY <1>1, UpdateOutcome, ButtonOutcome DEF Finish

----------------------------------------------------------------------------
(* The kinds of steps and the invariant *)

\* The parts of the invariant that do not say where jobs are.
LEMMA ShownGrows ==
    ASSUME NEW S, Shown(S), cloud \cup left \subseteq cloud' \cup left'
    PROVE  Shown(S)'
BY DEF Shown

\* A job ends or reloads with what it found, or with nothing.
LEMMA FinishLone ==
    ASSUME TypeOK, Lone, NEW j \in Jobs, NEW ids \in SUBSET Keys,
           NEW late \in BOOLEAN, NEW start \in BOOLEAN,
           Outcome(j, ids, late, start),
           \/ Polling(j) /\ ids = GetCaches(devices')
           \/ ids = {} /\ UNCHANGED <<devices, siteDevices>>,
           Shown(devices)', devices \subseteq devices',
           UNCHANGED <<cloud, left, caches>>,
           ready \/ j \in Updates,
           start => startup',
           deferred' \/ (startup' = startup /\ deferred' = deferred)
    PROVE  Lone'
<1>1. /\ job \in [Jobs -> Job] /\ caches \in Nat
      /\ devices \subseteq Devices /\ Account \notin Devices
  BY RefreshAssumption, TypeParts DEF CacheOK
<1>2. \A i \in Jobs \ {j} : job'[i] = job[i]
  BY DEF Outcome, Ends, Reloads, OthersSame
<1>3. \/ job'[j].pc = "idle" /\ job'[j].ids = {} /\ job'[j].snap = {} /\ job'[j].born = 0
      \/ /\ job'[j].pc = "reload" /\ job'[j].ids = ids /\ job'[j].born = caches
         /\ job'[j].snap = job[j].snap
  BY DEF Outcome, Ends, Reloads
<1>4. Shown(ids)'
  BY DEF GetCaches, Shown
<1>5. AllShown'
  <2>1. Shown(registered)'
    BY <1>4 DEF Lone, AllShown, Shown, Outcome
  <2>2. ASSUME NEW i \in Jobs PROVE Shown(job[i].ids)' /\ Shown(job[i].snap)'
    <3>1. Shown(job[i].ids) /\ Shown(job[i].snap)
      BY DEF Lone, AllShown
    <3>2. CASE i # j
      <4>1. job'[i] = job[i]
        BY <1>2, <3>2
      <4> QED
        BY <3>1, <4>1, ShownGrows
    <3>3. CASE i = j
      BY <1>3, <1>4, <3>1, <3>3 DEF Shown
    <3> QED
      BY <3>2, <3>3
  <2> QED
    BY <2>1, <2>2 DEF AllShown
<1>6. SetUp'
  <2>1. ready' = (ready \/ j \in Updates) /\ ready'
    BY DEF Outcome
  <2>2. ASSUME NEW i \in Jobs
        PROVE  (At(i, "stagger") \/ At(i, "deferred") => i \in Updates)' /\ (job[i].born <= caches)'
    BY <1>1, <1>2, <1>3 DEF Lone, SetUp, At
  <2> QED
    BY <2>1, <2>2 DEF SetUp
<1>7. ids = {} \/ \A d \in Bound \cap ids : d \in devices'
  BY RefreshAssumption DEF GetCaches
<1>8. BoundCached'
  <2>1. (~startup /\ ~deferred /\ ~outdated => Covered(registered))'
    <3>1. CASE registered' \subseteq registered /\ outdated' = outdated
      BY <3>1 DEF Lone, BoundCached, Covered
    <3>2. CASE start
      BY <3>2
    <3> QED
      BY <3>1, <3>2 DEF Outcome
  <2>2. ASSUME NEW i \in Jobs, At(i, "reload")', job'[i].born = caches'
        PROVE  Covered(job[i].ids)'
    <3>1. CASE i = j
      BY <1>3, <1>7, <2>2, <3>1 DEF Covered, At
    <3>2. CASE i # j
      BY <1>2, <2>2, <3>2 DEF Lone, BoundCached, Covered, At
    <3> QED
      BY <3>1, <3>2
  <2> QED
    BY <2>1, <2>2 DEF BoundCached
<1>9. LoneDetails'
  <2>1. CASE Polling(j)
    <3>1. \A i \in Jobs : Polling(i)' => i # j /\ Polling(i) /\ job'[i].alone = job[i].alone
      BY <1>2, <1>3 DEF Polling, Request
    <3>2. \A i \in Jobs \ {j} : ~(Polling(i) /\ job[i].alone)
      BY <2>1 DEF Lone, LoneDetails
    <3> QED
      BY <3>1, <3>2 DEF LoneDetails
  <2>2. CASE ~Polling(j)
    <3>1. ids = {} /\ UNCHANGED <<devices, siteDevices>>
      BY <2>2
    <3>2. \A i \in Jobs : Polling(i)' => i # j /\ Polling(i) /\ job'[i] = job[i]
      BY <1>2, <1>3 DEF Polling, Request
    <3>3. registered' \subseteq registered
      BY <3>1 DEF Outcome
    <3>4. \A d : Stays(d)' => Stays(d)
      BY <1>2, <1>3, <3>1, <3>3 DEF Stays, At
    <3> QED
      BY <3>1, <3>2, <3>4 DEF Lone, LoneDetails, At
  <2> QED
    BY <2>1, <2>2
<1> QED
  BY <1>5, <1>6, <1>8, <1>9 DEF Lone

\* A job starts to poll, in the caches there are or in new ones.
LEMMA PollLone ==
    ASSUME TypeOK, Lone, NEW j \in Jobs, Polls(j), ready \/ j \in Updates,
           ~At(j, "reload"), ready' = ready,
           UNCHANGED <<registered, outdated, cloud, left>>,
           \/ UNCHANGED <<devices, siteDevices, caches, startup, deferred>>
           \/ startup' /\ devices' = {} /\ caches' = caches + 1 /\ ready
    PROVE  Lone'
<1>1. caches \in Nat /\ \A i \in Jobs : job[i].born \in Nat
  BY TypeParts DEF CacheOK, Job
<1>2. AllShown'
  BY DEF Lone, AllShown, Shown, Polls
<1>3. SetUp'
  <2>1. caches <= caches' /\ 0 <= caches'
    BY <1>1
  <2> QED
    BY <1>1, <2>1 DEF Lone, SetUp, Polls, At
<1>4. BoundCached'
  <2>1. CASE UNCHANGED <<devices, siteDevices, caches, startup, deferred>>
    BY <2>1 DEF Lone, BoundCached, Covered, Polls, At
  <2>2. CASE startup' /\ caches' = caches + 1
    <3>1. \A i \in Jobs : At(i, "reload")' => job'[i].born <= caches
      BY DEF Lone, SetUp, Polls, At
    <3>2. \A i \in Jobs : At(i, "reload")' => job'[i].born # caches'
      BY <1>1, <2>2, <3>1 DEF Polls, At
    <3> QED
      BY <2>2, <3>2 DEF BoundCached
  <2> QED
    BY <2>1, <2>2
<1>5. LoneDetails'
  <2>1. \A i \in Jobs : Polling(i)' /\ job'[i].alone => i = j
    BY DEF Polls, Polling, Request
  <2>2. job'[j].alone => \A i \in Jobs \ {j} : ~Polling(i)'
    BY DEF Polls, Polling
  <2>3. ~At(j, "bind")' /\ ~At(j, "loop")' /\ ~At(j, "energy")'
    BY DEF Polls, At
  <2> QED
    BY <2>1, <2>2, <2>3 DEF LoneDetails
<1> QED
  BY <1>2, <1>3, <1>4, <1>5 DEF Lone

\* A job goes on to its next await.
LEMMA WalkLone ==
    ASSUME TypeOK, Lone, NEW j \in Jobs, NEW pc, Walks(j, pc),
           ~At(j, "reload"), pc # "reload", pc # "idle",
           pc \in {"stagger", "deferred"} => j \in Updates,
           ready \/ j \in Updates,
           UNCHANGED <<registered, ready, outdated, cloud, left, caches,
                       startup, deferred>>,
           Shown(devices)', Shown(job[j].snap)',
           job'[j].born = job[j].born \/ job'[j].born = caches,
           \A d \in Bound : d \in devices /\ d \in cloud => d \in devices',
           \/ Polling(j)
           \/ pc \notin Request /\ UNCHANGED <<devices, siteDevices>>,
           job[j].alone /\ pc = "bind" =>
               \A d \in Scenes : Stays(d) => d \in devices' /\ d \in siteDevices',
           Polling(j) /\ job[j].alone /\ pc \in {"loop", "energy"} =>
               \A d \in Scenes \cup Bound : Stays(d) => d \in devices'
    PROVE  Lone'
<1>1. caches \in Nat /\ \A i \in Jobs : job[i].born \in Nat
  BY TypeParts DEF CacheOK, Job
<1>2. /\ \A i \in Jobs \ {j} : job'[i] = job[i]
      /\ job'[j].pc = pc /\ job'[j].ids = job[j].ids
      /\ job'[j].alone = job[j].alone
  BY DEF Walks, OthersSame
<1>3. AllShown'
  <2>1. Shown(registered)'
    BY DEF Lone, AllShown, Shown
  <2>2. ASSUME NEW i \in Jobs PROVE Shown(job[i].ids)' /\ Shown(job[i].snap)'
    BY <1>2 DEF Lone, AllShown, Shown
  <2> QED
    BY <2>1, <2>2 DEF AllShown
<1>4. SetUp'
  BY <1>1, <1>2 DEF Lone, SetUp, At
<1>5. \A d \in Bound : d \in devices /\ d \notin left /\ d # Account
                          /\ d \in cloud \cup left => d \in devices'
  OBVIOUS
<1>6. BoundCached'
  <2>1. Account \notin Bound
    BY RefreshAssumption
  <2>2. ASSUME NEW S, Shown(S), Covered(S) PROVE Covered(S)'
    BY <1>5, <2>1, <2>2 DEF Shown, Covered
  <2>3. \A i \in Jobs : At(i, "reload")' => i # j /\ job'[i] = job[i]
    BY <1>2 DEF At
  <2>4. (~startup /\ ~deferred /\ ~outdated => Covered(registered))'
    BY <2>2 DEF Lone, AllShown, BoundCached, Covered
  <2>5. ASSUME NEW i \in Jobs, At(i, "reload")', job'[i].born = caches'
        PROVE  Covered(job[i].ids)'
    <3>1. job'[i] = job[i] /\ Shown(job[i].ids) /\ Covered(job[i].ids)
      BY <2>3, <2>5 DEF Lone, AllShown, BoundCached, At
    <3> QED
      BY <2>2, <3>1 DEF Covered
  <2> QED
    BY <2>4, <2>5 DEF BoundCached
<1>7. \A d : Stays(d)' => Stays(d)
  BY <1>2 DEF Stays, At
<1>8. LoneDetails'
  <2>1. CASE Polling(j)
    <3>1. \A i \in Jobs \ {j} : Polling(i)' /\ job'[i].alone => FALSE
      BY <1>2, <2>1 DEF Lone, LoneDetails, Polling
    <3>2. job[j].alone => \A i \in Jobs \ {j} : ~Polling(i)'
      BY <1>2, <2>1 DEF Lone, LoneDetails, Polling
    <3> QED
      BY <1>2, <1>7, <2>1, <3>1, <3>2 DEF LoneDetails, At
  <2>2. CASE pc \notin Request /\ UNCHANGED <<devices, siteDevices>>
    <3>1. \A i \in Jobs : Polling(i)' => i # j /\ Polling(i) /\ job'[i] = job[i]
      BY <1>2, <2>2 DEF Polling
    <3> QED
      BY <1>7, <2>2, <3>1 DEF Lone, LoneDetails, At
  <2> QED
    BY <2>1, <2>2
<1> QED
  BY <1>3, <1>4, <1>6, <1>8 DEF Lone

\* A job fails.  A new client starts over if the hub was not set up yet.
LEMMA AbandonLone ==
    ASSUME TypeOK, Lone, NEW j \in Jobs, Polling(j), Abandon(j)
    PROVE  Lone'
<1>1. Ends(j) /\ caches \in Nat
  BY DoneEnds, TypeParts DEF Abandon, CacheOK
<1>2. /\ \A i \in Jobs \ {j} : job'[i] = job[i]
      /\ job'[j].pc = "idle" /\ job'[j].ids = {} /\ job'[j].snap = {}
      /\ job'[j].born = 0
  BY <1>1 DEF Ends, OthersSame
<1>3. UNCHANGED <<registered, ready, outdated, cloud, left, caches, startup,
                  deferred>>
  BY DEF Abandon, cloudVars
<1>4. /\ ready => UNCHANGED devices
      /\ devices' \subseteq devices
  BY DEF Abandon
<1>5. AllShown'
  <2>1. Shown(registered)' /\ Shown(devices)'
    BY <1>3, <1>4 DEF Lone, AllShown, Shown
  <2>2. ASSUME NEW i \in Jobs PROVE Shown(job[i].ids)' /\ Shown(job[i].snap)'
    BY <1>2, <1>3 DEF Lone, AllShown, Shown
  <2> QED
    BY <2>1, <2>2 DEF AllShown
<1>6. SetUp'
  BY <1>1, <1>2, <1>3 DEF Lone, SetUp, At
<1>7. BoundCached'
  <2>1. CASE ready
    BY <1>2, <1>3, <1>4, <2>1 DEF Lone, BoundCached, Covered, At
  <2>2. CASE ~ready
    <3>1. registered' = {} /\ \A i \in Jobs : ~At(i, "reload")'
      BY <1>2, <1>3, <2>2 DEF Lone, SetUp, At
    <3> QED
      BY <3>1 DEF BoundCached, Covered
  <2> QED
    BY <2>1, <2>2
<1>8. LoneDetails'
  <2>1. \A i \in Jobs : Polling(i)' => i # j /\ Polling(i) /\ job'[i] = job[i]
    BY <1>2 DEF Polling, Request
  <2>2. \A i \in Jobs \ {j} : ~(Polling(i) /\ job[i].alone)
    BY DEF Lone, LoneDetails
  <2> QED
    BY <2>1, <2>2 DEF LoneDetails
<1> QED
  BY <1>5, <1>6, <1>7, <1>8 DEF Lone

\* A reload registers what its job found, or fails.
LEMMA ReloadDoneLone ==
    ASSUME TypeOK, Lone, NEW j \in Jobs, ReloadDone(j)
    PROVE  Lone'
<1>1. Ends(j) /\ At(j, "reload") /\ caches \in Nat
  BY DoneEnds, TypeParts DEF ReloadDone, CacheOK
<1>2. /\ \A i \in Jobs \ {j} : job'[i] = job[i]
      /\ job'[j].pc = "idle" /\ job'[j].ids = {} /\ job'[j].snap = {}
      /\ job'[j].born = 0
  BY <1>1 DEF Ends, OthersSame
<1>3. UNCHANGED <<devices, siteDevices, ready, cloud, left, caches, startup>>
  BY DEF ReloadDone, cloudVars, cacheVars
<1>4. \/ registered' = job[j].ids /\ outdated' = (job[j].born # caches)
      \/ UNCHANGED <<registered, outdated, deferred>>
  BY DEF ReloadDone, Register
<1>5. ready
  BY <1>1 DEF Lone, SetUp
<1>6. AllShown'
  <2>1. Shown(registered)' /\ Shown(devices)'
    BY <1>3, <1>4 DEF Lone, AllShown, Shown
  <2>2. ASSUME NEW i \in Jobs PROVE Shown(job[i].ids)' /\ Shown(job[i].snap)'
    BY <1>2, <1>3 DEF Lone, AllShown, Shown
  <2> QED
    BY <2>1, <2>2 DEF AllShown
<1>7. SetUp'
  BY <1>1, <1>2, <1>3, <1>5 DEF Lone, SetUp, At
<1>8. BoundCached'
  <2>1. (~startup /\ ~deferred /\ ~outdated => Covered(registered))'
    BY <1>1, <1>3, <1>4 DEF Lone, BoundCached, Covered
  <2>2. \A i \in Jobs : (At(i, "reload") /\ job[i].born = caches => Covered(job[i].ids))'
    BY <1>2, <1>3 DEF Lone, BoundCached, Covered, At
  <2> QED
    BY <2>1, <2>2 DEF BoundCached
<1>9. LoneDetails'
  <2>1. \A i \in Jobs : Polling(i)' => i # j /\ Polling(i) /\ job'[i] = job[i]
    BY <1>2 DEF Polling, Request
  <2>2. \A d : Stays(d)' => Stays(d)
    BY <1>1, <1>2, <1>3, <1>4 DEF Stays, At
  <2> QED
    BY <1>3, <2>1, <2>2 DEF Lone, LoneDetails, At
<1> QED
  BY <1>6, <1>7, <1>8, <1>9 DEF Lone

\* What moves no job and clears no cache.
LEMMA OtherLone ==
    ASSUME TypeOK, Lone,
           UNCHANGED <<job, devices, siteDevices, caches, registered, outdated,
                       ready, startup, deferred>>,
           left \subseteq left', cloud \cup left \subseteq cloud' \cup left'
    PROVE  Lone'
<1>1. AllShown'
  BY DEF Lone, AllShown, Shown
<1>2. SetUp'
  BY DEF Lone, SetUp, At
<1>3. BoundCached'
  BY DEF Lone, BoundCached, Covered, At
<1>4. LoneDetails'
  BY DEF Lone, LoneDetails, Stays, Polling, At
<1> QED
  BY <1>1, <1>2, <1>3, <1>4 DEF Lone

----------------------------------------------------------------------------
(* Each step keeps the invariant and loses no device *)

Lossless == \A d \in Devices : <<d, TRUE>> \in lost' => <<d, TRUE>> \in lost

LEMMA NothingDropped ==
    ASSUME NEW j, NEW late, NEW start, LosesOnly(j, {}, late, start)
    PROVE  Lossless
BY DEF LosesOnly, Dropped, Lossless

LEMMA ActiveReady ==
    ASSUME Lone, NEW j \in Jobs, ~At(j, "idle")
    PROVE  ready \/ j \in Updates
BY DEF Lone, SetUp

\* An update without data drops nothing: there are no keys to compare with.
LEMMA BeginLone ==
    ASSUME TypeOK, Lone, NEW j \in Updates, At(j, "idle") \/ At(j, "stagger"),
           BeginUpdate(j),
           UNCHANGED <<devices, siteDevices, caches, startup, deferred, cloud, left>>
    PROVE  Lone' /\ Lossless
<1>1. j \in Jobs /\ ~At(j, "reload")
  BY DEF Jobs, At
<1>2. CASE Poll(j) /\ UNCHANGED <<active, data, registered, ready, outdated, lost>>
  BY <1>1, <1>2, PollPolls, PollLone, TypeParts DEF Lossless
<1>3. CASE FinishUpdate(j, {}, deferred, startup)
  <2>1. Outcome(j, {}, deferred, startup)
    BY <1>3, UpdateOutcome, TypeParts DEF ClientOK
  <2>2. Shown(devices)' /\ deferred \in BOOLEAN /\ startup \in BOOLEAN
    BY TypeParts DEF Lone, AllShown, Shown, ClientOK
  <2>3. Lone'
    BY <1>1, <2>1, <2>2, FinishLone
  <2> QED
    BY <2>1, <2>3, NothingDropped DEF Outcome
<1> QED
  BY <1>2, <1>3 DEF BeginUpdate

LEMMA StartUpdateLone ==
    ASSUME TypeOK, Lone, NEW j \in Jobs, StartUpdate(j)
    PROVE  Lone' /\ Lossless
<1>1. /\ j \in Updates /\ At(j, "idle")
      /\ UNCHANGED <<devices, siteDevices, caches, startup, deferred, cloud, left>>
  BY DEF StartUpdate, cacheVars, cloudVars
<1>2. CASE BeginUpdate(j)
  BY <1>1, <1>2, BeginLone
<1>3. CASE /\ Goto(j, "stagger")
           /\ UNCHANGED <<active, data, registered, ready, outdated, lost>>
  <2>1. /\ Walks(j, "stagger") /\ job'[j].snap = job[j].snap
        /\ job'[j].born = job[j].born
    BY <1>3, GotoWalks, TypeParts DEF Pc
  <2>2. Shown(devices)' /\ Shown(job[j].snap)'
    BY <1>1, <2>1 DEF Lone, AllShown, Shown
  <2>3. ~Polling(j) /\ ~At(j, "reload")
    BY <1>1 DEF At, Polling, Request
  <2>4. Lone'
    BY <1>1, <1>3, <2>1, <2>2, <2>3, WalkLone DEF Request
  <2> QED
    BY <1>3, <2>4 DEF Lossless
<1> QED
  BY <1>2, <1>3 DEF StartUpdate

LEMMA StaggerLone ==
    ASSUME TypeOK, Lone, NEW j \in Updates, Stagger(j)
    PROVE  Lone' /\ Lossless
BY BeginLone DEF Stagger, cacheVars, cloudVars

LEMMA PressLone ==
    ASSUME TypeOK, Lone, NEW j \in Jobs, Press(j)
    PROVE  Lone' /\ Lossless
<1>1. /\ j \in Buttons /\ At(j, "idle") /\ ready /\ ~At(j, "reload")
      /\ UNCHANGED <<devices, siteDevices, caches, startup, deferred, cloud, left>>
  BY DEF Press, At, cacheVars, cloudVars
<1>2. CASE Poll(j) /\ UNCHANGED coordVars
  BY <1>1, <1>2, PollPolls, PollLone, TypeParts DEF Lossless, coordVars
<1>3. CASE FinishButton(j, {})
  <2>1. Outcome(j, {}, FALSE, FALSE)
    BY <1>1, <1>3, ButtonOutcome
  <2>2. Shown(devices)'
    BY <1>1 DEF Lone, AllShown, Shown
  <2>3. Lone'
    BY <1>1, <2>1, <2>2, FinishLone
  <2> QED
    BY <2>1, <2>3, NothingDropped DEF Outcome
<1> QED
  BY <1>2, <1>3 DEF Press

LEMMA ResumeLone ==
    ASSUME TypeOK, Lone, NEW j \in Jobs, Resume(j)
    PROVE  Lone' /\ Lossless
<1>1. Polls(j) /\ ~At(j, "reload")
  BY PollPolls, TypeParts DEF Resume, At
<1>2. Lone'
  BY <1>1, PollLone DEF Resume, cloudVars
<1> QED
  BY <1>2 DEF Resume, Lossless

LEMMA ListAnsweredLone ==
    ASSUME ListedShown, TypeOK, Lone, NEW j \in Jobs, ListAnswered(j)
    PROVE  Lone' /\ Lossless
<1>1. /\ Walks(j, "scene") /\ job'[j].snap = job[j].snap
      /\ job'[j].born = job[j].born
  BY GotoWalks, TypeParts DEF ListAnswered, Pc, Request
<1>2. /\ Polling(j) /\ ~At(j, "reload") /\ ~At(j, "idle")
      /\ UNCHANGED <<registered, ready, outdated, lost, cloud, left, caches,
                     startup, deferred>>
  BY DEF ListAnswered, At, Polling, Request, coordVars, cloudVars, clientVars
<1>3. \A d \in devices' : \/ d \in devices
                          \/ d \in cloud /\ d \in Scenes \cup Bound
  <2> DEFINE listed == {i \in 1 .. Len(SiteList) : SiteList[i] \in cloud}
  <2>1. devices' = devices \cup {SiteList[i] : i \in listed}
    BY DEF ListAnswered
  <2>2. \A i \in listed : SiteList[i] \in cloud /\ SiteList[i] \in Scenes \cup Bound
    BY DEF ListedShown
  <2> HIDE DEF listed
  <2> SUFFICES ASSUME NEW d \in devices', d \notin devices
               PROVE  d \in cloud /\ d \in Scenes \cup Bound
    OBVIOUS
  <2>3. PICK i \in listed : d = SiteList[i]
    BY <2>1
  <2> QED
    BY <2>2, <2>3
<1>4. Shown(devices)' /\ Shown(job[j].snap)'
  BY <1>1, <1>2, <1>3 DEF Lone, AllShown, Shown
<1>5. devices \subseteq devices'
  BY DEF ListAnswered
<1>6. Lone'
  BY <1>1, <1>2, <1>4, <1>5, ActiveReady, WalkLone
<1> QED
  BY <1>2, <1>6 DEF Lossless

\* The cloud shows all devices of the scenes that never left, so an update
\* with the scenes alone drops none of them, and the bound ones are cached.
LEMMA SceneAnsweredLone ==
    ASSUME TypeOK, Lone, NEW j \in Jobs, SceneAnswered(j)
    PROVE  Lone' /\ Lossless
<1> DEFINE details == j \notin Updates \/ Countdown(j) <= 0
           late == ~details /\ startup /\ ~deferred
<1>1. /\ Polling(j) /\ ~At(j, "reload") /\ ~At(j, "idle")
      /\ UNCHANGED <<startup, deferred, caches, cloud, left>>
      /\ devices' = devices \cup (Scenes \cap cloud)
      /\ siteDevices' = siteDevices \cup (Scenes \cap cloud)
      /\ ready \/ j \in Updates
  BY ActiveReady DEF SceneAnswered, At, Polling, Request, cloudVars, Seen
<1>2. Shown(devices)'
  BY <1>1 DEF Lone, AllShown, Shown
<1>3. \A d \in Scenes : Stays(d) \/ (d \in registered /\ d \notin left) => d \in cloud
  BY RefreshAssumption DEF Stays, Lone, AllShown, Shown
<1>4. CASE (details \/ late) /\ Enter(j, IF late THEN "deferred" ELSE "bind")
           /\ UNCHANGED coordVars
  <2> DEFINE pc == IF late THEN "deferred" ELSE "bind"
  <2>1. pc \in {"bind", "deferred"} /\ (pc = "deferred" => j \in Updates)
    OBVIOUS
  <2> HIDE DEF late, pc
  <2>2. Enter(j, pc)
    BY <1>4 DEF pc
  <2>3. Walks(j, pc) /\ job'[j].snap = job[j].snap /\ job'[j].born = caches
    BY <2>1, <2>2, EnterWalks, TypeParts DEF Pc, Request
  <2>4. Shown(job[j].snap)'
    BY <1>1, <2>3 DEF Lone, AllShown, Shown
  <2>5. \A d \in Scenes : Stays(d) => d \in devices' /\ d \in siteDevices'
    BY <1>1, <1>3
  <2>6. UNCHANGED <<registered, ready, outdated, lost>>
    BY <1>4 DEF coordVars
  <2>7. Lone'
    BY <1>1, <1>2, <2>1, <2>3, <2>4, <2>5, <2>6, WalkLone
  <2> QED
    BY <2>6, <2>7 DEF Lossless
<1>5. CASE ~details /\ ~late /\ Finish(j, GetCaches(devices'), deferred, startup)
  <2>1. GetCaches(devices') \in SUBSET Keys /\ GetCaches(devices') # {}
    BY <1>1, RefreshAssumption, TypeParts DEF GetCaches, Keys, CacheOK
  <2>2. Outcome(j, GetCaches(devices'), deferred, startup)
    BY <1>5, <2>1, FinishOutcome, TypeParts DEF ClientOK
  <2>3. Lone'
    BY <1>1, <1>2, <2>1, <2>2, FinishLone, TypeParts DEF ClientOK
  <2>4. ASSUME NEW d \in Devices,
               Dropped(j, GetCaches(devices'), deferred, startup, d)
        PROVE  FALSE
    <3>1. /\ d \in registered /\ d \notin left /\ d \notin devices'
          /\ ~startup /\ ~deferred /\ ~outdated
      BY <1>5, <2>4 DEF Dropped, GetCaches
    <3>2. d \in Scenes \cup Bound
      BY <3>1, RefreshAssumption DEF Lone, AllShown, Shown
    <3>3. CASE d \in Scenes
      BY <1>1, <1>3, <3>1, <3>3
    <3>4. CASE d \in Bound
      BY <1>1, <3>1, <3>4 DEF Lone, BoundCached, Covered
    <3> QED
      BY <3>2, <3>3, <3>4
  <2> QED
    BY <2>2, <2>3, <2>4 DEF Outcome, LosesOnly, Lossless
<1> QED
  BY <1>4, <1>5 DEF SceneAnswered

LEMMA BindAnsweredLone ==
    ASSUME TypeOK, Lone, NEW j \in Jobs, BindAnswered(j)
    PROVE  Lone' /\ Lossless
<1>1. /\ Walks(j, "loop") /\ job'[j].snap = devices' /\ job'[j].born = caches
  BY BindWalks, TypeParts
<1>2. /\ At(j, "bind") /\ Polling(j) /\ ~At(j, "reload") /\ ~At(j, "idle")
      /\ UNCHANGED <<registered, ready, outdated, lost, cloud, left, caches,
                     startup, deferred>>
      /\ ready \/ j \in Updates
  BY ActiveReady
     DEF BindAnswered, At, Polling, Request, coordVars, cloudVars, clientVars
<1>3. devices' = (devices \cup (Bound \cap cloud)) \cap (siteDevices \cup (Bound \cap cloud))
  BY DEF BindAnswered, Recycle
<1>4. Shown(devices)' /\ Shown(job[j].snap)'
  BY <1>1, <1>2, <1>3 DEF Lone, AllShown, Shown
<1>5. job[j].alone => \A d \in Scenes \cup Bound : Stays(d) => d \in devices'
  <2> SUFFICES ASSUME job[j].alone, NEW d \in Scenes \cup Bound, Stays(d)
               PROVE  d \in devices'
    OBVIOUS
  <2>1. d \in cloud
    BY RefreshAssumption DEF Stays, Lone, AllShown, Shown
  <2>2. CASE d \in Scenes
    BY <1>2, <1>3, <2>2 DEF Lone, LoneDetails
  <2>3. CASE d \in Bound
    BY <1>3, <2>1, <2>3
  <2> QED
    BY <2>2, <2>3
<1>6. Lone'
  BY <1>1, <1>2, <1>3, <1>4, <1>5, WalkLone
<1> QED
  BY <1>2, <1>6 DEF Lossless

\* The details keep what was cached, so a job that got them alone drops
\* nothing that never left.
LEMMA EndDetailsLone ==
    ASSUME TypeOK, Lone, NEW j \in Jobs, At(j, "loop") \/ At(j, "energy"),
           EndDetails(j), devices \subseteq devices', devices' \subseteq Devices,
           Shown(devices)', UNCHANGED <<startup, deferred, caches, cloud, left>>
    PROVE  Lone' /\ Lossless
<1>1. Polling(j) /\ (ready \/ j \in Updates)
  BY ActiveReady DEF At, Polling, Request
<1>2. GetCaches(devices') \in SUBSET Keys
  BY DEF GetCaches, Keys
<1>3. Outcome(j, GetCaches(devices'), deferred, startup)
  BY <1>2, FinishOutcome, TypeParts DEF EndDetails, ClientOK
<1>4. Lone'
  BY <1>1, <1>2, <1>3, FinishLone, TypeParts DEF ClientOK
<1>5. ASSUME NEW d \in Devices,
             Dropped(j, GetCaches(devices'), deferred, startup, d)
      PROVE  FALSE
  <2>1. d \in registered /\ d \notin left /\ d \notin devices' /\ job[j].alone
    BY <1>5 DEF Dropped, GetCaches
  <2>2. d \in Scenes \cup Bound
    BY <2>1, RefreshAssumption DEF Lone, AllShown, Shown
  <2> QED
    BY <1>1, <2>1, <2>2 DEF Lone, LoneDetails, Stays
<1> QED
  BY <1>3, <1>4, <1>5 DEF Outcome, LosesOnly, Lossless

LEMMA LoopAnsweredLone ==
    ASSUME TypeOK, Lone, NEW j \in Jobs, LoopAnswered(j)
    PROVE  Lone' /\ Lossless
<1>1. /\ At(j, "loop") /\ Polling(j) /\ ~At(j, "reload") /\ ~At(j, "idle")
      /\ UNCHANGED <<startup, deferred, caches, cloud, left>>
      /\ ready \/ j \in Updates
  BY ActiveReady DEF LoopAnswered, At, Polling, Request, cloudVars
<1>2. PICK stale \in SUBSET job[j].snap : devices' = devices \cup stale
  <2>1. devices' = devices \cup {}
        \/ \E stale \in SUBSET job[j].snap : devices' = devices \cup stale
    BY DEF LoopAnswered
  <2> QED
    BY <2>1
<1>3. devices \subseteq devices' /\ devices' \subseteq Devices /\ Shown(devices)'
  <2>1. job[j].snap \subseteq Devices
    BY TypeParts DEF Job
  <2> QED
    BY <1>1, <1>2, <2>1, TypeParts DEF CacheOK, Lone, AllShown, Shown
<1>4. CASE EndDetails(j)
  BY <1>1, <1>3, <1>4, EndDetailsLone
<1>5. CASE Enter(j, "energy") /\ UNCHANGED <<active, count, recent, coordVars>>
  <2>1. Walks(j, "energy") /\ job'[j].snap = job[j].snap /\ job'[j].born = caches
    BY <1>5, EnterWalks, TypeParts DEF Pc, Request
  <2>2. Shown(job[j].snap)'
    BY <1>1, <2>1 DEF Lone, AllShown, Shown
  <2>3. UNCHANGED <<registered, ready, outdated, lost>>
    BY <1>5 DEF coordVars
  <2>4. job[j].alone => \A d \in Scenes \cup Bound : Stays(d) => d \in devices'
    BY <1>1, <1>3 DEF Lone, LoneDetails
  <2>5. Lone'
    BY <1>1, <1>3, <2>1, <2>2, <2>3, <2>4, WalkLone
  <2> QED
    BY <2>3, <2>5 DEF Lossless
<1> QED
  BY <1>4, <1>5 DEF LoopAnswered

LEMMA EnergyAnsweredLone ==
    ASSUME TypeOK, Lone, NEW j \in Jobs, EnergyAnswered(j)
    PROVE  Lone' /\ Lossless
<1>1. At(j, "energy") /\ EndDetails(j)
      /\ UNCHANGED <<devices, startup, deferred, caches, cloud, left>>
  BY DEF EnergyAnswered, cloudVars
<1>2. devices' \subseteq Devices /\ Shown(devices)'
  BY <1>1, TypeParts DEF CacheOK, Lone, AllShown, Shown
<1> QED
  BY <1>1, <1>2, EndDetailsLone

\* The deferred data always lead to a reload, which drops nothing.
LEMMA DeferredAnsweredLone ==
    ASSUME TypeOK, Lone, NEW j \in Jobs, DeferredAnswered(j)
    PROVE  Lone' /\ Lossless
<1>1. /\ At(j, "deferred") /\ Polling(j) /\ j \in Updates /\ deferred'
      /\ UNCHANGED <<devices, siteDevices, caches, cloud, left>>
      /\ Finish(j, GetCaches(devices), TRUE, FALSE)
  BY DEF DeferredAnswered, At, Polling, Request, Lone, SetUp, cloudVars
<1>2. GetCaches(devices) \in SUBSET Keys
  BY CachesType, TypeParts DEF CacheOK
<1>3. Outcome(j, GetCaches(devices), TRUE, FALSE)
  BY <1>1, <1>2, FinishOutcome
<1>4. Shown(devices)'
  BY <1>1 DEF Lone, AllShown, Shown
<1>5. GetCaches(devices) = GetCaches(devices')
  BY <1>1
<1>6. Lone'
  BY <1>1, <1>2, <1>3, <1>4, <1>5, FinishLone
<1> QED
  BY <1>1, <1>3, <1>6 DEF Outcome, LosesOnly, Dropped, Lossless

LEMMA InitLone == Init => Lone
<1> SUFFICES ASSUME Init PROVE Lone
  OBVIOUS
<1>1. \A j \in Jobs : job[j].pc = "idle" /\ job[j].ids = {} /\ job[j].snap = {}
                      /\ job[j].born = 0
  BY DEF Init, Idle
<1>2. registered = {} /\ devices = {} /\ caches = 0 /\ startup
  BY DEF Init
<1>3. AllShown
  BY <1>1, <1>2 DEF AllShown, Shown
<1>4. SetUp
  BY <1>1, <1>2 DEF SetUp, At
<1>5. BoundCached
  BY <1>1, <1>2 DEF BoundCached, At
<1>6. LoneDetails
  BY <1>1 DEF LoneDetails, Polling, Request
<1> QED
  BY <1>3, <1>4, <1>5, <1>6 DEF Lone

LEMMA NextLone ==
    ASSUME ListedShown, TypeOK, Lone, [Next]_vars
    PROVE  Lone' /\ Lossless
<1>1. ASSUME NEW j \in Jobs, StartUpdate(j) \/ Press(j) \/ Resume(j)
      PROVE  Lone' /\ Lossless
  BY <1>1, StartUpdateLone, PressLone, ResumeLone
<1>2. ASSUME NEW j \in Jobs, Stagger(j) PROVE Lone' /\ Lossless
  <2>1. At(j, "stagger") /\ j \in Updates
    BY <1>2 DEF Stagger, Lone, SetUp
  <2> QED
    BY <1>2, <2>1, StaggerLone
<1>3. ASSUME NEW j \in Jobs, ListAnswered(j) \/ SceneAnswered(j) \/ BindAnswered(j)
      PROVE  Lone' /\ Lossless
  BY <1>3, ListAnsweredLone, SceneAnsweredLone, BindAnsweredLone
<1>4. ASSUME NEW j \in Jobs,
             LoopAnswered(j) \/ EnergyAnswered(j) \/ DeferredAnswered(j)
      PROVE  Lone' /\ Lossless
  BY <1>4, LoopAnsweredLone, EnergyAnsweredLone, DeferredAnsweredLone
<1>5. ASSUME NEW j \in Jobs, Fail(j) \/ LoopBroken(j) PROVE Lone' /\ Lossless
  <2>1. Abandon(j) /\ Polling(j) /\ UNCHANGED lost
    BY <1>5 DEF Fail, LoopBroken, Abandon, At, Polling, Request
  <2> QED
    BY <2>1, AbandonLone DEF Lossless
<1>6. ASSUME NEW j \in Jobs, ReloadDone(j) PROVE Lone' /\ Lossless
  BY <1>6, ReloadDoneLone DEF ReloadDone, Lossless
<1>7. CASE Suspend \/ RefreshFromCache \/ SixtySecondsPass \/ UNCHANGED vars
  <2>1. UNCHANGED <<job, devices, siteDevices, caches, registered, outdated, ready,
                    startup, deferred, cloud, left, lost>>
    BY <1>7 DEF Suspend, RefreshFromCache, SixtySecondsPass, vars, clientVars,
                cacheVars, coordVars, cloudVars, boundVars
  <2> QED
    BY <2>1, OtherLone DEF Lossless
<1>8. CASE CloudChange
  <2>1. /\ UNCHANGED <<job, devices, siteDevices, caches, registered, outdated, ready,
                       startup, deferred, lost>>
        /\ left \subseteq left' /\ cloud \cup left \subseteq cloud' \cup left'
    BY <1>8 DEF CloudChange, clientVars, cacheVars, coordVars
  <2> QED
    BY <2>1, OtherLone DEF Lossless
<1> QED
  BY <1>1, <1>2, <1>3, <1>4, <1>5, <1>6, <1>7, <1>8 DEF Next, Step

\* A job that polls alone drops no device that never left the cloud, for any
\* number of hubs' jobs, devices, failures and changes, if the cloud shows what
\* a site lists (else a lone refresh of the details forgets it).
THEOREM LoneJobsKeepDevices ==
    ASSUME ListedShown
    PROVE  Spec => []LoneJobsRemoveNothing
<1>1. Init => LoneJobsRemoveNothing
  BY DEF Init, LoneJobsRemoveNothing
<1>2. TypeOK /\ Lone /\ [Next]_vars => Lone'
  BY NextLone
<1>3. TypeOK /\ Lone /\ LoneJobsRemoveNothing /\ [Next]_vars => LoneJobsRemoveNothing'
  BY NextLone DEF LoneJobsRemoveNothing, Lossless
<1> QED
  BY <1>1, <1>2, <1>3, InitLone, TypeCorrect, PTL DEF Spec
=============================================================================
