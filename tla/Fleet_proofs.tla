---------------------------- MODULE Fleet_proofs ----------------------------
(***************************************************************************)
(* Proofs about Fleet, for every warehouse, fleet, workload and battery:   *)
(* each handler keeps the types of the simulation's state and the capacity *)
(* of the charging station.                                                *)
(***************************************************************************)
EXTENDS Fleet, FiniteSetTheorems, TLAPS

\* The states of the simulation with their types and within the capacity.
Sound == {s \in WorldType : Cardinality(Active(s)) + Cardinality(Reserved(s)) <= Slots}

\* What the components of a state may be replaced with.
LEMMA Values ==
  /\ {"IDLE", "MOVING", "TO_CHARGER", "WAITING", "CHARGING", "FAILED"} \subseteq Modes
  /\ {"ASSIGNED", "INTERRUPTED", "COMPLETED", "FAILED", "PENDING", "PRUNED",
      "ABSENT"} \subseteq Statuses
  /\ {"TO_PICKUP", "TO_DROPOFF", "DONE"} \subseteq Legs
  /\ {"ON_SHELF", "CARRIED", "STAGED", "DELIVERED"} \subseteq Loads
  /\ {0, Full} \subseteq 0..Full /\ 0 \in 0..IdleLimit /\ 0 \in 0..MaxDown
  /\ {0, ChargeTicks} \subseteq 0..ChargeTicks
  /\ {RecoveryTicks, RepairTicks} \subseteq 0..MaxDown
BY FleetAssumption, StationAssumption
   DEF Modes, Statuses, Legs, Loads, MaxDown

\* The components of a state.
LEMMA Fields ==
  ASSUME NEW s \in WorldType, NEW r \in Robots
  PROVE  /\ s.mode[r] \in Modes /\ s.cell[r] \in Cells
         /\ s.task[r] \in Tasks \union {NoTask} /\ s.memo[r] \in Tasks \union {NoTask}
         /\ s.goal[r] \in Cells \union {NoCell}
         /\ s.battery[r] \in 0..Full /\ s.start[r] \in 0..Full
         /\ s.idle[r] \in 0..IdleLimit /\ s.repair[r] \in 0..MaxDown
         /\ s.active[r] \in 0..ChargeTicks
         /\ s.slot[r] \in Cells \union {NoCell} /\ s.reserved[r] \in Cells \union {NoCell}
BY DEF WorldType

-----------------------------------------------------------------------------
(* The station's operations.                                               *)

\* The robots that charge and those with a reservation are finitely many.
LEMMA BooksFinite ==
  ASSUME NEW s \in WorldType
  PROVE  /\ IsFiniteSet(Active(s)) /\ IsFiniteSet(Reserved(s))
         /\ Cardinality(Active(s)) \in Nat /\ Cardinality(Reserved(s)) \in Nat
<1>1. Active(s) \in SUBSET Robots /\ Reserved(s) \in SUBSET Robots /\ IsFiniteSet(Robots)
  BY StationAssumption DEF Active, Reserved
<1> QED
  BY <1>1, FS_Subset, FS_CardinalityType

\* A state with no more charging robots and reservations is within the capacity.
LEMMA FewerBooks ==
  ASSUME NEW s \in Sound, NEW t \in WorldType,
         Active(t) \subseteq Active(s), Reserved(t) \subseteq Reserved(s)
  PROVE  t \in Sound
<1>1. s \in WorldType /\ Cardinality(Active(s)) + Cardinality(Reserved(s)) <= Slots
  BY DEF Sound
<1>2. /\ Cardinality(Active(t)) <= Cardinality(Active(s))
      /\ Cardinality(Reserved(t)) <= Cardinality(Reserved(s))
  BY <1>1, BooksFinite, FS_Subset
<1> QED
  BY <1>1, <1>2, BooksFinite, StationAssumption DEF Sound

LEMMA SameBooks ==
  ASSUME NEW s \in Sound, NEW t \in WorldType,
         t.active = s.active, t.reserved = s.reserved
  PROVE  t \in Sound
BY FewerBooks DEF Active, Reserved

\* begin_charging takes a slot only when one is left or reserved for the robot.
LEMMA BeginChargingSound ==
  ASSUME NEW s \in Sound, NEW r \in Robots, NEW c \in Cells, CanBegin(s, r)
  PROVE  BeginCharging(s, r, c) \in Sound
<1> DEFINE t == BeginCharging(s, r, c)
<1>1. s \in WorldType /\ Cardinality(Active(s)) + Cardinality(Reserved(s)) <= Slots
  BY DEF Sound
<1>2. t \in WorldType
  BY <1>1, Values DEF BeginCharging, WorldType
<1>3. /\ t.active = [s.active EXCEPT ![r] = ChargeTicks]
      /\ t.reserved = [s.reserved EXCEPT ![r] = NoCell]
  BY <1>1 DEF BeginCharging, WorldType
<1>4. Active(t) = Active(s) \union {r} /\ Reserved(t) = Reserved(s) \ {r}
  BY <1>1, <1>3, StationAssumption DEF Active, Reserved, WorldType
<1>5. /\ Cardinality(Active(t)) <= Cardinality(Active(s)) + 1
      /\ Cardinality(Reserved(t)) = IF r \in Reserved(s) THEN Cardinality(Reserved(s)) - 1
                                    ELSE Cardinality(Reserved(s))
  <2>1. IsFiniteSet(Active(s)) /\ IsFiniteSet(Reserved(s))
    BY <1>1, BooksFinite
  <2>2. Cardinality(Active(s) \union {r}) \in {Cardinality(Active(s)), Cardinality(Active(s)) + 1}
    BY <2>1, FS_AddElement
  <2>3. Cardinality(Reserved(s) \ {r}) = IF r \in Reserved(s) THEN Cardinality(Reserved(s)) - 1
                                         ELSE Cardinality(Reserved(s))
    BY <2>1, FS_RemoveElement
  <2> QED
    BY <1>1, <1>4, <2>2, <2>3, BooksFinite
<1>6. Cardinality(Active(t)) + Cardinality(Reserved(t)) <= Slots
  BY <1>1, <1>2, <1>5, BooksFinite, StationAssumption DEF CanBegin, HasCapacity
<1> QED
  BY <1>2, <1>6 DEF Sound

\* reserve, under the guard of its callers.
LEMMA ReserveSound ==
  ASSUME NEW s \in Sound, NEW r \in Robots, NEW c \in Cells, HasCapacity(s)
  PROVE  Reserve(s, r, c) \in Sound
<1> DEFINE t == Reserve(s, r, c)
<1>1. s \in WorldType /\ t \in WorldType
  BY DEF Sound, Reserve, WorldType
<1>2. t.active = s.active /\ t.reserved = [s.reserved EXCEPT ![r] = c]
  BY <1>1 DEF Reserve, WorldType
<1>3. Active(t) = Active(s) /\ Reserved(t) = Reserved(s) \union {r}
  BY <1>1, <1>2, StationAssumption DEF Active, Reserved, WorldType
<1>4. Cardinality(Reserved(t)) <= Cardinality(Reserved(s)) + 1
  <2>1. IsFiniteSet(Reserved(s))
    BY <1>1, BooksFinite
  <2>2. Cardinality(Reserved(s) \union {r})
          \in {Cardinality(Reserved(s)), Cardinality(Reserved(s)) + 1}
    BY <2>1, FS_AddElement
  <2> QED
    BY <1>1, <1>3, <2>2, BooksFinite
<1> QED
  BY <1>1, <1>3, <1>4, BooksFinite, StationAssumption DEF HasCapacity, Sound

LEMMA ReleaseReservationSound ==
  ASSUME NEW s \in Sound, NEW r \in Robots
  PROVE  ReleaseReservation(s, r) \in Sound
<1>1. s \in WorldType /\ ReleaseReservation(s, r) \in WorldType
  BY DEF Sound, ReleaseReservation, WorldType
<1>2. /\ ReleaseReservation(s, r).active = s.active
      /\ ReleaseReservation(s, r).reserved = [s.reserved EXCEPT ![r] = NoCell]
  BY <1>1 DEF ReleaseReservation, WorldType
<1>3. /\ Active(ReleaseReservation(s, r)) \subseteq Active(s)
      /\ Reserved(ReleaseReservation(s, r)) \subseteq Reserved(s)
  BY <1>1, <1>2 DEF Active, Reserved, WorldType
<1> QED
  BY <1>1, <1>3, FewerBooks

LEMMA ReleaseSound ==
  ASSUME NEW s \in Sound, NEW r \in Robots
  PROVE  Release(s, r) \in Sound
<1>1. s \in WorldType /\ Release(s, r) \in WorldType
  BY Values DEF Sound, Release, WorldType
<1>2. /\ Release(s, r).active = [s.active EXCEPT ![r] = 0]
      /\ Release(s, r).reserved = [s.reserved EXCEPT ![r] = NoCell]
  BY <1>1 DEF Release, WorldType
<1>3. Active(Release(s, r)) \subseteq Active(s) /\ Reserved(Release(s, r)) \subseteq Reserved(s)
  BY <1>1, <1>2 DEF Active, Reserved, WorldType
<1> QED
  BY <1>1, <1>3, FewerBooks

LEMMA TickTimersSound ==
  ASSUME NEW s \in Sound
  PROVE  TickTimers(s) \in Sound
<1> DEFINE t == TickTimers(s)
           active == [r \in Robots |-> IF s.active[r] > 0 THEN s.active[r] - 1 ELSE 0]
           reserved == [r \in Robots |-> IF r \in Finishing(s) THEN NoCell
                                         ELSE s.reserved[r]]
           slot == [r \in Robots |-> IF r \in Finishing(s) THEN NoCell ELSE s.slot[r]]
<1>1. s \in WorldType
  BY DEF Sound
<1>2. active \in [Robots -> 0..ChargeTicks]
  BY <1>1, Fields, StationAssumption
<1>3. /\ reserved \in [Robots -> Cells \union {NoCell}]
      /\ slot \in [Robots -> Cells \union {NoCell}]
  BY <1>1, Fields
<1>4. t = [s EXCEPT !.active = active, !.slot = slot, !.reserved = reserved,
                    !.waiting = s.waiting \ Finishing(s)]
  BY DEF TickTimers
<1>5. t \in WorldType /\ t.active = active /\ t.reserved = reserved
  <2> HIDE DEF t, active, reserved, slot
  <2> QED BY <1>1, <1>2, <1>3, <1>4 DEF WorldType
<1>6. Active(t) \subseteq Active(s) /\ Reserved(t) \subseteq Reserved(s)
  BY <1>5 DEF Active, Reserved
<1> QED
  BY <1>5, <1>6, FewerBooks

-----------------------------------------------------------------------------
(* Charging.                                                               *)

\* A search over cells of the warehouse ends in one of them.
LEMMA ClosestCell ==
  ASSUME NEW c \in Cells, NEW S \in SUBSET Cells, S # {}
  PROVE  Closest(c, S) \in S /\ Closest(c, S) \in Cells
BY ClosestAssumption

\* Putting a robot down elsewhere leaves the station alone.
LEMMA PlaceSound ==
  ASSUME NEW s \in Sound, NEW r \in Robots, NEW c \in Cells
  PROVE  [s EXCEPT !.cell[r] = c, !.goal[r] = NoCell] \in Sound
<1> DEFINE t == [s EXCEPT !.cell[r] = c, !.goal[r] = NoCell]
<1>1. s \in WorldType
  BY DEF Sound
<1>2. t \in WorldType /\ t.active = s.active /\ t.reserved = s.reserved
  BY <1>1 DEF WorldType
<1> QED
  BY <1>2, SameBooks

LEMMA RelocateOffChargerSound ==
  ASSUME NEW s \in Sound, NEW r \in Robots
  PROVE  RelocateOffCharger(s, r) \in Sound
<1> DEFINE free == (Cells \ Chargers) \ OthersAt(s, r)
<1>1. s.cell[r] \in Cells
  BY Fields DEF Sound
<1>2. CASE free # {}
  <2>1. Closest(s.cell[r], free) \in Cells
    BY <1>1, <1>2, ClosestCell
  <2> QED
    BY <2>1, PlaceSound DEF RelocateOffCharger
<1>3. CASE free = {}
  BY <1>3 DEF RelocateOffCharger
<1> QED
  BY <1>2, <1>3

LEMMA EnterWaitingSound ==
  ASSUME NEW s \in Sound, NEW r \in Robots
  PROVE  EnterWaiting(s, r) \in Sound
<1> DEFINE t == [s EXCEPT !.mode[r] = "WAITING", !.goal[r] = NoCell,
                          !.waiting = @ \union {r}]
<1>1. s \in WorldType
  BY DEF Sound
<1>2. t \in WorldType /\ t.active = s.active /\ t.reserved = s.reserved
  BY <1>1, Values DEF WorldType
<1>3. t \in Sound
  BY <1>2, SameBooks
<1> QED
  BY <1>3, RelocateOffChargerSound DEF EnterWaiting

LEMMA StartChargingSound ==
  ASSUME NEW s \in Sound, NEW r \in Robots, NEW c \in Cells, CanBegin(s, r)
  PROVE  StartCharging(s, r, c) \in Sound
<1> DEFINE b == BeginCharging(s, r, c)
           t == [b EXCEPT !.mode[r] = "CHARGING", !.goal[r] = c,
                          !.start[r] = s.battery[r]]
<1>1. b \in Sound /\ b \in WorldType /\ s.battery[r] \in 0..Full
  BY BeginChargingSound, Fields DEF Sound
<1>2. t \in WorldType /\ t.active = b.active /\ t.reserved = b.reserved
  <2> HIDE DEF b
  <2> QED BY <1>1, Values DEF WorldType
<1>3. t \in Sound
  BY <1>1, <1>2, SameBooks
<1> QED
  BY <1>3 DEF StartCharging

\* With a slot left over, charging may begin.
LEMMA CapacityBegins ==
  ASSUME NEW s \in WorldType, NEW r \in Robots, HasCapacity(s)
  PROVE  CanBegin(s, r)
BY BooksFinite, StationAssumption DEF HasCapacity, CanBegin

LEMMA ChargingArrivalSound ==
  ASSUME NEW s \in Sound, NEW r \in Robots, s.goal[r] \in Cells
  PROVE  ChargingArrival(s, r) \in Sound
BY StartChargingSound, ReleaseReservationSound, EnterWaitingSound DEF ChargingArrival

\* The offered charging cells are cells of the warehouse.
LEMMA FreeChargersCells ==
  ASSUME NEW s, NEW r PROVE FreeChargers(s, r) \in SUBSET Cells
BY StationAssumption DEF FreeChargers

LEMMA ReserveAndGoSound ==
  ASSUME NEW s \in Sound, NEW r \in Robots, NEW c \in Cells, HasCapacity(s)
  PROVE  ReserveAndGo(s, r, c) \in Sound
<1> DEFINE b == Reserve(s, r, c)
           t == [b EXCEPT !.mode[r] = "TO_CHARGER", !.goal[r] = c]
<1>1. b \in Sound /\ b \in WorldType
  BY ReserveSound DEF Sound
<1>2. t \in WorldType /\ t.active = b.active /\ t.reserved = b.reserved /\ t.goal[r] = c
  <2> HIDE DEF b
  <2> QED BY <1>1, Values DEF WorldType
<1>3. t \in Sound
  BY <1>1, <1>2, SameBooks
<1> HIDE DEF t
<1>4. ChargingArrival(t, r) \in Sound
  BY <1>2, <1>3, ChargingArrivalSound
<1> QED
  BY <1>3, <1>4 DEF ReserveAndGo, t

LEMMA EnterChargingSound ==
  ASSUME NEW s \in Sound, NEW r \in Robots
  PROVE  EnterCharging(s, r) \in Sound
<1> DEFINE b == ReleaseReservation(s, r)
           freed == [b EXCEPT !.task[r] = NoTask, !.waiting = @ \ {r}]
           full == [freed EXCEPT !.mode[r] = "IDLE", !.goal[r] = NoCell]
           free == FreeChargers(freed, r)
<1>1. b \in Sound /\ b \in WorldType
  BY ReleaseReservationSound DEF Sound
<1>2. freed \in WorldType /\ freed.active = b.active /\ freed.reserved = b.reserved
  <2> HIDE DEF b
  <2> QED BY <1>1 DEF WorldType
<1>3. freed \in Sound
  BY <1>1, <1>2, SameBooks
<1> HIDE DEF freed
<1>4. full \in WorldType /\ full.active = freed.active /\ full.reserved = freed.reserved
  BY <1>2, Values DEF WorldType
<1>5. full \in Sound
  BY <1>3, <1>4, SameBooks
<1>6. free # {} => Closest(freed.cell[r], free) \in Cells
  BY <1>2, Fields, FreeChargersCells, ClosestCell
<1>7. EnterWaiting(freed, r) \in Sound
  BY <1>3, EnterWaitingSound
<1>8. HasCapacity(freed) /\ free # {} => ReserveAndGo(freed, r, Closest(freed.cell[r], free)) \in Sound
  BY <1>3, <1>6, ReserveAndGoSound
<1> QED
  BY <1>5, <1>7, <1>8 DEF EnterCharging, freed

LEMMA TryDispatchSound ==
  ASSUME NEW s \in Sound, NEW r \in Robots
  PROVE  TryDispatch(s, r) \in Sound
<1> DEFINE free == FreeChargers(s, r)
           c == Closest(s.cell[r], free)
<1>1. s \in WorldType /\ s.cell[r] \in Cells
  BY Fields DEF Sound
<1>2. CASE ~HasCapacity(s)
  BY <1>2 DEF TryDispatch
<1>3. CASE HasCapacity(s)
  <2>1. StartCharging(s, r, s.cell[r]) \in Sound
    BY <1>1, <1>3, CapacityBegins, StartChargingSound
  <2>2. ASSUME free # {}
        PROVE  ReserveAndGo(s, r, c) \in Sound /\ [s EXCEPT !.goal[r] = c] \in Sound
    <3>1. c \in Cells
      BY <1>1, <2>2, FreeChargersCells, ClosestCell
    <3> HIDE DEF c
    <3>2. LET t == [s EXCEPT !.goal[r] = c]
          IN t \in WorldType /\ t.active = s.active /\ t.reserved = s.reserved
      BY <1>1, <3>1 DEF WorldType
    <3> QED
      BY <1>3, <3>1, <3>2, SameBooks, ReserveAndGoSound
  <2> QED
    BY <1>3, <2>1, <2>2 DEF TryDispatch
<1> QED
  BY <1>2, <1>3

LEMMA WaitingTurnSound ==
  ASSUME NEW s \in Sound, NEW r \in Robots
  PROVE  WaitingTurn(s, r) \in Sound
BY TryDispatchSound, RelocateOffChargerSound DEF WaitingTurn

-----------------------------------------------------------------------------
(* Interruption and failure.                                               *)

LEMMA InterruptSound ==
  ASSUME NEW s \in Sound, NEW r \in Robots, s.task[r] # NoTask
  PROVE  Interrupt(s, r) \in Sound
<1> DEFINE t == Interrupt(s, r)
<1>1. s \in WorldType /\ s.task[r] \in Tasks /\ s.cell[r] \in Cells
  BY Fields DEF Sound
<1>2. t \in WorldType /\ t.active = s.active /\ t.reserved = s.reserved
  BY <1>1, Values DEF Interrupt, WorldType
<1> QED
  BY <1>2, SameBooks

LEMMA RelocateToBaySound ==
  ASSUME NEW s \in Sound, NEW r \in Robots
  PROVE  RelocateToBay(s, r) \in Sound
<1> DEFINE free == Bays \ OthersAt(s, r)
<1>1. s.cell[r] \in Cells /\ free \in SUBSET Cells
  BY Fields, FleetAssumption DEF Sound
<1>2. CASE free # {}
  <2>1. Closest(s.cell[r], free) \in Cells
    BY <1>1, <1>2, ClosestCell
  <2> QED
    BY <2>1, PlaceSound DEF RelocateToBay
<1>3. CASE free = {}
  BY <1>3 DEF RelocateToBay
<1> QED
  BY <1>2, <1>3

LEMMA GoDownSound ==
  ASSUME NEW s \in Sound, NEW r \in Robots, NEW ticks \in 0..MaxDown
  PROVE  GoDown(s, r, ticks) \in Sound
<1> DEFINE idle == IF s.task[r] # NoTask THEN Interrupt(s, r) ELSE s
           b == Release(idle, r)
           down == [b EXCEPT !.mode[r] = "FAILED", !.goal[r] = NoCell,
                             !.repair[r] = ticks]
<1>1. idle \in Sound
  BY InterruptSound
<1> HIDE DEF idle
<1>2. b \in Sound /\ b \in WorldType
  BY <1>1, ReleaseSound DEF Sound
<1>3. down \in WorldType /\ down.active = b.active /\ down.reserved = b.reserved
  <2> HIDE DEF b
  <2> QED BY <1>2, Values DEF WorldType
<1>4. down \in Sound
  BY <1>2, <1>3, SameBooks
<1> QED
  BY <1>4, RelocateToBaySound DEF GoDown, idle

LEMMA FailSound ==
  ASSUME NEW s \in Sound, NEW r \in Robots
  PROVE  Fail(s, r) \in Sound
BY GoDownSound, Values DEF Fail

LEMMA DepleteSound ==
  ASSUME NEW s \in Sound, NEW r \in Robots
  PROVE  Deplete(s, r) \in Sound
<1> DEFINE t == [s EXCEPT !.battery[r] = 0]
<1>1. t \in WorldType /\ t.active = s.active /\ t.reserved = s.reserved
  BY Values DEF Sound, WorldType
<1>2. t \in Sound
  BY <1>1, SameBooks
<1> QED
  BY <1>2, GoDownSound, Values DEF Deplete

LEMMA CheckBatterySound ==
  ASSUME NEW s \in Sound, NEW r \in Robots
  PROVE  CheckBattery(s, r) \in Sound
BY DepleteSound, InterruptSound, EnterChargingSound DEF CheckBattery

-----------------------------------------------------------------------------
(* Tasks.                                                                  *)

LEMMA FailTaskSound ==
  ASSUME NEW s \in Sound, NEW r \in Robots, s.task[r] # NoTask
  PROVE  FailTask(s, r) \in Sound
<1> DEFINE t == FailTask(s, r)
<1>1. s \in WorldType /\ s.task[r] \in Tasks
  BY Fields DEF Sound
<1>2. t \in WorldType /\ t.active = s.active /\ t.reserved = s.reserved
  BY <1>1, Values DEF FailTask, WorldType
<1> QED
  BY <1>2, SameBooks

LEMMA CompleteSound ==
  ASSUME NEW s \in Sound, NEW r \in Robots, s.task[r] # NoTask
  PROVE  Complete(s, r) \in Sound
<1> DEFINE t == Complete(s, r)
<1>1. s \in WorldType /\ s.task[r] \in Tasks
  BY Fields DEF Sound
<1>2. t \in WorldType /\ t.active = s.active /\ t.reserved = s.reserved
  BY <1>1, Values DEF Complete, WorldType
<1> QED
  BY <1>2, SameBooks

LEMMA PickUpSound ==
  ASSUME NEW s \in Sound, NEW r \in Robots, s.task[r] # NoTask
  PROVE  PickUp(s, r) \in Sound
<1> DEFINE t == s.task[r]
           carrying == [s EXCEPT !.leg[t] = "TO_DROPOFF", !.load[t] = "CARRIED",
                                 !.mode[r] = "MOVING"]
           loaded == CheckBattery(carrying, r)
           bound == [loaded EXCEPT !.goal[r] = Dropoff[t]]
<1>1. s \in WorldType /\ t \in Tasks /\ Dropoff[t] \in Cells
  BY Fields, FleetAssumption DEF Sound
<1>2. carrying \in WorldType /\ carrying.active = s.active /\ carrying.reserved = s.reserved
  <2> HIDE DEF t
  <2> QED BY <1>1, Values DEF WorldType
<1> HIDE DEF carrying
<1>3. loaded \in Sound /\ loaded \in WorldType
  BY <1>2, SameBooks, CheckBatterySound DEF Sound
<1> HIDE DEF loaded
<1>4. bound \in WorldType /\ bound.active = loaded.active /\ bound.reserved = loaded.reserved
  BY <1>1, <1>3 DEF WorldType
<1>5. bound \in Sound
  BY <1>3, <1>4, SameBooks
<1>6. loaded.task[r] = t => FailTask(loaded, r) \in Sound /\ Complete(loaded, r) \in Sound
  BY <1>3, FailTaskSound, CompleteSound
<1> QED
  BY <1>3, <1>5, <1>6 DEF PickUp, loaded, carrying

LEMMA BeginSound ==
  ASSUME NEW s \in Sound, NEW r \in Robots, NEW t \in Tasks
  PROVE  Begin(s, r, t) \in Sound
<1> DEFINE taken == [s EXCEPT !.status[t] = "ASSIGNED", !.holder[t] = r,
                              !.leg[t] = "TO_PICKUP",   !.task[r] = t,
                              !.memo[r] = NoTask,       !.goal[r] = s.pickup[t],
                              !.mode[r] = "MOVING",     !.idle[r] = 0]
           routed == IF ~Reachable(s.cell[r], s.pickup[t]) THEN FailTask(taken, r)
                     ELSE IF s.cell[r] = s.pickup[t] THEN PickUp(taken, r)
                     ELSE taken
<1>1. s \in WorldType /\ s.pickup[t] \in Cells
  BY DEF Sound, WorldType
<1>2. taken \in WorldType /\ taken.active = s.active /\ taken.reserved = s.reserved
      /\ taken.task[r] = t
  BY <1>1, Values DEF WorldType
<1> HIDE DEF taken
<1>3. taken \in Sound /\ taken.task[r] # NoTask
  BY <1>2, SameBooks, FleetAssumption
<1>4. routed \in Sound
  BY <1>3, FailTaskSound, PickUpSound
<1> HIDE DEF routed
<1> QED
  BY <1>4, CheckBatterySound DEF Begin, routed, taken

LEMMA ReclaimSound ==
  ASSUME NEW s \in Sound, NEW r \in Robots
  PROVE  Reclaim(s, r) \in Sound
<1> DEFINE free == [s EXCEPT !.memo[r] = NoTask]
<1>1. s.memo[r] \in Tasks \union {NoTask}
  BY Fields DEF Sound
<1>2. free \in WorldType /\ free.active = s.active /\ free.reserved = s.reserved
  BY DEF Sound, WorldType
<1> HIDE DEF free
<1>3. free \in Sound
  BY <1>2, SameBooks
<1> QED
  BY <1>1, <1>3, BeginSound DEF Reclaim, free

LEMMA HandleArrivalSound ==
  ASSUME NEW s \in Sound, NEW r \in Robots
  PROVE  HandleArrival(s, r) \in Sound
<1> DEFINE t == [s EXCEPT !.mode[r] = "IDLE", !.goal[r] = NoCell]
<1>1. t \in WorldType /\ t.active = s.active /\ t.reserved = s.reserved
  BY Values DEF Sound, WorldType
<1> HIDE DEF t
<1>2. t \in Sound
  BY <1>1, SameBooks
<1>3. Chargers \subseteq Cells
  BY StationAssumption
<1> QED
  BY <1>2, <1>3, ChargingArrivalSound, PickUpSound, CompleteSound DEF HandleArrival, t

-----------------------------------------------------------------------------
(* The turns of the tick's loops.                                          *)

LEMMA ExitBaySound ==
  ASSUME NEW s \in Sound, NEW r \in Robots
  PROVE  ExitBay(s, r) \in Sound
<1> DEFINE free == (Cells \ Bays) \ OthersAt(s, r)
           c == Closest(s.cell[r], free)
           t == [s EXCEPT !.mode[r] = "MOVING", !.goal[r] = c]
<1>1. CASE free = {}
  BY <1>1 DEF ExitBay
<1>2. CASE free # {}
  <2>1. s \in WorldType /\ c \in Cells
    BY <1>2, Fields, ClosestCell DEF Sound
  <2>2. t \in WorldType /\ t.active = s.active /\ t.reserved = s.reserved
    <3> HIDE DEF c
    <3> QED BY <2>1, Values DEF WorldType
  <2>3. t \in Sound
    BY <2>2, SameBooks
  <2> QED
    BY <2>3 DEF ExitBay
<1> QED
  BY <1>1, <1>2

LEMMA RepairTurnSound ==
  ASSUME NEW s \in Sound, NEW r \in Robots
  PROVE  RepairTurn(s, r) \in Sound
<1> DEFINE back == [s EXCEPT !.mode[r] = "IDLE", !.goal[r] = NoCell,
                             !.repair[r] = 0,    !.idle[r] = 0,
                             !.battery[r] = IF @ = 0 THEN Full ELSE @]
           sooner == [s EXCEPT !.repair[r] = @ - 1]
<1>1. s \in WorldType /\ s.battery[r] \in 0..Full /\ s.repair[r] \in 0..MaxDown
  BY Fields DEF Sound
<1>2. back \in WorldType /\ back.active = s.active /\ back.reserved = s.reserved
  <2>1. (IF s.battery[r] = 0 THEN Full ELSE s.battery[r]) \in 0..Full
    BY <1>1, Values
  <2> QED
    BY <1>1, <2>1, Values DEF WorldType
<1> HIDE DEF back
<1>3. back \in Sound
  BY <1>2, SameBooks
<1>4. ASSUME s.repair[r] > 1 PROVE sooner \in Sound
  <2>1. s.repair[r] - 1 \in 0..MaxDown
    BY <1>1, <1>4, FleetAssumption DEF MaxDown
  <2>2. sooner \in WorldType /\ sooner.active = s.active /\ sooner.reserved = s.reserved
    BY <1>1, <2>1 DEF WorldType
  <2> QED
    BY <2>2, SameBooks
<1>5. Reclaim(back, r) \in Sound
  BY <1>3, ReclaimSound
<1> HIDE DEF sooner
<1> QED
  BY <1>4, <1>5, ExitBaySound DEF RepairTurn, back, sooner

\* A share of at most the whole is at most the whole.
LEMMA ShareBound ==
  ASSUME NEW whole \in Nat, NEW part \in Nat, NEW n \in Nat \ {0}, part <= n
  PROVE  (whole * part) \div n \in 0..whole
<1> DEFINE q == (whole * part) \div n
<1>1. whole * part \in Nat /\ whole * part <= whole * n
  OBVIOUS
<1>2. q \in Int /\ n * q <= whole * part /\ whole * part < n * (q + 1)
  BY <1>1
<1> HIDE DEF q
<1>3. n * q <= n * whole
  BY <1>1, <1>2
<1>4. q <= whole
  BY <1>2, <1>3
<1>5. 0 < n * (q + 1)
  BY <1>1, <1>2
<1>6. q >= 0
  BY <1>2, <1>5
<1> QED
  BY <1>2, <1>4, <1>6 DEF q

\* Charging does not overcharge.
LEMMA ChargedBound ==
  ASSUME NEW s \in WorldType, NEW r \in Active(s)
  PROVE  Charged(s, r) \in 0..Full
<1>1. s.start[r] \in 0..Full /\ s.active[r] \in 1..ChargeTicks
  BY Fields, StationAssumption DEF Active
<1>2. /\ Full - s.start[r] \in Nat /\ ChargeTicks - s.active[r] + 1 \in Nat
      /\ ChargeTicks - s.active[r] + 1 <= ChargeTicks /\ ChargeTicks \in Nat \ {0}
  BY <1>1, FleetAssumption, StationAssumption
<1>3. ((Full - s.start[r]) * (ChargeTicks - s.active[r] + 1)) \div ChargeTicks
        \in 0..(Full - s.start[r])
  BY <1>2, ShareBound
<1> HIDE FleetAssumption
<1> QED
  BY <1>1, <1>3, FleetAssumption DEF Charged

LEMMA ChargeTickSound ==
  ASSUME NEW s \in Sound
  PROVE  ChargeTick(s) \in Sound
<1> DEFINE stale == {r \in Reserved(s) : s.mode[r] \notin {"TO_CHARGER", "WAITING"}}
           reserved == [r \in Robots |-> IF r \in stale THEN NoCell ELSE s.reserved[r]]
           battery == [r \in Robots |-> IF r \in Active(s) THEN Charged(s, r)
                                        ELSE s.battery[r]]
           t == [s EXCEPT !.reserved = reserved, !.battery = battery]
<1>1. s \in WorldType
  BY DEF Sound
<1>2. reserved \in [Robots -> Cells \union {NoCell}]
  BY <1>1, Fields
<1>3. battery \in [Robots -> 0..Full]
  BY <1>1, Fields, ChargedBound
<1>4. t \in WorldType /\ t.active = s.active /\ t.reserved = reserved
  <2> HIDE DEF reserved, battery
  <2> QED BY <1>1, <1>2, <1>3 DEF WorldType
<1>5. Active(t) \subseteq Active(s) /\ Reserved(t) \subseteq Reserved(s)
  <2> HIDE DEF t
  <2> QED BY <1>4 DEF Active, Reserved
<1>6. t \in Sound
  BY <1>4, <1>5, FewerBooks
<1>7. ChargeTick(s) = TickTimers(t)
  BY DEF ChargeTick
<1> QED
  BY <1>6, <1>7, TickTimersSound

LEMMA FinishTurnSound ==
  ASSUME NEW s \in Sound, NEW r \in Robots
  PROVE  FinishTurn(s, r) \in Sound
<1> DEFINE t == [s EXCEPT !.battery[r] = Full, !.mode[r] = "IDLE", !.idle[r] = 0,
                          !.goal[r] = NoCell,  !.start[r] = 0]
<1>1. t \in WorldType /\ t.active = s.active /\ t.reserved = s.reserved
  BY Values DEF Sound, WorldType
<1>2. t \in Sound
  BY <1>1, SameBooks
<1> QED
  BY <1>2, ReclaimSound DEF FinishTurn

LEMMA AssignTurnSound ==
  ASSUME NEW s \in Sound, NEW r \in Robots, NEW t \in Tasks
  PROVE  AssignTurn(s, r, t) \in Sound
BY BeginSound DEF AssignTurn

LEMMA BatteryTurnSound ==
  ASSUME NEW s \in Sound, NEW r \in Robots
  PROVE  BatteryTurn(s, r) \in Sound
BY DepleteSound, CheckBatterySound, EnterChargingSound DEF BatteryTurn

LEMMA IdleTurnSound ==
  ASSUME NEW s \in Sound, NEW r \in Robots
  PROVE  IdleTurn(s, r) \in Sound
<1> DEFINE longer == [s EXCEPT !.idle[r] = IF @ < IdleLimit THEN @ + 1 ELSE @]
<1>1. s \in WorldType /\ s.idle[r] \in 0..IdleLimit
  BY Fields DEF Sound
<1>2. (IF s.idle[r] < IdleLimit THEN s.idle[r] + 1 ELSE s.idle[r]) \in 0..IdleLimit
  BY <1>1, FleetAssumption
<1>3. longer \in WorldType /\ longer.active = s.active /\ longer.reserved = s.reserved
  BY <1>1, <1>2 DEF WorldType
<1> HIDE DEF longer
<1>4. longer \in Sound
  BY <1>3, SameBooks
<1> QED
  BY <1>4, EnterChargingSound DEF IdleTurn, longer

LEMMA MoveSound ==
  ASSUME NEW s \in Sound, NEW r \in Robots, NEW c \in Cells
  PROVE  Move(s, r, c) \in Sound
<1> DEFINE cost == MoveCost(s, r)
           left == IF s.battery[r] > cost THEN s.battery[r] - cost ELSE 0
           t == Move(s, r, c)
<1>1. s \in WorldType /\ s.battery[r] \in 0..Full /\ cost \in Nat
  BY Fields, FleetAssumption DEF Sound, MoveCost
<1>2. left \in 0..Full
  <2> HIDE DEF cost
  <2> QED BY <1>1, FleetAssumption
<1>3. t = [s EXCEPT !.cell[r] = c, !.idle[r] = 0, !.battery[r] = left]
  BY DEF Move
<1>4. t \in WorldType /\ t.active = s.active /\ t.reserved = s.reserved
  <2> HIDE DEF left, t
  <2> QED BY <1>1, <1>2, <1>3, Values DEF WorldType
<1> QED
  BY <1>4, SameBooks

-----------------------------------------------------------------------------
(* The tick.                                                               *)

LEMMA ResetSound == ResetWorld \in Sound
<1>1. ResetWorld \in WorldType
  BY Values, FleetAssumption, StationAssumption DEF ResetWorld, WorldType
<1>2. Active(ResetWorld) = {} /\ Reserved(ResetWorld) = {}
  BY DEF ResetWorld, Active, Reserved
<1>3. Cardinality({}) = 0
  BY FS_EmptySet
<1> QED
  BY <1>1, <1>2, <1>3, StationAssumption DEF Sound

\* New statuses of tasks leave the station alone.
LEMMA StatusSound ==
  ASSUME NEW s \in Sound, NEW f \in [Tasks -> Statuses]
  PROVE  [s EXCEPT !.status = f] \in Sound
<1> DEFINE t == [s EXCEPT !.status = f]
<1>1. t \in WorldType /\ t.active = s.active /\ t.reserved = s.reserved
  BY DEF Sound, WorldType
<1> QED
  BY <1>1, SameBooks

LEMMA VisitsRobots ==
  ASSUME NEW s, NEW p PROVE Visits(s, p) \subseteq Robots
BY FleetAssumption DEF Visits

\* The invariant: TypeOK and SlotsRespected.
Books ==
  /\ w \in Sound
  /\ phase \in Phases
  /\ todo \subseteq Robots /\ offer \subseteq Tasks /\ occupied \subseteq Cells

\* A turn of a loop leaves the loop's other variables well typed.
LEMMA TurnBooks ==
  ASSUME Books, NEW p, NEW r \in Robots, Turn(p, r), w' \in Sound PROVE Books'
BY DEF Books, Turn

LEMMA RobotStepBooks ==
  ASSUME Books, NEW r \in Robots, RobotStep(r) PROVE Books'
<1>1. w \in Sound
  BY DEF Books
<1>2. CASE RepairStep(r)
  BY <1>1, <1>2, RepairTurnSound, TurnBooks DEF RepairStep
<1>3. CASE FailStep(r)
  BY <1>1, <1>3, FailSound, TurnBooks DEF FailStep
<1>4. CASE SurviveStep(r)
  BY <1>1, <1>4, TurnBooks DEF SurviveStep
<1>5. CASE FinishStep(r)
  BY <1>1, <1>5, FinishTurnSound DEF FinishStep, Books
<1>6. CASE WaitingStep(r)
  BY <1>1, <1>6, WaitingTurnSound, TurnBooks DEF WaitingStep
<1>7. ASSUME NEW t \in Tasks, AssignStep(r, t) PROVE Books'
  BY <1>1, <1>7, AssignTurnSound DEF AssignStep, Books
<1>8. CASE BatteryStep(r)
  BY <1>1, <1>8, BatteryTurnSound, TurnBooks DEF BatteryStep
<1>9. CASE IdleStep(r)
  BY <1>1, <1>9, IdleTurnSound, TurnBooks DEF IdleStep
<1>10. ASSUME NEW c \in Cells, RouteStep(r, c) \/ YieldStep(r, c) PROVE Books'
  <2>1. Move(w, r, c) \in Sound
    BY <1>1, MoveSound
  <2>2. w' \in Sound
    BY <1>10, <2>1, HandleArrivalSound, CheckBatterySound DEF RouteStep, YieldStep
  <2> QED
    BY <1>10, <2>2 DEF RouteStep, YieldStep, AdvanceTurn, Enters, Books
<1>11. CASE HoldStep(r)
  BY <1>1, <1>11 DEF HoldStep, AdvanceTurn, Books
<1>12. ASSUME NEW q \in Robots, RecheckStep(r, q) PROVE Books'
  BY <1>1, <1>12, CheckBatterySound DEF RecheckStep, AdvanceTurn, Books
<1> QED
  BY <1>2, <1>3, <1>4, <1>5, <1>6, <1>7, <1>8, <1>9, <1>10, <1>11, <1>12
     DEF RobotStep

LEMMA TickStepBooks ==
  ASSUME Books, TickStep PROVE Books'
<1>1. w \in Sound /\ w \in WorldType /\ w.status \in [Tasks -> Statuses]
  BY DEF Books, Sound, WorldType
<1>2. CASE StartTick
  BY <1>2, VisitsRobots DEF StartTick, Goto, Books, Phases
<1>3. CASE ChargeStep
  <2>1. w' \in Sound
    BY <1>1, <1>3, ChargeTickSound DEF ChargeStep
  <2> QED
    BY <1>3, <2>1, VisitsRobots DEF ChargeStep, Finishing, Goto, Books, Phases
<1>4. CASE GenerateTasks
  <2>1. PICK new \in SUBSET {t \in Tasks : w.status[t] = "ABSENT"} :
          w' = [w EXCEPT !.status = [t \in Tasks |-> IF t \in new THEN "PENDING"
                                                     ELSE @[t]]]
    BY <1>4 DEF GenerateTasks
  <2>2. [t \in Tasks |-> IF t \in new THEN "PENDING" ELSE w.status[t]] \in [Tasks -> Statuses]
    BY <1>1, Values
  <2>3. w' \in Sound
    BY <1>1, <2>1, <2>2, StatusSound
  <2> QED
    BY <1>4, <2>3 DEF GenerateTasks, Books, Phases
<1>5. CASE EndAssign
  BY <1>5, VisitsRobots DEF EndAssign, Goto, Books, Phases
<1>6. CASE BeginAdvance
  <2>1. {w.cell[r] : r \in Robots} \subseteq Cells
    BY <1>1, Fields
  <2> QED
    BY <1>6, <2>1, VisitsRobots DEF BeginAdvance, Goto, Books, Phases
<1>7. CASE EndTick
  <2>1. PICK old \in SUBSET {t \in Tasks : w.status[t] \in {"COMPLETED", "FAILED"}} :
          w' = [w EXCEPT !.status = [t \in Tasks |-> IF t \in old THEN "PRUNED"
                                                     ELSE @[t]]]
    BY <1>7 DEF EndTick
  <2>2. [t \in Tasks |-> IF t \in old THEN "PRUNED" ELSE w.status[t]] \in [Tasks -> Statuses]
    BY <1>1, Values
  <2>3. w' \in Sound
    BY <1>1, <2>1, <2>2, StatusSound
  <2> QED
    BY <1>7, <2>3 DEF EndTick, Books, Phases
<1>8. CASE EndLoop
  BY <1>8, VisitsRobots DEF EndLoop, Goto, Books, Phases
<1> QED
  BY <1>2, <1>3, <1>4, <1>5, <1>6, <1>7, <1>8 DEF TickStep

\* Types and capacity survive every handler, in every order of the phases, in
\* every warehouse and under every workload.
LEMMA BooksInvariant == Spec => []Books
<1>1. Init => Books
  BY ResetSound DEF Init, Books, Phases
<1>2. Books /\ [Next]_vars => Books'
  <2> SUFFICES ASSUME Books, [Next]_vars PROVE Books'
    OBVIOUS
  <2>1. CASE Reset
    BY <2>1, ResetSound DEF Reset, Books
  <2>2. CASE Tick
    BY <2>2, RobotStepBooks, TickStepBooks DEF Tick
  <2>3. CASE UNCHANGED vars
    BY <2>3 DEF vars, Books
  <2> QED
    BY <2>1, <2>2, <2>3 DEF Next
<1> QED
  BY <1>1, <1>2, PTL DEF Spec

\* The components of the simulation's state have their types after every handler:
\* batteries, timers and goals stay in range, whatever calls what.
THEOREM FleetTypeCorrect == Spec => []TypeOK
<1>1. Books => TypeOK
  BY DEF Books, Sound, TypeOK
<1> QED
  BY <1>1, BooksInvariant, PTL

\* Charging robots and reservations together never exceed the station's capacity.
THEOREM CapacityKept == Spec => []SlotsRespected
<1>1. Books => SlotsRespected
  BY DEF Books, Sound, SlotsRespected
<1> QED
  BY <1>1, BooksInvariant, PTL
=============================================================================
