-------------------------- MODULE ChargingStation --------------------------
(***************************************************************************)
(* The finite-capacity charging resource of simulation/charging.py.        *)
(*                                                                         *)
(* Each operation takes and returns a record st that has (at least) the    *)
(* four fields of the Python object:                                       *)
(*   active[r]    remaining charging ticks, 0 when r is not charging       *)
(*   slot[r]      the cell r charges on (active_cells), NoCell if none     *)
(*   reserved[r]  the cell r holds a reservation for, NoCell if none       *)
(*   waiting      the robots queued for a slot                             *)
(***************************************************************************)
EXTENDS Integers, FiniteSets

CONSTANTS
  Robots,       \* robot ids; a finite set of naturals, ordered as the ids are
  Cells,        \* the passable cells of the warehouse
  Chargers,     \* the cells of type CHARGING
  NoCell,       \* Python's None where a cell is expected
  Slots,        \* ChargingConfig.capacity
  ChargeTicks   \* ChargingConfig.charge_duration_ticks

ASSUME StationAssumption ==
  /\ Robots \subseteq Nat /\ IsFiniteSet(Robots)
  /\ Chargers \subseteq Cells
  /\ NoCell \notin Cells
  /\ Slots \in Nat
  /\ ChargeTicks \in Nat \ {0}

Active(st)   == {r \in Robots : st.active[r] > 0}
Reserved(st) == {r \in Robots : st.reserved[r] # NoCell}

\* len(active) + len(reserved_cells) < capacity
HasCapacity(st) == Cardinality(Active(st)) + Cardinality(Reserved(st)) < Slots

ActiveCells(st)   == {st.slot[r] : r \in Active(st)}
ReservedCells(st) == {st.reserved[r] : r \in Reserved(st)}

\* A mutant of CanBegin: the slot of an incoming reservation may be taken.
CanBeginIgnoringReservations(st, r) == Cardinality(Active(st)) < Slots

\* The checks of begin_charging for a robot that is not active yet: a robot
\* without a reservation may not take a slot reserved for an incoming one.
CanBegin(st, r) ==
  /\ Cardinality(Active(st)) < Slots
  /\ r \in Reserved(st) \/ HasCapacity(st)

\* What begin_charging does once its checks pass.
BeginCharging(st, r, c) ==
  [st EXCEPT !.reserved[r] = NoCell, !.active[r] = ChargeTicks,
             !.slot[r] = c,          !.waiting = @ \ {r}]

\* reserve for a robot that is neither active nor holds a reservation; its
\* has_capacity check is the guard of both callers.
Reserve(st, r, c) == [st EXCEPT !.reserved[r] = c, !.waiting = @ \ {r}]

ReleaseReservation(st, r) == [st EXCEPT !.reserved[r] = NoCell]

\* A mutant of Release: the reservation of a robot that fails is forgotten.
ReleaseKeepingReservation(st, r) ==
  [st EXCEPT !.active[r] = 0, !.slot[r] = NoCell, !.waiting = @ \ {r}]

Release(st, r) ==
  [st EXCEPT !.active[r] = 0,          !.slot[r] = NoCell,
             !.reserved[r] = NoCell,   !.waiting = @ \ {r}]

\* The robots whose last charging tick this is.
Finishing(st) == {r \in Robots : st.active[r] = 1}

\* tick: every timer advances, a robot that finished is released.
TickTimers(st) ==
  LET done == Finishing(st)
  IN [st EXCEPT
        !.active   = [r \in Robots |-> IF @[r] > 0 THEN @[r] - 1 ELSE 0],
        !.slot     = [r \in Robots |-> IF r \in done THEN NoCell ELSE @[r]],
        !.reserved = [r \in Robots |-> IF r \in done THEN NoCell ELSE @[r]],
        !.waiting  = @ \ done]
=============================================================================
