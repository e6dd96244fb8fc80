------------------------------- MODULE Demand -------------------------------
(***************************************************************************)
(* Where tasks come from: simulation/task_generator.py and                 *)
(* decision/demand.py, as functions from a generator's state g to the      *)
(* outcomes of one call of step.                                           *)
(*                                                                         *)
(*   g       [number, due, index]: _next_task_number, _next_due and the    *)
(*           position of CsvDemandModel in its events                      *)
(*   demand  a DemandConfig: [mode |-> "legacy"],                          *)
(*           [mode |-> "uniform", rate, weights],                          *)
(*           [mode |-> "rate_schedule", segments],                         *)
(*           [mode |-> "csv_orders", events]                               *)
(*   event   [tick, type, pickup, dropoff, priority], a DemandEvent        *)
(*   task    [number, type, pickup, dropoff, priority, created], a Task    *)
(*                                                                         *)
(* Rates are fractions <<num, den>>, locations are names.                  *)
(***************************************************************************)
EXTENDS Integers, Sequences, FiniteSets, SequencesExt

CONSTANTS
  Resolve,      \* [names -> cells], Warehouse.resolve
  Locations,    \* [kinds -> Seq(names)], the sorted location lists
  StartTick,    \* TaskGenerator.start_tick
  Seeded,       \* a seed was given: locations are drawn, not taken in turn
  Intervals     \* _interval_for: 8, 10, 12 and 14 ticks

Types == <<"PUTAWAY", "PICK", "PACK", "SHIP">>
TypeSet == ToSet(Types)

ASSUME DemandAssumption ==
  /\ StartTick \in Nat \ {0} /\ Seeded \in BOOLEAN
  /\ Intervals \in [TypeSet -> Nat \ {0}]
  /\ Locations \in [{"receiving", "storage", "picking", "packing", "staging", "shipping"} ->
                     Seq(DOMAIN Resolve)]
  /\ Locations.receiving = <<>> => "RECV" \in DOMAIN Resolve

Default == "default"       \* Python's None in an optional field of an event

PriorityFor ==
  [type \in TypeSet |-> CASE type = "PUTAWAY" -> 3 [] type = "PICK" -> 2
                          [] type = "PACK"    -> 1 [] type = "SHIP" -> 0]

\* __post_init__ and reset.
NewGenerator ==
  [number |-> 1,
   due    |-> [type \in TypeSet |-> StartTick + 2 * (3 - PriorityFor[type])],
   index  |-> 0]

-----------------------------------------------------------------------------
(* TaskGenerator._create_task.                                             *)

\* _pick_one for the task with this number; no name if the list is empty.
PickOne(names, number) ==
  IF names = <<>> THEN {}
  ELSE IF Seeded THEN ToSet(names) ELSE {names[(number % Len(names)) + 1]}

PickUps(type, number) ==
  CASE type = "PUTAWAY" -> IF Locations.receiving = <<>> THEN {"RECV"}
                           ELSE PickOne(Locations.receiving, number)
    [] type = "PICK"    -> PickOne(Locations.storage, number)
    [] type = "PACK"    -> PickOne(Locations.picking, number)
    [] type = "SHIP"    -> PickOne(IF Locations.staging # <<>> THEN Locations.staging
                                   ELSE Locations.packing, number)

DropOffs(type, number) ==
  PickOne(CASE type = "PUTAWAY" -> Locations.storage
            [] type = "PICK"    -> Locations.picking
            [] type = "PACK"    -> Locations.packing
            [] type = "SHIP"    -> Locations.shipping, number)

\* The tasks _create_task may return; it raises if there is none.
CreateTask(type, number, tick) ==
  {[number |-> number, type |-> type, pickup |-> p, dropoff |-> d,
    priority |-> PriorityFor[type], created |-> tick] :
      p \in PickUps(type, number), d \in DropOffs(type, number)}

\* The lists that take one element of each set of a list.
Selections(sets) ==
  {s \in [DOMAIN sets -> UNION ToSet(sets)] : \A i \in DOMAIN sets : s[i] \in sets[i]}

-----------------------------------------------------------------------------
(* TaskGenerator.step.  A type whose tick has passed is never due again.   *)

Due(g, tick) ==
  LET only(type) == IF g.due[type] = tick THEN <<type>> ELSE <<>>
  IN  only(Types[1]) \o only(Types[2]) \o only(Types[3]) \o only(Types[4])

LegacyTasks(g, tick) ==
  LET due == Due(g, tick)
  IN  Selections([i \in DOMAIN due |-> CreateTask(due[i], g.number + i - 1, tick)])

LegacyNext(g, tick) ==
  [g EXCEPT !.number = @ + Len(Due(g, tick)),
            !.due = [type \in TypeSet |->
                       IF g.due[type] = tick THEN tick + Intervals[type] ELSE @[type]]]

-----------------------------------------------------------------------------
(* The demand models.                                                      *)

\* resolved_events: sorted by tick, in the order of the list among equals.
ResolvedEvents(events) ==
  LET before(i) == {j \in DOMAIN events : \/ events[j].tick < events[i].tick
                                          \/ events[j].tick = events[i].tick /\ j < i}
  IN  [k \in DOMAIN events |->
         events[CHOOSE i \in DOMAIN events : Cardinality(before(i)) = k - 1]]

\* A fault: the index stays at an order that was missed.
CsvIndexOfDue(events, index, tick) ==
  index + Cardinality({i \in DOMAIN events : i > index /\ events[i].tick = tick})

\* CsvDemandModel.orders_at_tick: the index passes the events that are due and
\* those that were missed before; only the former are orders.
CsvIndex(events, index, tick) ==
  LET due == {i \in DOMAIN events : i > index /\ events[i].tick <= tick}
  IN  index + Cardinality(due)

CsvOrders(events, index, tick) ==
  SubSeq(events, CsvIndex(events, index, tick - 1) + 1, CsvIndex(events, index, tick))

\* _emit_count_for_rate: the whole part, and one more with the fraction's odds.
Counts(rate) ==
  LET base == rate[1] \div rate[2]
  IN  {base} \union IF rate[1] % rate[2] > 0 THEN {base + 1} ELSE {}

\* _choose_task_type never draws a type of weight zero.
Drawn(weights) ==
  IF DOMAIN weights = {} THEN TypeSet ELSE {type \in DOMAIN weights : weights[type] > 0}

Order(type, tick) ==
  [tick |-> tick, type |-> type, pickup |-> Default, dropoff |-> Default,
   priority |-> Default]

\* The batches one rate may produce at a tick.
Batches(rate, weights, tick) ==
  UNION {[1..n -> {Order(type, tick) : type \in Drawn(weights)}] : n \in Counts(rate)}

Active(segment, tick) ==
  segment.start <= tick /\ tick < segment.end /\ segment.rate[1] > 0

\* The lists of orders there may be once a segment has added its own.
Extended(lists, segment, tick) ==
  IF ~Active(segment, tick) THEN lists
  ELSE {list \o batch : list \in lists, batch \in Batches(segment.rate, segment.weights, tick)}

ScheduleBatches(segments, tick) ==
  LET extend[c \in [left  : Seq(ToSet(segments)),
                    lists : SUBSET Seq({Order(type, tick) : type \in TypeSet})]] ==
        IF c.left = <<>> THEN c.lists
        ELSE extend[[left  |-> Tail(c.left),
                     lists |-> Extended(c.lists, Head(c.left), tick)]]
  IN  extend[[left |-> segments, lists |-> {<<>>}]]

\* orders_at_tick.
OrdersAt(demand, g, tick) ==
  CASE demand.mode = "uniform" -> Batches(demand.rate, demand.weights, tick)
    [] demand.mode = "rate_schedule" -> ScheduleBatches(demand.segments, tick)
    [] demand.mode = "csv_orders" ->
         {CsvOrders(ResolvedEvents(demand.events), g.index, tick)}

\* DemandConfig.validate: the configurations there are.
IsDemand(demand) ==
  LET isRate(rate) == rate \in Nat \X (Nat \ {0})
      isList(list) == list \in Seq(ToSet(list))
      hasWeights(x) == DOMAIN x.weights \subseteq TypeSet
      isOrder(e) == /\ e.tick \in Nat /\ e.type \in TypeSet
                    /\ e.priority # Default => e.priority \in Int
      isSegment(x) == /\ {x.start, x.end} \subseteq Nat
                      /\ isRate(x.rate) /\ hasWeights(x)
  IN  \/ demand.mode = "legacy"
      \/ demand.mode = "uniform" /\ isRate(demand.rate) /\ hasWeights(demand)
      \/ /\ demand.mode = "rate_schedule" /\ isList(demand.segments)
         /\ \A i \in DOMAIN demand.segments : isSegment(demand.segments[i])
      \/ /\ demand.mode = "csv_orders" /\ isList(demand.events)
         /\ \A i \in DOMAIN demand.events : isOrder(demand.events[i])

-----------------------------------------------------------------------------
(* DemandTaskGenerator.step.                                               *)

Given(value, otherwise) == IF value = Default THEN otherwise ELSE value

\* _create_demand_task: the task of its type, with what the order prescribes.
DemandTask(task, order) ==
  [task EXCEPT !.pickup   = Given(order.pickup, @),
               !.dropoff  = Given(order.dropoff, @),
               !.priority = Given(order.priority, @)]

\* The tasks an order may become; none if a location is unknown: it raises.
TasksOf(order, number, tick) ==
  {t \in {DemandTask(task, order) : task \in CreateTask(order.type, number, tick)} :
     {t.pickup, t.dropoff} \subseteq DOMAIN Resolve}

DemandTasks(g, orders, tick) ==
  Selections([i \in DOMAIN orders |-> TasksOf(orders[i], g.number + i - 1, tick)])

DemandNext(demand, g, orders, tick) ==
  [g EXCEPT !.number = @ + Len(orders),
            !.index  = IF demand.mode = "csv_orders"
                       THEN CsvIndex(ResolvedEvents(demand.events), @, tick) ELSE @]

\* The outcomes of step: the tasks, <<>> and raised if it raises, and the
\* state after it.  Nothing is asked of the demand model before StartTick.
Steps(demand, g, tick) ==
  LET Outcome(lists, next) ==
        IF lists = {} THEN {[raised |-> TRUE, tasks |-> <<>>, g |-> next]}
        ELSE {[raised |-> FALSE, tasks |-> ts, g |-> next] : ts \in lists}
  IN  IF demand.mode = "legacy"
      THEN Outcome(LegacyTasks(g, tick), LegacyNext(g, tick))
      ELSE IF tick < StartTick
      THEN {[raised |-> FALSE, tasks |-> <<>>, g |-> g]}
      ELSE UNION {Outcome(DemandTasks(g, orders, tick), DemandNext(demand, g, orders, tick)) :
                    orders \in OrdersAt(demand, g, tick)}
=============================================================================
