--------------------------- MODULE Traffic_proofs ---------------------------
(***************************************************************************)
(* For any connected floor, fleet, workload and conflict manager, and      *)
(* whatever routes the planner returns: the state keeps its types, the     *)
(* movement loop implements Motion, and two robots share a cell only       *)
(* because one was put down while the loop ran.  Robots follow walks: the  *)
(* planner finds walks, and handlers cut them off, replace them by an      *)
(* escape, throw them away and plan them again, but every robot holds a    *)
(* walk from where it stands, or nothing.  A handler moves no robot, but   *)
(* may put one down (Placed), in a free cell; and as long as none was put  *)
(* down, the set of occupied cells that the loop read when it began, and   *)
(* updates with its own steps, is right (Informed).                        *)
(*                                                                         *)
(* For any floor, the records of conflicts stay justified (Books).         *)
(***************************************************************************)
EXTENDS Traffic, Routing_proofs, TLAPS

-----------------------------------------------------------------------------
(* Records of conflicts and the flags of the robots in them.  Handlers     *)
(* break off a yield in one place and its record in another, so Books says *)
(* of every robot but x why it is on record.                               *)

\* The parts of t that conflicts are about.
BooksTyped(t) ==
  /\ {"cell", "mode", "replan", "yields", "pairs"} \subseteq DOMAIN t
  /\ DOMAIN t.cell = Robots /\ DOMAIN t.mode = Robots
  /\ t.replan \in [Robots -> BOOLEAN]
  /\ t.yields \in [Robots -> Robots \union {NoRobot}]
  /\ t.pairs \in [Pairs -> Robots \union {NoRobot}]

\* Robot r is the yielder of pair p for a reason.  One that does not move is on
\* record only if it has begun to charge while it yielded.
Justified(t, p, r) ==
  \/ /\ t.replan[r] /\ p = {r, t.yields[r]}
     /\ t.mode[r] = "STILL" => t.cell[r] \in Depots
  \/ t.mode[r] = "TO_CHARGER"

Books(t, x) ==
  /\ BooksTyped(t)
  /\ \A p, q \in Pairs : t.pairs[p] # NoRobot /\ t.pairs[p] = t.pairs[q] => p = q
  /\ \A p \in Pairs, r \in Robots :
       t.pairs[p] = r => r \in p /\ (r # x => Justified(t, p, r))

Booked(t) == Books(t, NoRobot)

\* Robot r yields in no recorded pair.
Unrecorded(t, r) == \A p \in Pairs : t.pairs[p] # r

\* u has no record that t lacks.
NoNewRecords(t, u) == \A p \in Pairs : u.pairs[p] \in {t.pairs[p], NoRobot}

LEMMA NoRobotIsNone ==
  /\ NoRobot \notin Robots
  /\ \A p \in Pairs : p \subseteq Robots
  /\ \A r, b \in Robots : r # b => {r, b} \in Pairs
<1>1. NoRobot \notin Robots
  BY TrafficAssumption
<1>2. ASSUME NEW p \in Pairs PROVE p \subseteq Robots
  BY DEF Pairs
<1>3. ASSUME NEW r \in Robots, NEW b \in Robots, r # b
      PROVE  {r, b} \in Pairs
  <2>1. {r, b} \in {{a, q} : a, q \in Robots}
    OBVIOUS
  <2>2. \A a : {r, b} # {a}
    BY <1>3
  <2> QED
    BY <2>1, <2>2 DEF Pairs
<1> QED
  BY <1>1, <1>2, <1>3

LEMMA StillUnrecorded ==
  ASSUME NEW t, NEW u, NEW r \in Robots, Unrecorded(t, r), NoNewRecords(t, u)
  PROVE  Unrecorded(u, r)
BY NoRobotIsNone DEF Unrecorded, NoNewRecords

LEMMA NoNewRecordsTrans ==
  ASSUME NEW t, NEW u, NEW v, NoNewRecords(t, u), NoNewRecords(u, v)
  PROVE  NoNewRecords(t, v)
BY DEF NoNewRecords

\* u and t have the same records, and the same flags but perhaps r's.
SameButFor(t, u, r) ==
  /\ BooksTyped(u)
  /\ u.pairs = t.pairs
  /\ \A q \in Robots \ {r} : /\ u.cell[q] = t.cell[q]
                             /\ u.mode[q] = t.mode[q]
                             /\ u.replan[q] = t.replan[q]
                             /\ u.yields[q] = t.yields[q]

LEMMA OwnFlags ==
  ASSUME NEW t, NEW u, NEW r \in Robots, Books(t, NoRobot) \/ Books(t, r), SameButFor(t, u, r)
  PROVE  /\ Books(u, r) /\ NoNewRecords(t, u)
         /\ Unrecorded(t, r) \/ u.mode[r] = "TO_CHARGER" => Booked(u)
<1>1. \A p \in Pairs, q \in Robots : q # r /\ t.pairs[p] = q => Justified(t, p, q)
  BY NoRobotIsNone DEF Books
<1>2. \A p \in Pairs, q \in Robots : q # r /\ t.pairs[p] = q => Justified(u, p, q)
  BY <1>1 DEF SameButFor, Justified
<1>3. Books(u, r)
  BY <1>2 DEF SameButFor, Books
<1>4. NoNewRecords(t, u)
  BY DEF SameButFor, NoNewRecords
<1>5. ASSUME Unrecorded(t, r) \/ u.mode[r] = "TO_CHARGER"
      PROVE  Booked(u)
  <2>1. \A p \in Pairs : u.pairs[p] = r => Justified(u, p, r)
    BY <1>5 DEF Unrecorded, SameButFor, Justified
  <2> QED
    BY <1>2, <1>3, <2>1 DEF Booked, Books, SameButFor
<1> QED
  BY <1>3, <1>4, <1>5

\* u and t do not differ in what conflicts are about.
SameBooks(t, u) ==
  /\ {"cell", "mode", "replan", "yields", "pairs"} \subseteq DOMAIN u
  /\ DOMAIN u.cell = Robots
  /\ u.mode = t.mode /\ u.replan = t.replan /\ u.yields = t.yields /\ u.pairs = t.pairs
  /\ \A q \in Robots : u.cell[q] = t.cell[q] \/ t.mode[q] # "STILL" \/ Unrecorded(t, q)

LEMMA SameBooked ==
  ASSUME NEW t, NEW u, Booked(t), SameBooks(t, u)
  PROVE  Booked(u) /\ NoNewRecords(t, u)
<1>1. BooksTyped(u) /\ NoNewRecords(t, u)
  BY DEF Booked, Books, BooksTyped, SameBooks, NoNewRecords
<1>2. ASSUME NEW p \in Pairs, NEW r \in Robots, t.pairs[p] = r
      PROVE  r \in p /\ Justified(u, p, r)
  <2>1. r \in p /\ Justified(t, p, r)
    BY <1>2, NoRobotIsNone DEF Booked, Books
  <2>2. u.cell[r] = t.cell[r] \/ t.mode[r] # "STILL"
    BY <1>2 DEF SameBooks, Unrecorded
  <2> QED
    BY <2>1, <2>2 DEF Justified, SameBooks
<1> QED
  BY <1>1, <1>2 DEF Booked, Books, SameBooks

\* A robot whose conflicts are cleared is on no record, and those who were to
\* yield to it are on none either.
LEMMA ClearBooks ==
  ASSUME NEW t, NEW r \in Robots, Books(t, NoRobot) \/ Books(t, r)
  PROVE  /\ Booked(Clear(t, r)) /\ Unrecorded(Clear(t, r), r)
         /\ NoNewRecords(t, Clear(t, r))
<1> DEFINE u == Clear(t, r)
           mine == {p \in Pairs : r \in p /\ t.pairs[p] # NoRobot}
           calm == {q \in {t.pairs[p] : p \in mine} : q = r \/ t.path[q] = <<>>}
<1>1. /\ BooksTyped(t)
      /\ \A p, q \in Pairs : t.pairs[p] # NoRobot /\ t.pairs[p] = t.pairs[q] => p = q
      /\ \A p \in Pairs, q \in Robots :
           t.pairs[p] = q => q \in p /\ (q # r => Justified(t, p, q))
  BY NoRobotIsNone DEF Books
<1>2. /\ DOMAIN u = DOMAIN t /\ u.mode = t.mode /\ u.cell = t.cell
      /\ u.pairs = [p \in Pairs |-> IF p \in mine THEN NoRobot ELSE t.pairs[p]]
      /\ u.replan = [q \in Robots |-> t.replan[q] /\ q \notin calm]
      /\ u.yields = [q \in Robots |-> IF q \in calm THEN NoRobot ELSE t.yields[q]]
  BY <1>1 DEF Clear, BooksTyped
<1> HIDE DEF u
<1>3. BooksTyped(u)
  BY <1>1, <1>2 DEF BooksTyped
<1>4. NoNewRecords(t, u)
  BY <1>2 DEF NoNewRecords
<1>5. Unrecorded(u, r)
  BY <1>1, <1>2, NoRobotIsNone DEF Unrecorded
<1>6. ASSUME NEW p \in Pairs, NEW q \in Robots, u.pairs[p] = q
      PROVE  q \in p /\ Justified(u, p, q)
  <2>1. p \notin mine /\ t.pairs[p] = q
    BY <1>2, <1>6, NoRobotIsNone
  <2>2. q \in p /\ q # r
    BY <1>1, <1>5, <1>6, <2>1 DEF Unrecorded
  <2>3. q \notin calm
    BY <1>1, <2>1, NoRobotIsNone
  <2>4. u.replan[q] = t.replan[q] /\ u.yields[q] = t.yields[q]
    BY <1>1, <1>2, <2>3 DEF BooksTyped
  <2> QED
    BY <1>1, <1>2, <2>1, <2>2, <2>4 DEF Justified
<1>7. \A p, q \in Pairs : u.pairs[p] # NoRobot /\ u.pairs[p] = u.pairs[q] => p = q
  BY <1>1, <1>2
<1> QED
  BY <1>3, <1>4, <1>5, <1>6, <1>7 DEF u, Booked, Books

\* What a handler owes: the records stay justified, and it adds none.
Obeys(t, u) == Booked(u) /\ NoNewRecords(t, u)

LEMMA SameObeys ==
  ASSUME NEW t, Booked(t), NEW u, SameBooks(t, u)
  PROVE  Obeys(t, u)
BY SameBooked DEF Obeys

LEMMA ObeysTrans ==
  ASSUME NEW t, NEW u, NEW v, Obeys(t, u), Obeys(u, v)
  PROVE  Obeys(t, v)
BY NoNewRecordsTrans DEF Obeys

LEMMA SettleClearObeys ==
  ASSUME NEW t, Booked(t), NEW r \in Robots, NEW mode
  PROVE  /\ Obeys(t, Clear(Settle(t, r, mode), r))
         /\ Unrecorded(Clear(Settle(t, r, mode), r), r)
<1> DEFINE u == Settle(t, r, mode)
<1>1. BooksTyped(t)
  BY DEF Booked, Books
<1>2. /\ DOMAIN u = DOMAIN t /\ u.pairs = t.pairs /\ u.cell = t.cell
      /\ u.mode = [t.mode EXCEPT ![r] = mode]
      /\ u.replan = [t.replan EXCEPT ![r] = FALSE]
      /\ u.yields = [t.yields EXCEPT ![r] = NoRobot]
  BY <1>1 DEF Settle, BooksTyped
<1> HIDE DEF u
<1>3. SameButFor(t, u, r)
  BY <1>1, <1>2 DEF SameButFor, BooksTyped
<1>4. Books(u, r) /\ NoNewRecords(t, u)
  BY <1>3, OwnFlags DEF Booked
<1> QED
  BY <1>4, ClearBooks, NoNewRecordsTrans DEF Obeys, u

\* Where a robot is put down is of no account, unless it is out of order.
LEMMA PutDownSame ==
  ASSUME NEW t, Booked(t), NEW r \in Robots, t.mode[r] # "STILL" \/ Unrecorded(t, r), NEW c
  PROVE  SameBooks(t, PutDown(t, r, c))
<1> DEFINE stray == t.stray \/ stage = "move"
           u == [t EXCEPT !.cell[r] = c, !.path[r] = <<>>, !.goal[r] = Nowhere,
                          !.stray = stray]
<1>1. PutDown(t, r, c) = u
  BY DEF PutDown
<1> HIDE DEF stray
<1>2. BooksTyped(t)
  BY DEF Booked, Books
<1>3. /\ DOMAIN u = DOMAIN t /\ u.cell = [t.cell EXCEPT ![r] = c]
      /\ u.mode = t.mode /\ u.replan = t.replan /\ u.yields = t.yields /\ u.pairs = t.pairs
  BY <1>2 DEF BooksTyped
<1> HIDE DEF u
<1> QED
  BY <1>1, <1>2, <1>3 DEF BooksTyped, SameBooks

LEMMA RelocatedObeys ==
  ASSUME NEW t, Booked(t), NEW r \in Robots, t.mode[r] # "STILL" \/ Unrecorded(t, r)
  PROVE  Obeys(t, OffCharger(t, r)) /\ Obeys(t, Tow(t, r))
<1>1. Obeys(t, t)
  BY DEF Obeys, NoNewRecords
<1>2. \A c : Obeys(t, PutDown(t, r, c))
  BY PutDownSame, SameObeys
<1> QED
  BY <1>1, <1>2 DEF OffCharger, Tow

LEMMA EnterWaitingObeys ==
  ASSUME NEW t, Booked(t), NEW r \in Robots, Unrecorded(t, r)
  PROVE  Obeys(t, EnterWaiting(t, r))
<1> DEFINE u == [t EXCEPT !.mode[r] = "WAITING", !.goal[r] = Nowhere]
<1>1. BooksTyped(t)
  BY DEF Booked, Books
<1>2. /\ DOMAIN u = DOMAIN t /\ u.pairs = t.pairs /\ u.cell = t.cell
      /\ u.mode = [t.mode EXCEPT ![r] = "WAITING"]
      /\ u.replan = t.replan /\ u.yields = t.yields
  BY <1>1 DEF BooksTyped
<1>3. EnterWaiting(t, r) = OffCharger(u, r)
  BY DEF EnterWaiting
<1> HIDE DEF u
<1>4. SameButFor(t, u, r) /\ u.mode[r] # "STILL"
  BY <1>1, <1>2 DEF SameButFor, BooksTyped
<1>5. Obeys(t, u)
  BY <1>4, OwnFlags DEF Booked, Obeys
<1> QED
  BY <1>3, <1>4, <1>5, RelocatedObeys, ObeysTrans DEF Obeys

\* A robot that arrives at a charging cell has no conflicts left.
LEMMA ChargingArrivalObeys ==
  ASSUME NEW t, Booked(t), NEW r \in Robots, Unrecorded(t, r), NEW slot
  PROVE  Obeys(t, ChargingArrival(t, r, slot))
<1> DEFINE u == [t EXCEPT !.path[r] = <<>>]
           v == [u EXCEPT !.mode[r] = "STILL"]
<1>1. SameBooks(t, u)
  BY DEF Booked, Books, BooksTyped, SameBooks
<1>2. ChargingArrival(t, r, slot) \in {EnterWaiting(u, r), v}
  BY DEF ChargingArrival
<1> HIDE DEF u
<1>3. Obeys(t, u) /\ Unrecorded(u, r) /\ BooksTyped(u)
  BY <1>1, SameObeys, StillUnrecorded DEF Obeys, Booked, Books
<1>4. Obeys(u, EnterWaiting(u, r))
  BY <1>3, EnterWaitingObeys DEF Obeys
<1>5. /\ DOMAIN v = DOMAIN u /\ v.pairs = u.pairs /\ v.cell = u.cell
      /\ v.mode = [u.mode EXCEPT ![r] = "STILL"]
      /\ v.replan = u.replan /\ v.yields = u.yields
  BY <1>3 DEF BooksTyped
<1> HIDE DEF v
<1>6. SameButFor(u, v, r)
  BY <1>3, <1>5 DEF SameButFor, BooksTyped
<1>7. Obeys(u, v)
  BY <1>3, <1>6, OwnFlags DEF Booked, Obeys
<1> QED
  BY <1>2, <1>3, <1>4, <1>7, ObeysTrans

LEMMA SetOffObeys ==
  ASSUME NEW t, Booked(t), NEW r \in Robots, NEW c, NEW mode,
         mode = "TO_CHARGER" \/ Unrecorded(t, r)
  PROVE  Obeys(t, SetOff(t, r, c, mode)) /\ BooksTyped(SetOff(t, r, c, mode))
<1> DEFINE p == RouteAround(t, r, c)
           u == [t EXCEPT !.goal[r] = c, !.mode[r] = mode, !.path[r] = p,
                          !.replan[r] = FALSE, !.yields[r] = NoRobot]
<1>1. SetOff(t, r, c, mode) = u
  BY DEF SetOff
<1> HIDE DEF p
<1>2. BooksTyped(t)
  BY DEF Booked, Books
<1>3. /\ DOMAIN u = DOMAIN t /\ u.pairs = t.pairs /\ u.cell = t.cell
      /\ u.mode = [t.mode EXCEPT ![r] = mode]
      /\ u.replan = [t.replan EXCEPT ![r] = FALSE]
      /\ u.yields = [t.yields EXCEPT ![r] = NoRobot]
  BY <1>2 DEF BooksTyped
<1> HIDE DEF u
<1>4. SameButFor(t, u, r) /\ u.mode[r] = mode
  BY <1>2, <1>3 DEF SameButFor, BooksTyped
<1> QED
  BY <1>1, <1>4, OwnFlags DEF Booked, Obeys, SameButFor

LEMMA RouteToCellObeys ==
  ASSUME NEW t, Booked(t), NEW r \in Robots, NEW depot
  PROVE  Obeys(t, RouteToCell(t, r, depot))
<1> DEFINE u == SetOff(t, r, depot, "TO_CHARGER")
           v == Clear(u, r)
<1>1. Obeys(t, u)
  BY SetOffObeys
<1>2. RouteToCell(t, r, depot) = IF u.path[r] = <<>> THEN ChargingArrival(v, r, TRUE) ELSE u
  BY DEF RouteToCell
<1> HIDE DEF u
<1>3. Obeys(t, v) /\ Unrecorded(v, r)
  BY <1>1, ClearBooks, ObeysTrans DEF Obeys, Booked
<1> HIDE DEF v
<1>4. Obeys(t, ChargingArrival(v, r, TRUE))
  BY <1>3, ChargingArrivalObeys, ObeysTrans DEF Obeys
<1> QED
  BY <1>1, <1>2, <1>4

LEMMA InterruptObeys ==
  ASSUME NEW t, Booked(t), NEW r \in Robots, NEW depot
  PROVE  Obeys(t, Interrupt(t, r, depot))
<1> DEFINE u == Clear(Settle(t, r, "WAITING"), r)
<1>1. Obeys(t, u) /\ Unrecorded(u, r)
  BY SettleClearObeys
<1>2. Interrupt(t, r, depot) =
        IF depot \in FreeDepots(t, r) THEN RouteToCell(u, r, depot) ELSE OffCharger(u, r)
  BY DEF Interrupt, u
<1> HIDE DEF u
<1>3. Obeys(t, RouteToCell(u, r, depot)) /\ Obeys(t, OffCharger(u, r))
  BY <1>1, RouteToCellObeys, RelocatedObeys, ObeysTrans DEF Obeys
<1> QED
  BY <1>2, <1>3

LEMMA BreakdownObeys ==
  ASSUME NEW t, Booked(t), NEW r \in Robots
  PROVE  Obeys(t, Breakdown(t, r))
<1> DEFINE d == Clear(Settle(t, r, "STILL"), r)
           u == Tow(d, r)
           v == [u EXCEPT !.claims = {x \in u.claims : x[3] # r}]
<1>1. Obeys(t, d) /\ Unrecorded(d, r)
  BY SettleClearObeys
<1>2. Breakdown(t, r) = v
  BY DEF Breakdown
<1> HIDE DEF d
<1>3. Obeys(t, u)
  BY <1>1, RelocatedObeys, ObeysTrans DEF Obeys
<1> HIDE DEF u
<1>4. SameBooks(u, v)
  BY <1>3 DEF Obeys, Booked, Books, BooksTyped, SameBooks
<1> HIDE DEF v
<1> QED
  BY <1>2, <1>3, <1>4, SameObeys, ObeysTrans DEF Obeys

LEMMA CheckObeys ==
  ASSUME NEW t, Booked(t), NEW r \in Robots, NEW fate
  PROVE  Obeys(t, Check(t, r, fate))
<1>1. Obeys(t, t)
  BY DEF Obeys, NoNewRecords
<1> QED
  BY <1>1, InterruptObeys, BreakdownObeys DEF Check

\* A route ends the robot's yield, so there must be none on record.
LEMMA SetRouteObeys ==
  ASSUME NEW t, Booked(t), NEW r \in Robots, NEW p, Unrecorded(t, r) \/ ~t.replan[r]
  PROVE  Obeys(t, SetRoute(t, r, p))
<1> DEFINE u == SetRoute(t, r, p)
<1>1. BooksTyped(t)
  BY DEF Booked, Books
<1>2. /\ DOMAIN u = DOMAIN t /\ u.pairs = t.pairs /\ u.mode = t.mode
      /\ u.cell = t.cell /\ u.replan = [t.replan EXCEPT ![r] = FALSE]
      /\ u.yields = [t.yields EXCEPT ![r] = NoRobot]
  BY <1>1 DEF SetRoute, BooksTyped
<1> HIDE DEF u
<1>3. SameButFor(t, u, r)
  BY <1>1, <1>2 DEF SameButFor, BooksTyped
<1>4. Unrecorded(t, r) \/ u.mode[r] = "TO_CHARGER"
  BY <1>2, NoRobotIsNone DEF Booked, Books, Justified, Unrecorded
<1>5. Obeys(t, u)
  BY <1>3, <1>4, OwnFlags DEF Booked, Obeys
<1> QED
  BY <1>5 DEF u

LEMMA DeliverObeys ==
  ASSUME NEW t, Booked(t), NEW r \in Robots
  PROVE  Obeys(t, Deliver(t, r))
<1> DEFINE u == [t EXCEPT !.leg[r] = 0, !.job[r] = NoJob, !.goal[r] = Nowhere,
                          !.mode[r] = "IDLE", !.blocked[r] = 0, !.cool[r] = 0,
                          !.path[r] = <<>>]
<1>1. BooksTyped(t)
  BY DEF Booked, Books
<1>2. /\ DOMAIN u = DOMAIN t /\ u.pairs = t.pairs /\ u.cell = t.cell
      /\ u.mode = [t.mode EXCEPT ![r] = "IDLE"]
      /\ u.replan = t.replan /\ u.yields = t.yields
  BY <1>1 DEF BooksTyped
<1>3. Deliver(t, r) = Clear(u, r)
  BY DEF Deliver, u
<1> HIDE DEF u
<1>4. SameButFor(t, u, r)
  BY <1>1, <1>2 DEF SameButFor, BooksTyped
<1>5. Books(u, r) /\ NoNewRecords(t, u)
  BY <1>4, OwnFlags DEF Booked
<1> QED
  BY <1>3, <1>5, ClearBooks, NoNewRecordsTrans DEF Obeys

LEMMA ArriveObeys ==
  ASSUME NEW t, Booked(t), NEW r \in Robots, NEW fate
  PROVE  Obeys(t, Arrive(t, r, fate))
<1> DEFINE d == Clear(t, r)
           e == [d EXCEPT !.leg[r] = 2, !.blocked[r] = 0, !.mode[r] = "MOVING"]
           u == Check(e, r, fate)
           w == [u EXCEPT !.goal[r] = u.job[r][2]]
           p == RouteAround(u, r, u.job[r][2])
           v == SetRoute(w, r, p)
           mode == IF d.mode[r] \in {"WAITING", "STILL"} THEN d.mode[r] ELSE "IDLE"
           idle == [d EXCEPT !.path[r] = <<>>, !.goal[r] = Nowhere, !.mode[r] = mode]
           charge == ChargingArrival(d, r, fate # Nowhere)
<1>1. Obeys(t, d) /\ Unrecorded(d, r) /\ BooksTyped(d)
  BY ClearBooks DEF Obeys, Booked, Books
<1>2. Arrive(t, r, fate) =
        CASE t.leg[r] = 0 /\ t.goal[r] \in Depots -> charge
          [] t.leg[r] = 0 /\ t.goal[r] \notin Depots -> idle
          [] t.leg[r] = 1 -> IF u.leg[r] = 0 THEN u ELSE IF p = <<>> THEN Deliver(v, r) ELSE v
          [] OTHER -> Deliver(d, r)
  BY DEF Arrive
<1> HIDE DEF d, mode
<1>3. Obeys(t, charge)
  BY <1>1, ChargingArrivalObeys, ObeysTrans DEF Obeys
<1>4. /\ DOMAIN e = DOMAIN d /\ e.pairs = d.pairs /\ e.replan = d.replan /\ e.yields = d.yields
      /\ e.cell = d.cell /\ e.mode = [d.mode EXCEPT ![r] = "MOVING"]
  BY <1>1 DEF BooksTyped
<1>5. /\ DOMAIN idle = DOMAIN d /\ idle.pairs = d.pairs
      /\ idle.replan = d.replan /\ idle.yields = d.yields
      /\ idle.cell = d.cell /\ idle.mode = [d.mode EXCEPT ![r] = mode]
  BY <1>1 DEF BooksTyped
<1> HIDE DEF e, idle, charge
<1>6. SameButFor(d, e, r) /\ SameButFor(d, idle, r)
  BY <1>1, <1>4, <1>5 DEF SameButFor, BooksTyped
<1>7. Obeys(d, e) /\ Obeys(d, idle)
  BY <1>1, <1>6, OwnFlags DEF Obeys, Booked
<1>8. Obeys(e, u)
  BY <1>7, CheckObeys DEF Obeys
<1> HIDE DEF u
<1>9. SameBooks(u, w)
  BY <1>8 DEF SameBooks, Obeys, Booked, Books, BooksTyped
<1> HIDE DEF w
<1>10. Obeys(t, u) /\ Obeys(t, w) /\ Obeys(t, idle) /\ Obeys(d, w)
  BY <1>1, <1>7, <1>8, <1>9, SameObeys, ObeysTrans DEF Obeys
<1>11. Unrecorded(w, r)
  BY <1>1, <1>10, StillUnrecorded DEF Obeys
<1>12. Obeys(t, v)
  BY <1>10, <1>11, SetRouteObeys, ObeysTrans DEF Obeys
<1> HIDE DEF v
<1>13. Obeys(t, Deliver(v, r)) /\ Obeys(t, Deliver(d, r))
  BY <1>1, <1>12, DeliverObeys, ObeysTrans DEF Obeys
<1> HIDE DEF p
<1> QED
  BY <1>2, <1>3, <1>10, <1>12, <1>13

LEMMA ResumeObeys ==
  ASSUME NEW t, Booked(t), NEW r \in Robots, ~t.replan[r], NEW fate
  PROVE  Obeys(t, Resume(t, r, fate))
<1> DEFINE u(p) == [SetRoute(t, r, p) EXCEPT !.blocked[r] = 0]
<1>1. Obeys(t, t) /\ Obeys(t, Arrive(t, r, fate))
  BY ArriveObeys DEF Obeys, NoNewRecords
<1>2. ASSUME NEW p PROVE Obeys(t, Check(u(p), r, fate))
  <2> DEFINE w == SetRoute(t, r, p)
  <2>1. Obeys(t, w)
    BY SetRouteObeys
  <2> HIDE DEF w
  <2> DEFINE x == [w EXCEPT !.blocked[r] = 0]
  <2>2. SameBooks(w, x)
    BY <2>1 DEF SameBooks, Obeys, Booked, Books, BooksTyped
  <2>3. u(p) = x
    BY DEF w
  <2> HIDE DEF x, u
  <2>4. Obeys(t, x)
    BY <2>1, <2>2, SameObeys, ObeysTrans DEF Obeys
  <2> QED
    BY <2>3, <2>4, CheckObeys, ObeysTrans DEF Obeys
<1>3. PICK p : Resume(t, r, fate) =
        IF t.goal[r] = Nowhere THEN t
        ELSE IF t.cell[r] = t.goal[r] THEN Arrive(t, r, fate)
        ELSE IF p = NoPath \/ p[1] \in Occupied(t, r) \union Claimed(t, r) THEN t
        ELSE Check(u(p), r, fate)
  BY DEF Resume
<1> HIDE DEF u
<1> QED
  BY <1>1, <1>2, <1>3

\* A robot that has moved, or given up, is a yielder no more; one that was
\* sent to a charging cell while it yielded may stay on record.
Freed(t, r) == \A p \in Pairs : t.pairs[p] = r => t.mode[r] = "TO_CHARGER"

LEMMA ReleaseObeys ==
  ASSUME NEW t, Booked(t), NEW r \in Robots
  PROVE  /\ Obeys(t, Release(t, r)) /\ Freed(Release(t, r), r)
         /\ Release(t, r).mode = t.mode
<1>1. BooksTyped(t)
  BY DEF Booked, Books
<1>2. \A p \in Pairs : t.pairs[p] = r => p = {r, t.yields[r]} \/ t.mode[r] = "TO_CHARGER"
  BY NoRobotIsNone DEF Booked, Books, Justified
<1>3. CASE t.yields[r] = NoRobot
  <2>1. \A p \in Pairs : t.pairs[p] = r => t.mode[r] = "TO_CHARGER"
    <3> SUFFICES ASSUME NEW p \in Pairs, t.pairs[p] = r, p = {r, t.yields[r]}
                 PROVE  FALSE
      BY <1>2
    <3>1. NoRobot \in p
      BY <1>3
    <3> QED
      BY <3>1, NoRobotIsNone
  <2>2. Release(t, r) = t
    BY <1>3 DEF Release
  <2> QED
    BY <2>1, <2>2 DEF Obeys, NoNewRecords, Freed
<1>4. CASE t.yields[r] # NoRobot
  <2> DEFINE u == [t EXCEPT !.pairs = [q \in Pairs |->
                     IF q = {r, t.yields[r]} /\ t.pairs[q] = r THEN NoRobot ELSE t.pairs[q]],
                            !.replan[r] = FALSE, !.yields[r] = NoRobot]
  <2>1. Release(t, r) = u
    BY <1>4 DEF Release
  <2>2. /\ DOMAIN u = DOMAIN t /\ u.mode = t.mode /\ u.cell = t.cell
        /\ u.pairs = [q \in Pairs |->
             IF q = {r, t.yields[r]} /\ t.pairs[q] = r THEN NoRobot ELSE t.pairs[q]]
        /\ u.replan = [t.replan EXCEPT ![r] = FALSE]
        /\ u.yields = [t.yields EXCEPT ![r] = NoRobot]
    BY <1>1 DEF BooksTyped
  <2> HIDE DEF u
  <2>3. BooksTyped(u) /\ NoNewRecords(t, u)
    BY <1>1, <2>2 DEF BooksTyped, NoNewRecords
  <2>4. Freed(u, r)
    BY <1>2, <2>2, NoRobotIsNone DEF Freed
  <2>5. \A p, q \in Pairs : u.pairs[p] # NoRobot /\ u.pairs[p] = u.pairs[q] => p = q
    BY <2>2 DEF Booked, Books
  <2>6. ASSUME NEW p \in Pairs, NEW q \in Robots, u.pairs[p] = q
        PROVE  q \in p /\ Justified(u, p, q)
    <3>1. t.pairs[p] = q
      BY <2>2, <2>6, NoRobotIsNone
    <3>2. q \in p /\ Justified(t, p, q)
      BY <3>1, NoRobotIsNone DEF Booked, Books
    <3>3. CASE q = r
      BY <2>4, <2>6, <3>2, <3>3 DEF Freed, Justified
    <3>4. CASE q # r
      BY <1>1, <2>2, <3>2, <3>4 DEF Justified, BooksTyped
    <3> QED
      BY <3>3, <3>4
  <2> QED
    BY <2>1, <2>2, <2>3, <2>4, <2>5, <2>6 DEF Obeys, Booked, Books
<1> QED
  BY <1>3, <1>4

LEMMA StepObeys ==
  ASSUME NEW t, Booked(t), NEW r \in Robots, t.mode[r] # "STILL"
  PROVE  Obeys(t, Step(t, r))
<1> DEFINE next == Head(t.path[r])
           seen == (t.seen \ {t.cell[r]}) \union {next}
           u == [t EXCEPT !.cell[r] = next, !.path[r] = Tail(@), !.blocked[r] = 0,
                          !.seen = seen]
<1>1. Step(t, r) = Release(u, r)
  BY DEF Step
<1> HIDE DEF next, seen
<1>2. BooksTyped(t)
  BY DEF Booked, Books
<1>3. /\ DOMAIN u = DOMAIN t /\ u.cell = [t.cell EXCEPT ![r] = next]
      /\ u.mode = t.mode /\ u.replan = t.replan /\ u.yields = t.yields /\ u.pairs = t.pairs
  BY <1>2 DEF BooksTyped
<1> HIDE DEF u
<1>4. SameBooks(t, u)
  BY <1>2, <1>3 DEF BooksTyped, SameBooks
<1> QED
  BY <1>1, <1>4, SameObeys, ReleaseObeys, ObeysTrans DEF Obeys

LEMMA CompleteObeys ==
  ASSUME NEW t, Booked(t), NEW r \in Robots, NEW fate
  PROVE  Obeys(t, Complete(t, r, fate))
<1> DEFINE u == Release(t, r)
           v == [u EXCEPT !.replan[r] = FALSE, !.path[r] = <<>>,
                          !.mode[r] = IF t.leg[r] # 0 /\ @ = "IDLE" THEN "MOVING" ELSE @]
<1>1. Obeys(t, u) /\ Freed(u, r) /\ BooksTyped(u)
  BY ReleaseObeys DEF Obeys, Booked, Books
<1>2. Complete(t, r, fate) = IF WantsRoute(t, r) THEN Resume(v, r, fate) ELSE v
  BY DEF Complete
<1> HIDE DEF u
<1>3. /\ DOMAIN v = DOMAIN u /\ v.pairs = u.pairs /\ v.yields = u.yields
      /\ v.cell = u.cell /\ v.replan = [u.replan EXCEPT ![r] = FALSE]
      /\ v.mode = [u.mode EXCEPT ![r] =
                    IF t.leg[r] # 0 /\ u.mode[r] = "IDLE" THEN "MOVING" ELSE u.mode[r]]
  BY <1>1 DEF BooksTyped
<1> HIDE DEF v
<1>4. SameButFor(u, v, r) /\ ~v.replan[r]
  BY <1>1, <1>3 DEF SameButFor, BooksTyped
<1>5. Unrecorded(u, r) \/ v.mode[r] = "TO_CHARGER"
  BY <1>1, <1>3 DEF Unrecorded, Freed, BooksTyped
<1>6. Obeys(u, v)
  BY <1>1, <1>4, <1>5, OwnFlags DEF Obeys, Booked
<1>7. Obeys(t, v) /\ Obeys(t, Resume(v, r, fate))
  BY <1>1, <1>4, <1>6, ResumeObeys, ObeysTrans DEF Obeys
<1> QED
  BY <1>2, <1>7

LEMMA StuckSame ==
  ASSUME NEW t, Booked(t), NEW r \in Robots
  PROVE  Obeys(t, Stuck(t, r)) /\ SameBooks(t, Stuck(t, r))
<1>1. SameBooks(t, Stuck(t, r))
  BY DEF Booked, Books, BooksTyped, SameBooks, Stuck
<1> QED
  BY <1>1, SameObeys

LEMMA AdvanceYieldObeys ==
  ASSUME NEW t, Booked(t), NEW r \in Robots, t.mode[r] # "STILL", NEW hint, NEW fate
  PROVE  Obeys(t, AdvanceYield(t, r, hint, fate))
<1> DEFINE u == Stuck(t, r)
           b == t.yields[r]
           step == YieldStep(u, r, b, t.seen, hint)
           v == Step(t, r)
           w == [u EXCEPT !.path[r] = <<step>>, !.blocked[r] = 0, !.cool[r] = Cooldown]
<1>1. Obeys(t, u) /\ Obeys(t, v) /\ Booked(u) /\ Booked(v)
  BY StuckSame, StepObeys DEF Obeys
<1>2. AdvanceYield(t, r, hint, fate) =
        IF t.path[r] = <<>> THEN Complete(t, r, fate)
        ELSE IF t.path[r][1] \notin t.seen
        THEN IF v.path[r] = <<>> THEN Complete(v, r, fate) ELSE Check(v, r, fate)
        ELSE IF u.blocked[r] < 2 \/ u.cool[r] > 0 THEN u
        ELSE IF b = NoRobot THEN Complete(u, r, fate)
        ELSE IF step = Nowhere THEN u
        ELSE Check(w, r, fate)
  BY DEF AdvanceYield
<1> HIDE DEF u, v, step, b
<1>3. SameBooks(u, w)
  BY <1>1 DEF Booked, Books, BooksTyped, SameBooks
<1> HIDE DEF w
<1>4. Obeys(t, w) /\ Booked(w)
  BY <1>1, <1>3, SameObeys, ObeysTrans DEF Obeys
<1>5. /\ Obeys(t, Complete(t, r, fate)) /\ Obeys(t, Complete(v, r, fate))
      /\ Obeys(t, Complete(u, r, fate))
  BY <1>1, CompleteObeys, ObeysTrans
<1>6. Obeys(t, Check(v, r, fate)) /\ Obeys(t, Check(w, r, fate))
  BY <1>1, <1>4, CheckObeys, ObeysTrans
<1> QED
  BY <1>1, <1>2, <1>5, <1>6

\* The one handler that adds a record: its robot is in no conflict yet.
LEMMA MakeYieldBooks ==
  ASSUME NEW t, Booked(t), NEW r \in Robots, NEW b \in Robots, r # b, NEW hint, NEW fate
  PROVE  Booked(MakeYield(t, r, b, hint, fate))
<1> DEFINE step == YieldStep(t, r, b, Occupied(t, r), hint)
           u == [t EXCEPT !.pairs[{r, b}] = r, !.replan[r] = TRUE, !.yields[r] = b,
                          !.path[r] = <<step>>, !.blocked[r] = 0, !.cool[r] = Cooldown]
           w == [t EXCEPT !.cool[r] = 1]
<1>1. MakeYield(t, r, b, hint, fate) =
        IF ~CanYield(t, r) THEN t ELSE IF step = Nowhere THEN w ELSE Check(u, r, fate)
  BY DEF MakeYield
<1> HIDE DEF step
<1>2. BooksTyped(t)
  BY DEF Booked, Books
<1>3. Booked(w)
  <2>1. SameBooks(t, w)
    BY <1>2 DEF BooksTyped, SameBooks
  <2> QED
    BY <2>1, SameBooked
<1>4. ASSUME CanYield(t, r) PROVE Booked(u)
  <2>1. \A p \in Pairs : r \in p => t.pairs[p] = NoRobot
    BY <1>4 DEF CanYield, InConflict
  <2>2. Unrecorded(t, r) /\ {r, b} \in Pairs
    BY <2>1, NoRobotIsNone DEF Booked, Books, Unrecorded
  <2>3. /\ DOMAIN u = DOMAIN t /\ u.mode = t.mode /\ u.cell = t.cell /\ u.mode[r] # "STILL"
        /\ u.pairs = [t.pairs EXCEPT ![{r, b}] = r]
        /\ u.replan = [t.replan EXCEPT ![r] = TRUE]
        /\ u.yields = [t.yields EXCEPT ![r] = b]
    BY <1>2, <1>4 DEF BooksTyped, CanYield
  <2> HIDE DEF u
  <2>4. BooksTyped(u)
    BY <1>2, <2>2, <2>3 DEF BooksTyped
  <2>5. \A p \in Pairs : u.pairs[p] = IF p = {r, b} THEN r ELSE t.pairs[p]
    BY <1>2, <2>3 DEF BooksTyped
  <2>6. \A p, q \in Pairs : u.pairs[p] # NoRobot /\ u.pairs[p] = u.pairs[q] => p = q
    BY <2>2, <2>5 DEF Booked, Books, Unrecorded
  <2>7. ASSUME NEW p \in Pairs, NEW q \in Robots, u.pairs[p] = q
        PROVE  q \in p /\ Justified(u, p, q)
    <3>1. CASE p = {r, b}
      <4>1. q = r /\ u.replan[r] /\ u.yields[r] = b
        BY <1>2, <2>3, <2>5, <2>7, <3>1 DEF BooksTyped
      <4> QED
        BY <2>3, <3>1, <4>1 DEF Justified
    <3>2. CASE p # {r, b}
      <4>1. t.pairs[p] = q /\ q # r
        BY <2>2, <2>5, <2>7, <3>2 DEF Unrecorded
      <4>2. q \in p /\ Justified(t, p, q)
        BY <4>1, NoRobotIsNone DEF Booked, Books
      <4> QED
        BY <1>2, <2>3, <4>1, <4>2 DEF Justified, BooksTyped
    <3> QED
      BY <3>1, <3>2
  <2> QED
    BY <2>4, <2>6, <2>7 DEF Booked, Books
<1> HIDE DEF u, w
<1> QED
  BY <1>1, <1>3, <1>4, CheckObeys DEF Obeys

LEMMA DropBooks ==
  ASSUME NEW t, Booked(t), NEW p \in Pairs
  PROVE  Booked(Drop(t, p))
<1> DEFINE u == Drop(t, p)
<1>1. BooksTyped(t)
  BY DEF Booked, Books
<1>2. /\ DOMAIN u = DOMAIN t /\ u.mode = t.mode /\ u.replan = t.replan /\ u.yields = t.yields
      /\ u.cell = t.cell /\ u.pairs = [t.pairs EXCEPT ![p] = NoRobot]
  BY <1>1 DEF Drop, BooksTyped
<1> HIDE DEF u
<1>3. BooksTyped(u)
  BY <1>1, <1>2 DEF BooksTyped
<1>4. \A q \in Pairs : u.pairs[q] = IF q = p THEN NoRobot ELSE t.pairs[q]
  BY <1>1, <1>2 DEF BooksTyped
<1>5. \A q \in Pairs, r \in Robots : u.pairs[q] = r => t.pairs[q] = r
  BY <1>4, NoRobotIsNone
<1>6. \A o, q \in Pairs : u.pairs[o] # NoRobot /\ u.pairs[o] = u.pairs[q] => o = q
  BY <1>4 DEF Booked, Books
<1>7. \A q \in Pairs, r \in Robots : u.pairs[q] = r => r \in q /\ Justified(u, q, r)
  BY <1>2, <1>5, NoRobotIsNone DEF Booked, Books, Justified
<1> QED
  BY <1>3, <1>6, <1>7 DEF u, Booked, Books

LEMMA ContendBooks ==
  ASSUME NEW t, Booked(t), NEW r \in Robots, NEW b \in Robots, r # b, NEW hint, NEW fate
  PROVE  Booked(Contend(t, r, b, hint, fate))
<1> DEFINE pushed == /\ t.path[b] = <<>> \/ t.blocked[b] >= Threshold
                     /\ CanYield(t, b)
           u == IF pushed THEN MakeYield(t, b, r, hint, fate) ELSE t
<1>1. Booked(u)
  BY MakeYieldBooks
<1>2. \/ Contend(t, r, b, hint, fate) \in {t, u}
      \/ Contend(t, r, b, hint, fate) = MakeYield(t, r, b, hint, fate)
      \/ Contend(t, r, b, hint, fate) = MakeYield(u, r, b, hint, fate)
  BY DEF Contend
<1> HIDE DEF u
<1>3. Booked(MakeYield(t, r, b, hint, fate)) /\ Booked(MakeYield(u, r, b, hint, fate))
  BY <1>1, MakeYieldBooks
<1> QED
  BY <1>1, <1>2, <1>3

\* What handle_blocked_robot comes to.
LEMMA HandleBlockedCases ==
  ASSUME NEW t, NEW r, NEW b, NEW hint, NEW fate
  PROVE  LET u == Stuck(t, r)
             d == Drop(u, {r, b})
         IN  \/ HandleBlocked(t, r, b, hint, fate) = u
             \/ b = NoRobot /\ HandleBlocked(t, r, b, hint, fate) = Resume(u, r, fate)
             \/ b # NoRobot /\ HandleBlocked(t, r, b, hint, fate) = MakeYield(d, r, b, hint, fate)
             \/ b # NoRobot /\ HandleBlocked(t, r, b, hint, fate) = Contend(u, r, b, hint, fate)
<1> DEFINE u == Stuck(t, r)
           d == Drop(u, {r, b})
           made == MakeYield(d, r, b, hint, fate)
           joined == Contend(u, r, b, hint, fate)
           resumed == Resume(u, r, fate)
<1>1. HandleBlocked(t, r, b, hint, fate) =
        IF b = NoRobot
        THEN IF u.blocked[r] >= Threshold /\ u.cool[r] = 0 THEN resumed ELSE u
        ELSE CASE u.pairs[{r, b}] = r -> made
               [] u.pairs[{r, b}] = b -> IF /\ u.blocked[r] >= 3 * Threshold
                                            /\ ~u.replan[b] /\ CanYield(u, r)
                                         THEN made ELSE u
               [] OTHER -> joined
  BY DEF HandleBlocked
<1> HIDE DEF made, joined, resumed, u, d
<1>2. \/ HandleBlocked(t, r, b, hint, fate) = u
      \/ b = NoRobot /\ HandleBlocked(t, r, b, hint, fate) = resumed
      \/ b # NoRobot /\ HandleBlocked(t, r, b, hint, fate) = made
      \/ b # NoRobot /\ HandleBlocked(t, r, b, hint, fate) = joined
  BY <1>1
<1> QED
  BY <1>2 DEF made, joined, resumed, u, d

\* A robot that yields does not come here.
LEMMA HandleBlockedBooks ==
  ASSUME NEW t, Booked(t), NEW r \in Robots, ~t.replan[r],
         NEW b \in Robots \union {NoRobot}, r # b, NEW hint, NEW fate
  PROVE  Booked(HandleBlocked(t, r, b, hint, fate))
<1> DEFINE u == Stuck(t, r)
           d == Drop(u, {r, b})
<1>1. Booked(u) /\ ~u.replan[r]
  BY StuckSame DEF Obeys, SameBooks
<1>2. \/ HandleBlocked(t, r, b, hint, fate) = u
      \/ b = NoRobot /\ HandleBlocked(t, r, b, hint, fate) = Resume(u, r, fate)
      \/ b # NoRobot /\ HandleBlocked(t, r, b, hint, fate) = MakeYield(d, r, b, hint, fate)
      \/ b # NoRobot /\ HandleBlocked(t, r, b, hint, fate) = Contend(u, r, b, hint, fate)
  BY HandleBlockedCases
<1> HIDE DEF u
<1>3. b # NoRobot => Booked(d)
  BY <1>1, DropBooks, NoRobotIsNone
<1> HIDE DEF d
<1>4. ASSUME b # NoRobot
      PROVE  Booked(MakeYield(d, r, b, hint, fate)) /\ Booked(Contend(u, r, b, hint, fate))
  BY <1>1, <1>3, <1>4, MakeYieldBooks, ContendBooks
<1>5. Booked(Resume(u, r, fate))
  BY <1>1, ResumeObeys DEF Obeys
<1> QED
  BY <1>1, <1>2, <1>4, <1>5

\* What happens to a robot outside the movement loop.
LEMMA OutsideBooked ==
  ASSUME NEW r \in Robots, Booked(s),
         Fail(r) \/ Revive(r) \/ Dispatch(r) \/ CheckBattery(r) \/ Assign(r)
  PROVE  Booked(s')
<1>1. BooksTyped(s)
  BY DEF Booked, Books
<1>2. CASE Fail(r)
  BY <1>2, BreakdownObeys DEF Fail, Obeys
<1>3. CASE Revive(r)
  <2> DEFINE u == [s EXCEPT !.mode[r] = "IDLE", !.goal[r] = Nowhere]
  <2>1. /\ s.mode[r] = "STILL"
        /\ s' = u \/ (s.cell[r] \in Bays /\ \E c : s' = SetOff(u, r, c, "MOVING"))
    BY <1>3 DEF Revive
  <2>2. /\ DOMAIN u = DOMAIN s /\ u.cell = s.cell /\ u.pairs = s.pairs /\ u.replan = s.replan
        /\ u.yields = s.yields /\ u.mode = [s.mode EXCEPT ![r] = "IDLE"]
    BY <1>1 DEF BooksTyped
  <2> HIDE DEF u
  <2>3. BooksTyped(u)
    BY <1>1, <2>2 DEF BooksTyped
  <2>4. \A p \in Pairs, q \in Robots : Justified(s, p, q) => Justified(u, p, q)
    BY <1>1, <2>1, <2>2 DEF Justified, BooksTyped
  <2>5. Booked(u)
    BY <2>2, <2>3, <2>4 DEF Booked, Books
  <2>6. s.cell[r] \in Bays => Unrecorded(u, r)
    BY <2>1, <2>2, TrafficAssumption, NoRobotIsNone DEF Booked, Books, Justified, Unrecorded
  <2> QED
    BY <2>1, <2>5, <2>6, SetOffObeys DEF Obeys
<1>4. CASE Dispatch(r)
  <2> DEFINE u == [s EXCEPT !.mode[r] = "STILL", !.goal[r] = s.cell[r]]
  <2>1. /\ s.mode[r] = "WAITING"
        /\ \/ s.cell[r] \in Depots /\ s' = u
           \/ \E c : s' = RouteToCell(s, r, c)
           \/ s' = OffCharger(s, r)
    BY <1>4 DEF Dispatch
  <2>2. /\ DOMAIN u = DOMAIN s /\ u.cell = s.cell /\ u.pairs = s.pairs /\ u.replan = s.replan
        /\ u.yields = s.yields /\ u.mode = [s.mode EXCEPT ![r] = "STILL"]
    BY <1>1 DEF BooksTyped
  <2> HIDE DEF u
  <2>3. BooksTyped(u)
    BY <1>1, <2>2 DEF BooksTyped
  <2>4. ASSUME s.cell[r] \in Depots
        PROVE  \A p \in Pairs, q \in Robots : Justified(s, p, q) => Justified(u, p, q)
    BY <1>1, <2>1, <2>2, <2>4 DEF Justified, BooksTyped
  <2>5. s.cell[r] \in Depots => Booked(u)
    BY <2>2, <2>3, <2>4 DEF Booked, Books
  <2> QED
    BY <2>1, <2>5, RouteToCellObeys, RelocatedObeys DEF Obeys
<1>5. CASE CheckBattery(r)
  BY <1>5, BreakdownObeys, InterruptObeys, CheckObeys DEF CheckBattery, Obeys
<1>6. CASE Assign(r)
  <2>1. PICK job \in Jobs, fate \in Fates :
          LET t == Clear([s EXCEPT !.leg[r] = 1, !.job[r] = job, !.goal[r] = job[1],
                                   !.mode[r] = "MOVING", !.blocked[r] = 0,
                                   !.replan[r] = FALSE, !.yields[r] = NoRobot], r)
              p == RouteAround(t, r, job[1])
              u == SetRoute(t, r, p)
          IN  s' = IF p = <<>> THEN Arrive(u, r, fate) ELSE Check(u, r, fate)
    BY <1>6 DEF Assign
  <2> DEFINE q == [s EXCEPT !.leg[r] = 1, !.job[r] = job, !.goal[r] = job[1],
                            !.mode[r] = "MOVING", !.blocked[r] = 0,
                            !.replan[r] = FALSE, !.yields[r] = NoRobot]
             t == Clear(q, r)
             p == RouteAround(t, r, job[1])
             u == SetRoute(t, r, p)
  <2>2. /\ DOMAIN q = DOMAIN s /\ q.pairs = s.pairs /\ q.cell = s.cell
        /\ q.mode = [s.mode EXCEPT ![r] = "MOVING"]
        /\ q.replan = [s.replan EXCEPT ![r] = FALSE]
        /\ q.yields = [s.yields EXCEPT ![r] = NoRobot]
    BY <1>1 DEF BooksTyped
  <2>3. s' = IF p = <<>> THEN Arrive(u, r, fate) ELSE Check(u, r, fate)
    BY <2>1
  <2> HIDE DEF q
  <2>4. SameButFor(s, q, r)
    BY <1>1, <2>2 DEF SameButFor, BooksTyped
  <2>5. Booked(t) /\ Unrecorded(t, r)
    BY <2>4, OwnFlags, ClearBooks DEF Booked
  <2> HIDE DEF t, p
  <2>6. Booked(u)
    BY <2>5, SetRouteObeys DEF Obeys
  <2> HIDE DEF u
  <2> QED
    BY <2>3, <2>6, ArriveObeys, CheckObeys DEF Obeys
<1> QED
  BY <1>2, <1>3, <1>4, <1>5, <1>6

\* A turn of the movement loop.
LEMMA MoveBooked ==
  ASSUME NEW r \in Robots, Booked(s), Move(r)
  PROVE  Booked(s')
<1> DEFINE t == Cooled(r)
<1>1. Booked(t) /\ t.replan = s.replan /\ t.mode = s.mode
  <2>1. SameBooks(s, t)
    BY DEF Cooled, Booked, Books, BooksTyped, SameBooks
  <2> QED
    BY <2>1, SameBooked DEF SameBooks
<1> HIDE DEF t
<1>2. CASE StandStill(r)
  BY <1>1, <1>2 DEF StandStill, t
<1>3. CASE YieldTurn(r)
  BY <1>1, <1>3, AdvanceYieldObeys DEF YieldTurn, Obeys, t
<1>4. CASE RouteTurn(r)
  <2>1. PICK fate \in Fates : s' = IF WantsRoute(s, r) THEN Resume(t, r, fate) ELSE t
    BY <1>4 DEF RouteTurn, t
  <2>2. ~t.replan[r]
    BY <1>1, <1>4 DEF RouteTurn
  <2> QED
    BY <1>1, <2>1, <2>2, ResumeObeys DEF Obeys
<1>5. CASE DeniedTurn(r)
  BY <1>1, <1>5, StuckSame DEF DeniedTurn, Obeys, t
<1>6. CASE BlockedTurn(r)
  <2>1. /\ ~t.replan[r]
        /\ \E b \in (Robots \union {NoRobot}) \ {r} : \E hint, fate :
             s' = HandleBlocked(t, r, b, hint, fate)
    <3> DEFINE there == {q \in Robots \ {r} : s.cell[q] = s.path[r][1]}
    <3>1. PICK b \in IF there = {} THEN {NoRobot} ELSE there : \E hint, fate :
            s' = HandleBlocked(t, r, b, hint, fate)
      BY <1>6 DEF BlockedTurn, t
    <3> QED
      BY <1>1, <1>6, <3>1, NoRobotIsNone DEF BlockedTurn, Driving
  <2> QED
    BY <1>1, <2>1, HandleBlockedBooks
<1>7. CASE StepTurn(r)
  <2> DEFINE u == Step(t, r)
  <2>1. PICK fate \in Fates : s' = IF u.path[r] = <<>> THEN Arrive(u, r, fate)
                                   ELSE Check(u, r, fate)
    BY <1>7 DEF StepTurn, t
  <2>2. Booked(u)
    BY <1>1, <1>7, StepObeys DEF StepTurn, Driving, Obeys
  <2> HIDE DEF u
  <2> QED
    BY <2>1, <2>2, ArriveObeys, CheckObeys DEF Obeys
<1> QED
  BY <1>2, <1>3, <1>4, <1>5, <1>6, <1>7 DEF Move

\* However many robots meet: nobody is on record as the yielder of two pairs, and
\* a record outlives the yield it stands for only on the way to a charging cell.
THEOREM RecordsStayJustified == Spec => []RecordsHold
<1>1. Init => Booked(s)
  BY NoRobotIsNone, TrafficAssumption DEF Init, Reset, Booked, Books, BooksTyped
<1>2. Booked(s) /\ [Next]_vars => Booked(s)'
  <2> SUFFICES ASSUME Booked(s), [Next]_vars
               PROVE  Booked(s')
    OBVIOUS
  <2>1. CASE EndRepairs \/ UNCHANGED vars
    BY <2>1 DEF EndRepairs, vars
  <2>2. CASE Sync \/ EndTick
    <3>1. \E held, seen, stray :
            s' = [s EXCEPT !.claims = held, !.seen = seen, !.stray = stray]
      <4>1. CASE Sync
        BY Zenon, <4>1 DEF Sync
      <4>2. CASE EndTick
        BY Zenon, <4>2 DEF EndTick
      <4> QED
        BY <2>2, <4>1, <4>2
    <3>2. SameBooks(s, s')
      BY <3>1 DEF Booked, Books, BooksTyped, SameBooks
    <3> QED
      BY <3>2, SameBooked
  <2>3. ASSUME NEW r \in Robots, Move(r)
        PROVE  Booked(s')
    BY <2>3, MoveBooked
  <2>4. ASSUME NEW r \in Robots,
               Fail(r) \/ Revive(r) \/ Dispatch(r) \/ CheckBattery(r) \/ Assign(r)
        PROVE  Booked(s')
    BY <2>4, OutsideBooked
  <2> QED
    BY <2>1, <2>2, <2>3, <2>4 DEF Next, Tick, Outside
<1>3. Booked(s) => RecordsHold
  BY NoRobotIsNone DEF Booked, Books, Justified, RecordsHold
<1> QED
  BY <1>1, <1>2, <1>3, PTL DEF Spec
-----------------------------------------------------------------------------
(* Robots follow walks.                                                    *)

\* What Route returns is a walk or None, and without obstacles it is a walk.
PlannerWalks ==
  \A from, to \in Open, blocked \in SUBSET Open :
    LET p == Route(from, to, blocked)
    IN  IF p = NoPath THEN blocked # {} ELSE Walk(from, p)

LEMMA PlannerFindsWalks ==
  ASSUME Connected PROVE PlannerWalks
<1> SUFFICES ASSUME NEW from \in Open, NEW to \in Open, NEW blocked \in SUBSET Open
             PROVE  LET p == Route(from, to, blocked)
                    IN  IF p = NoPath THEN blocked # {} ELSE Walk(from, p)
  BY DEF PlannerWalks
<1> DEFINE free == Free(Open, from, to, blocked)
           p == BFSPath(Open, from, to, blocked)
           size == Cardinality(Open)
<1>1. IsFiniteSet(Open) /\ Open \subseteq Nat \X Nat /\ size \in Nat
  BY TrafficAssumption, FS_CardinalityType
<1>2. IF p = NoPath THEN \A n \in Nat : to \notin Ball(free, from, n)
      ELSE Leads(free, from, p, to)
  BY <1>1, BFSPathFinds DEF Finds
<1>3. Route(from, to, blocked) = p
  BY DEF Route
<1>4. free \subseteq Open /\ (blocked = {} => free = Open)
  BY DEF Free
<1>5. to \in Ball(Open, from, size)
  <2>1. to \in WithinSteps(Open, from, size)
    BY DEF Connected
  <2> QED
    BY <1>1, <2>1, WithinStepsIsBall
<1> HIDE DEF free, p, size
<1>6. CASE p = NoPath
  <2>1. blocked # {}
    BY <1>1, <1>2, <1>4, <1>5, <1>6
  <2> QED
    BY <1>3, <1>6, <2>1
<1>7. CASE p # NoPath
  <2>1. /\ p \in Seq(free) /\ DOMAIN p = 1..Len(p) /\ Len(p) \in Nat
        /\ p # <<>> => Adjacent(from, p[1])
        /\ \A i \in 1..Len(p) : i > 1 => Adjacent(p[i - 1], p[i])
    BY <1>2, <1>7 DEF Leads
  <2>2. p \in Seq(Open)
    BY <1>4, <2>1
  <2>3. ASSUME NEW i \in DOMAIN p
        PROVE  Adjacent(IF i = 1 THEN from ELSE p[i - 1], p[i])
    BY <2>1, <2>3
  <2>4. Walk(from, p)
    BY <2>2, <2>3 DEF Walk
  <2> QED
    BY <1>3, <1>7, <2>4
<1> QED
  BY <1>6, <1>7

\* A state of the right type in which every robot's path is a walk from where it
\* stands, and a robot with a task has one of the jobs.
Routed(t) ==
  /\ t \in StateType
  /\ \A r \in Robots : /\ Walk(t.cell[r], t.path[r])
                       /\ t.leg[r] # 0 => t.job[r] \in Jobs

\* u and t do not differ in what routes are about.
SameRoutes(t, u) ==
  /\ u.cell = t.cell /\ u.seen = t.seen /\ u.stray = t.stray
  /\ u.path = t.path /\ u.leg = t.leg /\ u.job = t.job

\* ... but perhaps in the route and the job of r.
ButFor(t, u, r) ==
  /\ u.cell = t.cell /\ u.seen = t.seen /\ u.stray = t.stray
  /\ \A q \in Robots \ {r} : /\ u.path[q] = t.path[q]
                            /\ u.leg[q] = t.leg[q] /\ u.job[q] = t.job[q]

\* From t to u the robots stay where they are, but r may have been put down in a
\* cell that was free; the movement loop, if it runs, has not noticed.
Placed(t, u, r) ==
  /\ u.seen = t.seen /\ (t.stray => u.stray)
  /\ \A q \in Robots \ {r} : u.cell[q] = t.cell[q]
  /\ u.cell[r] # t.cell[r] => /\ u.cell[r] \notin Occupied(t, r)
                             /\ (stage = "move" => u.stray)

Keeps(t, u, r) == Routed(u) /\ Placed(t, u, r)

LEMMA KeepsSame ==
  ASSUME NEW t, NEW u \in StateType, NEW r \in Robots, Routed(t), SameRoutes(t, u)
  PROVE  Keeps(t, u, r)
BY DEF Routed, SameRoutes, Keeps, Placed

LEMMA KeepsButFor ==
  ASSUME NEW t, NEW u \in StateType, NEW r \in Robots, Routed(t), ButFor(t, u, r),
         Walk(u.cell[r], u.path[r]), u.leg[r] # 0 => u.job[r] \in Jobs
  PROVE  Keeps(t, u, r)
<1>1. Routed(u)
  BY DEF Routed, ButFor
<1> QED
  BY <1>1 DEF ButFor, Keeps, Placed

LEMMA KeepsSelf ==
  ASSUME NEW t, NEW r \in Robots, Routed(t) PROVE Keeps(t, t, r)
BY DEF Keeps, Placed

LEMMA KeepsOn ==
  ASSUME NEW t, NEW u, NEW v, NEW r \in Robots, Keeps(t, u, r), Keeps(u, v, r)
  PROVE  Keeps(t, v, r)
<1>1. Occupied(u, r) = Occupied(t, r)
  BY DEF Keeps, Placed, Occupied
<1> QED
  BY <1>1 DEF Keeps, Placed

LEMMA CounterTypes ==
  /\ 0 \in 0..MaxBlocked /\ 0 \in 0..(Cooldown + 1) /\ 1 \in 0..(Cooldown + 1)
  /\ Cooldown \in 0..(Cooldown + 1) /\ {0, 1, 2} = 0..2
  /\ NoJob \in Jobs \union {NoJob} /\ <<>> \in Seq(Open)
  /\ \A k \in 0..MaxBlocked : Least(k + 1, MaxBlocked) \in 0..MaxBlocked
  /\ \A k \in 0..(Cooldown + 1) : (IF k > 0 THEN k - 1 ELSE 0) \in 0..(Cooldown + 1)
BY TrafficAssumption DEF Least

LEMMA CellsAndJobs ==
  /\ Open \subseteq Nat \X Nat /\ Depots \subseteq Open /\ Bays \subseteq Open
  /\ Nowhere \notin Open
  /\ \A j \in Jobs : j[1] \in Open /\ j[2] \in Open
<1>1. /\ Open \subseteq Nat \X Nat /\ Depots \subseteq Open /\ Bays \subseteq Open
      /\ Jobs \subseteq Open \X Open \X Nat
  BY TrafficAssumption
<1>2. Nowhere \notin Nat \X Nat
  BY DEF Nowhere
<1> QED
  BY <1>1, <1>2

LEMMA EmptyWalk == ASSUME NEW c PROVE Walk(c, <<>>)
BY DEF Walk

\* Taking the first step of a walk leaves a walk.
LEMMA WalkOn ==
  ASSUME NEW c, NEW p, Walk(c, p), p # <<>>
  PROVE  /\ Head(p) \in Open /\ Head(p) = p[1] /\ Adjacent(c, Head(p))
         /\ Walk(Head(p), Tail(p))
<1>1. p \in Seq(Open) /\ 1 \in DOMAIN p /\ Head(p) = p[1] /\ Head(p) \in Open
  BY DEF Walk
<1>2. Adjacent(c, Head(p))
  BY <1>1 DEF Walk
<1>3. Tail(p) \in Seq(Open) /\ Len(Tail(p)) = Len(p) - 1
  BY <1>1
<1>4. ASSUME NEW i \in DOMAIN Tail(p)
      PROVE  Adjacent(IF i = 1 THEN Head(p) ELSE Tail(p)[i - 1], Tail(p)[i])
  <2>1. i \in 1..(Len(p) - 1) /\ Len(p) \in Nat
    BY <1>1, <1>3
  <2>2. i + 1 \in DOMAIN p /\ i + 1 # 1 /\ (i + 1) - 1 = i
    BY <1>1, <2>1
  <2>3. Adjacent(p[i], p[i + 1])
    BY <2>2 DEF Walk
  <2>4. Tail(p)[i] = p[i + 1]
    BY <1>1, <2>1
  <2>5. i # 1 => Tail(p)[i - 1] = p[i]
    BY <1>1, <2>1
  <2> QED
    BY <1>1, <2>3, <2>4, <2>5
<1> QED
  BY <1>1, <1>2, <1>3, <1>4 DEF Walk

\* The cells that other robots stand on or are about to enter.
LEMMA CellsInUse ==
  ASSUME NEW t, Routed(t), NEW r
  PROVE  Occupied(t, r) \subseteq Open /\ Claimed(t, r) \subseteq Open
<1>1. Occupied(t, r) \subseteq Open
  BY DEF Routed, StateType, Occupied
<1>2. ASSUME NEW q \in Robots, t.path[q] # <<>> PROVE t.path[q][1] \in Open
  BY <1>2, WalkOn DEF Routed
<1> QED
  BY <1>1, <1>2 DEF Claimed

\* A route planned around the robots, or through them.
LEMMA RouteAroundWalks ==
  ASSUME PlannerWalks, NEW t, Routed(t), NEW r \in Robots, NEW to \in Open
  PROVE  /\ Walk(t.cell[r], RouteAround(t, r, to))
         /\ RouteAround(t, r, to) \in Seq(Open)
<1>1. t.cell[r] \in Open /\ Occupied(t, r) \in SUBSET Open /\ {} \in SUBSET Open
  BY CellsInUse DEF Routed, StateType
<1>2. \A blocked \in SUBSET Open :
        LET p == Route(t.cell[r], to, blocked)
        IN  IF p = NoPath THEN blocked # {} ELSE Walk(t.cell[r], p)
  BY <1>1 DEF PlannerWalks
<1>3. Walk(t.cell[r], Route(t.cell[r], to, {}))
  BY <1>1, <1>2
<1>4. LET p == Route(t.cell[r], to, Occupied(t, r)) IN p # NoPath => Walk(t.cell[r], p)
  BY <1>1, <1>2
<1>5. Walk(t.cell[r], RouteAround(t, r, to))
  BY <1>3, <1>4 DEF RouteAround
<1> QED
  BY <1>5 DEF Walk

-----------------------------------------------------------------------------
(* An escape is a free neighbour.                                          *)

\* Some index has the least key: the first one of those with the least two.
LEMMA ForemostIsOne ==
  ASSUME NEW I \in SUBSET (1..4), I # {}, NEW key \in [I -> Int \X Int]
  PROVE  Foremost(I, key) \in I
<1> DEFINE Less(i, j) == \/ key[i][1] < key[j][1]
                         \/ key[i][1] = key[j][1] /\ key[i][2] < key[j][2]
                         \/ key[i] = key[j] /\ i < j
           Least4(n) == \E i \in I : i <= n /\ \A j \in I : j <= n /\ j # i => Less(i, j)
<1>1. \A i \in I : i \in 1..4 /\ key[i] = <<key[i][1], key[i][2]>>
                   /\ key[i][1] \in Int /\ key[i][2] \in Int
  OBVIOUS
<1>2. \A i, j \in I : i # j => Less(i, j) \/ Less(j, i)
  BY <1>1
<1>3. \A i, j, k \in I : Less(i, j) /\ Less(j, k) => Less(i, k)
  BY <1>1
<1> HIDE DEF Less
<1>4. ASSUME NEW n \in 0..3, Least4(n) \/ \A i \in I : i > n
      PROVE  Least4(n + 1) \/ \A i \in I : i > n + 1
  <2>1. CASE n + 1 \notin I
    <3>1. \A i \in I : i <= n + 1 <=> i <= n
      BY <1>1, <2>1
    <3> QED
      BY <1>1, <1>4, <3>1
  <2>2. CASE n + 1 \in I /\ \A i \in I : i > n
    <3>1. \A j \in I : j <= n + 1 => j = n + 1
      BY <1>1, <2>2
    <3> QED
      BY <2>2, <3>1
  <2>3. CASE n + 1 \in I /\ Least4(n)
    <3>1. PICK i \in I : i <= n /\ \A j \in I : j <= n /\ j # i => Less(i, j)
      BY <2>3
    <3>2. \A j \in I : j <= n + 1 => j <= n \/ j = n + 1
      BY <1>1
    <3>3. CASE Less(i, n + 1)
      <4>1. i <= n + 1
        BY <1>1, <3>1
      <4> QED
        BY <3>1, <3>2, <3>3, <4>1
    <3>4. CASE Less(n + 1, i)
      <4>1. \A j \in I : j <= n + 1 /\ j # n + 1 => Less(n + 1, j)
        BY <1>3, <2>3, <3>1, <3>2, <3>4
      <4> QED
        BY <2>3, <4>1
    <3>5. i # n + 1
      BY <1>1, <3>1
    <3> QED
      BY <1>2, <2>3, <3>3, <3>4, <3>5
  <2> QED
    BY <1>4, <2>1, <2>2, <2>3
<1>5. \A i \in I : i > 0
  BY <1>1
<1>6. Least4(1) \/ \A i \in I : i > 1
  BY <1>4, <1>5
<1>7. Least4(2) \/ \A i \in I : i > 2
  BY <1>4, <1>6
<1>8. Least4(3) \/ \A i \in I : i > 3
  BY <1>4, <1>7
<1>9. Least4(4) \/ \A i \in I : i > 4
  BY <1>4, <1>8
<1>10. \A i \in I : i <= 4 /\ ~(i > 4)
  BY <1>1
<1>11. \E i \in I : \A j \in I \ {i} : Less(i, j)
  <2>1. Least4(4)
    BY <1>9, <1>10
  <2> QED
    BY <1>10, <2>1
<1> QED
  BY <1>11 DEF Foremost, Less

LEMMA DistanceIsInt ==
  ASSUME NEW a \in Int \X Int, NEW b \in Int \X Int
  PROVE  Manhattan(a, b) \in Int
BY DEF Manhattan, AbsDiff

LEMMA AroundIsAdjacent ==
  ASSUME NEW c \in Nat \X Nat, NEW i \in 1..4
  PROVE  Around(c)[i] \in Int \X Int /\ Adjacent(c, Around(c)[i])
<1>1. c[1] \in Nat /\ c[2] \in Nat
  OBVIOUS
<1>2. CASE i = 1
  BY <1>1, <1>2 DEF Around, Adjacent, Manhattan, AbsDiff
<1>3. CASE i = 2
  BY <1>1, <1>3 DEF Around, Adjacent, Manhattan, AbsDiff
<1>4. CASE i = 3
  BY <1>1, <1>4 DEF Around, Adjacent, Manhattan, AbsDiff
<1>5. CASE i = 4
  BY <1>1, <1>5 DEF Around, Adjacent, Manhattan, AbsDiff
<1> QED
  BY <1>2, <1>3, <1>4, <1>5

LEMMA EscapeIsFree ==
  ASSUME NEW t, Routed(t), NEW r \in Robots, NEW b \in Robots, NEW occupied, NEW hint
  PROVE  \/ YieldStep(t, r, b, occupied, hint) = Nowhere
         \/ /\ YieldStep(t, r, b, occupied, hint) \in Open
            /\ Adjacent(t.cell[r], YieldStep(t, r, b, occupied, hint))
<1> DEFINE around  == Around(t.cell[r])
           blocked == (occupied \union Claimed(t, r)) \ {t.cell[r]}
           safe    == {i \in 1..4 : around[i] \in Open \ blocked}
           goal    == t.goal[r]
           onward  == IF goal \in blocked \union {Nowhere, t.cell[r]} THEN {}
                      ELSE {i \in safe : Route(around[i], goal, blocked \ {around[i]}) # NoPath}
           ahead(i) == IF goal = Nowhere THEN 0 ELSE Manhattan(around[i], goal)
           away(i)  == Manhattan(around[i], t.cell[b])
           key1 == [i \in onward |-> <<ahead(i), 0>>]
           key2 == [i \in safe |-> <<ahead(i), -away(i)>>]
<1>1. YieldStep(t, r, b, occupied, hint) =
        IF safe = {} THEN Nowhere
        ELSE IF onward # {} THEN around[Foremost(onward, key1)]
        ELSE IF \E i \in safe : around[i] = hint THEN hint
        ELSE around[Foremost(safe, key2)]
  BY DEF YieldStep
<1>2. /\ t.cell[r] \in Nat \X Nat /\ t.cell[b] \in Int \X Int
      /\ goal # Nowhere => goal \in Int \X Int
  BY CellsAndJobs DEF Routed, StateType
<1>3. safe \in SUBSET (1..4) /\ onward \in SUBSET safe
  OBVIOUS
<1>4. \A i \in safe : around[i] \in Open /\ Adjacent(t.cell[r], around[i])
  BY <1>2, AroundIsAdjacent
<1>5. \A i \in safe : ahead(i) \in Int /\ away(i) \in Int
  BY <1>2, AroundIsAdjacent, DistanceIsInt
<1>6. key1 \in [onward -> Int \X Int] /\ key2 \in [safe -> Int \X Int]
  <2> HIDE DEF safe, onward, ahead, away
  <2> QED
    BY <1>3, <1>5
<1> HIDE DEF safe, onward, key1, key2, around
<1>7. onward # {} => Foremost(onward, key1) \in safe
  BY <1>3, <1>6, ForemostIsOne
<1>8. safe # {} => Foremost(safe, key2) \in safe
  BY <1>3, <1>6, ForemostIsOne
<1> QED
  BY <1>1, <1>4, <1>7, <1>8

-----------------------------------------------------------------------------
(* Handlers keep types and walks, and move nobody but by putting it down.  *)

LEMMA RecordsAreNoRoutes ==
  ASSUME NEW t, Routed(t), NEW r \in Robots, NEW q \in Robots, NEW p
  PROVE  /\ Keeps(t, Clear(t, r), q) /\ SameRoutes(t, Clear(t, r))
         /\ Keeps(t, Release(t, r), q) /\ SameRoutes(t, Release(t, r))
         /\ Keeps(t, Stuck(t, r), q) /\ SameRoutes(t, Stuck(t, r))
         /\ Keeps(t, Drop(t, p), q)
<1>1. t \in StateType
  BY DEF Routed
<1>2. Clear(t, r) \in StateType /\ SameRoutes(t, Clear(t, r))
  BY <1>1 DEF Clear, StateType, SameRoutes
<1>3. Release(t, r) \in StateType /\ SameRoutes(t, Release(t, r))
  BY <1>1 DEF Release, StateType, SameRoutes
<1>4. Stuck(t, r) \in StateType /\ SameRoutes(t, Stuck(t, r))
  BY <1>1, CounterTypes DEF Stuck, StateType, SameRoutes
<1>5. Drop(t, p) \in StateType /\ SameRoutes(t, Drop(t, p))
  BY <1>1 DEF Drop, StateType, SameRoutes
<1> QED
  BY <1>2, <1>3, <1>4, <1>5, KeepsSame

\* A robot is put down in a free cell.
LEMMA PutDownKeeps ==
  ASSUME NEW t, Routed(t), NEW r \in Robots, NEW c \in Open \ Occupied(t, r)
  PROVE  Keeps(t, PutDown(t, r, c), r)
<1> DEFINE u == PutDown(t, r, c)
<1>1. t \in StateType /\ (stage = "move") \in BOOLEAN
  BY DEF Routed
<1>2. /\ u \in StateType
      /\ \A q \in Robots \ {r} : u.cell[q] = t.cell[q] /\ u.path[q] = t.path[q]
      /\ u.cell[r] = c /\ u.path[r] = <<>>
      /\ u.leg = t.leg /\ u.job = t.job /\ u.seen = t.seen
      /\ u.stray = (t.stray \/ stage = "move")
  BY <1>1, CounterTypes DEF PutDown, StateType
<1> HIDE DEF u
<1>3. Walk(u.cell[r], u.path[r])
  BY <1>2, EmptyWalk
<1>4. Routed(u)
  BY <1>2, <1>3 DEF Routed
<1>5. Placed(t, u, r)
  BY <1>2 DEF Placed
<1> QED
  BY <1>4, <1>5 DEF Keeps, u

LEMMA OffChargerKeeps ==
  ASSUME NEW t, Routed(t), NEW r \in Robots
  PROVE  Keeps(t, OffCharger(t, r), r)
<1> DEFINE free == (Open \ Depots) \ Occupied(t, r)
           c == Closest(t.cell[r], free)
<1>1. OffCharger(t, r) = IF t.cell[r] \in Depots /\ free # {} THEN PutDown(t, r, c) ELSE t
  BY DEF OffCharger
<1>2. t.cell[r] \in Open /\ free \in SUBSET Open
  BY DEF Routed, StateType
<1>3. free # {} => c \in free
  BY <1>2, NearestAssumption
<1> HIDE DEF c
<1> QED
  BY <1>1, <1>3, PutDownKeeps, KeepsSelf

LEMMA TowKeeps ==
  ASSUME NEW t, Routed(t), NEW r \in Robots
  PROVE  Keeps(t, Tow(t, r), r)
<1> DEFINE free == Bays \ Occupied(t, r)
           c == Closest(t.cell[r], free)
<1>1. Tow(t, r) = IF free # {} THEN PutDown(t, r, c) ELSE t
  BY DEF Tow
<1>2. t.cell[r] \in Open /\ free \in SUBSET Open
  BY CellsAndJobs DEF Routed, StateType
<1>3. free # {} => c \in free
  BY <1>2, NearestAssumption
<1>4. c \in free => c \in Open \ Occupied(t, r)
  BY <1>2
<1> HIDE DEF c
<1> QED
  BY <1>1, <1>3, <1>4, PutDownKeeps, KeepsSelf

LEMMA EnterWaitingKeeps ==
  ASSUME NEW t, Routed(t), NEW r \in Robots
  PROVE  Keeps(t, EnterWaiting(t, r), r)
<1> DEFINE u == [t EXCEPT !.mode[r] = "WAITING", !.goal[r] = Nowhere]
<1>1. u \in StateType /\ SameRoutes(t, u)
  BY DEF Routed, StateType, Modes, SameRoutes
<1>2. EnterWaiting(t, r) = OffCharger(u, r)
  BY DEF EnterWaiting
<1> HIDE DEF u
<1>3. Keeps(t, u, r)
  BY <1>1, KeepsSame
<1>4. Keeps(u, OffCharger(u, r), r)
  BY <1>3, OffChargerKeeps DEF Keeps
<1> QED
  BY <1>2, <1>3, <1>4, KeepsOn

LEMMA ChargingArrivalKeeps ==
  ASSUME NEW t, Routed(t), NEW r \in Robots, NEW slot
  PROVE  Keeps(t, ChargingArrival(t, r, slot), r)
<1> DEFINE u == [t EXCEPT !.path[r] = <<>>]
           v == [u EXCEPT !.mode[r] = "STILL"]
<1>1. /\ u \in StateType /\ ButFor(t, u, r)
      /\ u.path[r] = <<>> /\ u.leg = t.leg /\ u.job = t.job
  BY CounterTypes DEF Routed, StateType, ButFor
<1>2. \/ ChargingArrival(t, r, slot) = EnterWaiting(u, r)
      \/ ChargingArrival(t, r, slot) = v
  BY DEF ChargingArrival
<1> HIDE DEF u
<1>3. Keeps(t, u, r)
  BY <1>1, EmptyWalk, KeepsButFor DEF Routed
<1>4. v \in StateType /\ SameRoutes(u, v)
  BY <1>1 DEF StateType, Modes, SameRoutes
<1> HIDE DEF v
<1>5. Keeps(u, v, r) /\ Keeps(u, EnterWaiting(u, r), r)
  BY <1>3, <1>4, KeepsSame, EnterWaitingKeeps DEF Keeps
<1> QED
  BY <1>2, <1>3, <1>5, KeepsOn

LEMMA SettleKeeps ==
  ASSUME NEW t, Routed(t), NEW r \in Robots, NEW mode \in Modes
  PROVE  Keeps(t, Clear(Settle(t, r, mode), r), r)
<1> DEFINE u == Settle(t, r, mode)
<1>1. t \in StateType
  BY DEF Routed
<1>2. u \in StateType
  BY <1>1, CounterTypes DEF Settle, StateType
<1>3. ButFor(t, u, r) /\ u.path[r] = <<>> /\ u.leg[r] = 0
  BY <1>1 DEF Settle, StateType, ButFor
<1> HIDE DEF u
<1>4. Keeps(t, u, r)
  BY <1>2, <1>3, EmptyWalk, KeepsButFor
<1>5. Keeps(u, Clear(u, r), r)
  BY <1>4, RecordsAreNoRoutes DEF Keeps
<1>6. Keeps(t, Clear(u, r), r)
  BY <1>4, <1>5, KeepsOn
<1> QED
  BY <1>6 DEF u

LEMMA SetOffKeeps ==
  ASSUME PlannerWalks, NEW t, Routed(t), NEW r \in Robots, NEW to \in Open,
         NEW mode \in Modes
  PROVE  Keeps(t, SetOff(t, r, to, mode), r)
<1> DEFINE p == RouteAround(t, r, to)
           u == [t EXCEPT !.goal[r] = to, !.mode[r] = mode, !.path[r] = p,
                          !.replan[r] = FALSE, !.yields[r] = NoRobot]
<1>1. p \in Seq(Open) /\ Walk(t.cell[r], p)
  BY RouteAroundWalks
<1>2. SetOff(t, r, to, mode) = u
  BY DEF SetOff
<1> HIDE DEF p
<1>3. /\ u \in StateType /\ ButFor(t, u, r)
      /\ u.path[r] = p /\ u.leg = t.leg /\ u.job = t.job /\ u.cell = t.cell
  BY <1>1 DEF Routed, StateType, ButFor
<1> HIDE DEF u
<1> QED
  BY <1>1, <1>2, <1>3, KeepsButFor DEF Routed

LEMMA RouteToCellKeeps ==
  ASSUME PlannerWalks, NEW t, Routed(t), NEW r \in Robots, NEW depot \in Open
  PROVE  Keeps(t, RouteToCell(t, r, depot), r)
<1> DEFINE u == SetOff(t, r, depot, "TO_CHARGER")
           v == Clear(u, r)
<1>1. Keeps(t, u, r)
  BY SetOffKeeps DEF Modes
<1>2. RouteToCell(t, r, depot) \in {u, ChargingArrival(v, r, TRUE)}
  BY DEF RouteToCell
<1> HIDE DEF u
<1>3. Keeps(u, v, r)
  BY <1>1, RecordsAreNoRoutes DEF Keeps
<1> HIDE DEF v
<1>4. Keeps(v, ChargingArrival(v, r, TRUE), r)
  BY <1>3, ChargingArrivalKeeps DEF Keeps
<1> QED
  BY <1>1, <1>2, <1>3, <1>4, KeepsOn

LEMMA InterruptKeeps ==
  ASSUME PlannerWalks, NEW t, Routed(t), NEW r \in Robots, NEW depot
  PROVE  Keeps(t, Interrupt(t, r, depot), r)
<1> DEFINE u == Clear(Settle(t, r, "WAITING"), r)
<1>1. Keeps(t, u, r)
  BY SettleKeeps DEF Modes
<1>2. Interrupt(t, r, depot) =
        IF depot \in FreeDepots(t, r) THEN RouteToCell(u, r, depot) ELSE OffCharger(u, r)
  BY DEF Interrupt
<1> HIDE DEF u
<1>3. depot \in FreeDepots(t, r) => depot \in Open
  BY CellsAndJobs DEF FreeDepots
<1>4. Routed(u)
  BY <1>1 DEF Keeps
<1>5. /\ depot \in FreeDepots(t, r) => Keeps(u, RouteToCell(u, r, depot), r)
      /\ Keeps(u, OffCharger(u, r), r)
  BY <1>3, <1>4, RouteToCellKeeps, OffChargerKeeps
<1> QED
  BY <1>1, <1>2, <1>5, KeepsOn

LEMMA BreakdownKeeps ==
  ASSUME NEW t, Routed(t), NEW r \in Robots
  PROVE  Keeps(t, Breakdown(t, r), r)
<1> DEFINE w == Clear(Settle(t, r, "STILL"), r)
           u == Tow(w, r)
           v == [u EXCEPT !.claims = {x \in u.claims : x[3] # r}]
<1>1. Keeps(t, w, r) /\ Breakdown(t, r) = v
  BY SettleKeeps DEF Breakdown, Modes
<1> HIDE DEF w
<1>2. Keeps(w, u, r)
  BY <1>1, TowKeeps DEF Keeps
<1>3. Keeps(t, u, r)
  BY <1>1, <1>2, KeepsOn
<1> HIDE DEF u
<1>4. v \in StateType /\ SameRoutes(u, v)
  BY <1>3 DEF Keeps, Routed, StateType, SameRoutes
<1> HIDE DEF v
<1>5. Keeps(u, v, r)
  BY <1>3, <1>4, KeepsSame DEF Keeps
<1> QED
  BY <1>1, <1>3, <1>5, KeepsOn

LEMMA CheckKeeps ==
  ASSUME PlannerWalks, NEW t, Routed(t), NEW r \in Robots, NEW fate
  PROVE  Keeps(t, Check(t, r, fate), r)
BY InterruptKeeps, BreakdownKeeps, KeepsSelf DEF Check

LEMMA SetRouteKeeps ==
  ASSUME NEW t, Routed(t), NEW r \in Robots, NEW p, Walk(t.cell[r], p)
  PROVE  Keeps(t, SetRoute(t, r, p), r)
<1> DEFINE u == SetRoute(t, r, p)
<1>1. p \in Seq(Open)
  BY DEF Walk
<1>2. /\ u \in StateType /\ ButFor(t, u, r) /\ u.cell = t.cell
      /\ u.path[r] = p /\ u.leg = t.leg /\ u.job = t.job
  BY <1>1 DEF Routed, SetRoute, StateType, ButFor
<1> HIDE DEF u
<1>3. Keeps(t, u, r)
  BY <1>2, KeepsButFor DEF Routed
<1> QED
  BY <1>3 DEF u

LEMMA DeliverKeeps ==
  ASSUME NEW t, Routed(t), NEW r \in Robots
  PROVE  Keeps(t, Deliver(t, r), r)
<1> DEFINE u == [t EXCEPT !.leg[r] = 0, !.job[r] = NoJob, !.goal[r] = Nowhere,
                          !.mode[r] = "IDLE", !.blocked[r] = 0, !.cool[r] = 0,
                          !.path[r] = <<>>]
<1>1. /\ u \in StateType /\ ButFor(t, u, r)
      /\ u.path[r] = <<>> /\ u.leg[r] = 0
  BY CounterTypes DEF Routed, StateType, Modes, ButFor
<1>2. Deliver(t, r) = Clear(u, r)
  BY DEF Deliver
<1> HIDE DEF u
<1>3. Keeps(t, u, r)
  BY <1>1, EmptyWalk, KeepsButFor
<1>4. Keeps(u, Clear(u, r), r)
  BY <1>3, RecordsAreNoRoutes DEF Keeps
<1> QED
  BY <1>2, <1>3, <1>4, KeepsOn

LEMMA ArriveKeeps ==
  ASSUME PlannerWalks, NEW t, Routed(t), NEW r \in Robots, NEW fate
  PROVE  Keeps(t, Arrive(t, r, fate), r)
<1> DEFINE d == Clear(t, r)
           e == [d EXCEPT !.leg[r] = 2, !.blocked[r] = 0, !.mode[r] = "MOVING"]
           u == Check(e, r, fate)
           goal == u.job[r][2]
           w == [u EXCEPT !.goal[r] = goal]
           p == RouteAround(u, r, goal)
           v == SetRoute(w, r, p)
           mode == IF d.mode[r] \in {"WAITING", "STILL"} THEN d.mode[r] ELSE "IDLE"
           there == [d EXCEPT !.path[r] = <<>>, !.goal[r] = Nowhere, !.mode[r] = mode]
<1>1. Keeps(t, d, r) /\ Routed(d) /\ d.leg = t.leg
  BY RecordsAreNoRoutes DEF SameRoutes, Keeps
<1>2. \/ Arrive(t, r, fate) = ChargingArrival(d, r, fate # Nowhere)
      \/ Arrive(t, r, fate) = there
      \/ /\ t.leg[r] = 1
         /\ Arrive(t, r, fate) =
              IF u.leg[r] = 0 THEN u ELSE IF p = <<>> THEN Deliver(v, r) ELSE v
      \/ Arrive(t, r, fate) = Deliver(d, r)
  <2>1. d.mode \in [Robots -> Modes]
    BY <1>1 DEF Routed, StateType
  <2>2. [d EXCEPT !.path[r] = <<>>, !.goal[r] = Nowhere,
                  !.mode[r] = IF @ \in {"WAITING", "STILL"} THEN @ ELSE "IDLE"] = there
    BY <1>1, <2>1 DEF Routed, StateType
  <2> HIDE DEF there, e, u, v, w, p, goal, mode
  <2>3. Arrive(t, r, fate) =
          CASE t.leg[r] = 0 /\ t.goal[r] \in Depots -> ChargingArrival(d, r, fate # Nowhere)
            [] t.leg[r] = 0 /\ t.goal[r] \notin Depots -> there
            [] t.leg[r] = 1 -> IF u.leg[r] = 0 THEN u ELSE IF p = <<>> THEN Deliver(v, r) ELSE v
            [] OTHER -> Deliver(d, r)
    BY <2>2 DEF Arrive, d, e, u, v, w, p, goal
  <2> HIDE DEF d
  <2> QED
    BY <2>3
<1> HIDE DEF d
<1>3. mode \in Modes
  BY <1>1 DEF Routed, StateType, Modes
<1> HIDE DEF mode
<1>4. Keeps(d, there, r)
  <2>1. /\ there \in StateType /\ ButFor(d, there, r)
        /\ there.path[r] = <<>> /\ there.leg = d.leg /\ there.job = d.job
    BY <1>1, <1>3, CounterTypes DEF Routed, StateType, ButFor
  <2> HIDE DEF there
  <2> QED
    BY <1>1, <2>1, EmptyWalk, KeepsButFor DEF Routed
<1>5. ASSUME t.leg[r] = 1 PROVE Keeps(d, e, r)
  <2>1. /\ e \in StateType /\ ButFor(d, e, r)
        /\ e.cell = d.cell /\ e.path = d.path /\ e.job = d.job
    BY <1>1, CounterTypes DEF Routed, StateType, Modes, ButFor
  <2> HIDE DEF e
  <2> QED
    BY <1>1, <1>5, <2>1, KeepsButFor DEF Routed
<1> HIDE DEF e, there
<1>6. ASSUME t.leg[r] = 1 PROVE Keeps(d, u, r)
  <2>1. Keeps(e, u, r)
    BY <1>5, <1>6, CheckKeeps DEF Keeps
  <2> QED
    BY <1>5, <1>6, <2>1, KeepsOn
<1> HIDE DEF u
<1>7. ASSUME t.leg[r] = 1, u.leg[r] # 0 PROVE Keeps(d, v, r)
  <2>1. Routed(u) /\ goal \in Open
    BY <1>6, <1>7, CellsAndJobs DEF Routed, Keeps
  <2> HIDE DEF goal
  <2>2. Walk(u.cell[r], p)
    BY <2>1, RouteAroundWalks
  <2>3. w \in StateType /\ SameRoutes(u, w)
    BY <2>1 DEF Routed, StateType, SameRoutes
  <2> HIDE DEF w, p
  <2>4. Keeps(u, w, r)
    BY <2>1, <2>3, KeepsSame
  <2>5. Keeps(w, v, r)
    BY <2>2, <2>3, <2>4, SetRouteKeeps DEF SameRoutes, Keeps
  <2> QED
    BY <1>6, <1>7, <2>4, <2>5, KeepsOn
<1> HIDE DEF v, p
<1>8. ASSUME t.leg[r] = 1, u.leg[r] # 0 PROVE Keeps(d, Deliver(v, r), r)
  <2>1. Keeps(v, Deliver(v, r), r)
    BY <1>7, <1>8, DeliverKeeps DEF Keeps
  <2> QED
    BY <1>7, <1>8, <2>1, KeepsOn
<1>9. Keeps(d, ChargingArrival(d, r, fate # Nowhere), r) /\ Keeps(d, Deliver(d, r), r)
  BY <1>1, ChargingArrivalKeeps, DeliverKeeps
<1>10. Keeps(d, Arrive(t, r, fate), r)
  BY <1>2, <1>4, <1>6, <1>7, <1>8, <1>9
<1> QED
  BY <1>1, <1>10, KeepsOn

LEMMA ResumeKeeps ==
  ASSUME PlannerWalks, NEW t, Routed(t), NEW r \in Robots, NEW fate
  PROVE  Keeps(t, Resume(t, r, fate), r)
<1> DEFINE occ   == Occupied(t, r)
           taken == Claimed(t, r)
           wide  == Route(t.cell[r], t.goal[r], (occ \union taken) \ {t.cell[r]})
           near  == Route(t.cell[r], t.goal[r], occ)
           p     == IF (wide = NoPath \/ wide[1] \in taken) /\ near # NoPath THEN near ELSE wide
           u     == SetRoute(t, r, p)
           v     == [u EXCEPT !.blocked[r] = 0]
<1>1. Resume(t, r, fate) =
        IF t.goal[r] = Nowhere THEN t
        ELSE IF t.cell[r] = t.goal[r] THEN Arrive(t, r, fate)
        ELSE IF p = NoPath \/ p[1] \in occ \union taken THEN t
        ELSE Check(v, r, fate)
  BY DEF Resume
<1>2. Keeps(t, Arrive(t, r, fate), r) /\ Keeps(t, t, r)
  BY ArriveKeeps, KeepsSelf
<1>3. ASSUME t.goal[r] # Nowhere, p # NoPath PROVE Keeps(t, Check(v, r, fate), r)
  <2>1. t.cell[r] \in Open /\ t.goal[r] \in Open
    BY <1>3 DEF Routed, StateType
  <2>2. occ \in SUBSET Open /\ (occ \union taken) \ {t.cell[r]} \in SUBSET Open
    BY CellsInUse
  <2>3. \A blocked \in SUBSET Open :
          LET q == Route(t.cell[r], t.goal[r], blocked)
          IN  IF q = NoPath THEN blocked # {} ELSE Walk(t.cell[r], q)
    BY <2>1 DEF PlannerWalks
  <2>4. Walk(t.cell[r], p)
    BY <1>3, <2>2, <2>3
  <2> HIDE DEF p
  <2>5. Keeps(t, u, r)
    BY <2>4, SetRouteKeeps
  <2> HIDE DEF u
  <2>6. v \in StateType /\ SameRoutes(u, v)
    BY <2>5, CounterTypes DEF Keeps, Routed, StateType, SameRoutes
  <2> HIDE DEF v
  <2>7. Keeps(u, v, r)
    BY <2>5, <2>6, KeepsSame DEF Keeps
  <2>8. Keeps(v, Check(v, r, fate), r)
    BY <2>7, CheckKeeps DEF Keeps
  <2> QED
    BY <2>5, <2>7, <2>8, KeepsOn
<1> HIDE DEF p, v, occ, taken
<1> QED
  BY <1>1, <1>2, <1>3

\* Robot r goes to the first cell of its path, which the movement loop takes to be
\* free, and the loop notices.
Goes(t, u, r) ==
  /\ t.path[r] # <<>> /\ t.path[r][1] \notin t.seen
  /\ u.cell = [t.cell EXCEPT ![r] = t.path[r][1]]
  /\ u.seen = (t.seen \ {t.cell[r]}) \union {t.path[r][1]}
  /\ u.stray = t.stray

LEMMA StepRouted ==
  ASSUME NEW t, Routed(t), NEW r \in Robots, t.path[r] # <<>>, t.path[r][1] \notin t.seen
  PROVE  Routed(Step(t, r)) /\ Goes(t, Step(t, r), r)
<1> DEFINE c == Head(t.path[r])
           rest == Tail(t.path[r])
           seen == (t.seen \ {t.cell[r]}) \union {c}
           u == [t EXCEPT !.cell[r] = c, !.path[r] = rest, !.blocked[r] = 0, !.seen = seen]
<1>1. c \in Open /\ c = t.path[r][1] /\ Walk(c, rest) /\ rest \in Seq(Open)
  <2>1. Walk(t.cell[r], t.path[r])
    BY DEF Routed
  <2>2. c \in Open /\ c = t.path[r][1] /\ Walk(c, rest)
    BY <2>1, WalkOn
  <2> QED
    BY <2>2 DEF Walk
<1>2. Step(t, r) = Release(u, r)
  BY DEF Step, Routed, StateType
<1>3. seen \in SUBSET Open
  BY <1>1 DEF Routed, StateType
<1> HIDE DEF c, rest, seen
<1>4. /\ u \in StateType
      /\ u.cell = [t.cell EXCEPT ![r] = c] /\ u.path = [t.path EXCEPT ![r] = rest]
      /\ u.seen = seen /\ u.stray = t.stray /\ u.leg = t.leg /\ u.job = t.job
  BY <1>1, <1>3, CounterTypes DEF Routed, StateType
<1> HIDE DEF u
<1>5. Routed(u)
  <2>1. \A q \in Robots \ {r} : u.cell[q] = t.cell[q] /\ u.path[q] = t.path[q]
    BY <1>4 DEF Routed, StateType
  <2>2. u.cell[r] = c /\ u.path[r] = rest
    BY <1>4 DEF Routed, StateType
  <2>3. Walk(u.cell[r], u.path[r])
    BY <1>1, <2>2
  <2> QED
    BY <1>4, <2>1, <2>3 DEF Routed
<1>6. Routed(Release(u, r)) /\ SameRoutes(u, Release(u, r))
  BY <1>5, RecordsAreNoRoutes DEF Keeps
<1> QED
  BY <1>1, <1>2, <1>4, <1>6 DEF SameRoutes, Goes, seen

\* The path of a robot that makes room is the one step of its escape.
LEMMA EscapeKeeps ==
  ASSUME NEW t, Routed(t), NEW r \in Robots, NEW u \in StateType, NEW step \in Open,
         Adjacent(t.cell[r], step), u.cell = t.cell, u.leg = t.leg, u.job = t.job,
         u.seen = t.seen, u.stray = t.stray, u.path = [t.path EXCEPT ![r] = <<step>>]
  PROVE  Keeps(t, u, r)
<1>1. Walk(t.cell[r], <<step>>)
  BY DEF Walk
<1>2. ButFor(t, u, r) /\ u.path[r] = <<step>>
  BY DEF Routed, StateType, ButFor
<1> QED
  BY <1>1, <1>2, KeepsButFor DEF Routed

LEMMA MakeYieldKeeps ==
  ASSUME PlannerWalks, NEW t, Routed(t), NEW r \in Robots, NEW b \in Robots, NEW hint, NEW fate
  PROVE  Keeps(t, MakeYield(t, r, b, hint, fate), r)
<1> DEFINE step == YieldStep(t, r, b, Occupied(t, r), hint)
           u == [t EXCEPT !.cool[r] = 1]
           v == [t EXCEPT !.pairs[{r, b}] = r, !.replan[r] = TRUE, !.yields[r] = b,
                          !.path[r] = <<step>>, !.blocked[r] = 0, !.cool[r] = Cooldown]
<1>1. MakeYield(t, r, b, hint, fate) =
        IF ~CanYield(t, r) THEN t ELSE IF step = Nowhere THEN u ELSE Check(v, r, fate)
  BY DEF MakeYield
<1>2. u \in StateType /\ SameRoutes(t, u)
  BY CounterTypes DEF Routed, StateType, SameRoutes
<1>3. step # Nowhere => step \in Open /\ Adjacent(t.cell[r], step)
  BY EscapeIsFree
<1> HIDE DEF step, u
<1>4. ASSUME step # Nowhere PROVE Keeps(t, v, r)
  <2> DEFINE p == <<step>>
  <2>1. p \in Seq(Open) /\ t \in StateType
    BY <1>3, <1>4 DEF Routed
  <2> HIDE DEF p
  <2>2. /\ v \in StateType /\ v.cell = t.cell /\ v.leg = t.leg /\ v.job = t.job
        /\ v.seen = t.seen /\ v.stray = t.stray
        /\ v.path = [t.path EXCEPT ![r] = p]
    BY <2>1, CounterTypes DEF StateType, p
  <2> HIDE DEF v
  <2> QED
    BY <1>3, <1>4, <2>2, EscapeKeeps DEF p
<1> HIDE DEF v
<1>5. ASSUME step # Nowhere PROVE Keeps(t, Check(v, r, fate), r)
  <2>1. Keeps(v, Check(v, r, fate), r)
    BY <1>4, <1>5, CheckKeeps DEF Keeps
  <2> QED
    BY <1>4, <1>5, <2>1, KeepsOn
<1> QED
  BY <1>1, <1>2, <1>5, KeepsSame, KeepsSelf

\* One of the two may be put down, for the second yields only if the first does not
\* get as far as a step.
LEMMA ContendKeeps ==
  ASSUME PlannerWalks, NEW t, Routed(t), NEW r \in Robots, NEW b \in Robots, NEW hint, NEW fate
  PROVE  \E q \in Robots : Keeps(t, Contend(t, r, b, hint, fate), q)
<1> DEFINE pushed == /\ t.path[b] = <<>> \/ t.blocked[b] >= Threshold
                     /\ CanYield(t, b)
           u == IF pushed THEN MakeYield(t, b, r, hint, fate) ELSE t
           step == YieldStep(t, b, r, Occupied(t, b), hint)
           v == [t EXCEPT !.cool[b] = 1]
<1>1. Keeps(t, t, r) /\ Keeps(t, u, b) /\ Keeps(t, MakeYield(t, r, b, hint, fate), r)
  BY MakeYieldKeeps, KeepsSelf
<1>2. \/ Contend(t, r, b, hint, fate) \in {t, u, MakeYield(t, r, b, hint, fate)}
      \/ /\ Contend(t, r, b, hint, fate) = MakeYield(u, r, b, hint, fate)
         /\ ~(pushed /\ step # Nowhere)
  BY DEF Contend
<1>3. v \in StateType /\ SameRoutes(t, v)
  BY CounterTypes DEF Routed, StateType, SameRoutes
<1>4. ~(pushed /\ step # Nowhere) => u \in {t, v}
  BY DEF MakeYield
<1> HIDE DEF u, v, pushed, step
<1>5. ASSUME ~(pushed /\ step # Nowhere) PROVE Keeps(t, MakeYield(u, r, b, hint, fate), r)
  <2>1. Keeps(t, u, r)
    BY <1>1, <1>3, <1>4, <1>5, KeepsSame
  <2>2. Keeps(u, MakeYield(u, r, b, hint, fate), r)
    BY <2>1, MakeYieldKeeps DEF Keeps
  <2> QED
    BY <2>1, <2>2, KeepsOn
<1> QED
  BY <1>1, <1>2, <1>5

LEMMA HandleBlockedKeeps ==
  ASSUME PlannerWalks, NEW t, Routed(t), NEW r \in Robots, NEW b \in Robots \union {NoRobot},
         NEW hint, NEW fate
  PROVE  \E q \in Robots : Keeps(t, HandleBlocked(t, r, b, hint, fate), q)
<1> DEFINE u == Stuck(t, r)
           d == Drop(u, {r, b})
<1>1. \A q \in Robots : Keeps(t, u, q)
  BY RecordsAreNoRoutes
<1>2. \/ HandleBlocked(t, r, b, hint, fate) = u
      \/ b = NoRobot /\ HandleBlocked(t, r, b, hint, fate) = Resume(u, r, fate)
      \/ b # NoRobot /\ HandleBlocked(t, r, b, hint, fate) = MakeYield(d, r, b, hint, fate)
      \/ b # NoRobot /\ HandleBlocked(t, r, b, hint, fate) = Contend(u, r, b, hint, fate)
  BY HandleBlockedCases
<1>3. Routed(u)
  BY <1>1 DEF Keeps
<1> HIDE DEF u
<1>4. Keeps(u, d, r)
  BY <1>3, RecordsAreNoRoutes
<1> HIDE DEF d
<1>5. CASE HandleBlocked(t, r, b, hint, fate) = u
  BY <1>1, <1>5
<1>6. CASE HandleBlocked(t, r, b, hint, fate) = Resume(u, r, fate)
  BY <1>1, <1>3, <1>6, ResumeKeeps, KeepsOn
<1>7. CASE b # NoRobot /\ HandleBlocked(t, r, b, hint, fate) = MakeYield(d, r, b, hint, fate)
  <2>1. Keeps(d, MakeYield(d, r, b, hint, fate), r)
    BY <1>4, <1>7, MakeYieldKeeps DEF Keeps
  <2>2. Keeps(t, d, r)
    BY <1>1, <1>4, KeepsOn
  <2> QED
    BY <1>7, <2>1, <2>2, KeepsOn
<1>8. CASE b # NoRobot /\ HandleBlocked(t, r, b, hint, fate) = Contend(u, r, b, hint, fate)
  <2>1. PICK q \in Robots : Keeps(u, Contend(u, r, b, hint, fate), q)
    BY <1>3, <1>8, ContendKeeps
  <2> QED
    BY <1>1, <1>8, <2>1, KeepsOn
<1> QED
  BY <1>2, <1>5, <1>6, <1>7, <1>8

LEMMA CompleteKeeps ==
  ASSUME PlannerWalks, NEW t, Routed(t), NEW r \in Robots, NEW fate
  PROVE  Keeps(t, Complete(t, r, fate), r)
<1> DEFINE u == Release(t, r)
           mode == IF t.leg[r] # 0 /\ u.mode[r] = "IDLE" THEN "MOVING" ELSE u.mode[r]
           v == [u EXCEPT !.replan[r] = FALSE, !.path[r] = <<>>, !.mode[r] = mode]
<1>1. Keeps(t, u, r) /\ Routed(u)
  BY RecordsAreNoRoutes DEF Keeps
<1>2. Complete(t, r, fate) = IF WantsRoute(t, r) THEN Resume(v, r, fate) ELSE v
  BY <1>1 DEF Complete, Routed, StateType
<1> HIDE DEF u
<1>3. mode \in Modes
  BY <1>1 DEF Routed, StateType, Modes
<1> HIDE DEF mode
<1>4. /\ v \in StateType /\ ButFor(u, v, r)
      /\ v.path[r] = <<>> /\ v.leg = u.leg /\ v.job = u.job
  BY <1>1, <1>3, CounterTypes DEF Routed, StateType, ButFor
<1> HIDE DEF v
<1>5. Keeps(u, v, r)
  BY <1>1, <1>4, EmptyWalk, KeepsButFor DEF Routed
<1>6. Keeps(t, v, r)
  BY <1>1, <1>5, KeepsOn
<1>7. Keeps(v, Resume(v, r, fate), r)
  BY <1>6, ResumeKeeps DEF Keeps
<1> QED
  BY <1>2, <1>6, <1>7, KeepsOn

-----------------------------------------------------------------------------
(* A turn keeps types and walks; it puts a robot down, or moves the one    *)
(* whose turn it is, which may then be put down.                           *)

Turns(t, u, r) ==
  \/ \E q \in Robots : Keeps(t, u, q)
  \/ \E w : Routed(w) /\ Goes(t, w, r) /\ Keeps(w, u, r)

LEMMA AdvanceYieldTurns ==
  ASSUME PlannerWalks, NEW t, Routed(t), NEW r \in Robots, NEW hint, NEW fate
  PROVE  Turns(t, AdvanceYield(t, r, hint, fate), r)
<1> DEFINE u == Stuck(t, r)
           b == t.yields[r]
           step == YieldStep(u, r, b, t.seen, hint)
           v == Step(t, r)
           w == [u EXCEPT !.path[r] = <<step>>, !.blocked[r] = 0, !.cool[r] = Cooldown]
<1>1. AdvanceYield(t, r, hint, fate) =
        IF t.path[r] = <<>> THEN Complete(t, r, fate)
        ELSE IF t.path[r][1] \notin t.seen
        THEN IF v.path[r] = <<>> THEN Complete(v, r, fate) ELSE Check(v, r, fate)
        ELSE IF u.blocked[r] < 2 \/ u.cool[r] > 0 THEN u
        ELSE IF b = NoRobot THEN Complete(u, r, fate)
        ELSE IF step = Nowhere THEN u
        ELSE Check(w, r, fate)
  BY DEF AdvanceYield
<1>2. b \in Robots \union {NoRobot}
  BY DEF Routed, StateType
<1>3. Keeps(t, u, r) /\ Routed(u)
  BY RecordsAreNoRoutes DEF Keeps
<1> HIDE DEF b
<1>4. b # NoRobot /\ step # Nowhere => step \in Open /\ Adjacent(u.cell[r], step)
  BY <1>2, <1>3, EscapeIsFree
<1>5. ASSUME t.path[r] # <<>>, t.path[r][1] \notin t.seen
      PROVE  Turns(t, Complete(v, r, fate), r) /\ Turns(t, Check(v, r, fate), r)
  <2>1. Routed(v) /\ Goes(t, v, r)
    BY <1>5, StepRouted
  <2> HIDE DEF v
  <2>2. Keeps(v, Complete(v, r, fate), r) /\ Keeps(v, Check(v, r, fate), r)
    BY <2>1, CompleteKeeps, CheckKeeps
  <2> QED
    BY <2>1, <2>2 DEF Turns
<1> HIDE DEF u, v, step
<1>6. ASSUME b # NoRobot, step # Nowhere PROVE Keeps(u, w, r)
  <2> DEFINE p == <<step>>
  <2>1. p \in Seq(Open) /\ u \in StateType
    BY <1>3, <1>4, <1>6 DEF Routed
  <2> HIDE DEF p
  <2>2. /\ w \in StateType /\ w.cell = u.cell /\ w.leg = u.leg /\ w.job = u.job
        /\ w.seen = u.seen /\ w.stray = u.stray
        /\ w.path = [u.path EXCEPT ![r] = p]
    BY <2>1, CounterTypes DEF StateType, p
  <2> HIDE DEF w
  <2> QED
    BY <1>3, <1>4, <1>6, <2>2, EscapeKeeps DEF p
<1> HIDE DEF w
<1>7. ASSUME b # NoRobot, step # Nowhere PROVE Keeps(t, Check(w, r, fate), r)
  <2>1. Keeps(u, w, r)
    BY <1>6, <1>7
  <2>2. Keeps(w, Check(w, r, fate), r)
    BY <2>1, CheckKeeps DEF Keeps
  <2> QED
    BY <1>3, <2>1, <2>2, KeepsOn
<1>8. Keeps(t, Complete(t, r, fate), r) /\ Keeps(t, Complete(u, r, fate), r)
  <2>1. Keeps(u, Complete(u, r, fate), r)
    BY <1>3, CompleteKeeps
  <2> QED
    BY <1>3, <2>1, CompleteKeeps, KeepsOn
<1>9. \A x : Keeps(t, x, r) => Turns(t, x, r)
  BY DEF Turns
<1> QED
  BY <1>1, <1>3, <1>5, <1>7, <1>8, <1>9

LEMMA OutsideKeeps ==
  ASSUME PlannerWalks, NEW r \in Robots, Routed(s),
         Fail(r) \/ Revive(r) \/ Dispatch(r) \/ CheckBattery(r) \/ Assign(r)
  PROVE  Keeps(s, s', r)
<1>1. CASE Fail(r)
  BY <1>1, BreakdownKeeps DEF Fail
<1>2. CASE Revive(r)
  <2> DEFINE t == [s EXCEPT !.mode[r] = "IDLE", !.goal[r] = Nowhere]
             exits == (Open \ Bays) \ Occupied(t, r)
             c == Closest(s.cell[r], exits)
  <2>1. s' = IF s.cell[r] \in Bays /\ exits # {} THEN SetOff(t, r, c, "MOVING") ELSE t
    BY <1>2 DEF Revive
  <2>2. t \in StateType /\ SameRoutes(s, t)
    BY DEF Routed, StateType, Modes, SameRoutes
  <2>3. exits \in SUBSET Open /\ s.cell[r] \in Open
    BY DEF Routed, StateType
  <2>4. exits # {} => c \in Open
    BY <2>3, NearestAssumption
  <2> HIDE DEF t, exits, c
  <2>5. Keeps(s, t, r)
    BY <2>2, KeepsSame
  <2>6. exits # {} => Keeps(t, SetOff(t, r, c, "MOVING"), r)
    BY <2>4, <2>5, SetOffKeeps DEF Keeps, Modes
  <2> QED
    BY <2>1, <2>5, <2>6, KeepsOn
<1>3. CASE Dispatch(r)
  <2> DEFINE c == s.cell[r]
             u == [s EXCEPT !.mode[r] = "STILL", !.goal[r] = c]
  <2>1. s' = u \/ s' = OffCharger(s, r) \/ \E d \in FreeDepots(s, r) : s' = RouteToCell(s, r, d)
    BY <1>3 DEF Dispatch
  <2>2. s \in StateType /\ c \in Open
    BY DEF Routed, StateType
  <2> HIDE DEF c
  <2>3. u \in StateType /\ SameRoutes(s, u)
    BY <2>2 DEF StateType, Modes, SameRoutes
  <2> HIDE DEF u
  <2>4. \A d \in FreeDepots(s, r) : d \in Open
    BY CellsAndJobs DEF FreeDepots
  <2> QED
    BY <2>1, <2>3, <2>4, KeepsSame, OffChargerKeeps, RouteToCellKeeps
<1>4. CASE CheckBattery(r)
  BY <1>4, BreakdownKeeps, InterruptKeeps, CheckKeeps DEF CheckBattery
<1>5. CASE Assign(r)
  <2>1. PICK job \in Jobs, fate \in Fates :
          LET t == Clear([s EXCEPT !.leg[r] = 1, !.job[r] = job, !.goal[r] = job[1],
                                   !.mode[r] = "MOVING", !.blocked[r] = 0,
                                   !.replan[r] = FALSE, !.yields[r] = NoRobot], r)
              p == RouteAround(t, r, job[1])
              u == SetRoute(t, r, p)
          IN  s' = IF p = <<>> THEN Arrive(u, r, fate) ELSE Check(u, r, fate)
    BY <1>5 DEF Assign
  <2> DEFINE goal == job[1]
             q == [s EXCEPT !.leg[r] = 1, !.job[r] = job, !.goal[r] = goal,
                            !.mode[r] = "MOVING", !.blocked[r] = 0,
                            !.replan[r] = FALSE, !.yields[r] = NoRobot]
             t == Clear(q, r)
             p == RouteAround(t, r, goal)
             u == SetRoute(t, r, p)
  <2>2. s' = IF p = <<>> THEN Arrive(u, r, fate) ELSE Check(u, r, fate)
    BY <2>1
  <2>3. goal \in Open
    BY CellsAndJobs
  <2> HIDE DEF goal
  <2>4. /\ q \in StateType /\ ButFor(s, q, r) /\ q.cell = s.cell
        /\ q.path = s.path /\ q.job[r] = job
    BY <2>3, CounterTypes DEF Routed, StateType, Modes, ButFor
  <2> HIDE DEF q
  <2>5. Keeps(s, q, r)
    BY <2>4, KeepsButFor DEF Routed
  <2>6. Keeps(q, t, r)
    BY <2>5, RecordsAreNoRoutes DEF Keeps
  <2> HIDE DEF t
  <2>7. Routed(t)
    BY <2>6 DEF Keeps
  <2>8. Walk(t.cell[r], p)
    BY <2>3, <2>7, RouteAroundWalks
  <2> HIDE DEF p
  <2>9. Keeps(t, u, r)
    BY <2>7, <2>8, SetRouteKeeps
  <2> HIDE DEF u
  <2>10. Keeps(u, Arrive(u, r, fate), r) /\ Keeps(u, Check(u, r, fate), r)
    BY <2>9, ArriveKeeps, CheckKeeps DEF Keeps
  <2>11. Keeps(s, u, r)
    BY <2>5, <2>6, <2>9, KeepsOn
  <2> QED
    BY <2>2, <2>10, <2>11, KeepsOn
<1> QED
  BY <1>1, <1>2, <1>3, <1>4, <1>5

LEMMA MoveTurns ==
  ASSUME PlannerWalks, NEW r \in Robots, Routed(s), Move(r)
  PROVE  Turns(s, s', r)
<1> DEFINE t == Cooled(r)
<1>1. t \in StateType /\ SameRoutes(s, t)
  BY CounterTypes DEF Cooled, Routed, StateType, SameRoutes
<1>2. Routed(t) /\ \A q \in Robots : Keeps(s, t, q)
  BY <1>1, KeepsSame DEF Keeps
<1>3. ASSUME NEW u, Turns(t, u, r) PROVE Turns(s, u, r)
  <2>1. CASE \E q \in Robots : Keeps(t, u, q)
    BY <1>2, <2>1, KeepsOn DEF Turns
  <2>2. CASE \E w : Routed(w) /\ Goes(t, w, r) /\ Keeps(w, u, r)
    BY <1>1, <2>2 DEF Turns, Goes, SameRoutes
  <2> QED
    BY <1>3, <2>1, <2>2 DEF Turns
<1>4. SUFFICES Turns(t, s', r)
  BY <1>3
<1>5. \A q \in Robots : Keeps(t, s', q) => Turns(t, s', r)
  BY DEF Turns
<1> HIDE DEF t
<1>6. CASE StandStill(r)
  BY <1>2, <1>5, <1>6, KeepsSelf DEF StandStill, t
<1>7. CASE YieldTurn(r)
  BY <1>2, <1>7, AdvanceYieldTurns DEF YieldTurn, t
<1>8. CASE RouteTurn(r)
  <2>1. PICK fate \in Fates : s' = IF WantsRoute(s, r) THEN Resume(t, r, fate) ELSE t
    BY <1>8 DEF RouteTurn, t
  <2> QED
    BY <1>2, <1>5, <2>1, ResumeKeeps, KeepsSelf
<1>9. CASE DeniedTurn(r)
  BY <1>2, <1>5, <1>9, RecordsAreNoRoutes DEF DeniedTurn, t
<1>10. CASE BlockedTurn(r)
  <2>1. \E b \in Robots \union {NoRobot} : \E hint, fate : s' = HandleBlocked(t, r, b, hint, fate)
    BY <1>10 DEF BlockedTurn, t
  <2>2. \E q \in Robots : Keeps(t, s', q)
    BY <1>2, <2>1, HandleBlockedKeeps
  <2> QED
    BY <1>5, <2>2
<1>11. CASE StepTurn(r)
  <2> DEFINE u == Step(t, r)
  <2>1. PICK fate \in Fates : s' = IF u.path[r] = <<>> THEN Arrive(u, r, fate)
                                   ELSE Check(u, r, fate)
    BY <1>11 DEF StepTurn, t
  <2>2. t.path[r] # <<>> /\ t.path[r][1] \notin t.seen
    BY <1>1, <1>11 DEF StepTurn, Driving, SameRoutes
  <2>3. Routed(u) /\ Goes(t, u, r)
    BY <1>2, <2>2, StepRouted
  <2> HIDE DEF u
  <2>4. Keeps(u, s', r)
    BY <2>1, <2>3, ArriveKeeps, CheckKeeps
  <2> QED
    BY <2>3, <2>4 DEF Turns
<1> QED
  BY <1>6, <1>7, <1>8, <1>9, <1>10, <1>11 DEF Move

-----------------------------------------------------------------------------
(* The order of a tick, and the claims of the proactive managers.          *)

\* The robots that claim, in their order.
LEMMA ClaimOrderTyped ==
  ASSUME NEW t, NEW score \in [Robots -> Int]
  PROVE  ClaimOrder(t, score) \in Seq(Robots)
<1> DEFINE S == {r \in Robots : t.mode[r] # "STILL"}
           before(r, q) == score[r] < score[q] \/ (score[r] = score[q] /\ r < q)
           below == [q \in S |-> {r \in S : before(r, q)}]
           order == [i \in 1..Cardinality(S) |->
                       CHOOSE r \in S : Cardinality({q \in S : before(q, r)}) = i - 1]
<1>1. IsFiniteSet(S) /\ S \in SUBSET Robots /\ S \in SUBSET Nat
  BY TrafficAssumption, FS_Subset
<1>2. \A r \in S : score[r] \in Int /\ r \in Nat
  BY <1>1
<1>3. ClaimOrder(t, score) = order
  BY DEF ClaimOrder, InOrder
<1> HIDE DEF S
<1>4. \A i \in 1..Cardinality(S) : \E r \in S : Cardinality(below[r]) = i - 1
  <2>1. below \in [S -> SUBSET S]
    OBVIOUS
  <2>2. \A q \in S : q \notin below[q]
    BY <1>2
  <2>3. \A r, q \in S : r # q => r \in below[q] \/ q \in below[r]
    BY <1>2
  <2>4. \A r, q \in S : r \in below[q] => below[r] \subseteq below[q]
    BY <1>2
  <2> HIDE DEF below
  <2> QED
    BY <1>1, <2>1, <2>2, <2>3, <2>4, PlacesTaken
<1>5. \A r \in S : below[r] = {q \in S : before(q, r)}
  OBVIOUS
<1> HIDE DEF below, before
<1>6. \A i \in 1..Cardinality(S) : order[i] \in S
  BY <1>4, <1>5
<1>7. order \in [1..Cardinality(S) -> Robots] /\ Cardinality(S) \in Nat
  BY <1>1, <1>6, FS_CardinalityType
<1> HIDE DEF order
<1> QED
  BY <1>3, <1>7

\* All robots, those that yield first.
LEMMA MoveOrderTyped ==
  ASSUME NEW t \in StateType
  PROVE  MoveOrder(t) \in Seq(Robots)
<1> DEFINE before(r, q) == \/ t.replan[r] /\ ~t.replan[q]
                           \/ t.replan[r] = t.replan[q] /\ r < q
           below == [q \in Robots |-> {r \in Robots : before(r, q)}]
           order == [i \in 1..Cardinality(Robots) |->
                       CHOOSE r \in Robots :
                         Cardinality({q \in Robots : before(q, r)}) = i - 1]
<1>1. IsFiniteSet(Robots) /\ Robots \subseteq Nat
  BY TrafficAssumption
<1>2. \A r \in Robots : t.replan[r] \in BOOLEAN
  BY DEF StateType
<1>3. MoveOrder(t) = order
  BY DEF MoveOrder, InOrder
<1>4. \A i \in 1..Cardinality(Robots) : \E r \in Robots : Cardinality(below[r]) = i - 1
  <2>1. below \in [Robots -> SUBSET Robots]
    OBVIOUS
  <2>2. \A q \in Robots : q \notin below[q]
    BY <1>1, <1>2
  <2>3. \A r, q \in Robots : r # q => r \in below[q] \/ q \in below[r]
    <3>1. \A r, q \in Robots : r # q => before(r, q) \/ before(q, r)
      BY <1>1, <1>2
    <3> HIDE DEF before
    <3> QED
      BY <3>1
  <2>4. \A r, q \in Robots : r \in below[q] => below[r] \subseteq below[q]
    <3>1. \A r, q, p \in Robots : before(r, q) /\ before(p, r) => before(p, q)
      BY <1>1, <1>2
    <3> HIDE DEF before
    <3> QED
      BY <3>1
  <2> HIDE DEF below
  <2> QED
    BY <1>1, <2>1, <2>2, <2>3, <2>4, PlacesTaken
<1>5. \A r \in Robots : below[r] = {q \in Robots : before(q, r)}
  OBVIOUS
<1> HIDE DEF below, before
<1>6. \A i \in 1..Cardinality(Robots) : order[i] \in Robots
  BY <1>4, <1>5
<1>7. order \in [1..Cardinality(Robots) -> Robots] /\ Cardinality(Robots) \in Nat
  BY <1>1, <1>6, FS_CardinalityType
<1> HIDE DEF order
<1> QED
  BY <1>3, <1>7

LEMMA ScoresTyped ==
  ASSUME NEW t, Routed(t), NEW r \in Robots
  PROVE  YieldScore(t, r) \in Int /\ ReservePriority(t, r) \in Int
<1>1. /\ t.blocked[r] \in Nat /\ t.leg[r] \in 0..2
      /\ t.leg[r] # 0 => t.job[r][3] \in Nat
  BY TrafficAssumption DEF Routed, StateType
<1>2. \A m, n \in Nat : Least(m, n) \in Nat
  BY DEF Least
<1> DEFINE job == t.job[r][3]
           stuck == Least(t.blocked[r], 20)
<1>3. stuck \in Nat /\ (t.leg[r] # 0 => job \in Nat /\ Least(job, 10) \in Nat)
  BY <1>1, <1>2
<1>4. YieldScore(t, r) = IF t.mode[r] = "STILL" THEN -1000000
                         ELSE (IF t.leg[r] = 0 THEN 10000 ELSE 20 * Least(job, 10))
                              + 10 * stuck
                              - (IF Critical(t, r) THEN 13000 ELSE 0)
  BY SMT DEF YieldScore
<1>5. ReservePriority(t, r) =
        IF t.mode[r] = "STILL" THEN -1000000
        ELSE (IF t.mode[r] = "TO_CHARGER" THEN 800000 ELSE 0)
             + (IF Critical(t, r) /\ t.mode[r] = "TO_CHARGER" THEN 400000 ELSE 0)
             + (IF t.leg[r] = 2 THEN 500000 ELSE 0)
             + (IF t.leg[r] = 0 THEN -100000 ELSE -10000 * (IF job = 0 THEN 3 ELSE job))
             + 100 * stuck
             + (IF Critical(t, r) THEN 200000 ELSE 0)
  BY SMT DEF ReservePriority
<1> HIDE DEF job, stuck
<1>6. YieldScore(t, r) \in Int
  BY <1>3, <1>4, SMT
<1>7. ReservePriority(t, r) \in Int
  BY <1>3, <1>5, SMT
<1> QED
  BY <1>6, <1>7

Claim == Open \X Nat \X Robots

LEMMA WishesTyped ==
  ASSUME NEW t, Routed(t), NEW r \in Robots
  PROVE  /\ ZoneWishes(t, r) \in Seq(Open \X Nat)
         /\ ReserveWishes(t, r) \in Seq(Open \X Nat)
<1> DEFINE path == t.path[r]
<1>1. path \in Seq(Open) /\ t.cell[r] \in Open
  BY DEF Routed, StateType
<1>2. Lookahead \in Nat /\ Horizon \in Nat
  BY TrafficAssumption
<1> HIDE DEF path
<1>3. /\ Least(Lookahead, Len(path)) \in 0..Len(path)
      /\ Least(Horizon, Len(path)) \in 0..Len(path)
  BY <1>1, <1>2 DEF Least
<1>4. [i \in 1..Least(Lookahead, Len(path)) |-> <<path[i], 0>>] \in Seq(Open \X Nat)
  BY <1>1, <1>3
<1>5. [i \in 1..Least(Horizon, Len(path)) |-> <<path[i], i>>] \in Seq(Open \X Nat)
  BY <1>1, <1>3
<1>6. <<<<t.cell[r], 0>>>> \in Seq(Open \X Nat)
  BY <1>1
<1>7. ReserveWishes(t, r) \in Seq(Open \X Nat)
  BY <1>5, <1>6 DEF ReserveWishes, path
<1> QED
  BY <1>4, <1>7 DEF ZoneWishes, path

LEMMA ClaimPrefixTyped ==
  ASSUME NEW claims \in SUBSET Claim, NEW r \in Robots, NEW wishes \in Seq(Open \X Nat)
  PROVE  ClaimPrefix(claims, r, wishes) \in SUBSET Claim
<1>1. ASSUME NEW i \in DOMAIN wishes
      PROVE  <<wishes[i][1], wishes[i][2], r>> \in Claim
  BY DEF Claim
<1> QED
  BY <1>1 DEF ClaimPrefix

\* The robots claim one after the other, as long as any is left.
LEMMA ClaimsAfterTyped ==
  ASSUME NEW wishes \in [Robots -> Seq(Open \X Nat)], NEW order \in Seq(Robots)
  PROVE  ClaimsAfter(wishes)[[left |-> order, held |-> {}]] \in SUBSET Claim
<1> DEFINE D == [left : Seq(Robots), held : SUBSET Claim]
           Ends == {c \in D : c.left = <<>>}
           After(c) == [left |-> Tail(c.left),
                        held |-> ClaimPrefix(c.held, Head(c.left), wishes[Head(c.left)])]
           Turn == [c \in D |-> After(c)]
           Held == [c \in D |-> c.held]
           F == ClaimsAfter(wishes)
           M == [c \in D |-> Len(c.left)]
           Good == SUBSET Claim
<1>1. ASSUME NEW c \in D, c.left # <<>>
      PROVE  After(c) \in D /\ Len(After(c).left) < Len(c.left) /\ Len(c.left) \in Nat
  <2>1. Head(c.left) \in Robots /\ Tail(c.left) \in Seq(Robots)
        /\ Len(c.left) \in Nat /\ Len(Tail(c.left)) < Len(c.left)
    BY <1>1
  <2>2. ClaimPrefix(c.held, Head(c.left), wishes[Head(c.left)]) \in SUBSET Claim
    BY <2>1, ClaimPrefixTyped
  <2> QED
    BY <2>1, <2>2
<1>2. \A c \in D \ Ends : Turn[c] \in D /\ M[Turn[c]] < M[c]
  <2> SUFFICES ASSUME NEW c \in D, c.left # <<>> PROVE Turn[c] \in D /\ M[Turn[c]] < M[c]
    OBVIOUS
  <2>1. Turn[c] = After(c) /\ After(c) \in D /\ Len(After(c).left) < Len(c.left)
    BY <1>1
  <2> HIDE DEF After
  <2> QED
    BY <2>1
<1>3. IsLoop(F, D, Ends, Turn, Held)
  <2> DEFINE body(f, c) == IF c.left = <<>> THEN c.held ELSE f[After(c)]
  <2>1. \A f : f = [c \in D |-> body(f, c)] <=> IsLoop(f, D, Ends, Turn, Held)
    <3> TAKE f
    <3>1. ASSUME NEW c \in D
          PROVE  body(f, c) = (IF c \in Ends THEN Held[c] ELSE f[Turn[c]])
      OBVIOUS
    <3> HIDE DEF Ends, Held, Turn, body, D
    <3> QED
      BY <3>1 DEF IsLoop
  <2>2. \E f : IsLoop(f, D, Ends, Turn, Held)
    <3> HIDE DEF D, Ends, Turn, Held
    <3> QED
      BY <1>2, LoopExists
  <2>3. F = CHOOSE f : f = [c \in D |-> body(f, c)]
    BY DEF ClaimsAfter, Claim
  <2> HIDE DEF D, Ends, Turn, Held, F, body
  <2>4. F = [c \in D |-> body(F, c)]
    BY <2>1, <2>2, <2>3
  <2> QED
    BY <2>1, <2>4
<1>4. Descends(D, M, D, Ends, Turn)
  <2>1. \A c \in D : M[c] \in Nat
    OBVIOUS
  <2> HIDE DEF D, Ends, Turn, M
  <2> QED
    BY <1>2, <2>1 DEF Descends
<1>5. \A c \in D \cap Ends : Held[c] \in Good
  OBVIOUS
<1>6. [left |-> order, held |-> {}] \in D
  OBVIOUS
<1> HIDE DEF D, Ends, Turn, Held, F, M, Good
<1>7. \A c \in D : F[c] \in Good
  BY <1>3, <1>4, <1>5, LoopEnds
<1> QED
  BY <1>6, <1>7 DEF F, Good

LEMMA ClaimsTyped ==
  ASSUME NEW t, Routed(t)
  PROVE  Claims(t) \in SUBSET Claim
<1> DEFINE zones  == manager = "zones"
           score  == [r \in Robots |-> IF zones THEN YieldScore(t, r) ELSE -ReservePriority(t, r)]
           wishes == [r \in Robots |-> IF zones THEN ZoneWishes(t, r) ELSE ReserveWishes(t, r)]
<1>1. Claims(t) = IF manager = "local" THEN {}
                  ELSE ClaimsAfter(wishes)[[left |-> ClaimOrder(t, score), held |-> {}]]
  BY DEF Claims
<1>2. score \in [Robots -> Int]
  BY ScoresTyped
<1>3. wishes \in [Robots -> Seq(Open \X Nat)]
  BY WishesTyped
<1> HIDE DEF score, wishes
<1> QED
  BY <1>1, <1>2, <1>3, ClaimOrderTyped, ClaimsAfterTyped

-----------------------------------------------------------------------------
(* The theorems.                                                           *)

LEMMA InitRouted ==
  ASSUME Init PROVE Routed(s) /\ s.cell = Start /\ s.seen = {} /\ ~s.stray
<1> USE TrafficAssumption DEF Init, Reset
<1>1. s \in StateType
  <2>1. \A p \in Pairs : s.pairs[p] = NoRobot
    OBVIOUS
  <2> QED
    BY CounterTypes DEF StateType, Modes
<1>2. \A r \in Robots : Walk(s.cell[r], s.path[r]) /\ s.leg[r] = 0
  BY EmptyWalk
<1> QED
  BY <1>1, <1>2 DEF Routed

\* The movement loop begins: it reads the occupied cells.
Looks ==
  /\ stage # "move" /\ stage' = "move"
  /\ s'.cell = s.cell /\ s'.seen = {s.cell[r] : r \in Robots} /\ (s'.stray <=> ~Apart)

\* It ends.
Leaves ==
  /\ stage = "move" /\ stage' # "move"
  /\ s'.cell = s.cell /\ s'.seen = {} /\ (s'.stray <=> ~Apart)

\* A robot is put down, or none is moved.
Puts == (stage' = "move" <=> stage = "move") /\ \E q \in Robots : Placed(s, s', q)

\* A robot goes on, and may be put down where it arrives.
GoesOn ==
  /\ stage = "move" /\ stage' = "move"
  /\ \E r \in Robots : \E t : Routed(t) /\ Goes(s, t, r) /\ Placed(t, s', r)

\* Nothing moves.
Rests == s' = s /\ (stage' = "move" <=> stage = "move")

LEMMA SyncLooks ==
  ASSUME Routed(s), Sync
  PROVE  Routed(s') /\ Looks /\ todo' \in Seq(Robots)
<1> DEFINE held == Claims(s)
           cells == {s.cell[r] : r \in Robots}
           strayed == ~Apart
<1>1. s' = [s EXCEPT !.claims = held, !.seen = cells, !.stray = strayed] /\ todo' = MoveOrder(s)
  BY DEF Sync
<1>2. held \in SUBSET (Open \X Nat \X Robots)
  BY ClaimsTyped DEF Claim
<1>3. cells \in SUBSET Open /\ strayed \in BOOLEAN
  BY DEF Routed, StateType
<1>4. stage # "move" /\ stage' = "move"
  BY DEF Sync
<1> HIDE DEF held, cells, strayed
<1>5. /\ s' \in StateType /\ s'.cell = s.cell /\ s'.path = s.path /\ s'.leg = s.leg
      /\ s'.job = s.job /\ s'.seen = cells /\ s'.stray = strayed
  BY <1>1, <1>2, <1>3 DEF Routed, StateType
<1>6. Routed(s')
  BY <1>5 DEF Routed
<1> QED
  BY <1>1, <1>4, <1>5, <1>6, MoveOrderTyped DEF Routed, Looks, cells, strayed

LEMMA EndTickLeaves ==
  ASSUME Routed(s), EndTick
  PROVE  Routed(s') /\ Leaves
<1> DEFINE strayed == ~Apart
<1>1. s' = [s EXCEPT !.seen = {}, !.claims = {}, !.stray = strayed]
  BY DEF EndTick
<1>2. stage = "move" /\ stage' # "move" /\ strayed \in BOOLEAN
  BY DEF EndTick
<1> HIDE DEF strayed
<1>3. /\ s' \in StateType /\ s'.cell = s.cell /\ s'.path = s.path /\ s'.leg = s.leg
      /\ s'.job = s.job /\ s'.seen = {} /\ s'.stray = strayed
  BY <1>1, <1>2 DEF Routed, StateType
<1> QED
  BY <1>2, <1>3 DEF Routed, Leaves, strayed

\* Every step keeps types and walks, and is of one of five kinds.
LEMMA NextRouted ==
  ASSUME PlannerWalks, Routed(s), [Next]_vars
  PROVE  Routed(s') /\ (Looks \/ Leaves \/ Puts \/ GoesOn \/ Rests)
<1>1. CASE EndRepairs
  BY <1>1 DEF EndRepairs, Rests
<1>2. CASE UNCHANGED vars
  BY <1>2 DEF vars, Rests
<1>3. CASE Sync
  BY <1>3, SyncLooks
<1>4. CASE EndTick
  BY <1>4, EndTickLeaves
<1>5. ASSUME NEW r \in Robots, Move(r)
      PROVE  Routed(s') /\ (Puts \/ GoesOn)
  <2>1. MyTurn(r)
    BY <1>5 DEF Move, StandStill, YieldTurn, RouteTurn, DeniedTurn, BlockedTurn, StepTurn
  <2>2. stage = "move" /\ stage' = "move"
    BY <2>1 DEF MyTurn
  <2>3. Turns(s, s', r)
    BY <1>5, MoveTurns
  <2> QED
    BY <2>2, <2>3 DEF Turns, Keeps, Puts, GoesOn
<1>6. ASSUME NEW r \in Robots,
             Fail(r) \/ Revive(r) \/ Dispatch(r) \/ CheckBattery(r) \/ Assign(r)
      PROVE  Routed(s') /\ Puts
  <2>1. stage' = stage
    BY <1>6 DEF Fail, Revive, Dispatch, CheckBattery, Assign
  <2> QED
    BY <1>6, <2>1, OutsideKeeps DEF Keeps, Puts
<1> QED
  BY <1>1, <1>2, <1>3, <1>4, <1>5, <1>6 DEF Next, Tick, Outside

\* On a connected floor robots, records and claims keep their types: every route
\* that a handler sets leads over open cells, a robot that has a task has one of
\* the jobs, counters stay in range, and only robots await their turn, in whatever
\* order.
THEOREM TrafficTypeCorrect == ASSUME Connected PROVE Spec => []TypeOK
<1>0. PlannerWalks
  BY PlannerFindsWalks
<1> DEFINE Inv == Routed(s) /\ TypeOK
<1>1. Init => Inv
  BY InitRouted DEF Init, Routed, TypeOK
<1>2. Inv /\ [Next]_vars => Inv'
  <2> SUFFICES ASSUME Routed(s), TypeOK, [Next]_vars PROVE Routed(s') /\ TypeOK'
    OBVIOUS
  <2>1. Routed(s') /\ s' \in StateType
    BY <1>0, NextRouted DEF Routed
  <2>2. manager' = manager /\ stage' \in {"repairs", "assign", "move"} /\ todo' \in Seq(Robots)
    <3>1. CASE EndRepairs \/ EndTick \/ UNCHANGED vars
      BY <3>1 DEF EndRepairs, EndTick, vars, TypeOK
    <3>2. CASE Sync
      BY <3>2, SyncLooks DEF Sync
    <3>3. ASSUME NEW r \in Robots, Move(r)
          PROVE  manager' = manager /\ stage' = stage /\ todo' \in Seq(Robots)
      <4>1. MyTurn(r)
        BY <3>3 DEF Move, StandStill, YieldTurn, RouteTurn, DeniedTurn, BlockedTurn, StepTurn
      <4> QED
        BY <4>1 DEF MyTurn, TypeOK
    <3>4. ASSUME NEW r \in Robots,
                 Fail(r) \/ Revive(r) \/ Dispatch(r) \/ CheckBattery(r) \/ Assign(r)
          PROVE  UNCHANGED <<manager, stage, todo>>
      BY <3>4 DEF Fail, Revive, Dispatch, CheckBattery, Assign
    <3> QED
      BY <3>1, <3>2, <3>3, <3>4 DEF Next, Tick, Outside, TypeOK
  <2> QED
    BY <2>1, <2>2 DEF TypeOK
<1> QED
  BY <1>1, <1>2, PTL DEF Spec

\* As long as no robot has been put down behind its back, the loop knows where all are.
Informed == stage = "move" /\ ~s.stray => s.seen = {s.cell[r] : r \in Robots}

\* A robot that goes on where the loop is informed leaves it informed.
LEMMA GoesOnInformed ==
  ASSUME NEW r \in Robots, NEW t, Routed(s), Routed(t), Goes(s, t, r), Apart,
         s.seen = {s.cell[q] : q \in Robots}
  PROVE  /\ t.seen = {t.cell[q] : q \in Robots}
         /\ \A p, q \in Robots : p # q => t.cell[p] # t.cell[q]
<1> DEFINE c == s.path[r][1]
<1>1. /\ \A q \in Robots : s.cell[q] # c
      /\ t.seen = (s.seen \ {s.cell[r]}) \union {c}
      /\ t.cell[r] = c /\ \A q \in Robots \ {r} : t.cell[q] = s.cell[q]
  BY DEF Goes, Routed, StateType
<1> HIDE DEF c
<1>2. \A q \in Robots \ {r} : t.cell[q] # s.cell[r]
  BY <1>1 DEF Apart
<1> QED
  BY <1>1, <1>2 DEF Apart

\* On a connected floor two robots share a cell only because a robot was put down
\* while the movement loop ran: for any fleet, workload and conflict manager, and
\* whatever routes, yields and refusals there are, the loop's own set of occupied
\* cells, read once in a tick, knows of all other robots.
THEOREM RobotsApart == ASSUME Connected PROVE Spec => []OnlyPutRobotsMeet
<1>0. PlannerWalks
  BY PlannerFindsWalks
<1> DEFINE Inv == Routed(s) /\ OnlyPutRobotsMeet /\ Informed
<1>1. Init => Inv
  <2> SUFFICES ASSUME Init PROVE Inv
    OBVIOUS
  <2>1. Apart
    BY InitRouted, TrafficAssumption DEF Apart
  <2> QED
    BY <2>1, InitRouted DEF Init, OnlyPutRobotsMeet, Informed
<1>2. Inv /\ [Next]_vars => Inv'
  <2> SUFFICES ASSUME Inv, [Next]_vars PROVE Routed(s') /\ OnlyPutRobotsMeet' /\ Informed'
    OBVIOUS
  <2>1. Routed(s') /\ (Looks \/ Leaves \/ Puts \/ GoesOn \/ Rests)
    BY <1>0, NextRouted
  <2>2. CASE Looks \/ Leaves
    BY <2>1, <2>2 DEF Looks, Leaves, OnlyPutRobotsMeet, Informed, Apart
  <2>3. CASE Rests
    BY <2>1, <2>3 DEF Rests, OnlyPutRobotsMeet, Informed, Apart
  <2>4. CASE Puts
    <3>1. PICK q \in Robots : Placed(s, s', q)
      BY <2>4 DEF Puts
    <3>2. CASE s'.cell[q] = s.cell[q]
      <4>1. \A r \in Robots : s'.cell[r] = s.cell[r]
        BY <3>1, <3>2 DEF Placed
      <4> QED
        BY <2>1, <2>4, <3>1, <4>1 DEF Puts, Placed, OnlyPutRobotsMeet, Informed, Apart
    <3>3. CASE s'.cell[q] # s.cell[q] /\ stage # "move"
      <4>1. Apart => Apart'
        BY <3>1, <3>3 DEF Placed, Occupied, Apart
      <4> QED
        BY <2>1, <2>4, <3>1, <3>3, <4>1 DEF Puts, Placed, OnlyPutRobotsMeet, Informed
    <3>5. CASE s'.cell[q] # s.cell[q] /\ stage = "move"
      BY <2>1, <3>1, <3>5 DEF Placed, OnlyPutRobotsMeet, Informed
    <3> QED
      BY <3>2, <3>3, <3>5
  <2>5. CASE GoesOn
    <3>1. PICK r \in Robots : \E t : Routed(t) /\ Goes(s, t, r) /\ Placed(t, s', r)
      BY <2>5 DEF GoesOn
    <3>2. stage = "move"
      BY <2>5 DEF GoesOn
    <3>3. PICK t : Routed(t) /\ Goes(s, t, r) /\ Placed(t, s', r)
      BY <3>1
    <3>4. CASE s'.stray
      BY <2>1, <3>4 DEF OnlyPutRobotsMeet, Informed
    <3>5. CASE ~s'.stray
      <4>1. ~s.stray /\ \A q \in Robots : s'.cell[q] = t.cell[q]
        BY <3>3, <3>2, <3>5 DEF Goes, Placed
      <4>2. Apart /\ s.seen = {s.cell[q] : q \in Robots}
        BY <3>2, <4>1 DEF OnlyPutRobotsMeet, Informed
      <4>3. /\ t.seen = {t.cell[q] : q \in Robots}
            /\ \A p, q \in Robots : p # q => t.cell[p] # t.cell[q]
        BY <3>3, <4>2, GoesOnInformed
      <4> QED
        BY <3>3, <2>1, <4>1, <4>3 DEF Placed, OnlyPutRobotsMeet, Informed, Apart
    <3> QED
      BY <3>4, <3>5
  <2> QED
    BY <2>1, <2>2, <2>3, <2>4, <2>5
<1> QED
  BY <1>1, <1>2, PTL DEF Spec

LEMMA PutIsMotion ==
  ASSUME Routed(s), Routed(s'), Puts
  PROVE  Abstract!Next \/ UNCHANGED <<s.cell, s.seen, stage = "move">>
<1>1. PICK q \in Robots : Placed(s, s', q)
  BY DEF Puts
<1> DEFINE c == s'.cell[q]
<1>2. /\ s.cell \in [Robots -> Open] /\ s'.cell \in [Robots -> Open]
      /\ s'.seen = s.seen /\ (stage = "move")' = (stage = "move")
  BY <1>1 DEF Routed, StateType, Placed, Puts
<1>3. s'.cell = [s.cell EXCEPT ![q] = c]
  BY <1>1, <1>2 DEF Placed
<1>4. c \in Open /\ (c = s.cell[q] \/ \A r \in Robots \ {q} : s.cell[r] # c)
  BY <1>1, <1>2 DEF Placed, Occupied
<1> HIDE DEF c
<1>5. CASE c = s.cell[q]
  BY <1>2, <1>3, <1>5
<1>6. CASE \A r \in Robots \ {q} : s.cell[r] # c
  BY <1>2, <1>3, <1>4, <1>6 DEF Abstract!Next, Abstract!Put, Abstract!Free
<1> QED
  BY <1>4, <1>5, <1>6

\* A step along a walk into a cell the loop takes to be free is one of Motion.
LEMMA GoIsMotion ==
  ASSUME Routed(s), Routed(s'), GoesOn
  PROVE  Abstract!Next
<1>0. PICK r \in Robots : \E t : Routed(t) /\ Goes(s, t, r) /\ Placed(t, s', r)
  BY DEF GoesOn
<1>1. PICK t : Routed(t) /\ Goes(s, t, r) /\ Placed(t, s', r)
  BY <1>0
<1> DEFINE c == s.path[r][1]
           d == s'.cell[r]
<1>2. s.cell \in [Robots -> Open] /\ Walk(s.cell[r], s.path[r]) /\ s.path[r] # <<>>
  BY <1>1 DEF Routed, StateType, Goes
<1>3. c \in Open /\ Adjacent(s.cell[r], c)
  BY <1>2, WalkOn
<1>4. Abstract!Beside(s.cell[r], c)
  BY <1>3 DEF Adjacent, Manhattan, AbsDiff, Abstract!Beside, Abstract!AbsDiff
<1>5. /\ c \notin s.seen /\ s'.seen = (s.seen \ {s.cell[r]}) \union {c}
      /\ t.cell[r] = c /\ \A q \in Robots \ {r} : t.cell[q] = s.cell[q]
  BY <1>1, <1>2 DEF Goes, Placed
<1>6. s'.cell \in [Robots -> Open] /\ d \in Open
  BY DEF Routed, StateType
<1>7. s'.cell = [s.cell EXCEPT ![r] = d]
  BY <1>1, <1>2, <1>5, <1>6 DEF Placed
<1>8. d = c \/ \A q \in Robots \ {r} : s.cell[q] # d
  BY <1>1, <1>5 DEF Placed, Occupied
<1>9. stage = "move" /\ (stage = "move")' = (stage = "move")
  BY DEF GoesOn
<1> HIDE DEF c, d
<1>10. Abstract!Go(r, c, d)
  BY <1>4, <1>5, <1>7, <1>8, <1>9 DEF Abstract!Go, Abstract!Free
<1> QED
  BY <1>3, <1>6, <1>10 DEF Abstract!Next

\* On a connected floor the movement loop implements Motion, however many robots
\* there are and whatever their conflict manager does: a robot leaves its cell for
\* one beside it that the loop takes to be free, or is put down in one that is.
THEOREM MotionImplemented == ASSUME Connected PROVE Spec => MovesFreely
<1>0. PlannerWalks
  BY PlannerFindsWalks
<1> DEFINE Inv == Routed(s)
<1>1. Init => Inv /\ Abstract!Init
  BY InitRouted DEF Init, Abstract!Init
<1>2. Inv /\ [Next]_vars => Inv' /\ [Abstract!Next]_<<s.cell, s.seen, stage = "move">>
  <2> SUFFICES ASSUME Routed(s), [Next]_vars
               PROVE  /\ Routed(s')
                      /\ Abstract!Next \/ UNCHANGED <<s.cell, s.seen, stage = "move">>
    OBVIOUS
  <2>1. Routed(s') /\ (Looks \/ Leaves \/ Puts \/ GoesOn \/ Rests)
    BY <1>0, NextRouted
  <2>2. CASE Looks
    <3>1. (stage = "move")' = TRUE /\ ~(stage = "move")
      BY <2>2 DEF Looks
    <3>2. s'.cell = s.cell /\ s'.seen = {s.cell[r] : r \in Robots}
      BY <2>2 DEF Looks
    <3>3. Abstract!Look
      BY Zenon, <3>1, <3>2 DEF Abstract!Look
    <3> QED
      BY Zenon, <2>1, <3>3 DEF Abstract!Next
  <2>3. CASE Leaves
    <3>1. (stage = "move")' = FALSE /\ stage = "move"
      BY <2>3 DEF Leaves
    <3>2. s'.cell = s.cell /\ s'.seen = {}
      BY <2>3 DEF Leaves
    <3>3. Abstract!Leave
      BY Zenon, <3>1, <3>2 DEF Abstract!Leave
    <3> QED
      BY Zenon, <2>1, <3>3 DEF Abstract!Next
  <2>4. CASE Rests
    BY <2>4 DEF Rests
  <2> QED
    BY <2>1, <2>2, <2>3, <2>4, PutIsMotion, GoIsMotion
<1> QED
  BY <1>1, <1>2, PTL DEF Spec, MovesFreely, Abstract!Spec
=============================================================================
