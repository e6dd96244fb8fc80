--------------------------- MODULE Studies_proofs ---------------------------
(***************************************************************************)
(* Proofs about Studies, for every plan of studies: what a study collects  *)
(* belongs to the trials that gave it, reported progress is real, and what *)
(* is concluded is the best of what the trials have shown.                 *)
(***************************************************************************)
EXTENDS Studies, FiniteSetTheorems, TLAPS

-----------------------------------------------------------------------------
(* Finite sets of numbers can be put in order.                             *)

HasMinimal(B) == \E T \in B : \A U \in B : U \subseteq T => U = T

\* Among subsets of a finite set there is a minimal one.
LEMMA MinimalSubset ==
  ASSUME NEW S, IsFiniteSet(S), NEW B \in SUBSET (SUBSET S), B # {}
  PROVE  HasMinimal(B)
<1>1. IsWellFoundedOn(StrictSubsetOrdering(S), SUBSET S)
  BY FS_StrictSubsetOrderingWellFounded, FS_FiniteSubsetsOfFinite
<1>2. PICK T \in B : \A U \in B : ~(<<U, T>> \in StrictSubsetOrdering(S))
  BY <1>1, WFMin
<1> QED
  BY <1>2 DEF StrictSubsetOrdering, HasMinimal

\* A strict order of a set that compares any two of its elements.
Orders(R, S) ==
  /\ \A x, y \in S : x # y => (<<x, y>> \in R <=> <<y, x>> \notin R)
  /\ \A x, y, z \in S : <<x, y>> \in R /\ <<y, z>> \in R => <<x, z>> \in R

LEMMA LastExists ==
  ASSUME NEW S, IsFiniteSet(S), S # {}, NEW R, Orders(R, S)
  PROVE  \E m \in S : \A x \in S \ {m} : <<x, m>> \in R
<1> DEFINE Has(T) == \E m \in T : \A x \in T \ {m} : <<x, m>> \in R
           B == {T \in SUBSET S : T # {} /\ ~Has(T)}
<1>1. SUFFICES ASSUME B # {} PROVE FALSE
  BY DEF B
<1>2. B \in SUBSET (SUBSET S) /\ B # {}
  BY <1>1
<1>3. PICK T \in B : \A U \in B : U \subseteq T => U = T
  <2> HIDE DEF B
  <2>1. HasMinimal(B)
    BY <1>2, MinimalSubset, Zenon
  <2> QED
    BY <2>1 DEF HasMinimal
<1>4. PICK x \in T : TRUE
  BY <1>3
<1>5. CASE T = {x}
  BY <1>3, <1>5
<1>6. CASE T # {x}
  <2>1. T \ {x} \notin B /\ T \ {x} # {} /\ T \ {x} \in SUBSET S /\ T \in SUBSET S
    BY <1>3, <1>4, <1>6
  <2>2. PICK m \in T \ {x} : \A y \in (T \ {x}) \ {m} : <<y, m>> \in R
    BY <2>1
  <2>3. Has(T)
    <3>1. CASE <<x, m>> \in R
      BY <2>2, <3>1
    <3>2. CASE <<x, m>> \notin R
      <4>1. <<m, x>> \in R /\ m \in S /\ x \in S
        BY <1>4, <2>1, <2>2, <3>2 DEF Orders
      <4>2. \A y \in T \ {x} : <<y, x>> \in R
        BY <2>1, <2>2, <4>1 DEF Orders
      <4> QED
        BY <1>4, <4>2
    <3> QED
      BY <3>1, <3>2
  <2> QED
    BY <1>3, <2>3
<1> QED
  BY <1>5, <1>6

Increasing(q, n, R) == \A k, l \in 1..n : k < l => <<q[k], q[l]>> \in R

\* A finite set can be listed in any such order.
LEMMA OrderExists ==
  ASSUME NEW S, IsFiniteSet(S), NEW R, Orders(R, S)
  PROVE  \E q \in [1..Cardinality(S) -> S] : Increasing(q, Cardinality(S), R)
<1> DEFINE Has(T) == \E q \in [1..Cardinality(T) -> T] : Increasing(q, Cardinality(T), R)
           B == {T \in SUBSET S : ~Has(T)}
<1>1. SUFFICES ASSUME B # {} PROVE FALSE
  BY DEF B
<1>2. B \in SUBSET (SUBSET S) /\ B # {}
  BY <1>1
<1>3. PICK T \in B : \A U \in B : U \subseteq T => U = T
  <2> HIDE DEF B
  <2>1. HasMinimal(B)
    BY <1>2, MinimalSubset, Zenon
  <2> QED
    BY <2>1 DEF HasMinimal
<1>4. IsFiniteSet(T) /\ T \in SUBSET S /\ Orders(R, T)
  BY <1>3, FS_Subset DEF Orders
<1>5. CASE T = {}
  <2>1. Cardinality(T) = 0
    BY <1>5, FS_EmptySet
  <2>2. [k \in 1..0 |-> k] \in [1..0 -> T] /\ Increasing([k \in 1..0 |-> k], 0, R)
    BY DEF Increasing
  <2> QED
    BY <1>3, <2>1, <2>2
<1>6. CASE T # {}
  <2>1. PICK m \in T : \A i \in T \ {m} : <<i, m>> \in R
    BY <1>4, <1>6, LastExists
  <2> DEFINE U == T \ {m}
             n == Cardinality(U)
  <2>2. IsFiniteSet(U) /\ n \in Nat /\ Cardinality(T) = n + 1
    <3>1. IsFiniteSet(U) /\ Cardinality(U) = Cardinality(T) - 1
      BY <1>4, <2>1, FS_RemoveElement
    <3>2. Cardinality(U) \in Nat /\ Cardinality(T) \in Nat
      BY <1>4, <3>1, FS_CardinalityType
    <3> QED
      BY <3>1, <3>2
  <2>3. Has(U)
    <3>1. U \in SUBSET S /\ U \subseteq T /\ U # T
      BY <1>4, <2>1
    <3>2. U \notin B
      BY <1>3, <3>1
    <3> HIDE DEF Has
    <3> QED
      BY <3>1, <3>2
  <2>4. PICK q \in [1..n -> U] : Increasing(q, n, R)
    BY <2>3
  <2> HIDE DEF n, U
  <2> DEFINE p == [k \in 1..(n + 1) |-> IF k = n + 1 THEN m ELSE q[k]]
  <2>5. p \in [1..(n + 1) -> T]
    BY <2>1, <2>2, <2>4 DEF U
  <2>6. \A k \in 1..n : <<q[k], m>> \in R
    BY <2>1, <2>4 DEF U
  <2>7. Increasing(p, n + 1, R)
    BY <2>2, <2>4, <2>6 DEF Increasing
  <2> QED
    BY <1>3, <2>2, <2>5, <2>7
<1> QED
  BY <1>5, <1>6

\* InOrder lists a finite set of numbers, each once.
LEMMA InOrderLists ==
  ASSUME NEW S \in SUBSET Nat, IsFiniteSet(S)
  PROVE  /\ Cardinality(S) \in Nat
         /\ InOrder(S) \in [1..Cardinality(S) -> S]
         /\ \A k, l \in 1..Cardinality(S) : k < l => InOrder(S)[k] < InOrder(S)[l]
         /\ \A i \in S : \E k \in 1..Cardinality(S) : InOrder(S)[k] = i
<1> DEFINE n == Cardinality(S)
           q == InOrder(S)
<1>1. n \in Nat
  BY FS_CardinalityType
<1>2. q \in [1..n -> S] /\ \A k, l \in 1..n : k < l => q[k] < q[l]
  <2> DEFINE R == {p \in S \X S : p[1] < p[2]}
  <2>1. Orders(R, S)
    BY DEF Orders
  <2>2. PICK p \in [1..n -> S] : Increasing(p, n, R)
    BY <2>1, OrderExists
  <2>3. \A k, l \in 1..n : k < l => p[k] < p[l]
    BY <2>2 DEF Increasing
  <2> QED
    BY <2>3 DEF InOrder, Sorted
<1> HIDE DEF q
<1>3. q \in Injection(1..n, S)
  <2>1. \A k, l \in 1..n : q[k] = q[l] => k = l
    <3>1. \A k \in 1..n : q[k] \in Nat
      BY <1>2
    <3> QED
      BY <1>1, <1>2, <3>1
  <2> QED
    BY <1>2, <2>1 DEF Injection, IsInjective
<1>4. Cardinality(1..n) = n
  BY <1>1, FS_Interval
<1>5. q \in Surjection(1..n, S)
  BY <1>3, <1>4, FS_Injection
<1> QED
  BY <1>1, <1>2, <1>5 DEF Surjection, q

-----------------------------------------------------------------------------
(* The invariant.                                                          *)

Endings == Outcomes \union {Failure("invalid"), Failure("dead")}
Metrics == Values \union {0, Missing}
RowType == [trial : Trials, group : Int, cost : Metrics, cycle : Metrics]

\* What the row of a trial shows, and when there is one.
Shows(i) == IF study.kind = "study" /\ fate[i] = Failure("dead") THEN EmptySummary ELSE fate[i]

Types ==
  /\ study \in StudyPlans /\ next \in Nat \ {0}
  /\ fate \in [Trials -> Endings \union {Pending}]
  /\ results \in [Trials -> Endings \union {Pending}]
  /\ rows \in Seq(RowType) /\ errors \in Seq(Trials)

\* The trials that have been collected.
Settled == {rows[k].trial : k \in DOMAIN rows} \union {errors[k] : k \in DOMAIN errors}

RowsTrue ==
  /\ \A k \in DOMAIN rows : /\ Shows(rows[k].trial).kind = "ok"
                            /\ rows[k] = RowOf(rows[k].trial, Shows(rows[k].trial))
  /\ \A k, l \in DOMAIN rows : k < l => rows[k].trial < rows[l].trial

ErrorsTrue ==
  \A k \in DOMAIN errors : fate[errors[k]] # Pending /\ fate[errors[k]].kind # "ok"

\* One trial after the other: those before the one in turn have been settled or
\* were given up before they ran.
InTurn ==
  /\ stage \in {"next", "wait", "conclude", "ended"}
  /\ stage \in {"next", "wait"} => next \in Trials
  /\ stage # "wait" => thread = "none"
  /\ \A i \in Settled : i < next
  /\ \A i \in Trials : fate[i] # Pending <=>
       i \in Settled \/ (stage = "wait" /\ i = next /\ thread # "running")

\* What the wait for a thread knows of it.
Waiting ==
  stage = "wait" =>
    /\ thread \in {"running", "closing", "finished", "dead"}
    /\ poll \in {"begin", "finished?", "active?", "again?"}
    /\ thread = "dead" => fate[next] \in {Failure("error"), Failure("dead")}
    /\ fate[next] # Failure("invalid")
    /\ poll = "again?" => thread \in {"finished", "dead"}

\* In a pool, results are those of their own trials.
InPool ==
  /\ stage \in {"next", "pool", "conclude", "ended", "failed"}
  /\ thread = "none"
  /\ \A i \in Trials : results[i] # Pending => results[i] = fate[i]
  /\ stage \in {"next", "pool", "failed"} => rows = <<>> /\ errors = <<>>
  /\ stage \in {"conclude", "ended"} => Settled = Trials

Inv ==
  /\ Types /\ RowsTrue /\ ErrorsTrue
  /\ ~study.headless => InTurn /\ Waiting
  /\ study.headless => InPool

-----------------------------------------------------------------------------
(* Trials, endings and rows.                                               *)

\* The trials are numbered through; a trial that failed is left behind.
LEMMA TrialNumbers ==
  ASSUME study \in StudyPlans
  PROVE  /\ study.groups * study.reps \in Nat \ {0}
         /\ IsFiniteSet(Trials) /\ Cardinality(Trials) = study.groups * study.reps
         /\ Trials \subseteq Nat \ {0} /\ 1 \in Trials
         /\ \A i \in Nat \ {0} : i \in Trials <=> i <= Cardinality(Trials)
         /\ \A i \in Trials : GroupOf(i) \in Int
         /\ \A i \in Trials : AfterFailure(i) \in Nat \ {0} /\ i < AfterFailure(i)
<1> DEFINE g == study.groups
           r == study.reps
<1>1. g \in Nat \ {0} /\ r \in Nat \ {0}
  BY StudiesAssumption
<1>2. g * r \in Nat \ {0}
  <2> HIDE DEF g, r
  <2> QED
    BY <1>1
<1>3. IsFiniteSet(Trials) /\ Cardinality(Trials) = g * r
  <2>1. Trials = 1..(g * r)
    BY DEF Trials
  <2> HIDE DEF g, r
  <2> QED
    BY <1>2, <2>1, FS_Interval
<1>4. \A i \in Nat : i \in Trials <=> i >= 1 /\ i <= g * r
  BY <1>2 DEF Trials
<1>5. \A i \in Nat \ {0} : /\ (i - 1) \div r + 1 \in Int
                           /\ ((i - 1) \div r + 1) * r + 1 \in Nat \ {0}
                           /\ i < ((i - 1) \div r + 1) * r + 1
  <2> HIDE DEF g, r
  <2> QED
    BY <1>1
<1>6. \A i \in Nat \ {0} : AfterFailure(i) = ((i - 1) \div r + 1) * r + 1 \/ AfterFailure(i) = i + 1
  BY DEF AfterFailure, GroupOf
<1>7. Trials \subseteq Nat \ {0} /\ 1 \in Trials
  <2> HIDE DEF g, r
  <2>1. Trials \subseteq Nat
    BY <1>2 DEF Trials, g, r
  <2> QED
    BY <1>2, <1>4, <2>1
<1>8. \A i \in Trials : GroupOf(i) \in Int
  BY <1>5, <1>7 DEF GroupOf
<1>9. \A i \in Trials : AfterFailure(i) \in Nat \ {0} /\ i < AfterFailure(i)
  <2> HIDE DEF g, r
  <2> QED
    BY <1>5, <1>6, <1>7
<1> QED
  BY <1>2, <1>3, <1>4, <1>7, <1>8, <1>9

\* An ending is never "none", and one that succeeded has its metrics.
LEMMA EndingKinds ==
  /\ Outcomes \subseteq Endings
  /\ \A k \in {"error", "invalid", "dead"} :
       Failure(k) \in Endings /\ Failure(k).kind = k
  /\ \A f \in Endings : f # Pending /\ f.kind # "none"
  /\ \A f \in Endings : f.kind = "ok" => f.cost \in Values /\ f.cycle \in Values
  /\ \A f \in Endings : \/ f.kind = "ok"
                        \/ f.kind = "error" /\ f = Failure("error")
                        \/ f.kind = "invalid" /\ f = Failure("invalid")
                        \/ f.kind = "dead" /\ f = Failure("dead")
  /\ Pending.kind = "none"
  /\ EmptySummary.kind = "ok" /\ EmptySummary.cost \in Metrics /\ EmptySummary.cycle \in Metrics
BY DEF Endings, Outcomes, Success, Failure, Pending, EmptySummary, Metrics

LEMMA RowTyped ==
  ASSUME study \in StudyPlans, NEW i \in Trials,
         NEW f \in Endings \union {EmptySummary}, f.kind = "ok"
  PROVE  RowOf(i, f) \in RowType /\ RowOf(i, f).trial = i
<1>1. f.cost \in Metrics /\ f.cycle \in Metrics
  BY EndingKinds DEF Metrics
<1> QED
  BY <1>1, TrialNumbers DEF RowOf, RowType

\* A trial that ended well shows its own metrics.
LEMMA ShowsOwn ==
  ASSUME NEW i, fate[i] \in Endings \union {Pending}
  PROVE  /\ fate[i].kind = "ok" => Shows(i) = fate[i]
         /\ Shows(i).kind = "ok" =>
              \/ fate[i].kind = "ok" /\ Shows(i) = fate[i]
              \/ study.kind = "study" /\ fate[i] = Failure("dead") /\ Shows(i) = EmptySummary
         /\ Shows(i) \in Endings \union {EmptySummary, Pending}
BY EndingKinds DEF Shows

-----------------------------------------------------------------------------
(* What a study collects.                                                  *)

\* What was collected are trials that have ended.
LEMMA SettledTrials ==
  ASSUME Types
  PROVE  /\ \A k \in DOMAIN rows : rows[k].trial \in Trials /\ rows[k].trial \in Settled
         /\ \A k \in DOMAIN errors : errors[k] \in Trials /\ errors[k] \in Settled
         /\ Settled \subseteq Trials
<1>1. \A k \in DOMAIN rows : rows[k] \in RowType
  <2> HIDE DEF RowType
  <2> QED
    BY DEF Types
<1>2. \A k \in DOMAIN rows : rows[k].trial \in Trials
  BY <1>1 DEF RowType
<1>3. \A k \in DOMAIN errors : errors[k] \in Trials
  BY DEF Types
<1> QED
  BY <1>2, <1>3 DEF Settled

\* Rows and errors stay true while the trials they tell of stay as they are.
LEMMA NothingCollected ==
  ASSUME Types, RowsTrue, ErrorsTrue, UNCHANGED <<study, rows, errors>>,
         \A i \in Settled : fate'[i] = fate[i]
  PROVE  RowsTrue' /\ ErrorsTrue' /\ Settled' = Settled
<1>1. /\ \A k \in DOMAIN rows : fate'[rows[k].trial] = fate[rows[k].trial]
      /\ \A k \in DOMAIN errors : fate'[errors[k]] = fate[errors[k]]
  BY SettledTrials
<1>2. RowsTrue'
  BY <1>1 DEF RowsTrue, RowOf, GroupOf, Shows
<1>3. ErrorsTrue'
  BY <1>1 DEF ErrorsTrue
<1> QED
  BY <1>2, <1>3 DEF Settled

\* A row is added behind those of earlier trials.
LEMMA RowCollected ==
  ASSUME Types, RowsTrue, ErrorsTrue, UNCHANGED <<study, fate, errors>>,
         NEW i \in Trials, Shows(i).kind = "ok", \A j \in Settled : j < i,
         rows' = Append(rows, RowOf(i, Shows(i)))
  PROVE  /\ rows' \in Seq(RowType) /\ RowsTrue' /\ ErrorsTrue'
         /\ Settled' = Settled \union {i}
<1> DEFINE row == RowOf(i, Shows(i))
           n == Len(rows)
<1>1. Shows(i) \in Endings \union {EmptySummary}
  BY EndingKinds, ShowsOwn DEF Types
<1>2. row \in RowType /\ row.trial = i
  BY <1>1, RowTyped DEF Types
<1> HIDE DEF row
<1>3. /\ n \in Nat /\ DOMAIN rows = 1..n /\ DOMAIN rows' = 1..(n + 1)
      /\ rows' \in Seq(RowType)
      /\ \A k \in 1..n : rows'[k] = rows[k]
      /\ rows'[n + 1] = row
  BY <1>2 DEF Types, row
<1> HIDE DEF n
<1>4. \A k \in 1..(n + 1) : /\ Shows(rows'[k].trial).kind = "ok"
                            /\ rows'[k] = RowOf(rows'[k].trial, Shows(rows'[k].trial))
  BY <1>2, <1>3 DEF RowsTrue, row
<1>5. \A k \in 1..n : rows[k].trial \in Settled /\ rows[k].trial \in Trials
  BY <1>3, SettledTrials
<1>6. \A k, l \in 1..(n + 1) : k < l => rows'[k].trial < rows'[l].trial
  <2> SUFFICES ASSUME NEW k \in 1..(n + 1), NEW l \in 1..(n + 1), k < l
               PROVE  rows'[k].trial < rows'[l].trial
    OBVIOUS
  <2>1. CASE l = n + 1
    BY <1>2, <1>3, <1>5, <2>1
  <2>2. CASE l # n + 1
    BY <1>3, <2>2 DEF RowsTrue
  <2> QED
    BY <2>1, <2>2
<1>7. RowsTrue'
  BY <1>3, <1>4, <1>6 DEF RowsTrue, RowOf, GroupOf, Shows
<1>8. {rows'[k].trial : k \in DOMAIN rows'} = {rows[k].trial : k \in DOMAIN rows} \union {i}
  BY <1>2, <1>3
<1>9. ErrorsTrue'
  BY DEF ErrorsTrue
<1>10. Settled' = Settled \union {i}
  BY <1>8 DEF Settled
<1> QED
  BY <1>3, <1>7, <1>9, <1>10

\* An error is added.
LEMMA ErrorCollected ==
  ASSUME Types, RowsTrue, ErrorsTrue, UNCHANGED <<study, rows>>,
         NEW i \in Trials, fate'[i] # Pending, fate'[i].kind # "ok",
         \A j \in Settled : fate'[j] = fate[j],
         errors' = Append(errors, i) \/ errors' = errors \o <<i, i>>
  PROVE  /\ errors' \in Seq(Trials) /\ RowsTrue' /\ ErrorsTrue'
         /\ Settled' = Settled \union {i}
<1> DEFINE n == Len(errors)
<1>1. /\ n \in Nat /\ DOMAIN errors = 1..n /\ errors \in Seq(Trials)
  BY DEF Types
<1>2. errors' \in Seq(Trials)
  <2>1. CASE errors' = Append(errors, i)
    BY <1>1, <2>1
  <2>2. CASE errors' = errors \o <<i, i>>
    <3>1. <<i, i>> \in Seq(Trials)
      OBVIOUS
    <3> QED
      BY <1>1, <2>2, <3>1
  <2> QED
    BY <2>1, <2>2
<1>3. /\ n + 1 \in DOMAIN errors'
      /\ \A k \in DOMAIN errors' : IF k \in 1..n THEN errors'[k] = errors[k] ELSE errors'[k] = i
      /\ 1..n \subseteq DOMAIN errors'
      /\ errors'[n + 1] = i
  <2>1. CASE errors' = Append(errors, i)
    BY <1>1, <2>1
  <2>2. CASE errors' = errors \o <<i, i>>
    BY <1>1, <2>2
  <2> QED
    BY <2>1, <2>2
<1> HIDE DEF n
<1>4. /\ \A k \in DOMAIN rows : fate'[rows[k].trial] = fate[rows[k].trial]
      /\ \A k \in DOMAIN errors : fate'[errors[k]] = fate[errors[k]]
  BY SettledTrials
<1>5. ErrorsTrue'
  BY <1>1, <1>3, <1>4 DEF ErrorsTrue
<1>6. {errors'[k] : k \in DOMAIN errors'} = {errors[k] : k \in DOMAIN errors} \union {i}
  BY <1>1, <1>3
<1>7. RowsTrue'
  BY <1>4 DEF RowsTrue, RowOf, GroupOf, Shows
<1>8. Settled' = Settled \union {i}
  BY <1>6 DEF Settled
<1> QED
  BY <1>2, <1>5, <1>7, <1>8

-----------------------------------------------------------------------------
(* One trial after the other.                                              *)

\* The trial in turn is settled, and the study goes on behind it.
LEMMA OneSettled ==
  ASSUME Inv, ~study.headless, UNCHANGED <<study, results>>,
         stage \in {"next", "wait"}, thread' = "none",
         fate' \in [Trials -> Endings \union {Pending}],
         rows' \in Seq(RowType), errors' \in Seq(Trials),
         RowsTrue', ErrorsTrue', Settled' = Settled \union {next},
         \A i \in Trials : fate'[i] # Pending <=> fate[i] # Pending \/ i = next,
         NEW j \in Nat \ {0}, next < j, NEW c, GoesOn(j, c)
  PROVE  Inv'
<1>1. /\ study \in StudyPlans /\ next \in Trials /\ next \in Nat
      /\ Trials' = Trials /\ RowType' = RowType
  BY TrialNumbers DEF Inv, Types, InTurn, Trials, RowType
<1>2. Types'
  BY <1>1 DEF Inv, Types, GoesOn
<1>3. stage' \in {"next", "conclude"} /\ (stage' = "next" => next' \in Trials)
  BY <1>1, TrialNumbers DEF GoesOn
<1>4. InTurn'
  <2>1. \A i \in Settled' : i < next'
    <3>1. \A i \in Settled : i < next /\ i \in Nat
      BY <1>1, SettledTrials, TrialNumbers DEF Inv, InTurn
    <3> QED
      BY <1>1, <3>1 DEF GoesOn
  <2>2. \A i \in Trials : fate'[i] # Pending <=> i \in Settled'
    BY DEF Inv, InTurn
  <2> QED
    BY <1>1, <1>3, <2>1, <2>2 DEF InTurn
<1>5. Waiting'
  BY <1>3 DEF Waiting
<1> QED
  BY <1>2, <1>4, <1>5 DEF Inv

LEMMA StartStep == ASSUME Inv, Start PROVE Inv'
<1>1. /\ Types /\ RowsTrue /\ ErrorsTrue /\ InTurn /\ Waiting
      /\ stage = "next" /\ ~study.headless /\ thread = "none"
      /\ UNCHANGED <<study, results, rows>>
  BY DEF Inv, InTurn, Start
<1>2. next \in Trials /\ next \in Nat /\ Trials' = Trials /\ RowType' = RowType
  BY <1>1, TrialNumbers DEF Types, InTurn, Trials, RowType
<1>3. next \notin Settled /\ fate[next] = Pending
  BY <1>1, <1>2 DEF InTurn
<1>4. /\ next + 1 \in Nat \ {0} /\ next < next + 1
      /\ AfterFailure(next) \in Nat \ {0} /\ next < AfterFailure(next)
  BY <1>1, <1>2, TrialNumbers DEF Types
<1>5. ASSUME GroupOf(next) \in study.invalid, thread' = thread,
             fate' = [fate EXCEPT ![next] = Failure("invalid")],
             errors' = Append(errors, next) \/ errors' = errors \o <<next, next>>,
             NEW j \in Nat \ {0}, next < j, GoesOn(j, rows)
      PROVE  Inv'
  <2>1. fate' \in [Trials -> Endings \union {Pending}]
    BY <1>1, <1>5, EndingKinds DEF Types
  <2>2. fate'[next] = Failure("invalid") /\ \A i \in Trials \ {next} : fate'[i] = fate[i]
    BY <1>1, <1>2, <1>5 DEF Types
  <2>3. fate'[next] # Pending /\ fate'[next].kind # "ok"
    BY <2>2, EndingKinds
  <2>4. \A i \in Settled : fate'[i] = fate[i]
    BY <1>1, <1>3, <2>2, SettledTrials
  <2>5. /\ errors' \in Seq(Trials) /\ RowsTrue' /\ ErrorsTrue'
        /\ Settled' = Settled \union {next}
    BY <1>1, <1>2, <1>5, <2>3, <2>4, ErrorCollected
  <2>6. \A i \in Trials : fate'[i] # Pending <=> fate[i] # Pending \/ i = next
    BY <2>2, <2>3
  <2> QED
    BY <1>1, <1>5, <2>1, <2>5, <2>6, OneSettled DEF Types
<1>6. ASSUME UNCHANGED <<fate, errors>>
      PROVE  RowsTrue' /\ ErrorsTrue' /\ Settled' = Settled
  BY <1>1, <1>6, NothingCollected
<1>7. CASE study.kind = "monte_carlo" /\ study.reports
  <2>1. CASE GroupOf(next) \in study.invalid
    BY <1>1, <1>4, <1>5, <1>7, <2>1 DEF Start
  <2>2. CASE GroupOf(next) \notin study.invalid
    <3>1. UNCHANGED <<fate, errors, thread>> /\ GoesOn(next + 1, rows)
      BY <1>7, <2>2 DEF Start
    <3>2. stage' \in {"next", "conclude"} /\ (stage' = "next" => next' \in Trials)
      BY <1>1, <1>4, <3>1, TrialNumbers DEF GoesOn, Types
    <3>3. \A i \in Settled : i < next'
      <4>1. \A i \in Settled : i < next /\ i \in Nat
        BY <1>1, SettledTrials, TrialNumbers DEF InTurn, Types
      <4> QED
        BY <1>2, <3>1, <4>1 DEF GoesOn
    <3>4. Types' /\ InTurn' /\ Waiting'
      BY <1>1, <1>2, <1>4, <1>6, <3>1, <3>2, <3>3 DEF Types, InTurn, Waiting, GoesOn
    <3> QED
      BY <1>1, <1>6, <3>1, <3>4 DEF Inv
  <2> QED
    BY <2>1, <2>2
<1>8. CASE ~(study.kind = "monte_carlo" /\ study.reports) /\ GroupOf(next) \in study.invalid
  <2>1. \/ errors' = Append(errors, next)
        \/ errors' = errors \o <<next, next>>
    <3>1. \/ errors' = errors \o <<next, next>>
          \/ errors' = errors \o <<next>>
      BY <1>8 DEF Start
    <3>2. errors \o <<next>> = Append(errors, next)
      BY <1>1, <1>2 DEF Types
    <3> QED
      BY <3>1, <3>2
  <2>2. thread' = thread /\ fate' = [fate EXCEPT ![next] = Failure("invalid")]
        /\ GoesOn(AfterFailure(next), rows)
    BY <1>8 DEF Start
  <2> QED
    BY <1>4, <1>5, <1>8, <2>1, <2>2
<1>9. CASE ~(study.kind = "monte_carlo" /\ study.reports) /\ GroupOf(next) \notin study.invalid
  <2>1. /\ thread' = "running" /\ poll' = "begin" /\ stage' = "wait"
        /\ UNCHANGED <<next, fate, errors>>
    BY <1>9 DEF Start
  <2>2. fate[next] # Failure("invalid")
    BY <1>3, EndingKinds
  <2>3. Types' /\ InTurn' /\ Waiting'
    BY <1>1, <1>2, <1>6, <2>1, <2>2 DEF Types, InTurn, Waiting
  <2> QED
    BY <1>1, <1>6, <2>1, <2>3 DEF Inv
<1> QED
  BY <1>7, <1>8, <1>9

\* The thread of the trial in turn ends, or dies.
LEMMA ThreadStep == ASSUME Inv, ThreadEnds \/ ThreadCloses PROVE Inv'
<1>1. /\ ~study.headless /\ Types /\ RowsTrue /\ ErrorsTrue /\ InTurn /\ Waiting
      /\ stage = "wait"
      /\ UNCHANGED <<study, stage, next, poll, results, rows, errors>>
  BY DEF Inv, InPool, InTurn, ThreadEnds, ThreadCloses
<1>2. next \in Trials /\ next \in Nat /\ Trials' = Trials /\ RowType' = RowType
  BY <1>1, TrialNumbers DEF Types, InTurn, Trials, RowType
<1>3. next \notin Settled
  BY <1>1, <1>2 DEF InTurn
<1>4. PICK f \in Endings \union {Pending} :
        /\ fate' = [fate EXCEPT ![next] = f]
        /\ f # Pending
        /\ thread' \in {"closing", "finished", "dead"}
        /\ thread' = "dead" => f \in {Failure("error"), Failure("dead")}
        /\ f # Failure("invalid")
        /\ thread # "running" \/ thread' = "closing"
        /\ poll = "again?" => thread' \in {"finished", "dead"}
  <2>1. CASE ThreadEnds
    <3>1. PICK f \in Outcomes : fate' = [fate EXCEPT ![next] = f]
      BY <2>1 DEF ThreadEnds
    <3>2. f \in Endings /\ f # Pending /\ f # Failure("invalid")
      BY <3>1, EndingKinds DEF Outcomes, Success, Failure
    <3>3. thread' = "closing" /\ thread = "running"
      BY <2>1 DEF ThreadEnds
    <3> QED
      BY <1>1, <3>1, <3>2, <3>3 DEF Waiting
  <2>2. CASE ThreadCloses
    <3>1. thread = "closing" /\ fate[next] # Pending /\ fate[next] \in Endings \union {Pending}
      BY <1>1, <1>2, <2>2 DEF ThreadCloses, InTurn, Types
    <3>2. CASE thread' = "finished" /\ UNCHANGED fate
      <4>1. fate' = [fate EXCEPT ![next] = fate[next]]
        BY <1>1, <3>2 DEF Types
      <4> QED
        BY <1>1, <3>1, <3>2, <4>1 DEF Waiting
    <3>3. CASE /\ thread' = "dead"
               /\ fate' = IF fate[next].kind = "ok"
                          THEN [fate EXCEPT ![next] = Failure("dead")] ELSE fate
      <4>1. CASE fate[next].kind = "ok"
        BY <3>1, <3>3, <4>1, EndingKinds
      <4>2. CASE fate[next].kind # "ok"
        <5>1. fate[next] \in {Failure("error"), Failure("dead")}
          BY <1>1, <3>1, <4>2, EndingKinds DEF Waiting
        <5>2. fate' = [fate EXCEPT ![next] = fate[next]]
          BY <1>1, <3>3, <4>2 DEF Types
        <5> QED
          BY <3>1, <3>3, <5>1, <5>2, EndingKinds
      <4> QED
        BY <4>1, <4>2
    <3> QED
      BY <2>2, <3>2, <3>3 DEF ThreadCloses
  <2> QED
    BY <2>1, <2>2
<1>5. fate'[next] = f /\ \A i \in Trials \ {next} : fate'[i] = fate[i]
  BY <1>1, <1>2, <1>4 DEF Types
<1>6. RowsTrue' /\ ErrorsTrue' /\ Settled' = Settled
  <2>1. \A i \in Settled : fate'[i] = fate[i]
    BY <1>1, <1>3, <1>5, SettledTrials
  <2> QED
    BY <1>1, <2>1, NothingCollected
<1>7. Types'
  BY <1>1, <1>2, <1>4 DEF Types
<1>8. InTurn'
  <2>1. \A i \in Trials : fate'[i] # Pending <=> i \in Settled \/ i = next
    BY <1>1, <1>4, <1>5 DEF InTurn
  <2> QED
    BY <1>1, <1>2, <1>4, <1>6, <2>1 DEF InTurn
<1>9. Waiting'
  BY <1>1, <1>4, <1>5 DEF Waiting
<1> QED
  BY <1>1, <1>6, <1>7, <1>8, <1>9 DEF Inv

\* The trial counts as failed: it did not end well.
LEMMA FailsStep ==
  ASSUME Inv, stage = "wait", ~study.headless, Fails,
         UNCHANGED <<study, fate, results>>, thread' = "none",
         fate[next] # Pending, fate[next].kind # "ok"
  PROVE  Inv'
<1>1. Types /\ RowsTrue /\ ErrorsTrue /\ InTurn /\ next \in Trials
  BY DEF Inv, InTurn
<1>2. /\ errors' \in Seq(Trials) /\ RowsTrue' /\ ErrorsTrue'
      /\ Settled' = Settled \union {next}
  BY <1>1, ErrorCollected DEF Fails
<1>3. AfterFailure(next) \in Nat \ {0} /\ next < AfterFailure(next)
  BY <1>1, TrialNumbers DEF Types
<1>4. fate' \in [Trials -> Endings \union {Pending}] /\ rows' \in Seq(RowType)
  BY <1>1 DEF Types, Fails
<1> QED
  BY <1>2, <1>3, <1>4, OneSettled DEF Fails

\* The trial in turn gets a row.
LEMMA CountsStep ==
  ASSUME Inv, stage = "wait", ~study.headless, fate[next] # Pending,
         Shows(next).kind = "ok", Counts(Shows(next)),
         UNCHANGED <<study, fate, results>>, thread' = "none"
  PROVE  Inv'
<1>1. Types /\ RowsTrue /\ ErrorsTrue /\ InTurn /\ next \in Trials
  BY DEF Inv, InTurn
<1>2. rows' = Append(rows, RowOf(next, Shows(next))) /\ UNCHANGED errors /\ GoesOn(next + 1, rows')
  BY DEF Counts
<1>3. /\ rows' \in Seq(RowType) /\ RowsTrue' /\ ErrorsTrue'
      /\ Settled' = Settled \union {next}
  BY <1>1, <1>2, RowCollected DEF InTurn
<1>4. next + 1 \in Nat \ {0} /\ next < next + 1
  BY <1>1 DEF Types
<1>5. fate' \in [Trials -> Endings \union {Pending}] /\ errors' \in Seq(Trials)
  BY <1>1, <1>2 DEF Types
<1> QED
  BY <1>2, <1>3, <1>4, <1>5, OneSettled

\* The study takes the result of the trial, or notes that it failed.
LEMMA ConcludesStep ==
  ASSUME Inv, stage = "wait", ~study.headless,
         Concludes \/ (study.kind = "study" /\ Analyzes),
         UNCHANGED <<study, fate, results>>, thread' = "none", ~Active
  PROVE  Inv'
<1>1. Types /\ InTurn /\ Waiting /\ next \in Trials
  BY DEF Inv, InTurn
<1>2. fate[next] # Pending /\ fate[next] \in Endings /\ fate[next] # Failure("invalid")
  BY <1>1 DEF InTurn, Waiting, Active, Types
<1>3. CASE fate[next].kind = "ok"
  <2>1. Counts(fate[next])
    BY <1>3 DEF Concludes, Analyzes
  <2>2. Shows(next) = fate[next]
    BY <1>2, <1>3, ShowsOwn
  <2> QED
    BY <1>2, <1>3, <2>1, <2>2, CountsStep
<1>4. CASE fate[next].kind # "ok" /\ Concludes
  BY <1>2, <1>4, FailsStep DEF Concludes
<1>5. CASE fate[next].kind = "error" /\ Analyzes
  BY <1>2, <1>5, FailsStep DEF Analyzes
<1>6. CASE fate[next].kind = "dead" /\ study.kind = "study" /\ Analyzes
  <2>1. Counts(EmptySummary)
    BY <1>6 DEF Analyzes
  <2>2. Shows(next) = EmptySummary
    BY <1>2, <1>6, EndingKinds DEF Shows
  <2> QED
    BY <1>2, <2>1, <2>2, EndingKinds, CountsStep
<1> QED
  BY <1>2, <1>3, <1>4, <1>5, <1>6, EndingKinds

LEMMA PollStep == ASSUME Inv, Poll PROVE Inv'
<1>1. /\ stage = "wait" /\ ~study.headless /\ Types /\ RowsTrue /\ ErrorsTrue
      /\ InTurn /\ Waiting /\ UNCHANGED <<study, fate, results>>
      /\ thread' = IF poll' = "none" THEN "none" ELSE thread
  BY DEF Inv, InPool, InTurn, Poll
<1>2. ASSUME NEW step \in {"finished?", "active?", "again?"}, PollTo(step),
             step = "again?" => thread \in {"finished", "dead"}
      PROVE  Inv'
  <2>1. UNCHANGED <<study, stage, next, thread, fate, results, rows, errors>> /\ poll' = step
    BY <1>1, <1>2 DEF PollTo
  <2>2. RowsTrue' /\ ErrorsTrue' /\ Settled' = Settled /\ Trials' = Trials /\ RowType' = RowType
    BY <1>1, <2>1, NothingCollected DEF Trials, RowType
  <2>3. Types' /\ InTurn' /\ Waiting'
    BY <1>1, <1>2, <2>1, <2>2 DEF Types, InTurn, Waiting
  <2> QED
    BY <1>1, <2>1, <2>2, <2>3 DEF Inv
<1>3. ASSUME Fails, poll' = "none", thread = "dead" PROVE Inv'
  <2>1. fate[next] # Pending /\ fate[next].kind # "ok"
    BY <1>1, <1>3, EndingKinds DEF InTurn, Waiting
  <2> QED
    BY <1>1, <1>3, <2>1, FailsStep
<1>4. CASE Begins
  BY <1>2, <1>4 DEF Begins
<1>5. CASE Vanished
  BY <1>1, <1>3, <1>5 DEF Vanished, Active, Finished, Waiting
<1>6. CASE SeesEnd
  BY <1>1, <1>6, ConcludesStep DEF SeesEnd, Finished, Active
<1>7. CASE SeesNoEnd
  BY <1>2, <1>7 DEF SeesNoEnd
<1>8. CASE SeesWork
  BY <1>2, <1>8 DEF SeesWork
<1>9. CASE SeesRest
  BY <1>1, <1>2, <1>9 DEF SeesRest, Active, Waiting
<1>10. CASE GivesTrialUp
  BY <1>1, <1>3, <1>10 DEF GivesTrialUp, Finished, Waiting
<1>11. CASE StudyGoesOn
  BY <1>1, <1>11, ConcludesStep DEF StudyGoesOn
<1> QED
  BY <1>4, <1>5, <1>6, <1>7, <1>8, <1>9, <1>10, <1>11 DEF Poll

-----------------------------------------------------------------------------
(* A pool.                                                                 *)

\* Trials end in the pool: those whose results are there stay as they are.
LEMMA EndsInPool ==
  ASSUME Inv, stage = "pool", stage' \in {"pool", "failed"},
         UNCHANGED <<study, next, thread, poll, results, rows, errors>>,
         fate' \in [Trials -> Endings \union {Pending}],
         \A i \in Trials : fate[i] # Pending => fate'[i] = fate[i]
  PROVE  Inv'
<1>1. Types /\ RowsTrue /\ ErrorsTrue /\ InPool /\ study.headless
  BY DEF Inv, InTurn
<1>2. Settled = {}
  BY <1>1 DEF InPool, Settled
<1>3. RowsTrue' /\ ErrorsTrue'
  BY <1>1, <1>2, NothingCollected
<1>4. Types'
  BY <1>1 DEF Types, Trials, RowType, GroupOf
<1>5. InPool'
  BY <1>1 DEF InPool, Trials
<1> QED
  BY <1>1, <1>3, <1>4, <1>5 DEF Inv

LEMMA PoolStep ==
  ASSUME Inv, StartHeadless \/ TrialEnds \/ PoolBreaks \/ SubmitRaises
  PROVE  Inv'
<1>1. Types /\ RowsTrue /\ ErrorsTrue
  BY DEF Inv
<1>2. CASE StartHeadless
  <2>1. InPool /\ study.headless /\ stage' = "pool"
        /\ UNCHANGED <<study, next, thread, poll, fate, results, rows, errors>>
    BY <1>2 DEF Inv, StartHeadless
  <2>2. RowsTrue' /\ ErrorsTrue'
    BY <1>1, <2>1, NothingCollected
  <2>3. Types' /\ InPool'
    BY <1>1, <1>2, <2>1 DEF Types, Trials, RowType, GroupOf, InPool, StartHeadless
  <2> QED
    BY <2>1, <2>2, <2>3 DEF Inv
<1>3. CASE TrialEnds
  <2>1. PICK i \in InHand : \E f \in Outcomes : fate' = [fate EXCEPT ![i] = f]
    BY <1>3 DEF TrialEnds, Outcomes
  <2>2. PICK f \in Outcomes : fate' = [fate EXCEPT ![i] = f]
    BY <2>1
  <2>3. i \in Trials /\ fate[i] = Pending
    BY DEF InHand
  <2>4. fate' \in [Trials -> Endings \union {Pending}]
    BY <1>1, <2>2, EndingKinds DEF Types
  <2>5. \A j \in Trials : fate[j] # Pending => fate'[j] = fate[j]
    BY <1>1, <2>2, <2>3 DEF Types
  <2> QED
    BY <1>3, <2>4, <2>5, EndsInPool DEF TrialEnds
<1>4. CASE PoolBreaks \/ SubmitRaises
  <2>1. fate' = [j \in Trials |-> IF fate[j] = Pending THEN Failure("dead") ELSE fate[j]]
    BY <1>4 DEF PoolBreaks, SubmitRaises
  <2>2. fate' \in [Trials -> Endings \union {Pending}]
    BY <1>1, <2>1, EndingKinds DEF Types
  <2>3. \A j \in Trials : fate[j] # Pending => fate'[j] = fate[j]
    BY <2>1
  <2> QED
    BY <1>4, <2>2, <2>3, EndsInPool DEF PoolBreaks, SubmitRaises
<1> QED
  BY <1>2, <1>3, <1>4

\* A result goes to the place of its own trial.
LEMMA CollectStep == ASSUME Inv, Collect PROVE Inv'
<1>1. /\ Types /\ RowsTrue /\ ErrorsTrue /\ InPool /\ study.headless /\ stage = "pool"
      /\ UNCHANGED <<study, stage, next, thread, poll, fate, rows, errors>>
  BY DEF Inv, InTurn, Collect
<1>2. PICK i \in Trials : fate[i] # Pending /\ results' = [results EXCEPT ![i] = fate[i]]
  BY DEF Collect, Place
<1>3. RowsTrue' /\ ErrorsTrue'
  BY <1>1, NothingCollected
<1>4. Types'
  <2>1. fate[i] \in Endings \union {Pending} /\ Trials' = Trials /\ RowType' = RowType
    BY <1>1 DEF Types, Trials, RowType
  <2> QED
    BY <1>1, <1>2, <2>1 DEF Types
<1>5. InPool'
  <2>1. \A j \in Trials : results'[j] # Pending => results'[j] = fate[j]
    BY <1>1, <1>2 DEF InPool, Types
  <2> QED
    BY <1>1, <2>1 DEF InPool, Trials
<1> QED
  BY <1>1, <1>3, <1>4, <1>5 DEF Inv

\* Specifications and results are paired: every trial is a row or an error.
LEMMA PairStep == ASSUME Inv, Pair PROVE Inv'
<1> DEFINE good == {i \in Trials : results[i].kind = "ok"}
           bad == Trials \ good
           n == Cardinality(good)
           m == Cardinality(bad)
           order == InOrder(good)
           others == InOrder(bad)
<1>1. /\ Types /\ RowsTrue /\ ErrorsTrue /\ InPool /\ study.headless
      /\ Collected = Trials /\ stage' = "conclude"
      /\ rows' = [k \in DOMAIN order |-> RowOf(order[k], results[order[k]])]
      /\ errors' = others
      /\ UNCHANGED <<study, next, thread, poll, fate, results>>
  BY DEF Inv, InTurn, Pair
<1>2. Trials' = Trials /\ RowType' = RowType
  BY <1>1 DEF Trials, RowType
<1>3. good \in SUBSET Nat /\ IsFiniteSet(good) /\ bad \in SUBSET Nat /\ IsFiniteSet(bad)
  BY <1>1, TrialNumbers, FS_Subset DEF Types
<1>4. \A i \in Trials : results[i] # Pending /\ results[i] = fate[i] /\ fate[i] \in Endings
  <2>1. \A i \in Trials : results[i].kind # "none"
    BY <1>1 DEF Collected
  <2>2. \A i \in Trials : results[i] # Pending /\ results[i] = fate[i]
    BY <1>1, <2>1, EndingKinds DEF InPool
  <2> QED
    BY <1>1, <2>2 DEF Types
<1>5. /\ \A i \in good : i \in Trials /\ fate[i].kind = "ok"
      /\ \A i \in bad : i \in Trials /\ fate[i].kind # "ok" /\ fate[i] # Pending
  BY <1>4
<1>6. good \union bad = Trials
  OBVIOUS
<1>7. /\ n \in Nat /\ order \in [1..n -> good]
      /\ \A k, l \in 1..n : k < l => order[k] < order[l]
      /\ \A i \in good : \E k \in 1..n : order[k] = i
      /\ m \in Nat /\ others \in [1..m -> bad]
      /\ \A i \in bad : \E k \in 1..m : others[k] = i
  BY <1>3, InOrderLists
<1> HIDE DEF good, bad, n, m, order, others
<1>8. /\ DOMAIN rows' = 1..n
      /\ \A k \in 1..n : /\ rows'[k] = RowOf(order[k], fate[order[k]])
                         /\ rows'[k] \in RowType /\ rows'[k].trial = order[k]
                         /\ order[k] \in Trials /\ fate[order[k]].kind = "ok"
                         /\ Shows(order[k]) = fate[order[k]]
  <2>1. DOMAIN rows' = 1..n
    BY <1>1, <1>7
  <2>2. ASSUME NEW k \in 1..n
        PROVE  /\ rows'[k] = RowOf(order[k], fate[order[k]])
               /\ rows'[k] \in RowType /\ rows'[k].trial = order[k]
               /\ order[k] \in Trials /\ fate[order[k]].kind = "ok"
               /\ Shows(order[k]) = fate[order[k]]
    <3>1. order[k] \in good /\ order[k] \in Trials /\ fate[order[k]].kind = "ok"
      BY <1>5, <1>7
    <3>2. fate[order[k]] \in Endings /\ results[order[k]] = fate[order[k]]
      BY <1>4, <3>1
    <3>3. rows'[k] = RowOf(order[k], fate[order[k]])
      BY <1>1, <1>7, <3>2
    <3> QED
      BY <1>1, <3>1, <3>2, <3>3, RowTyped, ShowsOwn DEF Types
  <2> QED
    BY <2>1, <2>2
<1>9. RowsTrue'
  <2>1. \A k \in DOMAIN rows' : /\ Shows(rows'[k].trial).kind = "ok"
                                /\ rows'[k] = RowOf(rows'[k].trial, Shows(rows'[k].trial))
    BY <1>1, <1>8
  <2>2. \A k, l \in DOMAIN rows' : k < l => rows'[k].trial < rows'[l].trial
    BY <1>7, <1>8
  <2> QED
    BY <1>1, <2>1, <2>2 DEF RowsTrue, RowOf, GroupOf, Shows
<1>10. ErrorsTrue'
  BY <1>1, <1>5, <1>7 DEF ErrorsTrue
<1>11. Types'
  <2>1. rows' \in Seq(RowType)
    <3>1. rows' \in [1..n -> RowType]
      BY <1>1, <1>7, <1>8
    <3> QED
      BY <1>7, <3>1
  <2>2. errors' \in Seq(Trials)
    <3>1. errors' \in [1..m -> Trials]
      BY <1>1, <1>5, <1>7
    <3> QED
      BY <1>7, <3>1
  <2> QED
    BY <1>1, <1>2, <2>1, <2>2 DEF Types
<1>12. Settled' = Trials
  <2>1. {rows'[k].trial : k \in DOMAIN rows'} = good
    BY <1>7, <1>8
  <2>2. {errors'[k] : k \in DOMAIN errors'} = bad
    BY <1>1, <1>7
  <2> QED
    BY <1>6, <2>1, <2>2 DEF Settled
<1>13. InPool'
  BY <1>1, <1>2, <1>12 DEF InPool
<1> QED
  BY <1>1, <1>9, <1>10, <1>11, <1>13 DEF Inv

-----------------------------------------------------------------------------
\* The summary is drawn, or nothing happens.
LEMMA RestStep ==
  ASSUME Inv, Conclude \/ UNCHANGED studyVars
  PROVE  Inv'
<1>1. /\ UNCHANGED <<study, next, thread, poll, fate, results, rows, errors>>
      /\ stage' = stage \/ (stage = "conclude" /\ stage' = "ended")
  BY DEF Conclude, studyVars
<1>2. Types /\ RowsTrue /\ ErrorsTrue
  BY DEF Inv
<1>3. Types' /\ RowsTrue' /\ ErrorsTrue' /\ Settled' = Settled /\ Trials' = Trials
  BY <1>1, <1>2, NothingCollected DEF Types, Trials, RowType
<1>4. ~study.headless => InTurn' /\ Waiting'
  BY <1>1, <1>3 DEF Inv, InTurn, Waiting
<1>5. study.headless => InPool'
  BY <1>1, <1>3 DEF Inv, InPool
<1> QED
  BY <1>1, <1>3, <1>4, <1>5 DEF Inv

LEMMA InvHolds == StudySpec => []Inv
<1>1. ASSUME StudyInit PROVE Inv
  <2>1. /\ study \in StudyPlans /\ next = 1 /\ stage = "next" /\ thread = "none"
        /\ rows = <<>> /\ errors = <<>>
        /\ fate = [i \in Trials |-> Pending] /\ results = [i \in Trials |-> Pending]
    BY <1>1 DEF StudyInit
  <2>2. 1 \in Trials
    BY <2>1, TrialNumbers
  <2>3. Settled = {} /\ RowsTrue /\ ErrorsTrue
    BY <2>1 DEF Settled, RowsTrue, ErrorsTrue
  <2>4. Types
    BY <2>1 DEF Types
  <2>5. InTurn /\ Waiting
    BY <2>1, <2>2, <2>3 DEF InTurn, Waiting
  <2>6. InPool
    BY <2>1 DEF InPool
  <2> QED
    BY <2>3, <2>4, <2>5, <2>6 DEF Inv
<1>2. ASSUME Inv, [StudyNext]_studyVars PROVE Inv'
  <2>1. CASE Start
    BY <1>2, <2>1, StartStep
  <2>2. CASE ThreadEnds \/ ThreadCloses
    BY <1>2, <2>2, ThreadStep
  <2>3. CASE Poll
    BY <1>2, <2>3, PollStep
  <2>4. CASE StartHeadless \/ TrialEnds \/ PoolBreaks \/ SubmitRaises
    BY <1>2, <2>4, PoolStep
  <2>5. CASE Collect
    BY <1>2, <2>5, CollectStep
  <2>6. CASE Pair
    BY <1>2, <2>6, PairStep
  <2>7. CASE Conclude \/ UNCHANGED studyVars
    BY <1>2, <2>7, RestStep
  <2> QED
    BY <1>2, <2>1, <2>2, <2>3, <2>4, <2>5, <2>6, <2>7 DEF StudyNext, StudyEnded
<1> QED
  BY <1>1, <1>2, PTL DEF StudySpec

\* Whatever the studies, the pool and the order in which trials end: the rows
\* of a study are the metrics of its own trials, in their order; a trial whose
\* thread ends while _execute_trial looks away is not taken for a failure; and
\* every trial that was run is in the end a row or an error.  A row without
\* metrics behind it is one of StudyRunner's, for a thread that died; the other
\* studies have no such row.
THEOREM ResultsCollected == StudySpec => []ResultsMatch
<1>1. ASSUME Inv PROVE ResultsMatch
  <2>1. Types /\ RowsTrue /\ ErrorsTrue
    BY <1>1 DEF Inv
  <2>2. \A i \in Settled : i \in Trials /\ fate[i] # Pending
    <3>1. \A k \in DOMAIN rows : fate[rows[k].trial] # Pending
      <4> SUFFICES ASSUME NEW k \in DOMAIN rows PROVE fate[rows[k].trial] # Pending
        OBVIOUS
      <4>1. Shows(rows[k].trial).kind = "ok" /\ fate[rows[k].trial] \in Endings \union {Pending}
        BY <2>1, SettledTrials DEF RowsTrue, Types
      <4> QED
        BY <4>1, ShowsOwn, EndingKinds
    <3> QED
      BY <2>1, <3>1, SettledTrials DEF Settled, ErrorsTrue
  <2>3. stage = "ended" => {i \in Trials : HasEnded(i)} = Settled
    <3>1. CASE study.headless
      BY <1>1, <2>2, <3>1 DEF Inv, InPool, HasEnded
    <3>2. CASE ~study.headless
      BY <1>1, <2>2, <3>2 DEF Inv, InTurn, HasEnded
    <3> QED
      BY <3>1, <3>2
  <2>4. ASSUME NEW k \in DOMAIN rows, NEW i, i = rows[k].trial
        PROVE  \/ Succeeded(i) /\ rows[k] = RowOf(i, fate[i])
               \/ /\ study.kind = "study" /\ fate[i] = Failure("dead")
                  /\ rows[k] = RowOf(i, EmptySummary)
    <3>1. /\ fate[i] \in Endings \union {Pending}
          /\ Shows(i).kind = "ok" /\ rows[k] = RowOf(i, Shows(i))
      BY <2>1, <2>4, SettledTrials DEF RowsTrue, Types
    <3> QED
      BY <3>1, ShowsOwn DEF Succeeded
  <2> QED
    BY <2>1, <2>3, <2>4 DEF ResultsMatch, RowsTrue, ErrorsTrue, Succeeded, HasEnded, Settled
<1> QED
  BY <1>1, InvHolds, PTL

-----------------------------------------------------------------------------
(* Reported progress.                                                      *)

\* What run_trial_specs has reported is the number of results that it has.
Reported ==
  /\ ~study.headless => progress = 0
  /\ study.headless =>
       /\ progress = Cardinality(Collected)
       /\ stage \in {"conclude", "ended"} => Collected = Trials

LEMMA ReportedStep ==
  ASSUME Inv, Inv', Reported, [StudyNext]_studyVars, study.reports => study.headless
  PROVE  Reported'
<1>1. study' = study /\ Trials' = Trials
  BY DEF StudyNext, Start, ThreadEnds, ThreadCloses, Poll, StartHeadless, TrialEnds, PoolBreaks, SubmitRaises,
         Collect, Pair, Conclude, StudyEnded, studyVars, Trials
<1>2. CASE ~study.headless
  <2>1. progress' = progress
    BY <1>2 DEF Inv, InTurn, StudyNext, Start, ThreadEnds, ThreadCloses, Poll, StartHeadless,
         TrialEnds, PoolBreaks, SubmitRaises, Collect, Pair, Conclude, StudyEnded, studyVars
  <2> QED
    BY <1>1, <1>2, <2>1 DEF Reported
<1>3. CASE study.headless /\ Collect
  <2>1. PICK i \in Trials \ Collected :
          fate[i] # Pending /\ results' = [results EXCEPT ![i] = fate[i]]
          /\ progress' = Cardinality(Collected \union {i})
    BY <1>3 DEF Collect, Place, Completed
  <2>2. results \in [Trials -> Endings \union {Pending}] /\ fate[i].kind # "none"
    BY <2>1, EndingKinds DEF Inv, Types
  <2>3. Collected' = Collected \union {i}
    BY <1>1, <2>1, <2>2 DEF Collected
  <2>4. stage' = "pool"
    BY <1>3 DEF Collect
  <2> QED
    BY <1>1, <1>3, <2>1, <2>3, <2>4 DEF Reported
<1>4. CASE study.headless /\ ~Collect
  <2>1. UNCHANGED <<results, progress>>
    BY <1>4 DEF Inv, InPool, StudyNext, Start, ThreadEnds, ThreadCloses, Poll, StartHeadless,
         TrialEnds, PoolBreaks, SubmitRaises, Pair, Conclude, StudyEnded, studyVars
  <2>2. stage' \in {"conclude", "ended"} => Collected = Trials
    BY <1>4 DEF Inv, InPool, Reported, StudyNext, Start, ThreadEnds, ThreadCloses, Poll,
         StartHeadless, TrialEnds, PoolBreaks, SubmitRaises, Pair, Conclude, StudyEnded, studyVars
  <2>3. Collected' = Collected
    BY <1>1, <2>1 DEF Collected
  <2> QED
    BY <1>1, <1>4, <2>1, <2>2, <2>3 DEF Reported
<1> QED
  BY <1>2, <1>3, <1>4

\* Where trials run headless, as progress is reported truly only there: the
\* number that is reported never runs ahead of the trials that have ended, in
\* whichever order results come, and it ends with the number of all trials.
THEOREM ProgressIsTrue ==
  ASSUME \A p \in StudyPlans : p.reports => p.headless
  PROVE  StudySpec => []ProgressTrue
<1>1. ASSUME StudyInit PROVE Reported
  <2>1. study \in StudyPlans /\ progress = 0 /\ stage = "next"
        /\ results = [i \in Trials |-> Pending]
    BY <1>1 DEF StudyInit
  <2>2. Collected = {}
    BY <2>1, EndingKinds DEF Collected
  <2>3. Cardinality(Collected) = 0
    BY <2>2, FS_EmptySet
  <2> QED
    BY <2>1, <2>3 DEF Reported
<1>2. ASSUME Inv, Inv', Reported, [StudyNext]_studyVars PROVE Reported'
  <2>1. study.reports => study.headless
    BY <1>2 DEF Inv, Types
  <2> QED
    BY <1>2, <2>1, ReportedStep
<1>3. ASSUME Inv, Reported PROVE ProgressTrue
  <2> DEFINE ended == {i \in Trials : HasEnded(i)}
  <2>1. /\ study \in StudyPlans /\ (study.reports => study.headless)
        /\ results \in [Trials -> Endings \union {Pending}]
    BY <1>3 DEF Inv, Types
  <2>2. IsFiniteSet(Trials) /\ IsFiniteSet(ended)
    BY <2>1, TrialNumbers, FS_Subset
  <2>3. Cardinality(ended) \in Nat
    BY <2>2, FS_CardinalityType
  <2>4. CASE study.headless
    <3>1. Collected \subseteq ended
      <4>1. ASSUME NEW i \in Collected PROVE i \in ended
        <5>1. i \in Trials /\ results[i] # Pending
          BY <4>1, EndingKinds DEF Collected
        <5>2. fate[i] # Pending
          BY <1>3, <2>4, <5>1 DEF Inv, InPool
        <5> QED
          BY <5>1, <5>2 DEF HasEnded
      <4> QED
        BY <4>1
    <3>2. Cardinality(Collected) <= Cardinality(ended)
      BY <2>2, <3>1, FS_Subset
    <3> QED
      BY <1>3, <2>4, <3>2 DEF Reported, ProgressTrue
  <2>5. CASE ~study.headless
    BY <1>3, <2>1, <2>3, <2>5 DEF Reported, ProgressTrue
  <2> QED
    BY <2>4, <2>5
<1> QED
  BY <1>1, <1>2, <1>3, InvHolds, PTL DEF StudySpec

-----------------------------------------------------------------------------
(* The sum of a metric over rows.                                          *)

AnyOf(s) == CHOOSE x \in s : TRUE

\* f sums a metric over each part of a set, as MapThenSumSet does.
Sums(f, T, metric) ==
  f = [s \in SUBSET T |-> IF s = {} THEN 0
                          ELSE AnyOf(s)[metric] + f[s \ {AnyOf(s)}]]

LEMMA OneLess ==
  ASSUME NEW s, s # {}
  PROVE  AnyOf(s) \in s /\ s \ {AnyOf(s)} \subseteq s /\ s \ {AnyOf(s)} # s
BY DEF AnyOf

\* Two such functions agree.
LEMMA SumsAgree ==
  ASSUME NEW metric, NEW S, IsFiniteSet(S),
         NEW T \in SUBSET S, NEW U \in SUBSET S, NEW f, NEW g,
         Sums(f, T, metric), Sums(g, U, metric)
  PROVE  \A s \in SUBSET (T \cap U) : f[s] = g[s]
<1> DEFINE B == {s \in SUBSET (T \cap U) : f[s] # g[s]}
<1>1. SUFFICES ASSUME B # {} PROVE FALSE
  BY DEF B
<1>2. B \in SUBSET (SUBSET S)
  OBVIOUS
<1>3. PICK s \in B : \A u \in B : u \subseteq s => u = s
  <2> HIDE DEF B
  <2>1. HasMinimal(B)
    BY <1>1, <1>2, MinimalSubset, Zenon
  <2> QED
    BY <2>1 DEF HasMinimal
<1>4. s \in SUBSET T /\ s \in SUBSET U
  BY <1>3
<1>5. CASE s = {}
  BY <1>3, <1>4, <1>5 DEF Sums
<1>6. CASE s # {}
  <2> DEFINE u == s \ {AnyOf(s)}
  <2>1. u \subseteq s /\ u # s
    BY <1>6, OneLess
  <2>2. f[u] = g[u]
    BY <1>3, <2>1
  <2>3. f[s] = AnyOf(s)[metric] + f[u]
    BY <1>4, <1>6 DEF Sums
  <2>4. g[s] = AnyOf(s)[metric] + g[u]
    BY <1>4, <1>6 DEF Sums
  <2> QED
    BY <1>3, <2>2, <2>3, <2>4
<1> QED
  BY <1>5, <1>6

LEMMA SumsExist ==
  ASSUME NEW metric, NEW S, IsFiniteSet(S)
  PROVE  \E f : Sums(f, S, metric)
<1> DEFINE Has(T) == \E f : Sums(f, T, metric)
           B == {T \in SUBSET S : ~Has(T)}
<1>1. SUFFICES ASSUME B # {} PROVE FALSE
  BY DEF B
<1>2. B \in SUBSET (SUBSET S)
  OBVIOUS
<1>3. PICK T \in B : \A U \in B : U \subseteq T => U = T
  <2> HIDE DEF B
  <2>1. HasMinimal(B)
    BY <1>1, <1>2, MinimalSubset, Zenon
  <2> QED
    BY <2>1 DEF HasMinimal
<1> DEFINE G(U) == CHOOSE f : Sums(f, U, metric)
           f == [s \in SUBSET T |-> IF s = {} THEN 0
                   ELSE AnyOf(s)[metric] + G(s \ {AnyOf(s)})[s \ {AnyOf(s)}]]
<1>4. \A U \in SUBSET T : U # T => Sums(G(U), U, metric)
  <2> TAKE U \in SUBSET T
  <2> HAVE U # T
  <2>1. Has(U)
    <3>1. U \in SUBSET S /\ U \notin B
      BY <1>3
    <3> HIDE DEF Has
    <3> QED
      BY <3>1
  <2> QED
    BY <2>1
<1>5. \A s \in SUBSET T : s # {} =>
        f[s \ {AnyOf(s)}] = G(s \ {AnyOf(s)})[s \ {AnyOf(s)}]
  <2> TAKE s \in SUBSET T
  <2> HAVE s # {}
  <2> DEFINE u == s \ {AnyOf(s)}
  <2>1. u \in SUBSET T /\ u # T /\ Sums(G(u), u, metric)
    BY <1>4, OneLess
  <2> HIDE DEF u, G
  <2>2. f[u] = G(u)[u]
    <3>1. CASE u = {}
      BY <2>1, <3>1 DEF Sums
    <3>2. CASE u # {}
      <4> DEFINE w == u \ {AnyOf(u)}
      <4>1. w \subseteq u /\ w # u /\ w \in SUBSET T /\ w # T
        BY <2>1, <3>2, OneLess
      <4>2. Sums(G(w), w, metric)
        BY <1>4, <4>1
      <4>3. u \in SUBSET S /\ w \in SUBSET S /\ w \in SUBSET (u \cap w)
        BY <1>3, <2>1, <4>1
      <4> HIDE DEF w
      <4>4. G(u)[w] = G(w)[w]
        <5> DEFINE a == G(u)
                   b == G(w)
        <5>1. Sums(a, u, metric) /\ Sums(b, w, metric)
          BY <2>1, <4>2
        <5> HIDE DEF a, b
        <5>2. \A s0 \in SUBSET (u \cap w) : a[s0] = b[s0]
          BY <4>3, <5>1, SumsAgree
        <5>3. a[w] = b[w]
          BY <4>3, <5>2
        <5> QED
          BY <5>3 DEF a, b
      <4>5. f[u] = AnyOf(u)[metric] + G(w)[w]
        BY <2>1, <3>2 DEF w
      <4>6. G(u)[u] = AnyOf(u)[metric] + G(u)[w]
        BY <2>1, <3>2 DEF Sums, w
      <4> QED
        BY <4>4, <4>5, <4>6
    <3> QED
      BY <3>1, <3>2
  <2> QED
    BY <2>2 DEF u
<1>6. Sums(f, T, metric)
  <2>1. f = [s \in SUBSET T |-> IF s = {} THEN 0
                          ELSE AnyOf(s)[metric] + f[s \ {AnyOf(s)}]]
    <3> HIDE DEF G
    <3> QED
      BY <1>5
  <2> HIDE DEF f
  <2> QED
    BY <2>1 DEF Sums
<1>7. Has(T)
  <2> HIDE DEF f
  <2> QED
    BY <1>6
<1> QED
  BY <1>3, <1>7

\* The sum of a metric over a finite set of rows is a number, and that of no
\* rows is nothing.
LEMMA SumTyped ==
  ASSUME NEW metric, NEW S, IsFiniteSet(S), \A row \in S : row[metric] \in Nat
  PROVE  Total(metric, S) \in Nat /\ (S = {} => Total(metric, S) = 0)
<1>1. PICK f : Sums(f, S, metric)
  BY SumsExist
<1> DEFINE iter == CHOOSE f0 : Sums(f0, S, metric)
<1>2. Sums(iter, S, metric)
  BY <1>1
<1>3. Total(metric, S) = iter[S]
  BY DEF Total, MapThenSumSet, MapThenFoldSet, Sums, AnyOf
<1> HIDE DEF iter
<1>4. \A s \in SUBSET S : iter[s] \in Nat
  <2> DEFINE B == {s \in SUBSET S : iter[s] \notin Nat}
  <2>1. SUFFICES ASSUME B # {} PROVE FALSE
    BY DEF B
  <2>2. B \in SUBSET (SUBSET S)
    OBVIOUS
  <2>3. PICK s \in B : \A u \in B : u \subseteq s => u = s
    <3> HIDE DEF B
    <3>1. HasMinimal(B)
      BY <2>1, <2>2, MinimalSubset, Zenon
    <3> QED
      BY <3>1 DEF HasMinimal
  <2>4. s # {}
    BY <1>2, <2>3 DEF Sums
  <2> DEFINE u == s \ {AnyOf(s)}
  <2>5. iter[u] \in Nat /\ AnyOf(s)[metric] \in Nat
    BY <2>3, <2>4, OneLess
  <2>6. iter[s] = AnyOf(s)[metric] + iter[u]
    BY <1>2, <2>3, <2>4 DEF Sums
  <2> QED
    BY <2>3, <2>5, <2>6
<1>5. S = {} => iter[S] = 0
  BY <1>2 DEF Sums
<1> QED
  BY <1>3, <1>4, <1>5

-----------------------------------------------------------------------------
(* Averages, and what is ranked by them.                                   *)

Means == {m \in Nat \X Nat : m[2] = 0 => m[1] = 0}

LEMMA TimesLess ==
  ASSUME NEW x \in Int, NEW y \in Int, NEW k \in Nat, x <= y
  PROVE  x * k <= y * k
OBVIOUS

LEMMA TimesMore ==
  ASSUME NEW x \in Int, NEW y \in Int, NEW k \in Nat, k > 0, x * k <= y * k
  PROVE  x <= y
OBVIOUS

\* a >= b and b >= c, as fractions.
LEMMA FractionsCompare ==
  ASSUME NEW a1 \in Nat, NEW a2 \in Nat, NEW b1 \in Nat, NEW b2 \in Nat,
         NEW c1 \in Nat, NEW c2 \in Nat, b2 > 0,
         b1 * a2 <= a1 * b2, c1 * b2 <= b1 * c2
  PROVE  c1 * a2 <= a1 * c2
<1>1. /\ (b1 * a2) * c2 <= (a1 * b2) * c2
      /\ (c1 * b2) * a2 <= (b1 * c2) * a2
  <2>1. /\ b1 * a2 \in Int /\ a1 * b2 \in Int
        /\ c1 * b2 \in Int /\ b1 * c2 \in Int
    OBVIOUS
  <2> QED
    BY <2>1, TimesLess
<1>2. /\ (b1 * c2) * a2 = (b1 * a2) * c2
      /\ (c1 * b2) * a2 = (c1 * a2) * b2
      /\ (a1 * b2) * c2 = (a1 * c2) * b2
  OBVIOUS
<1>3. (c1 * a2) * b2 <= (a1 * c2) * b2
  <2>1. /\ (b1 * a2) * c2 \in Int /\ (c1 * a2) * b2 \in Int /\ (a1 * c2) * b2 \in Int
    OBVIOUS
  <2> QED
    BY <1>1, <1>2, <2>1
<1>4. c1 * a2 \in Int /\ a1 * c2 \in Int
  OBVIOUS
<1> QED
  BY <1>3, <1>4, TimesMore

\* Ranks: some are before others, the rest are equals.
Ranks(W, S) ==
  /\ \A x, y \in S : <<x, y>> \in W => <<y, x>> \notin W
  /\ \A x, y, z \in S : <<x, y>> \notin W /\ <<y, z>> \notin W => <<x, z>> \notin W

\* Equals are told apart by their numbers.
LEMMA RanksOrder ==
  ASSUME NEW S \in SUBSET Nat, NEW W, Ranks(W, S)
  PROVE  Orders({p \in S \X S : p \in W \/ (<<p[2], p[1]>> \notin W /\ p[1] < p[2])}, S)
<1> DEFINE R == {p \in S \X S : p \in W \/ (<<p[2], p[1]>> \notin W /\ p[1] < p[2])}
<1>1. \A x, y \in S : <<x, y>> \in R <=> <<x, y>> \in W \/ (<<y, x>> \notin W /\ x < y)
  OBVIOUS
<1> HIDE DEF R
<1>2. \A x, y \in S : x # y => (<<x, y>> \in R <=> <<y, x>> \notin R)
  <2> SUFFICES ASSUME NEW x \in S, NEW y \in S, x # y
               PROVE  <<x, y>> \in R <=> <<y, x>> \notin R
    OBVIOUS
  <2>1. <<x, y>> \in W => <<y, x>> \notin W
    BY DEF Ranks
  <2>2. (x < y /\ ~(y < x)) \/ (y < x /\ ~(x < y))
    <3>1. x \in Nat /\ y \in Nat
      OBVIOUS
    <3> QED
      BY <3>1
  <2>3. <<x, y>> \in R <=> <<x, y>> \in W \/ (<<y, x>> \notin W /\ x < y)
    BY <1>1
  <2>4. <<y, x>> \in R <=> <<y, x>> \in W \/ (<<x, y>> \notin W /\ y < x)
    BY <1>1
  <2> QED
    BY <2>1, <2>2, <2>3, <2>4
<1>3. \A x, y, z \in S : <<x, y>> \in R /\ <<y, z>> \in R => <<x, z>> \in R
  <2> SUFFICES ASSUME NEW x \in S, NEW y \in S, NEW z \in S, <<x, y>> \in R, <<y, z>> \in R
               PROVE  <<x, z>> \in R
    OBVIOUS
  <2>1. <<y, x>> \notin W /\ <<z, y>> \notin W
    BY <1>1 DEF Ranks
  <2>2. <<z, x>> \notin W
    BY <2>1 DEF Ranks
  <2>3. CASE <<x, y>> \in W \/ <<y, z>> \in W
    BY <1>1, <2>1, <2>3 DEF Ranks
  <2>4. CASE <<x, y>> \notin W /\ <<y, z>> \notin W
    <3>1. x < y /\ y < z /\ x \in Nat /\ y \in Nat /\ z \in Nat
      BY <1>1, <2>4
    <3> QED
      BY <1>1, <2>2, <3>1
  <2> QED
    BY <2>3, <2>4
<1> QED
  BY <1>2, <1>3 DEF Orders, R

\* The first in rank, the smaller number among equals.
LEMMA FirstInRank ==
  ASSUME NEW S \in SUBSET Nat, IsFiniteSet(S), S # {}, NEW W, Ranks(W, S)
  PROVE  \E g \in S : \A h \in S \ {g} : <<g, h>> \in W \/ (<<h, g>> \notin W /\ g < h)
<1> DEFINE R == {p \in S \X S : p \in W \/ (<<p[2], p[1]>> \notin W /\ p[1] < p[2])}
           Q == {p \in S \X S : <<p[2], p[1]>> \in R}
<1>1. Orders(R, S)
  BY RanksOrder
<1>2. \A x, y \in S : /\ <<x, y>> \in Q <=> <<y, x>> \in R
                      /\ <<x, y>> \in R <=> <<x, y>> \in W \/ (<<y, x>> \notin W /\ x < y)
  OBVIOUS
<1> HIDE DEF Q, R
<1>3. Orders(Q, S)
  BY <1>1, <1>2 DEF Orders
<1>4. PICK g \in S : \A h \in S \ {g} : <<h, g>> \in Q
  BY <1>3, LastExists
<1> QED
  BY <1>2, <1>4

LEMMA SortedByRank ==
  ASSUME NEW S \in SUBSET Nat, IsFiniteSet(S), NEW W, Ranks(W, S)
  PROVE  \E q \in [1..Cardinality(S) -> S] : \A k, l \in 1..Cardinality(S) :
           k < l => \/ <<q[k], q[l]>> \in W
                    \/ <<q[l], q[k]>> \notin W /\ q[k] < q[l]
<1> DEFINE R == {p \in S \X S : p \in W \/ (<<p[2], p[1]>> \notin W /\ p[1] < p[2])}
<1>1. Orders(R, S)
  BY RanksOrder
<1>2. \A x, y \in S : <<x, y>> \in R <=> <<x, y>> \in W \/ (<<y, x>> \notin W /\ x < y)
  OBVIOUS
<1> HIDE DEF R
<1>3. PICK q \in [1..Cardinality(S) -> S] : Increasing(q, Cardinality(S), R)
  BY <1>1, OrderExists
<1> QED
  BY <1>2, <1>3 DEF Increasing

\* A comparison of averages ranks them, those that are missing last.
LEMMA MeansCompare ==
  ASSUME NEW direction, NEW a \in Means, NEW b \in Means, NEW c \in Means
  PROVE  /\ Better(direction, a, b) => ~Better(direction, b, a)
         /\ ~Better(direction, a, b) /\ ~Better(direction, b, c) => ~Better(direction, a, c)
<1>1. \A m \in Means : m \in Nat \X Nat /\ m = <<m[1], m[2]>> /\ (m = NoMean <=> m[2] = 0)
  BY DEF Means, NoMean
<1>2. /\ a[1] \in Nat /\ a[2] \in Nat /\ b[1] \in Nat /\ b[2] \in Nat
      /\ c[1] \in Nat /\ c[2] \in Nat
      /\ a[1] * b[2] \in Int /\ b[1] * a[2] \in Int /\ b[1] * c[2] \in Int
      /\ c[1] * b[2] \in Int /\ a[1] * c[2] \in Int /\ c[1] * a[2] \in Int
  BY <1>1
<1>3. Better(direction, a, b) => ~Better(direction, b, a)
  BY <1>2 DEF Better, Less
<1>4. ASSUME ~Better(direction, a, b), ~Better(direction, b, c) PROVE ~Better(direction, a, c)
  <2>1. CASE a = NoMean
    BY <2>1 DEF Better
  <2>2. CASE a # NoMean /\ b = NoMean
    BY <1>4, <2>2 DEF Better
  <2>3. CASE a # NoMean /\ b # NoMean /\ c = NoMean
    BY <1>4, <2>3 DEF Better
  <2>4. CASE a # NoMean /\ b # NoMean /\ c # NoMean
    <3>1. b[2] > 0
      BY <1>1, <1>2, <2>4
    <3>2. CASE direction = "minimize"
      <4>1. b[1] * a[2] <= a[1] * b[2] /\ c[1] * b[2] <= b[1] * c[2]
        BY <1>2, <1>4, <2>4, <3>2 DEF Better, Less
      <4>2. c[1] * a[2] <= a[1] * c[2]
        BY <1>2, <3>1, <4>1, FractionsCompare
      <4> QED
        BY <1>2, <2>4, <3>2, <4>2 DEF Better, Less
    <3>3. CASE direction # "minimize"
      <4>1. a[1] * b[2] <= b[1] * a[2] /\ b[1] * c[2] <= c[1] * b[2]
        BY <1>2, <1>4, <2>4, <3>3 DEF Better, Less
      <4>2. a[1] * c[2] <= c[1] * a[2]
        BY <1>2, <3>1, <4>1, FractionsCompare
      <4> QED
        BY <1>2, <2>4, <3>3, <4>2 DEF Better, Less
    <3> QED
      BY <3>2, <3>3
  <2> QED
    BY <2>1, <2>2, <2>3, <2>4
<1> QED
  BY <1>3, <1>4

-----------------------------------------------------------------------------
(* What the trials have shown, and the averages of it.                     *)

\* A study that draws conclusions has all its rows.
AtEnd == stage \in {"conclude", "ended"} /\ study.kind # "study"

\* In the end a group's rows are what its trials that succeeded have shown.
LEMMA RowsShown ==
  ASSUME Inv, AtEnd, NEW g
  PROVE  RowsOf(rows, g) = Ok(g)
<1>1. Types /\ RowsTrue /\ ErrorsTrue
  BY DEF Inv
<1>2. ASSUME NEW k \in DOMAIN rows, rows[k].group = g PROVE rows[k] \in Ok(g)
  <2>1. /\ rows[k].trial \in Trials /\ Succeeded(rows[k].trial)
        /\ rows[k] = RowOf(rows[k].trial, fate[rows[k].trial])
    <3>1. /\ rows[k].trial \in Trials /\ fate[rows[k].trial] \in Endings \union {Pending}
          /\ Shows(rows[k].trial).kind = "ok"
          /\ rows[k] = RowOf(rows[k].trial, Shows(rows[k].trial))
      BY <1>1, SettledTrials DEF RowsTrue, Types
    <3> QED
      BY <3>1, ShowsOwn DEF Succeeded, AtEnd
  <2>2. GroupOf(rows[k].trial) = g
    <3> DEFINE i == rows[k].trial
    <3>1. rows[k].group = GroupOf(i)
      BY <2>1 DEF RowOf
    <3> QED
      BY <1>2, <3>1
  <2> QED
    BY <2>1, <2>2 DEF Ok
<1>3. ASSUME NEW i \in Trials, GroupOf(i) = g, Succeeded(i)
      PROVE  RowOf(i, fate[i]) \in RowsOf(rows, g)
  <2>1. fate[i] # Pending
    BY <1>3, EndingKinds DEF Succeeded
  <2>2. i \in Settled
    BY <1>3, <2>1 DEF Inv, InTurn, InPool, AtEnd
  <2>3. PICK k \in DOMAIN rows : rows[k].trial = i
    BY <1>1, <1>3, <2>2 DEF Settled, ErrorsTrue, Succeeded
  <2>4. rows[k] = RowOf(i, fate[i])
    <3>1. fate[i] \in Endings \union {Pending} /\ rows[k] = RowOf(i, Shows(i))
      BY <1>1, <1>3, <2>3 DEF RowsTrue, Types
    <3> QED
      BY <1>3, <3>1, ShowsOwn DEF Succeeded
  <2>5. RowOf(i, fate[i]).group = g
    BY <1>3 DEF RowOf
  <2> QED
    BY <2>4, <2>5 DEF RowsOf, ToSet
<1> QED
  BY <1>2, <1>3 DEF RowsOf, ToSet, Ok

LEMMA OkTyped ==
  ASSUME Types, NEW g
  PROVE  /\ IsFiniteSet(Ok(g)) /\ IsFiniteSet(Costed(g)) /\ IsFiniteSet(Cycled(g))
         /\ Cardinality(Ok(g)) \in Nat /\ Cardinality(Costed(g)) \in Nat
         /\ Cardinality(Cycled(g)) \in Nat
         /\ Cardinality(Costed(g)) = 0 <=> Costed(g) = {}
         /\ Cardinality(Cycled(g)) = 0 <=> Cycled(g) = {}
         /\ \A row \in Costed(g) : row["cost"] \in Nat
         /\ \A row \in Cycled(g) : row["cycle"] \in Nat
<1> DEFINE done == {j \in Trials : GroupOf(j) = g /\ Succeeded(j)}
<1>1. IsFiniteSet(done)
  BY TrialNumbers, FS_Subset DEF Types
<1>2. IsFiniteSet(Ok(g))
  <2>1. Ok(g) = {RowOf(i, fate[i]) : i \in done}
    BY DEF Ok
  <2> DEFINE f == [i \in done |-> RowOf(i, fate[i])]
  <2> HIDE DEF done
  <2>2. f \in Surjection(done, Ok(g))
    BY <2>1 DEF Surjection
  <2> HIDE DEF f
  <2> QED
    BY <1>1, <2>2, FS_Surjection
<1>3. IsFiniteSet(Costed(g)) /\ IsFiniteSet(Cycled(g))
  BY <1>2, FS_Subset DEF Costed, Cycled
<1>4. /\ Cardinality(Ok(g)) \in Nat /\ Cardinality(Costed(g)) \in Nat
      /\ Cardinality(Cycled(g)) \in Nat
      /\ Cardinality(Costed(g)) = 0 <=> Costed(g) = {}
      /\ Cardinality(Cycled(g)) = 0 <=> Cycled(g) = {}
  BY <1>2, <1>3, FS_CardinalityType, FS_EmptySet
<1>5. \A row \in Ok(g) : row["cost"] \in Nat \union {Missing} /\ row["cycle"] \in Nat \union {Missing}
  <2> SUFFICES ASSUME NEW i \in done
               PROVE  /\ RowOf(i, fate[i])["cost"] \in Nat \union {Missing}
                      /\ RowOf(i, fate[i])["cycle"] \in Nat \union {Missing}
    BY DEF Ok
  <2>1. fate[i] \in Endings \union {Pending} /\ fate[i].kind = "ok"
    BY DEF Types, Succeeded
  <2>2. fate[i].cost \in Nat \union {Missing} /\ fate[i].cycle \in Nat \union {Missing}
    BY <2>1, EndingKinds, StudiesAssumption
  <2> QED
    BY <2>2 DEF RowOf
<1>6. /\ \A row \in Costed(g) : row["cost"] \in Nat
      /\ \A row \in Cycled(g) : row["cycle"] \in Nat
  BY <1>5 DEF Costed, Cycled
<1> QED
  BY <1>2, <1>3, <1>4, <1>6

\* The averages are those of the trials.
LEMMA MeansShown ==
  ASSUME Types, NEW g
  PROVE  /\ Mean(Ok(g), "cost") = <<Cost(g), Cardinality(Costed(g))>>
         /\ Mean(Ok(g), "cycle") = <<Cycle(g), Cardinality(Cycled(g))>>
         /\ Cost(g) \in Nat /\ Cycle(g) \in Nat
         /\ Mean(Ok(g), "cost") \in Means /\ Mean(Ok(g), "cycle") \in Means
<1>1. {row \in Ok(g) : row["cost"] # Missing} = Costed(g)
  BY DEF Costed
<1>2. {row \in Ok(g) : row["cycle"] # Missing} = Cycled(g)
  BY DEF Cycled
<1>3. Mean(Ok(g), "cost") = <<Cost(g), Cardinality(Costed(g))>>
  BY <1>1 DEF Mean, Cost
<1>4. Mean(Ok(g), "cycle") = <<Cycle(g), Cardinality(Cycled(g))>>
  BY <1>2 DEF Mean, Cycle
<1>5. Cost(g) \in Nat /\ (Costed(g) = {} => Cost(g) = 0)
  BY OkTyped, SumTyped DEF Cost
<1>6. Cycle(g) \in Nat /\ (Cycled(g) = {} => Cycle(g) = 0)
  BY OkTyped, SumTyped DEF Cycle
<1> QED
  BY <1>3, <1>4, <1>5, <1>6, OkTyped DEF Means

\* Quicker compares averages.
LEMMA QuickerMeans ==
  ASSUME Types, NEW g, NEW h
  PROVE  Quicker(g, h) <=> Better("minimize", Mean(Ok(g), "cycle"), Mean(Ok(h), "cycle"))
<1> DEFINE a == Mean(Ok(g), "cycle")
           b == Mean(Ok(h), "cycle")
<1>1. /\ a[1] = Cycle(g) /\ a[2] = Cardinality(Cycled(g))
      /\ b[1] = Cycle(h) /\ b[2] = Cardinality(Cycled(h))
      /\ a = NoMean <=> Cycled(g) = {}
      /\ b = NoMean <=> Cycled(h) = {}
  BY MeansShown, OkTyped DEF Means, NoMean
<1>2. Less(a, b) <=> Cycle(g) * Cardinality(Cycled(h)) < Cycle(h) * Cardinality(Cycled(g))
  BY <1>1 DEF Less
<1> QED
  BY <1>1, <1>2 DEF Better, Quicker

\* Cheaper compares averages.
LEMMA CheaperMeans ==
  ASSUME Types, NEW g, NEW h
  PROVE  Cheaper(g, h) <=> Better(study.direction, Mean(Ok(g), "cost"), Mean(Ok(h), "cost"))
<1> DEFINE a == Mean(Ok(g), "cost")
           b == Mean(Ok(h), "cost")
<1>1. /\ a[1] = Cost(g) /\ a[2] = Cardinality(Costed(g))
      /\ b[1] = Cost(h) /\ b[2] = Cardinality(Costed(h))
      /\ a = NoMean <=> Costed(g) = {}
      /\ b = NoMean <=> Costed(h) = {}
  BY MeansShown, OkTyped DEF Means, NoMean
<1>2. /\ Cost(g) \in Nat /\ Cost(h) \in Nat
      /\ Cardinality(Costed(g)) \in Nat /\ Cardinality(Costed(h)) \in Nat
  BY MeansShown, OkTyped
<1> DEFINE p == Cost(g) * Cardinality(Costed(h))
           q == Cost(h) * Cardinality(Costed(g))
<1>3. p \in Int /\ q \in Int
  BY <1>2
<1>4. Less(a, b) <=> p < q
  BY <1>1 DEF Less
<1>5. Less(b, a) <=> q < p
  BY <1>1 DEF Less
<1>6. Cheaper(g, h) <=> /\ Costed(g) # {}
                        /\ Costed(h) # {} => Sign * (p - q) < 0
  BY DEF Cheaper
<1> HIDE DEF p, q
<1>7. Sign * (p - q) < 0 <=> IF study.direction = "minimize" THEN p < q ELSE q < p
  BY <1>3 DEF Sign
<1> QED
  BY <1>1, <1>4, <1>5, <1>6, <1>7 DEF Better

-----------------------------------------------------------------------------
(* What is concluded.                                                      *)

\* A list of a finite set without repetition has all of it.
LEMMA ListsAll ==
  ASSUME NEW S, IsFiniteSet(S), NEW q \in [1..Cardinality(S) -> S],
         \A k, l \in 1..Cardinality(S) : k < l => q[k] # q[l]
  PROVE  \A x \in S : \E k \in 1..Cardinality(S) : q[k] = x
<1> DEFINE n == Cardinality(S)
<1>1. n \in Nat /\ IsFiniteSet(1..n) /\ Cardinality(1..n) = n
  BY FS_CardinalityType, FS_Interval
<1>2. q \in Injection(1..n, S)
  <2>1. \A k, l \in 1..n : q[k] = q[l] => k = l
    <3> SUFFICES ASSUME NEW k \in 1..n, NEW l \in 1..n, k # l PROVE q[k] # q[l]
      OBVIOUS
    <3>1. k < l \/ l < k
      BY <1>1
    <3> QED
      BY <3>1
  <2> QED
    BY <2>1 DEF Injection, IsInjective
<1>3. q \in Surjection(1..n, S)
  BY <1>1, <1>2, FS_Injection
<1> QED
  BY <1>3 DEF Surjection

LEMMA GroupsNumbered ==
  ASSUME Types
  PROVE  /\ Groups \in SUBSET Nat /\ IsFiniteSet(Groups) /\ Groups # {}
         /\ NoGroup \notin Groups
         /\ \A S \in SUBSET Groups : S \in SUBSET Nat /\ IsFiniteSet(S)
<1>1. study.groups \in Nat \ {0}
  BY StudiesAssumption DEF Types
<1> DEFINE n == study.groups
<1> HIDE DEF n
<1>2. (1..n) \in SUBSET Nat /\ IsFiniteSet(1..n) /\ 1 \in 1..n /\ 0 \notin 1..n
  <2>1. n \in Nat \ {0}
    BY <1>1 DEF n
  <2>2. IsFiniteSet(1..n)
    BY <2>1, FS_Interval
  <2> QED
    BY <2>1, <2>2
<1>3. Groups = 1..n
  BY DEF Groups, n
<1> QED
  BY <1>2, <1>3, FS_Subset DEF NoGroup

\* Groups are ranked by the average cost of what their trials have shown.
LEMMA CheaperRanks ==
  ASSUME Types, NEW g, NEW h, NEW i
  PROVE  /\ Cheaper(g, h) => ~Cheaper(h, g)
         /\ ~Cheaper(g, h) /\ ~Cheaper(h, i) => ~Cheaper(g, i)
BY CheaperMeans, MeansShown, MeansCompare

\* And by the average cycle time.
LEMMA QuickerRanks ==
  ASSUME Types, NEW g, NEW h, NEW i
  PROVE  /\ Quicker(g, h) => ~Quicker(h, g)
         /\ ~Quicker(g, h) /\ ~Quicker(h, i) => ~Quicker(g, i)
BY QuickerMeans, MeansShown, MeansCompare

\* The choices an optimizer finds within the constraint.
LEMMA KeepsFeasible ==
  ASSUME Inv, AtEnd, NEW g
  PROVE  Feasible(rows, g, study.reps, study.limit) <=> Keeps(g)
<1>1. Types /\ RowsOf(rows, g) = Ok(g)
  BY RowsShown DEF Inv
<1>2. Mean(Ok(g), "cycle") = <<Cycle(g), Cardinality(Cycled(g))>>
  BY <1>1, MeansShown
<1>3. Mean(Ok(g), "cycle") = NoMean <=> Cycled(g) = {}
  BY <1>1, <1>2, MeansShown, OkTyped DEF NoMean, Means
<1> QED
  BY <1>1, <1>2, <1>3 DEF Feasible, Keeps, Meets

LEMMA BestKept ==
  ASSUME Inv, AtEnd,
         NEW kept, kept = {g \in Groups : Keeps(g)},
         NEW x, x = BestTrial(rows, Groups, study.reps, study.direction, study.limit)
  PROVE  /\ x = NoGroup <=> kept = {}
         /\ x # NoGroup => x \in kept /\ \A h \in kept : ~Cheaper(h, x)
<1>1. Types /\ \A g : RowsOf(rows, g) = Ok(g)
  BY RowsShown DEF Inv
<1>2. kept = FeasibleGroups(rows, Groups, study.reps, study.limit)
  BY KeepsFeasible DEF FeasibleGroups
<1>3. kept \in SUBSET Nat /\ IsFiniteSet(kept) /\ NoGroup \notin kept
  BY <1>1, GroupsNumbered
<1>4. \A g, h : Cheaper(g, h) <=>
        Better(study.direction, Mean(RowsOf(rows, g), "cost"), Mean(RowsOf(rows, h), "cost"))
  BY <1>1, CheaperMeans
<1>5. CASE kept = {}
  BY <1>2, <1>5 DEF BestTrial, FirstBest
<1>6. CASE kept # {}
  <2> DEFINE W == {p \in kept \X kept : Cheaper(p[1], p[2])}
  <2>1. \A g, h \in kept : <<g, h>> \in W <=> Cheaper(g, h)
    OBVIOUS
  <2> HIDE DEF W
  <2>2. Ranks(W, kept)
    BY <1>1, <2>1, CheaperRanks DEF Ranks
  <2>3. \E g \in kept : \A h \in kept \ {g} : Cheaper(g, h) \/ (~Cheaper(h, g) /\ g < h)
    <3>1. PICK g \in kept : \A h \in kept \ {g} :
            <<g, h>> \in W \/ (<<h, g>> \notin W /\ g < h)
      BY <1>3, <1>6, <2>2, FirstInRank
    <3> QED
      BY <2>1, <3>1
  <2>4. x = CHOOSE g \in kept : \A h \in kept \ {g} :
              Cheaper(g, h) \/ (~Cheaper(h, g) /\ g < h)
    BY <1>2, <1>4, <1>6 DEF BestTrial, FirstBest
  <2>5. x \in kept /\ \A h \in kept \ {x} : Cheaper(x, h) \/ (~Cheaper(h, x) /\ x < h)
    BY <2>3, <2>4
  <2>6. \A h \in kept : ~Cheaper(h, x)
    BY <1>1, <2>5, CheaperRanks
  <2> QED
    BY <1>3, <1>6, <2>5, <2>6
<1> QED
  BY <1>5, <1>6

LEMMA RobustShown ==
  ASSUME Inv, AtEnd, NEW g
  PROVE  RobustPass(RowsOf(rows, g), study.limit, study.share) <=> Robust(g)
<1>1. Types /\ RowsOf(rows, g) = Ok(g)
  BY RowsShown DEF Inv
<1>2. PassingRows(Ok(g), study.limit) = {row \in Cycled(g) : row.cycle <= study.limit}
  BY DEF PassingRows, Cycled
<1> QED
  BY <1>1, <1>2 DEF RobustPass, Robust

LEMMA RecommendedRobust ==
  ASSUME Inv, AtEnd,
         NEW good, good = {g \in Groups : Robust(g)},
         NEW x, x = Recommended(rows, Groups, study.direction, study.limit, study.share)
  PROVE  /\ x = NoGroup <=> good = {}
         /\ x # NoGroup => x \in good /\ \A h \in good : ~Cheaper(h, x)
<1>1. Types /\ \A g : RowsOf(rows, g) = Ok(g)
  BY RowsShown DEF Inv
<1>2. Groups \in SUBSET Nat /\ IsFiniteSet(Groups) /\ Groups # {} /\ NoGroup \notin Groups
  BY <1>1, GroupsNumbered
<1>3. \A g, h : Cheaper(g, h) <=>
        Better(study.direction, Mean(RowsOf(rows, g), "cost"), Mean(RowsOf(rows, h), "cost"))
  BY <1>1, CheaperMeans
<1>4. \A g : RobustPass(RowsOf(rows, g), study.limit, study.share) <=> Robust(g)
  BY RobustShown
<1> DEFINE Before(g, h) == \/ Robust(g) /\ ~Robust(h)
                           \/ (Robust(g) <=> Robust(h)) /\ Cheaper(g, h)
           W == {p \in Groups \X Groups : Before(p[1], p[2])}
           first == CHOOSE g \in Groups : \A h \in Groups \ {g} :
                      Before(g, h) \/ (~Before(h, g) /\ g < h)
<1>5. \A g, h \in Groups : <<g, h>> \in W <=> Before(g, h)
  OBVIOUS
<1>6. Ranks(W, Groups)
  <2> HIDE DEF W
  <2>1. \A g, h \in Groups : Before(g, h) => ~Before(h, g)
    BY <1>1, CheaperRanks
  <2>2. \A g, h, i \in Groups : ~Before(g, h) /\ ~Before(h, i) => ~Before(g, i)
    BY <1>1, CheaperRanks
  <2> HIDE DEF Before
  <2> QED
    BY <1>5, <2>1, <2>2 DEF Ranks
<1>7. \E g \in Groups : \A h \in Groups \ {g} : Before(g, h) \/ (~Before(h, g) /\ g < h)
  <2> HIDE DEF W, Before
  <2>1. PICK g \in Groups : \A h \in Groups \ {g} :
          <<g, h>> \in W \/ (<<h, g>> \notin W /\ g < h)
    BY <1>2, <1>6, FirstInRank
  <2> QED
    BY <1>5, <2>1
<1>8. x = IF first # NoGroup /\ Robust(first) THEN first ELSE NoGroup
  <2> DEFINE Says(g, h) == RobustFirst(rows, g, h, study.direction, study.limit, study.share)
             said == CHOOSE g \in Groups : \A h \in Groups \ {g} :
                       Says(g, h) \/ (~Says(h, g) /\ g < h)
  <2>1. x = IF said # NoGroup /\ RobustPass(RowsOf(rows, said), study.limit, study.share)
            THEN said ELSE NoGroup
    <3>1. x = LET f == IF Groups = {} THEN NoGroup ELSE said
              IN  IF f # NoGroup /\ RobustPass(RowsOf(rows, f), study.limit, study.share)
                  THEN f ELSE NoGroup
      BY DEF Recommended, FirstBest
    <3> HIDE DEF said
    <3> QED
      BY <1>2, <3>1
  <2>2. \A g, h : Says(g, h) <=> Before(g, h)
    BY <1>3, <1>4 DEF RobustFirst
  <2> HIDE DEF Says, Before, W
  <2>3. said = first
    BY <2>2
  <2> HIDE DEF said, first
  <2> QED
    BY <1>4, <2>1, <2>3
<1>9. first \in Groups /\ \A h \in Groups \ {first} : Before(first, h) \/ (~Before(h, first) /\ first < h)
  <2> HIDE DEF Before
  <2> QED
    BY <1>7
<1> HIDE DEF first
<1>10. \A h \in Groups : Robust(h) => Robust(first) /\ ~Cheaper(h, first)
  BY <1>1, <1>9, CheaperRanks
<1> QED
  BY <1>2, <1>8, <1>9, <1>10

Shown(q) == {q[k] : k \in DOMAIN q}

\* A list sorted by Sorted, by a rank and then by number.
LEMMA RankedList ==
  ASSUME NEW S \in SUBSET Nat, IsFiniteSet(S), NEW W, Ranks(W, S),
         NEW q \in [1..Cardinality(S) -> S],
         \A k, l \in 1..Cardinality(S) :
           k < l => \/ <<q[k], q[l]>> \in W
                    \/ <<q[l], q[k]>> \notin W /\ q[k] < q[l]
  PROVE  /\ Shown(q) = S
         /\ \A k, l \in DOMAIN q : k < l => <<q[l], q[k]>> \notin W
<1>2. \A k, l \in 1..Cardinality(S) : k < l => q[k] # q[l] /\ <<q[l], q[k]>> \notin W
  <2> SUFFICES ASSUME NEW k \in 1..Cardinality(S), NEW l \in 1..Cardinality(S), k < l
               PROVE  q[k] # q[l] /\ <<q[l], q[k]>> \notin W
    OBVIOUS
  <2>1. q[k] \in S /\ q[l] \in S /\ q[k] \in Nat /\ q[l] \in Nat
    OBVIOUS
  <2>2. CASE <<q[k], q[l]>> \in W
    BY <2>1, <2>2 DEF Ranks
  <2>3. CASE <<q[k], q[l]>> \notin W
    BY <2>1, <2>3
  <2> QED
    BY <2>2, <2>3
<1>3. Shown(q) = S
  <2>1. \A k, l \in 1..Cardinality(S) : k < l => q[k] # q[l]
    BY <1>2
  <2>2. \A x \in S : \E k \in 1..Cardinality(S) : q[k] = x
    BY <2>1, ListsAll
  <2> QED
    BY <2>2 DEF Shown
<1> QED
  BY <1>2, <1>3

-----------------------------------------------------------------------------
(* The Pareto front.                                                       *)

\* g beats h.
Beats(g, h) == AsGood(g, h) /\ ~AsGood(h, g)

LEMMA BeatsDominates ==
  ASSUME Inv, AtEnd, NEW g, NEW h
  PROVE  Dominates(study.direction, Objectives(rows, g), Objectives(rows, h)) <=> Beats(g, h)
<1>1. /\ Types
      /\ Objectives(rows, g) = <<Mean(Ok(g), "cost"), Mean(Ok(g), "cycle")>>
      /\ Objectives(rows, h) = <<Mean(Ok(h), "cost"), Mean(Ok(h), "cycle")>>
  BY RowsShown DEF Inv, Objectives
<1>2. /\ Cheaper(g, h) <=> Better(study.direction, Mean(Ok(g), "cost"), Mean(Ok(h), "cost"))
      /\ Cheaper(h, g) <=> Better(study.direction, Mean(Ok(h), "cost"), Mean(Ok(g), "cost"))
      /\ Quicker(g, h) <=> Better("minimize", Mean(Ok(g), "cycle"), Mean(Ok(h), "cycle"))
      /\ Quicker(h, g) <=> Better("minimize", Mean(Ok(h), "cycle"), Mean(Ok(g), "cycle"))
  BY <1>1, CheaperMeans, QuickerMeans
<1> QED
  BY <1>1, <1>2, CheaperRanks, QuickerRanks DEF Dominates, Beats, AsGood

LEMMA BeatsTransitive ==
  ASSUME Types, NEW g, NEW h, NEW i, Beats(g, h), Beats(h, i)
  PROVE  Beats(g, i)
<1>1. \A x, y, z : AsGood(x, y) /\ AsGood(y, z) => AsGood(x, z)
  BY CheaperRanks, QuickerRanks DEF AsGood
<1> HIDE DEF AsGood
<1> QED
  BY <1>1 DEF Beats

\* What is beaten at all is beaten by something that nothing beats.
LEMMA BeatenByBest ==
  ASSUME Types, NEW kept, IsFiniteSet(kept), NEW h \in kept, NEW g \in kept, Beats(g, h)
  PROVE  \E x \in kept : Beats(x, h) /\ \A y \in kept : ~Beats(y, x)
<1> DEFINE Above(x) == {y \in kept : Beats(y, x)}
           B == {Above(x) : x \in Above(h)}
<1>1. B \in SUBSET (SUBSET kept) /\ B # {}
  OBVIOUS
<1>2. PICK T \in B : \A U \in B : U \subseteq T => U = T
  <2> HIDE DEF B
  <2>1. HasMinimal(B)
    BY <1>1, MinimalSubset, Zenon
  <2> QED
    BY <2>1 DEF HasMinimal
<1>3. PICK x \in Above(h) : T = Above(x)
  BY <1>2
<1>4. ASSUME NEW y \in kept, Beats(y, x) PROVE FALSE
  <2>1. Beats(y, h)
    BY <1>3, <1>4, BeatsTransitive
  <2>2. Above(y) \in B
    BY <2>1
  <2>3. Above(y) \subseteq Above(x)
    BY <1>4, BeatsTransitive
  <2>4. y \in Above(x) /\ y \notin Above(y)
    BY <1>4 DEF Beats
  <2> QED
    BY <1>2, <1>3, <2>2, <2>3, <2>4
<1> QED
  BY <1>3, <1>4

Kept == {g \in Groups : Keeps(g)}

LEMMA FrontShown ==
  ASSUME Inv, AtEnd,
         NEW q, q = ParetoTrials(rows, Groups, study.reps, study.direction, study.limit)
  PROVE  /\ Shown(q) \subseteq Kept
         /\ \A h \in Kept \ Shown(q) : \E g \in Shown(q) : AsGood(g, h) /\ ~AsGood(h, g)
         /\ \A g, h \in Shown(q) : AsGood(g, h) => AsGood(h, g)
<1>1. Types /\ \A g : RowsOf(rows, g) = Ok(g)
  BY RowsShown DEF Inv
<1> DEFINE kept == Kept
           shown == Shown(q)
<1>2. kept = FeasibleGroups(rows, Groups, study.reps, study.limit)
  BY KeepsFeasible DEF FeasibleGroups, Kept
<1> DEFINE front == {g \in kept : \A h \in kept \ {g} : ~Beats(h, g)}
           W == {p \in front \X front : Cheaper(p[1], p[2])}
           S0 == {g \in kept : \A h \in kept \ {g} :
                  ~Dominates(study.direction, Objectives(rows, h), Objectives(rows, g))}
<1>3. S0 = front
  BY BeatsDominates DEF Kept
<1>4. front \in SUBSET Nat /\ IsFiniteSet(front) /\ IsFiniteSet(kept)
  BY <1>1, GroupsNumbered DEF Kept
<1>5. \A g : Objectives(rows, g)[1] = Mean(Ok(g), "cost")
  BY <1>1 DEF Objectives
<1>6. \A g, h : Better(study.direction, Objectives(rows, g)[1], Objectives(rows, h)[1])
                <=> Cheaper(g, h)
  BY <1>1, <1>5, CheaperMeans
<1>7. q = CHOOSE f \in [1..Cardinality(S0) -> S0] : \A k, l \in 1..Cardinality(S0) : k < l =>
            \/ Better(study.direction, Objectives(rows, f[k])[1], Objectives(rows, f[l])[1])
            \/ /\ ~Better(study.direction, Objectives(rows, f[l])[1], Objectives(rows, f[k])[1])
               /\ f[k] < f[l]
  BY <1>2 DEF ParetoTrials, Sorted
<1>8. \A g, h \in front : <<g, h>> \in W <=> Cheaper(g, h)
  OBVIOUS
<1>9. Ranks(W, front)
  <2> HIDE DEF front, W
  <2> QED
    BY <1>1, <1>8, CheaperRanks DEF Ranks
<1>10. \A g \in front : g \in kept /\ \A h \in kept : ~Beats(h, g)
  BY DEF Beats
<1>11. \A g \in kept : (\A h \in kept : ~Beats(h, g)) => g \in front
  OBVIOUS
<1>12. front \subseteq kept
  OBVIOUS
<1> HIDE DEF front, W, S0
<1>13. /\ q \in [1..Cardinality(front) -> front]
       /\ \A k, l \in 1..Cardinality(front) : k < l =>
            <<q[k], q[l]>> \in W \/ (<<q[l], q[k]>> \notin W /\ q[k] < q[l])
  <2> DEFINE Says(g, h) == Better(study.direction, Objectives(rows, g)[1], Objectives(rows, h)[1])
  <2>1. q = CHOOSE f \in [1..Cardinality(front) -> front] : \A k, l \in 1..Cardinality(front) :
              k < l => Says(f[k], f[l]) \/ (~Says(f[l], f[k]) /\ f[k] < f[l])
    BY <1>3, <1>7
  <2>2. \A g, h \in front : <<g, h>> \in W <=> Says(g, h)
    BY <1>6, <1>8
  <2> HIDE DEF Says
  <2>3. PICK f \in [1..Cardinality(front) -> front] : \A k, l \in 1..Cardinality(front) : k < l =>
            <<f[k], f[l]>> \in W \/ (<<f[l], f[k]>> \notin W /\ f[k] < f[l])
    BY <1>4, <1>9, SortedByRank
  <2>4. \A k, l \in 1..Cardinality(front) :
          k < l => Says(f[k], f[l]) \/ (~Says(f[l], f[k]) /\ f[k] < f[l])
    BY <2>2, <2>3
  <2>5. /\ q \in [1..Cardinality(front) -> front]
        /\ \A k, l \in 1..Cardinality(front) :
             k < l => Says(q[k], q[l]) \/ (~Says(q[l], q[k]) /\ q[k] < q[l])
    BY <2>1, <2>4
  <2> QED
    BY <2>2, <2>5
<1>14. shown = front
  BY <1>4, <1>9, <1>13, RankedList
<1>15. \A h \in kept \ shown : \E g \in shown : AsGood(g, h) /\ ~AsGood(h, g)
  <2> SUFFICES ASSUME NEW h \in kept \ shown
               PROVE  \E g \in front : Beats(g, h)
    BY <1>14 DEF Beats
  <2>1. PICK g \in kept : Beats(g, h)
    BY <1>11, <1>14
  <2>2. PICK x \in kept : Beats(x, h) /\ \A y \in kept : ~Beats(y, x)
    BY <1>1, <1>4, <2>1, BeatenByBest
  <2> QED
    BY <1>11, <2>2
<1>16. \A g, h \in shown : AsGood(g, h) => AsGood(h, g)
  BY <1>10, <1>14 DEF Beats
<1> QED
  BY <1>12, <1>14, <1>15, <1>16

-----------------------------------------------------------------------------
(* The tornado.                                                            *)

\* How far a level lies from the baseline, next to the weight it is told in.
Off(g) ==
  LET d == Cost(g) * Cardinality(Costed(1)) - Cost(1) * Cardinality(Costed(g))
  IN  IF d < 0 THEN -d ELSE d

LEMMA DeltaShown ==
  ASSUME Inv, AtEnd, NEW g
  PROVE  /\ Delta(rows, g) = <<Off(g), Cardinality(Costed(g)) * Cardinality(Costed(1))>>
         /\ Off(g) \in Nat
         /\ Cardinality(Costed(g)) \in Nat /\ Cardinality(Costed(1)) \in Nat
<1>1. /\ Types
      /\ Mean(RowsOf(rows, g), "cost") = <<Cost(g), Cardinality(Costed(g))>>
      /\ Mean(RowsOf(rows, 1), "cost") = <<Cost(1), Cardinality(Costed(1))>>
  BY RowsShown, MeansShown DEF Inv
<1>2. /\ Cost(g) \in Nat /\ Cost(1) \in Nat
      /\ Cardinality(Costed(g)) \in Nat /\ Cardinality(Costed(1)) \in Nat
  BY <1>1, MeansShown, OkTyped
<1>3. Delta(rows, g) = <<Off(g), Cardinality(Costed(g)) * Cardinality(Costed(1))>>
  BY <1>1 DEF Delta, Off
<1>4. Off(g) \in Nat
  <2> DEFINE a == Cost(g) * Cardinality(Costed(1))
             b == Cost(1) * Cardinality(Costed(g))
  <2>1. a \in Int /\ b \in Int
    BY <1>2
  <2>2. Off(g) = IF a - b < 0 THEN -(a - b) ELSE a - b
    BY DEF Off
  <2> HIDE DEF a, b
  <2> QED
    BY <2>1, <2>2
<1> QED
  BY <1>2, <1>3, <1>4

LEMMA TornadoShown ==
  ASSUME Inv, AtEnd, NEW q, q = Tornado(rows, Groups)
  PROVE  /\ Shown(q) = {g \in Groups \ {1} : Costed(g) # {} /\ Costed(1) # {}}
         /\ \A k, l \in DOMAIN q : k < l =>
              Off(q[k]) * Cardinality(Costed(q[l])) >= Off(q[l]) * Cardinality(Costed(q[k]))
<1> DEFINE entries == {g \in Groups \ {1} : Delta(rows, g)[2] # 0}
           n(g) == Cardinality(Costed(g))
           D(g) == Delta(rows, g)
           Wider(g, h) == Less(D(h), D(g))
           W == {p \in entries \X entries : Wider(p[1], p[2])}
<1>1. Types
  BY DEF Inv
<1>2. \A g : /\ D(g)[1] = Off(g) /\ D(g)[2] = n(g) * n(1)
             /\ D(g)[1] \in Nat /\ D(g)[2] \in Nat
             /\ Off(g) \in Nat /\ n(g) \in Nat
  BY DeltaShown
<1>3. entries = {g \in Groups \ {1} : Costed(g) # {} /\ Costed(1) # {}}
  <2>1. \A g : D(g)[2] # 0 <=> n(g) # 0 /\ n(1) # 0
    <3> SUFFICES ASSUME NEW g PROVE n(g) * n(1) # 0 <=> n(g) # 0 /\ n(1) # 0
      BY <1>2
    <3>1. n(g) \in Nat /\ n(1) \in Nat
      BY <1>2
    <3> HIDE DEF n
    <3> QED
      BY <3>1
  <2>2. \A g : n(g) # 0 <=> Costed(g) # {}
    BY <1>1, OkTyped
  <2> QED
    BY <2>1, <2>2
<1>4. q = CHOOSE f \in [1..Cardinality(entries) -> entries] :
            \A k, l \in 1..Cardinality(entries) :
              k < l => Wider(f[k], f[l]) \/ (~Wider(f[l], f[k]) /\ f[k] < f[l])
  BY DEF Tornado, Sorted
<1>5. \A g, h \in entries : <<g, h>> \in W <=> Wider(g, h)
  OBVIOUS
<1>6. entries \in SUBSET Nat /\ IsFiniteSet(entries)
  BY <1>1, GroupsNumbered
<1>7. \A g \in entries : D(g)[2] # 0
  OBVIOUS
<1> HIDE DEF W, entries
<1>8. Ranks(W, entries)
  <2>1. \A g, h \in entries : Wider(g, h) => ~Wider(h, g)
    <3> SUFFICES ASSUME NEW g \in entries, NEW h \in entries, Wider(g, h)
                 PROVE  ~Wider(h, g)
      OBVIOUS
    <3>1. D(g)[1] * D(h)[2] \in Int /\ D(h)[1] * D(g)[2] \in Int
      <4> HIDE DEF D, n
      <4>1. D(g)[1] \in Nat /\ D(h)[2] \in Nat /\ D(h)[1] \in Nat /\ D(g)[2] \in Nat
        BY <1>2
      <4> QED
        BY <4>1
    <3> HIDE DEF D
    <3> QED
      BY <3>1 DEF Less
  <2>2. \A g, h, i \in entries : ~Wider(g, h) /\ ~Wider(h, i) => ~Wider(g, i)
    <3> SUFFICES ASSUME NEW g \in entries, NEW h \in entries, NEW i \in entries,
                        ~Wider(g, h), ~Wider(h, i)
                 PROVE  ~Wider(g, i)
      OBVIOUS
    <3> HIDE DEF D, n
    <3>1. /\ D(g)[1] \in Nat /\ D(g)[2] \in Nat /\ D(h)[1] \in Nat /\ D(h)[2] \in Nat
          /\ D(i)[1] \in Nat /\ D(i)[2] \in Nat /\ D(h)[2] > 0
      <4>1. D(h)[2] # 0
        BY <1>7
      <4> QED
        BY <1>2, <4>1
    <3>2. D(g)[1] * D(h)[2] <= D(h)[1] * D(g)[2]
      BY <3>1 DEF Less
    <3>3. D(h)[1] * D(i)[2] <= D(i)[1] * D(h)[2]
      BY <3>1 DEF Less
    <3>4. D(g)[1] * D(i)[2] <= D(i)[1] * D(g)[2]
      BY <3>1, <3>2, <3>3, FractionsCompare
    <3> QED
      BY <3>1, <3>4 DEF Less
  <2> HIDE DEF Wider
  <2> QED
    BY <1>5, <2>1, <2>2 DEF Ranks
<1>9. /\ q \in [1..Cardinality(entries) -> entries]
      /\ \A k, l \in 1..Cardinality(entries) : k < l =>
           <<q[k], q[l]>> \in W \/ (<<q[l], q[k]>> \notin W /\ q[k] < q[l])
  <2> HIDE DEF Wider
  <2>1. PICK f \in [1..Cardinality(entries) -> entries] :
          \A k, l \in 1..Cardinality(entries) : k < l =>
            <<f[k], f[l]>> \in W \/ (<<f[l], f[k]>> \notin W /\ f[k] < f[l])
    BY <1>6, <1>8, SortedByRank
  <2>2. \A k, l \in 1..Cardinality(entries) :
          k < l => Wider(f[k], f[l]) \/ (~Wider(f[l], f[k]) /\ f[k] < f[l])
    BY <1>5, <2>1
  <2>3. /\ q \in [1..Cardinality(entries) -> entries]
        /\ \A k, l \in 1..Cardinality(entries) :
             k < l => Wider(q[k], q[l]) \/ (~Wider(q[l], q[k]) /\ q[k] < q[l])
    BY <1>4, <2>2
  <2> QED
    BY <1>5, <2>3
<1>10. /\ Shown(q) = entries
       /\ \A k, l \in DOMAIN q : k < l => <<q[l], q[k]>> \notin W
  <2> HIDE DEF n, D, Wider
  <2> QED
    BY <1>6, <1>8, <1>9, RankedList
<1>11. ASSUME NEW g \in entries, NEW h \in entries, ~Wider(h, g)
       PROVE  Off(g) * n(h) >= Off(h) * n(g)
  <2>1. ~(Off(g) * (n(h) * n(1)) < Off(h) * (n(g) * n(1)))
    BY <1>2, <1>11 DEF Less
  <2>2. n(g) \in Nat /\ n(h) \in Nat /\ n(1) \in Nat /\ Off(g) \in Nat /\ Off(h) \in Nat
    BY <1>2
  <2>3. n(1) > 0
    <3>1. n(h) * n(1) # 0
      BY <1>2, <1>7
    <3> HIDE DEF n
    <3> QED
      BY <2>2, <3>1
  <2> HIDE DEF n
  <2>4. /\ Off(g) * n(h) \in Int /\ Off(h) * n(g) \in Int
        /\ Off(g) * (n(h) * n(1)) = (Off(g) * n(h)) * n(1)
        /\ Off(h) * (n(g) * n(1)) = (Off(h) * n(g)) * n(1)
        /\ (Off(g) * n(h)) * n(1) \in Int /\ (Off(h) * n(g)) * n(1) \in Int
    BY <2>2
  <2> QED
    BY <2>1, <2>2, <2>3, <2>4, TimesMore
<1>12. \A k \in DOMAIN q : q[k] \in entries
  BY <1>9
<1> HIDE DEF Wider
<1>13. \A k, l \in DOMAIN q : k < l => Off(q[k]) * n(q[l]) >= Off(q[l]) * n(q[k])
  <2> SUFFICES ASSUME NEW k \in DOMAIN q, NEW l \in DOMAIN q, k < l
               PROVE  Off(q[k]) * n(q[l]) >= Off(q[l]) * n(q[k])
    OBVIOUS
  <2>1. ~Wider(q[l], q[k])
    BY <1>5, <1>10, <1>12
  <2> HIDE DEF n
  <2> QED
    BY <1>11, <1>12, <2>1
<1> QED
  BY <1>3, <1>10, <1>13

-----------------------------------------------------------------------------
\* What a study has concluded is what follows from the rows it has.
Concluded == stage = "ended" => chosen = Conclusion

LEMMA ConcludedHolds == StudySpec => []Concluded
<1>1. ASSUME StudyInit PROVE Concluded
  BY <1>1 DEF StudyInit, Concluded
<1>2. ASSUME Concluded, [StudyNext]_studyVars PROVE Concluded'
  <2>1. CASE Conclude
    BY <2>1 DEF Conclude, Concluded, Conclusion, Groups
  <2>2. CASE StudyEnded \/ UNCHANGED studyVars
    BY <1>2, <2>2 DEF StudyEnded, studyVars, Concluded, Conclusion, Groups
  <2>3. CASE Start
    BY <2>3 DEF Start, GoesOn, Concluded
  <2>4. CASE Poll
    <3>1. stage = "wait"
      BY <2>4 DEF Poll
    <3>2. stage' # "ended"
      BY <2>4, <3>1 DEF Poll, Begins, Vanished, SeesEnd, SeesNoEnd, SeesWork, SeesRest,
                        GivesTrialUp, StudyGoesOn, PollTo, Fails, Counts, Concludes, Analyzes, GoesOn
    <3> QED
      BY <3>2 DEF Concluded
  <2>5. CASE ThreadEnds \/ ThreadCloses
    BY <1>2, <2>5 DEF ThreadEnds, ThreadCloses, Concluded, Conclusion, Groups
  <2>6. CASE StartHeadless \/ TrialEnds \/ PoolBreaks \/ SubmitRaises \/ Collect \/ Pair
    BY <2>6 DEF StartHeadless, TrialEnds, PoolBreaks, SubmitRaises, Collect, Pair, Concluded
  <2> QED
    BY <1>2, <2>1, <2>2, <2>3, <2>4, <2>5, <2>6 DEF StudyNext
<1> QED
  BY <1>1, <1>2, PTL DEF StudySpec

\* Whatever the studies and however their trials end: no robust candidate, and
\* no choice within the constraint, is better on average than the recommended
\* one; the front leaves out only what it beats; and the tornado has all levels
\* that can be compared, the widest first.
THEOREM BestChosen == StudySpec => []BestIsBest
<1>1. ASSUME Inv, Concluded PROVE BestIsBest
  <2> DEFINE shown == {chosen[k] : k \in DOMAIN chosen}
             kept == {g \in Groups : Keeps(g)}
             good == {g \in Groups : Robust(g)}
  <2>1. SUFFICES ASSUME stage = "ended" PROVE BestIsBest
    BY DEF BestIsBest
  <2>2. chosen = Conclusion
    BY <1>1, <2>1 DEF Concluded
  <2>3. ASSUME study.kind = "robustness"
        PROVE  /\ shown = {NoGroup} <=> good = {}
               /\ shown # {NoGroup} =>
                    shown \subseteq good /\ \A g \in shown, h \in good : ~Cheaper(h, g)
    <3> DEFINE x == Recommended(rows, Groups, study.direction, study.limit, study.share)
    <3>1. chosen = <<x>>
      BY <2>2, <2>3 DEF Conclusion
    <3>2. /\ x = NoGroup <=> good = {}
          /\ x # NoGroup => x \in good /\ \A h \in good : ~Cheaper(h, x)
      BY <1>1, <2>1, <2>3, RecommendedRobust DEF AtEnd
    <3> HIDE DEF x, good
    <3>3. shown = {x}
      BY <3>1
    <3> QED
      BY <3>2, <3>3
  <2>4. ASSUME study.kind = "optimizer"
        PROVE  /\ shown = {NoGroup} <=> kept = {}
               /\ shown # {NoGroup} =>
                    shown \subseteq kept /\ \A g \in shown, h \in kept : ~Cheaper(h, g)
    <3> DEFINE x == BestTrial(rows, Groups, study.reps, study.direction, study.limit)
    <3>1. chosen = <<x>>
      BY <2>2, <2>4 DEF Conclusion
    <3>2. /\ x = NoGroup <=> kept = {}
          /\ x # NoGroup => x \in kept /\ \A h \in kept : ~Cheaper(h, x)
      BY <1>1, <2>1, <2>4, BestKept DEF AtEnd
    <3> HIDE DEF x, kept
    <3>3. shown = {x}
      BY <3>1
    <3> QED
      BY <3>2, <3>3
  <2>5. ASSUME study.kind = "multiobjective"
        PROVE  /\ shown \subseteq kept
               /\ \A h \in kept \ shown : \E g \in shown : AsGood(g, h) /\ ~AsGood(h, g)
               /\ \A g, h \in shown : AsGood(g, h) => AsGood(h, g)
    <3>1. chosen = ParetoTrials(rows, Groups, study.reps, study.direction, study.limit)
      BY <2>2, <2>5 DEF Conclusion
    <3>2. /\ Shown(chosen) \subseteq Kept
          /\ \A h \in Kept \ Shown(chosen) :
               \E g \in Shown(chosen) : AsGood(g, h) /\ ~AsGood(h, g)
          /\ \A g, h \in Shown(chosen) : AsGood(g, h) => AsGood(h, g)
      BY <1>1, <2>1, <2>5, <3>1, FrontShown DEF AtEnd
    <3>3. shown = Shown(chosen) /\ kept = Kept
      BY DEF Shown, Kept
    <3> QED
      BY <3>2, <3>3
  <2>6. ASSUME study.kind = "sensitivity"
        PROVE  /\ shown = {g \in Groups \ {1} : Costed(g) # {} /\ Costed(1) # {}}
               /\ \A k, l \in DOMAIN chosen : k < l =>
                    Off(chosen[k]) * Cardinality(Costed(chosen[l])) >=
                    Off(chosen[l]) * Cardinality(Costed(chosen[k]))
    <3>1. chosen = Tornado(rows, Groups)
      BY <2>2, <2>6 DEF Conclusion
    <3>2. shown = Shown(chosen)
      BY DEF Shown
    <3> QED
      BY <1>1, <2>1, <2>6, <3>1, <3>2, TornadoShown DEF AtEnd
  <2> QED
    BY <2>3, <2>4, <2>5, <2>6 DEF BestIsBest, Off
<1> QED
  BY <1>1, InvHolds, ConcludedHolds, PTL
=============================================================================
