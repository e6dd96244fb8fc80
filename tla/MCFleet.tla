------------------------------ MODULE MCFleet ------------------------------
(***************************************************************************)
(* Fleet on a six-cell warehouse: cell 10*y + x.                           *)
(*                                                                         *)
(*                               3 cut off                                 *)
(*     11 pickup    12 dropoff                                             *)
(*     21 charger   22 charger  23 bay                                     *)
(*                                                                         *)
(* The way out of the bay leads over a charging cell.  The goods of the    *)
(* tasks in Far lie on the cell that has no way in.                        *)
(***************************************************************************)
EXTENDS Fleet, FiniteSetsExt

CONSTANT Far   \* the tasks whose pickup cannot be reached

MCCells    == {3, 11, 12, 21, 22, 23}
MCStart    == [r \in Robots |-> IF r = 1 THEN 11 ELSE 12]
MCSource   == [t \in Tasks |-> IF t \in Far THEN 3 ELSE 11]
MCDropoff  == [t \in Tasks |-> 12]

Row(c) == c \div 10
Col(c) == c % 10
Gap(m, n) == IF m > n THEN m - n ELSE n - m
Manhattan(a, b) == Gap(Row(a), Row(b)) + Gap(Col(a), Col(b))

MCNeighbours == [c \in MCCells |-> {d \in MCCells : Manhattan(c, d) = 1}]

\* The scans keep the first cell at the smallest Manhattan distance, row by row.
MCClosest(c, S) ==
  CHOOSE d \in S : \A e \in S :
    \/ Manhattan(c, d) < Manhattan(c, e)
    \/ Manhattan(c, d) = Manhattan(c, e) /\ d <= e

\* Cells at distance at most n from a through cells outside blocked.
RECURSIVE Ball(_, _, _)
Ball(a, blocked, n) ==
  IF n = 0 THEN {a}
  ELSE LET B == Ball(a, blocked, n - 1)
       IN B \union UNION {MCNeighbours[c] \ blocked : c \in B}

\* Every distance, computed once: a constant.
Distances ==
  [a \in MCCells, b \in MCCells, S \in SUBSET MCCells |->
     LET reach == {n \in 0..Cardinality(MCCells) : b \in Ball(a, S, n)}
     IN IF reach = {} THEN -1 ELSE Min(reach)]

MCDist(a, b, S) == Distances[a, b, S]
============================================================================
