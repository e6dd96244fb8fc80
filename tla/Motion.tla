------------------------------- MODULE Motion -------------------------------
(***************************************************************************)
(* What the movement of the fleet promises: robots go from cell to cell,   *)
(* one at a time and only in the movement loop, and not into a cell that   *)
(* the loop takes to be occupied.  The loop looks at the floor once, when  *)
(* it begins, and then follows what it does itself; robots that are put    *)
(* down in another cell are put down in a free one, and it does not see    *)
(* them.                                                                   *)
(***************************************************************************)
EXTENDS Integers

CONSTANTS Robots, Open, Start

VARIABLES
  cell,      \* where each robot is
  seen,      \* the cells the loop takes to be occupied
  looking    \* the loop runs

AbsDiff(m, n) == IF m > n THEN m - n ELSE n - m
Beside(c, d) == AbsDiff(c[1], d[1]) + AbsDiff(c[2], d[2]) = 1

Init == cell = Start /\ seen = {} /\ ~looking

Look ==
  /\ ~looking /\ looking' = TRUE
  /\ seen' = {cell[r] : r \in Robots}
  /\ UNCHANGED cell

Leave == looking /\ looking' = FALSE /\ seen' = {} /\ UNCHANGED cell

\* Where robot r may stand when it is put down: nobody else is there.
Free(r, c) == \A q \in Robots \ {r} : cell[q] # c

Put(r, c) ==
  /\ Free(r, c)
  /\ cell' = [cell EXCEPT ![r] = c]
  /\ UNCHANGED <<seen, looking>>

\* A robot enters a neighbouring cell that is not seen to be occupied; what it
\* finds there may have it put down in cell d at once.
Go(r, c, d) ==
  /\ looking
  /\ Beside(cell[r], c) /\ c \notin seen
  /\ d = c \/ Free(r, d)
  /\ cell' = [cell EXCEPT ![r] = d]
  /\ seen' = (seen \ {cell[r]}) \union {c}
  /\ UNCHANGED looking

Next ==
  \/ Look \/ Leave
  \/ \E r \in Robots, c \in Open : Put(r, c) \/ \E d \in Open : Go(r, c, d)

Spec == Init /\ [][Next]_<<cell, seen, looking>>
=============================================================================
