----------------------------- MODULE MCTraffic -----------------------------
(***************************************************************************)
(* Traffic on a ring of four cells, each of which has a purpose:           *)
(*                                                                         *)
(*     0,0  goods are fetched here       1,0  a charging cell              *)
(*     0,1  a maintenance bay            1,1  and brought here             *)
(*                                                                         *)
(* Three robots share them, so that one cell is free: they get past each   *)
(* other only if the right one gives way, all of them may wait for each    *)
(* other, and a robot that is put down takes the cell another heads for.   *)
(***************************************************************************)
EXTENDS Traffic

\* The scans keep the first cell at the smallest Manhattan distance, row by row.
MCClosest(c, S) ==
  CHOOSE d \in S : \A e \in S \ {d} :
    \/ Manhattan(c, d) < Manhattan(c, e)
    \/ /\ Manhattan(c, d) = Manhattan(c, e)
       /\ d[2] < e[2] \/ (d[2] = e[2] /\ d[1] < e[1])

MCOpen   == {0, 1} \X {0, 1}
MCStart  == [r \in Robots |-> CASE r = 1 -> <<0, 0>> [] r = 2 -> <<1, 1>> [] r = 3 -> <<0, 1>>]
MCJobs   == {<< <<0, 0>>, <<1, 1>>, 1>>}
MCDepots == {<<1, 0>>}
MCBays   == {<<0, 1>>}
MCFates  == {Carry} \union MCDepots

-----------------------------------------------------------------------------
(* Two aisles and a cell between them, which holds the charging cell:      *)
(*                                                                         *)
(*     0,1   1,1   2,1   3,1                                               *)
(*           1,2                                                           *)
(*     0,3   1,3   2,3                                                     *)

Between       == <<1, 2>>
CrossOpen     == {<<x, 1>> : x \in 0..3} \union {Between} \union {<<x, 3>> : x \in 0..2}
CrossStart    == [r \in Robots |-> CASE r = 1 -> <<0, 1>> [] r = 2 -> <<0, 3>>
                                      [] r = 3 -> <<1, 3>> [] r = 4 -> <<2, 1>>]
CrossJobs     == {<< <<2, 1>>, <<0, 1>>, 1>>} \union {<< <<2, 3>>, <<0, 3>>, n>> : n \in {1, 5}}
CrossDepots   == {Between}
CrossFates    == {Carry} \union CrossDepots

-----------------------------------------------------------------------------
(* What the proofs about routes rely on.                                   *)

ASSUME FloorAssumption == Connected
============================================================================
