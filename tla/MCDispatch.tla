----------------------------- MODULE MCDispatch -----------------------------
(***************************************************************************)
(* Trials on a floor of 3 x 2 cells.                                       *)
(***************************************************************************)
EXTENDS Dispatch

MCOpen  == (0..2) \X (0..1)
MCStart == (1 :> <<0, 0>>) @@ (2 :> <<2, 0>>)
MCReach == (1 :> 9) @@ (2 :> 4)

MCResolve == ("R" :> <<0, 1>>) @@ ("A" :> <<2, 1>>) @@ ("P" :> <<1, 0>>) @@ ("S" :> <<1, 1>>)
MCLocations ==
  [receiving |-> <<"R">>, storage |-> <<"A">>, picking |-> <<"P">>, packing |-> <<"S">>,
   staging |-> <<>>, shipping |-> <<"R", "A">>]
MCIntervals == [type \in TypeSet |-> IF type = "PUTAWAY" THEN 4 ELSE 3]

At(t, type, pickup, dropoff) ==
  [tick |-> t, type |-> type, pickup |-> pickup, dropoff |-> dropoff, priority |-> Default]
File(events) == [mode |-> "csv_orders", events |-> events]

MCDemands ==
  { File(<<At(3, "PICK", Default, Default), At(2, "SHIP", Default, "A"),
           At(1, "PACK", Default, Default), At(3, "PACK", Default, "R")>>),
    File(<<At(2, "PUTAWAY", Default, Default), At(3, "PICK", Default, "nowhere")>>),
    [mode |-> "legacy"],
    [mode |-> "uniform", rate |-> <<1, 3>>, weights |-> "PACK" :> 1 @@ "SHIP" :> 0],
    [mode |-> "rate_schedule", segments |->
       <<[start |-> 2, end |-> 4, rate |-> <<1, 1>>, weights |-> "PICK" :> 1 @@ "PUTAWAY" :> 1],
         [start |-> 3, end |-> 4, rate |-> <<1, 2>>, weights |-> "SHIP" :> 1]>>] }

-----------------------------------------------------------------------------
(* What the proofs about routes rely on.                                   *)

ASSUME FloorAssumption == Connected
============================================================================
