---------------------------- MODULE MCParkingLot ----------------------------
(* Two kinds of cars, small lots. *)
EXTENDS ParkingLot

CONSTANTS PickupMax, AutoMax

MCKinds == {"pickup", "auto"}
MCMax == [k \in MCKinds |-> IF k = "pickup" THEN PickupMax ELSE AutoMax]
=============================================================================
