------------------------------ MODULE OrderLife ------------------------------
(***************************************************************************)
(* What the pide shop of Final promises of an order, without threads,      *)
(* queues or locks: the stages it goes through, one after the other, and   *)
(* how many orders fit in a stage at a time.                               *)
(***************************************************************************)
EXTENDS Naturals, Sequences, FiniteSets

CONSTANTS Clients, CookCount, ShovelCount, DeliveryPoolSize

VARIABLE life   \* life[c]: the stage of the order of client c

Stages == <<"none", "received", "pending", "cooking", "baking", "baked",
            "ready", "delivering", "delivered">>

In(stages) == Cardinality({c \in Clients : life[c] \in stages})

Init == life = [c \in Clients |-> "none"]

(* The order of c goes on to the next stage.                               *)
Advance(c) ==
  \E i \in 1 .. Len(Stages) - 1 :
    life[c] = Stages[i] /\ life' = [life EXCEPT ![c] = Stages[i + 1]]

Limits ==
  /\ In({"cooking", "baking", "baked"}) <= CookCount
  /\ In({"baking"}) <= ShovelCount
  /\ In({"delivering"}) <= DeliveryPoolSize

Next == (\E c \in Clients : Advance(c)) /\ Limits'

Spec == Init /\ [][Next]_life
=============================================================================
