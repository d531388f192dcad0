----------------------------- MODULE ParkingLot -----------------------------
(***************************************************************************)
(* The parking lot of HW3: owner threads ask for a place in the temporary  *)
(* lot of their kind of car, one attendant thread per kind parks the cars  *)
(* away.  Owners of a kind lock new[k], the attendant locks inCharge[k]:   *)
(* the counters are shared by threads that hold different mutexes, and     *)
(* carID by owners of both kinds.  The ++ and -- of C on such a variable   *)
(* are a load and a store of a register, with other threads in between.    *)
(***************************************************************************)
EXTENDS Integers

CONSTANTS Owners,    \* owner threads main creates
          Kinds,     \* "pickup", "auto"
          Max,       \* Max[k]: MAX_PICKUP, MAX_AUTO
          NoOne      \* holder of a free mutex

ASSUME MaxAssumption == Max \in [Kinds -> Nat \ {0}]
ASSUME NoOneAssumption == NoOne \notin Owners

VARIABLES pc,        \* pc[o]: control of an owner
          kind,      \* kind[o]: car.type
          id,        \* id[o]: car.id
          reg,       \* reg[o]: register of the owner's current ++
          new,       \* new[k]: holder of newPickup, newAuto
          carID,
          count,     \* count[k]: tempPickupCount, tempAutoCount
          at,        \* at[k]: control of the attendant, holding inCharge[k]
                     \*   everywhere but at "sleep"
          areg,      \* areg[k]: register of the attendant's --
          inLot      \* inLot[k]: cars let in less cars parked away

ownerVars == <<pc, kind, id, reg, new, carID>>
attendantVars == <<at, areg>>
vars == <<ownerVars, attendantVars, count, inLot>>

Init ==
  /\ pc = [o \in Owners |-> "away"]
  /\ kind \in [Owners -> Kinds]
  /\ id = [o \in Owners |-> -1]
  /\ reg = [o \in Owners |-> 0]
  /\ new = [k \in Kinds |-> NoOne]
  /\ carID = 0
  /\ count = [k \in Kinds |-> 0]
  /\ at = [k \in Kinds |-> "sleep"]
  /\ areg = [k \in Kinds |-> 0]
  /\ inLot = [k \in Kinds |-> 0]

Move(o, from, to) == pc[o] = from /\ pc' = [pc EXCEPT ![o] = to]

(* main creates the thread; it locks newPickup or newAuto. *)
Enter(o) ==
  /\ Move(o, "away", "loadID")
  /\ new[kind[o]] = NoOne
  /\ new' = [new EXCEPT ![kind[o]] = o]
  /\ UNCHANGED <<kind, id, reg, carID, attendantVars, count, inLot>>

LoadID(o) ==
  /\ Move(o, "loadID", "storeID")
  /\ reg' = [reg EXCEPT ![o] = carID]
  /\ UNCHANGED <<kind, id, new, carID, attendantVars, count, inLot>>

StoreID(o) ==
  /\ Move(o, "storeID", "check")
  /\ id' = [id EXCEPT ![o] = reg[o]]
  /\ carID' = reg[o] + 1
  /\ UNCHANGED <<kind, reg, new, attendantVars, count, inLot>>

(* Mutant: off by one. *)
HasSpaceLax(k) == count[k] <= Max[k]
HasSpace(k) == count[k] < Max[k]

CheckSpace(o) ==
  /\ Move(o, "check", IF HasSpace(kind[o]) THEN "load" ELSE "refused")
  /\ UNCHANGED <<kind, id, reg, new, carID, attendantVars, count, inLot>>

LoadCount(o) ==
  /\ Move(o, "load", "store")
  /\ reg' = [reg EXCEPT ![o] = count[kind[o]]]
  /\ UNCHANGED <<kind, id, new, carID, attendantVars, count, inLot>>

StoreCount(o) ==
  /\ Move(o, "store", "admitted")
  /\ count' = [count EXCEPT ![kind[o]] = reg[o] + 1]
  /\ inLot' = [inLot EXCEPT ![kind[o]] = @ + 1]
  /\ UNCHANGED <<kind, id, reg, new, carID, attendantVars>>

(* Mutant: an owner who is turned away does not unlock. *)
DepartLocked(o) ==
  /\ \/ /\ Move(o, "admitted", "parked")
        /\ new' = [new EXCEPT ![kind[o]] = NoOne]
     \/ Move(o, "refused", "turnedAway") /\ UNCHANGED new
  /\ UNCHANGED <<kind, id, reg, carID, attendantVars, count, inLot>>

(* Both branches unlock, and print, in either order. *)
Depart(o) ==
  /\ Move(o, "admitted", "parked") \/ Move(o, "refused", "turnedAway")
  /\ new' = [new EXCEPT ![kind[o]] = NoOne]
  /\ UNCHANGED <<kind, id, reg, carID, attendantVars, count, inLot>>

OwnerStep(o) ==
  \/ Enter(o) \/ LoadID(o) \/ StoreID(o) \/ CheckSpace(o)
  \/ LoadCount(o) \/ StoreCount(o) \/ Depart(o)

AttendantMove(k, from, to) == at[k] = from /\ at' = [at EXCEPT ![k] = to]

(* Mutant: off by one. *)
CarWaitingLate(k) == count[k] > 1
CarWaiting(k) == count[k] > 0

(* sleep(3) is over; lock inCharge[k], and test the counter. *)
Wake(k) ==
  /\ AttendantMove(k, "sleep", IF CarWaiting(k) THEN "load" ELSE "unlock")
  /\ UNCHANGED <<ownerVars, areg, count, inLot>>

AttendantLoad(k) ==
  /\ AttendantMove(k, "load", "store")
  /\ areg' = [areg EXCEPT ![k] = count[k]]
  /\ UNCHANGED <<ownerVars, count, inLot>>

AttendantStore(k) ==
  /\ AttendantMove(k, "store", "unlock")
  /\ count' = [count EXCEPT ![k] = areg[k] - 1]
  /\ inLot' = [inLot EXCEPT ![k] = @ - 1]
  /\ UNCHANGED <<ownerVars, areg>>

Sleep(k) ==
  /\ AttendantMove(k, "unlock", "sleep")
  /\ UNCHANGED <<ownerVars, areg, count, inLot>>

AttendantStep(k) ==
  Wake(k) \/ AttendantLoad(k) \/ AttendantStore(k) \/ Sleep(k)

(* sigINTHandler ends the process, and its threads with it.                *)
Interrupt ==
  /\ \E k \in Kinds : at[k] # "gone"
  /\ pc' = [o \in Owners |-> "gone"] /\ at' = [k \in Kinds |-> "gone"]
  /\ UNCHANGED <<kind, id, reg, new, carID, areg, count, inLot>>

Next ==
  \/ \E o \in Owners : OwnerStep(o)
  \/ \E k \in Kinds : AttendantStep(k)
  \/ Interrupt

Spec == Init /\ [][Next]_vars

(* The threads keep running; a mutex that is freed again and again is got  *)
(* by every owner that waits for it, of whom there are finitely many.      *)
FairSpec ==
  /\ Spec
  /\ \A o \in Owners : WF_vars(OwnerStep(o))
  /\ \A k \in Kinds : WF_vars(AttendantStep(k))

-----------------------------------------------------------------------------
(* The variables hold values of their C types; an owner between lock and   *)
(* unlock holds the mutex of its kind.                                     *)
Locked == {"loadID", "storeID", "check", "load", "store", "admitted",
           "refused"}
TypeOK ==
  /\ pc \in [Owners -> Locked \cup {"away", "parked", "turnedAway", "gone"}]
  /\ kind \in [Owners -> Kinds]
  /\ id \in [Owners -> Nat \cup {-1}] /\ reg \in [Owners -> Nat]
  /\ new \in [Kinds -> Owners \cup {NoOne}]
  /\ carID \in Nat
  /\ count \in [Kinds -> Int] /\ inLot \in [Kinds -> Int]
  /\ at \in [Kinds -> {"sleep", "load", "store", "unlock", "gone"}]
  /\ areg \in [Kinds -> Int]
  /\ \A o \in Owners : pc[o] \in Locked => new[kind[o]] = o

(* showParkingStatus never prints a count below 0 or above the maximum:    *)
(* although the two sides of a counter hold different mutexes, their lost  *)
(* updates cannot push it out of its bounds, because each side has one     *)
(* thread at a time and only ever moves the counter its own way.           *)
CountWithinBounds == \A k \in Kinds : count[k] \in 0 .. Max[k]

(* A register never goes stale upwards: the value an attendant is about to *)
(* decrement is at most the counter, the value an owner is about to        *)
(* increment is below the maximum and at least the counter.                *)
RegistersBounded ==
  /\ \A k \in Kinds : at[k] = "store" => areg[k] \in 1 .. count[k]
  /\ \A k \in Kinds : at[k] = "load" => count[k] > 0
  /\ \A o \in Owners :
       /\ pc[o] = "store" => reg[o] \in count[kind[o]] .. Max[kind[o]] - 1
       /\ pc[o] = "load" => count[kind[o]] < Max[kind[o]]

(* Once the owners stop coming the attendants count every counter down to  *)
(* 0 and no further, whatever updates were lost, unless SIGINT ends the    *)
(* program first.  Of the cars it says nothing: the counter that lost an   *)
(* increment comes to 0 while a car is still in the lot (inLot), and no    *)
(* attendant will ever fetch it.                                           *)
CountersReturnToZero ==
  \A k \in Kinds : <>[](count[k] = 0 \/ at[k] = "gone")

(* Every owner is let in or turned away, unless SIGINT comes first.        *)
EveryOwnerAnswered ==
  \A o \in Owners : <>(pc[o] \in {"parked", "turnedAway", "gone"})

(* "Maximum number of pickup cars that can be parked in temporary lot",    *)
(* and the same for auto cars: of cars, not of what the counter shows.     *)
(* That is not so: with a lost update the lot takes one car too many.      *)
LotWithinMax == \A k \in Kinds : inLot[k] <= Max[k]
=============================================================================
