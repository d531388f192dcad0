-------------------------- MODULE ParkingLot_proofs --------------------------
(* Proofs that the races of HW3 leave the displayed counts in their bounds. *)
EXTENDS ParkingLot, TLAPS

Inv == TypeOK /\ CountWithinBounds /\ RegistersBounded

(* Two owners of a kind are never both between lock and unlock.            *)
LEMMA OwnersExclude ==
  ASSUME TypeOK, NEW o \in Owners, NEW p \in Owners,
         pc[o] \in Locked, pc[p] \in Locked, kind[o] = kind[p]
  PROVE  o = p
BY DEF TypeOK

LEMMA InitInv == Init => Inv
BY MaxAssumption
   DEF Init, Inv, TypeOK, CountWithinBounds, RegistersBounded, Locked

(* The steps that touch neither a counter nor a mutex.                     *)
LEMMA OwnerKeepsInv ==
  ASSUME Inv, NEW o \in Owners, OwnerStep(o)
  PROVE  Inv'
<1> USE MaxAssumption, NoOneAssumption DEF Inv
<1>1. CASE Enter(o)
  <2>1. TypeOK'
    BY <1>1 DEF Enter, Move, TypeOK, Locked, attendantVars
  <2>2. CountWithinBounds' /\ RegistersBounded'
    BY <1>1 DEF Enter, Move, TypeOK, CountWithinBounds, RegistersBounded,
                attendantVars
  <2> QED BY <2>1, <2>2
<1>2. CASE LoadID(o)
  <2>1. TypeOK'
    BY <1>2 DEF LoadID, Move, TypeOK, Locked, attendantVars
  <2>2. CountWithinBounds' /\ RegistersBounded'
    BY <1>2 DEF LoadID, Move, TypeOK, CountWithinBounds, RegistersBounded,
                attendantVars
  <2> QED BY <2>1, <2>2
<1>3. CASE StoreID(o)
  <2>1. TypeOK'
    BY <1>3 DEF StoreID, Move, TypeOK, Locked, attendantVars
  <2>2. CountWithinBounds' /\ RegistersBounded'
    BY <1>3 DEF StoreID, Move, TypeOK, CountWithinBounds, RegistersBounded,
                attendantVars
  <2> QED BY <2>1, <2>2
<1>4. CASE CheckSpace(o)
  <2>1. TypeOK'
    BY <1>4 DEF CheckSpace, Move, TypeOK, Locked, attendantVars
  <2>2. CountWithinBounds' /\ RegistersBounded'
    BY <1>4 DEF CheckSpace, Move, HasSpace, TypeOK, CountWithinBounds,
                RegistersBounded, attendantVars
  <2> QED BY <2>1, <2>2
<1>5. CASE LoadCount(o)
  <2>1. TypeOK'
    BY <1>5 DEF LoadCount, Move, TypeOK, CountWithinBounds, Locked,
                attendantVars
  <2>2. CountWithinBounds' /\ RegistersBounded'
    BY <1>5 DEF LoadCount, Move, TypeOK, CountWithinBounds, RegistersBounded,
                attendantVars
  <2> QED BY <2>1, <2>2
<1>6. CASE StoreCount(o)
  <2>0. reg[o] \in Int /\ kind[o] \in Kinds /\ Max[kind[o]] \in Nat
        /\ reg[o] \in count[kind[o]] .. Max[kind[o]] - 1
    BY <1>6 DEF StoreCount, Move, TypeOK, RegistersBounded
  <2>1. TypeOK'
    BY <1>6, <2>0 DEF StoreCount, Move, TypeOK, Locked, attendantVars
  <2>2. CountWithinBounds'
    BY <1>6, <2>0 DEF StoreCount, TypeOK, CountWithinBounds
  <2>3. (\A k \in Kinds : at[k] = "store" => areg[k] \in 1 .. count[k])'
    BY <1>6, <2>0 DEF StoreCount, TypeOK, RegistersBounded, CountWithinBounds,
                      attendantVars
  <2>4. (\A k \in Kinds : at[k] = "load" => count[k] > 0)'
    BY <1>6, <2>0 DEF StoreCount, TypeOK, RegistersBounded, CountWithinBounds,
                      attendantVars
  <2>5. ASSUME NEW p \in Owners, pc'[p] \in {"load", "store"}
        PROVE  kind[p] # kind[o] /\ pc'[p] = pc[p]
    BY <1>6, <2>5, OwnersExclude DEF StoreCount, Move, TypeOK, Locked
  <2>6. ASSUME NEW p \in Owners
        PROVE  (/\ pc[p] = "store" =>
                     reg[p] \in count[kind[p]] .. Max[kind[p]] - 1
                /\ pc[p] = "load" => count[kind[p]] < Max[kind[p]])'
    BY <1>6, <2>5 DEF StoreCount, TypeOK, RegistersBounded
  <2> QED BY <2>1, <2>2, <2>3, <2>4, <2>6 DEF RegistersBounded
<1>7. CASE Depart(o)
  <2>1. TypeOK'
    <3>1. \A p \in Owners : pc[p] \in Locked /\ p # o => kind[p] # kind[o]
      BY <1>7, OwnersExclude DEF Depart, Move, Locked
    <3> QED BY <1>7, <3>1 DEF Depart, Move, TypeOK, Locked, attendantVars
  <2>2. CountWithinBounds' /\ RegistersBounded'
    BY <1>7 DEF Depart, Move, TypeOK, CountWithinBounds, RegistersBounded,
                attendantVars
  <2> QED BY <2>1, <2>2
<1> QED BY <1>1, <1>2, <1>3, <1>4, <1>5, <1>6, <1>7 DEF OwnerStep

LEMMA AttendantKeepsInv ==
  ASSUME Inv, NEW k \in Kinds, AttendantStep(k)
  PROVE  Inv'
<1> USE MaxAssumption DEF Inv
<1>1. CASE Wake(k)
  BY <1>1 DEF Wake, CarWaiting, AttendantMove, ownerVars, TypeOK,
              CountWithinBounds, RegistersBounded
<1>2. CASE AttendantLoad(k)
  BY <1>2 DEF AttendantLoad, AttendantMove, ownerVars, TypeOK,
              CountWithinBounds, RegistersBounded
<1>3. CASE AttendantStore(k)
  <2>0. areg[k] \in 1 .. count[k] /\ count[k] \in 0 .. Max[k]
        /\ Max[k] \in Nat
    BY <1>3 DEF AttendantStore, AttendantMove, TypeOK, RegistersBounded,
                CountWithinBounds
  <2>1. TypeOK'
    BY <1>3, <2>0 DEF AttendantStore, AttendantMove, ownerVars, TypeOK
  <2>2. CountWithinBounds'
    BY <1>3, <2>0 DEF AttendantStore, TypeOK, CountWithinBounds
  <2>3. RegistersBounded'
    <3>1. (\A j \in Kinds : /\ at[j] = "store" => areg[j] \in 1 .. count[j]
                            /\ at[j] = "load" => count[j] > 0)'
      BY <1>3, <2>0 DEF AttendantStore, AttendantMove, TypeOK,
                        RegistersBounded
    <3>2. ASSUME NEW p \in Owners
          PROVE  (/\ pc[p] = "store" =>
                       reg[p] \in count[kind[p]] .. Max[kind[p]] - 1
                  /\ pc[p] = "load" => count[kind[p]] < Max[kind[p]])'
      <4>1. count'[kind[p]] \in Int /\ count'[kind[p]] <= count[kind[p]]
            /\ count[kind[p]] \in Int /\ reg[p] \in Int
            /\ Max[kind[p]] \in Int
        BY <1>3, <2>0 DEF AttendantStore, TypeOK
      <4> QED BY <1>3, <4>1 DEF AttendantStore, ownerVars, RegistersBounded
    <3> QED BY <3>1, <3>2 DEF RegistersBounded
  <2> QED BY <2>1, <2>2, <2>3
<1>4. CASE Sleep(k)
  BY <1>4 DEF Sleep, AttendantMove, ownerVars, TypeOK, CountWithinBounds,
              RegistersBounded
<1> QED BY <1>1, <1>2, <1>3, <1>4 DEF AttendantStep

(* The inductive invariant: the bounds of the counters together with those *)
(* of the registers about to be stored in them.                            *)
THEOREM ParkingInvariant == Spec => []Inv
<1>1. Inv /\ [Next]_vars => Inv'
  <2> SUFFICES ASSUME Inv, [Next]_vars PROVE Inv'
    OBVIOUS
  <2>1. CASE Next
    <3>1. CASE Interrupt
      BY <3>1 DEF Interrupt, Inv, TypeOK, CountWithinBounds,
                  RegistersBounded, Locked
    <3> QED BY <2>1, <3>1, OwnerKeepsInv, AttendantKeepsInv DEF Next
  <2>2. CASE UNCHANGED vars
    BY <2>2 DEF vars, ownerVars, attendantVars, Inv, TypeOK,
                CountWithinBounds, RegistersBounded
  <2> QED BY <2>1, <2>2
<1> QED BY InitInv, <1>1, PTL DEF Spec

(* For any number of owners and any maxima, showParkingStatus never prints *)
(* a count below 0 or above the maximum.                                   *)
THEOREM BoundsHold == Spec => []CountWithinBounds
BY ParkingInvariant, PTL DEF Inv

(* And no register about to be stored is stale in the harmful direction.   *)
THEOREM RegistersHold == Spec => []RegistersBounded
BY ParkingInvariant, PTL DEF Inv
=============================================================================
