--------------------------- MODULE PideShop_proofs ---------------------------
(***************************************************************************)
(* Proofs about the pide shop, for every number of clients, cooks,         *)
(* delivery threads and shovels.                                           *)
(*                                                                         *)
(* ShopInv says who has an order in hand, that what is in use of the       *)
(* queues are orders, and that the order of a client is in one place.      *)
(* That alone keeps the counts within the arrays: the program never        *)
(* compares them with MAX_ORDERS.                                          *)
(***************************************************************************)
EXTENDS PideShop, FiniteSetTheorems, TLAPS

Preparing == {"shovel", "oven", "signalShovel", "ready"}

(* A thread has an order in hand exactly between its take and its put.     *)
HandsOK ==
  /\ \A c \in Clients :
       IF pc[c] \in {"storeID", "push"}
       THEN /\ order[c] \in Orders
            /\ order[c].clientSocket = c /\ order[c].status = 0
       ELSE order[c] = NoOrder
  /\ \A k \in Cooks : IF pc[k] \in Preparing THEN order[k] \in Orders
                                             ELSE order[k] = NoOrder
  /\ \A d \in Deliverers : IF pc[d] = "send" THEN order[d] \in Orders
                                             ELSE order[d] = NoOrder

QueuesOK ==
  /\ orderCount \in Nat /\ deliveryCount \in Nat
  /\ \A i \in Pending : orderQueue[i] \in Orders /\ orderQueue[i].status = 0
  /\ \A i \in Done : deliveryQueue[i] \in Orders

(* The manager of c has received an order from c.                          *)
Received(c) == pc[c] \notin {"none", "recv"} /\ client[c] # "failed"

OnePlaceOf(c) ==
  /\ \A p, q \in Places(c) : p = q
  /\ Places(c) # {} <=> Received(c)
PlacesOK ==
  \A c \in Clients :
    OnePlaceOf(c) /\ \A i \in DOMAIN replies[c] : replies[c][i].clientSocket = c

(* What the manager of c may find in its inbox, and until when.            *)
ClientsOK ==
  \A c \in Clients :
    /\ client[c] \in {"away", "connected", "gone", "unconnected"} =>
         inbox[c] = {} /\ pc[c] \in {"none", "recv"}
    /\ client[c] = "failed" =>
         inbox[c] = {} /\ pc[c] \in {"none", "recv", "ended"}

ShopInv == TypeOK /\ HandsOK /\ QueuesOK /\ PlacesOK /\ ClientsOK

-----------------------------------------------------------------------------
(* The places of an order, one kind after the other.                       *)
MembersOf(c) ==
  /\ \A t : <<"thread", t>> \in Places(c) <=>
              t \in Workers /\ order[t].clientSocket = c
  /\ \A i : <<"pending", i>> \in Places(c) <=>
              i \in Pending /\ orderQueue[i].clientSocket = c
  /\ \A i : <<"done", i>> \in Places(c) <=>
              i \in Done /\ deliveryQueue[i].clientSocket = c
  /\ \A i : <<"reply", i>> \in Places(c) <=> i \in DOMAIN replies[c]
  /\ \A p \in Places(c) : \E x : p \in {<<"thread", x>>, <<"pending", x>>,
                                        <<"done", x>>, <<"reply", x>>}

LEMMA PlacesMembers ==
  ASSUME NEW c \in Clients
  PROVE  MembersOf(c) /\ MembersOf(c)'
BY DEF MembersOf, Places

(* Fewer clients than slots: orders of different clients fit in a queue.   *)
LEMMA Room ==
  ASSUME NEW n \in Nat, NEW S \in SUBSET Clients, NEW f \in [0 .. n-1 -> S],
         \A i, j \in 0 .. n-1 : f[i] = f[j] => i = j
  PROVE  n <= Cardinality(S)
<1>1. IsFiniteSet(S)
  BY QueuesLongEnough, FS_Subset
<1>2. f \in Injection(0 .. n-1, S)
  BY DEF Injection, IsInjective
<1>3. Cardinality(0 .. n-1) <= Cardinality(S)
  BY <1>1, <1>2, FS_Injection
<1>4. Cardinality(0 .. n-1) = n
  BY FS_Interval
<1> QED BY <1>3, <1>4

LEMMA CountsFit ==
  ASSUME ShopInv
  PROVE  /\ orderCount <= MaxOrders /\ deliveryCount <= MaxOrders
         /\ \A c \in Clients, t \in Workers :
              order[t].clientSocket = c =>
                orderCount < MaxOrders /\ deliveryCount < MaxOrders
<1> USE DEF ShopInv
<1> DEFINE waiting == [i \in 0 .. orderCount - 1 |-> orderQueue[i].clientSocket]
           ready == [i \in 0 .. deliveryCount - 1 |->
                       deliveryQueue[i].clientSocket]
<1>0. orderCount \in Nat /\ deliveryCount \in Nat /\ MaxOrders \in Nat
  BY LimitsAssumption DEF QueuesOK
<1>1. /\ waiting \in [0 .. orderCount - 1 -> Clients]
      /\ ready \in [0 .. deliveryCount - 1 -> Clients]
  BY DEF QueuesOK, Pending, Done, Orders
<1>2. /\ \A i, j \in 0 .. orderCount - 1 : waiting[i] = waiting[j] => i = j
      /\ \A i, j \in 0 .. deliveryCount - 1 : ready[i] = ready[j] => i = j
  <2>1. ASSUME NEW i \in Pending, NEW j \in Pending, waiting[i] = waiting[j]
        PROVE  i = j
    <3>1. orderQueue[i].clientSocket \in Clients
      BY <2>1 DEF QueuesOK, Orders
    <3> DEFINE c == orderQueue[i].clientSocket
    <3>2. <<"pending", i>> \in Places(c) /\ <<"pending", j>> \in Places(c)
      BY <3>1, <2>1, PlacesMembers DEF MembersOf, Pending
    <3> QED BY <3>1, <3>2 DEF PlacesOK, OnePlaceOf
  <2>2. ASSUME NEW i \in Done, NEW j \in Done, ready[i] = ready[j]
        PROVE  i = j
    <3>1. deliveryQueue[i].clientSocket \in Clients
      BY <2>2 DEF QueuesOK, Orders
    <3> DEFINE c == deliveryQueue[i].clientSocket
    <3>2. <<"done", i>> \in Places(c) /\ <<"done", j>> \in Places(c)
      BY <3>1, <2>2, PlacesMembers DEF MembersOf, Done
    <3> QED BY <3>1, <3>2 DEF PlacesOK, OnePlaceOf
  <2> QED BY <2>1, <2>2 DEF Pending, Done
<1>3. Cardinality(Clients) <= MaxOrders /\ Cardinality(Clients) \in Nat
  BY QueuesLongEnough, FS_CardinalityType
<1>4. orderCount <= Cardinality(Clients) /\ deliveryCount <= Cardinality(Clients)
  <2> HIDE DEF waiting, ready
  <2> QED BY <1>0, <1>1, <1>2, Room
<1>5. ASSUME NEW c \in Clients, NEW t \in Workers, order[t].clientSocket = c
      PROVE  orderCount < MaxOrders /\ deliveryCount < MaxOrders
  <2>1. <<"thread", t>> \in Places(c)
    BY <1>5, PlacesMembers DEF MembersOf
  <2>2. \A p \in Places(c) : p = <<"thread", t>>
    BY <2>1 DEF PlacesOK, OnePlaceOf
  <2>3. \A i \in Pending : waiting[i] # c
    BY <2>2, PlacesMembers DEF MembersOf, Pending
  <2>4. \A i \in Done : ready[i] # c
    BY <2>2, PlacesMembers DEF MembersOf, Done
  <2>5. /\ waiting \in [0 .. orderCount - 1 -> Clients \ {c}]
        /\ ready \in [0 .. deliveryCount - 1 -> Clients \ {c}]
    BY <1>1, <2>3, <2>4 DEF Pending, Done
  <2>6. /\ orderCount <= Cardinality(Clients \ {c})
        /\ deliveryCount <= Cardinality(Clients \ {c})
    <3> HIDE DEF waiting, ready
    <3> QED BY <1>0, <1>2, <2>5, Room
  <2>7. Cardinality(Clients \ {c}) = Cardinality(Clients) - 1
    BY QueuesLongEnough, FS_RemoveElement
  <2> QED BY <1>0, <1>3, <2>6, <2>7
<1> QED BY <1>0, <1>3, <1>4, <1>5
-----------------------------------------------------------------------------
(* Every step of the shop is one of these.                                 *)
Operation ==
  \/ \E c \in Clients :
       \/ Connect(c) \/ ConnectFails(c) \/ Send(c) \/ SendFails(c)
       \/ Receive(c) \/ Accept(c)
       \/ Recv(c) \/ RecvNothing(c) \/ StoreID(c) \/ Push(c) \/ SignalOrder(c)
  \/ CancelAll \/ MainSignal \/ MainLock \/ MainUnlock
  \/ \E k \in Cooks :
       \/ Break(k) \/ WaitOrder(k) \/ TakeOrder(k) \/ WaitShovel(k)
       \/ TakeShovel(k) \/ ReleaseShovel(k) \/ SignalShovel(k) \/ Ready(k)
       \/ SignalDelivery(k)
  \/ \E d \in Deliverers :
       \/ Break(d) \/ WaitDelivery(d) \/ TakeDelivery(d) \/ Deliver(d)
       \/ CountDelivery(d)
  \/ Sigint \/ SetStop \/ Exit \/ UNCHANGED vars

LEMMA NextIsOperation == [Next]_vars => Operation
BY DEF Next, Operation, ClientStep, ManagerStep, MainStep, CookStep,
       DeliveryStep, HandlerStep

(* The steps that move an order.                                           *)
LEMMA HandsPreserved ==
  ASSUME ShopInv, Operation
  PROVE  HandsOK' /\ QueuesOK'
<1> USE ThreadsDistinct DEF ShopInv, Step, Threads
<1>0. /\ pc \in [Threads -> Labels] /\ order \in [Workers -> AnyOrder]
      /\ Workers \subseteq Threads
      /\ orderCount \in Nat /\ deliveryCount \in Nat
      /\ orderQueue \in [Slots -> AnyOrder]
      /\ deliveryQueue \in [Slots -> AnyOrder] /\ orderCounter \in Nat
  BY DEF TypeOK, Workers, QueuesOK
<1>1. ASSUME NEW c \in Clients, Recv(c) PROVE HandsOK' /\ QueuesOK'
  <2>1. order'[c] \in Orders /\ order'[c].clientSocket = c /\ order'[c].status = 0
    BY <1>1, <1>0 DEF Recv, Orders, Workers
  <2>2. HandsOK'
    BY <1>1, <1>0, <2>1 DEF Recv, HandsOK, Preparing, Workers
  <2>3. QueuesOK'
    BY <1>1 DEF Recv, QueuesOK, queueVars, Pending, Done
  <2> QED BY <2>2, <2>3
<1>2. ASSUME NEW c \in Clients, Push(c) PROVE HandsOK' /\ QueuesOK'
  <2>1. HandsOK'
    BY <1>2, <1>0 DEF Push, HandsOK, Preparing, Workers
  <2>2. orderCount \in Slots
    BY <1>2, <1>0, CountsFit, LimitsAssumption DEF Push, HandsOK, Slots, Workers
  <2>3. QueuesOK'
    BY <1>2, <1>0, <2>2 DEF Push, QueuesOK, HandsOK, Pending, Done
  <2> QED BY <2>1, <2>3
<1>3. ASSUME NEW k \in Cooks, TakeOrder(k) PROVE HandsOK' /\ QueuesOK'
  <2>1. NextOrder \in Pending /\ orderCount' \in Nat /\ Pending' \subseteq Pending
    BY <1>3, <1>0 DEF TakeOrder, NextOrder, Pending
  <2>2. orderQueue[NextOrder] \in Orders /\ orderQueue[NextOrder].status = 0
    BY <2>1 DEF QueuesOK
  <2>3. order'[k] \in Orders
    BY <1>3, <1>0, <2>2 DEF TakeOrder, Orders, Workers
  <2>4. HandsOK'
    BY <1>3, <1>0, <2>2, <2>3 DEF TakeOrder, HandsOK, Preparing, Workers
  <2>5. QueuesOK'
    BY <1>3, <2>1 DEF TakeOrder, QueuesOK, Done
  <2> QED BY <2>4, <2>5
<1>4. ASSUME NEW k \in Cooks, Ready(k) PROVE HandsOK' /\ QueuesOK'
  <2>1. HandsOK'
    BY <1>4, <1>0 DEF Ready, HandsOK, Preparing, Workers
  <2>2. order[k] \in Orders
    BY <1>4 DEF Ready, HandsOK, Preparing
  <2>3. deliveryCount \in Slots
    BY <1>0, <2>2, CountsFit, LimitsAssumption DEF Orders, Slots, Workers
  <2>4. Prepared(k) \in Orders
    BY <2>2 DEF Prepared, Orders
  <2>5. QueuesOK'
    BY <1>4, <1>0, <2>3, <2>4 DEF Ready, QueuesOK, Pending, Done
  <2> QED BY <2>1, <2>5
<1>5. ASSUME NEW d \in Deliverers, TakeDelivery(d) PROVE HandsOK' /\ QueuesOK'
  <2>1. /\ NextDelivery \in Done /\ deliveryCount' \in Nat
        /\ Done' \subseteq Done
    BY <1>5, <1>0 DEF TakeDelivery, NextDelivery, Done
  <2>2. deliveryQueue[NextDelivery] \in Orders
    BY <2>1 DEF QueuesOK
  <2>3. HandsOK'
    BY <1>5, <1>0, <2>2 DEF TakeDelivery, HandsOK, Preparing, Workers
  <2>4. QueuesOK'
    BY <1>5, <2>1 DEF TakeDelivery, QueuesOK, Pending
  <2> QED BY <2>3, <2>4
<1>6. ASSUME NEW d \in Deliverers, Deliver(d) PROVE HandsOK' /\ QueuesOK'
  <2>1. HandsOK'
    BY <1>6, <1>0 DEF Deliver, HandsOK, Preparing, Workers
  <2>2. QueuesOK'
    BY <1>6 DEF Deliver, QueuesOK, queueVars, Pending, Done
  <2> QED BY <2>1, <2>2
<1>7. ASSUME UNCHANGED <<order, queueVars>>,
             \A c \in Clients : pc'[c] \in {"storeID", "push"} <=>
                                pc[c] \in {"storeID", "push"},
             \A k \in Cooks : pc'[k] \in Preparing <=> pc[k] \in Preparing,
             \A d \in Deliverers : pc'[d] = "send" <=> pc[d] = "send"
      PROVE  HandsOK' /\ QueuesOK'
  BY <1>7 DEF HandsOK, QueuesOK, queueVars, Pending, Done
<1>8. ASSUME NEW c \in Clients,
             \/ Connect(c) \/ ConnectFails(c) \/ Send(c) \/ SendFails(c)
             \/ Receive(c) \/ Accept(c)
             \/ RecvNothing(c) \/ StoreID(c) \/ SignalOrder(c)
      PROVE  HandsOK' /\ QueuesOK'
  BY <1>8, <1>0, <1>7
     DEF Connect, ConnectFails, Send, SendFails, Receive, Accept, RecvNothing,
         StoreID, SignalOrder, ClientFrame, Workers, Preparing
<1>9. ASSUME NEW k \in Cooks,
             \/ Break(k) \/ WaitOrder(k) \/ WaitShovel(k) \/ TakeShovel(k)
             \/ ReleaseShovel(k) \/ SignalShovel(k) \/ SignalDelivery(k)
      PROVE  HandsOK' /\ QueuesOK'
  BY <1>9, <1>0, <1>7
     DEF Break, WaitOrder, WaitShovel, TakeShovel, ReleaseShovel,
         SignalShovel, SignalDelivery, Workers, Preparing
<1>10. ASSUME NEW d \in Deliverers,
              Break(d) \/ WaitDelivery(d) \/ CountDelivery(d)
       PROVE  HandsOK' /\ QueuesOK'
  BY <1>10, <1>0, <1>7
     DEF Break, WaitDelivery, CountDelivery, Workers, Preparing
<1>11. CASE \/ CancelAll \/ MainSignal \/ MainLock \/ MainUnlock
            \/ Sigint \/ SetStop \/ Exit \/ UNCHANGED vars
  BY <1>11, <1>0, <1>7
     DEF CancelAll, MainSignal, MainLock, MainUnlock, Sigint, SetStop, Exit,
         ClientFrame, vars, Workers
<1> QED
  BY <1>1, <1>2, <1>3, <1>4, <1>5, <1>6, <1>8, <1>9, <1>10, <1>11
     DEF Operation

LEMMA ClientsPreserved ==
  ASSUME ShopInv, Operation
  PROVE  ClientsOK'
<1> USE ThreadsDistinct DEF ShopInv, Step, Threads, ClientsOK
<1>0. /\ pc \in [Threads -> Labels] /\ DOMAIN client = Clients
      /\ DOMAIN inbox = Clients
  BY DEF TypeOK
<1>1. ASSUME NEW c \in Clients,
             \/ Connect(c) \/ ConnectFails(c) \/ Send(c) \/ SendFails(c)
             \/ Receive(c)
      PROVE  ClientsOK'
  BY <1>1, <1>0
     DEF Connect, ConnectFails, Send, SendFails, Receive, ClientFrame
<1>2. CASE CancelAll
  <2>1. /\ UNCHANGED pc
        /\ \A c \in Clients :
             \/ client'[c] = client[c] /\ inbox'[c] = inbox[c]
             \/ client[c] = "away" /\ client'[c] = "gone" /\ inbox'[c] = inbox[c]
             \/ client'[c] = "cancelled"
    BY <1>2 DEF CancelAll, ClientFrame
  <2> QED BY <2>1
<1>3. ASSUME NEW c \in Clients,
             \/ Accept(c) \/ Recv(c) \/ RecvNothing(c) \/ StoreID(c)
             \/ Push(c) \/ SignalOrder(c)
      PROVE  ClientsOK'
  BY <1>3, <1>0 DEF Accept, Recv, RecvNothing, StoreID, Push, SignalOrder,
                    clientVars
<1>4. ASSUME UNCHANGED <<client, inbox>>, \A c \in Clients : pc'[c] = pc[c]
      PROVE  ClientsOK'
  BY <1>4
<1>5. ASSUME NEW k \in Cooks,
             \/ Break(k) \/ WaitOrder(k) \/ TakeOrder(k) \/ WaitShovel(k)
             \/ TakeShovel(k) \/ ReleaseShovel(k) \/ SignalShovel(k)
             \/ Ready(k) \/ SignalDelivery(k)
      PROVE  ClientsOK'
  BY <1>5, <1>0, <1>4
     DEF Break, WaitOrder, TakeOrder, WaitShovel, TakeShovel, ReleaseShovel,
         SignalShovel, Ready, SignalDelivery, clientVars
<1>6. ASSUME NEW d \in Deliverers,
             \/ Break(d) \/ WaitDelivery(d) \/ TakeDelivery(d) \/ Deliver(d)
             \/ CountDelivery(d)
      PROVE  ClientsOK'
  BY <1>6, <1>0, <1>4
     DEF Break, WaitDelivery, TakeDelivery, Deliver, CountDelivery, clientVars
<1>7. CASE \/ MainSignal \/ MainLock \/ MainUnlock \/ Sigint \/ SetStop
           \/ Exit \/ UNCHANGED vars
  BY <1>7, <1>0, <1>4
     DEF MainSignal, MainLock, MainUnlock, Sigint, SetStop, Exit, vars,
         clientVars
<1> QED BY <1>1, <1>2, <1>3, <1>5, <1>6, <1>7 DEF Operation

(* Whom a signal wakes, waits no longer; nobody begins to.                 *)
LEMMA SignalledLess ==
  ASSUME NEW S, NEW T \in Signalled(S)
  PROVE  T \subseteq S
BY DEF Signalled

(* TypeOK, a part for each kind of variable.                               *)
ControlTyped ==
  /\ pc \in [Threads -> Labels] /\ logging \in BOOLEAN /\ stop \in BOOLEAN
  /\ isOrderAvailable \subseteq {k \in Cooks : pc[k] = "take"}
  /\ isDeliveryReady \subseteq {d \in Deliverers : pc[d] = "take"}
  /\ isShovelAvailable \subseteq {k \in Cooks : pc[k] = "shovel"}
  /\ status \in {"running", "exited"}
OrdersTyped ==
  /\ orderQueue \in [Slots -> AnyOrder] /\ deliveryQueue \in [Slots -> AnyOrder]
  /\ order \in [Workers -> AnyOrder]
CountersTyped ==
  /\ shovels \in Int /\ orderCounter \in Nat
  /\ deliveredCount \in [Deliverers -> Nat]
ClientsTyped ==
  /\ client \in [Clients -> {"away", "connected", "waiting", "served",
                             "failed", "gone", "cancelled", "unconnected"}]
  /\ inbox \in [Clients -> SUBSET {"order", "cancel"}]
  /\ replies \in [Clients -> Seq(AnyOrder)]

LEMMA TypeParts ==
  TypeOK <=> /\ ControlTyped /\ OrdersTyped /\ CountersTyped /\ ClientsTyped
             /\ orderCount \in Int /\ deliveryCount \in Int
BY DEF TypeOK, ControlTyped, OrdersTyped, CountersTyped, ClientsTyped

LEMMA ControlPreserved ==
  ASSUME ControlTyped, Operation
  PROVE  ControlTyped'
<1> USE ThreadsDistinct, SignalledLess DEF Step, Threads, ControlTyped, Labels
<1>1. ASSUME NEW c \in Clients,
             \/ Connect(c) \/ ConnectFails(c) \/ Send(c) \/ SendFails(c)
             \/ Receive(c)
      PROVE  ControlTyped'
  BY <1>1 DEF Connect, ConnectFails, Send, SendFails, Receive, ClientFrame,
              condVars, endVars
<1>2. ASSUME NEW c \in Clients,
             \/ Accept(c) \/ Recv(c) \/ RecvNothing(c) \/ StoreID(c) \/ Push(c)
      PROVE  ControlTyped'
  BY <1>2 DEF Accept, Recv, RecvNothing, StoreID, Push, condVars, endVars
<1>3. ASSUME NEW c \in Clients, SignalOrder(c) PROVE ControlTyped'
  BY <1>3 DEF SignalOrder, endVars
<1>4. ASSUME NEW t \in Cooks \cup Deliverers, Break(t) PROVE ControlTyped'
  BY <1>4 DEF Break, condVars, endVars
<1>5. ASSUME NEW k \in Cooks, WaitOrder(k) \/ WaitShovel(k)
      PROVE  ControlTyped'
  BY <1>5 DEF WaitOrder, WaitShovel, endVars
<1>6. ASSUME NEW k \in Cooks, TakeOrder(k) PROVE ControlTyped'
  <2>1. \/ pc' = [pc EXCEPT ![k] = "shovel"]
        \/ pc' = [pc EXCEPT ![k] = "take"]
    BY <1>6 DEF TakeOrder
  <2> QED BY <1>6, <2>1 DEF TakeOrder, condVars, endVars
<1>7. ASSUME NEW k \in Cooks, TakeShovel(k) \/ ReleaseShovel(k) \/ Ready(k)
      PROVE  ControlTyped'
  BY <1>7 DEF TakeShovel, ReleaseShovel, Ready, condVars, endVars
<1>8. ASSUME NEW k \in Cooks, SignalShovel(k) \/ SignalDelivery(k)
      PROVE  ControlTyped'
  BY <1>8 DEF SignalShovel, SignalDelivery, endVars
<1>9. ASSUME NEW d \in Deliverers, WaitDelivery(d) PROVE ControlTyped'
  BY <1>9 DEF WaitDelivery, endVars
<1>10. ASSUME NEW d \in Deliverers,
              TakeDelivery(d) \/ Deliver(d) \/ CountDelivery(d)
       PROVE  ControlTyped'
  BY <1>10 DEF TakeDelivery, Deliver, CountDelivery, condVars, endVars
<1>11. CASE CancelAll \/ UNCHANGED vars
  BY <1>11 DEF CancelAll, ClientFrame, vars, condVars, endVars
<1>12. CASE MainSignal
  BY <1>12 DEF MainSignal, endVars
<1>13. CASE MainLock \/ MainUnlock \/ Sigint \/ SetStop \/ Exit
  BY <1>13 DEF MainLock, MainUnlock, Sigint, SetStop, Exit, condVars, endVars
<1> QED
  BY <1>1, <1>2, <1>3, <1>4, <1>5, <1>6, <1>7, <1>8, <1>9, <1>10, <1>11,
     <1>12, <1>13 DEF Operation

LEMMA OrdersPreserved ==
  ASSUME ShopInv, Operation
  PROVE  OrdersTyped'
<1> USE DEF OrdersTyped, Step
<1>0. /\ Clients \subseteq Workers /\ Cooks \subseteq Workers
      /\ Deliverers \subseteq Workers /\ NoOrder \in AnyOrder
      /\ Orders \subseteq AnyOrder
      /\ OrdersTyped /\ HandsOK' /\ DOMAIN pc' = Threads /\ Workers \subseteq Threads
      /\ HandsOK
  BY HandsPreserved, ControlPreserved, TypeParts
  DEF Workers, AnyOrder, ShopInv, ControlTyped, Threads
<1>1. \A t \in Workers : order'[t] \in AnyOrder
  BY <1>0 DEF HandsOK, Workers
<1>2. ASSUME NEW c \in Clients, Recv(c) \/ Push(c) PROVE OrdersTyped'
  BY <1>2, <1>0, <1>1 DEF Recv, Push, queueVars
<1>3. ASSUME NEW k \in Cooks, TakeOrder(k) PROVE OrdersTyped'
  <2>1. order' \in [Workers -> AnyOrder]
    BY <1>3, <1>0, <1>1 DEF TakeOrder
  <2>2. UNCHANGED <<orderQueue, deliveryQueue>>
    BY <1>3 DEF TakeOrder
  <2> QED BY <2>1, <2>2, <1>0
<1>4. ASSUME NEW k \in Cooks, Ready(k) PROVE OrdersTyped'
  <2>1. pc[k] = "ready"
    BY <1>4 DEF Ready
  <2>2. order[k] \in Orders
    BY <1>0, <2>1 DEF HandsOK, Preparing
  <2>3. Prepared(k) \in AnyOrder
    BY <2>2, <1>0 DEF Prepared, Orders
  <2> QED BY <1>4, <1>0, <1>1, <2>3 DEF Ready
<1>5. ASSUME NEW d \in Deliverers, TakeDelivery(d) \/ Deliver(d)
      PROVE  OrdersTyped'
  BY <1>5, <1>0, <1>1 DEF TakeDelivery, Deliver, queueVars
<1>6. CASE UNCHANGED <<orderQueue, deliveryQueue, order>>
  BY <1>6, <1>0
<1> QED
  BY <1>2, <1>3, <1>4, <1>5, <1>6
     DEF Operation, Connect, ConnectFails, Send, SendFails, Receive, Accept,
         RecvNothing, StoreID, SignalOrder, CancelAll, MainSignal, MainLock,
         MainUnlock, Break, WaitOrder, WaitShovel, TakeShovel, ReleaseShovel,
         SignalShovel, SignalDelivery, WaitDelivery, CountDelivery, Sigint,
         SetStop, Exit, ClientFrame, vars, queueVars

LEMMA CountersPreserved ==
  ASSUME ShopInv, Operation
  PROVE  CountersTyped'
<1> USE DEF CountersTyped, Step
<1>0. CountersTyped
  BY TypeParts DEF ShopInv
<1>1. ASSUME NEW c \in Clients, StoreID(c) PROVE CountersTyped'
  BY <1>1, <1>0 DEF StoreID, ShopInv, HandsOK, Orders
<1>2. ASSUME NEW k \in Cooks, TakeShovel(k) \/ ReleaseShovel(k)
      PROVE  CountersTyped'
  BY <1>2, <1>0 DEF TakeShovel, ReleaseShovel
<1>3. ASSUME NEW d \in Deliverers, CountDelivery(d) PROVE CountersTyped'
  <2>1. deliveredCount[d] + 1 \in Nat
    BY <1>0
  <2> QED BY <1>3, <1>0, <2>1 DEF CountDelivery
<1>4. CASE UNCHANGED <<shovels, orderCounter, deliveredCount>>
  BY <1>4, <1>0
<1> QED
  BY <1>1, <1>2, <1>3, <1>4
     DEF Operation, Connect, ConnectFails, Send, SendFails, Receive, Accept,
         Recv, RecvNothing, Push, SignalOrder, CancelAll, MainSignal, MainLock,
         MainUnlock, Break, WaitOrder, TakeOrder, WaitShovel, SignalShovel,
         Ready, SignalDelivery, WaitDelivery, TakeDelivery, Deliver, Sigint,
         SetStop, Exit, ClientFrame, vars

LEMMA ClientsTypePreserved ==
  ASSUME ShopInv, Operation
  PROVE  ClientsTyped'
<1> USE DEF ClientsTyped, Step
<1>0. ClientsTyped
  BY TypeParts DEF ShopInv
<1>1. ASSUME NEW c \in Clients,
             \/ Connect(c) \/ ConnectFails(c) \/ Send(c) \/ SendFails(c)
             \/ Receive(c) \/ Recv(c)
      PROVE  ClientsTyped'
  BY <1>1, <1>0 DEF Connect, ConnectFails, Send, SendFails, Receive, Recv
<1>2. CASE CancelAll
  <2>1. /\ \A c \in Clients :
             client'[c] = "gone" \/ client'[c] = client[c]
             \/ client'[c] = "cancelled"
        /\ client' = [c \in Clients |-> client'[c]]
        /\ inbox' \in [Clients -> SUBSET {"order", "cancel"}]
        /\ UNCHANGED replies
    BY <1>2, <1>0 DEF CancelAll
  <2> QED BY <2>1, <1>0
<1>3. ASSUME NEW d \in Deliverers, Deliver(d) PROVE ClientsTyped'
  <2>1. order[d] \in AnyOrder
    BY <1>3 DEF Deliver, ShopInv, TypeOK, Workers
  <2>2. \A c \in Clients : Append(replies[c], order[d]) \in Seq(AnyOrder)
    BY <1>0, <2>1
  <2> QED BY <1>3, <1>0, <2>2 DEF Deliver
<1>4. CASE UNCHANGED clientVars
  BY <1>4, <1>0 DEF clientVars
<1> QED
  BY <1>1, <1>2, <1>3, <1>4
     DEF Operation, Accept, RecvNothing, StoreID, Push, SignalOrder,
         MainSignal, MainLock, MainUnlock, Break, WaitOrder, TakeOrder,
         WaitShovel, TakeShovel, ReleaseShovel, SignalShovel, Ready,
         SignalDelivery, WaitDelivery, TakeDelivery, CountDelivery, Sigint,
         SetStop, Exit, vars

LEMMA TypePreserved ==
  ASSUME ShopInv, Operation
  PROVE  TypeOK'
<1>1. orderCount' \in Int /\ deliveryCount' \in Int
  BY HandsPreserved DEF QueuesOK
<1> QED
  BY <1>1, ControlPreserved, OrdersPreserved, CountersPreserved,
     ClientsTypePreserved, TypeParts DEF ShopInv, TypeOK, ControlTyped,
     OrdersTyped, CountersTyped, ClientsTyped
-----------------------------------------------------------------------------
(* The order of client m goes from its place p to q, the others stay.      *)
Moves(m, p, q) ==
  /\ Places(m) = {p} /\ Places(m)' = {q}
  /\ \A c \in Clients \ {m} : Places(c)' = Places(c)

(* Where it goes, is all there is to show.                                 *)
LEMMA MovesRule ==
  ASSUME ShopInv, NEW m \in Clients, NEW p, NEW q, p \in Places(m),
         \A x : x \in Places(m)' <=> (x = q \/ (x \in Places(m) /\ x # p)),
         \A c \in Clients \ {m} : \A x : x \in Places(c)' <=> x \in Places(c)
  PROVE  Moves(m, p, q)
<1>1. Places(m) = {p}
  BY DEF ShopInv, PlacesOK, OnePlaceOf
<1>2. Places(m)' = {q}
  <2>1. \A x : x \in Places(m)' <=> x \in {q}
    BY <1>1
  <2> QED BY <2>1
<1>3. \A c \in Clients \ {m} : Places(c)' = Places(c)
  <2> SUFFICES ASSUME NEW c \in Clients \ {m} PROVE Places(c)' = Places(c)
    OBVIOUS
  <2>1. \A x : x \in Places(c)' <=> x \in Places(c)
    OBVIOUS
  <2> HIDE DEF Places
  <2> QED BY <2>1
<1> QED BY <1>1, <1>2, <1>3 DEF Moves

LEMMA PushMoves ==
  ASSUME ShopInv, NEW m \in Clients, Push(m)
  PROVE  Moves(m, <<"thread", m>>, <<"pending", orderCount>>)
<1>1. /\ order[m].clientSocket = m
      /\ \A t \in Workers : order'[t].clientSocket =
                              IF t = m THEN NoClient ELSE order[t].clientSocket
      /\ m \in Workers
  BY DEF Push, Step, ShopInv, HandsOK, TypeOK, Workers, NoOrder
<1>2. orderCount \in Slots /\ orderCount \in Nat
  BY <1>1, CountsFit, LimitsAssumption DEF ShopInv, QueuesOK, Slots
<1>3. /\ Pending' = Pending \cup {orderCount} /\ orderCount \notin Pending
      /\ orderQueue'[orderCount].clientSocket = m
      /\ \A i \in Pending : orderQueue'[i] = orderQueue[i]
  BY <1>1, <1>2 DEF Push, Pending, ShopInv, TypeOK
<1>4. UNCHANGED <<deliveryQueue, deliveryCount, replies>> /\ Done' = Done
  BY DEF Push, clientVars, Done
<1>5. \A c \in Clients : MembersOf(c) /\ MembersOf(c)'
  BY PlacesMembers
<1>6. <<"thread", m>> \in Places(m)
  BY <1>1, <1>5 DEF MembersOf
<1>7. ASSUME NEW x
      PROVE  x \in Places(m)' <=> \/ x = <<"pending", orderCount>>
                                  \/ x \in Places(m) /\ x # <<"thread", m>>
  BY <1>1, <1>3, <1>4, <1>5, FaultsAssumption DEF MembersOf
<1>8. ASSUME NEW c \in Clients \ {m}, NEW x
      PROVE  x \in Places(c)' <=> x \in Places(c)
  BY <1>1, <1>3, <1>4, <1>5, FaultsAssumption DEF MembersOf
<1> QED BY <1>6, <1>7, <1>8, MovesRule

LEMMA TakeOrderMoves ==
  ASSUME ShopInv, NEW k \in Cooks, TakeOrder(k)
  PROVE  \E m \in Clients :
           /\ orderQueue[orderCount - 1].clientSocket = m
           /\ Moves(m, <<"pending", orderCount - 1>>, <<"thread", k>>)
<1> DEFINE i0 == orderCount - 1
<1>1. orderCount \in Nat /\ i0 \in Pending /\ Pending' = Pending \ {i0}
  BY DEF TakeOrder, ShopInv, QueuesOK, Pending
<1>2. PICK m \in Clients : orderQueue[i0].clientSocket = m
  BY <1>1 DEF ShopInv, QueuesOK, Orders
<1>3. /\ \A t \in Workers : order'[t].clientSocket =
                              IF t = k THEN m ELSE order[t].clientSocket
      /\ k \in Workers /\ order[k].clientSocket = NoClient
  <2>1. order' = [order EXCEPT ![k] = [orderQueue[i0] EXCEPT
                 !.status = IF @ = 0 THEN 1 ELSE @]]
    BY DEF TakeOrder, NextOrder
  <2>2. pc[k] = "take" /\ order \in [Workers -> AnyOrder] /\ k \in Workers
        /\ orderQueue[i0] \in Orders
    BY <1>1 DEF TakeOrder, Step, ShopInv, TypeOK, Workers, QueuesOK
  <2>3. order[k].clientSocket = NoClient
    BY <2>2 DEF ShopInv, HandsOK, Preparing, NoOrder
  <2>4. [orderQueue[i0] EXCEPT !.status = IF @ = 0 THEN 1 ELSE @].clientSocket
          = m
    BY <1>2, <2>2 DEF Orders
  <2> QED BY <2>1, <2>2, <2>3, <2>4
<1>4. /\ UNCHANGED <<orderQueue, deliveryQueue, deliveryCount, replies>>
      /\ Done' = Done
  BY DEF TakeOrder, clientVars, Done
<1>5. \A c \in Clients : MembersOf(c) /\ MembersOf(c)'
  BY PlacesMembers
<1> HIDE DEF i0
<1>6. <<"pending", i0>> \in Places(m)
  BY <1>1, <1>2, <1>5 DEF MembersOf
<1>7. ASSUME NEW x
      PROVE  x \in Places(m)' <=> \/ x = <<"thread", k>>
                                  \/ x \in Places(m) /\ x # <<"pending", i0>>
  BY <1>1, <1>2, <1>3, <1>4, <1>5, FaultsAssumption DEF MembersOf
<1>8. ASSUME NEW c \in Clients \ {m}, NEW x
      PROVE  x \in Places(c)' <=> x \in Places(c)
  BY <1>1, <1>2, <1>3, <1>4, <1>5, FaultsAssumption DEF MembersOf
<1>10. Moves(m, <<"pending", i0>>, <<"thread", k>>)
  BY <1>2, <1>6, <1>7, <1>8, MovesRule
<1> QED BY <1>2, <1>10 DEF i0

LEMMA ReadyMoves ==
  ASSUME ShopInv, NEW k \in Cooks, Ready(k)
  PROVE  \E m \in Clients :
           /\ order[k].clientSocket = m
           /\ Moves(m, <<"thread", k>>, <<"done", deliveryCount>>)
<1>1. /\ order[k] \in Orders /\ k \in Workers
      /\ \A t \in Workers : order'[t].clientSocket =
                              IF t = k THEN NoClient ELSE order[t].clientSocket
  BY DEF Ready, Step, ShopInv, HandsOK, TypeOK, Workers, NoOrder, Preparing
<1>10. PICK m \in Clients : order[k].clientSocket = m
  BY <1>1 DEF Orders
<1>2. Prepared(k).clientSocket = m
  BY <1>1, <1>10 DEF Orders, Prepared
<1>3. deliveryCount \in Slots /\ deliveryCount \in Nat
  BY <1>1, <1>10, CountsFit, LimitsAssumption DEF ShopInv, QueuesOK, Slots
<1>4. /\ Done' = Done \cup {deliveryCount} /\ deliveryCount \notin Done
      /\ deliveryQueue'[deliveryCount].clientSocket = m
      /\ \A i \in Done : deliveryQueue'[i] = deliveryQueue[i]
  BY <1>2, <1>3 DEF Ready, Done, ShopInv, TypeOK
<1>5. UNCHANGED <<orderQueue, orderCount, replies>> /\ Pending' = Pending
  BY DEF Ready, clientVars, Pending
<1>6. \A c \in Clients : MembersOf(c) /\ MembersOf(c)'
  BY PlacesMembers
<1>7. <<"thread", k>> \in Places(m)
  BY <1>1, <1>10, <1>6 DEF MembersOf
<1>8. ASSUME NEW x
      PROVE  x \in Places(m)' <=> \/ x = <<"done", deliveryCount>>
                                  \/ x \in Places(m) /\ x # <<"thread", k>>
  BY <1>1, <1>2, <1>4, <1>5, <1>6, <1>10, FaultsAssumption DEF MembersOf
<1>9. ASSUME NEW c \in Clients \ {m}, NEW x
      PROVE  x \in Places(c)' <=> x \in Places(c)
  BY <1>1, <1>4, <1>5, <1>6, <1>10, FaultsAssumption DEF MembersOf
<1> QED BY <1>7, <1>8, <1>9, <1>10, MovesRule

LEMMA TakeDeliveryMoves ==
  ASSUME ShopInv, NEW d \in Deliverers, TakeDelivery(d)
  PROVE  \E m \in Clients :
           /\ deliveryQueue[deliveryCount - 1].clientSocket = m
           /\ Moves(m, <<"done", deliveryCount - 1>>, <<"thread", d>>)
<1> DEFINE i0 == deliveryCount - 1
<1>1. deliveryCount \in Nat /\ i0 \in Done /\ Done' = Done \ {i0}
  BY DEF TakeDelivery, ShopInv, QueuesOK, Done
<1>2. PICK m \in Clients : deliveryQueue[i0].clientSocket = m
  BY <1>1 DEF ShopInv, QueuesOK, Orders
<1>3. /\ \A t \in Workers : order'[t].clientSocket =
                              IF t = d THEN m ELSE order[t].clientSocket
      /\ d \in Workers /\ order[d].clientSocket = NoClient
  BY <1>2 DEF TakeDelivery, NextDelivery, Step, ShopInv, TypeOK, HandsOK,
              Workers, NoOrder
<1>4. /\ UNCHANGED <<deliveryQueue, orderQueue, orderCount, replies>>
      /\ Pending' = Pending
  BY DEF TakeDelivery, clientVars, Pending
<1>5. \A c \in Clients : MembersOf(c) /\ MembersOf(c)'
  BY PlacesMembers
<1> HIDE DEF i0
<1>6. <<"done", i0>> \in Places(m)
  BY <1>1, <1>2, <1>5 DEF MembersOf
<1>7. ASSUME NEW x
      PROVE  x \in Places(m)' <=> \/ x = <<"thread", d>>
                                  \/ x \in Places(m) /\ x # <<"done", i0>>
  BY <1>1, <1>2, <1>3, <1>4, <1>5, FaultsAssumption DEF MembersOf
<1>8. ASSUME NEW c \in Clients \ {m}, NEW x
      PROVE  x \in Places(c)' <=> x \in Places(c)
  BY <1>1, <1>2, <1>3, <1>4, <1>5, FaultsAssumption DEF MembersOf
<1>10. Moves(m, <<"done", i0>>, <<"thread", d>>)
  BY <1>2, <1>6, <1>7, <1>8, MovesRule
<1> QED BY <1>2, <1>10 DEF i0

LEMMA DeliverMoves ==
  ASSUME ShopInv, NEW d \in Deliverers, Deliver(d)
  PROVE  \E m \in Clients :
           /\ order[d].clientSocket = m
           /\ Moves(m, <<"thread", d>>, <<"reply", 1>>)
           /\ replies[m] = <<>>
           /\ replies' = [replies EXCEPT ![m] = <<order[d]>>]
<1>1. /\ order[d] \in Orders /\ d \in Workers
      /\ \A t \in Workers : order'[t].clientSocket =
                              IF t = d THEN NoClient ELSE order[t].clientSocket
  BY DEF Deliver, Step, ShopInv, HandsOK, TypeOK, Workers, NoOrder
<1>2. PICK m \in Clients : order[d].clientSocket = m
  BY <1>1 DEF Orders
<1>3. \A c \in Clients : MembersOf(c) /\ MembersOf(c)'
  BY PlacesMembers
<1>4. <<"thread", d>> \in Places(m)
  BY <1>1, <1>2, <1>3 DEF MembersOf
<1>5. replies \in [Clients -> Seq(AnyOrder)]
  BY DEF ShopInv, TypeOK
<1>6. replies[m] = <<>>
  <2>1. \A p \in Places(m) : p = <<"thread", d>>
    BY <1>2, <1>4 DEF ShopInv, PlacesOK, OnePlaceOf
  <2>2. \A i : i \notin DOMAIN replies[m]
    BY <2>1, <1>2, <1>3 DEF MembersOf
  <2>3. replies[m] \in Seq(AnyOrder) /\ DOMAIN replies[m] = 1 .. Len(replies[m])
        /\ Len(replies[m]) \in Nat
    BY <1>2, <1>5
  <2>4. Len(replies[m]) = 0
    <3>1. 1 \notin 1 .. Len(replies[m])
      BY <2>2, <2>3
    <3> QED BY <2>3, <3>1
  <2> QED BY <2>3, <2>4
<1>7. replies' = [replies EXCEPT ![m] = <<order[d]>>]
  <2>1. Append(<<>>, order[d]) = <<order[d]>>
    OBVIOUS
  <2> QED BY <1>2, <1>5, <1>6, <2>1 DEF Deliver
<1>8. /\ \A c \in Clients \ {m} : replies'[c] = replies[c]
      /\ DOMAIN replies'[m] = {1} /\ DOMAIN replies[m] = {}
  BY <1>2, <1>5, <1>6, <1>7
<1>9. /\ UNCHANGED <<orderQueue, orderCount, deliveryQueue, deliveryCount>>
      /\ Pending' = Pending /\ Done' = Done
  BY DEF Deliver, queueVars, Pending, Done
<1>10. ASSUME NEW x
       PROVE  x \in Places(m)' <=> \/ x = <<"reply", 1>>
                                   \/ x \in Places(m) /\ x # <<"thread", d>>
  BY <1>1, <1>2, <1>3, <1>8, <1>9, FaultsAssumption DEF MembersOf
<1>11. ASSUME NEW c \in Clients \ {m}, NEW x
       PROVE  x \in Places(c)' <=> x \in Places(c)
  BY <1>1, <1>2, <1>3, <1>8, <1>9, FaultsAssumption DEF MembersOf
<1>13. Moves(m, <<"thread", d>>, <<"reply", 1>>)
  BY <1>2, <1>4, <1>10, <1>11, MovesRule
<1> QED BY <1>2, <1>6, <1>7, <1>13

(* recv is where the order of a client comes into the shop.                *)
LEMMA RecvBrings ==
  ASSUME ShopInv, NEW m \in Clients, Recv(m)
  PROVE  /\ Places(m) = {} /\ Places(m)' = {<<"thread", m>>}
         /\ \A c \in Clients \ {m} : Places(c)' = Places(c)
<1>1. /\ m \in Workers
      /\ \A t \in Workers : order'[t].clientSocket =
                              IF t = m THEN m ELSE order[t].clientSocket
      /\ order[m].clientSocket = NoClient
  <2>1. order \in [Workers -> AnyOrder] /\ m \in Workers /\ order[m] = NoOrder
    BY DEF Recv, Step, ShopInv, HandsOK, TypeOK, Workers
  <2> DEFINE new == [orderID |-> orderCounter, clientSocket |-> m, status |-> 0,
                     placed |-> "order" \in inbox[m]]
  <2>2. order' = [order EXCEPT ![m] = new]
    BY DEF Recv
  <2>3. new.clientSocket = m
    OBVIOUS
  <2> HIDE DEF new
  <2> QED BY <2>1, <2>2, <2>3 DEF NoOrder
<1>2. /\ UNCHANGED <<orderQueue, orderCount, deliveryQueue, deliveryCount,
                     replies>>
      /\ Pending' = Pending /\ Done' = Done
  BY DEF Recv, queueVars, Pending, Done
<1>3. \A c \in Clients : MembersOf(c) /\ MembersOf(c)'
  BY PlacesMembers
<1>4. Places(m) = {}
  BY DEF Recv, Step, ShopInv, PlacesOK, OnePlaceOf, Received
<1>5. ASSUME NEW x PROVE x \in Places(m)' <=> x = <<"thread", m>>
  BY <1>1, <1>2, <1>3, <1>4 DEF MembersOf
<1>6. ASSUME NEW c \in Clients \ {m} PROVE Places(c)' = Places(c)
  <2>1. ASSUME NEW x PROVE x \in Places(c)' <=> x \in Places(c)
    BY <1>1, <1>2, <1>3, FaultsAssumption DEF MembersOf
  <2> QED BY <2>1
<1> QED BY <1>4, <1>5, <1>6

(* All other steps leave the orders where they are.                        *)
LEMMA OthersStay ==
  ASSUME UNCHANGED <<order, queueVars, replies>>, NEW c \in Clients
  PROVE  Places(c)' = Places(c)
BY DEF queueVars, Places, Pending, Done

LEMMA PlacesPreserved ==
  ASSUME ShopInv, Operation
  PROVE  PlacesOK'
<1> USE ThreadsDistinct DEF Step, Threads
<1>0. /\ DOMAIN pc = Threads /\ DOMAIN client = Clients
      /\ PlacesOK /\ ClientsOK /\ DOMAIN replies = Clients
  BY DEF ShopInv, TypeOK
<1>1. ASSUME NEW m \in Clients, NEW p, NEW q, Moves(m, p, q),
             \A c \in Clients : Received(c)' <=> Received(c),
             \A c \in Clients : \A i \in DOMAIN replies'[c] :
               replies'[c][i].clientSocket = c
      PROVE  PlacesOK'
  <2>1. OnePlaceOf(m)'
    BY <1>0, <1>1 DEF Moves, PlacesOK, OnePlaceOf
  <2>2. ASSUME NEW c \in Clients \ {m} PROVE OnePlaceOf(c)'
    BY <1>0, <1>1 DEF Moves, PlacesOK, OnePlaceOf
  <2> QED BY <1>1, <2>1, <2>2 DEF PlacesOK
<1>2. ASSUME UNCHANGED <<order, queueVars, replies>>,
             \A c \in Clients : Received(c)' <=> Received(c)
      PROVE  PlacesOK'
  BY <1>0, <1>2, OthersStay DEF PlacesOK, OnePlaceOf
<1>3. ASSUME NEW m \in Clients, Recv(m) PROVE PlacesOK'
  <2>1. UNCHANGED replies
    BY <1>3 DEF Recv
  <2>2. Received(m)' /\ \A c \in Clients \ {m} : Received(c)' <=> Received(c)
    BY <1>0, <1>3 DEF Recv, Received, ClientsOK
  <2>3. OnePlaceOf(m)'
    BY <1>3, <2>2, RecvBrings DEF OnePlaceOf
  <2>4. ASSUME NEW c \in Clients \ {m} PROVE OnePlaceOf(c)'
    BY <1>0, <1>3, <2>2, RecvBrings DEF OnePlaceOf, PlacesOK
  <2> QED BY <1>0, <2>1, <2>3, <2>4 DEF PlacesOK
<1>4. ASSUME NEW m \in Clients, Push(m) PROVE PlacesOK'
  <2>1. /\ \A c \in Clients : Received(c)' <=> Received(c)
        /\ UNCHANGED replies
    BY <1>0, <1>4 DEF Push, Received, clientVars
  <2> QED BY <1>0, <1>1, <1>4, <2>1, PushMoves DEF PlacesOK
<1>5. ASSUME NEW k \in Cooks, TakeOrder(k) \/ Ready(k) PROVE PlacesOK'
  <2>1. /\ \A c \in Clients : pc'[c] = pc[c]
        /\ UNCHANGED <<client, replies>>
    BY <1>0, <1>5 DEF TakeOrder, Ready, clientVars
  <2>2. \A c \in Clients : Received(c)' <=> Received(c)
    BY <2>1 DEF Received
  <2> QED BY <1>0, <1>1, <1>5, <2>1, <2>2, TakeOrderMoves, ReadyMoves
          DEF PlacesOK
<1>6. ASSUME NEW d \in Deliverers, TakeDelivery(d) PROVE PlacesOK'
  <2>1. /\ \A c \in Clients : pc'[c] = pc[c]
        /\ UNCHANGED <<client, replies>>
    BY <1>0, <1>6 DEF TakeDelivery, clientVars
  <2>2. \A c \in Clients : Received(c)' <=> Received(c)
    BY <2>1 DEF Received
  <2> QED BY <1>0, <1>1, <1>6, <2>1, <2>2, TakeDeliveryMoves DEF PlacesOK
<1>7. ASSUME NEW d \in Deliverers, Deliver(d) PROVE PlacesOK'
  <2>1. /\ \A c \in Clients : pc'[c] = pc[c]
        /\ UNCHANGED client
    BY <1>0, <1>7 DEF Deliver
  <2>2. \A c \in Clients : Received(c)' <=> Received(c)
    BY <2>1 DEF Received
  <2>3. PICK m \in Clients :
          /\ order[d].clientSocket = m
          /\ Moves(m, <<"thread", d>>, <<"reply", 1>>)
          /\ replies' = [replies EXCEPT ![m] = <<order[d]>>]
    BY <1>7, DeliverMoves
  <2>4. \A c \in Clients : \A i \in DOMAIN replies'[c] :
          replies'[c][i].clientSocket = c
    BY <1>0, <2>3 DEF PlacesOK
  <2> QED BY <1>1, <2>2, <2>3, <2>4
<1>8. ASSUME NEW c \in Clients,
             \/ Connect(c) \/ ConnectFails(c) \/ Send(c) \/ SendFails(c)
             \/ Receive(c)
      PROVE  PlacesOK'
  <2>1. \A m \in Clients : Received(m)' <=> Received(m)
    BY <1>0, <1>8 DEF Connect, ConnectFails, Send, SendFails, Receive,
                      ClientFrame, Received, ClientsOK
  <2>2. UNCHANGED <<order, queueVars, replies>>
    BY <1>8 DEF Connect, ConnectFails, Send, SendFails, Receive, ClientFrame
  <2> QED BY <1>2, <2>1, <2>2
<1>9. CASE CancelAll
  <2>1. /\ UNCHANGED <<pc, order, queueVars, replies>>
        /\ \A c \in Clients : client'[c] = "failed" <=> client[c] = "failed"
    BY <1>9 DEF CancelAll, ClientFrame
  <2> QED BY <1>2, <2>1 DEF Received
<1>10. ASSUME NEW c \in Clients, Accept(c) \/ RecvNothing(c) \/ StoreID(c)
                                 \/ SignalOrder(c)
       PROVE  PlacesOK'
  <2>1. UNCHANGED <<client, order, queueVars, replies>>
    BY <1>10 DEF Accept, RecvNothing, StoreID, SignalOrder, clientVars
  <2>2. \A m \in Clients : Received(m)' <=> Received(m)
    BY <1>0, <1>10, <2>1 DEF Accept, RecvNothing, StoreID, SignalOrder, Received
  <2> QED BY <1>2, <2>1, <2>2
<1>11. ASSUME UNCHANGED <<client, order, queueVars, replies>>,
              \A c \in Clients : pc'[c] = pc[c]
       PROVE  PlacesOK'
  BY <1>2, <1>11 DEF Received
<1>12. ASSUME NEW k \in Cooks,
              \/ Break(k) \/ WaitOrder(k) \/ WaitShovel(k) \/ TakeShovel(k)
              \/ ReleaseShovel(k) \/ SignalShovel(k) \/ SignalDelivery(k)
       PROVE  PlacesOK'
  BY <1>0, <1>11, <1>12
     DEF Break, WaitOrder, WaitShovel, TakeShovel, ReleaseShovel,
         SignalShovel, SignalDelivery, clientVars
<1>13. ASSUME NEW d \in Deliverers,
              Break(d) \/ WaitDelivery(d) \/ CountDelivery(d)
       PROVE  PlacesOK'
  BY <1>0, <1>11, <1>13 DEF Break, WaitDelivery, CountDelivery, clientVars
<1>14. CASE \/ MainSignal \/ MainLock \/ MainUnlock \/ Sigint \/ SetStop
            \/ Exit \/ UNCHANGED vars
  BY <1>0, <1>11, <1>14
     DEF MainSignal, MainLock, MainUnlock, Sigint, SetStop, Exit, vars,
         clientVars
<1> QED
  BY <1>3, <1>4, <1>5, <1>6, <1>7, <1>8, <1>9, <1>10, <1>12, <1>13, <1>14
     DEF Operation

LEMMA InitShop == Init => ShopInv
<1> SUFFICES ASSUME Init PROVE ShopInv
  OBVIOUS
<1> USE ThreadsDistinct, LimitsAssumption, FaultsAssumption DEF Init
<1>1. HandsOK
  BY DEF HandsOK, Threads, Preparing
<1>2. QueuesOK
  BY DEF QueuesOK, Pending, Done
<1>3. ClientsOK
  BY DEF ClientsOK, Threads
<1>4. PlacesOK
  <2> SUFFICES ASSUME NEW c \in Clients PROVE OnePlaceOf(c) /\ replies[c] = <<>>
    BY DEF PlacesOK
  <2>1. MembersOf(c)
    BY PlacesMembers
  <2>2. /\ Pending = {} /\ Done = {} /\ replies[c] = <<>>
        /\ \A t \in Workers : order[t].clientSocket # c
    BY DEF Pending, Done, Workers, NoOrder
  <2>3. Places(c) = {}
    <3>1. ASSUME NEW p \in Places(c) PROVE FALSE
      <4>1. PICK x : p \in {<<"thread", x>>, <<"pending", x>>, <<"done", x>>,
                            <<"reply", x>>}
        BY <2>1 DEF MembersOf
      <4> QED BY <2>1, <2>2, <4>1 DEF MembersOf
    <3> QED BY <3>1
  <2>4. ~Received(c)
    BY DEF Received, Threads
  <2> QED BY <2>2, <2>3, <2>4 DEF OnePlaceOf
<1>5. ControlTyped
  BY DEF ControlTyped, Threads, Labels
<1>6. OrdersTyped
  BY DEF OrdersTyped, AnyOrder, Slots, Workers
<1>7. CountersTyped /\ ClientsTyped
  BY DEF CountersTyped, ClientsTyped
<1> QED BY <1>1, <1>2, <1>3, <1>4, <1>5, <1>6, <1>7, TypeParts DEF ShopInv

(* The shop's inductive invariant.                                         *)
THEOREM ShopInvariant == Spec => []ShopInv
<1>1. ShopInv /\ [Next]_vars => ShopInv'
  BY NextIsOperation, TypePreserved, HandsPreserved, PlacesPreserved,
     ClientsPreserved DEF ShopInv
<1> QED BY InitShop, <1>1, PTL DEF Spec

(* Every variable of the shop keeps the type the program gives it: no      *)
(* queue is read or written outside its array.                             *)
THEOREM TypeCorrect == Spec => []TypeOK
BY ShopInvariant, PTL DEF ShopInv

(* However many cooks and delivery threads take and put, and wherever      *)
(* SIGINT stops them, the order of a client is in one place, and answered  *)
(* at most once, on its own socket.                                        *)
THEOREM OrderInOnePlaceHolds == Spec => []OrderInOnePlace
<1>1. ShopInv => OrderInOnePlace
  <2> SUFFICES ASSUME ShopInv, NEW c \in Clients
               PROVE  /\ Cardinality(Places(c)) =
                           IF pc[c] \in {"none", "recv"} THEN 0
                           ELSE IF client[c] = "failed" THEN 0 ELSE 1
                      /\ \A i \in DOMAIN replies[c] :
                           replies[c][i].clientSocket = c
    BY DEF OrderInOnePlace
  <2>1. OnePlaceOf(c)
    BY DEF ShopInv, PlacesOK
  <2>2. CASE Places(c) = {}
    BY <2>1, <2>2, FS_EmptySet DEF OnePlaceOf, Received, ShopInv, PlacesOK
  <2>3. CASE Places(c) # {}
    <3>1. PICK p : Places(c) = {p}
      BY <2>1, <2>3 DEF OnePlaceOf
    <3>2. Cardinality(Places(c)) = 1
      BY <3>1, FS_Singleton
    <3> QED BY <2>1, <2>3, <3>2 DEF OnePlaceOf, Received, ShopInv, PlacesOK
  <2> QED BY <2>2, <2>3
<1> QED BY ShopInvariant, <1>1, PTL

-----------------------------------------------------------------------------
(* The shovels.  A cook that takes one goes to the oven, and back.         *)
LEMMA ShovelsStep ==
  ASSUME ControlTyped, CountersTyped, ShovelsConserved, Operation
  PROVE  ShovelsConserved'
<1> USE ThreadsDistinct DEF Step, Threads
<1>0. /\ pc \in [Threads -> Labels] /\ shovels \in Int /\ ShovelCount \in Nat
      /\ IsFiniteSet(InOven) /\ Cardinality(InOven) \in Nat
  <2>1. IsFiniteSet(InOven)
    BY PoolsFinite, FS_Subset DEF InOven
  <2> QED BY <2>1, FS_CardinalityType, LimitsAssumption
          DEF ControlTyped, CountersTyped
<1>1. ASSUME NEW k \in Cooks, TakeShovel(k) PROVE ShovelsConserved'
  <2>1. InOven' = InOven \cup {k} /\ k \notin InOven
    BY <1>0, <1>1 DEF TakeShovel, InOven
  <2>2. Cardinality(InOven') = Cardinality(InOven) + 1
    BY <1>0, <2>1, FS_AddElement
  <2>3. shovels # 0 /\ shovels' = shovels - 1
    BY <1>1 DEF TakeShovel, NoShovel
  <2> QED BY <1>0, <2>2, <2>3 DEF ShovelsConserved
<1>2. ASSUME NEW k \in Cooks, ReleaseShovel(k) PROVE ShovelsConserved'
  <2>1. InOven' = InOven \ {k} /\ k \in InOven
    BY <1>0, <1>2 DEF ReleaseShovel, InOven
  <2>2. Cardinality(InOven') = Cardinality(InOven) - 1
    BY <1>0, <2>1, FS_RemoveElement
  <2>3. shovels' = shovels + 1
    BY <1>2 DEF ReleaseShovel
  <2> QED BY <1>0, <2>2, <2>3 DEF ShovelsConserved
<1>3. ASSUME UNCHANGED shovels,
             \A k \in Cooks : pc'[k] = "oven" <=> pc[k] = "oven"
      PROVE  ShovelsConserved'
  <2>1. InOven' = InOven
    BY <1>3 DEF InOven
  <2> QED BY <1>3, <2>1 DEF ShovelsConserved
<1>4. ASSUME NEW c \in Clients,
             \/ Connect(c) \/ ConnectFails(c) \/ Send(c) \/ SendFails(c)
             \/ Receive(c) \/ Accept(c) \/ Recv(c) \/ RecvNothing(c)
             \/ StoreID(c) \/ Push(c) \/ SignalOrder(c)
      PROVE  ShovelsConserved'
  BY <1>0, <1>3, <1>4
     DEF Connect, ConnectFails, Send, SendFails, Receive, ClientFrame, Accept,
         Recv, RecvNothing, StoreID, Push, SignalOrder
<1>5. ASSUME NEW k \in Cooks,
             \/ Break(k) \/ WaitOrder(k) \/ TakeOrder(k) \/ WaitShovel(k)
             \/ SignalShovel(k) \/ Ready(k) \/ SignalDelivery(k)
      PROVE  ShovelsConserved'
  BY <1>0, <1>3, <1>5
     DEF Break, WaitOrder, TakeOrder, WaitShovel, SignalShovel, Ready,
         SignalDelivery
<1>6. ASSUME NEW d \in Deliverers,
             \/ Break(d) \/ WaitDelivery(d) \/ TakeDelivery(d) \/ Deliver(d)
             \/ CountDelivery(d)
      PROVE  ShovelsConserved'
  BY <1>0, <1>3, <1>6
     DEF Break, WaitDelivery, TakeDelivery, Deliver, CountDelivery
<1>7. CASE \/ CancelAll \/ MainSignal \/ MainLock \/ MainUnlock \/ Sigint
           \/ SetStop \/ Exit \/ UNCHANGED vars
  BY <1>0, <1>3, <1>7
     DEF CancelAll, ClientFrame, MainSignal, MainLock, MainUnlock, Sigint,
         SetStop, Exit, vars
<1> QED BY <1>1, <1>2, <1>4, <1>5, <1>6, <1>7 DEF Operation

(* A cook in the oven has a shovel nobody else has, and the count of them  *)
(* never goes below zero, whatever woke the cook that took it.             *)
THEOREM ShovelsConservedHolds == Spec => []ShovelsConserved
<1>1. Init => ShovelsConserved
  <2> SUFFICES ASSUME Init PROVE ShovelsConserved
    OBVIOUS
  <2>1. InOven = {}
    BY ThreadsDistinct DEF Init, InOven, Threads
  <2> QED BY <2>1, FS_EmptySet, LimitsAssumption DEF Init, ShovelsConserved
<1>2. ShopInv /\ ShovelsConserved /\ [Next]_vars => ShovelsConserved'
  BY NextIsOperation, TypeParts, ShovelsStep DEF ShopInv
<1> QED BY <1>1, <1>2, ShopInvariant, PTL DEF Spec

-----------------------------------------------------------------------------
(* The stage of an order, by the place it is in.                           *)
StageInHand(t) == IF t \in Clients THEN "received"
                  ELSE IF t \in Cooks THEN Stage(t) ELSE "delivering"
LifeOK ==
  \A c \in Clients :
    /\ Places(c) = {} => Life[c] = "none"
    /\ \A t \in Workers :
         Places(c) = {<<"thread", t>>} => Life[c] = StageInHand(t)
    /\ \A i : Places(c) = {<<"pending", i>>} => Life[c] = "pending"
    /\ \A i : Places(c) = {<<"done", i>>} => Life[c] = "ready"
    /\ \A i : Places(c) = {<<"reply", i>>} => Life[c] = "delivered"

LEMMA LifeIsRead == ShopInv => LifeOK
<1> SUFFICES ASSUME ShopInv, NEW c \in Clients
             PROVE  /\ Places(c) = {} => Life[c] = "none"
                    /\ \A t \in Workers : Places(c) = {<<"thread", t>>} =>
                                            Life[c] = StageInHand(t)
                    /\ \A i : Places(c) = {<<"pending", i>>} =>
                                Life[c] = "pending"
                    /\ \A i : Places(c) = {<<"done", i>>} => Life[c] = "ready"
                    /\ \A i : Places(c) = {<<"reply", i>>} =>
                                Life[c] = "delivered"
  BY DEF LifeOK
<1> DEFINE Replied == replies[c] # <<>>
           Carried == \E d \in Deliverers : order[d].clientSocket = c
           IsReady == \E i \in Done : deliveryQueue[i].clientSocket = c
           Cooked == \E k \in Cooks : order[k].clientSocket = c
           Queued == \E i \in Pending : orderQueue[i].clientSocket = c
           Managed == order[c] # NoOrder
           Cook == CHOOSE k \in Cooks : order[k].clientSocket = c
           Cooking == Stage(Cook)
<1>1. Life[c] = CASE Replied -> "delivered"
                  [] Carried -> "delivering"
                  [] IsReady -> "ready"
                  [] Cooked -> Cooking
                  [] Queued -> "pending"
                  [] Managed -> "received"
                  [] OTHER -> "none"
  BY DEF Life, StageOf
<1>2. MembersOf(c)
  BY PlacesMembers
<1>3. /\ Replied <=> \E i : <<"reply", i>> \in Places(c)
      /\ Carried <=> \E d \in Deliverers : <<"thread", d>> \in Places(c)
      /\ IsReady <=> \E i : <<"done", i>> \in Places(c)
      /\ Cooked <=> \E k \in Cooks : <<"thread", k>> \in Places(c)
      /\ Queued <=> \E i : <<"pending", i>> \in Places(c)
      /\ Managed <=> \E m \in Clients : <<"thread", m>> \in Places(c)
  <2>1. Replied <=> \E i : i \in DOMAIN replies[c]
    <3>1. replies[c] \in Seq(AnyOrder)
      BY DEF ShopInv, TypeOK
    <3>2. Len(replies[c]) \in Nat /\ DOMAIN replies[c] = 1 .. Len(replies[c])
          /\ (replies[c] = <<>> <=> Len(replies[c]) = 0)
      BY <3>1
    <3>3. Len(replies[c]) # 0 => 1 \in DOMAIN replies[c]
      BY <3>2
    <3> QED BY <3>2, <3>3
  <2>2. /\ Clients \subseteq Workers /\ Cooks \subseteq Workers
        /\ Deliverers \subseteq Workers
    BY DEF Workers
  <2>3. Managed <=> \E m \in Clients : order[m].clientSocket = c
    <3>1. \A m \in Clients : order[m] # NoOrder => order[m].clientSocket = m
      BY DEF ShopInv, HandsOK
    <3>2. \A m \in Clients : order[m].clientSocket = c => order[m] # NoOrder
      BY FaultsAssumption DEF NoOrder
    <3> QED BY <3>1, <3>2
  <2> QED BY <1>2, <2>1, <2>2, <2>3 DEF MembersOf
<1> HIDE DEF Replied, Carried, IsReady, Cooked, Queued, Managed, Cooking, Cook
<1>4. Places(c) = {} => Life[c] = "none"
  BY <1>1, <1>3
<1>5. ASSUME NEW t \in Workers, Places(c) = {<<"thread", t>>}
      PROVE  Life[c] = StageInHand(t)
  <2>1. \A x : <<"thread", x>> \in Places(c) <=> x = t
    BY <1>5
  <2>2. ~Replied /\ ~IsReady /\ ~Queued
    BY <1>3, <1>5
  <2>3. CASE t \in Deliverers
    BY <1>1, <1>3, <2>1, <2>2, <2>3, ThreadsDistinct DEF StageInHand
  <2>4. CASE t \in Cooks
    <3>1. ~Carried /\ Cooked /\ ~Managed
      BY <1>3, <2>1, <2>4, ThreadsDistinct
    <3>2. Cook = t
      BY <1>2, <2>1, <2>4 DEF MembersOf, Workers, Cook
    <3>3. Life[c] = Cooking
      BY <1>1, <2>2, <3>1
    <3>4. StageInHand(t) = Stage(t)
      BY <2>4, ThreadsDistinct DEF StageInHand
    <3> QED BY <3>2, <3>3, <3>4 DEF Cooking
  <2>5. CASE t \in Clients
    BY <1>1, <1>3, <2>1, <2>2, <2>5, ThreadsDistinct DEF StageInHand
  <2> QED BY <2>3, <2>4, <2>5 DEF Workers
<1>6. ASSUME NEW i, Places(c) = {<<"pending", i>>} PROVE Life[c] = "pending"
  BY <1>1, <1>3, <1>6
<1>7. ASSUME NEW i, Places(c) = {<<"done", i>>} PROVE Life[c] = "ready"
  BY <1>1, <1>3, <1>7
<1>8. ASSUME NEW i, Places(c) = {<<"reply", i>>} PROVE Life[c] = "delivered"
  BY <1>1, <1>3, <1>8
<1> QED BY <1>4, <1>5, <1>6, <1>7, <1>8

(* Orders in a stage are in as many hands: one each.                       *)
LEMMA InHands ==
  ASSUME NEW S \in SUBSET Clients, NEW T, IsFiniteSet(T),
         \A c \in S : \E t \in T : order[t].clientSocket = c
  PROVE  Cardinality(S) <= Cardinality(T)
<1> DEFINE holder == [c \in S |-> CHOOSE t \in T : order[t].clientSocket = c]
<1>1. \A c \in S : holder[c] \in T /\ order[holder[c]].clientSocket = c
  OBVIOUS
<1>2. holder \in Injection(S, T)
  BY <1>1 DEF Injection, IsInjective
<1> QED BY <1>2, FS_Injection

LEMMA ShopCardinality == \A S : Shop!Cardinality(S) = Cardinality(S)
BY DEF Shop!Cardinality, Cardinality

LEMMA LimitsHold == ShopInv /\ ShovelsConserved => Shop!Limits
<1> SUFFICES ASSUME ShopInv, ShovelsConserved PROVE Shop!Limits
  OBVIOUS
<1>1. ASSUME NEW c \in Clients
      PROVE  /\ Life[c] \in {"cooking", "baking", "baked"} =>
                  \E k \in Cooks : order[k].clientSocket = c /\ Life[c] = Stage(k)
             /\ Life[c] = "delivering" =>
                  \E d \in Deliverers : order[d].clientSocket = c
  <2>1. MembersOf(c) /\ LifeOK /\ (Places(c) = {} \/ \E p : Places(c) = {p})
    BY PlacesMembers, LifeIsRead DEF ShopInv, PlacesOK, OnePlaceOf
  <2>2. CASE Places(c) = {}
    BY <2>1, <2>2 DEF LifeOK
  <2>3. ASSUME NEW x, Places(c) = {<<"pending", x>>} \/ Places(c) = {<<"done", x>>}
                      \/ Places(c) = {<<"reply", x>>}
        PROVE  Life[c] \in {"pending", "ready", "delivered"}
    BY <2>1, <2>3 DEF LifeOK
  <2>4. ASSUME NEW t, Places(c) = {<<"thread", t>>}
        PROVE  /\ t \in Workers /\ order[t].clientSocket = c
               /\ Life[c] = StageInHand(t)
    <3>1. <<"thread", t>> \in Places(c)
      BY <2>4
    <3>2. t \in Workers /\ order[t].clientSocket = c
      BY <2>1, <3>1 DEF MembersOf
    <3> QED BY <2>1, <2>4, <3>2 DEF LifeOK
  <2>5. ASSUME NEW t, Places(c) = {<<"thread", t>>}
        PROVE  \/ Life[c] = "received"
               \/ t \in Cooks /\ order[t].clientSocket = c /\ Life[c] = Stage(t)
               \/ /\ t \in Deliverers /\ order[t].clientSocket = c
                  /\ Life[c] = "delivering"
    BY <2>4, <2>5 DEF StageInHand, Workers
  <2>6. \A k : Stage(k) # "delivering"
    BY DEF Stage
  <2>7. CASE \E p : Places(c) = {p}
    <3>1. PICK p : Places(c) = {p}
      BY <2>7
    <3>2. PICK x : p \in {<<"thread", x>>, <<"pending", x>>, <<"done", x>>,
                          <<"reply", x>>}
      BY <2>1, <3>1 DEF MembersOf
    <3>3. CASE p = <<"thread", x>>
      BY <2>5, <2>6, <3>1, <3>3
    <3> QED BY <2>3, <3>1, <3>2, <3>3
  <2> QED BY <2>1, <2>2, <2>7
<1>2. Shop!In({"cooking", "baking", "baked"}) <= Cardinality(Cooks)
  BY <1>1, PoolsFinite, InHands, ShopCardinality DEF Shop!In
<1>3. Shop!In({"baking"}) <= ShovelCount
  <2>1. IsFiniteSet(InOven)
    BY PoolsFinite, FS_Subset DEF InOven
  <2>2. \A c \in Clients : Life[c] \in {"baking"} =>
          \E k \in InOven : order[k].clientSocket = c
    BY <1>1 DEF Stage, InOven
  <2>3. Shop!In({"baking"}) <= Cardinality(InOven)
    BY <2>1, <2>2, InHands, ShopCardinality DEF Shop!In
  <2>4. Shop!In({"baking"}) \in Nat
    BY QueuesLongEnough, FS_Subset, FS_CardinalityType, ShopCardinality DEF Shop!In
  <2> QED BY <2>1, <2>3, <2>4, FS_CardinalityType, LimitsAssumption
          DEF ShovelsConserved, TypeOK, ShopInv
<1>4. Shop!In({"delivering"}) <= DeliveryPoolSize
  <2>1. IsFiniteSet(Deliverers) /\ Cardinality(Deliverers) = DeliveryPoolSize
    BY PoolsFinite, FS_Interval DEF Deliverers
  <2> QED BY <1>1, <2>1, InHands, ShopCardinality DEF Shop!In
<1> QED BY <1>2, <1>3, <1>4 DEF Shop!Limits

-----------------------------------------------------------------------------
(* An order that stays where it is, is in the stage it was in; one that    *)
(* moves, advances alone.                                                  *)
Kept(c) ==
  /\ Places(c)' = Places(c)
  /\ \A k \in Cooks, l \in {"shovel", "oven"} :
       <<"thread", k>> \in Places(c) => (pc'[k] = l <=> pc[k] = l)

LEMMA LifeKept ==
  ASSUME ShopInv, LifeOK, LifeOK', NEW c \in Clients, Kept(c)
  PROVE  Life'[c] = Life[c]
<1>1. MembersOf(c) /\ (Places(c) = {} \/ \E p : Places(c) = {p})
  BY PlacesMembers DEF ShopInv, PlacesOK, OnePlaceOf
<1>2. CASE Places(c) = {}
  BY <1>2 DEF LifeOK, Kept
<1>3. ASSUME NEW p, Places(c) = {p} PROVE Life'[c] = Life[c]
  <2>1. PICK x : p \in {<<"thread", x>>, <<"pending", x>>, <<"done", x>>,
                        <<"reply", x>>}
    BY <1>1, <1>3 DEF MembersOf
  <2>2. CASE p = <<"pending", x>>
    BY <1>3, <2>2 DEF LifeOK, Kept
  <2>3. CASE p = <<"done", x>>
    BY <1>3, <2>3 DEF LifeOK, Kept
  <2>4. CASE p = <<"reply", x>>
    BY <1>3, <2>4 DEF LifeOK, Kept
  <2>5. CASE p = <<"thread", x>>
    <3>1. x \in Workers
      BY <1>1, <1>3, <2>5 DEF MembersOf
    <3>2. x \in Cooks => \A l \in {"shovel", "oven"} : pc'[x] = l <=> pc[x] = l
      BY <1>3, <2>5 DEF Kept
    <3>3. StageInHand(x)' = StageInHand(x)
      BY <3>2 DEF StageInHand, Stage
    <3>4. Places(c)' = {<<"thread", x>>} /\ Places(c) = {<<"thread", x>>}
      BY <1>3, <2>5 DEF Kept
    <3>5. Life[c] = StageInHand(x)
      BY <3>1, <3>4 DEF LifeOK
    <3>6. Life'[c] = StageInHand(x)'
      BY <3>1, <3>4 DEF LifeOK
    <3> QED BY <3>3, <3>5, <3>6
  <2> QED BY <2>1, <2>2, <2>3, <2>4, <2>5
<1> QED BY <1>1, <1>2, <1>3

LEMMA LifeTyped ==
  /\ Life = [c \in Clients |-> Life[c]]
  /\ Life' = [c \in Clients |-> Life'[c]]
BY DEF Life

LEMMA LifeAdvances ==
  ASSUME NEW m \in Clients, NEW i \in 1 .. 8,
         Life[m] = Shop!Stages[i], Life'[m] = Shop!Stages[i + 1],
         \A c \in Clients \ {m} : Life'[c] = Life[c]
  PROVE  Shop!Advance(m)
<1>1. Life' = [Life EXCEPT ![m] = Shop!Stages[i + 1]]
  BY LifeTyped
<1>2. Len(Shop!Stages) - 1 = 8
  BY DEF Shop!Stages
<1> QED BY <1>1, <1>2 DEF Shop!Advance

(* A step after which every order is where it was.                         *)
LEMMA LifeStutters ==
  ASSUME ShopInv, LifeOK, LifeOK', \A c \in Clients : Kept(c)
  PROVE  Life' = Life
<1>1. \A c \in Clients : Life'[c] = Life[c]
  BY LifeKept
<1> QED BY <1>1, LifeTyped

LEMMA LifeStep ==
  ASSUME ShopInv, LifeOK, LifeOK', Operation
  PROVE  (\E c \in Clients : Shop!Advance(c)) \/ UNCHANGED Life
<1> USE ThreadsDistinct DEF Step, Threads
<1>0. /\ pc \in [Threads -> Labels] /\ order \in [Workers -> AnyOrder]
      /\ HandsOK /\ QueuesOK /\ PlacesOK
      /\ Clients \subseteq Workers /\ Cooks \subseteq Workers
      /\ Deliverers \subseteq Workers /\ NoClient \notin Clients
  BY FaultsAssumption DEF ShopInv, TypeOK, Workers
<1>1. \A c \in Clients : MembersOf(c)
  BY PlacesMembers
<1>2. ASSUME NEW m \in Clients, NEW i \in 1 .. 8,
             Life[m] = Shop!Stages[i], Life'[m] = Shop!Stages[i + 1],
             \A c \in Clients \ {m} : Kept(c)
      PROVE  \E c \in Clients : Shop!Advance(c)
  BY <1>2, LifeKept, LifeAdvances
<1>3. ASSUME UNCHANGED <<order, queueVars, replies>>,
             \A k \in Cooks, l \in {"shovel", "oven"} : pc'[k] = l <=> pc[k] = l
      PROVE  UNCHANGED Life
  BY <1>3, OthersStay, LifeStutters DEF Kept
<1>4. ASSUME NEW m \in Clients, NEW p, NEW q, Moves(m, p, q), NEW t \in Workers,
             \A c \in Clients \ {m} : <<"thread", t>> \notin Places(c),
             \A k \in Cooks \ {t} : pc'[k] = pc[k]
      PROVE  \A c \in Clients \ {m} : Kept(c)
  BY <1>4 DEF Moves, Kept
<1>5. ASSUME NEW m \in Clients, Recv(m)
      PROVE  \E c \in Clients : Shop!Advance(c)
  <2>1. Life[m] = "none" /\ Life'[m] = StageInHand(m)'
    BY <1>0, <1>5, RecvBrings DEF LifeOK
  <2>2. StageInHand(m)' = "received"
    BY DEF StageInHand
  <2>3. \A c \in Clients \ {m} : Kept(c)
    BY <1>0, <1>5, RecvBrings DEF Kept, Recv
  <2> QED BY <1>2, <2>1, <2>2, <2>3 DEF Shop!Stages
<1>6. ASSUME NEW m \in Clients, Push(m)
      PROVE  \E c \in Clients : Shop!Advance(c)
  <2>1. Moves(m, <<"thread", m>>, <<"pending", orderCount>>)
    BY <1>6, PushMoves
  <2>2. Life[m] = StageInHand(m) /\ Life'[m] = "pending"
    <3>1. Places(m) = {<<"thread", m>>}
      BY <2>1 DEF Moves
    <3>2. \E i : Places(m)' = {<<"pending", i>>}
      BY <2>1 DEF Moves
    <3> QED BY <1>0, <3>1, <3>2 DEF LifeOK
  <2>3. StageInHand(m) = "received"
    BY DEF StageInHand
  <2>4. \A c \in Clients \ {m} : Kept(c)
    BY <1>0, <1>6, <2>1 DEF Moves, Kept, Push
  <2> QED BY <1>2, <2>2, <2>3, <2>4 DEF Shop!Stages
<1>7. ASSUME NEW k \in Cooks, TakeOrder(k)
      PROVE  \E c \in Clients : Shop!Advance(c)
  <2>1. PICK m \in Clients :
          Moves(m, <<"pending", orderCount - 1>>, <<"thread", k>>)
    BY <1>7, TakeOrderMoves
  <2>2. Life[m] = "pending" /\ Life'[m] = StageInHand(k)'
    <3>1. \E i : Places(m) = {<<"pending", i>>}
      BY <2>1 DEF Moves
    <3>2. Places(m)' = {<<"thread", k>>}
      BY <2>1 DEF Moves
    <3> QED BY <1>0, <3>1, <3>2 DEF LifeOK
  <2>3. orderQueue[orderCount - 1].status = 0
    BY <1>0, <1>7 DEF TakeOrder, QueuesOK, Pending
  <2>4. pc' = [pc EXCEPT ![k] = "shovel"] /\ pc[k] = "take"
    BY <1>7, <2>3 DEF TakeOrder, NextOrder
  <2>5. StageInHand(k)' = "cooking"
    BY <1>0, <2>4 DEF StageInHand, Stage
  <2>6. order[k].clientSocket = NoClient
    BY <1>0, <2>4 DEF HandsOK, Preparing, NoOrder
  <2>7. \A c \in Clients \ {m} : Kept(c)
    BY <1>0, <1>1, <1>4, <2>1, <2>4, <2>6 DEF MembersOf
  <2> QED BY <1>2, <2>2, <2>5, <2>7 DEF Shop!Stages
<1>8. ASSUME NEW k \in Cooks, NEW from, NEW to, from \in Preparing,
             pc[k] = from, pc' = [pc EXCEPT ![k] = to],
             UNCHANGED <<order, queueVars, replies>>
      PROVE  \E m \in Clients : /\ Life[m] = Stage(k) /\ Life'[m] = Stage(k)'
                                /\ \A c \in Clients \ {m} : Kept(c)
  <2>1. order[k] \in Orders
    BY <1>0, <1>8 DEF HandsOK
  <2>2. PICK m \in Clients : order[k].clientSocket = m
    BY <2>1 DEF Orders
  <2>3. Places(m) = {<<"thread", k>>}
    <3>1. <<"thread", k>> \in Places(m)
      BY <1>0, <1>1, <2>2 DEF MembersOf
    <3> QED BY <1>0, <3>1 DEF PlacesOK, OnePlaceOf
  <2>4. \A c \in Clients : Places(c)' = Places(c)
    BY <1>8, OthersStay
  <2>5. Life[m] = StageInHand(k) /\ Life'[m] = StageInHand(k)'
    BY <1>0, <2>3, <2>4 DEF LifeOK
  <2>6. StageInHand(k) = Stage(k) /\ StageInHand(k)' = Stage(k)'
    BY DEF StageInHand
  <2>7. \A c \in Clients \ {m} : Kept(c)
    BY <1>0, <1>1, <1>8, <2>2, <2>4 DEF Kept, MembersOf
  <2> QED BY <2>5, <2>6, <2>7
<1>9. ASSUME NEW k \in Cooks, TakeShovel(k)
      PROVE  \E c \in Clients : Shop!Advance(c)
  <2>1. PICK m \in Clients : /\ Life[m] = Stage(k) /\ Life'[m] = Stage(k)'
                             /\ \A c \in Clients \ {m} : Kept(c)
    BY <1>8, <1>9 DEF TakeShovel, clientVars, Preparing
  <2>2. Stage(k) = "cooking" /\ Stage(k)' = "baking"
    BY <1>0, <1>9 DEF TakeShovel, Stage
  <2> QED BY <1>2, <2>1, <2>2 DEF Shop!Stages
<1>10. ASSUME NEW k \in Cooks, ReleaseShovel(k)
       PROVE  \E c \in Clients : Shop!Advance(c)
  <2>1. PICK m \in Clients : /\ Life[m] = Stage(k) /\ Life'[m] = Stage(k)'
                             /\ \A c \in Clients \ {m} : Kept(c)
    BY <1>8, <1>10 DEF ReleaseShovel, clientVars, Preparing
  <2>2. Stage(k) = "baking" /\ Stage(k)' = "baked"
    BY <1>0, <1>10 DEF ReleaseShovel, Stage
  <2> QED BY <1>2, <2>1, <2>2 DEF Shop!Stages
<1>11. ASSUME NEW k \in Cooks, Ready(k)
       PROVE  \E c \in Clients : Shop!Advance(c)
  <2>1. PICK m \in Clients :
          /\ order[k].clientSocket = m
          /\ Moves(m, <<"thread", k>>, <<"done", deliveryCount>>)
    BY <1>11, ReadyMoves
  <2>2. Life[m] = StageInHand(k) /\ Life'[m] = "ready"
    <3>1. Places(m) = {<<"thread", k>>}
      BY <2>1 DEF Moves
    <3>2. \E i : Places(m)' = {<<"done", i>>}
      BY <2>1 DEF Moves
    <3> QED BY <1>0, <3>1, <3>2 DEF LifeOK
  <2>3. pc' = [pc EXCEPT ![k] = "signalDelivery"] /\ pc[k] = "ready"
    BY <1>11 DEF Ready
  <2>4. StageInHand(k) = "baked"
    BY <2>3 DEF StageInHand, Stage
  <2>5. \A c \in Clients \ {m} : Kept(c)
    BY <1>0, <1>1, <1>4, <2>1, <2>3 DEF MembersOf
  <2> QED BY <1>2, <2>2, <2>4, <2>5 DEF Shop!Stages
<1>12. ASSUME NEW d \in Deliverers, TakeDelivery(d)
       PROVE  \E c \in Clients : Shop!Advance(c)
  <2>1. PICK m \in Clients :
          Moves(m, <<"done", deliveryCount - 1>>, <<"thread", d>>)
    BY <1>12, TakeDeliveryMoves
  <2>2. Life[m] = "ready" /\ Life'[m] = StageInHand(d)'
    <3>1. \E i : Places(m) = {<<"done", i>>}
      BY <2>1 DEF Moves
    <3>2. Places(m)' = {<<"thread", d>>}
      BY <2>1 DEF Moves
    <3> QED BY <1>0, <3>1, <3>2 DEF LifeOK
  <2>3. StageInHand(d)' = "delivering"
    BY DEF StageInHand
  <2>4. \A c \in Clients \ {m} : Kept(c)
    BY <1>0, <1>12, <2>1 DEF Moves, Kept, TakeDelivery
  <2> QED BY <1>2, <2>2, <2>3, <2>4 DEF Shop!Stages
<1>13. ASSUME NEW d \in Deliverers, Deliver(d)
       PROVE  \E c \in Clients : Shop!Advance(c)
  <2>1. PICK m \in Clients : Moves(m, <<"thread", d>>, <<"reply", 1>>)
    BY <1>13, DeliverMoves
  <2>2. Life[m] = StageInHand(d) /\ Life'[m] = "delivered"
    <3>1. Places(m) = {<<"thread", d>>}
      BY <2>1 DEF Moves
    <3>2. \E i : Places(m)' = {<<"reply", i>>}
      BY <2>1 DEF Moves
    <3> QED BY <1>0, <3>1, <3>2 DEF LifeOK
  <2>3. StageInHand(d) = "delivering"
    BY DEF StageInHand
  <2>4. \A c \in Clients \ {m} : Kept(c)
    BY <1>0, <1>13, <2>1 DEF Moves, Kept, Deliver
  <2> QED BY <1>2, <2>2, <2>3, <2>4 DEF Shop!Stages
<1>14. ASSUME NEW c \in Clients,
              \/ Connect(c) \/ ConnectFails(c) \/ Send(c) \/ SendFails(c)
              \/ Receive(c) \/ Accept(c)
              \/ RecvNothing(c) \/ StoreID(c) \/ SignalOrder(c)
       PROVE  UNCHANGED Life
  BY <1>0, <1>3, <1>14
     DEF Connect, ConnectFails, Send, SendFails, Receive, ClientFrame, Accept,
         RecvNothing, StoreID, SignalOrder, clientVars
<1>15. ASSUME NEW k \in Cooks,
              \/ Break(k) \/ WaitOrder(k) \/ WaitShovel(k) \/ SignalShovel(k)
              \/ SignalDelivery(k)
       PROVE  UNCHANGED Life
  BY <1>0, <1>3, <1>15
     DEF Break, WaitOrder, WaitShovel, SignalShovel, SignalDelivery, clientVars
<1>16. ASSUME NEW d \in Deliverers,
              Break(d) \/ WaitDelivery(d) \/ CountDelivery(d)
       PROVE  UNCHANGED Life
  BY <1>0, <1>3, <1>16 DEF Break, WaitDelivery, CountDelivery, clientVars
<1>17. CASE \/ CancelAll \/ MainSignal \/ MainLock \/ MainUnlock \/ Sigint
            \/ SetStop \/ Exit \/ UNCHANGED vars
  BY <1>0, <1>3, <1>17
     DEF CancelAll, ClientFrame, MainSignal, MainLock, MainUnlock, Sigint,
         SetStop, Exit, vars, clientVars
<1> QED
  BY <1>5, <1>6, <1>7, <1>9, <1>10, <1>11, <1>12, <1>13, <1>14, <1>15, <1>16,
     <1>17 DEF Operation

(* Threads, queues and wakeups apart, the shop takes every order through   *)
(* its stages in turn: none is skipped, taken twice or turned back, and a  *)
(* stage holds no more orders than there are cooks, shovels or deliverers. *)
THEOREM ImplementsOrderLifeHolds == Spec => ImplementsOrderLife
<1>1. Init /\ ShopInv => Shop!Init
  <2> SUFFICES ASSUME Init, ShopInv PROVE Shop!Init
    OBVIOUS
  <2>1. \A c \in Clients : Places(c) = {}
    BY ThreadsDistinct DEF Init, ShopInv, PlacesOK, OnePlaceOf, Received, Threads
  <2>2. \A c \in Clients : Life[c] = "none"
    BY <2>1, LifeIsRead DEF LifeOK
  <2> QED BY <2>2, LifeTyped DEF Shop!Init
<1>2. /\ ShopInv /\ LifeOK /\ LifeOK' /\ Shop!Limits' /\ [Next]_vars
      => [Shop!Next]_Life
  BY NextIsOperation, LifeStep DEF Shop!Next
<1> QED
  BY <1>1, <1>2, ShopInvariant, ShovelsConservedHolds, LifeIsRead, LimitsHold,
     PTL DEF Spec, ImplementsOrderLife, Shop!Spec

-----------------------------------------------------------------------------
(* Wakeups.  n is what there is to take, A are the threads awake that will *)
(* take it, S those about to signal; Backed says there are enough.         *)
Backed(n, A, S) == n <= Cardinality(A) + Cardinality(S)

LEMMA PoolsAreFinite ==
  /\ IsFiniteSet(Clients) /\ IsFiniteSet(Cooks) /\ IsFiniteSet(Deliverers)
BY PoolsFinite, QueuesLongEnough, FS_Interval DEF Deliverers

(* Nothing came, and nobody dropped out.                                   *)
LEMMA StaysBacked ==
  ASSUME NEW n \in Int, NEW A, NEW S, NEW A1, NEW S1, IsFiniteSet(A1),
         IsFiniteSet(S1), A \subseteq A1, S \subseteq S1, Backed(n, A, S)
  PROVE  Backed(n, A1, S1)
<1>1. /\ IsFiniteSet(A) /\ IsFiniteSet(S)
      /\ Cardinality(A) <= Cardinality(A1) /\ Cardinality(S) <= Cardinality(S1)
  BY FS_Subset
<1>2. /\ Cardinality(A) \in Nat /\ Cardinality(S) \in Nat
      /\ Cardinality(A1) \in Nat /\ Cardinality(S1) \in Nat
  BY <1>1, FS_CardinalityType
<1> QED BY <1>1, <1>2 DEF Backed

(* What comes is backed by the thread that will signal it.                 *)
LEMMA AnnouncedIsBacked ==
  ASSUME NEW n \in Int, NEW A, NEW S, NEW A1, NEW S1, IsFiniteSet(A1),
         IsFiniteSet(S1), A \subseteq A1, Backed(n, A, S),
         NEW s, s \notin S, S \cup {s} \subseteq S1
  PROVE  Backed(n + 1, A1, S1)
<1>1. /\ IsFiniteSet(S) /\ IsFiniteSet(S \cup {s}) /\ IsFiniteSet(A)
      /\ Cardinality(A) <= Cardinality(A1)
      /\ Cardinality(S \cup {s}) <= Cardinality(S1)
      /\ Cardinality(S \cup {s}) = Cardinality(S) + 1
  BY FS_Subset, FS_AddElement
<1>2. /\ Cardinality(A) \in Nat /\ Cardinality(S) \in Nat
      /\ Cardinality(A1) \in Nat /\ Cardinality(S1) \in Nat
  BY <1>1, FS_CardinalityType
<1> QED BY <1>1, <1>2 DEF Backed

(* A signal that wakes somebody replaces who sent it.                      *)
LEMMA SignalIsBacked ==
  ASSUME NEW n \in Int, NEW A, NEW S, NEW A1, IsFiniteSet(A1), IsFiniteSet(S),
         NEW a, a \notin A, A \cup {a} \subseteq A1, Backed(n, A, S), NEW s
  PROVE  Backed(n, A1, S \ {s})
<1>1. /\ IsFiniteSet(A) /\ IsFiniteSet(A \cup {a}) /\ IsFiniteSet(S \ {s})
      /\ Cardinality(A \cup {a}) <= Cardinality(A1)
      /\ Cardinality(A \cup {a}) = Cardinality(A) + 1
      /\ Cardinality(S \ {s}) = IF s \in S THEN Cardinality(S) - 1
                                      ELSE Cardinality(S)
  BY FS_Subset, FS_AddElement, FS_RemoveElement
<1>2. /\ Cardinality(A) \in Nat /\ Cardinality(S) \in Nat
      /\ Cardinality(A1) \in Nat /\ Cardinality(S \ {s}) \in Nat
  BY <1>1, FS_CardinalityType
<1> QED BY <1>1, <1>2 DEF Backed

(* Who takes one is no longer about to.                                    *)
LEMMA TakenIsBacked ==
  ASSUME NEW n \in Int, NEW A, NEW S, NEW A1, IsFiniteSet(A), IsFiniteSet(S),
         Backed(n, A, S), NEW a, A1 = A \ {a}
  PROVE  Backed(n - 1, A1, S)
<1>1. /\ IsFiniteSet(A1)
      /\ Cardinality(A1) = IF a \in A THEN Cardinality(A) - 1
                                      ELSE Cardinality(A)
  BY FS_RemoveElement
<1>2. /\ Cardinality(A) \in Nat /\ Cardinality(S) \in Nat
      /\ Cardinality(A1) \in Nat
  BY <1>1, FS_CardinalityType
<1> QED BY <1>1, <1>2 DEF Backed

LEMMA NothingIsBacked ==
  ASSUME NEW A, NEW S, IsFiniteSet(A), IsFiniteSet(S)
  PROVE  Backed(0, A, S)
<1>1. Cardinality(A) \in Nat /\ Cardinality(S) \in Nat
  BY FS_CardinalityType
<1> QED BY <1>1 DEF Backed

(* The three conditions, in turn.                                          *)
AwakeCooks == Awake(Cooks, isOrderAvailable, "take")
Announcing == Signalling(Clients, "signal")
OrdersBacked ==
  isOrderAvailable # {} /\ ~stop => Backed(orderCount, AwakeCooks, Announcing)

AwakeDeliverers == Awake(Deliverers, isDeliveryReady, "take")
Handing == Signalling(Cooks, "signalDelivery")
DeliveriesBacked ==
  isDeliveryReady # {} /\ ~stop =>
    Backed(deliveryCount, AwakeDeliverers, Handing)

AwakeForShovel == Awake(Cooks, isShovelAvailable, "shovel")
Returning == Signalling(Cooks, "signalShovel")
ShovelsBacked ==
  isShovelAvailable # {} => Backed(shovels, AwakeForShovel, Returning)

LEMMA WakeupParts ==
  NoWakeupLost <=> OrdersBacked /\ DeliveriesBacked /\ ShovelsBacked
BY DEF NoWakeupLost, OrdersBacked, DeliveriesBacked, ShovelsBacked, Backed,
       AwakeCooks, Announcing, AwakeDeliverers, Handing, AwakeForShovel,
       Returning

LEMMA WakersFinite ==
  /\ IsFiniteSet(AwakeCooks) /\ IsFiniteSet(Announcing)
  /\ IsFiniteSet(AwakeDeliverers) /\ IsFiniteSet(Handing)
  /\ IsFiniteSet(AwakeForShovel) /\ IsFiniteSet(Returning)
BY PoolsAreFinite, FS_Subset
   DEF AwakeCooks, Announcing, AwakeDeliverers, Handing, AwakeForShovel,
       Returning, Awake, Signalling

LEMMA WakersFiniteNext ==
  /\ IsFiniteSet(AwakeCooks') /\ IsFiniteSet(Announcing')
  /\ IsFiniteSet(AwakeDeliverers') /\ IsFiniteSet(Handing')
  /\ IsFiniteSet(AwakeForShovel') /\ IsFiniteSet(Returning')
BY PoolsAreFinite, FS_Subset
   DEF AwakeCooks, Announcing, AwakeDeliverers, Handing, AwakeForShovel,
       Returning, Awake, Signalling

(* Orders: managers signal, main does for nothing, cooks take.             *)
LEMMA OrderWakeups ==
  ASSUME TypeOK, OrdersBacked, Operation
  PROVE  OrdersBacked'
<1> USE ThreadsDistinct, WakersFinite, WakersFiniteNext DEF Step, Threads
<1>0. /\ pc \in [Threads -> Labels] /\ orderCount \in Int
      /\ isOrderAvailable \subseteq {k \in Cooks : pc[k] = "take"}
  BY DEF TypeOK
<1>1. ASSUME UNCHANGED <<orderCount, stop>>,
             isOrderAvailable' \subseteq isOrderAvailable,
             \A k \in Cooks : pc[k] = "take" => pc'[k] = "take",
             \A c \in Clients : pc[c] = "signal" => pc'[c] = "signal"
      PROVE  OrdersBacked'
  <2>1. AwakeCooks \subseteq AwakeCooks' /\ Announcing \subseteq Announcing'
    BY <1>1 DEF AwakeCooks, Announcing, Awake, Signalling
  <2> QED BY <1>0, <1>1, <2>1, StaysBacked DEF OrdersBacked
<1>2. ASSUME NEW c \in Clients,
             \/ Connect(c) \/ ConnectFails(c) \/ Send(c) \/ SendFails(c)
             \/ Receive(c) \/ Accept(c) \/ Recv(c) \/ RecvNothing(c)
             \/ StoreID(c)
      PROVE  OrdersBacked'
  BY <1>0, <1>1, <1>2
     DEF Connect, ConnectFails, Send, SendFails, Receive, ClientFrame, Accept,
         Recv, RecvNothing, StoreID, queueVars, condVars, endVars
<1>3. ASSUME NEW c \in Clients, Push(c) PROVE OrdersBacked'
  <2>1. /\ orderCount' = orderCount + 1 /\ UNCHANGED <<stop, isOrderAvailable>>
        /\ AwakeCooks \subseteq AwakeCooks' /\ c \notin Announcing
        /\ Announcing \cup {c} \subseteq Announcing'
    BY <1>0, <1>3 DEF Push, AwakeCooks, Announcing, Awake, Signalling,
                      condVars, endVars
  <2> QED BY <1>0, <2>1, AnnouncedIsBacked DEF OrdersBacked
<1>4. ASSUME NEW c \in Clients, SignalOrder(c) PROVE OrdersBacked'
  <2>1. /\ orderCount' = orderCount /\ stop' = stop
        /\ Announcing' = Announcing \ {c}
    BY <1>0, <1>4 DEF SignalOrder, Announcing, Signalling, queueVars, endVars
  <2>2. CASE isOrderAvailable = {}
    BY <1>4, <2>2 DEF SignalOrder, Signalled, OrdersBacked
  <2>3. CASE isOrderAvailable # {}
    <3>1. PICK k \in isOrderAvailable :
            isOrderAvailable' = isOrderAvailable \ {k}
      BY <1>4, <2>3 DEF SignalOrder, Signalled
    <3>2. k \notin AwakeCooks /\ AwakeCooks \cup {k} \subseteq AwakeCooks'
      BY <1>0, <1>4, <3>1 DEF SignalOrder, AwakeCooks, Awake
    <3>3. Backed(orderCount, AwakeCooks, Announcing) =>
            Backed(orderCount, AwakeCooks', Announcing \ {c})
      BY <1>0, <3>2, SignalIsBacked
    <3> QED BY <2>1, <2>3, <3>3 DEF OrdersBacked
  <2> QED BY <2>2, <2>3
<1>5. ASSUME NEW k \in Cooks, WaitOrder(k) PROVE OrdersBacked'
  <2>1. orderCount' = 0
    BY <1>5 DEF WaitOrder, queueVars
  <2> QED BY <2>1, NothingIsBacked DEF OrdersBacked
<1>6. ASSUME NEW k \in Cooks, TakeOrder(k) PROVE OrdersBacked'
  <2>1. /\ orderCount' = orderCount - 1 /\ UNCHANGED <<stop, isOrderAvailable>>
    BY <1>6 DEF TakeOrder, condVars, endVars
  <2>2. Announcing = Announcing'
    BY <1>0, <1>6 DEF TakeOrder, Announcing, Signalling
  <2>3. AwakeCooks \ {k} \subseteq AwakeCooks'
    BY <1>0, <1>6, <2>1 DEF TakeOrder, AwakeCooks, Awake
  <2>4. Backed(orderCount, AwakeCooks, Announcing) =>
          Backed(orderCount - 1, AwakeCooks \ {k}, Announcing)
    BY <1>0, TakenIsBacked
  <2>5. Backed(orderCount - 1, AwakeCooks \ {k}, Announcing) =>
          Backed(orderCount - 1, AwakeCooks', Announcing')
    BY <1>0, <2>2, <2>3, StaysBacked
  <2> QED BY <2>1, <2>4, <2>5 DEF OrdersBacked
<1>7. ASSUME NEW t \in Cooks \cup Deliverers, Break(t) PROVE OrdersBacked'
  BY <1>7 DEF Break, OrdersBacked, endVars
<1>8. ASSUME NEW k \in Cooks,
             \/ WaitShovel(k) \/ TakeShovel(k) \/ ReleaseShovel(k)
             \/ SignalShovel(k) \/ Ready(k) \/ SignalDelivery(k)
      PROVE  OrdersBacked'
  BY <1>0, <1>1, <1>8
     DEF WaitShovel, TakeShovel, ReleaseShovel, SignalShovel, Ready,
         SignalDelivery, queueVars, condVars, endVars
<1>9. ASSUME NEW d \in Deliverers,
             WaitDelivery(d) \/ TakeDelivery(d) \/ Deliver(d) \/ CountDelivery(d)
      PROVE  OrdersBacked'
  BY <1>0, <1>1, <1>9
     DEF WaitDelivery, TakeDelivery, Deliver, CountDelivery, queueVars,
         condVars, endVars
<1>10. CASE MainSignal
  BY <1>0, <1>1, <1>10, SignalledLess DEF MainSignal, queueVars, endVars
<1>11. CASE SetStop
  BY <1>11 DEF SetStop, OrdersBacked
<1>12. CASE \/ CancelAll \/ MainLock \/ MainUnlock \/ Sigint \/ Exit
            \/ UNCHANGED vars
  BY <1>0, <1>1, <1>12
     DEF CancelAll, ClientFrame, MainLock, MainUnlock, Sigint, Exit, vars,
         queueVars, condVars, endVars
<1> QED
  BY <1>2, <1>3, <1>4, <1>5, <1>6, <1>7, <1>8, <1>9, <1>10, <1>11, <1>12
     DEF Operation

(* Orders that are ready: cooks signal, delivery threads take.             *)
LEMMA DeliveryWakeups ==
  ASSUME TypeOK, DeliveriesBacked, Operation
  PROVE  DeliveriesBacked'
<1> USE ThreadsDistinct, WakersFinite, WakersFiniteNext DEF Step, Threads
<1>0. /\ pc \in [Threads -> Labels] /\ deliveryCount \in Int
      /\ isDeliveryReady \subseteq {d \in Deliverers : pc[d] = "take"}
  BY DEF TypeOK
<1>1. ASSUME UNCHANGED <<deliveryCount, stop, isDeliveryReady>>,
             \A d \in Deliverers : pc[d] = "take" => pc'[d] = "take",
             \A k \in Cooks : pc[k] = "signalDelivery" =>
                              pc'[k] = "signalDelivery"
      PROVE  DeliveriesBacked'
  <2>1. AwakeDeliverers \subseteq AwakeDeliverers' /\ Handing \subseteq Handing'
    BY <1>1 DEF AwakeDeliverers, Handing, Awake, Signalling
  <2> QED BY <1>0, <1>1, <2>1, StaysBacked DEF DeliveriesBacked
<1>2. ASSUME NEW c \in Clients,
             \/ Connect(c) \/ ConnectFails(c) \/ Send(c) \/ SendFails(c)
             \/ Receive(c) \/ Accept(c) \/ Recv(c) \/ RecvNothing(c)
             \/ StoreID(c) \/ Push(c) \/ SignalOrder(c)
      PROVE  DeliveriesBacked'
  BY <1>0, <1>1, <1>2
     DEF Connect, ConnectFails, Send, SendFails, Receive, ClientFrame, Accept,
         Recv, RecvNothing, StoreID, Push, SignalOrder, queueVars, condVars,
         endVars
<1>3. ASSUME NEW k \in Cooks, Ready(k) PROVE DeliveriesBacked'
  <2>1. /\ deliveryCount' = deliveryCount + 1
        /\ UNCHANGED <<stop, isDeliveryReady>>
        /\ AwakeDeliverers \subseteq AwakeDeliverers' /\ k \notin Handing
        /\ Handing \cup {k} \subseteq Handing'
    BY <1>0, <1>3 DEF Ready, AwakeDeliverers, Handing, Awake, Signalling,
                      condVars, endVars
  <2> QED BY <1>0, <2>1, AnnouncedIsBacked DEF DeliveriesBacked
<1>4. ASSUME NEW k \in Cooks, SignalDelivery(k) PROVE DeliveriesBacked'
  <2>1. /\ deliveryCount' = deliveryCount /\ stop' = stop
        /\ Handing' = Handing \ {k}
    BY <1>0, <1>4 DEF SignalDelivery, Handing, Signalling, queueVars, endVars
  <2>2. CASE isDeliveryReady = {}
    BY <1>4, <2>2 DEF SignalDelivery, Signalled, DeliveriesBacked
  <2>3. CASE isDeliveryReady # {}
    <3>1. PICK d \in isDeliveryReady : isDeliveryReady' = isDeliveryReady \ {d}
      BY <1>4, <2>3 DEF SignalDelivery, Signalled
    <3>2. d \notin AwakeDeliverers
          /\ AwakeDeliverers \cup {d} \subseteq AwakeDeliverers'
      BY <1>0, <1>4, <3>1 DEF SignalDelivery, AwakeDeliverers, Awake
    <3>3. Backed(deliveryCount, AwakeDeliverers, Handing) =>
            Backed(deliveryCount, AwakeDeliverers', Handing \ {k})
      BY <1>0, <3>2, SignalIsBacked
    <3> QED BY <2>1, <2>3, <3>3 DEF DeliveriesBacked
  <2> QED BY <2>2, <2>3
<1>5. ASSUME NEW d \in Deliverers, WaitDelivery(d) PROVE DeliveriesBacked'
  <2>1. deliveryCount' = 0
    BY <1>5 DEF WaitDelivery, queueVars
  <2> QED BY <2>1, NothingIsBacked DEF DeliveriesBacked
<1>6. ASSUME NEW d \in Deliverers, TakeDelivery(d) PROVE DeliveriesBacked'
  <2>1. /\ deliveryCount' = deliveryCount - 1
        /\ UNCHANGED <<stop, isDeliveryReady>>
    BY <1>6 DEF TakeDelivery, condVars, endVars
  <2>2. Handing = Handing' /\ AwakeDeliverers' = AwakeDeliverers \ {d}
    BY <1>0, <1>6, <2>1
       DEF TakeDelivery, Handing, Signalling, AwakeDeliverers, Awake
  <2>3. Backed(deliveryCount, AwakeDeliverers, Handing) =>
          Backed(deliveryCount - 1, AwakeDeliverers \ {d}, Handing)
    BY <1>0, TakenIsBacked
  <2> QED BY <2>1, <2>2, <2>3 DEF DeliveriesBacked
<1>7. ASSUME NEW t \in Cooks \cup Deliverers, Break(t)
      PROVE  DeliveriesBacked'
  BY <1>7 DEF Break, DeliveriesBacked, endVars
<1>8. ASSUME NEW k \in Cooks, TakeOrder(k) PROVE DeliveriesBacked'
  <2>1. \A t \in Cooks \cup Deliverers : t # k => pc'[t] = pc[t]
    BY <1>0, <1>8 DEF TakeOrder
  <2>2. pc[k] = "take" /\ UNCHANGED <<deliveryCount, stop, isDeliveryReady>>
    BY <1>8 DEF TakeOrder, condVars, endVars
  <2> QED BY <1>1, <2>1, <2>2
<1>9. ASSUME NEW k \in Cooks,
             \/ WaitOrder(k) \/ WaitShovel(k) \/ TakeShovel(k)
             \/ ReleaseShovel(k) \/ SignalShovel(k)
      PROVE  DeliveriesBacked'
  BY <1>0, <1>1, <1>9
     DEF WaitOrder, WaitShovel, TakeShovel, ReleaseShovel, SignalShovel,
         queueVars, condVars, endVars
<1>10. ASSUME NEW d \in Deliverers, Deliver(d) \/ CountDelivery(d)
       PROVE  DeliveriesBacked'
  BY <1>0, <1>1, <1>10
     DEF Deliver, CountDelivery, queueVars, condVars, endVars
<1>11. CASE SetStop
  BY <1>11 DEF SetStop, DeliveriesBacked
<1>12. CASE \/ CancelAll \/ MainSignal \/ MainLock \/ MainUnlock \/ Sigint
            \/ Exit \/ UNCHANGED vars
  BY <1>0, <1>1, <1>12
     DEF CancelAll, ClientFrame, MainSignal, MainLock, MainUnlock, Sigint,
         Exit, vars, queueVars, condVars, endVars
<1> QED
  BY <1>2, <1>3, <1>4, <1>5, <1>6, <1>7, <1>8, <1>9, <1>10, <1>11, <1>12
     DEF Operation

(* Shovels: cooks give back, then signal; stop changes nothing.            *)
LEMMA ShovelWakeups ==
  ASSUME TypeOK, ShovelsBacked, Operation
  PROVE  ShovelsBacked'
<1> USE ThreadsDistinct, WakersFinite, WakersFiniteNext DEF Step, Threads
<1>0. /\ pc \in [Threads -> Labels] /\ shovels \in Int
      /\ isShovelAvailable \subseteq {k \in Cooks : pc[k] = "shovel"}
  BY DEF TypeOK
<1>1. ASSUME UNCHANGED <<shovels, isShovelAvailable>>,
             \A k \in Cooks : pc[k] \in {"shovel", "signalShovel"} =>
                              pc'[k] = pc[k]
      PROVE  ShovelsBacked'
  <2>1. AwakeForShovel \subseteq AwakeForShovel' /\ Returning \subseteq Returning'
    BY <1>1 DEF AwakeForShovel, Returning, Awake, Signalling
  <2> QED BY <1>0, <1>1, <2>1, StaysBacked DEF ShovelsBacked
<1>2. ASSUME NEW c \in Clients,
             \/ Connect(c) \/ ConnectFails(c) \/ Send(c) \/ SendFails(c)
             \/ Receive(c) \/ Accept(c) \/ Recv(c) \/ RecvNothing(c)
             \/ StoreID(c) \/ Push(c) \/ SignalOrder(c)
      PROVE  ShovelsBacked'
  BY <1>0, <1>1, <1>2
     DEF Connect, ConnectFails, Send, SendFails, Receive, ClientFrame, Accept,
         Recv, RecvNothing, StoreID, Push, SignalOrder, condVars
<1>3. ASSUME NEW k \in Cooks, ReleaseShovel(k) PROVE ShovelsBacked'
  <2>1. /\ shovels' = shovels + 1 /\ UNCHANGED isShovelAvailable
        /\ AwakeForShovel \subseteq AwakeForShovel' /\ k \notin Returning
        /\ Returning \cup {k} \subseteq Returning'
    BY <1>0, <1>3 DEF ReleaseShovel, AwakeForShovel, Returning, Awake,
                      Signalling, condVars
  <2> QED BY <1>0, <2>1, AnnouncedIsBacked DEF ShovelsBacked
<1>4. ASSUME NEW k \in Cooks, SignalShovel(k) PROVE ShovelsBacked'
  <2>1. shovels' = shovels /\ Returning' = Returning \ {k}
    BY <1>0, <1>4 DEF SignalShovel, Returning, Signalling
  <2>2. CASE isShovelAvailable = {}
    BY <1>4, <2>2 DEF SignalShovel, Signalled, ShovelsBacked
  <2>3. CASE isShovelAvailable # {}
    <3>1. PICK l \in isShovelAvailable :
            isShovelAvailable' = isShovelAvailable \ {l}
      BY <1>4, <2>3 DEF SignalShovel, Signalled
    <3>2. l \notin AwakeForShovel
          /\ AwakeForShovel \cup {l} \subseteq AwakeForShovel'
      BY <1>0, <1>4, <3>1 DEF SignalShovel, AwakeForShovel, Awake
    <3>3. Backed(shovels, AwakeForShovel, Returning) =>
            Backed(shovels, AwakeForShovel', Returning \ {k})
      BY <1>0, <3>2, SignalIsBacked
    <3> QED BY <2>1, <2>3, <3>3 DEF ShovelsBacked
  <2> QED BY <2>2, <2>3
<1>5. ASSUME NEW k \in Cooks, WaitShovel(k) PROVE ShovelsBacked'
  <2>1. shovels' = 0
    BY <1>5 DEF WaitShovel, NoShovel
  <2> QED BY <2>1, NothingIsBacked DEF ShovelsBacked
<1>6. ASSUME NEW k \in Cooks, TakeShovel(k) PROVE ShovelsBacked'
  <2>1. shovels' = shovels - 1 /\ UNCHANGED isShovelAvailable
    BY <1>6 DEF TakeShovel, condVars
  <2>2. Returning = Returning' /\ AwakeForShovel' = AwakeForShovel \ {k}
    BY <1>0, <1>6, <2>1
       DEF TakeShovel, Returning, Signalling, AwakeForShovel, Awake
  <2>3. Backed(shovels, AwakeForShovel, Returning) =>
          Backed(shovels - 1, AwakeForShovel \ {k}, Returning)
    BY <1>0, TakenIsBacked
  <2> QED BY <2>1, <2>2, <2>3 DEF ShovelsBacked
<1>7. ASSUME NEW k \in Cooks, TakeOrder(k) PROVE ShovelsBacked'
  <2>1. \A t \in Cooks : t # k => pc'[t] = pc[t]
    BY <1>0, <1>7 DEF TakeOrder
  <2>2. pc[k] = "take" /\ UNCHANGED <<shovels, isShovelAvailable>>
    BY <1>7 DEF TakeOrder, condVars
  <2> QED BY <1>1, <2>1, <2>2
<1>8. ASSUME NEW k \in Cooks, WaitOrder(k) \/ Ready(k) \/ SignalDelivery(k)
      PROVE  ShovelsBacked'
  BY <1>0, <1>1, <1>8 DEF WaitOrder, Ready, SignalDelivery, condVars
<1>9. ASSUME NEW t \in Cooks \cup Deliverers, Break(t) PROVE ShovelsBacked'
  BY <1>0, <1>1, <1>9 DEF Break, condVars
<1>10. ASSUME NEW d \in Deliverers,
              \/ WaitDelivery(d) \/ TakeDelivery(d) \/ Deliver(d)
              \/ CountDelivery(d)
       PROVE  ShovelsBacked'
  BY <1>0, <1>1, <1>10
     DEF WaitDelivery, TakeDelivery, Deliver, CountDelivery, condVars
<1>11. CASE \/ CancelAll \/ MainSignal \/ MainLock \/ MainUnlock \/ Sigint
            \/ SetStop \/ Exit \/ UNCHANGED vars
  BY <1>0, <1>1, <1>11
     DEF CancelAll, ClientFrame, MainSignal, MainLock, MainUnlock, Sigint,
         SetStop, Exit, vars, condVars
<1> QED
  BY <1>2, <1>3, <1>4, <1>5, <1>6, <1>7, <1>8, <1>9, <1>10, <1>11
     DEF Operation

(* No wakeup is lost, for any number of clients, cooks, delivery threads   *)
(* and shovels, although each signal is sent after the unlock, is for one  *)
(* thread only, and main and the clients may stop at any point: as many    *)
(* threads as there are orders, or shovels, will come or be called.        *)
THEOREM NoWakeupLostHolds == Spec => []NoWakeupLost
<1>1. Init => NoWakeupLost
  BY DEF Init, NoWakeupLost
<1>2. TypeOK /\ NoWakeupLost /\ [Next]_vars => NoWakeupLost'
  <2>1. NoWakeupLost' <=> OrdersBacked' /\ DeliveriesBacked' /\ ShovelsBacked'
    BY DEF NoWakeupLost, OrdersBacked, DeliveriesBacked, ShovelsBacked, Backed,
           AwakeCooks, Announcing, AwakeDeliverers, Handing, AwakeForShovel,
           Returning
  <2> QED BY <2>1, NextIsOperation, WakeupParts, OrderWakeups, DeliveryWakeups,
             ShovelWakeups
<1> QED BY <1>1, <1>2, TypeCorrect, PTL DEF Spec

(* Cooks and delivery threads end only once stop is set.                   *)
EndedStopped == \A t \in Cooks \cup Deliverers : pc[t] = "ended" => stop
LEMMA EndedPreserved ==
  ASSUME TypeOK, EndedStopped, Operation
  PROVE  EndedStopped'
<1> USE ThreadsDistinct DEF Step, Threads, EndedStopped
<1>0. pc \in [Threads -> Labels]
  BY DEF TypeOK
<1>1. ASSUME stop' = stop,
             \A t \in Cooks \cup Deliverers : pc'[t] = "ended" =>
                                              pc[t] = "ended" \/ stop
      PROVE  EndedStopped'
  BY <1>1
<1>2. ASSUME NEW c \in Clients,
             \/ Connect(c) \/ ConnectFails(c) \/ Send(c) \/ SendFails(c)
             \/ Receive(c) \/ Accept(c) \/ Recv(c) \/ RecvNothing(c)
             \/ StoreID(c) \/ Push(c) \/ SignalOrder(c)
      PROVE  EndedStopped'
  BY <1>0, <1>1, <1>2
     DEF Connect, ConnectFails, Send, SendFails, Receive, ClientFrame, Accept,
         Recv, RecvNothing, StoreID, Push, SignalOrder, endVars
<1>3. ASSUME NEW t \in Cooks \cup Deliverers, Break(t) PROVE EndedStopped'
  BY <1>0, <1>1, <1>3 DEF Break, endVars
<1>4. ASSUME NEW k \in Cooks, TakeOrder(k) PROVE EndedStopped'
  <2>1. /\ pc'[k] # "ended" /\ stop' = stop
        /\ \A t \in Cooks \cup Deliverers : t # k => pc'[t] = pc[t]
    BY <1>0, <1>4 DEF TakeOrder, endVars
  <2> QED BY <1>1, <2>1
<1>5. ASSUME NEW k \in Cooks,
             \/ WaitOrder(k) \/ WaitShovel(k) \/ TakeShovel(k)
             \/ ReleaseShovel(k) \/ SignalShovel(k) \/ Ready(k)
             \/ SignalDelivery(k)
      PROVE  EndedStopped'
  BY <1>0, <1>1, <1>5
     DEF WaitOrder, WaitShovel, TakeShovel, ReleaseShovel, SignalShovel, Ready,
         SignalDelivery, endVars
<1>6. ASSUME NEW d \in Deliverers,
             \/ WaitDelivery(d) \/ TakeDelivery(d) \/ Deliver(d)
             \/ CountDelivery(d)
      PROVE  EndedStopped'
  BY <1>0, <1>1, <1>6
     DEF WaitDelivery, TakeDelivery, Deliver, CountDelivery, endVars
<1>7. CASE SetStop
  BY <1>7 DEF SetStop
<1>8. CASE \/ CancelAll \/ MainSignal \/ MainLock \/ MainUnlock \/ Sigint
           \/ Exit \/ UNCHANGED vars
  BY <1>0, <1>1, <1>8
     DEF CancelAll, ClientFrame, MainSignal, MainLock, MainUnlock, Sigint,
         Exit, vars, endVars
<1> QED
  BY <1>2, <1>3, <1>4, <1>5, <1>6, <1>7, <1>8 DEF Operation

(* Somebody is there to go on: while an order waits or is in the hands of  *)
(* a cook, a manager is about to signal or a cook is not asleep, at either *)
(* condition; while one is ready, a cook is about to signal or a delivery  *)
(* thread is not asleep.                                                   *)
InKitchen == orderCount > 0 \/ \E k \in Cooks : pc[k] \in Preparing
SomebodyAwake ==
  ~stop =>
    /\ InKitchen /\ Cooks # {} =>
         \/ Announcing # {}
         \/ \E k \in Cooks \ (isOrderAvailable \cup isShovelAvailable) :
              pc[k] # "ended"
    /\ deliveryCount > 0 /\ Deliverers # {} =>
         Handing # {} \/ \E d \in Deliverers \ isDeliveryReady : pc[d] # "ended"

(* What is there to take is not backed by nobody.                          *)
LEMMA BackedBySomebody ==
  ASSUME NEW n \in Int, n > 0, NEW A, NEW S, Backed(n, A, S)
  PROVE  A # {} \/ S # {}
BY FS_EmptySet DEF Backed

(* So the two conditions of the cooks, each with a mutex of its own, and   *)
(* that of the delivery threads never leave the shop asleep on an order,   *)
(* for any number of clients, cooks, delivery threads and shovels.         *)
THEOREM SomebodyAwakeHolds == Spec => []SomebodyAwake
<1>1. Init => EndedStopped
  BY ThreadsDistinct DEF Init, EndedStopped, Threads
<1>2. TypeOK /\ EndedStopped /\ [Next]_vars => EndedStopped'
  BY NextIsOperation, EndedPreserved
<1>3. ASSUME TypeOK, EndedStopped, NoWakeupLost, ShovelsConserved
      PROVE  SomebodyAwake
  <2> SUFFICES ASSUME ~stop PROVE SomebodyAwake
    BY DEF SomebodyAwake
  <2>0. /\ OrdersBacked /\ DeliveriesBacked /\ ShovelsBacked
        /\ orderCount \in Int /\ deliveryCount \in Int /\ shovels \in Int
        /\ isOrderAvailable \subseteq {k \in Cooks : pc[k] = "take"}
        /\ isDeliveryReady \subseteq {d \in Deliverers : pc[d] = "take"}
        /\ isShovelAvailable \subseteq {k \in Cooks : pc[k] = "shovel"}
        /\ \A t \in Cooks \cup Deliverers : pc[t] # "ended"
    BY <1>3, WakeupParts DEF TypeOK, EndedStopped
  <2>1. ASSUME deliveryCount > 0, Deliverers \subseteq isDeliveryReady,
               Deliverers # {}
        PROVE  Handing # {}
    <3>1. AwakeDeliverers = {}
      BY <2>1 DEF AwakeDeliverers, Awake
    <3>2. Backed(deliveryCount, AwakeDeliverers, Handing)
      BY <2>0, <2>1 DEF DeliveriesBacked
    <3> QED BY <2>0, <2>1, <3>1, <3>2, BackedBySomebody
  <2>2. ASSUME isShovelAvailable # {}
        PROVE  ~(Cooks \subseteq isOrderAvailable \cup isShovelAvailable)
    <3>1. CASE shovels > 0
      <4>1. AwakeForShovel # {} \/ Returning # {}
        BY <2>0, <2>2, <3>1, BackedBySomebody DEF ShovelsBacked
      <4> QED BY <2>0, <4>1 DEF AwakeForShovel, Returning, Awake, Signalling
    <3>2. CASE ~(shovels > 0)
      <4>1. Cardinality(InOven) # 0
        BY <1>3, <2>0, <3>2, LimitsAssumption DEF ShovelsConserved
      <4>2. InOven # {}
        BY <4>1, FS_EmptySet
      <4> QED BY <2>0, <4>2 DEF InOven
    <3> QED BY <3>1, <3>2
  <2>3. ASSUME InKitchen, Cooks # {},
               Cooks \subseteq isOrderAvailable \cup isShovelAvailable
        PROVE  Announcing # {}
    <3>1. Cooks \subseteq isOrderAvailable
      BY <2>2, <2>3
    <3>2. orderCount > 0 /\ isOrderAvailable # {} /\ AwakeCooks = {}
      BY <2>0, <2>3, <3>1 DEF InKitchen, Preparing, AwakeCooks, Awake
    <3>3. Backed(orderCount, AwakeCooks, Announcing)
      BY <2>0, <3>2 DEF OrdersBacked
    <3> QED BY <2>0, <3>2, <3>3, BackedBySomebody
  <2> QED BY <2>0, <2>1, <2>3 DEF SomebodyAwake
<1> QED BY <1>1, <1>2, <1>3, NoWakeupLostHolds, ShovelsConservedHolds,
           TypeCorrect, PTL DEF Spec
=============================================================================
