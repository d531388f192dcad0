------------------------------ MODULE PideShop ------------------------------
(***************************************************************************)
(* The pide shop of Final: clients of hungryverymuch.c connect and send an *)
(* order each; pideshop.c accepts them in main, gives each a manager       *)
(* thread that queues the order, cooks that prepare it with one of a few   *)
(* shovels, and delivery threads that send the answer.  Both queues are    *)
(* LIFO arrays under orderQueueMutex.                                      *)
(*                                                                         *)
(* A critical section is one step, taken when the mutex is free: nobody    *)
(* else reads what it writes before the unlock.  Only main's serverLog is  *)
(* split, since handleSigInt, which the kernel runs on the main thread,    *)
(* may interrupt it while it holds orderQueueMutex; the other threads'     *)
(* calls of serverLog, which write to the log file only, are left out.     *)
(***************************************************************************)
EXTENDS Integers, Sequences, FiniteSets

CONSTANTS
  Clients,           \* clients; c also names the manager thread serving c
  Cooks,             \* cook threads
  DeliveryPoolSize,  \* number of delivery threads
  Main, Handler,     \* main thread, and handleSigInt running on it
  ShovelCount,       \* SHOVEL_COUNT
  MaxOrders,         \* MAX_ORDERS, the length of both queues
  NoClient,          \* no client
  Faults             \* what may go wrong, of FaultKinds

Deliverers == 0 .. DeliveryPoolSize - 1
Threads == Clients \cup Cooks \cup Deliverers \cup {Main, Handler}

ASSUME ThreadsDistinct ==
  /\ Clients \cap Cooks = {} /\ (Clients \cup Cooks) \cap Deliverers = {}
  /\ {Main, Handler} \cap (Clients \cup Cooks \cup Deliverers) = {}
  /\ Main # Handler
ASSUME PoolsFinite == IsFiniteSet(Cooks) /\ DeliveryPoolSize \in Nat
ASSUME LimitsAssumption == ShovelCount \in Nat \ {0} /\ MaxOrders \in Nat
(* The program does not compare orderCount with MAX_ORDERS.                *)
ASSUME QueuesLongEnough ==
  IsFiniteSet(Clients) /\ Cardinality(Clients) <= MaxOrders
(* SIGINT to either program; a client whose connect or send fails.         *)
FaultKinds == {"sigint server", "sigint clients", "connect", "send"}
ASSUME FaultsAssumption ==
  Faults \subseteq FaultKinds /\ NoClient \notin Clients

(* orderStruct; of x and y, whether sscanf assigned them.                  *)
Orders == [orderID : Nat, clientSocket : Clients, status : 0 .. 3,
           placed : BOOLEAN]
NoOrder == [orderID |-> 0, clientSocket |-> NoClient, status |-> 0,
            placed |-> FALSE]

VARIABLES
  pc,
  logging,        \* main holds orderQueueMutex, in serverLog
  orderQueue, orderCount, deliveryQueue, deliveryCount,
  isOrderAvailable, isDeliveryReady, isShovelAvailable,  \* wait sets
  shovels, orderCounter, deliveredCount, stop,
  order,          \* order[t]: local of a manager, cook or delivery thread
  client,         \* client[c]: what client c is doing
  inbox,          \* inbox[c]: what c has sent and nobody received yet
  replies,        \* replies[c]: orders announced as delivered to c
  status          \* "running", "exited"

queueVars == <<orderQueue, orderCount, deliveryQueue, deliveryCount>>
condVars == <<isOrderAvailable, isDeliveryReady, isShovelAvailable>>
clientVars == <<client, inbox, replies>>
endVars == <<stop, status>>
vars == <<pc, logging, queueVars, condVars, shovels, orderCounter,
          deliveredCount, order, clientVars, endVars>>

Init ==
  /\ pc = [t \in Threads |-> CASE t \in Clients -> "none"
                               [] t = Main -> "accept"
                               [] t = Handler -> "idle"
                               [] OTHER -> "take"]
  /\ logging = FALSE
  /\ orderQueue = [i \in 0 .. MaxOrders - 1 |-> NoOrder] /\ orderCount = 0
  /\ deliveryQueue = [i \in 0 .. MaxOrders - 1 |-> NoOrder]
  /\ deliveryCount = 0
  /\ isOrderAvailable = {} /\ isDeliveryReady = {} /\ isShovelAvailable = {}
  /\ shovels = ShovelCount /\ orderCounter = 1
  /\ deliveredCount = [d \in Deliverers |-> 0]
  /\ order = [t \in Clients \cup Cooks \cup Deliverers |-> NoOrder]
  /\ client = [c \in Clients |-> "away"]
  /\ inbox = [c \in Clients |-> {}]
  /\ replies = [c \in Clients |-> <<>>]
  /\ stop = FALSE /\ status = "running"

-----------------------------------------------------------------------------
(* A thread runs until exit; the handler suspends main.                    *)
Runs(t) == status = "running" /\ (t = Main => pc[Handler] = "idle")

Step(t, from, to) ==
  Runs(t) /\ pc[t] = from /\ pc' = [pc EXCEPT ![t] = to]

(* pthread_cond_signal wakes one waiter, any of them, or nobody.           *)
Signalled(waiters) ==
  IF waiters = {} THEN {{}} ELSE {waiters \ {t} : t \in waiters}

(* A bound of the model: SIGINT comes once, to one of the two programs.     *)
NoSigintYet ==
  /\ pc[Handler] = "idle"
  /\ \A c \in Clients : client[c] \notin {"gone", "cancelled"}

-----------------------------------------------------------------------------
(* The clients.                                                            *)
ClientFrame == UNCHANGED <<pc, logging, queueVars, condVars, shovels,
                           orderCounter, deliveredCount, order, endVars>>

Connect(c) ==
  /\ client[c] = "away"
  /\ client' = [client EXCEPT ![c] = "connected"]
  /\ UNCHANGED <<inbox, replies>> /\ ClientFrame

(* socket or connect fails: the thread ends.                               *)
ConnectFails(c) ==
  /\ "connect" \in Faults /\ client[c] = "away"
  /\ client' = [client EXCEPT ![c] = "unconnected"]
  /\ UNCHANGED <<inbox, replies>> /\ ClientFrame

Send(c) ==
  /\ client[c] = "connected"
  /\ client' = [client EXCEPT ![c] = "waiting"]
  /\ inbox' = [inbox EXCEPT ![c] = {"order"}]
  /\ UNCHANGED replies /\ ClientFrame

Receive(c) ==
  /\ client[c] = "waiting" /\ replies[c] # <<>>
  /\ client' = [client EXCEPT ![c] = "served"]
  /\ UNCHANGED <<inbox, replies>> /\ ClientFrame

SendFails(c) ==
  /\ "send" \in Faults /\ client[c] = "connected"
  /\ client' = [client EXCEPT ![c] = "failed"]
  /\ UNCHANGED <<inbox, replies>> /\ ClientFrame

(* handleSigInt of the clients' program: CANCEL on every open socket,      *)
(* close, exit.  A client thread that had not connected never does.        *)
CancelAll ==
  /\ "sigint clients" \in Faults /\ NoSigintYet
  /\ \E c \in Clients : client[c] \in {"away", "connected", "waiting"}
  /\ client' = [c \in Clients |->
                  CASE client[c] = "away" -> "gone"
                    [] client[c] \in {"served", "failed", "unconnected"} ->
                         client[c]
                    [] OTHER -> "cancelled"]
  /\ inbox' = [c \in Clients |-> IF client'[c] = "cancelled"
                                 THEN inbox[c] \cup {"cancel"} ELSE inbox[c]]
  /\ UNCHANGED replies /\ ClientFrame

ClientStep(c) ==
  Connect(c) \/ ConnectFails(c) \/ Send(c) \/ SendFails(c) \/ Receive(c)

-----------------------------------------------------------------------------
(* main's accept loop.                                                     *)
Accept(c) ==
  /\ client[c] \notin {"away", "gone", "unconnected"} /\ pc[c] = "none"
  /\ Runs(Main) /\ pc[Main] = "accept" /\ ~stop
  /\ pc' = [pc EXCEPT ![Main] = "signal", ![c] = "recv"]
  /\ UNCHANGED <<logging, queueVars, condVars, shovels, orderCounter,
                 deliveredCount, order, clientVars, endVars>>

(* A signal on isOrderAvailable although no order came.                    *)
MainSignal ==
  /\ Step(Main, "signal", "lock")
  /\ isOrderAvailable' \in Signalled(isOrderAvailable)
  /\ UNCHANGED <<logging, queueVars, isDeliveryReady, isShovelAvailable,
                 shovels, orderCounter, deliveredCount, order, clientVars,
                 endVars>>

MainLock ==
  /\ Step(Main, "lock", "log") /\ ~logging
  /\ logging' = TRUE
  /\ UNCHANGED <<queueVars, condVars, shovels, orderCounter, deliveredCount,
                 order, clientVars, endVars>>

MainUnlock ==
  /\ Step(Main, "log", "accept")
  /\ logging' = FALSE
  /\ UNCHANGED <<queueVars, condVars, shovels, orderCounter, deliveredCount,
                 order, clientVars, endVars>>

MainStep == (\E c \in Clients : Accept(c)) \/ MainSignal \/ MainLock
            \/ MainUnlock

-----------------------------------------------------------------------------
(* managerThread of client c.                                              *)

(* recv takes all that has arrived; orderCounter++ begins with a load.  A  *)
(* lone CANCEL leaves x and y unassigned and is an order all the same.     *)
Recv(c) ==
  /\ Step(c, "recv", "storeID")
  /\ inbox[c] # {}
  /\ inbox' = [inbox EXCEPT ![c] = {}]
  /\ order' = [order EXCEPT ![c] =
                 [orderID |-> orderCounter, clientSocket |-> c, status |-> 0,
                  placed |-> "order" \in inbox[c]]]
  /\ UNCHANGED <<logging, queueVars, condVars, shovels, orderCounter,
                 deliveredCount, client, replies, endVars>>

(* recv returns 0: the client closed its socket and sent nothing.          *)
RecvNothing(c) ==
  /\ Step(c, "recv", "ended")
  /\ inbox[c] = {} /\ client[c] = "failed"
  /\ UNCHANGED <<logging, queueVars, condVars, shovels, orderCounter,
                 deliveredCount, order, clientVars, endVars>>

StoreID(c) ==
  /\ Step(c, "storeID", "push")
  /\ orderCounter' = order[c].orderID + 1
  /\ UNCHANGED <<logging, queueVars, condVars, shovels, deliveredCount, order,
                 clientVars, endVars>>

Push(c) ==
  /\ Step(c, "push", "signal") /\ ~logging
  /\ orderQueue' = [orderQueue EXCEPT ![orderCount] = order[c]]
  /\ orderCount' = orderCount + 1
  /\ order' = [order EXCEPT ![c] = NoOrder]
  /\ UNCHANGED <<logging, deliveryQueue, deliveryCount, condVars, shovels,
                 orderCounter, deliveredCount, clientVars, endVars>>

(* Mutant: the manager signals only if its order is the only one. *)
SignalFirstOrder(c) ==
  /\ Step(c, "signal", "ended")
  /\ isOrderAvailable' \in IF orderCount = 1 THEN Signalled(isOrderAvailable)
                                            ELSE {isOrderAvailable}
  /\ UNCHANGED <<logging, queueVars, isDeliveryReady, isShovelAvailable,
                 shovels, orderCounter, deliveredCount, order, clientVars,
                 endVars>>

SignalOrder(c) ==
  /\ Step(c, "signal", "ended")
  /\ isOrderAvailable' \in Signalled(isOrderAvailable)
  /\ UNCHANGED <<logging, queueVars, isDeliveryReady, isShovelAvailable,
                 shovels, orderCounter, deliveredCount, order, clientVars,
                 endVars>>

ManagerStep(c) ==
  Recv(c) \/ RecvNothing(c) \/ StoreID(c) \/ Push(c) \/ SignalOrder(c)

-----------------------------------------------------------------------------
(* Cooks and delivery threads end once they see stop, at the head of their *)
(* loop or after a wait.                                                   *)
Break(t) ==
  /\ Step(t, "take", "ended") /\ stop
  /\ t \notin isOrderAvailable \cup isDeliveryReady
  /\ UNCHANGED <<logging, queueVars, condVars, shovels, orderCounter,
                 deliveredCount, order, clientVars, endVars>>

(* cookThread.                                                             *)
WaitOrder(k) ==
  /\ Step(k, "take", "take") /\ ~logging /\ orderCount = 0 /\ ~stop
  /\ k \notin isOrderAvailable
  /\ isOrderAvailable' = isOrderAvailable \cup {k}
  /\ UNCHANGED <<logging, queueVars, isDeliveryReady, isShovelAvailable,
                 shovels, orderCounter, deliveredCount, order, clientVars,
                 endVars>>

(* Mutant: a cook takes the first slot, without moving up the others. *)
FirstOrder == 0
NextOrder == orderCount - 1

(* The order is pending, so the cook goes on to mark it as cooking.        *)
TakeOrder(k) ==
  /\ ~logging /\ orderCount > 0 /\ ~stop
  /\ k \notin isOrderAvailable
  /\ Step(k, "take", IF orderQueue[NextOrder].status = 0 THEN "shovel"
                                                      ELSE "take")
  /\ orderCount' = orderCount - 1
  /\ order' = [order EXCEPT ![k] = [orderQueue[NextOrder] EXCEPT
                 !.status = IF @ = 0 THEN 1 ELSE @]]
  /\ UNCHANGED <<logging, orderQueue, deliveryQueue, deliveryCount, condVars,
                 shovels, orderCounter, deliveredCount, clientVars, endVars>>

(* Mutant: off by one. *)
NoShovelLax == shovels < 0
NoShovel == shovels = 0

WaitShovel(k) ==
  /\ Step(k, "shovel", "shovel") /\ NoShovel
  /\ k \notin isShovelAvailable
  /\ isShovelAvailable' = isShovelAvailable \cup {k}
  /\ UNCHANGED <<logging, queueVars, isOrderAvailable, isDeliveryReady,
                 shovels, orderCounter, deliveredCount, order, clientVars,
                 endVars>>

TakeShovel(k) ==
  /\ Step(k, "shovel", "oven") /\ ~NoShovel
  /\ k \notin isShovelAvailable
  /\ shovels' = shovels - 1
  /\ UNCHANGED <<logging, queueVars, condVars, orderCounter, deliveredCount,
                 order, clientVars, endVars>>

ReleaseShovel(k) ==
  /\ Step(k, "oven", "signalShovel")
  /\ shovels' = shovels + 1
  /\ UNCHANGED <<logging, queueVars, condVars, orderCounter, deliveredCount,
                 order, clientVars, endVars>>

SignalShovel(k) ==
  /\ Step(k, "signalShovel", "ready")
  /\ isShovelAvailable' \in Signalled(isShovelAvailable)
  /\ UNCHANGED <<logging, queueVars, isOrderAvailable, isDeliveryReady,
                 shovels, orderCounter, deliveredCount, order, clientVars,
                 endVars>>

Prepared(k) == [order[k] EXCEPT !.status = 2]

Ready(k) ==
  /\ Step(k, "ready", "signalDelivery") /\ ~logging
  /\ deliveryQueue' = [deliveryQueue EXCEPT ![deliveryCount] = Prepared(k)]
  /\ deliveryCount' = deliveryCount + 1
  /\ order' = [order EXCEPT ![k] = NoOrder]
  /\ UNCHANGED <<logging, orderQueue, orderCount, condVars, shovels,
                 orderCounter, deliveredCount, clientVars, endVars>>

(* Mutant: nobody is woken. *)
SignalNoDelivery(k) ==
  /\ Step(k, "signalDelivery", "take")
  /\ UNCHANGED <<logging, queueVars, condVars, shovels, orderCounter,
                 deliveredCount, order, clientVars, endVars>>

SignalDelivery(k) ==
  /\ Step(k, "signalDelivery", "take")
  /\ isDeliveryReady' \in Signalled(isDeliveryReady)
  /\ UNCHANGED <<logging, queueVars, isOrderAvailable, isShovelAvailable,
                 shovels, orderCounter, deliveredCount, order, clientVars,
                 endVars>>

CookStep(k) ==
  \/ Break(k) \/ WaitOrder(k) \/ TakeOrder(k)
  \/ WaitShovel(k) \/ TakeShovel(k) \/ ReleaseShovel(k) \/ SignalShovel(k)
  \/ Ready(k) \/ SignalDelivery(k)

(* deliveryThread.                                                         *)
WaitDelivery(d) ==
  /\ Step(d, "take", "take") /\ ~logging /\ deliveryCount = 0 /\ ~stop
  /\ d \notin isDeliveryReady
  /\ isDeliveryReady' = isDeliveryReady \cup {d}
  /\ UNCHANGED <<logging, queueVars, isOrderAvailable, isShovelAvailable,
                 shovels, orderCounter, deliveredCount, order, clientVars,
                 endVars>>

(* Mutant: a thread takes the first slot, without moving up the others. *)
FirstDelivery == 0
NextDelivery == deliveryCount - 1

TakeDelivery(d) ==
  /\ Step(d, "take", "send") /\ ~logging /\ deliveryCount > 0 /\ ~stop
  /\ d \notin isDeliveryReady
  /\ deliveryCount' = deliveryCount - 1
  /\ order' = [order EXCEPT ![d] = deliveryQueue[NextDelivery]]
  /\ UNCHANGED <<logging, orderQueue, orderCount, deliveryQueue, condVars,
                 shovels, orderCounter, deliveredCount, clientVars, endVars>>

Deliver(d) ==
  /\ Step(d, "send", "count")
  /\ replies' = [replies EXCEPT ![order[d].clientSocket] = Append(@, order[d])]
  /\ order' = [order EXCEPT ![d] = NoOrder]
  /\ UNCHANGED <<logging, queueVars, condVars, shovels, orderCounter,
                 deliveredCount, client, inbox, endVars>>

CountDelivery(d) ==
  /\ Step(d, "count", "take")
  /\ deliveredCount' = [deliveredCount EXCEPT ![d] = @ + 1]
  /\ UNCHANGED <<logging, queueVars, condVars, shovels, orderCounter, order,
                 clientVars, endVars>>

DeliveryStep(d) ==
  \/ Break(d) \/ WaitDelivery(d) \/ TakeDelivery(d) \/ Deliver(d)
  \/ CountDelivery(d)

-----------------------------------------------------------------------------
(* handleSigInt of the server.                                             *)
Sigint ==
  /\ "sigint server" \in Faults /\ NoSigintYet
  /\ Step(Handler, "idle", "setStop")
  /\ UNCHANGED <<logging, queueVars, condVars, shovels, orderCounter,
                 deliveredCount, order, clientVars, endVars>>

(* What it prints before is left out.                                      *)
SetStop ==
  /\ Step(Handler, "setStop", "log") /\ ~logging
  /\ stop' = TRUE
  /\ UNCHANGED <<logging, queueVars, condVars, shovels, orderCounter,
                 deliveredCount, order, clientVars, status>>

(* serverLog, with the lock it needs, and exit.                            *)
Exit ==
  /\ Step(Handler, "log", "exited") /\ ~logging
  /\ status' = "exited"
  /\ UNCHANGED <<logging, queueVars, condVars, shovels, orderCounter,
                 deliveredCount, order, clientVars, stop>>

HandlerStep == SetStop \/ Exit

(* The shop has nothing to do, or has closed.                              *)
Quiet == \/ status = "exited"
         \/ \A c \in Clients :
              client[c] \in {"served", "gone", "cancelled", "failed",
                             "unconnected"}

Next ==
  \/ \E c \in Clients : ClientStep(c) \/ ManagerStep(c)
  \/ CancelAll \/ MainStep
  \/ \E k \in Cooks : CookStep(k)
  \/ \E d \in Deliverers : DeliveryStep(d)
  \/ Sigint \/ HandlerStep
  \/ Quiet /\ UNCHANGED vars

Spec == Init /\ [][Next]_vars

(* Clients that started go on, and so does every thread that can run.      *)
Fairness ==
  /\ \A c \in Clients : WF_vars(ClientStep(c)) /\ WF_vars(ManagerStep(c))
  /\ WF_vars(MainStep) /\ WF_vars(HandlerStep)
  /\ \A k \in Cooks : WF_vars(CookStep(k))
  /\ \A d \in Deliverers : WF_vars(DeliveryStep(d))

FairSpec == Spec /\ Fairness

-----------------------------------------------------------------------------
(* Correctness.                                                            *)

Labels == {"none", "accept", "idle", "signal", "lock", "log", "recv",
           "storeID", "push", "ended", "take", "shovel", "oven",
           "signalShovel", "ready", "signalDelivery", "send", "count",
           "setStop", "exited"}
Workers == Clients \cup Cooks \cup Deliverers
Slots == 0 .. MaxOrders - 1
AnyOrder == Orders \cup {NoOrder}

(* The variables hold values of their C types; a thread that waits on a    *)
(* condition is at the loop that waits on it.                              *)
TypeOK ==
  /\ pc \in [Threads -> Labels] /\ logging \in BOOLEAN
  /\ orderQueue \in [Slots -> AnyOrder] /\ orderCount \in Int
  /\ deliveryQueue \in [Slots -> AnyOrder] /\ deliveryCount \in Int
  /\ isOrderAvailable \subseteq {k \in Cooks : pc[k] = "take"}
  /\ isDeliveryReady \subseteq {d \in Deliverers : pc[d] = "take"}
  /\ isShovelAvailable \subseteq {k \in Cooks : pc[k] = "shovel"}
  /\ shovels \in Int /\ orderCounter \in Nat
  /\ deliveredCount \in [Deliverers -> Nat] /\ stop \in BOOLEAN
  /\ order \in [Workers -> AnyOrder]
  /\ client \in [Clients -> {"away", "connected", "waiting", "served",
                             "failed", "gone", "cancelled", "unconnected"}]
  /\ inbox \in [Clients -> SUBSET {"order", "cancel"}]
  /\ replies \in [Clients -> Seq(AnyOrder)]
  /\ status \in {"running", "exited"}

(* Where an order may be: the hands of a thread, a slot of a queue that    *)
(* is in use, or a reply, with the status it has there.                    *)
Pending == 0 .. orderCount - 1
Done == 0 .. deliveryCount - 1
Places(c) ==
  {<<"thread", t>> : t \in {u \in Workers : order[u].clientSocket = c}}
  \cup {<<"pending", i>> :
          i \in {j \in Pending : orderQueue[j].clientSocket = c}}
  \cup {<<"done", i>> : i \in {j \in Done : deliveryQueue[j].clientSocket = c}}
  \cup {<<"reply", i>> : i \in DOMAIN replies[c]}

(* Every client has its order in one place at most: no two cooks prepare   *)
(* it, no two threads deliver it, it is never lost between two queues once *)
(* its manager received it, and it is answered once, on its own socket.    *)
OrderInOnePlace ==
  \A c \in Clients :
    /\ Cardinality(Places(c)) = IF pc[c] \in {"none", "recv"} THEN 0
                                ELSE IF client[c] = "failed" THEN 0 ELSE 1
    /\ \A i \in DOMAIN replies[c] : replies[c][i].clientSocket = c

(* A cook puts a pide in the oven with a shovel nobody else has: shovels   *)
(* is what is left of SHOVEL_COUNT.                                        *)
InOven == {k \in Cooks : pc[k] = "oven"}
ShovelsConserved == shovels >= 0 /\ shovels + Cardinality(InOven) = ShovelCount

(* No wakeup is lost, although every signal is sent after the unlock, and  *)
(* others may test and wait in between.  As long as a cook waits for       *)
(* orders, there are as many cooks about to take one, and managers about   *)
(* to signal, as there are orders; the same for delivery threads and the   *)
(* orders that are ready, and for cooks and shovels.  Once stop is set     *)
(* threads leave instead of taking.                                        *)
Awake(pool, waiting, at) == {t \in pool \ waiting : pc[t] = at}
Signalling(pool, at) == {t \in pool : pc[t] = at}
NoWakeupLost ==
  /\ isOrderAvailable # {} /\ ~stop =>
       orderCount <= Cardinality(Awake(Cooks, isOrderAvailable, "take"))
                     + Cardinality(Signalling(Clients, "signal"))
  /\ isDeliveryReady # {} /\ ~stop =>
       deliveryCount <= Cardinality(Awake(Deliverers, isDeliveryReady, "take"))
                        + Cardinality(Signalling(Cooks, "signalDelivery"))
  /\ isShovelAvailable # {} =>
       shovels <= Cardinality(Awake(Cooks, isShovelAvailable, "shovel"))
                  + Cardinality(Signalling(Cooks, "signalShovel"))

(* What the shop does with an order, read off its state.                   *)
Stage(k) == CASE pc[k] = "shovel" -> "cooking"
              [] pc[k] = "oven" -> "baking"
              [] OTHER -> "baked"
StageOf(c) ==
  CASE replies[c] # <<>> -> "delivered"
    [] \E d \in Deliverers : order[d].clientSocket = c -> "delivering"
    [] \E i \in Done : deliveryQueue[i].clientSocket = c -> "ready"
    [] \E k \in Cooks : order[k].clientSocket = c ->
         Stage(CHOOSE k \in Cooks : order[k].clientSocket = c)
    [] \E i \in Pending : orderQueue[i].clientSocket = c -> "pending"
    [] order[c] # NoOrder -> "received"
    [] OTHER -> "none"
Life == [c \in Clients |-> StageOf(c)]

Shop == INSTANCE OrderLife WITH
          life <- Life, CookCount <- Cardinality(Cooks)

(* The shop implements the life of an order: every order goes through all  *)
(* the stages in turn, with as many orders in the kitchen as there are     *)
(* cooks, in the oven as there are shovels, and on the way as there are    *)
(* delivery threads.                                                       *)
ImplementsOrderLife == Shop!Spec

(* Every order that was sent is answered: again and again nobody waits     *)
(* without an answer, so that no order, and no wakeup on its way, is lost. *)
EveryOrderAnswered ==
  []<>(\A c \in Clients : client[c] = "waiting" => replies[c] # <<>>)

(* "Exit the process": handleSigInt comes to its exit.  That is not so:    *)
(* orderQueueMutex may be held by main, which it has interrupted.          *)
SigintExits == pc[Handler] # "idle" ~> status = "exited"
=============================================================================
