----------------------------- MODULE Admission -----------------------------
(***************************************************************************)
(* How the file server of Midterm admits clients.  The parent process of   *)
(* server.c reads connection requests from the server FIFO, answers each   *)
(* through the client's own FIFO (clientFIFO<pid>WR), forks a session for  *)
(* it or puts it in a queue when globalMaxClients sessions are counted.    *)
(* When a session ends, SIGCHLD makes the same process run sigChldHandler, *)
(* at any point of the above, which admits the first client of the queue.  *)
(* The clients of client.c take turns with serverSemaphore.                *)
(*                                                                         *)
(* A session inherits the handler and a copy of the queue: when a process  *)
(* it started ends, it admits the first client of its copy (fault          *)
(* "archive": archServer, the one request that starts a process).  What    *)
(* else a session does is not modelled here: it ends when its client       *)
(* quits.  sa_flags is not initialised, so that whether SIGCHLD interrupts *)
(* an open of the parent is left open (fault "eintr"); SA_NODEFER is taken *)
(* to be clear.                                                            *)
(***************************************************************************)
EXTENDS Integers, Sequences, FiniteSets

CONSTANTS
  Clients,           \* client processes
  TryClients,        \* those that were started with tryConnect
  globalMaxClients,  \* argv[2]
  NoClient,          \* no client
  Faults             \* what may go wrong, of FaultKinds

FaultKinds == {"eintr", "fork", "sigterm", "archive"}
ASSUME ClientsAssumption ==
  /\ IsFiniteSet(Clients) /\ TryClients \subseteq Clients
  /\ NoClient \notin Clients
ASSUME MaxAssumption == globalMaxClients \in Nat \ {0}
ASSUME FaultsAssumption == Faults \subseteq FaultKinds
ASSUME NamesDistinct == {"parent", "handler"} \cap Clients = {}

(* The responses: "try again later", "wait for an empty spot", admitted.   *)
Responses == {"later", "wait", "welcome"}

VARIABLES
  client,              \* client[c]: what client c does next
  got,                 \* got[c]: responses c has read
  serverSemaphore,
  requests,            \* the server FIFO: clients, in the order they wrote
  data,                \* data[c]: responses in the FIFO of c, unread
  reader,              \* reader[c]: c has its FIFO open
  writers,             \* writers[c]: processes that have the FIFO of c open
  parent, serving, response, loaded,  \* control and locals of the parent
  handler, admitting,  \* control and local of sigChldHandler
  globalNumOfClients,
  clientQueue, size,   \* what head leads to, and clientQueue->size
  session,             \* session[c], of the parent: "none", "live", "ended"
  copy,                \* copy[c]: the queue as the session of c has it
  adopted,             \* adopted[c]: sessions of c forked by other sessions:
                       \* "none", "live" (at least one), "over"
  sigchld,             \* SIGCHLD is pending
  up,                  \* the parent process exists
  dropped              \* clients the server gave up on, after a perror

fifoVars == <<data, reader, writers>>
parentVars == <<parent, serving, response, loaded>>
handlerVars == <<handler, admitting>>
tableVars == <<globalNumOfClients, clientQueue, size>>
vars == <<client, got, serverSemaphore, requests, fifoVars, parentVars,
          handlerVars, tableVars, session, copy, adopted, sigchld, up,
          dropped>>

Live == {c \in Clients : session[c] = "live"}
Adopted == {c \in Clients : adopted[c] = "live"}

(* The copy of a session that can admit nobody.                            *)
NoCopy == [queue |-> <<>>, size |-> 0, archived |-> FALSE]

Init ==
  /\ client = [c \in Clients |-> "semWait"]
  /\ got = [c \in Clients |-> <<>>]
  /\ serverSemaphore = 1 /\ requests = <<>>
  /\ data = [c \in Clients |-> <<>>]
  /\ reader = [c \in Clients |-> FALSE]
  /\ writers = [c \in Clients |-> {}]
  /\ parent = "read" /\ serving = NoClient /\ response = "later"
  /\ loaded = 0
  /\ handler = "idle" /\ admitting = NoClient
  /\ globalNumOfClients = 0 /\ clientQueue = <<>> /\ size = 0
  /\ session = [c \in Clients |-> "none"]
  /\ copy = [c \in Clients |-> NoCopy]
  /\ adopted = [c \in Clients |-> "none"]
  /\ sigchld = FALSE /\ up = TRUE /\ dropped = {}

-----------------------------------------------------------------------------
(* The FIFOs.  The kernel drops what is in a FIFO nobody has open.         *)
Fifos(newReader, newWriters) ==
  /\ reader' = newReader /\ writers' = newWriters
  /\ data' = [c \in Clients |->
                IF newReader[c] \/ newWriters[c] # {} THEN data[c] ELSE <<>>]

OpenForWriting(p, c) ==
  /\ reader[c]
  /\ writers' = [writers EXCEPT ![c] = @ \cup {p}]
  /\ UNCHANGED <<reader, data>>

(* Writing to a FIFO without a reader is SIGPIPE, which ends the process.  *)
WriteTo(c, r) ==
  /\ up' = reader[c]
  /\ data' = IF reader[c] THEN [data EXCEPT ![c] = Append(@, r)] ELSE data
  /\ UNCHANGED <<reader, writers>>

-----------------------------------------------------------------------------
(* The clients: makeConnectionRequest.                                     *)
ClientMove(c, from, to) ==
  /\ client[c] = from /\ client' = [client EXCEPT ![c] = to]
  /\ UNCHANGED <<parentVars, handlerVars, tableVars, session, copy, adopted,
                 sigchld, up, dropped>>

SemWait(c) ==
  /\ ClientMove(c, "semWait", "send")
  /\ serverSemaphore > 0 /\ serverSemaphore' = serverSemaphore - 1
  /\ UNCHANGED <<got, requests, fifoVars>>

Send(c) ==
  /\ ClientMove(c, "send", "open") /\ requests' = Append(requests, c)
  /\ UNCHANGED <<got, serverSemaphore, fifoVars>>

(* open counts c as a reader at once and returns when there is a writer.   *)
Open(c) ==
  /\ ClientMove(c, "open", "read")
  /\ Fifos([reader EXCEPT ![c] = TRUE], writers)
  /\ UNCHANGED <<got, serverSemaphore, requests>>

ReadResponse(c) ==
  /\ data[c] # <<>>
  /\ got' = [got EXCEPT ![c] = Append(@, Head(data[c]))]
  /\ data' = [data EXCEPT ![c] = Tail(@)]
  /\ UNCHANGED <<reader, writers, serverSemaphore, requests>>

Read(c) == ClientMove(c, "read", "close") /\ ReadResponse(c)

(* Told to try later, the client exits in cleanFIFOs, before its sem_post. *)
Close(c) ==
  /\ ClientMove(c, "close", IF got[c] = <<"later">> THEN "refused" ELSE "post")
  /\ Fifos([reader EXCEPT ![c] = FALSE], writers)
  /\ UNCHANGED <<got, serverSemaphore, requests>>

Post(c) ==
  /\ ClientMove(c, "post",
                IF got[c] = <<"wait">> THEN "reopen" ELSE "connected")
  /\ serverSemaphore' = serverSemaphore + 1
  /\ UNCHANGED <<got, requests, fifoVars>>

(* The second open and read of a client that waits for an empty spot.      *)
Reopen(c) ==
  /\ ClientMove(c, "reopen", IF writers[c] = {} THEN "opening" ELSE "reread")
  /\ Fifos([reader EXCEPT ![c] = TRUE], writers)
  /\ UNCHANGED <<got, serverSemaphore, requests>>

Opened(c) ==
  /\ writers[c] # {} \/ data[c] # <<>>
  /\ ClientMove(c, "opening", "reread")
  /\ UNCHANGED <<got, serverSemaphore, requests, fifoVars>>

Reread(c) == ClientMove(c, "reread", "connected") /\ ReadResponse(c)

(* read returns 0, which the client takes for an answer.                   *)
RereadEOF(c) ==
  /\ data[c] = <<>> /\ writers[c] = {}
  /\ ClientMove(c, "reread", "connected")
  /\ UNCHANGED <<got, serverSemaphore, requests, fifoVars>>

(* sigTermHandler: the client removes its FIFOs and exits.                 *)
Sigterm(c) ==
  /\ "sigterm" \in Faults
  /\ client[c] \notin {"refused", "quit", "killed"}
  /\ ClientMove(c, client[c], "killed")
  /\ Fifos([reader EXCEPT ![c] = FALSE], writers)
  /\ UNCHANGED <<got, serverSemaphore, requests>>

ClientStep(c) ==
  /\ up
  /\ \/ SemWait(c) \/ Send(c) \/ Open(c) \/ Read(c) \/ Close(c) \/ Post(c)
     \/ Reopen(c) \/ Opened(c) \/ Reread(c) \/ RereadEOF(c)

Leaves(c) ==
  /\ client[c] \in {"connected", "killed", "quit"}
  /\ client' = [client EXCEPT ![c] = IF @ = "killed" THEN @ ELSE "quit"]

(* A session ends when it reads QUIT, or when its client is gone and it    *)
(* does not find the FIFO any more.  SIGCHLD is pending once, however many *)
(* sessions have ended.                                                    *)
SessionEnds(c) ==
  /\ up /\ session[c] = "live" /\ Leaves(c)
  /\ session' = [session EXCEPT ![c] = "ended"]
  /\ copy' = [copy EXCEPT ![c] = NoCopy]
  /\ sigchld' = TRUE
  /\ Fifos([reader EXCEPT ![c] = FALSE],
           [d \in Clients |-> writers[d] \ {c}])
  /\ UNCHANGED <<got, serverSemaphore, requests, parentVars, handlerVars,
                 tableVars, adopted, up, dropped>>

-----------------------------------------------------------------------------
(* sigChldHandler in the session of c, or in the child it forked for       *)
(* archServer, which has the same copy: open, write, close and fork.       *)
SessionMove(c) ==
  /\ "archive" \in Faults /\ up /\ session[c] = "live"
  /\ UNCHANGED <<client, got, serverSemaphore, requests, reader, writers,
                 parentVars, handlerVars, tableVars, up>>

(* Mutant: the session is left to the process whose queue it was.          *)
AdmitFromUnforked(s) ==
  /\ reader[Head(s)] /\ data' = [data EXCEPT ![Head(s)] = Append(@, "welcome")]
  /\ UNCHANGED <<adopted, dropped>>

AdmitFrom(s) ==
  LET d == Head(s)
  IN  \/ /\ reader[d] /\ data' = [data EXCEPT ![d] = Append(@, "welcome")]
         /\ \/ /\ adopted' = [adopted EXCEPT ![d] = "live"]
               /\ UNCHANGED dropped
            \/ /\ "fork" \in Faults /\ dropped' = dropped \cup {d}
               /\ adopted' = [adopted EXCEPT ![d] =
                                IF @ = "live" THEN @ ELSE "over"]
      \/ /\ client[d] \in {"killed", "quit"}
         /\ UNCHANGED <<data, adopted, dropped>>

(* tar has ended: SIGCHLD for the child.                                   *)
ArchiveAdmits(c) ==
  /\ SessionMove(c) /\ client[c] = "connected"
  /\ copy[c].size > 0 /\ copy[c].queue # <<>> /\ ~copy[c].archived
  /\ AdmitFrom(copy[c].queue)
  /\ copy' = [copy EXCEPT ![c].archived = TRUE]
  /\ UNCHANGED <<session, sigchld>>

(* That child has ended, or a session this one forked.                     *)
SessionAdmits(c) ==
  /\ SessionMove(c) /\ copy[c].size > 0 /\ copy[c].queue # <<>>
  /\ AdmitFrom(copy[c].queue)
  /\ copy' = [copy EXCEPT ![c] = [queue |-> Tail(@.queue), size |-> @.size - 1,
                                  archived |-> FALSE]]
  /\ UNCHANGED <<session, sigchld>>

(* size says there is a client and head is NULL: dequeueClient ends the    *)
(* session.                                                                *)
SessionCrashes(c) ==
  /\ SessionMove(c) /\ copy[c].size > 0 /\ copy[c].queue = <<>>
  /\ session' = [session EXCEPT ![c] = "ended"]
  /\ copy' = [copy EXCEPT ![c] = NoCopy]
  /\ sigchld' = TRUE
  /\ UNCHANGED <<data, adopted, dropped>>

(* Its parent is the session that forked it, if that is still there.       *)
AdoptedEnds(d) ==
  /\ up /\ adopted[d] = "live" /\ Leaves(d)
  /\ adopted' = [adopted EXCEPT ![d] = "over"]
  /\ Fifos([reader EXCEPT ![d] = FALSE], writers)
  /\ UNCHANGED <<got, serverSemaphore, requests, parentVars, handlerVars,
                 tableVars, session, copy, sigchld, up, dropped>>

SessionStep(c) ==
  \/ SessionEnds(c) \/ ArchiveAdmits(c) \/ SessionAdmits(c)
  \/ SessionCrashes(c) \/ AdoptedEnds(c)

-----------------------------------------------------------------------------
(* The parent: handleClientRequest.  It stands still while sigChldHandler  *)
(* runs.                                                                   *)
ParentMove(from, to) ==
  /\ up /\ handler = "idle" /\ parent = from /\ parent' = to
  /\ UNCHANGED <<client, got, handlerVars, adopted, sigchld>>

(* Mutant: a spot too many.                                                *)
FullLax == globalNumOfClients > globalMaxClients

Full == globalNumOfClients >= globalMaxClients

ReadRequest ==
  /\ ParentMove("read", "open")
  /\ requests # <<>> /\ requests' = Tail(requests)
  /\ serving' = Head(requests)
  /\ response' = IF ~Full THEN "welcome"
                 ELSE IF Head(requests) \in TryClients THEN "later" ELSE "wait"
  /\ UNCHANGED <<serverSemaphore, fifoVars, loaded, tableVars, session, copy,
                 up, dropped>>

OpenResponse ==
  /\ ParentMove("open", "write") /\ OpenForWriting("parent", serving)
  /\ UNCHANGED <<serverSemaphore, requests, serving, response, loaded,
                 tableVars, session, copy, up, dropped>>

(* The FIFO is gone with its client; no sem_post on this way out.          *)
OpenResponseFails ==
  /\ ParentMove("open", "read") /\ client[serving] = "killed"
  /\ dropped' = dropped \cup {serving}
  /\ UNCHANGED <<serverSemaphore, requests, fifoVars, serving, response,
                 loaded, tableVars, session, copy, up>>

WriteResponse ==
  /\ ParentMove("write", "close") /\ WriteTo(serving, response)
  /\ UNCHANGED <<serverSemaphore, requests, serving, response, loaded,
                 tableVars, session, copy, dropped>>

CloseResponse ==
  /\ ParentMove("close", IF response = "welcome" THEN "fork" ELSE "semPost")
  /\ Fifos(reader, [writers EXCEPT ![serving] = @ \ {"parent"}])
  /\ UNCHANGED <<serverSemaphore, requests, serving, response, loaded,
                 tableVars, session, copy, up, dropped>>

(* Mutant: it is the client's business to post.                            *)
SemPostNot ==
  /\ ParentMove("semPost", IF response = "wait" THEN "enqueue" ELSE "read")
  /\ UNCHANGED <<serverSemaphore, requests, fifoVars, serving, response,
                 loaded, tableVars, session, copy, up, dropped>>

(* For the client that exits without one, but also for one that does not.  *)
SemPost ==
  /\ ParentMove("semPost", IF response = "wait" THEN "enqueue" ELSE "read")
  /\ serverSemaphore' = serverSemaphore + 1
  /\ UNCHANGED <<requests, fifoVars, serving, response, loaded, tableVars,
                 session, copy, up, dropped>>

(* enqueueClient, whose steps sigChldHandler may come between.  The test of *)
(* size picks the branch.                                                  *)
EnqueueMove(from, to) ==
  /\ ParentMove(from, to)
  /\ UNCHANGED <<serverSemaphore, requests, fifoVars, serving, response,
                 globalNumOfClients, session, copy, up, dropped>>

TestSize ==
  /\ EnqueueMove("enqueue", IF size = 0 THEN "first" ELSE "append")
  /\ UNCHANGED <<loaded, clientQueue, size>>

FirstClient ==
  /\ EnqueueMove("first", "loadSize") /\ clientQueue' = <<serving>>
  /\ UNCHANGED <<loaded, size>>

(* tail->next: when the element at tail was dequeued and freed meanwhile,  *)
(* head does not lead to the new one.                                      *)
AppendClient ==
  /\ EnqueueMove("append", "loadSize")
  /\ clientQueue' = IF clientQueue = <<>> THEN <<>>
                    ELSE Append(clientQueue, serving)
  /\ UNCHANGED <<loaded, size>>

(* size++                                                                  *)
LoadSize ==
  /\ EnqueueMove("loadSize", "storeSize") /\ loaded' = size
  /\ UNCHANGED <<clientQueue, size>>

(* Mutant: the stale value is stored.                                      *)
StoreSizeStale ==
  /\ EnqueueMove("storeSize", "read") /\ size' = loaded
  /\ UNCHANGED <<loaded, clientQueue>>

StoreSize ==
  /\ EnqueueMove("storeSize", "read") /\ size' = loaded + 1
  /\ UNCHANGED <<loaded, clientQueue>>

EnqueueClient ==
  TestSize \/ FirstClient \/ AppendClient \/ LoadSize \/ StoreSize

(* The child has a copy of everything.  In a child that was forked inside  *)
(* the handler SIGCHLD stays blocked (HandlerFork).                        *)
Fork ==
  /\ ParentMove("fork", "load")
  /\ session' = [session EXCEPT ![serving] = "live"]
  /\ copy' = [copy EXCEPT ![serving] =
                [queue |-> clientQueue, size |-> size, archived |-> FALSE]]
  /\ UNCHANGED <<serverSemaphore, requests, fifoVars, serving, response,
                 loaded, tableVars, up, dropped>>

ForkFails ==
  /\ "fork" \in Faults /\ ParentMove("fork", "read")
  /\ dropped' = dropped \cup {serving}
  /\ UNCHANGED <<serverSemaphore, requests, fifoVars, serving, response,
                 loaded, tableVars, session, copy, up>>

(* globalNumOfClients++, which sigChldHandler may interrupt.               *)
LoadCount ==
  /\ ParentMove("load", "store") /\ loaded' = globalNumOfClients
  /\ UNCHANGED <<serverSemaphore, requests, fifoVars, serving, response,
                 tableVars, session, copy, up, dropped>>

(* Mutant: the stale value is stored.                                      *)
StoreStale ==
  /\ ParentMove("store", "read") /\ globalNumOfClients' = loaded
  /\ UNCHANGED <<serverSemaphore, requests, fifoVars, serving, response,
                 loaded, clientQueue, size, session, copy, up,
                 dropped>>

StoreCount ==
  /\ ParentMove("store", "read") /\ globalNumOfClients' = loaded + 1
  /\ UNCHANGED <<serverSemaphore, requests, fifoVars, serving, response,
                 loaded, clientQueue, size, session, copy, up,
                 dropped>>

ParentStep ==
  \/ ReadRequest \/ OpenResponse \/ OpenResponseFails \/ WriteResponse
  \/ CloseResponse \/ SemPost \/ EnqueueClient \/ Fork \/ ForkFails
  \/ LoadCount \/ StoreCount

-----------------------------------------------------------------------------
(* sigChldHandler.  It interrupts the parent's open when it is blocked.    *)
Interrupted ==
  \/ UNCHANGED <<parentVars, dropped>>
  \/ /\ "eintr" \in Faults
     /\ parent = "open" /\ ~reader[serving]
     /\ parent' = "read" /\ dropped' = dropped \cup {serving}
     /\ UNCHANGED <<serving, response, loaded>>

(* Mutant: the head stays in the queue.                                    *)
Peek ==
  /\ UNCHANGED <<clientQueue, size, up>>
  /\ IF clientQueue = <<>> THEN UNCHANGED <<handler, admitting>>
     ELSE handler' = "open" /\ admitting' = Head(clientQueue)

(* When size says there is a client, but head is NULL, dequeueClient ends  *)
(* the process.                                                            *)
Dequeue ==
  \/ /\ size <= 0
     /\ UNCHANGED <<handler, admitting, clientQueue, size, up>>
  \/ /\ size > 0 /\ clientQueue # <<>>
     /\ handler' = "open" /\ admitting' = Head(clientQueue)
     /\ clientQueue' = Tail(clientQueue) /\ size' = size - 1
     /\ UNCHANGED up
  \/ /\ size > 0 /\ clientQueue = <<>>
     /\ up' = FALSE
     /\ UNCHANGED <<handler, admitting, clientQueue, size>>

TakeSignal ==
  /\ up /\ sigchld /\ handler = "idle"
  /\ sigchld' = FALSE
  /\ globalNumOfClients' = globalNumOfClients - 1
  /\ Dequeue /\ Interrupted
  /\ UNCHANGED <<client, got, serverSemaphore, requests, fifoVars, session,
                 copy, adopted>>

HandlerMove(from, to) ==
  /\ up /\ handler = from /\ handler' = to
  /\ UNCHANGED <<client, got, serverSemaphore, requests, parentVars,
                 admitting, clientQueue, size, copy, adopted, sigchld>>

HandlerOpen ==
  /\ HandlerMove("open", "write") /\ OpenForWriting("handler", admitting)
  /\ UNCHANGED <<globalNumOfClients, session, up, dropped>>

HandlerOpenFails ==
  /\ HandlerMove("open", "idle")
  /\ client[admitting] \in {"killed", "quit"}
  /\ dropped' = dropped \cup {admitting}
  /\ UNCHANGED <<fifoVars, globalNumOfClients, session, up>>

HandlerWrite ==
  /\ HandlerMove("write", "fork") /\ WriteTo(admitting, "welcome")
  /\ UNCHANGED <<globalNumOfClients, session, dropped>>

HandlerCloses == [writers EXCEPT ![admitting] = @ \ {"handler"}]

(* close, fork and ++.  The session inherits every FIFO the interrupted    *)
(* parent has open.                                                        *)
HandlerFork ==
  /\ HandlerMove("fork", "idle")
  /\ session' = [session EXCEPT ![admitting] = "live"]
  /\ globalNumOfClients' = globalNumOfClients + 1
  /\ Fifos(reader, [c \in Clients |->
                      IF "parent" \in writers[c]
                      THEN HandlerCloses[c] \cup {admitting}
                      ELSE HandlerCloses[c]])
  /\ UNCHANGED <<up, dropped>>

HandlerForkFails ==
  /\ "fork" \in Faults /\ HandlerMove("fork", "idle")
  /\ dropped' = dropped \cup {admitting}
  /\ Fifos(reader, HandlerCloses)
  /\ UNCHANGED <<globalNumOfClients, session, up>>

HandlerStep ==
  \/ TakeSignal \/ HandlerOpen \/ HandlerOpenFails \/ HandlerWrite
  \/ HandlerFork \/ HandlerForkFails

Next ==
  \/ \E c \in Clients : ClientStep(c) \/ SessionStep(c) \/ (up /\ Sigterm(c))
  \/ ParentStep \/ HandlerStep

Spec == Init /\ [][Next]_vars

(* Every process that can run does; users need not quit, nothing has to    *)
(* fail.                                                                   *)
FairSpec ==
  /\ Spec /\ WF_vars(ParentStep) /\ WF_vars(HandlerStep)
  /\ \A c \in Clients : WF_vars(ClientStep(c))
-----------------------------------------------------------------------------
ClientStates ==
  {"semWait", "send", "open", "read", "close", "post", "reopen", "opening",
   "reread", "connected", "refused", "quit", "killed"}

(* The type invariant; the count is never above its maximum, and below 0   *)
(* only while the session of a client is not counted yet.                  *)
TypeOK ==
  /\ client \in [Clients -> ClientStates]
  /\ got \in [Clients -> Seq(Responses)]
  /\ serverSemaphore \in Nat /\ requests \in Seq(Clients)
  /\ data \in [Clients -> Seq(Responses)]
  /\ reader \in [Clients -> BOOLEAN]
  /\ writers \in [Clients -> SUBSET ({"parent", "handler"} \cup Clients)]
  /\ parent \in {"read", "open", "write", "close", "fork", "load", "store",
                 "semPost", "enqueue", "first", "append", "loadSize",
                 "storeSize"}
  /\ parent # "read" => serving \in Clients
  /\ response \in Responses /\ loaded \in Int
  /\ handler \in {"idle", "open", "write", "fork"}
  /\ handler # "idle" => admitting \in Clients
  /\ globalNumOfClients \in Int /\ globalNumOfClients <= globalMaxClients
  /\ clientQueue \in Seq(Clients \ TryClients) /\ size \in Int
  /\ session \in [Clients -> {"none", "live", "ended"}]
  /\ copy \in [Clients -> [queue : Seq(Clients \ TryClients), size : Int,
                           archived : BOOLEAN]]
  /\ adopted \in [Clients -> {"none", "live", "over"}]
  /\ sigchld \in BOOLEAN /\ up \in BOOLEAN /\ dropped \subseteq Clients

(* The parent, its loop and its handler, never has more than               *)
(* globalMaxClients sessions of its own, although the count is tested long *)
(* before it is raised, sigChldHandler admits clients in between, and      *)
(* decrements of the count get lost.  Those that sessions admit from their *)
(* copies of the queue come on top (MaximumOfClients).                     *)
NeverOverfull == Cardinality(Live) <= globalMaxClients

(* "maximum number of clients", of all sessions.  This is what the comment *)
(* says of globalMaxClients, and false of the code.                        *)
MaximumOfClients ==
  Cardinality(Live) + Cardinality(Adopted) <= globalMaxClients

(* Who is in the queue of the parent is there once, and has no session     *)
(* from the parent nor is about to get one; it was told to wait, and       *)
(* nothing else, unless another session has admitted it from its copy.     *)
QueuedOnce ==
  \A i \in DOMAIN clientQueue :
    LET c == clientQueue[i]
    IN  /\ \A j \in DOMAIN clientQueue : clientQueue[j] = c => i = j
        /\ session[c] = "none" /\ (handler # "idle" => admitting # c)
        /\ client[c] # "killed" /\ adopted[c] = "none" =>
             got[c] = <<"wait">> \/ (got[c] = <<>> /\ data[c] = <<"wait">>)

(* No client is overlooked: whenever head leads to one, size tells the     *)
(* handler so, but for the moment at which the parent has linked the first *)
(* and has not counted it.  The converse is false: a handler that dequeues *)
(* while the parent appends leaves a size that is too large.               *)
NobodyOverlooked ==
  Len(clientQueue) <= size \/ parent \in {"loadSize", "storeSize"}

(* A client that reads that it is admitted has a session, of the parent or *)
(* of another session, or will have one as soon as the process that wrote  *)
(* the response goes on; else its fork failed.                             *)
WelcomeKept ==
  \A c \in Clients :
    \/ "welcome" \notin {got[c][i] : i \in DOMAIN got[c]}
    \/ session[c] # "none" \/ adopted[c] # "none" \/ c \in dropped
    \/ serving = c /\ parent \in {"close", "fork"}
    \/ admitting = c /\ handler = "fork"

(* serverSemaphore is never lost: whoever waits for it comes to ask and is *)
(* answered, unless a client was killed, the server gave up on one or was  *)
(* itself ended.                                                           *)
EveryClientAnswered ==
  <>(\/ \A c \in Clients : got[c] # <<>>
     \/ dropped # {} \/ ~up \/ \E c \in Clients : client[c] = "killed")

(* "Please wait for an empty spot": who was told so is admitted while      *)
(* there is one, unless somebody else is.  That is not so when the last    *)
(* session ends before the client is in the queue (293).                   *)
EmptySpotFound ==
  \A c \in Clients :
    client[c] \in {"reopen", "opening", "reread"} /\ Live = {} /\ up
      ~> client[c] = "connected" \/ Live # {} \/ ~up
=============================================================================
