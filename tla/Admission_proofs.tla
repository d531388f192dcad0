-------------------------- MODULE Admission_proofs --------------------------
(***************************************************************************)
(* The count of clients and the sessions there are, for any number of      *)
(* clients, any maximum and any faults.  The count is wrong most of the    *)
(* time: it lags behind the fork in the parent, ahead of the fork in the   *)
(* handler, coalesced signals and the interrupted ++ lose decrements.  The *)
(* invariant says in which direction it may be wrong (Inv).                *)
(*                                                                         *)
(* And where each client is: in the request FIFO, with the parent, in the  *)
(* queue, with the handler or through with all that, and only in one of    *)
(* these places; how far it has got itself, and what it has been told,     *)
(* agree with that (PlacesInv).                                            *)
(***************************************************************************)
EXTENDS Admission, FiniteSetTheorems, SequenceTheorems, TLAPS

(* What the parent does next fits the request and the response it serves.  *)
StagesOK ==
  /\ parent \in {"enqueue", "first", "append"} => response = "wait"
  /\ parent # "read" /\ response = "wait" => serving \notin TryClients

One(b) == IF b THEN 1 ELSE 0

(* A spot is set aside from the test of the count to the ++, and by the    *)
(* handler from its -- to its ++.                                          *)
Reserved ==
  \/ parent \in {"fork", "load"}
  \/ parent \in {"open", "write", "close"} /\ response = "welcome"

(* Every session the parent forked is counted, or is about to be, and so   *)
(* is the one that has raised the pending signal.                          *)
SessionsCounted ==
  Cardinality(Live) + One(sigchld)
    <= globalNumOfClients + One(parent \in {"load", "store"})

SpotsLeft ==
  /\ globalNumOfClients + One(handler # "idle") + One(Reserved)
       <= globalMaxClients
  /\ parent = "store" =>
       /\ globalNumOfClients + One(handler # "idle") <= loaded
       /\ loaded + 1 <= globalMaxClients

(* size is at least the length of the queue, and will be again once the    *)
(* parent has counted the client it has linked.                            *)
SizeCovers ==
  /\ parent = "first" => Len(clientQueue) = 0
  /\ parent = "loadSize" => Len(clientQueue) <= size + 1
  /\ parent = "storeSize" => Len(clientQueue) <= loaded + 1
  /\ parent \notin {"loadSize", "storeSize"} => Len(clientQueue) <= size

Inv == TypeOK /\ StagesOK /\ SessionsCounted /\ SpotsLeft /\ SizeCovers

-----------------------------------------------------------------------------
(* Live is finite, and its size changes by at most one.                    *)
LEMMA LiveCounts ==
  ASSUME NEW c \in Clients, TypeOK
  PROVE  /\ Cardinality(Live) \in Nat
         /\ session' = [session EXCEPT ![c] = "live"] =>
              Cardinality(Live') \in Nat
              /\ Cardinality(Live') <= Cardinality(Live) + 1
         /\ session[c] = "live" /\ session' = [session EXCEPT ![c] = "ended"]
              => Cardinality(Live') \in Nat
                 /\ Cardinality(Live') = Cardinality(Live) - 1
<1>1. IsFiniteSet(Live)
  <2>1. Live \in SUBSET Clients
    BY DEF Live
  <2> QED BY <2>1, ClientsAssumption, FS_Subset
<1>2. Cardinality(Live) \in Nat
  BY <1>1, FS_CardinalityType
<1>3. ASSUME session' = [session EXCEPT ![c] = "live"]
      PROVE  /\ Cardinality(Live') \in Nat
             /\ Cardinality(Live') <= Cardinality(Live) + 1
  <2>1. Live' = Live \cup {c}
    BY <1>3 DEF Live, TypeOK
  <2>2. /\ IsFiniteSet(Live \cup {c})
        /\ Cardinality(Live \cup {c}) <= Cardinality(Live) + 1
    <3>1. /\ IsFiniteSet(Live \cup {c})
          /\ Cardinality(Live \cup {c}) =
               IF c \in Live THEN Cardinality(Live) ELSE Cardinality(Live) + 1
      BY <1>1, FS_AddElement
    <3> QED BY <3>1, <1>2
  <2>3. Cardinality(Live \cup {c}) \in Nat
    BY <2>2, FS_CardinalityType
  <2> QED BY <2>1, <2>2, <2>3
<1>4. ASSUME session[c] = "live", session' = [session EXCEPT ![c] = "ended"]
      PROVE  /\ Cardinality(Live') \in Nat
             /\ Cardinality(Live') = Cardinality(Live) - 1
  <2>1. Live' = Live \ {c} /\ c \in Live
    BY <1>4 DEF Live, TypeOK
  <2>2. IsFiniteSet(Live \ {c})
        /\ Cardinality(Live \ {c}) = Cardinality(Live) - 1
    BY <2>1, <1>1, FS_RemoveElement
  <2>3. Cardinality(Live \ {c}) \in Nat
    BY <2>2, FS_CardinalityType
  <2> QED BY <2>1, <2>2, <2>3
<1> QED BY <1>2, <1>3, <1>4

LEMMA LiveSize == TypeOK => Cardinality(Live) \in Nat
<1> SUFFICES ASSUME TypeOK PROVE Cardinality(Live) \in Nat
  OBVIOUS
<1>1. Live \in SUBSET Clients
  BY DEF Live
<1> QED BY <1>1, ClientsAssumption, FS_Subset, FS_CardinalityType

(* Closing an end of a FIFO leaves well-formed FIFOs.                      *)
LEMMA FifosTyped ==
  ASSUME TypeOK,
         NEW r \in [Clients -> BOOLEAN],
         NEW w \in [Clients -> SUBSET ({"parent", "handler"} \cup Clients)],
         Fifos(r, w)
  PROVE  /\ reader' \in [Clients -> BOOLEAN]
         /\ writers' \in
              [Clients -> SUBSET ({"parent", "handler"} \cup Clients)]
         /\ data' \in [Clients -> Seq(Responses)]
  BY EmptySeq DEF Fifos, TypeOK

-----------------------------------------------------------------------------
LEMMA Initially == Init => Inv
<1> SUFFICES ASSUME Init PROVE Inv
  OBVIOUS
<1>1. Live = {}
  BY DEF Init, Live
<1>2. Cardinality(Live) = 0
  BY <1>1, FS_EmptySet
<1>3. TypeOK
  <2>1. /\ <<>> \in Seq(Clients) /\ <<>> \in Seq(Responses)
        /\ <<>> \in Seq(Clients \ TryClients)
    BY EmptySeq
  <2>2. /\ serverSemaphore \in Nat /\ loaded \in Int /\ size \in Int
        /\ globalNumOfClients \in Int
        /\ globalNumOfClients <= globalMaxClients
    BY MaxAssumption DEF Init
  <2>3. NoCopy \in [queue : Seq(Clients \ TryClients), size : Int,
                    archived : BOOLEAN]
    BY <2>1 DEF NoCopy
  <2> QED BY <2>1, <2>2, <2>3 DEF Init, TypeOK, ClientStates, Responses
<1>4. StagesOK /\ SessionsCounted /\ SpotsLeft
  BY <1>2, MaxAssumption
  DEF Init, StagesOK, SessionsCounted, SpotsLeft, One, Reserved
<1>5. SizeCovers
  BY DEF Init, SizeCovers
<1> QED BY <1>3, <1>4, <1>5 DEF Inv

(* What the steps of the clients leave alone is enough for the count.      *)
LEMMA CountUntouched ==
  ASSUME Inv,
         UNCHANGED <<parentVars, handlerVars, tableVars, session, sigchld>>
  PROVE  StagesOK' /\ SessionsCounted' /\ SpotsLeft' /\ SizeCovers'
  BY DEF Inv, StagesOK, SessionsCounted, SpotsLeft, SizeCovers, One, Reserved,
         Live, parentVars, handlerVars, tableVars

LEMMA ClientStepKeeps ==
  ASSUME Inv, NEW c \in Clients, ClientStep(c) \/ Sigterm(c)
  PROVE  Inv'
<1>1. UNCHANGED <<parentVars, handlerVars, tableVars, session, copy, adopted,
                  sigchld, up, dropped>>
  BY DEF ClientStep, SemWait, Send, Open, Read, Close, Post, Reopen, Opened,
         Reread, RereadEOF, Sigterm, ClientMove
<1>2. client' \in [Clients -> ClientStates]
  <2>1. client \in [Clients -> ClientStates]
    BY DEF Inv, TypeOK
  <2>2. PICK to \in ClientStates : client' = [client EXCEPT ![c] = to]
    BY DEF ClientStep, SemWait, Send, Open, Read, Close, Post, Reopen, Opened,
           Reread, RereadEOF, Sigterm, ClientMove, ClientStates
  <2> QED BY <2>1, <2>2
<1>3. /\ got' \in [Clients -> Seq(Responses)]
      /\ serverSemaphore' \in Nat /\ requests' \in Seq(Clients)
      /\ data' \in [Clients -> Seq(Responses)]
      /\ reader' \in [Clients -> BOOLEAN]
      /\ writers' \in [Clients -> SUBSET ({"parent", "handler"} \cup Clients)]
  <2> USE DEF Inv
  <2>1. CASE SemWait(c) \/ Send(c) \/ Post(c) \/ Opened(c) \/ RereadEOF(c)
    <3>1. requests \in Seq(Clients) => Append(requests, c) \in Seq(Clients)
      BY AppendProperties
    <3>2. CASE SemWait(c) \/ Post(c)
      BY <3>2 DEF TypeOK, SemWait, Post, fifoVars
    <3>3. CASE Send(c) \/ Opened(c) \/ RereadEOF(c)
      BY <3>1, <3>3 DEF TypeOK, Send, Opened, RereadEOF, fifoVars
    <3> QED BY <2>1, <3>2, <3>3
  <2>2. CASE ReadResponse(c)
    <3>1. /\ Head(data[c]) \in Responses /\ Tail(data[c]) \in Seq(Responses)
      BY <2>2, HeadTailProperties DEF ReadResponse, TypeOK
    <3>2. Append(got[c], Head(data[c])) \in Seq(Responses)
      BY <3>1, AppendProperties DEF TypeOK
    <3> QED BY <2>2, <3>1, <3>2 DEF ReadResponse, TypeOK
  <2>3. CASE Open(c) \/ Close(c) \/ Reopen(c) \/ Sigterm(c)
    <3>1. PICK b \in BOOLEAN : Fifos([reader EXCEPT ![c] = b], writers)
      BY <2>3 DEF Open, Close, Reopen, Sigterm
    <3>2. [reader EXCEPT ![c] = b] \in [Clients -> BOOLEAN]
      BY DEF TypeOK
    <3>3. UNCHANGED <<got, serverSemaphore, requests>>
      BY <2>3 DEF Open, Close, Reopen, Sigterm
    <3> HIDE DEF Inv
    <3>4. TypeOK
      BY DEF Inv
    <3>5. writers \in [Clients -> SUBSET ({"parent", "handler"} \cup Clients)]
      BY <3>4 DEF TypeOK
    <3> QED BY <3>1, <3>2, <3>3, <3>4, <3>5, FifosTyped DEF TypeOK
  <2> QED BY <2>1, <2>2, <2>3 DEF ClientStep, Read, Reread
<1>4. TypeOK'
  BY <1>1, <1>2, <1>3 DEF Inv, TypeOK, parentVars, handlerVars, tableVars
<1> QED BY <1>1, <1>4, CountUntouched DEF Inv

LEMMA SessionEndsKeeps ==
  ASSUME Inv, NEW c \in Clients, SessionEnds(c)
  PROVE  Inv'
<1>0. TypeOK
  BY DEF Inv
<1>1. /\ Cardinality(Live) \in Nat /\ Cardinality(Live') \in Nat
      /\ Cardinality(Live') = Cardinality(Live) - 1
  BY <1>0, LiveCounts DEF SessionEnds
<1>2. SessionsCounted'
  BY <1>0, <1>1
  DEF SessionEnds, Inv, SessionsCounted, One, TypeOK, parentVars, tableVars
<1>3. StagesOK' /\ SpotsLeft' /\ SizeCovers'
  BY DEF SessionEnds, Inv, StagesOK, SpotsLeft, SizeCovers, One, Reserved,
         parentVars, handlerVars, tableVars
<1>4. /\ reader' \in [Clients -> BOOLEAN]
      /\ writers' \in [Clients -> SUBSET ({"parent", "handler"} \cup Clients)]
      /\ data' \in [Clients -> Seq(Responses)]
  <2>1. [reader EXCEPT ![c] = FALSE] \in [Clients -> BOOLEAN]
    BY <1>0 DEF TypeOK
  <2>2. [d \in Clients |-> writers[d] \ {c}]
          \in [Clients -> SUBSET ({"parent", "handler"} \cup Clients)]
    BY <1>0 DEF TypeOK
  <2> QED BY <1>0, <2>1, <2>2, FifosTyped DEF SessionEnds
<1>5. /\ client' \in [Clients -> ClientStates]
      /\ copy' \in [Clients -> [queue : Seq(Clients \ TryClients), size : Int,
                               archived : BOOLEAN]]
  <2>1. NoCopy \in [queue : Seq(Clients \ TryClients), size : Int,
                    archived : BOOLEAN]
    BY EmptySeq DEF NoCopy
  <2> QED BY <1>0, <2>1 DEF SessionEnds, Leaves, TypeOK, ClientStates
<1>6. TypeOK'
  BY <1>0, <1>4, <1>5
  DEF SessionEnds, TypeOK, parentVars, handlerVars, tableVars
<1> QED BY <1>2, <1>3, <1>6 DEF Inv

(* dequeueClient in a session that has lost the head of its copy.          *)
LEMMA SessionCrashKeeps ==
  ASSUME Inv, NEW c \in Clients, SessionCrashes(c)
  PROVE  Inv'
<1>0. TypeOK
  BY DEF Inv
<1>1. /\ Cardinality(Live) \in Nat /\ Cardinality(Live') \in Nat
      /\ Cardinality(Live') = Cardinality(Live) - 1
  BY <1>0, LiveCounts DEF SessionCrashes, SessionMove
<1>2. SessionsCounted'
  BY <1>0, <1>1
  DEF SessionCrashes, SessionMove, Inv, SessionsCounted, One, TypeOK,
      parentVars, tableVars
<1>3. StagesOK' /\ SpotsLeft' /\ SizeCovers'
  BY DEF SessionCrashes, SessionMove, Inv, StagesOK, SpotsLeft, SizeCovers,
         One, Reserved, parentVars, handlerVars, tableVars
<1>4. TypeOK'
  <2>1. NoCopy \in [queue : Seq(Clients \ TryClients), size : Int,
                    archived : BOOLEAN]
    BY EmptySeq DEF NoCopy
  <2> QED BY <1>0, <2>1
          DEF SessionCrashes, SessionMove, TypeOK, parentVars, handlerVars,
              tableVars
<1> QED BY <1>2, <1>3, <1>4 DEF Inv

(* What sessions do on their own does not touch the state of the parent.   *)
LEMMA SessionAloneKeeps ==
  ASSUME Inv, NEW c \in Clients,
         ArchiveAdmits(c) \/ SessionAdmits(c) \/ AdoptedEnds(c)
  PROVE  Inv'
<1>0. TypeOK
  BY DEF Inv
<1>1. UNCHANGED <<parentVars, handlerVars, tableVars, session, sigchld, up,
                  got, serverSemaphore, requests>>
  BY DEF ArchiveAdmits, SessionAdmits, AdoptedEnds, SessionMove
<1>2. CASE ArchiveAdmits(c) \/ SessionAdmits(c)
  <2>1. /\ copy[c].queue \in Seq(Clients \ TryClients)
        /\ copy[c].queue # <<>> /\ copy[c].size \in Int
    BY <1>0, <1>2 DEF ArchiveAdmits, SessionAdmits, TypeOK
  <2>2. /\ Head(copy[c].queue) \in Clients
        /\ Tail(copy[c].queue) \in Seq(Clients \ TryClients)
    BY <2>1, HeadTailProperties
  <2>3. PICK d \in Clients : d = Head(copy[c].queue)
    BY <2>2
  <2>4. Append(data[d], "welcome") \in Seq(Responses)
    BY <1>0, AppendProperties DEF TypeOK, Responses
  <2>5. /\ data' \in [Clients -> Seq(Responses)]
        /\ adopted' \in [Clients -> {"none", "live", "over"}]
        /\ dropped' \subseteq Clients
    <3>1. AdmitFrom(copy[c].queue)
      BY <1>2 DEF ArchiveAdmits, SessionAdmits
    <3>2. CASE UNCHANGED <<data, adopted, dropped>>
      BY <1>0, <3>2 DEF TypeOK
    <3>3. CASE data' = [data EXCEPT ![d] = Append(@, "welcome")]
      <4>1. \/ /\ adopted' = [adopted EXCEPT ![d] = "live"]
               /\ UNCHANGED dropped
            \/ /\ dropped' = dropped \cup {d}
               /\ adopted' = [adopted EXCEPT ![d] =
                                IF @ = "live" THEN @ ELSE "over"]
            \/ UNCHANGED <<adopted, dropped>>
        BY <2>3, <3>1 DEF AdmitFrom
      <4> QED BY <1>0, <2>4, <3>3, <4>1 DEF TypeOK
    <3> QED BY <2>3, <3>1, <3>2, <3>3 DEF AdmitFrom
  <2>6. copy' \in [Clients -> [queue : Seq(Clients \ TryClients), size : Int,
                              archived : BOOLEAN]]
    <3>1. CASE ArchiveAdmits(c)
      BY <1>0, <3>1 DEF ArchiveAdmits, TypeOK
    <3>2. CASE SessionAdmits(c)
      <4> DEFINE q == [queue |-> Tail(copy[c].queue),
                       size |-> copy[c].size - 1, archived |-> FALSE]
      <4>1. q \in [queue : Seq(Clients \ TryClients), size : Int,
                   archived : BOOLEAN]
        BY <2>1, <2>2
      <4>2. copy' = [copy EXCEPT ![c] = q]
        BY <1>0, <3>2 DEF SessionAdmits, TypeOK
      <4> HIDE DEF q
      <4> QED BY <1>0, <4>1, <4>2 DEF TypeOK
    <3> QED BY <1>2, <3>1, <3>2
  <2>7. UNCHANGED <<client, reader, writers>>
    BY <1>2 DEF ArchiveAdmits, SessionAdmits, SessionMove
  <2>8. TypeOK'
    BY <1>0, <1>1, <2>5, <2>6, <2>7
    DEF TypeOK, parentVars, handlerVars, tableVars
  <2> QED BY <1>1, <2>8, CountUntouched DEF Inv
<1>3. CASE AdoptedEnds(c)
  <2>1. /\ reader' \in [Clients -> BOOLEAN]
        /\ writers' \in [Clients -> SUBSET ({"parent", "handler"} \cup Clients)]
        /\ data' \in [Clients -> Seq(Responses)]
    <3>1. [reader EXCEPT ![c] = FALSE] \in [Clients -> BOOLEAN]
      BY <1>0 DEF TypeOK
    <3>2. writers \in [Clients -> SUBSET ({"parent", "handler"} \cup Clients)]
      BY <1>0 DEF TypeOK
    <3> QED BY <1>0, <1>3, <3>1, <3>2, FifosTyped DEF AdoptedEnds
  <2>2. /\ client' \in [Clients -> ClientStates]
        /\ adopted' \in [Clients -> {"none", "live", "over"}]
        /\ UNCHANGED <<copy, dropped>>
    BY <1>0, <1>3 DEF AdoptedEnds, Leaves, TypeOK, ClientStates
  <2>3. TypeOK'
    BY <1>0, <1>1, <2>1, <2>2 DEF TypeOK, parentVars, handlerVars, tableVars
  <2> QED BY <1>1, <2>3, CountUntouched DEF Inv
<1> QED BY <1>2, <1>3
-----------------------------------------------------------------------------
(* The steps of the parent that leave the count and the sessions alone.    *)
LEMMA RequestStepKeeps ==
  ASSUME Inv, \/ ReadRequest \/ OpenResponse \/ OpenResponseFails
              \/ WriteResponse \/ CloseResponse \/ SemPost \/ ForkFails
  PROVE  Inv'
<1>0. TypeOK
  BY DEF Inv
<1>1. /\ UNCHANGED <<client, got, handlerVars, sigchld, session, copy, adopted,
                     loaded, tableVars>>
      /\ handler = "idle" /\ parent \notin {"load", "store"}
      /\ parent \notin {"loadSize", "storeSize"}
      /\ parent' \in {"read", "open", "write", "close", "fork", "semPost",
                      "enqueue"}
  BY DEF ReadRequest, OpenResponse, OpenResponseFails, WriteResponse,
         CloseResponse, SemPost, ForkFails, ParentMove
<1>2. SessionsCounted'
  BY <1>1 DEF Inv, SessionsCounted, One, Live, tableVars
<1>3. /\ parent' \in {"read", "open", "write", "close", "fork", "semPost",
                      "enqueue"}
      /\ parent' # "read" => serving' \in Clients
      /\ response' \in Responses
      /\ requests' \in Seq(Clients)
  <2>1. CASE ReadRequest
    BY <2>1, <1>0, HeadTailProperties
    DEF ReadRequest, ParentMove, TypeOK, Responses
  <2>2. CASE ~ReadRequest
    BY <2>2, <1>0
    DEF OpenResponse, OpenResponseFails, WriteResponse, CloseResponse,
        SemPost, ForkFails, ParentMove, TypeOK
  <2> QED BY <2>1, <2>2
<1>4. StagesOK'
  BY <1>0
  DEF Inv, ReadRequest, OpenResponse, OpenResponseFails, WriteResponse,
      CloseResponse, SemPost, ForkFails, ParentMove, StagesOK
<1>5. SpotsLeft'
  <2>1. CASE ReadRequest
    <3>1. globalNumOfClients < globalMaxClients \/ response' # "welcome"
      BY <2>1, <1>0, MaxAssumption DEF ReadRequest, Full, TypeOK
    <3>2. parent' = "open"
      BY <2>1 DEF ReadRequest, ParentMove
    <3> QED BY <1>0, <1>1, <3>1, <3>2, MaxAssumption
            DEF Inv, SpotsLeft, One, Reserved, handlerVars, tableVars, TypeOK
  <2>2. CASE ~ReadRequest
    <3>1. Reserved' => Reserved
      BY <2>2
      DEF OpenResponse, OpenResponseFails, WriteResponse, CloseResponse,
          SemPost, ForkFails, ParentMove, Reserved
    <3> QED BY <1>0, <1>1, <3>1, MaxAssumption
            DEF Inv, SpotsLeft, One, handlerVars, tableVars, TypeOK
  <2> QED BY <2>1, <2>2
<1>6. /\ reader' \in [Clients -> BOOLEAN]
      /\ writers' \in [Clients -> SUBSET ({"parent", "handler"} \cup Clients)]
      /\ data' \in [Clients -> Seq(Responses)] /\ up' \in BOOLEAN
  <2>1. CASE CloseResponse
    <3>1. [writers EXCEPT ![serving] = @ \ {"parent"}]
            \in [Clients -> SUBSET ({"parent", "handler"} \cup Clients)]
      BY <1>0 DEF TypeOK
    <3>2. reader \in [Clients -> BOOLEAN] /\ up \in BOOLEAN
      BY <1>0 DEF TypeOK
    <3> QED BY <2>1, <3>1, <3>2, <1>0, FifosTyped DEF CloseResponse
  <2>2. CASE WriteResponse
    <3>1. serving \in Clients /\ response \in Responses
      BY <2>2, <1>0 DEF WriteResponse, ParentMove, TypeOK
    <3>2. Append(data[serving], response) \in Seq(Responses)
      BY <3>1, <1>0, AppendProperties DEF TypeOK
    <3> QED BY <2>2, <3>1, <3>2, <1>0 DEF WriteResponse, WriteTo, TypeOK
  <2>3. CASE OpenResponse
    BY <2>3, <1>0 DEF OpenResponse, OpenForWriting, TypeOK
  <2>4. CASE ReadRequest \/ OpenResponseFails \/ SemPost \/ ForkFails
    BY <2>4, <1>0
    DEF ReadRequest, OpenResponseFails, SemPost, ForkFails,
        TypeOK, fifoVars
  <2> QED BY <2>1, <2>2, <2>3, <2>4
<1>7. SizeCovers'
  BY <1>1 DEF Inv, SizeCovers, tableVars
<1>8. serverSemaphore' \in Nat /\ dropped' \subseteq Clients
  <2>1. parent \in {"open", "fork"} => serving \in Clients
    BY <1>0 DEF TypeOK
  <2> QED BY <2>1, <1>0
          DEF ReadRequest, OpenResponse, OpenResponseFails, WriteResponse,
              CloseResponse, SemPost, ForkFails, ParentMove,
              TypeOK
<1>9. TypeOK'
  BY <1>0, <1>1, <1>3, <1>6, <1>8 DEF TypeOK, handlerVars, tableVars
<1> QED BY <1>2, <1>4, <1>5, <1>7, <1>9 DEF Inv

(* The steps of enqueueClient.                                             *)
LEMMA EnqueueStepKeeps ==
  ASSUME Inv, EnqueueClient
  PROVE  Inv'
<1>0. TypeOK
  BY DEF Inv
<1>1. /\ UNCHANGED <<client, got, serverSemaphore, requests, fifoVars, serving,
                     response, handlerVars, globalNumOfClients, session,
                     copy, adopted, sigchld, up, dropped>>
      /\ parent \in {"enqueue", "first", "append", "loadSize", "storeSize"}
      /\ parent' \in {"first", "append", "loadSize", "storeSize", "read"}
      /\ loaded' \in Int /\ size' \in Int
  BY <1>0
  DEF EnqueueClient, TestSize, FirstClient, AppendClient, LoadSize, StoreSize,
      EnqueueMove, ParentMove, TypeOK
<1>2. /\ clientQueue' \in Seq(Clients \ TryClients)
      /\ Len(clientQueue) \in Nat /\ Len(clientQueue') \in Nat
      /\ FirstClient => Len(clientQueue') = 1
      /\ AppendClient => Len(clientQueue') <= Len(clientQueue) + 1
  <2>1. /\ clientQueue \in Seq(Clients \ TryClients)
        /\ Len(clientQueue) \in Nat
    BY <1>0, LenProperties DEF TypeOK
  <2>2. CASE FirstClient \/ AppendClient
    <3>1. serving \in Clients \ TryClients
      BY <2>2, <1>0
      DEF FirstClient, AppendClient, EnqueueMove, ParentMove, Inv, StagesOK,
          TypeOK
    <3>2. /\ <<serving>> \in Seq(Clients \ TryClients) /\ Len(<<serving>>) = 1
          /\ Append(clientQueue, serving) \in Seq(Clients \ TryClients)
          /\ Len(Append(clientQueue, serving)) = Len(clientQueue) + 1
      BY <2>1, <3>1, AppendProperties
    <3>3. clientQueue' = IF FirstClient THEN <<serving>>
                         ELSE IF clientQueue = <<>> THEN clientQueue
                         ELSE Append(clientQueue, serving)
      BY <2>2 DEF FirstClient, AppendClient
    <3>4. ~(FirstClient /\ AppendClient)
      BY DEF FirstClient, AppendClient, EnqueueMove, ParentMove
    <3>5. \/ FirstClient /\ clientQueue' = <<serving>>
          \/ ~FirstClient /\ clientQueue' = clientQueue
          \/ ~FirstClient /\ clientQueue' = Append(clientQueue, serving)
      BY <3>3
    <3>6. CASE FirstClient /\ clientQueue' = <<serving>>
      BY <3>2, <3>4, <3>6, <2>1
    <3>7. CASE ~FirstClient /\ clientQueue' = clientQueue
      BY <2>1, <3>7
    <3>8. CASE ~FirstClient /\ clientQueue' = Append(clientQueue, serving)
      <4>1. Len(clientQueue') = Len(clientQueue) + 1
        BY <3>2, <3>8
      <4> QED BY <2>1, <3>2, <3>8, <4>1
    <3> QED BY <3>5, <3>6, <3>7, <3>8
  <2>3. CASE ~FirstClient /\ ~AppendClient
    BY <2>1, <2>3 DEF EnqueueClient, TestSize, LoadSize, StoreSize
  <2> QED BY <2>2, <2>3
<1>3. TypeOK'
  BY <1>0, <1>1, <1>2 DEF TypeOK, fifoVars, handlerVars
<1>4. StagesOK'
  BY DEF EnqueueClient, TestSize, FirstClient, AppendClient, LoadSize,
         StoreSize, EnqueueMove, ParentMove, Inv, StagesOK
<1>5. SessionsCounted' /\ SpotsLeft'
  BY <1>1 DEF Inv, SessionsCounted, SpotsLeft, One, Reserved, Live, handlerVars
<1>6. SizeCovers'
  <2>1. CASE TestSize
    BY <2>1, <1>0, <1>2
    DEF TestSize, EnqueueMove, ParentMove, Inv, SizeCovers, TypeOK
  <2>2. CASE FirstClient
    BY <2>2, <1>0, <1>2
    DEF FirstClient, EnqueueMove, ParentMove, Inv, SizeCovers, TypeOK
  <2>3. CASE AppendClient
    BY <2>3, <1>0, <1>2
    DEF AppendClient, EnqueueMove, ParentMove, Inv, SizeCovers, TypeOK
  <2>4. CASE LoadSize \/ StoreSize
    BY <2>4, <1>0, <1>2
    DEF LoadSize, StoreSize, EnqueueMove, ParentMove, Inv, SizeCovers, TypeOK
  <2> QED BY <2>1, <2>2, <2>3, <2>4 DEF EnqueueClient
<1> QED BY <1>3, <1>4, <1>5, <1>6 DEF Inv

(* fork and the two halves of ++ in the parent.                            *)
LEMMA CountingStepKeeps ==
  ASSUME Inv, Fork \/ LoadCount \/ StoreCount
  PROVE  Inv'
<1>0. TypeOK /\ Cardinality(Live) \in Nat
  BY LiveSize DEF Inv
<1>s. SizeCovers'
  BY DEF Fork, LoadCount, StoreCount, ParentMove, Inv, SizeCovers, tableVars
<1>1. CASE Fork
  <2>1. serving \in Clients
    BY <1>1, <1>0 DEF Fork, ParentMove, TypeOK
  <2>2. /\ Cardinality(Live') \in Nat
        /\ Cardinality(Live') <= Cardinality(Live) + 1
    BY <1>1, <1>0, <2>1, LiveCounts DEF Fork
  <2>3. TypeOK'
    <3>1. clientQueue \in Seq(Clients \ TryClients) /\ size \in Int
      BY <1>0 DEF TypeOK
    <3>2. [queue |-> clientQueue, size |-> size, archived |-> FALSE]
            \in [queue : Seq(Clients \ TryClients), size : Int,
                 archived : BOOLEAN]
      BY <3>1
    <3>3. copy' \in [Clients -> [queue : Seq(Clients \ TryClients), size : Int,
                                archived : BOOLEAN]]
      BY <1>1, <1>0, <3>2 DEF Fork, TypeOK
    <3> QED BY <1>1, <1>0, <2>1, <3>3
            DEF Fork, ParentMove, TypeOK, handlerVars, tableVars, fifoVars
  <2>4. SessionsCounted'
    BY <1>1, <1>0, <2>2
    DEF Fork, ParentMove, Inv, SessionsCounted, One, TypeOK, tableVars
  <2>5. StagesOK' /\ SpotsLeft'
    BY <1>1, <1>0
    DEF Fork, ParentMove, Inv, StagesOK, SpotsLeft, Reserved, One, TypeOK,
        tableVars, handlerVars
  <2> QED BY <1>s, <2>3, <2>4, <2>5 DEF Inv
<1>2. CASE LoadCount
  <2>1. TypeOK'
    BY <1>2, <1>0
    DEF LoadCount, ParentMove, TypeOK, handlerVars, tableVars, fifoVars
  <2>2. SessionsCounted'
    BY <1>2, <1>0
    DEF LoadCount, ParentMove, Inv, SessionsCounted, One, TypeOK, tableVars,
        Live
  <2>3. StagesOK' /\ SpotsLeft'
    BY <1>2, <1>0, MaxAssumption
    DEF LoadCount, ParentMove, Inv, StagesOK, SpotsLeft, Reserved, One,
        TypeOK, tableVars, handlerVars
  <2> QED BY <1>s, <2>1, <2>2, <2>3 DEF Inv
<1>3. CASE StoreCount
  <2>1. /\ parent = "store" /\ parent' = "read" /\ handler = "idle"
        /\ globalNumOfClients <= loaded /\ loaded + 1 <= globalMaxClients
    BY <1>3, <1>0 DEF StoreCount, ParentMove, Inv, SpotsLeft, One, TypeOK
  <2>2. TypeOK'
    BY <1>3, <1>0, <2>1
    DEF StoreCount, ParentMove, TypeOK, handlerVars, fifoVars
  <2>3. SessionsCounted'
    BY <1>3, <1>0, <2>1
    DEF StoreCount, ParentMove, Inv, SessionsCounted, One, TypeOK, Live
  <2>4. StagesOK' /\ SpotsLeft'
    BY <1>3, <1>0, <2>1, MaxAssumption
    DEF StoreCount, ParentMove, Inv, StagesOK, SpotsLeft, Reserved, One,
        TypeOK, handlerVars
  <2> QED BY <1>s, <2>2, <2>3, <2>4 DEF Inv
<1> QED BY <1>1, <1>2, <1>3
-----------------------------------------------------------------------------
LEMMA TakeSignalKeeps ==
  ASSUME Inv, TakeSignal
  PROVE  Inv'
<1>0. TypeOK /\ Cardinality(Live) \in Nat
  BY LiveSize DEF Inv
<1>1. /\ handler' \in {"idle", "open"}
      /\ handler' # "idle" => admitting' \in Clients
      /\ clientQueue' \in Seq(Clients \ TryClients)
      /\ size' \in Int /\ up' \in BOOLEAN
      /\ Len(clientQueue) \in Nat /\ Len(clientQueue') \in Nat
      /\ \/ Len(clientQueue') = Len(clientQueue) /\ size' = size
         \/ Len(clientQueue') = Len(clientQueue) - 1 /\ size' = size - 1
  <2>1. /\ clientQueue \in Seq(Clients \ TryClients) /\ size \in Int
        /\ Len(clientQueue) \in Nat /\ handler = "idle" /\ up
    BY <1>0, LenProperties DEF TypeOK, TakeSignal
  <2>2. CASE UNCHANGED <<handler, clientQueue, size>> /\ up' \in BOOLEAN
    BY <2>1, <2>2
  <2>3. CASE /\ clientQueue # <<>>
             /\ handler' = "open" /\ admitting' = Head(clientQueue)
             /\ clientQueue' = Tail(clientQueue) /\ size' = size - 1
             /\ UNCHANGED up
    <3>1. /\ Head(clientQueue) \in Clients \ TryClients
          /\ Tail(clientQueue) \in Seq(Clients \ TryClients)
          /\ Len(Tail(clientQueue)) = Len(clientQueue) - 1
      BY <2>1, <2>3, HeadTailProperties
    <3>2. Len(Tail(clientQueue)) \in Nat
      BY <3>1, LenProperties
    <3>3. clientQueue' \in Seq(Clients \ TryClients)
      BY <2>3, <3>1
    <3>4. Len(clientQueue') \in Nat /\ Len(clientQueue') = Len(clientQueue) - 1
      BY <2>3, <3>1, <3>2
    <3>5. handler' = "open" /\ admitting' \in Clients
      BY <2>3, <3>1
    <3>6. size' \in Int /\ size' = size - 1 /\ up' \in BOOLEAN
      BY <2>1, <2>3
    <3> QED BY <2>1, <3>3, <3>4, <3>5, <3>6
  <2> QED BY <2>1, <2>2, <2>3 DEF TakeSignal, Dequeue
<1>2. /\ \/ UNCHANGED parent
         \/ parent = "open" /\ parent' = "read"
      /\ UNCHANGED <<serving, response, loaded>>
      /\ dropped' \subseteq Clients
  BY <1>0 DEF TakeSignal, Interrupted, parentVars, TypeOK
<1>3. TypeOK'
  <2>1. /\ globalNumOfClients' \in Int
        /\ globalNumOfClients' <= globalMaxClients
    BY <1>0, MaxAssumption DEF TakeSignal, TypeOK
  <2>2. /\ UNCHANGED <<client, got, serverSemaphore, requests, data, reader,
                       writers, session, copy, adopted>>
        /\ sigchld' = FALSE
    BY DEF TakeSignal, fifoVars
  <2>3. /\ parent' \in {"read", "open", "write", "close", "fork", "load",
                        "store", "semPost", "enqueue", "first", "append",
                        "loadSize", "storeSize"}
        /\ parent' # "read" => serving' \in Clients
        /\ response' \in Responses /\ loaded' \in Int
    BY <1>0, <1>2 DEF TypeOK
  <2> QED BY <1>0, <1>1, <1>2, <2>1, <2>2, <2>3 DEF TypeOK
<1>4. SessionsCounted'
  BY <1>0, <1>2 DEF TakeSignal, Inv, SessionsCounted, One, TypeOK, Live
<1>5. StagesOK'
  BY <1>2 DEF Inv, StagesOK
<1>6. SpotsLeft'
  <2>1. Reserved' => Reserved
    BY <1>2 DEF Reserved
  <2> QED BY <1>0, <1>2, <2>1, MaxAssumption
          DEF TakeSignal, Inv, SpotsLeft, One, TypeOK
<1>7. SizeCovers'
  <2> DEFINE n == Len(clientQueue)
             m == Len(clientQueue')
  <2>1. n \in Nat /\ m \in Nat /\ size \in Int /\ loaded \in Int
    BY <1>0, <1>1 DEF TypeOK
  <2>2. /\ parent = "first" => n = 0
        /\ parent = "loadSize" => n <= size + 1
        /\ parent = "storeSize" => n <= loaded + 1
        /\ parent \notin {"loadSize", "storeSize"} => n <= size
    BY DEF Inv, SizeCovers
  <2>3. \/ m = n /\ size' = size
        \/ m = n - 1 /\ size' = size - 1
    BY <1>1
  <2> HIDE DEF n, m
  <2>4. /\ parent = "first" => m = 0
        /\ parent = "loadSize" => m <= size' + 1
        /\ parent = "storeSize" => m <= loaded + 1
        /\ parent \notin {"loadSize", "storeSize"} => m <= size'
    BY <2>1, <2>2, <2>3
  <2> QED BY <1>2, <2>4 DEF SizeCovers, m
<1> QED BY <1>3, <1>4, <1>5, <1>6, <1>7 DEF Inv

LEMMA HandlerStepKeeps ==
  ASSUME Inv, HandlerStep
  PROVE  Inv'
<1>0. TypeOK /\ Cardinality(Live) \in Nat
  BY LiveSize DEF Inv
<1>1. CASE TakeSignal
  BY <1>1, TakeSignalKeeps
<1>2. CASE HandlerOpen \/ HandlerWrite
  <2>1. /\ reader' \in [Clients -> BOOLEAN] /\ up' \in BOOLEAN
        /\ writers' \in
             [Clients -> SUBSET ({"parent", "handler"} \cup Clients)]
        /\ data' \in [Clients -> Seq(Responses)]
    <3>1. admitting \in Clients
      BY <1>2, <1>0 DEF HandlerOpen, HandlerWrite, HandlerMove, TypeOK
    <3>2. Append(data[admitting], "welcome") \in Seq(Responses)
      BY <3>1, <1>0, AppendProperties DEF TypeOK, Responses
    <3>3. CASE HandlerOpen
      BY <3>3, <1>0, <3>1 DEF HandlerOpen, OpenForWriting, TypeOK
    <3>4. CASE HandlerWrite
      BY <3>4, <1>0, <3>1, <3>2 DEF HandlerWrite, WriteTo, TypeOK
    <3> QED BY <1>2, <3>3, <3>4
  <2>2. /\ UNCHANGED <<client, got, serverSemaphore, requests, parentVars,
                       admitting, clientQueue, size, sigchld, session, copy,
                       adopted, dropped, globalNumOfClients>>
        /\ handler # "idle" /\ handler' \in {"write", "fork"}
    BY <1>2 DEF HandlerOpen, HandlerWrite, HandlerMove
  <2>3. TypeOK'
    BY <1>0, <2>1, <2>2 DEF TypeOK, parentVars
  <2>4. StagesOK' /\ SessionsCounted' /\ SpotsLeft' /\ SizeCovers'
    BY <2>2 DEF Inv, StagesOK, SessionsCounted, SpotsLeft, SizeCovers, One,
                Reserved, Live, parentVars
  <2> QED BY <2>3, <2>4 DEF Inv
<1>3. CASE HandlerOpenFails \/ HandlerForkFails
  <2>1. admitting \in Clients
    BY <1>3, <1>0
    DEF HandlerOpenFails, HandlerForkFails, HandlerMove, TypeOK
  <2>2. /\ reader' \in [Clients -> BOOLEAN]
        /\ writers' \in
             [Clients -> SUBSET ({"parent", "handler"} \cup Clients)]
        /\ data' \in [Clients -> Seq(Responses)]
    <3>1. CASE HandlerOpenFails
      BY <3>1, <1>0 DEF HandlerOpenFails, fifoVars, TypeOK
    <3>2. CASE HandlerForkFails
      <4>1. HandlerCloses
              \in [Clients -> SUBSET ({"parent", "handler"} \cup Clients)]
        BY <1>0 DEF TypeOK, HandlerCloses
      <4>2. reader \in [Clients -> BOOLEAN]
        BY <1>0 DEF TypeOK
      <4> QED BY <3>2, <4>1, <4>2, <1>0, FifosTyped DEF HandlerForkFails
    <3> QED BY <1>3, <3>1, <3>2
  <2>3. /\ UNCHANGED <<client, got, serverSemaphore, requests, parentVars,
                       admitting, clientQueue, size, sigchld, session, copy,
                       adopted, up, globalNumOfClients>>
        /\ handler # "idle" /\ handler' = "idle"
        /\ dropped' = dropped \cup {admitting}
    BY <1>3 DEF HandlerOpenFails, HandlerForkFails, HandlerMove
  <2>4. TypeOK'
    BY <1>0, <2>1, <2>2, <2>3 DEF TypeOK, parentVars
  <2>5. StagesOK' /\ SessionsCounted' /\ SizeCovers'
    BY <2>3 DEF Inv, StagesOK, SessionsCounted, SizeCovers, One, Live,
                parentVars
  <2>6. SpotsLeft'
    BY <1>0, <2>3, MaxAssumption
    DEF Inv, SpotsLeft, One, Reserved, parentVars, TypeOK
  <2> QED BY <2>4, <2>5, <2>6 DEF Inv
<1>4. CASE HandlerFork
  <2>1. admitting \in Clients
    BY <1>4, <1>0 DEF HandlerFork, HandlerMove, TypeOK
  <2>2. /\ Cardinality(Live') \in Nat
        /\ Cardinality(Live') <= Cardinality(Live) + 1
    BY <1>4, <1>0, <2>1, LiveCounts DEF HandlerFork
  <2>3. /\ UNCHANGED <<client, got, serverSemaphore, requests, parent,
                       serving, response, loaded, admitting, clientQueue,
                       size, sigchld, copy, adopted, up, dropped>>
        /\ handler = "fork" /\ handler' = "idle"
        /\ globalNumOfClients' = globalNumOfClients + 1
    BY <1>4 DEF HandlerFork, HandlerMove, parentVars
  <2>4. /\ reader' \in [Clients -> BOOLEAN]
        /\ writers' \in
             [Clients -> SUBSET ({"parent", "handler"} \cup Clients)]
        /\ data' \in [Clients -> Seq(Responses)]
    <3> DEFINE W == [c \in Clients |-> IF "parent" \in writers[c]
                                      THEN HandlerCloses[c] \cup {admitting}
                                      ELSE HandlerCloses[c]]
    <3>1. HandlerCloses
            \in [Clients -> SUBSET ({"parent", "handler"} \cup Clients)]
      BY <1>0 DEF TypeOK, HandlerCloses
    <3>2. W \in [Clients -> SUBSET ({"parent", "handler"} \cup Clients)]
      BY <2>1, <3>1
    <3>3. reader \in [Clients -> BOOLEAN] /\ Fifos(reader, W)
      BY <1>4, <1>0 DEF TypeOK, HandlerFork
    <3> HIDE DEF W
    <3> QED BY <3>2, <3>3, <1>0, FifosTyped
  <2>5. SpotsLeft'
    BY <1>0, <2>3, MaxAssumption DEF Inv, SpotsLeft, One, Reserved, TypeOK
  <2>6. globalNumOfClients + 1 <= globalMaxClients
    BY <1>0, <2>3, MaxAssumption DEF Inv, SpotsLeft, One, TypeOK
  <2>7. TypeOK'
    <3>1. session' \in [Clients -> {"none", "live", "ended"}]
      BY <1>4, <1>0 DEF HandlerFork, TypeOK
    <3> QED BY <1>0, <2>3, <2>4, <2>6, <3>1 DEF TypeOK
  <2>8. SessionsCounted'
    BY <1>0, <2>2, <2>3 DEF Inv, SessionsCounted, One, TypeOK
  <2>9. StagesOK' /\ SizeCovers'
    BY <2>3 DEF Inv, StagesOK, SizeCovers
  <2> QED BY <2>5, <2>7, <2>8, <2>9 DEF Inv
<1> QED BY <1>1, <1>2, <1>3, <1>4 DEF HandlerStep

-----------------------------------------------------------------------------
(* Inv is an invariant, with every fault allowed.                          *)
THEOREM AdmissionInvariant == Spec => []Inv
<1>1. Inv /\ [Next]_vars => Inv'
  <2> SUFFICES ASSUME Inv, [Next]_vars PROVE Inv'
    OBVIOUS
  <2>1. ASSUME NEW c \in Clients, ClientStep(c) \/ Sigterm(c) PROVE Inv'
    BY <2>1, ClientStepKeeps
  <2>2. ASSUME NEW c \in Clients, SessionStep(c) PROVE Inv'
    BY <2>2, SessionEndsKeeps, SessionCrashKeeps, SessionAloneKeeps
    DEF SessionStep
  <2>3. CASE ParentStep
    BY <2>3, RequestStepKeeps, EnqueueStepKeeps, CountingStepKeeps
    DEF ParentStep
  <2>4. CASE HandlerStep
    BY <2>4, HandlerStepKeeps
  <2>5. CASE UNCHANGED vars
    <3>1. TypeOK'
      BY <2>5
      DEF vars, fifoVars, parentVars, handlerVars, tableVars, Inv, TypeOK
    <3>2. UNCHANGED <<parentVars, handlerVars, tableVars, session, sigchld>>
      BY <2>5 DEF vars
    <3> QED BY <3>1, <3>2, CountUntouched DEF Inv
  <2> QED BY <2>1, <2>2, <2>3, <2>4, <2>5 DEF Next
<1> QED BY Initially, <1>1, PTL DEF Spec

(* The state of the server and of its clients is well formed, and the      *)
(* count never passes its maximum.                                         *)
THEOREM AdmissionTypes == Spec => []TypeOK
<1>1. Inv => TypeOK
  BY DEF Inv
<1> QED BY <1>1, AdmissionInvariant, PTL

(* The parent never has more than globalMaxClients sessions of its own,    *)
(* whatever the handler interrupts and whatever sessions are forked by     *)
(* other sessions, which nobody counts.                                    *)
THEOREM NeverOverfullHolds == Spec => []NeverOverfull
<1>1. Inv => NeverOverfull
  <2> SUFFICES ASSUME Inv PROVE NeverOverfull
    OBVIOUS
  <2>1. TypeOK /\ Cardinality(Live) \in Nat
    BY LiveSize DEF Inv
  <2>2. /\ globalNumOfClients \in Int /\ loaded \in Int
        /\ globalMaxClients \in Int
    BY <2>1, MaxAssumption DEF TypeOK
  <2>3. Cardinality(Live)
          <= globalNumOfClients + One(parent \in {"load", "store"})
    BY <2>1, <2>2 DEF Inv, SessionsCounted, One
  <2>4. globalNumOfClients + One(parent \in {"load", "store"})
          <= globalMaxClients
    BY <2>2 DEF Inv, SpotsLeft, One, Reserved
  <2> QED BY <2>1, <2>2, <2>3, <2>4 DEF NeverOverfull, One
<1> QED BY <1>1, AdmissionInvariant, PTL

(* Whatever sigChldHandler interrupts in enqueueClient, no client that can *)
(* be reached from the head of the queue is left out of its size.          *)
THEOREM NobodyOverlookedHolds == Spec => []NobodyOverlooked
<1>1. Inv => NobodyOverlooked
  BY DEF Inv, SizeCovers, NobodyOverlooked
<1> QED BY <1>1, AdmissionInvariant, PTL

-----------------------------------------------------------------------------
(* Who is where.  The queue, the FIFO of requests and the locals of the    *)
(* parent and of the handler name clients; the invariant says that they    *)
(* never name the same one for two purposes, and what each was told.       *)
(* Where the server has a client: its request is in the FIFO, the parent   *)
(* serves it and has not given it a place yet, it is in the queue, or the  *)
(* handler is admitting it.                                                *)
In(s, c) == \E i \in 1..Len(s) : s[i] = c
Once(s) == \A i, j \in 1..Len(s) : s[i] = s[j] => i = j

Asked(c) == In(requests, c)
Served(c) ==
  /\ serving = c
  /\ parent \in {"open", "write", "close", "semPost", "enqueue", "first",
                 "append", "fork"}
Queued(c) == In(clientQueue, c)
Admitted(c) == admitting = c /\ handler # "idle"
Begun(c) == session[c] # "none"

(* What sessions know of a client: it is in the copy of one of them, or    *)
(* was admitted from it.                                                   *)
Copied(c) ==
  adopted[c] # "none" \/ \E d \in Clients : In(copy[d].queue, c)

(* A client is in one of these places at a time, and in none of them       *)
(* before it has sent its request.  Sessions know only of clients that     *)
(* were served and queued.                                                 *)
InOnePlace(c) ==
  /\ Asked(c) => ~Served(c) /\ ~Queued(c) /\ ~Admitted(c) /\ ~Begun(c)
                 /\ ~Copied(c)
  /\ Served(c) => ~Queued(c) /\ ~Admitted(c) /\ ~Begun(c) /\ ~Copied(c)
  /\ Queued(c) => ~Admitted(c) /\ ~Begun(c)
  /\ Admitted(c) => ~Begun(c)
  /\ client[c] \in {"semWait", "send"} =>
       ~Asked(c) /\ ~Served(c) /\ ~Queued(c) /\ ~Admitted(c) /\ ~Begun(c)
       /\ ~Copied(c)

(* What a client has read agrees with how far it is.                       *)
HowFar(c) ==
  /\ client[c] \in {"semWait", "send", "open"} => ~reader[c] /\ got[c] = <<>>
  /\ client[c] = "read" => reader[c] /\ got[c] = <<>>
  /\ got[c] = <<>> =>
       client[c] \in {"semWait", "send", "open", "read", "killed"}

Untold(c) == got[c] = <<>> /\ data[c] = <<>>

(* The client was sent r and nothing else; who is killed may lose it, and  *)
(* who was admitted from a copy was told that too.                         *)
Told(c, r) ==
  \/ adopted[c] # "none"
  \/ got[c] = <<r>> /\ data[c] = <<>>
  \/ got[c] = <<>> /\ data[c] = <<r>> /\ client[c] \in {"read", "killed"}
  \/ Untold(c) /\ client[c] = "killed"

(* What a client was sent agrees with the place it is in.                  *)
ToldRightly(c) ==
  /\ client[c] \in {"semWait", "send"} \/ Asked(c) => Untold(c)
  /\ Served(c) /\ parent \in {"open", "write"} => Untold(c)
  /\ Served(c) /\ parent = "write" => client[c] \in {"read", "killed"}
  /\ Served(c) /\ parent \notin {"open", "write"} => Told(c, response)
  /\ Queued(c) => Told(c, "wait")
  /\ Admitted(c) /\ handler \in {"open", "write"} => Told(c, "wait")

Welcomed(c) == In(got[c], "welcome") \/ In(data[c], "welcome")

(* WelcomeKept, from the moment the response is in the FIFO.               *)
WelcomeAhead(c) ==
  Welcomed(c) => \/ Begun(c) \/ adopted[c] # "none" \/ c \in dropped
                 \/ serving = c /\ parent \in {"close", "fork"}
                 \/ admitting = c /\ handler = "fork"

PlacesInv ==
  /\ Once(requests) /\ Once(clientQueue)
  /\ \A c \in Clients : /\ InOnePlace(c) /\ HowFar(c) /\ ToldRightly(c)
                        /\ WelcomeAhead(c)

-----------------------------------------------------------------------------
LEMMA EmptyAndOne ==
  ASSUME NEW e
  PROVE  /\ Once(<<>>) /\ Once(<<e>>)
         /\ \A c : ~In(<<>>, c) /\ (In(<<e>>, c) <=> c = e)
  BY DEF Once, In

LEMMA OnceTail ==
  ASSUME NEW S, NEW s \in Seq(S), s # <<>>, Once(s)
  PROVE  /\ Once(Tail(s)) /\ In(s, Head(s))
         /\ \A c : In(Tail(s), c) <=> In(s, c) /\ c # Head(s)
<1>1. /\ Len(s) \in Nat \ {0} /\ Head(s) = s[1]
      /\ Len(Tail(s)) = Len(s) - 1
      /\ \A i \in 1..Len(Tail(s)) : Tail(s)[i] = s[i + 1]
  BY HeadTailProperties, LenProperties, EmptySeq
<1>2. Once(Tail(s))
  BY <1>1 DEF Once
<1>3. In(s, Head(s))
  BY <1>1 DEF In
<1>4. ASSUME NEW c PROVE In(Tail(s), c) <=> In(s, c) /\ c # Head(s)
  <2>1. ASSUME In(Tail(s), c) PROVE In(s, c) /\ c # Head(s)
    <3>1. PICK i \in 1..Len(Tail(s)) : Tail(s)[i] = c
      BY <2>1 DEF In
    <3>2. i + 1 \in 1..Len(s) /\ s[i + 1] = c /\ 1 \in 1..Len(s) /\ i + 1 # 1
      BY <1>1, <3>1
    <3> QED BY <1>1, <3>2 DEF In, Once
  <2>2. ASSUME In(s, c), c # Head(s) PROVE In(Tail(s), c)
    <3>1. PICK i \in 1..Len(s) : s[i] = c
      BY <2>2 DEF In
    <3>2. i - 1 \in 1..Len(Tail(s)) /\ Tail(s)[i - 1] = s[(i - 1) + 1]
      BY <1>1, <2>2, <3>1
    <3> QED BY <3>1, <3>2 DEF In
  <2> QED BY <2>1, <2>2
<1> QED BY <1>2, <1>3, <1>4

LEMMA InTail ==
  ASSUME NEW S, NEW s \in Seq(S), s # <<>>
  PROVE  /\ Head(s) \in S /\ In(s, Head(s))
         /\ \A c : In(Tail(s), c) => In(s, c)
<1>1. /\ Len(s) \in Nat \ {0} /\ Head(s) = s[1] /\ Head(s) \in S
      /\ Len(Tail(s)) = Len(s) - 1
      /\ \A i \in 1..Len(Tail(s)) : Tail(s)[i] = s[i + 1]
  BY HeadTailProperties, LenProperties, EmptySeq
<1>2. ASSUME NEW c, In(Tail(s), c) PROVE In(s, c)
  <2>1. PICK i \in 1..Len(Tail(s)) : Tail(s)[i] = c
    BY <1>2 DEF In
  <2>2. i + 1 \in 1..Len(s) /\ s[i + 1] = c
    BY <1>1, <2>1
  <2> QED BY <2>2 DEF In
<1> QED BY <1>1, <1>2 DEF In

LEMMA OnceAppend ==
  ASSUME NEW S, NEW s \in Seq(S), NEW e \in S
  PROVE  /\ \A c : In(Append(s, e), c) <=> In(s, c) \/ c = e
         /\ Once(s) /\ ~In(s, e) => Once(Append(s, e))
<1>1. /\ Len(s) \in Nat /\ Len(Append(s, e)) = Len(s) + 1
      /\ Append(s, e)[Len(s) + 1] = e
      /\ \A i \in 1..Len(s) : Append(s, e)[i] = s[i]
  BY AppendProperties, LenProperties
<1> QED BY <1>1 DEF In, Once

-----------------------------------------------------------------------------
(* Closing an end of a FIFO loses what is in it only when its client does  *)
(* not have it open.                                                       *)
LEMMA FifosKeep ==
  ASSUME NEW r \in [Clients -> BOOLEAN], NEW w, Fifos(r, w), NEW d \in Clients
  PROVE  /\ reader'[d] = r[d]
         /\ data'[d] \in {data[d], <<>>}
         /\ r[d] => data'[d] = data[d]
  BY DEF Fifos

(* What a step may do to the client and its FIFO without untelling it.     *)
LEMMA StillTold ==
  ASSUME NEW d \in Clients,
         got'[d] = got[d],
         client[d] = "read" => client'[d] \in {"read", "killed"},
         client[d] = "killed" => client'[d] = "killed",
         adopted[d] # "none" => adopted'[d] # "none",
         \/ data'[d] = data[d]
         \/ data'[d] = <<>> /\ client'[d] # "read"
  PROVE  /\ Untold(d) => Untold(d)'
         /\ \A r \in Responses : Told(d, r) => Told(d, r)'
         /\ Welcomed(d)' => Welcomed(d)
<1>1. Untold(d) => Untold(d)'
  BY DEF Untold
<1>2. ASSUME NEW r \in Responses, Told(d, r) PROVE Told(d, r)'
  <2>1. CASE got[d] = <<r>> /\ data[d] = <<>>
    BY <2>1 DEF Told
  <2>2. CASE /\ got[d] = <<>> /\ data[d] = <<r>>
             /\ client[d] \in {"read", "killed"}
    BY <2>2 DEF Told, Untold
  <2>3. CASE Untold(d) /\ client[d] = "killed"
    BY <2>3, <1>1 DEF Told
  <2>4. CASE adopted[d] # "none"
    BY <2>4 DEF Told
  <2> QED BY <1>2, <2>1, <2>2, <2>3, <2>4 DEF Told
<1>3. Welcomed(d)' => Welcomed(d)
  BY EmptyAndOne DEF Welcomed
<1> QED BY <1>1, <1>2, <1>3

(* Who was sent another response was not sent the welcome, but by another  *)
(* session.                                                                *)
LEMMA ToldNoWelcome ==
  ASSUME NEW d \in Clients, NEW r \in Responses, r # "welcome", Told(d, r),
         adopted[d] = "none"
  PROVE  ~Welcomed(d)
<1>1. ~In(<<r>>, "welcome") /\ ~In(<<>>, "welcome")
  BY EmptyAndOne
<1>2. got[d] \in {<<>>, <<r>>} /\ data[d] \in {<<>>, <<r>>}
  BY DEF Told, Untold
<1> QED BY <1>1, <1>2 DEF Welcomed

(* Reading a response moves it from the FIFO to got.                       *)
LEMMA ReadTold ==
  ASSUME TypeOK, NEW d \in Clients, ReadResponse(d), UNCHANGED adopted
  PROVE  /\ ~Untold(d) /\ got'[d] # <<>>
         /\ \A r \in Responses : Told(d, r) => Told(d, r)'
         /\ Welcomed(d)' => Welcomed(d)
<1>1. /\ data[d] \in Seq(Responses) /\ data[d] # <<>>
      /\ got[d] \in Seq(Responses)
      /\ got'[d] = Append(got[d], Head(data[d]))
      /\ data'[d] = Tail(data[d])
  BY DEF ReadResponse, TypeOK
<1>2. Head(data[d]) \in Responses /\ Tail(data[d]) \in Seq(Responses)
  BY <1>1, HeadTailProperties
<1>3. got'[d] # <<>>
  BY <1>1, <1>2, AppendProperties, EmptySeq, LenProperties
<1>4. ASSUME NEW r \in Responses, Told(d, r) PROVE Told(d, r)'
  <2>1. CASE got[d] = <<>> /\ data[d] = <<r>>
    <3>1. Head(<<r>>) = r /\ Tail(<<r>>) = <<>> /\ Append(<<>>, r) = <<r>>
      OBVIOUS
    <3> QED BY <1>1, <2>1, <3>1 DEF Told
  <2>2. CASE adopted[d] # "none"
    BY <2>2 DEF Told
  <2> QED BY <1>1, <1>4, <2>1, <2>2 DEF Told, Untold
<1>5. ASSUME Welcomed(d)' PROVE Welcomed(d)
  <2>1. CASE In(got'[d], "welcome")
    <3>1. In(got[d], "welcome") \/ Head(data[d]) = "welcome"
      BY <1>1, <1>2, <2>1, OnceAppend
    <3>2. In(data[d], Head(data[d]))
      <4>1. Len(data[d]) \in Nat \ {0} /\ Head(data[d]) = data[d][1]
        BY <1>1, HeadTailProperties, LenProperties, EmptySeq
      <4> QED BY <4>1 DEF In
    <3> QED BY <3>1, <3>2 DEF Welcomed
  <2>2. CASE In(data'[d], "welcome")
    <3>1. PICK i \in 1..Len(Tail(data[d])) : Tail(data[d])[i] = "welcome"
      BY <1>1, <2>2 DEF In
    <3>2. /\ Len(data[d]) \in Nat /\ Len(Tail(data[d])) = Len(data[d]) - 1
          /\ Tail(data[d])[i] = data[d][i + 1]
      BY <1>1, <3>1, HeadTailProperties, LenProperties
    <3>3. i + 1 \in 1..Len(data[d]) /\ data[d][i + 1] = "welcome"
      BY <3>1, <3>2
    <3> QED BY <3>3 DEF Welcomed, In
  <2> QED BY <1>5, <2>1, <2>2 DEF Welcomed
<1> QED BY <1>1, <1>3, <1>4, <1>5 DEF Untold

-----------------------------------------------------------------------------
(* While the server stands still, a client keeps its place.                *)
LEMMA ServerStill ==
  ASSUME Inv, NEW d \in Clients, InOnePlace(d), ToldRightly(d),
         WelcomeAhead(d),
         UNCHANGED <<parentVars, handlerVars, clientQueue, dropped>>,
         Asked(d)' <=> Asked(d), Begun(d)' <=> Begun(d),
         Copied(d)' => Copied(d), adopted[d] # "none" => adopted'[d] # "none",
         client'[d] \in {"semWait", "send"} => client[d] \in {"semWait", "send"},
         Untold(d) => Untold(d)',
         \A r \in Responses : Told(d, r) => Told(d, r)',
         Welcomed(d)' => Welcomed(d),
         Untold(d) /\ client[d] \in {"read", "killed"} =>
           client'[d] \in {"read", "killed"}
  PROVE  InOnePlace(d)' /\ ToldRightly(d)' /\ WelcomeAhead(d)'
<1>1. /\ Served(d)' <=> Served(d)
      /\ Queued(d)' <=> Queued(d)
      /\ Admitted(d)' <=> Admitted(d)
      /\ UNCHANGED <<parent, serving, response, handler, admitting, dropped>>
  BY DEF Served, Queued, Admitted, parentVars, handlerVars
<1>2. InOnePlace(d)'
  BY <1>1 DEF InOnePlace
<1>3. response \in Responses /\ "wait" \in Responses
  BY DEF Inv, TypeOK, Responses
<1>4. ToldRightly(d)'
  BY <1>1, <1>3 DEF ToldRightly
<1>5. WelcomeAhead(d)'
  BY <1>1 DEF WelcomeAhead
<1> QED BY <1>2, <1>4, <1>5

LEMMA PlacesAtClient ==
  ASSUME Inv, PlacesInv, NEW c \in Clients, ClientStep(c) \/ Sigterm(c)
  PROVE  PlacesInv'
<1>0. TypeOK
  BY DEF Inv
<1>1. /\ UNCHANGED <<parentVars, handlerVars, tableVars, session, copy,
                     adopted, sigchld, dropped>>
      /\ \A d \in Clients : d # c => client'[d] = client[d]
      /\ client[c] = "killed" => client'[c] = "killed"
  BY <1>0
  DEF ClientStep, SemWait, Send, Open, Read, Close, Post, Reopen, Opened,
      Reread, RereadEOF, Sigterm, ClientMove, TypeOK
<1>2. UNCHANGED clientQueue /\ Once(clientQueue)'
  BY <1>1 DEF tableVars, PlacesInv
<1>3. CASE ~Send(c)
  <2>1. UNCHANGED requests
    BY <1>3
    DEF ClientStep, SemWait, Send, Open, Read, Close, Post, Reopen, Opened,
        Reread, RereadEOF, Sigterm, ClientMove, ReadResponse
  <2>2. ASSUME NEW d \in Clients
        PROVE  /\ client'[d] \in {"semWait", "send"} =>
                    client[d] \in {"semWait", "send"}
               /\ Asked(d)' <=> Asked(d)
               /\ Begun(d)' <=> Begun(d)
               /\ Copied(d)' => Copied(d)
               /\ InOnePlace(d) /\ ToldRightly(d) /\ WelcomeAhead(d)
               /\ HowFar(d)
    <3>1. client'[d] \in {"semWait", "send"} =>
            client[d] \in {"semWait", "send"}
      BY <1>0, <1>1, <1>3
      DEF ClientStep, SemWait, Send, Open, Read, Close, Post, Reopen, Opened,
          Reread, RereadEOF, Sigterm, ClientMove, TypeOK
    <3> QED BY <1>1, <2>1, <3>1 DEF PlacesInv, Asked, Begun, Copied
  <2>3. ASSUME NEW d \in Clients
        PROVE  /\ HowFar(d)'
               /\ Untold(d) => Untold(d)'
               /\ \A r \in Responses : Told(d, r) => Told(d, r)'
               /\ Welcomed(d)' => Welcomed(d)
               /\ Untold(d) /\ client[d] \in {"read", "killed"} =>
                    client'[d] \in {"read", "killed"}
    <3>1. CASE SemWait(c) \/ Post(c) \/ Opened(c) \/ RereadEOF(c)
      <4>1. UNCHANGED <<got, data, reader>>
        BY <3>1 DEF SemWait, Post, Opened, RereadEOF, fifoVars
      <4>2. /\ client[d] = "read" => client'[d] = "read"
            /\ client[d] = "killed" => client'[d] = "killed"
            /\ HowFar(d)'
        <5>1. HowFar(d)
          BY <2>2
        <5>2. \/ client'[d] = client[d]
              \/ client[d] = "semWait" /\ client'[d] = "send"
              \/ /\ client[d] \in {"post", "opening", "reread"}
                 /\ client'[d] \in {"reopen", "connected", "reread"}
          BY <1>0, <1>1, <3>1
          DEF SemWait, Post, Opened, RereadEOF, ClientMove, TypeOK
        <5> QED BY <4>1, <5>1, <5>2 DEF HowFar
      <4> QED BY <1>1, <4>1, <4>2, StillTold
    <3>2. CASE Read(c) \/ Reread(c)
      <4>1. /\ ReadResponse(c) /\ UNCHANGED reader
            /\ client[c] \in {"read", "reread"}
            /\ client'[c] \in {"close", "connected"}
        BY <1>0, <3>2 DEF Read, Reread, ReadResponse, ClientMove, TypeOK
      <4>2. CASE d = c
        <5>1. HowFar(d)'
          BY <1>0, <1>1, <4>1, <4>2, ReadTold DEF HowFar
        <5> QED BY <1>0, <1>1, <4>1, <4>2, <5>1, ReadTold
      <4>3. CASE d # c
        <5>1. /\ got'[d] = got[d] /\ data'[d] = data[d]
              /\ client'[d] = client[d]
          BY <1>0, <1>1, <4>1, <4>3 DEF ReadResponse, TypeOK
        <5>2. HowFar(d)'
          BY <2>2, <4>1, <5>1 DEF HowFar
        <5> QED BY <1>1, <5>1, <5>2, StillTold
      <4> QED BY <4>2, <4>3
    <3>3. CASE Open(c) \/ Close(c) \/ Reopen(c) \/ Sigterm(c)
      <4> DEFINE R(b) == [reader EXCEPT ![c] = b]
      <4>1. PICK b \in BOOLEAN : /\ Fifos(R(b), writers)
                                 /\ b = (Open(c) \/ Reopen(c))
        BY <3>3 DEF Open, Close, Reopen, Sigterm, ClientMove
      <4>2. UNCHANGED got /\ R(b) \in [Clients -> BOOLEAN]
        BY <1>0, <3>3 DEF Open, Close, Reopen, Sigterm, TypeOK
      <4>3. /\ reader'[d] = R(b)[d]
            /\ data'[d] \in {data[d], <<>>}
            /\ R(b)[d] => data'[d] = data[d]
        <5> HIDE DEF R
        <5> QED BY <4>1, <4>2, FifosKeep
      <4>4. reader'[d] = IF d = c THEN b ELSE reader[d]
        BY <1>0, <4>3 DEF TypeOK
      <4>5. /\ client[d] = "read" => client'[d] \in {"read", "killed"}
            /\ client[d] = "killed" => client'[d] = "killed"
            /\ client'[d] = "read" => reader'[d]
            /\ HowFar(d)'
        <5>1. CASE d = c /\ Open(c)
          BY <1>0, <2>2, <4>1, <4>2, <4>4, <5>1
          DEF Open, ClientMove, HowFar, TypeOK
        <5>2. CASE d = c /\ (Close(c) \/ Reopen(c) \/ Sigterm(c))
          <6>1. \/ /\ client[c] \in {"close", "reopen"}
                   /\ client'[c] \in {"refused", "post", "opening", "reread"}
                \/ client'[c] = "killed"
            BY <1>0, <5>2 DEF Close, Reopen, Sigterm, ClientMove, TypeOK
          <6>2. HowFar(c)
            BY <2>2
          <6>3. client[c] = "killed" => client'[c] = "killed"
            BY <1>1
          <6>4. got'[c] = got[c]
            BY <4>2
          <6> QED BY <5>2, <6>1, <6>2, <6>3, <6>4 DEF HowFar
        <5>3. CASE d # c
          BY <1>1, <2>2, <4>2, <4>4, <5>3 DEF HowFar
        <5> QED BY <3>3, <5>1, <5>2, <5>3
      <4> QED BY <1>1, <4>2, <4>3, <4>5, StillTold
    <3> QED BY <1>3, <3>1, <3>2, <3>3 DEF ClientStep
  <2>4. ASSUME NEW d \in Clients
        PROVE  InOnePlace(d)' /\ ToldRightly(d)' /\ WelcomeAhead(d)'
    BY <1>1, <1>2, <2>2, <2>3, ServerStill
  <2> QED BY <1>2, <2>1, <2>3, <2>4 DEF PlacesInv
<1>4. CASE Send(c)
  <2>1. /\ client[c] = "send" /\ client'[c] = "open"
        /\ requests' = Append(requests, c) /\ UNCHANGED <<got, data, reader>>
    BY <1>0, <1>4 DEF Send, ClientMove, TypeOK, fifoVars
  <2>2. /\ ~Asked(c) /\ ~Served(c) /\ ~Queued(c) /\ ~Admitted(c) /\ ~Begun(c)
        /\ ~Copied(c)
    BY <2>1 DEF PlacesInv, InOnePlace
  <2>3. /\ Once(requests')
        /\ \A d : In(requests', d) <=> In(requests, d) \/ d = c
    <3>1. requests \in Seq(Clients) /\ ~In(requests, c) /\ Once(requests)
      BY <1>0, <2>2 DEF TypeOK, Asked, PlacesInv
    <3> QED BY <2>1, <3>1, OnceAppend
  <2>4. ASSUME NEW d \in Clients
        PROVE  InOnePlace(d)' /\ HowFar(d)' /\ ToldRightly(d)'
               /\ WelcomeAhead(d)'
    <3>0. InOnePlace(d) /\ HowFar(d) /\ ToldRightly(d) /\ WelcomeAhead(d)
      BY DEF PlacesInv
    <3>1. /\ HowFar(d)'
          /\ client[d] = "read" => client'[d] = "read"
          /\ client[d] = "killed" => client'[d] = "killed"
      BY <1>1, <2>1, <3>0 DEF HowFar
    <3>2. /\ Untold(d) => Untold(d)'
          /\ \A r \in Responses : Told(d, r) => Told(d, r)'
          /\ Welcomed(d)' => Welcomed(d)
      BY <1>1, <2>1, <3>1, StillTold
    <3>3. (Begun(d)' <=> Begun(d)) /\ (Copied(d)' <=> Copied(d))
      BY <1>1 DEF Begun, Copied
    <3>4. CASE d # c
      <4>1. Asked(d)' <=> Asked(d)
        BY <2>3, <3>4 DEF Asked
      <4>2. client'[d] = client[d]
        BY <1>1, <3>4
      <4> QED BY <1>1, <1>2, <3>0, <3>1, <3>2, <3>3, <4>1, <4>2, ServerStill
    <3>5. CASE d = c
      <4>1. /\ ~Served(c)' /\ ~Queued(c)' /\ ~Admitted(c)' /\ ~Begun(c)'
            /\ ~Copied(c)'
        BY <1>1, <1>2, <2>2, <3>3, <3>5
        DEF Served, Queued, Admitted, Begun, parentVars, handlerVars
      <4>2. InOnePlace(c)'
        BY <2>1, <4>1 DEF InOnePlace
      <4>3. Untold(c)'
        BY <2>1, <3>0, <3>2, <3>5 DEF ToldRightly
      <4>4. ToldRightly(c)'
        BY <4>1, <4>3 DEF ToldRightly
      <4>5. WelcomeAhead(c)'
        BY <4>3, EmptyAndOne DEF WelcomeAhead, Welcomed, Untold
      <4> QED BY <3>1, <3>5, <4>2, <4>4, <4>5
    <3> QED BY <3>4, <3>5
  <2> QED BY <1>2, <2>3, <2>4 DEF PlacesInv
<1> QED BY <1>3, <1>4

(* A session that is gone knows of nobody.                                 *)
LEMMA CopyGone ==
  ASSUME TypeOK, NEW c \in Clients, NEW d \in Clients,
         copy' = [copy EXCEPT ![c] = NoCopy], UNCHANGED adopted
  PROVE  Copied(d)' => Copied(d)
<1>1. ~In(NoCopy.queue, d)
  BY EmptyAndOne DEF NoCopy
<1>2. \A e \in Clients : copy'[e] = copy[e] \/ copy'[e] = NoCopy
  BY DEF TypeOK
<1> QED BY <1>1, <1>2 DEF Copied

LEMMA PlacesAtEnd ==
  ASSUME Inv, PlacesInv, NEW c \in Clients, SessionEnds(c)
  PROVE  PlacesInv'
<1>0. TypeOK
  BY DEF Inv
<1>1. /\ UNCHANGED <<got, requests, parentVars, handlerVars, clientQueue,
                     dropped>>
      /\ session[c] = "live" /\ session' = [session EXCEPT ![c] = "ended"]
      /\ copy' = [copy EXCEPT ![c] = NoCopy] /\ UNCHANGED adopted
      /\ client[c] \in {"connected", "killed", "quit"}
      /\ client'[c] = IF client[c] = "killed" THEN "killed" ELSE "quit"
      /\ \A d \in Clients : d # c => client'[d] = client[d]
  BY <1>0 DEF SessionEnds, Leaves, TypeOK, tableVars
<1>2. ASSUME NEW d \in Clients
      PROVE  /\ reader'[d] = IF d = c THEN FALSE ELSE reader[d]
             /\ data'[d] \in {data[d], <<>>}
             /\ reader'[d] => data'[d] = data[d]
  <2> DEFINE R == [reader EXCEPT ![c] = FALSE]
             W == [x \in Clients |-> writers[x] \ {c}]
  <2>1. R \in [Clients -> BOOLEAN] /\ Fifos(R, W)
    BY <1>0 DEF SessionEnds, TypeOK
  <2>2. R[d] = IF d = c THEN FALSE ELSE reader[d]
    BY <1>0 DEF TypeOK
  <2> HIDE DEF R, W
  <2>3. /\ reader'[d] = R[d]
        /\ data'[d] \in {data[d], <<>>}
        /\ R[d] => data'[d] = data[d]
    BY <2>1, FifosKeep
  <2> QED BY <2>2, <2>3
<1>3. ASSUME NEW d \in Clients
      PROVE  /\ InOnePlace(d)' /\ HowFar(d)' /\ ToldRightly(d)'
             /\ WelcomeAhead(d)'
  <2>0. InOnePlace(d) /\ HowFar(d) /\ ToldRightly(d) /\ WelcomeAhead(d)
    BY DEF PlacesInv
  <2>1. /\ HowFar(d)'
        /\ client[d] = "read" => client'[d] = "read"
        /\ client[d] = "killed" => client'[d] = "killed"
        /\ client'[d] = "read" => reader'[d]
        /\ client'[d] \notin {"semWait", "send"} \/ client'[d] = client[d]
    BY <1>1, <1>2, <2>0 DEF HowFar
  <2>2. /\ Untold(d) => Untold(d)'
        /\ \A r \in Responses : Told(d, r) => Told(d, r)'
        /\ Welcomed(d)' => Welcomed(d)
    BY <1>1, <1>2, <2>1, StillTold
  <2>3. /\ (Begun(d)' <=> Begun(d)) /\ (Asked(d)' <=> Asked(d))
        /\ Copied(d)' => Copied(d)
    <3>1. Copied(d)' => Copied(d)
      BY <1>0, <1>1, CopyGone
    <3> QED BY <1>0, <1>1, <3>1 DEF Begun, Asked, TypeOK
  <2> QED BY <1>1, <2>0, <2>1, <2>2, <2>3, ServerStill
<1> QED BY <1>1, <1>3 DEF PlacesInv

LEMMA PlacesAtCrash ==
  ASSUME Inv, PlacesInv, NEW c \in Clients, SessionCrashes(c)
  PROVE  PlacesInv'
<1>0. TypeOK
  BY DEF Inv
<1>1. /\ UNCHANGED <<client, got, data, reader, requests, parentVars,
                     handlerVars, clientQueue, adopted, dropped>>
      /\ session[c] = "live" /\ session' = [session EXCEPT ![c] = "ended"]
      /\ copy' = [copy EXCEPT ![c] = NoCopy]
  BY DEF SessionCrashes, SessionMove, tableVars
<1>2. ASSUME NEW d \in Clients
      PROVE  /\ InOnePlace(d)' /\ HowFar(d)' /\ ToldRightly(d)'
             /\ WelcomeAhead(d)'
  <2>0. InOnePlace(d) /\ HowFar(d) /\ ToldRightly(d) /\ WelcomeAhead(d)
    BY DEF PlacesInv
  <2>1. /\ Untold(d)' <=> Untold(d)
        /\ \A r \in Responses : Told(d, r)' <=> Told(d, r)
        /\ Welcomed(d)' <=> Welcomed(d)
        /\ HowFar(d)' <=> HowFar(d)
    BY <1>1 DEF Untold, Told, Welcomed, HowFar
  <2>2. (Begun(d)' <=> Begun(d)) /\ (Asked(d)' <=> Asked(d))
    BY <1>0, <1>1 DEF Begun, Asked, TypeOK
  <2>3. Copied(d)' => Copied(d)
    BY <1>0, <1>1, CopyGone
  <2> QED BY <1>1, <2>0, <2>1, <2>2, <2>3, ServerStill
<1> QED BY <1>1, <1>2 DEF PlacesInv

(* Who is admitted from a copy was in the queue when it was made: the      *)
(* server does not know of him in any place he has not told him of.        *)
LEMMA PlacesAtAdmission ==
  ASSUME Inv, PlacesInv, NEW c \in Clients,
         ArchiveAdmits(c) \/ SessionAdmits(c)
  PROVE  PlacesInv'
<1>0. TypeOK
  BY DEF Inv
<1>1. /\ UNCHANGED <<client, got, reader, requests, parentVars, handlerVars,
                     clientQueue, session>>
      /\ copy[c].queue # <<>> /\ AdmitFrom(copy[c].queue)
  BY DEF ArchiveAdmits, SessionAdmits, SessionMove, tableVars
<1>2. copy[c].queue \in Seq(Clients)
  BY <1>0 DEF TypeOK
<1>3. /\ Head(copy[c].queue) \in Clients
      /\ In(copy[c].queue, Head(copy[c].queue))
      /\ \A d : In(Tail(copy[c].queue), d) => In(copy[c].queue, d)
  BY <1>1, <1>2, InTail
<1>4. PICK h \in Clients : h = Head(copy[c].queue)
  BY <1>3
<1>5. Copied(h)
  BY <1>3, <1>4 DEF Copied
<1>6. /\ dropped \subseteq dropped'
      /\ \A d \in Clients : d # h => /\ data'[d] = data[d]
                                     /\ adopted'[d] = adopted[d]
      /\ \/ data'[h] = data[h] /\ adopted'[h] = adopted[h]
         \/ adopted'[h] # "none"
  <2>1. CASE UNCHANGED <<data, adopted, dropped>>
    BY <2>1
  <2>2. CASE /\ data' = [data EXCEPT ![h] = Append(@, "welcome")]
             /\ \/ /\ adopted' = [adopted EXCEPT ![h] = "live"]
                   /\ UNCHANGED dropped
                \/ /\ dropped' = dropped \cup {h}
                   /\ adopted' = [adopted EXCEPT ![h] =
                                    IF @ = "live" THEN @ ELSE "over"]
    BY <1>0, <2>2 DEF TypeOK
  <2> QED BY <1>1, <1>4, <2>1, <2>2 DEF AdmitFrom
<1>7. ASSUME NEW d \in Clients PROVE Copied(d)' => Copied(d)
  <2>1. \A e \in Clients : In(copy'[e].queue, d) => In(copy[e].queue, d)
    <3>1. CASE ArchiveAdmits(c)
      <4>1. \A e \in Clients : copy'[e].queue = copy[e].queue
        BY <1>0, <3>1 DEF ArchiveAdmits, TypeOK
      <4> QED BY <4>1
    <3>2. CASE SessionAdmits(c)
      <4>1. \A e \in Clients : \/ copy'[e].queue = copy[e].queue
                               \/ e = c /\ copy'[e].queue = Tail(copy[c].queue)
        BY <1>0, <3>2 DEF SessionAdmits, TypeOK
      <4> QED BY <1>3, <4>1
    <3> QED BY <3>1, <3>2
  <2>2. CASE d = h
    BY <1>5, <2>2
  <2>3. CASE d # h
    BY <1>6, <2>1, <2>3 DEF Copied
  <2> QED BY <2>2, <2>3
<1>8. ASSUME NEW d \in Clients
      PROVE  /\ InOnePlace(d)' /\ HowFar(d)' /\ ToldRightly(d)'
             /\ WelcomeAhead(d)'
  <2>0. InOnePlace(d) /\ HowFar(d) /\ ToldRightly(d) /\ WelcomeAhead(d)
    BY DEF PlacesInv
  <2>1. /\ Asked(d)' <=> Asked(d)
        /\ Served(d)' <=> Served(d)
        /\ Queued(d)' <=> Queued(d)
        /\ Admitted(d)' <=> Admitted(d)
        /\ Begun(d)' <=> Begun(d)
    BY <1>1 DEF Asked, Served, Queued, Admitted, Begun, parentVars, handlerVars
  <2>2. InOnePlace(d)'
    BY <1>1, <1>7, <2>0, <2>1 DEF InOnePlace
  <2>3. HowFar(d)'
    BY <1>1, <2>0 DEF HowFar
  <2>4. UNCHANGED <<parent, serving, response, handler, admitting>>
    BY <1>1 DEF parentVars, handlerVars
  <2>5. CASE data'[d] = data[d] /\ adopted'[d] = adopted[d]
    <3>1. /\ Untold(d)' <=> Untold(d)
          /\ \A r : Told(d, r)' <=> Told(d, r)
          /\ Welcomed(d)' <=> Welcomed(d)
      BY <1>1, <2>5 DEF Untold, Told, Welcomed
    <3>2. ToldRightly(d)'
      BY <1>1, <2>0, <2>1, <2>4, <3>1 DEF ToldRightly
    <3>3. WelcomeAhead(d)'
      BY <1>6, <2>0, <2>1, <2>4, <2>5, <3>1 DEF WelcomeAhead
    <3> QED BY <2>2, <2>3, <3>2, <3>3
  <2>6. CASE d = h /\ adopted'[d] # "none"
    <3>1. /\ ~Asked(d)' /\ ~Served(d)'
          /\ client'[d] \notin {"semWait", "send"}
      BY <1>1, <1>5, <2>0, <2>1, <2>6 DEF InOnePlace
    <3>2. \A r : Told(d, r)'
      BY <2>6 DEF Told
    <3> QED BY <2>2, <2>3, <2>6, <3>1, <3>2 DEF ToldRightly, WelcomeAhead
  <2> QED BY <1>6, <2>5, <2>6
<1> QED BY <1>1, <1>8 DEF PlacesInv

(* The sessions other sessions forked for a client are over.               *)
LEMMA PlacesAtLast ==
  ASSUME Inv, PlacesInv, NEW c \in Clients, AdoptedEnds(c)
  PROVE  PlacesInv'
<1>0. TypeOK
  BY DEF Inv
<1>1. /\ UNCHANGED <<got, requests, parentVars, handlerVars, clientQueue,
                     session, copy, dropped>>
      /\ adopted[c] = "live" /\ adopted' = [adopted EXCEPT ![c] = "over"]
      /\ client[c] \in {"connected", "killed", "quit"}
      /\ client'[c] = IF client[c] = "killed" THEN "killed" ELSE "quit"
      /\ \A d \in Clients : d # c => client'[d] = client[d]
  BY <1>0 DEF AdoptedEnds, Leaves, TypeOK, tableVars
<1>2. ASSUME NEW d \in Clients
      PROVE  /\ reader'[d] = IF d = c THEN FALSE ELSE reader[d]
             /\ data'[d] \in {data[d], <<>>}
             /\ reader'[d] => data'[d] = data[d]
  <2> DEFINE R == [reader EXCEPT ![c] = FALSE]
  <2>1. R \in [Clients -> BOOLEAN] /\ Fifos(R, writers)
    BY <1>0 DEF AdoptedEnds, TypeOK
  <2>2. R[d] = IF d = c THEN FALSE ELSE reader[d]
    BY <1>0 DEF TypeOK
  <2> HIDE DEF R
  <2>3. /\ reader'[d] = R[d]
        /\ data'[d] \in {data[d], <<>>}
        /\ R[d] => data'[d] = data[d]
    BY <2>1, FifosKeep
  <2> QED BY <2>2, <2>3
<1>3. ASSUME NEW d \in Clients
      PROVE  /\ InOnePlace(d)' /\ HowFar(d)' /\ ToldRightly(d)'
             /\ WelcomeAhead(d)'
  <2>0. InOnePlace(d) /\ HowFar(d) /\ ToldRightly(d) /\ WelcomeAhead(d)
    BY DEF PlacesInv
  <2>1. /\ HowFar(d)'
        /\ client[d] = "read" => client'[d] = "read"
        /\ client[d] = "killed" => client'[d] = "killed"
        /\ client'[d] = "read" => reader'[d]
        /\ client'[d] \notin {"semWait", "send"} \/ client'[d] = client[d]
    BY <1>1, <1>2, <2>0 DEF HowFar
  <2>2. adopted[d] # "none" <=> adopted'[d] # "none"
    BY <1>0, <1>1 DEF TypeOK
  <2>3. /\ Untold(d) => Untold(d)'
        /\ \A r \in Responses : Told(d, r) => Told(d, r)'
        /\ Welcomed(d)' => Welcomed(d)
    BY <1>1, <1>2, <2>1, <2>2, StillTold
  <2>4. /\ (Begun(d)' <=> Begun(d)) /\ (Asked(d)' <=> Asked(d))
        /\ Copied(d)' => Copied(d)
    BY <1>1, <2>2 DEF Begun, Asked, Copied
  <2> QED BY <1>1, <2>0, <2>1, <2>2, <2>3, <2>4, ServerStill
<1> QED BY <1>1, <1>3 DEF PlacesInv

-----------------------------------------------------------------------------
(* What a client was told depends on these only.                           *)
LEMMA SameTelling ==
  ASSUME NEW d \in Clients, UNCHANGED <<client, got, data, reader, adopted>>
  PROVE  /\ Untold(d)' <=> Untold(d)
         /\ \A r \in Responses : Told(d, r)' <=> Told(d, r)
         /\ Welcomed(d)' <=> Welcomed(d)
         /\ HowFar(d)' <=> HowFar(d)
  BY DEF Untold, Told, Welcomed, HowFar

LEMMA PlacesAtRequest ==
  ASSUME Inv, PlacesInv, ReadRequest
  PROVE  PlacesInv'
<1>0. TypeOK
  BY DEF Inv
<1>1. /\ UNCHANGED <<client, got, data, reader, handler, admitting,
                     clientQueue, session, copy, adopted, dropped>>
      /\ parent = "read" /\ parent' = "open"
      /\ requests # <<>> /\ requests' = Tail(requests)
      /\ serving' = Head(requests)
  BY DEF ReadRequest, ParentMove, fifoVars, handlerVars, tableVars
<1>2. /\ Once(Tail(requests)) /\ In(requests, Head(requests))
      /\ \A c : In(Tail(requests), c) <=> In(requests, c) /\ c # Head(requests)
  <2>1. requests \in Seq(Clients) /\ Once(requests)
    BY <1>0 DEF TypeOK, PlacesInv
  <2> QED BY <1>1, <2>1, OnceTail
<1>3. ASSUME NEW d \in Clients
      PROVE  InOnePlace(d)' /\ HowFar(d)' /\ ToldRightly(d)' /\ WelcomeAhead(d)'
  <2>0. InOnePlace(d) /\ HowFar(d) /\ ToldRightly(d) /\ WelcomeAhead(d)
    BY DEF PlacesInv
  <2>1. /\ Asked(d)' <=> Asked(d) /\ d # Head(requests)
        /\ Served(d)' <=> d = Head(requests)
        /\ Queued(d)' <=> Queued(d)
        /\ Admitted(d)' <=> Admitted(d)
        /\ Begun(d)' <=> Begun(d)
        /\ Copied(d)' <=> Copied(d)
    BY <1>1, <1>2 DEF Asked, Served, Queued, Admitted, Begun, Copied
  <2>2. d = Head(requests) => Asked(d)
    BY <1>2 DEF Asked
  <2>3. /\ Untold(d)' <=> Untold(d)
        /\ \A r \in Responses : Told(d, r)' <=> Told(d, r)
        /\ Welcomed(d)' <=> Welcomed(d)
        /\ HowFar(d)' <=> HowFar(d)
    BY <1>1, SameTelling
  <2>4. InOnePlace(d)'
    BY <1>1, <2>0, <2>1, <2>2 DEF InOnePlace
  <2>5. "wait" \in Responses
    BY DEF Responses
  <2>6. ToldRightly(d)'
    BY <1>1, <2>0, <2>1, <2>2, <2>3, <2>5 DEF ToldRightly
  <2>7. WelcomeAhead(d)'
    BY <1>1, <2>0, <2>1, <2>3 DEF WelcomeAhead
  <2> QED BY <2>0, <2>3, <2>4, <2>6, <2>7
<1> QED BY <1>1, <1>2, <1>3 DEF PlacesInv

(* The steps of the parent that leave the FIFOs alone.                     *)
LEMMA PlacesAtParent ==
  ASSUME Inv, PlacesInv,
         \/ OpenResponse \/ OpenResponseFails \/ SemPost \/ EnqueueClient
         \/ Fork \/ ForkFails \/ LoadCount \/ StoreCount
  PROVE  PlacesInv'
<1>0. TypeOK /\ StagesOK
  BY DEF Inv
<1>1. /\ UNCHANGED <<client, got, data, reader, requests, serving, response,
                     handler, admitting, adopted>>
      /\ dropped \subseteq dropped'
      /\ parent \notin {"read", "write", "close"}
  BY DEF OpenResponse, OpenResponseFails, SemPost, EnqueueClient, Fork,
         ForkFails, LoadCount, StoreCount, TestSize, FirstClient,
         AppendClient, LoadSize, StoreSize, EnqueueMove, ParentMove,
         OpenForWriting, fifoVars, handlerVars
<1>2. serving \in Clients
  BY <1>0, <1>1 DEF TypeOK
<1>3. /\ Fork => session' = [session EXCEPT ![serving] = "live"]
      /\ Fork => copy' = [copy EXCEPT ![serving] =
                     [queue |-> clientQueue, size |-> size, archived |-> FALSE]]
      /\ ~Fork => UNCHANGED <<session, copy>>
      /\ ForkFails => serving \in dropped'
      /\ Fork => parent' = "load"
      /\ parent = "fork" => Fork \/ ForkFails
      /\ OpenResponse => reader[serving]
  BY DEF OpenResponse, OpenResponseFails, SemPost, EnqueueClient, Fork,
         ForkFails, LoadCount, StoreCount, TestSize, FirstClient,
         AppendClient, LoadSize, StoreSize, EnqueueMove, ParentMove,
         OpenForWriting
<1>4. \/ parent' \in {"read", "load", "store", "loadSize", "storeSize"}
      \/ OpenResponse /\ parent = "open" /\ parent' = "write"
      \/ /\ parent \in {"semPost", "enqueue"}
         /\ parent' \in {"enqueue", "first", "append"}
  BY DEF OpenResponse, OpenResponseFails, SemPost, EnqueueClient, Fork,
         ForkFails, LoadCount, StoreCount, TestSize, FirstClient,
         AppendClient, LoadSize, StoreSize, EnqueueMove, ParentMove
<1>5. /\ Once(clientQueue')
      /\ \/ \A c : In(clientQueue', c) => In(clientQueue, c)
         \/ /\ parent' = "loadSize" /\ response = "wait" /\ Served(serving)
            /\ parent \notin {"open", "write"}
            /\ \A c : In(clientQueue', c) => In(clientQueue, c) \/ c = serving
  <2>1. CASE FirstClient
    <3>1. /\ clientQueue' = <<serving>> /\ parent = "first"
          /\ parent' = "loadSize"
      BY <2>1 DEF FirstClient, EnqueueMove, ParentMove
    <3>2. response = "wait" /\ Served(serving)
      BY <1>0, <3>1 DEF StagesOK, Served
    <3> QED BY <3>1, <3>2, EmptyAndOne
  <2>2. CASE AppendClient
    <3>1. /\ clientQueue' = IF clientQueue = <<>> THEN <<>>
                            ELSE Append(clientQueue, serving)
          /\ parent = "append" /\ parent' = "loadSize"
      BY <2>2 DEF AppendClient, EnqueueMove, ParentMove
    <3>2. response = "wait" /\ Served(serving)
      BY <1>0, <3>1 DEF StagesOK, Served
    <3>3. Once(clientQueue) /\ ~In(clientQueue, serving)
      BY <1>2, <3>2 DEF PlacesInv, InOnePlace, Queued
    <3>4. clientQueue \in Seq(Clients)
      BY <1>0 DEF TypeOK
    <3>5. /\ Once(Append(clientQueue, serving))
          /\ \A c : In(Append(clientQueue, serving), c)
                      <=> In(clientQueue, c) \/ c = serving
      BY <1>2, <3>3, <3>4, OnceAppend
    <3> QED BY <3>1, <3>2, <3>3, <3>5
  <2>3. CASE ~FirstClient /\ ~AppendClient
    <3>1. UNCHANGED clientQueue
      BY <2>3
      DEF OpenResponse, OpenResponseFails, SemPost, EnqueueClient, Fork,
          ForkFails, LoadCount, StoreCount, TestSize, LoadSize, StoreSize,
          tableVars
    <3> QED BY <3>1 DEF PlacesInv
  <2> QED BY <2>1, <2>2, <2>3
<1>6. ASSUME NEW d \in Clients
      PROVE  InOnePlace(d)' /\ HowFar(d)' /\ ToldRightly(d)' /\ WelcomeAhead(d)'
  <2>0. InOnePlace(d) /\ HowFar(d) /\ ToldRightly(d) /\ WelcomeAhead(d)
    BY DEF PlacesInv
  <2>1. /\ Asked(d)' <=> Asked(d)
        /\ Served(d)' => Served(d)
        /\ Admitted(d)' <=> Admitted(d)
    BY <1>1, <1>4 DEF Asked, Served, Admitted
  <2>2. Queued(d)' => \/ Queued(d)
                      \/ /\ parent' = "loadSize" /\ response = "wait"
                         /\ Served(d) /\ parent \notin {"open", "write"}
    BY <1>5 DEF Queued
  <2>3. \/ Begun(d)' <=> Begun(d)
        \/ Fork /\ d = serving
    BY <1>0, <1>3 DEF Begun, TypeOK
  <2>4. parent' \in {"loadSize", "load"} => ~Served(d)'
    BY DEF Served
  <2>5. Fork => parent = "fork" /\ parent' = "load"
    BY DEF Fork, ParentMove
  <2>6. Fork /\ d = serving => Served(d)
    BY <2>5 DEF Served
  <2>7. Fork => (Queued(d)' => Queued(d))
    BY <2>2, <2>5
  <2>c. Copied(d)' => Copied(d) \/ Queued(d)
    <3>1. CASE ~Fork
      BY <1>1, <1>3, <3>1 DEF Copied
    <3>2. CASE Fork
      <4> DEFINE made == [queue |-> clientQueue, size |-> size,
                          archived |-> FALSE]
      <4>0. copy' = [copy EXCEPT ![serving] = made] /\ made.queue = clientQueue
        BY <1>3, <3>2
      <4> HIDE DEF made
      <4>1. \A e \in Clients : \/ copy'[e] = copy[e]
                               \/ copy'[e].queue = clientQueue
        BY <1>0, <4>0 DEF TypeOK
      <4> QED BY <1>1, <4>1 DEF Copied, Queued
    <3> QED BY <3>1, <3>2
  <2>8. InOnePlace(d)'
    <3>1. CASE Fork /\ d = serving
      BY <1>1, <2>0, <2>1, <2>4, <2>5, <2>6, <2>7, <2>c, <3>1 DEF InOnePlace
    <3>2. CASE Begun(d)' <=> Begun(d)
      BY <1>1, <2>0, <2>1, <2>2, <2>4, <2>c, <3>2 DEF InOnePlace
    <3> QED BY <2>3, <3>1, <3>2
  <2>9. /\ Untold(d)' <=> Untold(d)
        /\ \A r \in Responses : Told(d, r)' <=> Told(d, r)
        /\ Welcomed(d)' <=> Welcomed(d)
        /\ HowFar(d)' <=> HowFar(d)
    BY <1>1, SameTelling
  <2>10. "wait" \in Responses /\ response \in Responses
    BY <1>0 DEF Responses, TypeOK
  <2>11. ToldRightly(d)'
    <3>1. /\ client'[d] \in {"semWait", "send"} \/ Asked(d)' => Untold(d)'
          /\ Admitted(d)' /\ handler' \in {"open", "write"} => Told(d, "wait")'
      BY <1>1, <2>0, <2>1, <2>9, <2>10 DEF ToldRightly
    <3>2. Queued(d)' => Told(d, "wait")'
      BY <2>0, <2>2, <2>9, <2>10 DEF ToldRightly
    <3>3. CASE Served(d)' /\ parent' \in {"open", "write"}
      <4>1. /\ OpenResponse /\ parent = "open" /\ parent' = "write"
            /\ Served(d) /\ serving = d
        BY <1>4, <2>1, <3>3 DEF Served
      <4>2. Untold(d) /\ reader[d]
        BY <1>3, <2>0, <4>1 DEF ToldRightly
      <4>3. client[d] \in {"read", "killed"}
        BY <2>0, <4>2 DEF HowFar, Untold
      <4> QED BY <1>1, <2>9, <3>1, <3>2, <4>1, <4>2, <4>3 DEF ToldRightly
    <3>4. CASE Served(d)' /\ parent' \notin {"open", "write"}
      <4>1. Served(d) /\ parent \notin {"open", "write"}
        BY <1>4, <2>1, <3>4 DEF Served
      <4>2. Told(d, response)'
        BY <1>1, <2>0, <2>9, <2>10, <4>1 DEF ToldRightly
      <4> QED BY <3>1, <3>2, <3>4, <4>2 DEF ToldRightly
    <3>5. CASE ~Served(d)'
      BY <3>1, <3>2, <3>5 DEF ToldRightly
    <3> QED BY <3>3, <3>4, <3>5
  <2>12. WelcomeAhead(d)'
    <3>1. Begun(d) \/ (Fork /\ d = serving) => Begun(d)'
      BY <1>0, <1>2, <1>3, <2>3 DEF Begun, TypeOK
    <3> QED BY <1>1, <1>3, <2>0, <2>9, <3>1 DEF WelcomeAhead
  <2> QED BY <2>0, <2>8, <2>9, <2>11, <2>12
<1>7. Once(requests)'
  BY <1>1 DEF PlacesInv
<1> QED BY <1>5, <1>6, <1>7 DEF PlacesInv

LEMMA PlacesAtWrite ==
  ASSUME Inv, PlacesInv, WriteResponse
  PROVE  PlacesInv'
<1>0. TypeOK
  BY DEF Inv
<1>1. /\ UNCHANGED <<client, got, reader, requests, serving, response,
                     handler, admitting, clientQueue, session, copy, adopted,
                     dropped>>
      /\ parent = "write" /\ parent' = "close"
      /\ data' = IF reader[serving]
                 THEN [data EXCEPT ![serving] = Append(@, response)] ELSE data
  BY DEF WriteResponse, WriteTo, ParentMove, handlerVars, tableVars
<1>2. serving \in Clients /\ response \in Responses
  BY <1>0, <1>1 DEF TypeOK
<1>3. Served(serving) /\ Served(serving)'
  BY <1>1 DEF Served
<1>4. /\ InOnePlace(serving) /\ HowFar(serving) /\ ToldRightly(serving)
  BY <1>2 DEF PlacesInv
<1>5. /\ Untold(serving) /\ client[serving] \in {"read", "killed"}
  BY <1>1, <1>3, <1>4 DEF ToldRightly
<1>6. Told(serving, response)'
  <2>1. CASE reader[serving]
    <3>1. data'[serving] = Append(<<>>, response)
      BY <1>0, <1>1, <1>2, <1>5, <2>1 DEF Untold, TypeOK
    <3>2. Append(<<>>, response) = <<response>>
      OBVIOUS
    <3> QED BY <1>1, <1>5, <3>1, <3>2 DEF Told, Untold
  <2>2. CASE ~reader[serving]
    BY <1>1, <1>4, <1>5, <2>2 DEF HowFar, Told, Untold
  <2> QED BY <2>1, <2>2
<1>7. ASSUME NEW d \in Clients
      PROVE  InOnePlace(d)' /\ HowFar(d)' /\ ToldRightly(d)' /\ WelcomeAhead(d)'
  <2>0. InOnePlace(d) /\ HowFar(d) /\ ToldRightly(d) /\ WelcomeAhead(d)
    BY DEF PlacesInv
  <2>1. /\ Asked(d)' <=> Asked(d)
        /\ Served(d)' <=> Served(d)
        /\ Queued(d)' <=> Queued(d)
        /\ Admitted(d)' <=> Admitted(d)
        /\ Begun(d)' <=> Begun(d)
        /\ InOnePlace(d)' /\ HowFar(d)'
    <3>1. /\ Asked(d)' <=> Asked(d)
          /\ Served(d)' <=> Served(d)
          /\ Queued(d)' <=> Queued(d)
          /\ Admitted(d)' <=> Admitted(d)
          /\ Begun(d)' <=> Begun(d)
          /\ Copied(d)' <=> Copied(d)
      BY <1>1 DEF Asked, Served, Queued, Admitted, Begun, Copied
    <3> QED BY <1>1, <2>0, <3>1 DEF InOnePlace, HowFar
  <2>2. CASE d = serving
    <3>1. ~Asked(d)' /\ ~Queued(d)' /\ ~Admitted(d)'
          /\ client'[d] \notin {"semWait", "send"}
      BY <1>3, <2>1, <2>2 DEF InOnePlace
    <3>2. ToldRightly(d)'
      BY <1>1, <1>6, <2>2, <3>1 DEF ToldRightly
    <3>3. WelcomeAhead(d)'
      BY <1>1, <2>2 DEF WelcomeAhead
    <3> QED BY <2>1, <3>2, <3>3
  <2>3. CASE d # serving
    <3>1. UNCHANGED <<client, got, reader, adopted>> /\ data'[d] = data[d]
      BY <1>0, <1>1, <2>3 DEF TypeOK
    <3>2. /\ Untold(d)' <=> Untold(d)
          /\ \A r \in Responses : Told(d, r)' <=> Told(d, r)
          /\ Welcomed(d)' <=> Welcomed(d)
      BY <3>1 DEF Untold, Told, Welcomed
    <3>3. ~Served(d) /\ "wait" \in Responses
      BY <2>3 DEF Served, Responses
    <3>4. ToldRightly(d)'
      BY <1>1, <2>0, <2>1, <3>2, <3>3 DEF ToldRightly
    <3>5. WelcomeAhead(d)'
      BY <1>1, <2>0, <2>1, <2>3, <3>2 DEF WelcomeAhead
    <3> QED BY <2>1, <3>4, <3>5
  <2> QED BY <2>2, <2>3
<1> QED BY <1>1, <1>7 DEF PlacesInv

(* Closing: what a killed client has not read is lost.                     *)
LEMMA PlacesAtClose ==
  ASSUME Inv, PlacesInv, CloseResponse
  PROVE  PlacesInv'
<1>0. TypeOK
  BY DEF Inv
<1>1. /\ UNCHANGED <<client, got, requests, serving, response,
                     handler, admitting, clientQueue, session, copy, adopted,
                     dropped>>
      /\ parent = "close"
      /\ parent' = IF response = "welcome" THEN "fork" ELSE "semPost"
  BY DEF CloseResponse, ParentMove, handlerVars, tableVars
<1>2. ASSUME NEW d \in Clients
      PROVE  InOnePlace(d)' /\ HowFar(d)' /\ ToldRightly(d)' /\ WelcomeAhead(d)'
  <2>0. InOnePlace(d) /\ HowFar(d) /\ ToldRightly(d) /\ WelcomeAhead(d)
    BY DEF PlacesInv
  <2>1. /\ reader'[d] = reader[d]
        /\ data'[d] \in {data[d], <<>>}
        /\ reader[d] => data'[d] = data[d]
    <3>1. reader \in [Clients -> BOOLEAN]
      BY <1>0 DEF TypeOK
    <3> DEFINE W == [writers EXCEPT ![serving] = @ \ {"parent"}]
    <3>2. Fifos(reader, W)
      BY DEF CloseResponse
    <3> HIDE DEF W
    <3> QED BY <3>1, <3>2, FifosKeep
  <2>2. HowFar(d)'
    BY <1>1, <2>0, <2>1 DEF HowFar
  <2>3. /\ Untold(d) => Untold(d)'
        /\ \A r \in Responses : Told(d, r) => Told(d, r)'
        /\ Welcomed(d)' => Welcomed(d)
    BY <1>1, <2>0, <2>1, StillTold DEF HowFar
  <2>4. /\ Asked(d)' <=> Asked(d)
        /\ Served(d)' <=> Served(d)
        /\ Queued(d)' <=> Queued(d)
        /\ Admitted(d)' <=> Admitted(d)
        /\ Begun(d)' <=> Begun(d)
        /\ Copied(d)' <=> Copied(d)
    BY <1>1 DEF Asked, Served, Queued, Admitted, Begun, Copied
  <2>5. InOnePlace(d)'
    BY <1>1, <2>0, <2>4 DEF InOnePlace
  <2>6. "wait" \in Responses /\ response \in Responses
    BY <1>0 DEF Responses, TypeOK
  <2>7. ToldRightly(d)'
    <3>1. /\ client'[d] \in {"semWait", "send"} \/ Asked(d)' => Untold(d)'
          /\ Queued(d)' => Told(d, "wait")'
          /\ Admitted(d)' /\ handler' \in {"open", "write"} => Told(d, "wait")'
      BY <1>1, <2>0, <2>3, <2>4, <2>6 DEF ToldRightly
    <3>2. Served(d)' => Told(d, response)
      BY <1>1, <2>0, <2>4 DEF ToldRightly
    <3>3. Served(d)' => Told(d, response)'
      BY <1>1, <2>3, <2>6, <3>2
    <3>4. parent' \notin {"open", "write"}
      BY <1>1
    <3> QED BY <3>1, <3>3, <3>4 DEF ToldRightly
  <2>8. WelcomeAhead(d)'
    <3>1. CASE serving = d /\ response # "welcome"
      <4>1. Told(d, response)
        BY <1>1, <2>0, <3>1 DEF ToldRightly, Served
      <4>2. ~Welcomed(d)' \/ adopted[d] # "none"
        BY <2>3, <2>6, <3>1, <4>1, ToldNoWelcome
      <4> QED BY <1>1, <4>2 DEF WelcomeAhead
    <3>2. CASE ~(serving = d /\ response # "welcome")
      BY <1>1, <2>0, <2>3, <2>4, <3>2 DEF WelcomeAhead
    <3> QED BY <3>1, <3>2
  <2> QED BY <2>2, <2>5, <2>7, <2>8
<1> QED BY <1>1, <1>2 DEF PlacesInv

(* The handler starts: the head of the queue is taken off it, or nobody    *)
(* is, and the parent may give up on the client it serves.                 *)
LEMMA PlacesAtSignal ==
  ASSUME Inv, PlacesInv, TakeSignal
  PROVE  PlacesInv'
<1>0. TypeOK
  BY DEF Inv
<1>1. /\ UNCHANGED <<client, got, data, reader, requests, serving, response,
                     session, copy, adopted>>
      /\ handler = "idle" /\ dropped \subseteq dropped'
      /\ \/ UNCHANGED parent
         \/ parent = "open" /\ parent' = "read"
  BY DEF TakeSignal, Interrupted, fifoVars, parentVars
<1>2. /\ Once(clientQueue')
      /\ \/ UNCHANGED <<handler, admitting, clientQueue>>
         \/ /\ handler' = "open" /\ In(clientQueue, admitting')
            /\ \A c : In(clientQueue', c)
                        <=> In(clientQueue, c) /\ c # admitting'
  <2>1. clientQueue \in Seq(Clients \ TryClients) /\ Once(clientQueue)
    BY <1>0 DEF TypeOK, PlacesInv
  <2>2. CASE UNCHANGED <<handler, admitting, clientQueue>>
    BY <2>1, <2>2
  <2>3. CASE /\ clientQueue # <<>>
             /\ handler' = "open" /\ admitting' = Head(clientQueue)
             /\ clientQueue' = Tail(clientQueue)
    BY <2>1, <2>3, OnceTail
  <2> QED BY <2>2, <2>3 DEF TakeSignal, Dequeue
<1>3. ASSUME NEW d \in Clients
      PROVE  InOnePlace(d)' /\ HowFar(d)' /\ ToldRightly(d)' /\ WelcomeAhead(d)'
  <2>0. InOnePlace(d) /\ HowFar(d) /\ ToldRightly(d) /\ WelcomeAhead(d)
    BY DEF PlacesInv
  <2>1. /\ Asked(d)' <=> Asked(d)
        /\ Served(d)' => Served(d)
        /\ Served(d)' => parent' = parent
        /\ ~Admitted(d)
        /\ Begun(d)' <=> Begun(d)
        /\ Copied(d)' <=> Copied(d)
    BY <1>1 DEF Asked, Served, Admitted, Begun, Copied
  <2>2. /\ Queued(d)' => Queued(d)
        /\ Admitted(d)' => Queued(d) /\ ~Queued(d)'
    BY <1>1, <1>2 DEF Queued, Admitted
  <2>3. /\ Untold(d)' <=> Untold(d)
        /\ \A r \in Responses : Told(d, r)' <=> Told(d, r)
        /\ Welcomed(d)' <=> Welcomed(d)
        /\ HowFar(d)' <=> HowFar(d)
    BY <1>1, SameTelling
  <2>4. InOnePlace(d)'
    BY <1>1, <2>0, <2>1, <2>2 DEF InOnePlace
  <2>5. "wait" \in Responses /\ response \in Responses
    BY <1>0 DEF Responses, TypeOK
  <2>6. ToldRightly(d)'
    BY <1>1, <2>0, <2>1, <2>2, <2>3, <2>5 DEF ToldRightly
  <2>7. WelcomeAhead(d)'
    BY <1>1, <2>0, <2>1, <2>3 DEF WelcomeAhead
  <2> QED BY <2>0, <2>3, <2>4, <2>6, <2>7
<1> QED BY <1>1, <1>2, <1>3 DEF PlacesInv

LEMMA PlacesAtHandler ==
  ASSUME Inv, PlacesInv,
         \/ HandlerOpen \/ HandlerOpenFails \/ HandlerWrite \/ HandlerFork
         \/ HandlerForkFails
  PROVE  PlacesInv'
<1>0. TypeOK
  BY DEF Inv
<1>1. /\ UNCHANGED <<client, got, requests, parent, serving, response,
                     admitting, clientQueue, copy, adopted>>
      /\ handler # "idle" /\ dropped \subseteq dropped'
      /\ \/ HandlerOpen /\ handler' = "write" /\ UNCHANGED session
         \/ /\ HandlerWrite /\ handler = "write" /\ handler' = "fork"
            /\ UNCHANGED session
         \/ /\ handler' = "idle" /\ admitting \in dropped'
            /\ UNCHANGED session
         \/ /\ handler' = "idle"
            /\ session' = [session EXCEPT ![admitting] = "live"]
  BY DEF HandlerOpen, HandlerOpenFails, HandlerWrite, HandlerFork,
         HandlerForkFails, HandlerMove, parentVars
<1>2. admitting \in Clients
  BY <1>0, <1>1 DEF TypeOK
<1>3. ASSUME NEW d \in Clients
      PROVE  /\ reader'[d] = reader[d]
             /\ \/ data'[d] \in {data[d], <<>>}
                   /\ (reader[d] => data'[d] = data[d])
                \/ d = admitting /\ handler' = "fork"
  <2>1. CASE HandlerOpen \/ HandlerOpenFails
    BY <2>1 DEF HandlerOpen, HandlerOpenFails, OpenForWriting, fifoVars
  <2>2. CASE HandlerWrite
    BY <1>0, <2>2 DEF HandlerWrite, WriteTo, TypeOK, HandlerMove
  <2>3. CASE HandlerFork \/ HandlerForkFails
    <3>1. PICK w : Fifos(reader, w)
      BY <2>3 DEF HandlerFork, HandlerForkFails
    <3>2. reader \in [Clients -> BOOLEAN]
      BY <1>0 DEF TypeOK
    <3> QED BY <3>1, <3>2, FifosKeep
  <2> QED BY <2>1, <2>2, <2>3
<1>4. ASSUME NEW d \in Clients
      PROVE  InOnePlace(d)' /\ HowFar(d)' /\ ToldRightly(d)' /\ WelcomeAhead(d)'
  <2>0. InOnePlace(d) /\ HowFar(d) /\ ToldRightly(d) /\ WelcomeAhead(d)
    BY DEF PlacesInv
  <2>1. /\ Asked(d)' <=> Asked(d)
        /\ Served(d)' <=> Served(d)
        /\ Queued(d)' <=> Queued(d)
        /\ Admitted(d)' => Admitted(d)
        /\ d = admitting => Admitted(d)
        /\ Copied(d)' <=> Copied(d)
    BY <1>1 DEF Asked, Served, Queued, Admitted, Copied
  <2>2. \/ Begun(d)' <=> Begun(d)
        \/ Admitted(d) /\ ~Admitted(d)'
    BY <1>0, <1>1 DEF Begun, Admitted, TypeOK
  <2>3. InOnePlace(d)'
    BY <1>1, <2>0, <2>1, <2>2 DEF InOnePlace
  <2>4. HowFar(d)'
    BY <1>1, <1>3, <2>0 DEF HowFar
  <2>5. "wait" \in Responses /\ response \in Responses
    BY <1>0 DEF Responses, TypeOK
  <2>6. \/ d = admitting /\ handler' = "fork"
        \/ /\ Untold(d) => Untold(d)'
           /\ \A r \in Responses : Told(d, r) => Told(d, r)'
           /\ Welcomed(d)' => Welcomed(d)
    BY <1>1, <1>3, <2>0, StillTold DEF HowFar
  <2>7. CASE d = admitting /\ handler' = "fork"
    <3>1. /\ ~Asked(d)' /\ ~Served(d)' /\ ~Queued(d)'
          /\ client'[d] \notin {"semWait", "send"}
      BY <1>1, <2>0, <2>1, <2>7 DEF InOnePlace
    <3>2. ToldRightly(d)'
      BY <2>7, <3>1 DEF ToldRightly
    <3>3. WelcomeAhead(d)'
      BY <1>1, <2>7 DEF WelcomeAhead
    <3> QED BY <2>3, <2>4, <3>2, <3>3
  <2>8. CASE ~(d = admitting /\ handler' = "fork")
    <3>1. /\ Untold(d) => Untold(d)'
          /\ \A r \in Responses : Told(d, r) => Told(d, r)'
          /\ Welcomed(d)' => Welcomed(d)
      BY <2>6, <2>8
    <3>2. Admitted(d)' => HandlerOpen
      BY <1>1, <2>8 DEF Admitted
    <3>3. HandlerOpen => handler = "open"
      BY DEF HandlerOpen, HandlerMove
    <3>4. ToldRightly(d)'
      <4>1. /\ client'[d] \in {"semWait", "send"} \/ Asked(d)' => Untold(d)'
            /\ Queued(d)' => Told(d, "wait")'
        BY <1>1, <2>0, <2>1, <2>5, <3>1 DEF ToldRightly
      <4>2. Admitted(d)' /\ handler' \in {"open", "write"} => Told(d, "wait")'
        BY <2>0, <2>1, <2>5, <3>1, <3>2, <3>3 DEF ToldRightly
      <4>3. /\ Served(d)' /\ parent' \in {"open", "write"} => Untold(d)'
            /\ Served(d)' /\ parent' = "write" =>
                 client'[d] \in {"read", "killed"}
        BY <1>1, <2>0, <2>1, <3>1 DEF ToldRightly
      <4>4. Served(d)' /\ parent' \notin {"open", "write"} => Told(d, response)'
        <5>1. Served(d)' /\ parent' \notin {"open", "write"} =>
                Told(d, response)
          BY <1>1, <2>0, <2>1 DEF ToldRightly
        <5>2. Told(d, response) => Told(d, response)'
          BY <1>1, <2>5, <3>1
        <5> QED BY <5>1, <5>2
      <4> QED BY <4>1, <4>2, <4>3, <4>4 DEF ToldRightly
    <3>5. WelcomeAhead(d)'
      <4>1. Begun(d) => Begun(d)'
        BY <1>0, <1>1 DEF Begun, TypeOK
      <4>2. d = admitting => \/ Begun(d)' \/ d \in dropped' \/ ~Welcomed(d)'
                             \/ adopted[d] # "none"
        <5>1. CASE d = admitting /\ (HandlerOpen \/ HandlerWrite)
          <6>1. HandlerWrite => handler' = "fork"
            BY DEF HandlerWrite, HandlerMove
          <6>2. Admitted(d) /\ handler = "open"
            BY <2>1, <2>8, <3>3, <5>1, <6>1
          <6>3. Told(d, "wait")
            BY <2>0, <6>2 DEF ToldRightly
          <6> QED BY <2>5, <3>1, <6>3, ToldNoWelcome
        <5>2. CASE d = admitting /\ ~(HandlerOpen \/ HandlerWrite)
          <6>1. CASE admitting \in dropped'
            BY <5>2, <6>1
          <6>2. CASE session' = [session EXCEPT ![admitting] = "live"]
            <7>1. session'[admitting] = "live"
              BY <1>0, <1>2, <6>2 DEF TypeOK
            <7> QED BY <5>2, <7>1 DEF Begun
          <6> QED BY <1>1, <5>2, <6>1, <6>2
        <5> QED BY <5>1, <5>2
      <4> QED BY <1>1, <2>0, <3>1, <4>1, <4>2 DEF WelcomeAhead
    <3> QED BY <2>3, <2>4, <3>4, <3>5
  <2> QED BY <2>7, <2>8
<1> QED BY <1>1, <1>4 DEF PlacesInv

(* Nobody is ever in two places of the parent, and everybody was told what *)
(* fits the place, or was admitted from the copy of a session, which can   *)
(* happen only to who was put in the queue.                                *)
THEOREM EverybodyInPlace == Spec => []PlacesInv
<1>1. Init => PlacesInv
  <2> SUFFICES ASSUME Init PROVE PlacesInv
    OBVIOUS
  <2>1. Once(requests) /\ Once(clientQueue)
    BY EmptyAndOne DEF Init
  <2>2. ASSUME NEW d \in Clients
        PROVE  InOnePlace(d) /\ HowFar(d) /\ ToldRightly(d) /\ WelcomeAhead(d)
    <3>1. /\ ~Asked(d) /\ ~Served(d) /\ ~Queued(d) /\ ~Admitted(d) /\ ~Begun(d)
          /\ Untold(d) /\ ~Copied(d)
      BY EmptyAndOne
      DEF Init, Asked, Served, Queued, Admitted, Begun, Untold, Copied, NoCopy
    <3>2. HowFar(d)
      BY DEF Init, HowFar
    <3>3. ~Welcomed(d)
      BY <3>1, EmptyAndOne DEF Untold, Welcomed
    <3> QED BY <3>1, <3>2, <3>3 DEF InOnePlace, ToldRightly, WelcomeAhead
  <2> QED BY <2>1, <2>2 DEF PlacesInv
<1>2. Inv /\ PlacesInv /\ [Next]_vars => PlacesInv'
  <2> SUFFICES ASSUME Inv, PlacesInv, [Next]_vars PROVE PlacesInv'
    OBVIOUS
  <2>1. ASSUME NEW c \in Clients, ClientStep(c) \/ Sigterm(c) PROVE PlacesInv'
    BY <2>1, PlacesAtClient
  <2>2. ASSUME NEW c \in Clients, SessionStep(c) PROVE PlacesInv'
    BY <2>2, PlacesAtEnd, PlacesAtCrash, PlacesAtAdmission, PlacesAtLast
    DEF SessionStep
  <2>3. CASE ParentStep
    BY <2>3, PlacesAtRequest, PlacesAtParent, PlacesAtWrite, PlacesAtClose
    DEF ParentStep
  <2>4. CASE HandlerStep
    BY <2>4, PlacesAtSignal, PlacesAtHandler DEF HandlerStep
  <2>5. CASE UNCHANGED vars
    BY <2>5
    DEF vars, fifoVars, parentVars, handlerVars, tableVars, PlacesInv, Once,
        InOnePlace, HowFar, ToldRightly, WelcomeAhead, Asked, Served, Queued,
        Admitted, Begun, Copied, Untold, Told, Welcomed, In
  <2> QED BY <2>1, <2>2, <2>3, <2>4, <2>5 DEF Next
<1> QED BY <1>1, <1>2, AdmissionInvariant, PTL DEF Spec

(* A client is in the queue of the parent once, was told to wait, and      *)
(* neither has a session from the parent nor is being given one, whatever  *)
(* the handler interrupts and sessions do with their copies of the queue;  *)
(* nor was it told anything else, unless a session admitted it from one.   *)
THEOREM QueuedOnceHolds == Spec => []QueuedOnce
<1>1. Inv /\ PlacesInv => QueuedOnce
  <2> SUFFICES ASSUME Inv, PlacesInv, NEW i \in DOMAIN clientQueue
      PROVE  /\ \A j \in DOMAIN clientQueue :
                  clientQueue[j] = clientQueue[i] => i = j
             /\ session[clientQueue[i]] = "none"
             /\ handler # "idle" => admitting # clientQueue[i]
             /\ /\ client[clientQueue[i]] # "killed"
                /\ adopted[clientQueue[i]] = "none"
                => \/ got[clientQueue[i]] = <<"wait">>
                  \/ /\ got[clientQueue[i]] = <<>>
                     /\ data[clientQueue[i]] = <<"wait">>
    BY DEF QueuedOnce
  <2>1. /\ DOMAIN clientQueue = 1..Len(clientQueue)
        /\ clientQueue[i] \in Clients
    BY ElementOfSeq, LenProperties DEF Inv, TypeOK
  <2>2. PICK c \in Clients : c = clientQueue[i]
    BY <2>1
  <2>3. Queued(c) /\ InOnePlace(c) /\ ToldRightly(c)
    BY <2>1, <2>2 DEF Queued, In, PlacesInv
  <2>4. session[c] = "none" /\ (handler # "idle" => admitting # c)
    BY <2>3 DEF InOnePlace, Begun, Admitted
  <2>5. client[c] # "killed" /\ adopted[c] = "none" =>
          got[c] = <<"wait">> \/ (got[c] = <<>> /\ data[c] = <<"wait">>)
    BY <2>3 DEF ToldRightly, Told
  <2>6. \A j \in DOMAIN clientQueue : clientQueue[j] = clientQueue[i] => i = j
    BY <2>1 DEF PlacesInv, Once
  <2> QED BY <2>2, <2>4, <2>5, <2>6
<1> QED BY <1>1, AdmissionInvariant, EverybodyInPlace, PTL

(* Nobody reads that he is admitted without a session, of the parent or of *)
(* another session, or a fork that is about to make it, unless that fork   *)
(* failed.                                                                 *)
THEOREM WelcomeKeptHolds == Spec => []WelcomeKept
<1>1. Inv /\ PlacesInv => WelcomeKept
  <2> SUFFICES ASSUME Inv, PlacesInv, NEW c \in Clients,
                      NEW i \in DOMAIN got[c], got[c][i] = "welcome"
      PROVE  \/ session[c] # "none" \/ adopted[c] # "none" \/ c \in dropped
             \/ serving = c /\ parent \in {"close", "fork"}
             \/ admitting = c /\ handler = "fork"
    BY DEF WelcomeKept
  <2>1. DOMAIN got[c] = 1..Len(got[c])
    BY LenProperties DEF Inv, TypeOK
  <2>2. Welcomed(c) /\ WelcomeAhead(c)
    BY <2>1 DEF Welcomed, In, PlacesInv
  <2> QED BY <2>2 DEF WelcomeAhead, Begun
<1> QED BY <1>1, AdmissionInvariant, EverybodyInPlace, PTL
=============================================================================
