------------------------------ MODULE Requests ------------------------------
(***************************************************************************)
(* The requests of admitted clients of Midterm's file server: the commands *)
(* of client.c, the session of server.c that serves them (handleClient and *)
(* its handlers), and the end of the server.                               *)
(*                                                                         *)
(* A client c and its session talk through two FIFOs, clientFIFO<pid>RD    *)
(* (requests, toServer) and clientFIFO<pid>WR (responses, toClient).  Both *)
(* sides open them anew for every request and close only some of the       *)
(* descriptors.  open waits for the other side only when that has none,    *)
(* and read returns 0 only when it has none any more, so that what a       *)
(* descriptor left open does is part of the protocol.                      *)
(*                                                                         *)
(* Messages carry the number n of the command they belong to, which the    *)
(* program has not.  A list, a line or a file is Packets items; one read   *)
(* takes one item.  How clients are admitted is the subject of Admission:  *)
(* here the first of the queue is, in one step, when a session has ended.  *)
(***************************************************************************)
EXTENDS Integers, Sequences, FiniteSets

CONSTANTS
  Clients,    \* client processes
  Packets,    \* items of a list, a line or a file
  Scenarios   \* see ScenariosAssumption

FileKinds ==
  {"LIST", "READFROM", "WRITETO", "UPLOAD", "DOWNLOAD", "ARCHSERVER"}
Kinds == FileKinds \cup {"HELP", "KILLSERVER", "QUIT"}
FaultKinds ==
  {"missing", "unreadable", "unwritable", "endless", "fork", "tar", "log",
   "sigint", "shutdown", "eintr"}

(* A scenario bounds a behaviour: the clients that wait for an empty spot,  *)
(* what the user of each client types and how many times, whether users    *)
(* type only when the session waits for a request, and what may go wrong:  *)
(* no such file, one that can be opened and not read (a directory), one    *)
(* that cannot be created or written, and so on.                           *)
ASSUME ScenariosAssumption ==
  \A s \in Scenarios :
    /\ s.queued \subseteq Clients
    /\ s.typed \in [Clients -> SUBSET Kinds] /\ s.most \in [Clients -> Nat]
    /\ s.patient \in BOOLEAN /\ s.faults \subseteq FaultKinds
ASSUME BoundsAssumption == IsFiniteSet(Clients) /\ Packets \in Nat \ {0}

VARIABLES
  scenario,   \* chosen from Scenarios, and kept
  client,     \* client[c]: what the client does next
  command,    \* command[c]: the command it is at, and its number
  past,       \* past[c]: kinds of the commands it is done with
  response,   \* response[c]: the Request it has read
  left,       \* left[c]: items to read or to write
  ends,       \* ends[c]: descriptors open on the FIFOs of c
  toServer, toClient,  \* what is in them
  gone,       \* clients that have removed theirs
  session,    \* session[c]: what the session of c does next
  request,    \* request[c]: the Request it has in memory
  reply, todo,         \* the response it is at, items to send or to receive
  waiters,    \* waiters[c]: sessions of c that wait for a child
  unanswered, \* clients whose request a handler gave up on
  serverFileIOSemaphore, loggerSemaphore,
  freePosts,  \* posts of serverFileIOSemaphore by one that has not waited
  server,     \* the parent process
  clientQueue, sigchld,
  clientTerm, sessionTerm  \* whose process SIGTERM is pending for

commandVars == <<command, past, response, left>>
clientVars == <<client, commandVars>>
fifoVars == <<ends, toServer, toClient, gone>>
handlerVars == <<reply, todo, unanswered>>
sessionVars == <<session, request, waiters, handlerVars>>
semVars == <<serverFileIOSemaphore, loggerSemaphore, freePosts>>
parentVars == <<scenario, server, clientQueue, clientTerm, sessionTerm>>
vars == <<clientVars, fifoVars, sessionVars, semVars, parentVars,
          sigchld>>

Invalid == [kind |-> "INVALID", n |-> 0]
Reply(kind, size) == [kind |-> kind, size |-> size]
NoReply == Reply("none", 0)
NoResponse == [kind |-> "none", n |-> 0, size |-> 0]

(* Descriptors: of session and client, on the one FIFO and the other;      *)
(* "old" when the variable that held it is used for another one.           *)
RDReaders == {"sRD", "sRD old"}
RDWriters == {"cRD", "cRD old"}
WRReaders == {"cWR", "cWR old"}
WRWriters == {"sWR", "sWR old"}
ClientEnds == RDWriters \cup WRReaders
SessionEnds == RDReaders \cup WRWriters
Old(e) == CASE e = "sRD" -> "sRD old" [] e = "sWR" -> "sWR old"
            [] e = "cRD" -> "cRD old" [] OTHER -> "cWR old"

Has(c, S) == ends[c] \cap S # {}
Forgotten(c, S) == (ends[c] \ S) \cup {Old(e) : e \in S \cap ends[c]}

(* A client that waited in the queue has never closed the descriptor it    *)
(* was admitted through.                                                   *)
Init ==
  /\ scenario \in Scenarios
  /\ client = [c \in Clients |->
                 IF c \in scenario.queued THEN "queued" ELSE "prompt"]
  /\ command = [c \in Clients |-> Invalid]
  /\ past = [c \in Clients |-> <<>>]
  /\ response = [c \in Clients |-> NoResponse]
  /\ left = [c \in Clients |-> 0]
  /\ ends = [c \in Clients |->
               IF c \in scenario.queued THEN {"cWR old"} ELSE {}]
  /\ toServer = [c \in Clients |-> <<>>]
  /\ toClient = [c \in Clients |-> <<>>]
  /\ gone = {}
  /\ session = [c \in Clients |->
                  IF c \in scenario.queued THEN "none" ELSE "open"]
  /\ request = [c \in Clients |-> Invalid]
  /\ reply = [c \in Clients |-> NoReply] /\ todo = [c \in Clients |-> 0]
  /\ waiters = [c \in Clients |-> <<>>] /\ unanswered = {}
  /\ serverFileIOSemaphore = 1 /\ loggerSemaphore = 1 /\ freePosts = 0
  /\ server = "up" /\ sigchld = FALSE
  /\ clientTerm = {} /\ sessionTerm = {}
  /\ LET Waiting == scenario.queued
     IN  clientQueue \in {q \in [1..Cardinality(Waiting) -> Waiting] :
                             \A i, j \in DOMAIN q : q[i] = q[j] => i = j}

-----------------------------------------------------------------------------
(* The FIFOs.  The kernel drops what is in one that nobody has open.       *)
Descriptors(c, new) ==
  /\ ends' = [ends EXCEPT ![c] = new]
  /\ toServer' = IF new \cap (RDReaders \cup RDWriters) # {} THEN toServer
                 ELSE [toServer EXCEPT ![c] = <<>>]
  /\ toClient' = IF new \cap (WRReaders \cup WRWriters) # {} THEN toClient
                 ELSE [toClient EXCEPT ![c] = <<>>]

ToServer(c, m) ==
  /\ toServer' = [toServer EXCEPT ![c] = Append(@, m)]
  /\ UNCHANGED <<ends, toClient>>

ToClient(c, m) ==
  /\ toClient' = [toClient EXCEPT ![c] = Append(@, m)]
  /\ UNCHANGED <<ends, toServer, gone>>

-----------------------------------------------------------------------------
(* The client.                                                             *)
ClientGoes(c, pc) == client' = [client EXCEPT ![c] = pc]

(* A step of the client that its session does not take part in.            *)
OnlyClient(c, from) ==
  /\ client[c] = from
  /\ UNCHANGED <<sessionVars, semVars, parentVars, sigchld>>

(* The user types a command.                                               *)
Type(c, k) ==
  /\ OnlyClient(c, "prompt") /\ ClientGoes(c, "open")
  /\ scenario.patient => session[c] \in {"opening", "read"}
  /\ Len(past[c]) < scenario.most[c]
  /\ command' = [command EXCEPT ![c] = [kind |-> k, n |-> Len(past[c]) + 1]]
  /\ UNCHANGED <<past, response, left, fifoVars>>

(* open(clientFIFORD, O_WRONLY), which lets a session in that waits.       *)
OpenRD(c) ==
  /\ client[c] = "open"
  /\ ClientGoes(c, IF Has(c, RDReaders) THEN "write" ELSE "opening")
  /\ Descriptors(c, ends[c] \cup {"cRD"})
  /\ session' = IF session[c] # "opening" THEN session
                ELSE [session EXCEPT ![c] = "read"]
  /\ UNCHANGED <<commandVars, gone, request, waiters, handlerVars, semVars,
                 parentVars, sigchld>>

(* Writing to a FIFO without a reader is SIGPIPE.                          *)
ClientWrites(c, from, to, m) ==
  /\ OnlyClient(c, from)
  /\ IF Has(c, RDReaders) THEN ClientGoes(c, to) /\ ToServer(c, m)
     ELSE ClientGoes(c, "dead") /\ Descriptors(c, ends[c] \ ClientEnds)
  /\ UNCHANGED <<command, past, response, gone>>

WriteRequest(c) ==
  /\ ClientWrites(c, "write",
                  IF command[c].kind = "QUIT" THEN "exit" ELSE "openResponse",
                  command[c])
  /\ UNCHANGED left

(* open(clientFIFOWR, O_RDONLY), likewise.                                 *)
OpenWR(c) ==
  /\ client[c] = "openResponse"
  /\ ClientGoes(c, IF Has(c, WRWriters) THEN "header" ELSE "openingResponse")
  /\ Descriptors(c, ends[c] \cup {"cWR"})
  /\ session' = IF session[c] # "openingResponse" THEN session
                ELSE [session EXCEPT ![c] = "write"]
  /\ UNCHANGED <<commandVars, gone, request, waiters, handlerVars, semVars,
                 parentVars, sigchld>>

(* The first Request of the response.  When there is none to come, read    *)
(* returns 0, and what the variable held is taken for one.                 *)
ReadHeader(c) ==
  /\ OnlyClient(c, "header") /\ ClientGoes(c, "answered")
  /\ \/ /\ toClient[c] # <<>>
        /\ response' = [response EXCEPT ![c] = Head(toClient[c])]
        /\ toClient' = [toClient EXCEPT ![c] = Tail(@)]
     \/ /\ toClient[c] = <<>> /\ ~Has(c, WRWriters)
        /\ \E k \in {"ERROR", command[c].kind}, size \in {0, Packets} :
             response' = [response EXCEPT ![c] =
                            [kind |-> k, n |-> 0, size |-> size]]
        /\ UNCHANGED toClient
  /\ UNCHANGED <<command, past, left, ends, toServer, gone>>

(* Back to the prompt, with the descriptors in closed closed and the other *)
(* ones of this command left open.                                         *)
Prompt(c, closed) ==
  /\ ClientGoes(c, "prompt")
  /\ past' = [past EXCEPT ![c] = Append(@, command[c].kind)]
  /\ response' = [response EXCEPT ![c] = NoResponse]
  /\ left' = [left EXCEPT ![c] = 0]
  /\ Descriptors(c, Forgotten(c, {"cRD", "cWR"} \ closed) \ closed)
  /\ UNCHANGED <<command, gone>>

Answered(c, kinds) == OnlyClient(c, "answered") /\ command[c].kind \in kinds
Failed(c, kinds) == Answered(c, kinds) /\ response[c].kind = "ERROR"
Succeeded(c, kinds) == Answered(c, kinds) /\ response[c].kind # "ERROR"
Done(c, kinds) ==
  OnlyClient(c, "packets") /\ command[c].kind \in kinds /\ left[c] = 0

ToPackets(c) ==
  /\ ClientGoes(c, "packets")
  /\ left' = [left EXCEPT ![c] = response[c].size]
  /\ UNCHANGED <<command, past, response, fifoVars>>

(* At the end of the file (the FIFO has no writer) a list or a line counts *)
(* a read of nothing; a download goes on reading.                          *)
ReadPacket(c) ==
  /\ OnlyClient(c, "packets") /\ left[c] > 0
  /\ left' = [left EXCEPT ![c] = @ - 1]
  /\ \/ toClient[c] # <<>> /\ toClient' = [toClient EXCEPT ![c] = Tail(@)]
     \/ /\ toClient[c] = <<>> /\ ~Has(c, WRWriters)
        /\ command[c].kind \in {"LIST", "READFROM"} /\ UNCHANGED toClient
  /\ UNCHANGED <<client, command, past, response, ends, toServer, gone>>

(* Mutant: clientFIFORead is closed, too.                                  *)
ClientOneMessageTidy(c) ==
  Answered(c, {"HELP", "WRITETO", "KILLSERVER"}) /\ Prompt(c, {"cRD", "cWR"})

(* handleHelp, handleWriteT, handleKillServer: one Request is the response; *)
(* clientFIFORead is not closed.                                           *)
ClientOneMessage(c) ==
  Answered(c, {"HELP", "WRITETO", "KILLSERVER"}) /\ Prompt(c, {"cWR"})

(* handleReadF.  An error leaves both descriptors open, success one.       *)
ClientReadF(c) ==
  \/ Failed(c, {"READFROM"}) /\ Prompt(c, {})
  \/ Succeeded(c, {"READFROM"}) /\ ToPackets(c)
  \/ Done(c, {"READFROM"}) /\ Prompt(c, {"cWR"})

(* handleList, which does not look for ERROR.                              *)
ClientList(c) ==
  \/ Answered(c, {"LIST"}) /\ ToPackets(c)
  \/ Done(c, {"LIST"}) /\ Prompt(c, {"cRD", "cWR"})

(* handleDownload and handleArchServer; not to overwrite an archive leaves *)
(* both descriptors open.                                                  *)
ClientDownload(c) ==
  \/ Failed(c, {"DOWNLOAD", "ARCHSERVER"}) /\ Prompt(c, {})
  \/ Succeeded(c, {"DOWNLOAD", "ARCHSERVER"}) /\ ToPackets(c)
  \/ Done(c, {"DOWNLOAD", "ARCHSERVER"}) /\ Prompt(c, {"cRD", "cWR"})
  \/ Done(c, {"ARCHSERVER"}) /\ Prompt(c, {})

(* handleUpload: when the file exists the user is asked.                   *)
ClientUpload(c) ==
  \/ Failed(c, {"UPLOAD"}) /\ Prompt(c, {})
  \/ /\ Succeeded(c, {"UPLOAD"})
     /\ IF response[c].kind = "ASK"
        THEN ClientGoes(c, "ask") /\ UNCHANGED left
        ELSE ClientGoes(c, "send") /\ left' = [left EXCEPT ![c] = Packets]
     /\ UNCHANGED <<command, past, response, fifoVars>>
  \/ /\ left[c] > 0
     /\ ClientWrites(c, "send", "send", [kind |-> "bytes", n |-> command[c].n])
     /\ left' = [left EXCEPT ![c] = @ - 1]
  \/ OnlyClient(c, "send") /\ left[c] = 0 /\ Prompt(c, {"cRD", "cWR"})
  \/ OnlyClient(c, "kept") /\ Prompt(c, {})

(* The user's answer: to overwrite the file, or not to.                    *)
Overwrite(c) ==
  \/ /\ ClientWrites(c, "ask", "send", [kind |-> "yes", n |-> command[c].n])
     /\ left' = [left EXCEPT ![c] = Packets]
  \/ /\ ClientWrites(c, "ask", "kept", [kind |-> "no", n |-> command[c].n])
     /\ UNCHANGED left

(* cleanFIFOs and exit.                                                    *)
Leave(c) ==
  /\ ClientGoes(c, "left") /\ gone' = gone \cup {c}
  /\ Descriptors(c, ends[c] \ ClientEnds)
  /\ UNCHANGED <<command, past, response, left>>

ClientQuits(c) == OnlyClient(c, "exit") /\ Leave(c)

(* sigTermHandler of the client.                                           *)
ClientTerm(c) ==
  /\ c \in clientTerm /\ client[c] \notin {"left", "dead"}
  /\ OnlyClient(c, client[c]) /\ Leave(c)

(* sigIntHandler of the client: as quit, wherever the client is.  An open  *)
(* that has not returned is given up.                                      *)
Interrupt(c) ==
  /\ "sigint" \in scenario.faults
  /\ client[c] \notin {"queued", "left", "dead"} /\ command[c].kind # "QUIT"
  /\ OnlyClient(c, client[c]) /\ ClientGoes(c, "open")
  /\ command' = [command EXCEPT ![c].kind = "QUIT"]
  /\ LET lost == CASE client[c] = "opening" -> {"cRD"}
                   [] client[c] = "openingResponse" -> {"cWR"}
                   [] OTHER -> {}
     IN  Descriptors(c, Forgotten(c, {"cRD", "cWR"} \ lost) \ lost)
  /\ UNCHANGED <<past, response, left, gone>>

ClientStep(c) ==
  \/ OpenRD(c) \/ WriteRequest(c) \/ OpenWR(c) \/ ReadHeader(c)
  \/ ReadPacket(c) \/ ClientOneMessage(c) \/ ClientReadF(c) \/ ClientList(c)
  \/ ClientDownload(c) \/ ClientUpload(c) \/ ClientQuits(c) \/ ClientTerm(c)

-----------------------------------------------------------------------------
(* The session: handleClient.                                              *)
SessionGoes(c, pc) == session' = [session EXCEPT ![c] = pc]

(* A step of the session that its client does not take part in.            *)
OnlySession(c, from) ==
  session[c] = from /\ UNCHANGED <<clientVars, gone, parentVars>>

(* writeToLogger: nothing waits between its sem_wait and its sem_post, but *)
(* it returns without the latter when write fails.                         *)
Logs ==
  /\ loggerSemaphore > 0
  /\ \/ UNCHANGED loggerSemaphore
     \/ "log" \in scenario.faults /\ loggerSemaphore' = loggerSemaphore - 1

(* The end of the process that serves c.  One that waits for it as its     *)
(* child goes on: with its second response when the child has exited, as   *)
(* if there had been no child when a signal ended it.                      *)
Ends(c, how) ==
  IF waiters[c] = <<>>
  THEN /\ SessionGoes(c, how) /\ sigchld' = TRUE
       /\ request' = [request EXCEPT ![c] = Invalid]
       /\ Descriptors(c, ends[c] \ SessionEnds)
       /\ UNCHANGED waiters
  ELSE LET w == waiters[c][Len(waiters[c])]
       IN  /\ SessionGoes(c, IF how = "dead" THEN "post" ELSE "second")
           /\ request' = [request EXCEPT ![c] = w.request]
           /\ waiters' = [waiters EXCEPT ![c] = SubSeq(@, 1, Len(@) - 1)]
           /\ Descriptors(c, (ends[c] \ SessionEnds) \cup w.ends)
           /\ UNCHANGED sigchld

(* open(clientFIFORD, O_RDONLY), which lets a client in that waits.  When  *)
(* the FIFO is gone, handleClient returns and the process exits.           *)
OpenRequest(c) ==
  /\ session[c] = "open"
  /\ \/ c \in gone /\ Ends(c, "ended") /\ UNCHANGED client
     \/ /\ c \notin gone
        /\ SessionGoes(c, IF Has(c, RDWriters) THEN "read" ELSE "opening")
        /\ Descriptors(c, ends[c] \cup {"sRD"})
        /\ client' = IF client[c] # "opening" THEN client
                     ELSE [client EXCEPT ![c] = "write"]
        /\ UNCHANGED <<request, waiters, sigchld>>
  /\ UNCHANGED <<commandVars, gone, handlerVars, semVars, parentVars>>

(* What is done with a request; anything that is none is passed over.      *)
Dispatch(k) ==
  CASE k \in FileKinds \cup {"yes", "no"} -> "wait"
    [] k = "HELP" -> "handle"
    [] k \in {"QUIT", "KILLSERVER"} -> "bye"
    [] OTHER -> "invalid"

(* A read that is longer than the item it takes may take the beginning of  *)
(* the next one with it, of which the rest stays.                          *)
Torn(q) == <<[kind |-> "rest", n |-> q[2].n]>> \o SubSeq(q, 3, Len(q))

(* read.  At the end of the file the memory keeps the request before.      *)
(* What is left of a file, or of a request, is no request: text, taken for *)
(* a number, is none of requestType.                                       *)
ReadRequest(c) ==
  /\ OnlySession(c, "read")
  /\ \/ /\ toServer[c] # <<>>
        /\ LET junk == Head(toServer[c]).kind \in {"bytes", "rest"}
           IN  /\ request' = [request EXCEPT ![c] =
                    IF junk THEN Invalid ELSE Head(toServer[c])]
               /\ \/ toServer' = [toServer EXCEPT ![c] = Tail(@)]
                  \/ /\ junk /\ Len(toServer[c]) > 1
                     /\ toServer' = [toServer EXCEPT ![c] = Torn(@)]
     \/ /\ toServer[c] = <<>> /\ ~Has(c, RDWriters)
        /\ UNCHANGED <<request, toServer>>
  /\ SessionGoes(c, Dispatch(request'[c].kind))
  /\ UNCHANGED <<ends, toClient, waiters, handlerVars, semVars, sigchld>>

PassOver(c) ==
  /\ OnlySession(c, "invalid") /\ SessionGoes(c, "open")
  /\ Descriptors(c, Forgotten(c, {"sRD"}))
  /\ UNCHANGED <<request, waiters, handlerVars, semVars, sigchld>>

(* Mutant: the semaphore is looked at, and not taken.                      *)
SemWaitLooks(c) ==
  /\ OnlySession(c, "wait") /\ SessionGoes(c, "handle")
  /\ serverFileIOSemaphore > 0
  /\ UNCHANGED <<ends, toServer, toClient, request, waiters, handlerVars,
                 semVars, sigchld>>

SemWait(c) ==
  /\ OnlySession(c, "wait") /\ SessionGoes(c, "handle")
  /\ serverFileIOSemaphore > 0
  /\ serverFileIOSemaphore' = serverFileIOSemaphore - 1
  /\ UNCHANGED <<ends, toServer, toClient, request, waiters, handlerVars,
                 loggerSemaphore, freePosts, sigchld>>

(* The requests that end the session: both semaphores are posted, neither  *)
(* has been waited for.                                                    *)
Bye(c, kind) ==
  /\ session[c] = "bye" /\ request[c].kind = kind /\ loggerSemaphore > 0
  /\ serverFileIOSemaphore' = serverFileIOSemaphore + 1
  /\ \/ loggerSemaphore' = loggerSemaphore + 1
     \/ "log" \in scenario.faults /\ UNCHANGED loggerSemaphore
  /\ freePosts' = freePosts + 1
  /\ Ends(c, "quit")
  /\ UNCHANGED <<clientVars, gone, handlerVars, scenario, clientQueue,
                 sessionTerm>>

Quit(c) == Bye(c, "QUIT") /\ UNCHANGED <<server, clientTerm>>

(* killClient, and SIGTERM for the parent.                                 *)
KillServer(c) ==
  /\ Bye(c, "KILLSERVER")
  /\ clientTerm' = clientTerm \cup {c}
  /\ server' = IF server = "up" THEN "sigterm" ELSE server

-----------------------------------------------------------------------------
(* The handlers: each makes up its response and opens clientFIFOWR, which  *)
(* lets a client in that waits.  Those that give up return without a       *)
(* response, clientFIFORead left open.                                     *)
Handling(c, kinds) ==
  /\ session[c] = "handle" /\ request[c].kind \in kinds /\ Logs
  /\ UNCHANGED <<serverFileIOSemaphore, parentVars, sigchld>>

Respond(c, kind, size) ==
  /\ c \notin gone
  /\ SessionGoes(c, IF Has(c, WRReaders) THEN "write" ELSE "openingResponse")
  /\ Descriptors(c, ends[c] \cup {"sWR"})
  /\ client' = IF client[c] # "openingResponse" THEN client
               ELSE [client EXCEPT ![c] = "header"]
  /\ reply' = [reply EXCEPT ![c] = Reply(kind, size)]
  /\ UNCHANGED <<commandVars, gone, request, waiters, todo, unanswered>>

(* Mutant: a handler that gives up skips sem_post.                         *)
GiveUpHolds(c) ==
  /\ SessionGoes(c, "open") /\ Descriptors(c, Forgotten(c, {"sRD"}))
  /\ unanswered' = unanswered \cup {c}
  /\ UNCHANGED <<clientVars, gone, request, waiters, reply, todo>>

GiveUp(c) ==
  /\ SessionGoes(c, "post") /\ Descriptors(c, Forgotten(c, {"sRD"}))
  /\ unanswered' = unanswered \cup {c}
  /\ UNCHANGED <<clientVars, gone, request, waiters, reply, todo>>

HandleHelp(c) ==
  /\ Handling(c, {"HELP"}) /\ UNCHANGED freePosts
  /\ Respond(c, "HELP", 0) \/ (c \in gone /\ GiveUp(c))

(* handleList: the only one to close clientFIFORead when it gives up.      *)
HandleList(c) ==
  /\ Handling(c, {"LIST"}) /\ UNCHANGED freePosts
  /\ \/ Respond(c, "LIST", Packets)
     \/ /\ c \in gone
        /\ SessionGoes(c, "post") /\ Descriptors(c, ends[c] \ {"sRD"})
        /\ unanswered' = unanswered \cup {c}
        /\ UNCHANGED <<clientVars, gone, request, waiters, reply, todo>>

(* handleReadFrom: the line, an error when there is no such line, nothing  *)
(* when there is no such file.                                             *)
HandleReadFrom(c) ==
  /\ Handling(c, {"READFROM"}) /\ UNCHANGED freePosts
  /\ \/ Respond(c, "READFROM", Packets) \/ Respond(c, "ERROR", 0)
     \/ (c \in gone \/ "missing" \in scenario.faults) /\ GiveUp(c)

(* handleWriteTo: past the end of the file, read returns 0 and the search  *)
(* for the line goes on for ever.                                          *)
HandleWriteTo(c) ==
  /\ Handling(c, {"WRITETO"}) /\ UNCHANGED freePosts
  /\ \/ Respond(c, "WRITETO", 0)
     \/ (c \in gone \/ "missing" \in scenario.faults) /\ GiveUp(c)
     \/ /\ "endless" \in scenario.faults /\ SessionGoes(c, "searching")
        /\ UNCHANGED <<clientVars, fifoVars, request, waiters, handlerVars>>

HandleDownload(c) ==
  /\ Handling(c, {"DOWNLOAD"}) /\ UNCHANGED freePosts
  /\ \/ Respond(c, "DOWNLOAD", Packets) \/ Respond(c, "ERROR", 0)
     \/ c \in gone /\ GiveUp(c)

(* handleUpload: a file that exists is asked for.  The answer to that,     *)
(* when it is read as a request, is an upload without a size.  For a new   *)
(* file clientFIFOWR is opened with O_CREAT: when it is gone, the response *)
(* goes into a regular file, and the session waits for bytes nobody sends. *)
HandleUpload(c) ==
  /\ Handling(c, {"UPLOAD", "yes", "no"}) /\ UNCHANGED freePosts
  /\ \/ request[c].kind = "UPLOAD" /\ Respond(c, "UPLOAD", 0)
     \/ request[c].kind = "UPLOAD" /\ Respond(c, "ASK", 0)
     \/ request[c].kind # "UPLOAD" /\ Respond(c, "ERROR", 0)
     \/ c \in gone /\ GiveUp(c)
     \/ /\ c \in gone /\ request[c].kind = "UPLOAD"
        /\ SessionGoes(c, "receive") /\ todo' = [todo EXCEPT ![c] = Packets]
        /\ UNCHANGED <<clientVars, fifoVars, request, waiters, reply,
                       unanswered>>

(* The child that handleArchServer has forked gives up: it returns to the  *)
(* loop of handleClient as a second session of the client, whose sem_post  *)
(* nobody has waited for, while the first one waits for it.                *)
ChildGoesOn(c) ==
  /\ waiters' = [waiters EXCEPT ![c] = Append(@,
       [request |-> request[c], ends |-> ends[c] \cap SessionEnds])]
  /\ freePosts' = freePosts + 1
  /\ SessionGoes(c, "post") /\ Descriptors(c, Forgotten(c, {"sRD"}))
  /\ unanswered' = unanswered \cup {c}
  /\ UNCHANGED <<clientVars, gone, request, reply, todo>>

(* handleArchServer: a child of the child runs tar, the child sends.       *)
HandleArchServer(c) ==
  /\ Handling(c, {"ARCHSERVER"})
  /\ \/ Respond(c, "ARCHSERVER", Packets) /\ UNCHANGED freePosts
     \/ (c \in gone \/ "tar" \in scenario.faults) /\ ChildGoesOn(c)
     \/ "fork" \in scenario.faults /\ GiveUp(c) /\ UNCHANGED freePosts

(* When the child has exited, handleArchServer responds once more.         *)
RespondAgain(c) ==
  /\ session[c] = "second" /\ UNCHANGED <<semVars, parentVars, sigchld>>
  /\ Respond(c, "DONE", 0) \/ (c \in gone /\ GiveUp(c))

(* Writing to a FIFO without a reader is SIGPIPE and ends the process with *)
(* what it holds; when that is the child that sends an archive, its parent *)
(* goes on.                                                                *)
Broken(c) ==
  /\ session[c] \in {"write", "packets"} /\ ~Has(c, WRReaders)
  /\ OnlySession(c, session[c])
  /\ \/ reply[c].kind # "ARCHSERVER" /\ Ends(c, "dead")
     \/ /\ reply[c].kind = "ARCHSERVER" /\ SessionGoes(c, "post")
        /\ Descriptors(c, Forgotten(c, {"sRD"}) \ {"sWR"})
        /\ UNCHANGED <<request, waiters, sigchld>>
  /\ UNCHANGED <<handlerVars, semVars>>

WriteHeader(c) ==
  /\ OnlySession(c, "write") /\ Has(c, WRReaders)
  /\ ToClient(c, [kind |-> reply[c].kind, n |-> request[c].n,
                  size |-> reply[c].size])
  /\ SessionGoes(c, CASE reply[c].kind = "ASK" -> "answer"
                      [] reply[c].size > 0 -> "packets"
                      [] OTHER -> "close")
  /\ todo' = [todo EXCEPT ![c] = reply[c].size]
  /\ UNCHANGED <<request, waiters, reply, unanswered, semVars, sigchld>>

WritePacket(c) ==
  /\ OnlySession(c, "packets") /\ Has(c, WRReaders)
  /\ ToClient(c, [kind |-> "packet", n |-> request[c].n, size |-> 0])
  /\ todo' = [todo EXCEPT ![c] = @ - 1]
  /\ SessionGoes(c, IF todo[c] = 1 THEN "close" ELSE "packets")
  /\ UNCHANGED <<request, waiters, reply, unanswered, semVars, sigchld>>

(* A handler that fails in the middle of a file: what the client has not   *)
(* read or sent yet stays in the FIFOs, clientFIFORead open.               *)
BreakOff(c, forgotten) ==
  /\ SessionGoes(c, "post") /\ unanswered' = unanswered \cup {c}
  /\ ends' = [ends EXCEPT ![c] = Forgotten(c, forgotten)]
  /\ UNCHANGED <<toClient, request, waiters, reply, todo, semVars, sigchld>>

(* handleDownload, when the file cannot be read (a directory, which can be *)
(* opened and has a size): the header has been sent, and the client reads  *)
(* on for ever.                                                            *)
ReadFails(c) ==
  /\ "unreadable" \in scenario.faults /\ reply[c].kind = "DOWNLOAD"
  /\ OnlySession(c, "packets")
  /\ BreakOff(c, {"sRD", "sWR"}) /\ UNCHANGED toServer

(* handleUpload, when it cannot create the file, after its response.       *)
CreateFails(c) ==
  /\ "unwritable" \in scenario.faults /\ reply[c].kind = "UPLOAD"
  /\ OnlySession(c, "close") /\ SessionGoes(c, "post")
  /\ unanswered' = unanswered \cup {c}
  /\ Descriptors(c, Forgotten(c, {"sRD"}) \ {"sWR"})
  /\ UNCHANGED <<request, waiters, reply, todo, semVars, sigchld>>

(* handleUpload, when it cannot write to the file, which is also how it    *)
(* finds out that it could not open an existing one (1056): then even the  *)
(* end of the file ends it.                                                *)
WriteFails(c) ==
  /\ "unwritable" \in scenario.faults
  /\ OnlySession(c, "receive") /\ todo[c] > 0
  /\ \/ /\ toServer[c] # <<>>
        /\ \/ toServer' = [toServer EXCEPT ![c] = Tail(@)]
           \/ /\ todo[c] = 1 /\ Len(toServer[c]) > 1
              /\ toServer' = [toServer EXCEPT ![c] = Torn(@)]
     \/ /\ toServer[c] = <<>> /\ ~Has(c, RDWriters)
        /\ reply[c].kind = "ASK" /\ UNCHANGED toServer
  /\ BreakOff(c, {"sRD"})

(* Mutant: the size of the file counts one item too many.                  *)
CloseMore(c) ==
  /\ OnlySession(c, "close")
  /\ CASE reply[c].kind = "UPLOAD" ->
            /\ SessionGoes(c, "receive") /\ Descriptors(c, ends[c] \ {"sWR"})
            /\ todo' = [todo EXCEPT ![c] = Packets + 1]
       [] reply[c].kind = "ARCHSERVER" ->
            /\ SessionGoes(c, "second") /\ Descriptors(c, ends[c] \ {"sWR"})
            /\ UNCHANGED todo
       [] OTHER ->
            /\ SessionGoes(c, "post")
            /\ Descriptors(c, ends[c] \ {"sRD", "sWR"}) /\ UNCHANGED todo
  /\ UNCHANGED <<request, waiters, reply, unanswered, semVars, sigchld>>

(* close.  An upload goes on, an archiving child exits, others are done.   *)
Close(c) ==
  /\ OnlySession(c, "close")
  /\ CASE reply[c].kind = "UPLOAD" ->
            /\ SessionGoes(c, "receive") /\ Descriptors(c, ends[c] \ {"sWR"})
            /\ todo' = [todo EXCEPT ![c] = Packets]
       [] reply[c].kind = "ARCHSERVER" ->
            /\ SessionGoes(c, "second") /\ Descriptors(c, ends[c] \ {"sWR"})
            /\ UNCHANGED todo
       [] OTHER ->
            /\ SessionGoes(c, "post")
            /\ Descriptors(c, ends[c] \ {"sRD", "sWR"}) /\ UNCHANGED todo
  /\ UNCHANGED <<request, waiters, reply, unanswered, semVars, sigchld>>

(* Mutant: the file is received without a read of the answer.              *)
ReadAnswerNot(c) ==
  /\ OnlySession(c, "answer") /\ SessionGoes(c, "truncate")
  /\ UNCHANGED <<ends, toServer, toClient, request, waiters, handlerVars,
                 semVars, sigchld>>

(* What handleUpload's client answers; when it is gone, what memory holds. *)
ReadAnswer(c) ==
  /\ OnlySession(c, "answer")
  /\ IF toServer[c] # <<>>
     THEN /\ SessionGoes(c, IF Head(toServer[c]).kind = "yes"
                            THEN "truncate" ELSE "keep")
          /\ toServer' = [toServer EXCEPT ![c] = Tail(@)]
     ELSE /\ ~Has(c, RDWriters) /\ UNCHANGED toServer
          /\ \E pc \in {"truncate", "keep"} : SessionGoes(c, pc)
  /\ UNCHANGED <<ends, toClient, request, waiters, handlerVars, semVars,
                 sigchld>>

(* To overwrite the file leaves clientFIFOWrite open, to keep it does not.  *)
Truncate(c) ==
  /\ OnlySession(c, "truncate") /\ SessionGoes(c, "receive")
  /\ Descriptors(c, Forgotten(c, {"sWR"}))
  /\ todo' = [todo EXCEPT ![c] = Packets]
  /\ UNCHANGED <<request, waiters, reply, unanswered, semVars, sigchld>>

Keep(c) ==
  /\ OnlySession(c, "keep") /\ SessionGoes(c, "post")
  /\ Descriptors(c, ends[c] \ {"sRD", "sWR"})
  /\ UNCHANGED <<request, waiters, handlerVars, semVars, sigchld>>

(* The file, 256 bytes at a time: the last read, shorter than that, takes  *)
(* with it the beginning of what has been written after the file.          *)
Receive(c) ==
  /\ OnlySession(c, "receive") /\ todo[c] > 0 /\ toServer[c] # <<>>
  /\ todo' = [todo EXCEPT ![c] = @ - 1]
  /\ \/ toServer' = [toServer EXCEPT ![c] = Tail(@)]
     \/ /\ todo[c] = 1 /\ Len(toServer[c]) > 1
        /\ toServer' = [toServer EXCEPT ![c] = Torn(@)]
  /\ UNCHANGED <<ends, toClient, session, request, waiters, reply, unanswered,
                 semVars, sigchld>>

Received(c) ==
  /\ OnlySession(c, "receive") /\ todo[c] = 0 /\ SessionGoes(c, "post")
  /\ Descriptors(c, ends[c] \ {"sRD"})
  /\ UNCHANGED <<request, waiters, handlerVars, semVars, sigchld>>

(* Back to the loop of handleClient.                                       *)
Post(c) ==
  /\ OnlySession(c, "post") /\ Logs /\ SessionGoes(c, "open")
  /\ serverFileIOSemaphore' =
       serverFileIOSemaphore + IF request[c].kind = "HELP" THEN 0 ELSE 1
  /\ reply' = [reply EXCEPT ![c] = NoReply] /\ todo' = [todo EXCEPT ![c] = 0]
  /\ UNCHANGED <<ends, toServer, toClient, request, waiters, unanswered,
                 freePosts, sigchld>>

(* sigTermHandler of the session, and of those that wait for it.           *)
SessionTerm(c) ==
  /\ c \in sessionTerm /\ sessionTerm' = sessionTerm \ {c}
  /\ clientTerm' = clientTerm \cup {c} /\ sigchld' = TRUE
  /\ SessionGoes(c, "killed") /\ waiters' = [waiters EXCEPT ![c] = <<>>]
  /\ Descriptors(c, ends[c] \ SessionEnds)
  /\ UNCHANGED <<clientVars, gone, request, handlerVars, semVars, scenario,
                 server, clientQueue>>

SessionStep(c) ==
  \/ OpenRequest(c) \/ ReadRequest(c) \/ PassOver(c) \/ SemWait(c) \/ Quit(c)
  \/ KillServer(c) \/ HandleHelp(c) \/ HandleList(c) \/ HandleReadFrom(c)
  \/ HandleWriteTo(c) \/ HandleDownload(c) \/ HandleUpload(c)
  \/ HandleArchServer(c) \/ RespondAgain(c) \/ Broken(c) \/ WriteHeader(c)
  \/ WritePacket(c) \/ Close(c) \/ ReadAnswer(c) \/ Truncate(c) \/ Keep(c)
  \/ Receive(c) \/ Received(c) \/ ReadFails(c) \/ CreateFails(c)
  \/ WriteFails(c) \/ Post(c) \/ SessionTerm(c)

-----------------------------------------------------------------------------
(* The parent.                                                             *)
Over == {"none", "ended", "quit", "dead", "killed"}
Live == {c \in Clients : session[c] \notin Over}

(* sigChldHandler admits the first of the queue, also while sigTermHandler *)
(* waits for the sessions; a wait that is interrupted ends the latter.     *)
SigChld ==
  /\ sigchld /\ server \in {"up", "waiting"} /\ sigchld' = FALSE
  /\ IF clientQueue = <<>>
     THEN UNCHANGED <<client, session, clientQueue>>
     ELSE /\ clientQueue' = Tail(clientQueue)
          /\ SessionGoes(Head(clientQueue), "open")
          /\ ClientGoes(Head(clientQueue), "prompt")
  /\ \/ UNCHANGED server
     \/ "eintr" \in scenario.faults /\ server = "waiting" /\ server' = "gone"
  /\ UNCHANGED <<commandVars, fifoVars, request, waiters, handlerVars, semVars,
                 scenario, clientTerm, sessionTerm>>

OnlyServer(from, to) ==
  /\ server = from /\ server' = to
  /\ UNCHANGED <<clientVars, fifoVars, sessionVars, semVars, scenario,
                 clientQueue, sigchld, clientTerm>>

(* SIGINT or SIGTERM from outside.                                         *)
ShutDown ==
  /\ "shutdown" \in scenario.faults /\ OnlyServer("up", "sigterm")
  /\ UNCHANGED sessionTerm

(* Mutant: sessions that wait for a semaphore are not signalled.           *)
ServerTermSome ==
  /\ OnlyServer("sigterm", "waiting")
  /\ sessionTerm' = {c \in Live : session[c] # "opening"}

(* sigTermHandler: kill(0, SIGTERM), wait, exit.                           *)
ServerTerm == OnlyServer("sigterm", "waiting") /\ sessionTerm' = Live

ServerExits ==
  /\ Live = {} /\ ~sigchld /\ OnlyServer("waiting", "gone")
  /\ UNCHANGED sessionTerm

ServerStep == SigChld \/ ServerTerm \/ ServerExits

Next ==
  \/ \E c \in Clients :
       \/ \E k \in scenario.typed[c] : Type(c, k)
       \/ ClientStep(c) \/ Overwrite(c) \/ SessionStep(c) \/ Interrupt(c)
  \/ ServerStep \/ ShutDown

Spec == Init /\ [][Next]_vars

(* Every process that can go on does, and sem_wait is not passed over for  *)
(* ever.  Users need not type, but they answer when they are asked.        *)
FairSpec ==
  /\ Spec /\ WF_vars(ServerStep)
  /\ \A c \in Clients :
       /\ WF_vars(ClientStep(c)) /\ WF_vars(Overwrite(c))
       /\ WF_vars(SessionStep(c)) /\ SF_vars(SemWait(c))
-----------------------------------------------------------------------------
ClientStates ==
  {"queued", "prompt", "open", "opening", "write", "openResponse",
   "openingResponse", "header", "answered", "packets", "ask", "kept", "send",
   "exit", "left", "dead"}
HandlerStates ==
  {"handle", "write", "openingResponse", "packets", "close", "answer", "keep",
   "truncate", "receive", "second", "searching", "post"}
SessionStates ==
  Over \cup HandlerStates
    \cup {"open", "opening", "read", "invalid", "wait", "bye"}

(* The type invariant.                                                     *)
TypeOK ==
  /\ client \in [Clients -> ClientStates]
  /\ session \in [Clients -> SessionStates]
  /\ ends \in [Clients -> SUBSET (ClientEnds \cup SessionEnds)]
  /\ gone \subseteq Clients
  /\ \A c \in Clients :
       /\ command[c].kind \in Kinds \cup {"INVALID"}
       /\ request[c].kind \in Kinds \cup {"INVALID", "yes", "no"}
       /\ left[c] \in 0..Packets /\ todo[c] \in 0..Packets
       /\ \A w \in {waiters[c][i] : i \in DOMAIN waiters[c]} :
            w.request.kind = "ARCHSERVER" /\ w.ends \subseteq SessionEnds
  /\ serverFileIOSemaphore \in Nat /\ loggerSemaphore \in Nat
  /\ freePosts \in Nat /\ unanswered \subseteq Clients
  /\ server \in {"up", "sigterm", "waiting", "gone"} /\ sigchld \in BOOLEAN
  /\ clientTerm \subseteq Clients /\ sessionTerm \subseteq Clients

(* Sessions that are at the server's files, those that wait for a child    *)
(* included.                                                               *)
AtFiles ==
  {c \in Clients : session[c] \in HandlerStates /\ request[c].kind # "HELP"}
    \X {0}
  \cup UNION {{c} \X DOMAIN waiters[c] : c \in Clients}

(* serverFileIOSemaphore keeps sessions apart that read and write the      *)
(* server's files.  Only a session that posts it without having waited, on *)
(* QUIT and KILLSERVER (536) and in the child of a failed archive, lets    *)
(* one more in, and each such post only one.                               *)
FilesExclusive == Cardinality(AtFiles) <= 1 + freePosts

(* A client keeps a write end of clientFIFORD open after the commands of   *)
(* Keepers, so that from then on its session cannot take the end of the    *)
(* file for a request.  A client is steady when that was so before each of *)
(* its commands that close the descriptor, and has asked for no archive.   *)
Keepers == {"HELP", "READFROM", "WRITETO"}
Steady(c) ==
  /\ scenario.patient
  /\ \A i \in DOMAIN past[c] :
       \/ past[c][i] \in Keepers
       \/ /\ past[c][i] \in {"LIST", "DOWNLOAD", "UPLOAD"}
          /\ \E j \in 1..(i - 1) : past[c][j] \in Keepers

(* What a steady client takes for the response to its command is the       *)
(* response to that command, as long as its session lives: requests and    *)
(* responses carry no number, and only the order in which both sides open  *)
(* and close the FIFOs keeps them in step (client.c 255-740).              *)
InStep ==
  \A c \in Clients :
    client[c] \in {"answered", "packets", "ask", "kept", "send"} /\ Steady(c)
      => response[c].n = command[c].n \/ session[c] \in Over

(* Help says "download <filename>: Downloads file from server" (1364).     *)
(* handleDownload of client.c writes whatever follows the response it      *)
(* reads into the file, and reports success: it had better be the response *)
(* to a download.                                                          *)
DownloadDownloads ==
  \A c \in Clients :
    client[c] = "packets" /\ command[c].kind = "DOWNLOAD" =>
      response[c].kind = "DOWNLOAD"

(* Sessions that wait for a step of their client.                          *)
WaitsForClient(c) ==
  \/ session[c] = "openingResponse"
  \/ /\ toServer[c] = <<>>
     /\ session[c] = "answer" \/ (session[c] = "receive" /\ todo[c] > 0)

(* No session stays in a handler, with serverFileIOSemaphore held, for a   *)
(* steady client that is back at its prompt: the user may never type again *)
(* (981-1097).                                                             *)
NoneHeldUp ==
  \A c \in Clients :
    Steady(c) /\ WaitsForClient(c) /\ command[c].kind # "QUIT" =>
      client[c] \notin {"prompt", "open", "opening"}

(* What handleUpload writes into the file is what the client sends for     *)
(* this upload, and no part of another message: answer, file and the next  *)
(* request share a FIFO without boundaries (1056-1080).                    *)
UploadIntact ==
  [][\A c \in Clients :
       (/\ session[c] = "receive" /\ todo'[c] < todo[c]
        /\ Steady(c) /\ command[c].kind # "QUIT") =>
         /\ Head(toServer[c]).kind = "bytes"
         /\ Head(toServer[c]).n = request[c].n
         /\ toServer'[c] = Tail(toServer[c])]_vars

(* A session that will never release what it holds: it has died or is in   *)
(* the endless search, or its client waits for it, or has gone.            *)
Stuck(c) ==
  \/ session[c] \in {"dead", "searching"}
  \/ WaitsForClient(c) /\ client[c] \in {"left", "dead", "openingResponse"}

(* Whoever types a command gets the prompt back, whatever the sessions of  *)
(* other clients do with the semaphores, when no handler gave up, no       *)
(* session is stuck, nobody is out of step and the client has no           *)
(* clientFIFOWrite left open: with one, the response may come and go       *)
(* before its open, which then waits for ever (READFROM's error, 609-668). *)
EveryCommandAnswered ==
  \A c \in Clients :
    client[c] = "open" /\ "cWR old" \notin ends[c] ~>
      \/ client[c] \in {"prompt", "left", "dead"} \/ c \in unanswered
      \/ loggerSemaphore = 0
      \/ \E d \in Clients : Stuck(d) \/ ~Steady(d)

(* KILLSERVER or a signal ends the server and every session, wherever they *)
(* wait and whatever they hold, unless clients are queued: the handler     *)
(* that the first SIGCHLD interrupts sigTermHandler with then admits one   *)
(* that the signal has missed (1505-1516).                                 *)
KillServerEnds ==
  server = "sigterm" /\ clientQueue = <<>> ~> server = "gone" /\ Live = {}
=============================================================================
