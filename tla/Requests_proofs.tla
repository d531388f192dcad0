-------------------------- MODULE Requests_proofs --------------------------
(***************************************************************************)
(* Proofs about Requests, for all clients, packets and scenarios.          *)
(*                                                                         *)
(* 1. The semaphore bounds who is at the files (Bounded): what it counts   *)
(* and those who are there are together no more than 1 and the posts of    *)
(* those who have not waited.  That is inductive with no more than the     *)
(* domains of the three functions AtFiles is made of.                      *)
(* 2. Types: TypeOK, and what the messages, the queue, the waiters and the *)
(* scenario are.  A session writes packets only as long as it has some.    *)
(* 3. TalkInv: a steady client and its session are in conversation.        *)
(* Talking says, for each state of the client, where the session can be    *)
(* and what the two FIFOs hold: the request, or the response and what is   *)
(* left of it, or the file that is on its way, and nothing else.           *)
(* Connected says which descriptors hold the FIFOs open, so that neither   *)
(* side takes the end of a file for a message, waits in open for a         *)
(* response that has gone by, or dies of SIGPIPE.  Here a steady client's  *)
(* descriptor on clientFIFORD that it never closed ("cRD old") counts.     *)
(* Clients in the queue are not in conversation yet (Aside).  When a       *)
(* handler breaks off a file, what is left of that stays in the FIFOs: the *)
(* session goes on without its client, which waits for ever (Straying).    *)
(***************************************************************************)
EXTENDS Requests, FiniteSetTheorems, SequenceTheorems, TLAPS

Listed(s) == \E S : s \in Seq(S)
Domains ==
  /\ DOMAIN session = Clients /\ DOMAIN request = Clients
  /\ DOMAIN waiters = Clients /\ \A c \in Clients : Listed(waiters[c])
  /\ serverFileIOSemaphore \in Nat /\ freePosts \in Nat
Bounded ==
  /\ IsFiniteSet(AtFiles)
  /\ serverFileIOSemaphore + Cardinality(AtFiles) <= 1 + freePosts
FilesInv == Domains /\ Bounded

AtHand(c) == session[c] \in HandlerStates /\ request[c].kind # "HELP"
countVars == <<serverFileIOSemaphore, freePosts>>

LEMMA AtFilesMembers ==
  ASSUME NEW x
  PROVE  x \in AtFiles <=>
           \/ \E c \in Clients : AtHand(c) /\ x = <<c, 0>>
           \/ \E c \in Clients : \E i \in DOMAIN waiters[c] : x = <<c, i>>
  BY DEF AtFiles, AtHand

LEMMA ListedAppend ==
  ASSUME NEW s, Listed(s), NEW e
  PROVE  /\ Listed(Append(s, e)) /\ Len(s) \in Nat /\ DOMAIN s = 1..Len(s)
         /\ DOMAIN Append(s, e) = 1..(Len(s) + 1)
  <1>1. PICK S : s \in Seq(S)
    BY DEF Listed
  <1> DEFINE T == S \cup {e}
  <1>2. s \in Seq(T)
    BY <1>1
  <1>3. /\ Append(s, e) \in Seq(T) /\ Len(s) \in Nat /\ DOMAIN s = 1..Len(s)
        /\ Len(Append(s, e)) = Len(s) + 1
    BY <1>2
  <1> QED
    BY <1>3 DEF Listed

LEMMA ListedFront ==
  ASSUME NEW s, Listed(s), s # <<>>
  PROVE  /\ Len(s) \in Nat \ {0} /\ DOMAIN s = 1..Len(s)
         /\ Listed(SubSeq(s, 1, Len(s) - 1))
         /\ DOMAIN SubSeq(s, 1, Len(s) - 1) = 1..(Len(s) - 1)
  <1>1. PICK S : s \in Seq(S)
    BY DEF Listed
  <1>2. Len(s) \in Nat \ {0} /\ DOMAIN s = 1..Len(s)
    BY <1>1
  <1> DEFINE u == SubSeq(s, 1, Len(s) - 1)
  <1>3. u \in Seq(S) /\ Len(u) = Len(s) - 1
    BY <1>1, <1>2
  <1>4. DOMAIN u = 1..(Len(s) - 1)
    BY <1>3
  <1> QED
    BY <1>2, <1>3, <1>4 DEF Listed

-----------------------------------------------------------------------------
(* Nobody comes to the files.                                              *)
LEMMA NobodyComes ==
  ASSUME FilesInv, Domains', \A x \in AtFiles' : x \in AtFiles,
         serverFileIOSemaphore' + freePosts
           = serverFileIOSemaphore + freePosts'
  PROVE  FilesInv'
  <1>N. /\ serverFileIOSemaphore \in Nat /\ freePosts \in Nat
        /\ serverFileIOSemaphore' \in Nat /\ freePosts' \in Nat
    BY DEF FilesInv, Domains
  <1>M. Bounded
    BY DEF FilesInv
  <1>1. IsFiniteSet(AtFiles') /\ Cardinality(AtFiles') <= Cardinality(AtFiles)
    BY FS_Subset DEF FilesInv, Bounded
  <1>2. Cardinality(AtFiles') \in Nat /\ Cardinality(AtFiles) \in Nat
    BY <1>1, FS_CardinalityType DEF FilesInv, Bounded
  <1>3. Bounded'
    BY <1>1, <1>2, <1>N, <1>M DEF Bounded
  <1> QED
    BY <1>3 DEF FilesInv

(* One comes, with what the semaphore counted or a post of its own.        *)
LEMMA OneComes ==
  ASSUME FilesInv, Domains', NEW y, \A x \in AtFiles' : x \in AtFiles \cup {y},
         serverFileIOSemaphore' + freePosts + 1
           = serverFileIOSemaphore + freePosts'
  PROVE  FilesInv'
  <1>N. /\ serverFileIOSemaphore \in Nat /\ freePosts \in Nat
        /\ serverFileIOSemaphore' \in Nat /\ freePosts' \in Nat
    BY DEF FilesInv, Domains
  <1>M. Bounded
    BY DEF FilesInv
  <1>0. IsFiniteSet(AtFiles) /\ Cardinality(AtFiles) \in Nat
    BY FS_CardinalityType DEF FilesInv, Bounded
  <1>1. /\ IsFiniteSet(AtFiles \cup {y})
        /\ Cardinality(AtFiles \cup {y}) <= Cardinality(AtFiles) + 1
    <2>1. CASE y \in AtFiles
      <3>1. AtFiles \cup {y} = AtFiles
        BY <2>1
      <3>2. Cardinality(AtFiles) <= Cardinality(AtFiles) + 1
        BY <1>0
      <3> QED
        BY <1>0, <3>1, <3>2, Zenon
    <2>2. CASE y \notin AtFiles
      BY <1>0, <2>2, FS_AddElement
    <2> QED
      BY <2>1, <2>2
  <1>2. /\ IsFiniteSet(AtFiles')
        /\ Cardinality(AtFiles') <= Cardinality(AtFiles \cup {y})
    BY <1>1, FS_Subset
  <1>3. /\ Cardinality(AtFiles') \in Nat /\ Cardinality(AtFiles) \in Nat
        /\ Cardinality(AtFiles \cup {y}) \in Nat
    BY <1>1, <1>2, FS_CardinalityType DEF FilesInv, Bounded
  <1>4. Bounded'
    BY <1>1, <1>2, <1>3, <1>N, <1>M DEF Bounded
  <1> QED
    BY <1>4 DEF FilesInv

(* One goes, and posts.                                                    *)
LEMMA OneGoes ==
  ASSUME FilesInv, Domains', NEW y \in AtFiles,
         \A x \in AtFiles' : x \in AtFiles \ {y},
         serverFileIOSemaphore' + freePosts
           = serverFileIOSemaphore + freePosts' + 1
  PROVE  FilesInv'
  <1>1. /\ IsFiniteSet(AtFiles \ {y})
        /\ Cardinality(AtFiles \ {y}) = Cardinality(AtFiles) - 1
    BY FS_RemoveElement DEF FilesInv, Bounded
  <1>2. /\ IsFiniteSet(AtFiles')
        /\ Cardinality(AtFiles') <= Cardinality(AtFiles \ {y})
    BY <1>1, FS_Subset
  <1>3. Cardinality(AtFiles') \in Nat /\ Cardinality(AtFiles) \in Nat
    BY <1>2, FS_CardinalityType DEF FilesInv, Bounded
  <1> QED
    BY <1>1, <1>2, <1>3 DEF FilesInv, Domains, Bounded

(* One takes the place of another.                                         *)
LEMMA OneChanges ==
  ASSUME FilesInv, Domains', NEW y, NEW z \in AtFiles,
         \A x \in AtFiles' : x \in (AtFiles \ {z}) \cup {y},
         serverFileIOSemaphore' + freePosts
           = serverFileIOSemaphore + freePosts'
  PROVE  FilesInv'
  <1>1. /\ IsFiniteSet(AtFiles \ {z})
        /\ Cardinality(AtFiles \ {z}) = Cardinality(AtFiles) - 1
    BY FS_RemoveElement DEF FilesInv, Bounded
  <1> DEFINE S == (AtFiles \ {z}) \cup {y}
  <1>2. Cardinality(AtFiles) \in Nat /\ Cardinality(AtFiles \ {z}) \in Nat
    BY <1>1, FS_CardinalityType DEF FilesInv, Bounded
  <1>3. IsFiniteSet(S) /\ Cardinality(S) <= Cardinality(AtFiles)
    BY <1>1, <1>2, FS_AddElement
  <1>4. IsFiniteSet(AtFiles') /\ Cardinality(AtFiles') <= Cardinality(S)
    BY <1>3, FS_Subset
  <1>5. Cardinality(AtFiles') \in Nat /\ Cardinality(S) \in Nat
    BY <1>3, <1>4, FS_CardinalityType
  <1> QED
    BY <1>2, <1>3, <1>4, <1>5 DEF FilesInv, Domains, Bounded

-----------------------------------------------------------------------------
LEMMA WaitersFromOne ==
  ASSUME FilesInv, NEW c \in Clients
  PROVE  0 \notin DOMAIN waiters[c]
  <1>1. PICK S : waiters[c] \in Seq(S)
    BY DEF FilesInv, Domains, Listed
  <1> QED
    BY <1>1

LEMMA AtFilesNext ==
  ASSUME NEW x
  PROVE  x \in AtFiles' <=>
           \/ \E c \in Clients : AtHand(c)' /\ x = <<c, 0>>
           \/ \E c \in Clients : \E i \in DOMAIN waiters'[c] : x = <<c, i>>
  BY DEF AtFiles, AtHand

(* Who is there after the step was there before, and nobody else waits.    *)
LEMMA ThereBefore ==
  ASSUME FilesInv, DOMAIN session' = Clients, DOMAIN request' = Clients,
         UNCHANGED <<waiters, countVars>>,
         \A d \in Clients : AtHand(d)' => AtHand(d)
  PROVE  FilesInv'
  <1>1. Domains'
    BY DEF FilesInv, Domains, countVars
  <1>2. ASSUME NEW x \in AtFiles' PROVE x \in AtFiles
    BY <1>2, AtFilesMembers, AtFilesNext
  <1>3. serverFileIOSemaphore' + freePosts = serverFileIOSemaphore + freePosts'
    BY DEF countVars
  <1> QED
    BY <1>1, <1>2, <1>3, NobodyComes

LEMMA Unmoved ==
  ASSUME FilesInv, UNCHANGED <<session, request, waiters, countVars>>
  PROVE  FilesInv'
  BY ThereBefore DEF AtHand, FilesInv, Domains

LEMMA StaysThere ==
  ASSUME FilesInv, NEW c \in Clients, NEW pc, SessionGoes(c, pc),
         session[c] \in HandlerStates \/ pc \notin HandlerStates,
         UNCHANGED <<request, waiters, countVars>>
  PROVE  FilesInv'
  <1>1. DOMAIN session' = Clients /\ DOMAIN request' = Clients
    BY DEF SessionGoes, FilesInv, Domains
  <1>2. ASSUME NEW d \in Clients, AtHand(d)' PROVE AtHand(d)
    BY <1>2 DEF SessionGoes, AtHand, FilesInv, Domains
  <1> QED
    BY <1>1, <1>2, ThereBefore

(* A process ends, or the one that waits for it takes its place.           *)
LEMMA EndsKeep ==
  ASSUME FilesInv, NEW c \in Clients, NEW how, Ends(c, how),
         how \notin HandlerStates,
         serverFileIOSemaphore' \in Nat, freePosts' \in Nat,
         serverFileIOSemaphore' + freePosts
           = serverFileIOSemaphore + freePosts'
  PROVE  FilesInv'
  <1>1. /\ DOMAIN session' = Clients /\ DOMAIN request' = Clients
        /\ DOMAIN waiters' = Clients
        /\ \A d \in Clients \ {c} :
             /\ session'[d] = session[d] /\ request'[d] = request[d]
             /\ waiters'[d] = waiters[d]
    BY DEF Ends, SessionGoes, FilesInv, Domains
  <1>2. CASE waiters[c] = <<>>
    <2>1. session'[c] = how /\ waiters' = waiters
      BY <1>2 DEF Ends, SessionGoes, FilesInv, Domains
    <2>2. Domains'
      BY <1>1, <2>1 DEF FilesInv, Domains
    <2>3. ASSUME NEW d \in Clients, AtHand(d)' PROVE AtHand(d)
      BY <1>1, <2>1, <2>3 DEF AtHand
    <2>4. ASSUME NEW x \in AtFiles' PROVE x \in AtFiles
      BY <2>1, <2>3, <2>4, AtFilesMembers, AtFilesNext
    <2> QED
      BY <2>2, <2>4, NobodyComes
  <1>3. CASE waiters[c] # <<>>
    <2> DEFINE n == Len(waiters[c])
               front == SubSeq(waiters[c], 1, n - 1)
    <2>1. waiters'[c] = front
      BY <1>3 DEF Ends, FilesInv, Domains
    <2>2. /\ n \in Nat \ {0} /\ DOMAIN waiters[c] = 1..n
          /\ Listed(front) /\ DOMAIN front = 1..(n - 1)
      BY <1>3, ListedFront DEF FilesInv, Domains
    <2> HIDE DEF n, front
    <2>3. Domains'
      BY <1>1, <2>1, <2>2 DEF FilesInv, Domains
    <2>4. <<c, n>> \in AtFiles
      BY <2>2, AtFilesMembers
    <2>5. ASSUME NEW x \in AtFiles'
          PROVE  x \in (AtFiles \ {<<c, n>>}) \cup {<<c, 0>>}
      <3>1. CASE \E d \in Clients : AtHand(d)' /\ x = <<d, 0>>
        <4>1. PICK d \in Clients : AtHand(d)' /\ x = <<d, 0>>
          BY <3>1
        <4>2. d # c => AtHand(d)
          BY <1>1, <4>1 DEF AtHand
        <4> QED
          BY <2>2, <4>1, <4>2, AtFilesMembers
      <3>2. CASE \E d \in Clients : \E i \in DOMAIN waiters'[d] : x = <<d, i>>
        <4>0. PICK d \in Clients : \E i \in DOMAIN waiters'[d] : x = <<d, i>>
          BY <3>2
        <4>1. PICK i \in DOMAIN waiters'[d] : x = <<d, i>>
          BY <4>0
        <4>2. i \in DOMAIN waiters[d] /\ x # <<c, n>>
          BY <1>1, <2>1, <2>2, <4>1
        <4> QED
          BY <4>1, <4>2, AtFilesMembers
      <3> QED
        BY <2>5, <3>1, <3>2, AtFilesNext
    <2> QED
      BY <2>3, <2>4, <2>5, OneChanges
  <1> QED
    BY <1>2, <1>3

-----------------------------------------------------------------------------
(* Steps of the client leave the files alone.                              *)
LEMMA OnlyClientKeeps ==
  ASSUME FilesInv, NEW c \in Clients, NEW pc, OnlyClient(c, pc)
  PROVE  FilesInv'
  BY Unmoved DEF OnlyClient, sessionVars, semVars, countVars

LEMMA ClientKeeps ==
  ASSUME FilesInv, NEW c \in Clients,
         \/ \E k \in scenario.typed[c] : Type(c, k)
         \/ ClientStep(c) \/ Overwrite(c) \/ Interrupt(c)
  PROVE  FilesInv'
  <1>1. CASE \E k \in scenario.typed[c] : Type(c, k)
    BY <1>1, OnlyClientKeeps DEF Type
  <1>2. CASE OpenRD(c)
    <2>1. CASE session[c] # "opening"
      BY <1>2, <2>1, Unmoved DEF OpenRD, semVars, countVars
    <2>2. CASE session[c] = "opening"
      <3>1. SessionGoes(c, "read") /\ UNCHANGED <<request, waiters, countVars>>
        BY <1>2, <2>2 DEF OpenRD, SessionGoes, semVars, countVars
      <3> QED
        BY <3>1, StaysThere DEF HandlerStates
    <2> QED
      BY <2>1, <2>2
  <1>3. CASE WriteRequest(c)
    BY <1>3, OnlyClientKeeps DEF WriteRequest, ClientWrites
  <1>4. CASE OpenWR(c)
    <2>1. CASE session[c] # "openingResponse"
      BY <1>4, <2>1, Unmoved DEF OpenWR, semVars, countVars
    <2>2. CASE session[c] = "openingResponse"
      <3>1. /\ SessionGoes(c, "write")
            /\ UNCHANGED <<request, waiters, countVars>>
        BY <1>4, <2>2 DEF OpenWR, SessionGoes, semVars, countVars
      <3> QED
        BY <2>2, <3>1, StaysThere DEF HandlerStates
    <2> QED
      BY <2>1, <2>2
  <1>5. CASE ReadHeader(c)
    BY <1>5, OnlyClientKeeps DEF ReadHeader
  <1>6. CASE ReadPacket(c)
    BY <1>6, OnlyClientKeeps DEF ReadPacket
  <1>7. CASE ClientOneMessage(c)
    BY <1>7, OnlyClientKeeps DEF ClientOneMessage, Answered
  <1>8. CASE ClientReadF(c)
    BY <1>8, OnlyClientKeeps
    DEF ClientReadF, Failed, Succeeded, Answered, Done
  <1>9. CASE ClientList(c)
    BY <1>9, OnlyClientKeeps DEF ClientList, Answered, Done
  <1>10. CASE ClientDownload(c)
    BY <1>10, OnlyClientKeeps
    DEF ClientDownload, Failed, Succeeded, Answered, Done
  <1>11. CASE ClientUpload(c)
    BY <1>11, OnlyClientKeeps
    DEF ClientUpload, Failed, Succeeded, Answered, ClientWrites
  <1>12. CASE ClientQuits(c)
    BY <1>12, OnlyClientKeeps DEF ClientQuits
  <1>13. CASE ClientTerm(c)
    BY <1>13, OnlyClientKeeps DEF ClientTerm
  <1>14. CASE Overwrite(c)
    BY <1>14, OnlyClientKeeps DEF Overwrite, ClientWrites
  <1>15. CASE Interrupt(c)
    BY <1>15, OnlyClientKeeps DEF Interrupt
  <1> QED
    BY <1>1, <1>2, <1>3, <1>4, <1>5, <1>6, <1>7, <1>8, <1>9, <1>10, <1>11,
       <1>12, <1>13, <1>14, <1>15 DEF ClientStep

-----------------------------------------------------------------------------
(* Between two requests a session is not at the files.                     *)
LEMMA OpenRequestKeeps ==
  ASSUME FilesInv, NEW c \in Clients, OpenRequest(c)
  PROVE  FilesInv'
  <1>1. UNCHANGED countVars /\ session[c] = "open"
    BY DEF OpenRequest, semVars, countVars
  <1>2. CASE Ends(c, "ended")
    BY <1>1, <1>2, EndsKeep DEF countVars, HandlerStates, FilesInv, Domains
  <1>3. CASE UNCHANGED <<request, waiters>>
             /\ \E pc \in {"read", "opening"} : SessionGoes(c, pc)
    BY <1>1, <1>3, StaysThere DEF HandlerStates
  <1> QED
    BY <1>2, <1>3 DEF OpenRequest

LEMMA ReadRequestKeeps ==
  ASSUME FilesInv, NEW c \in Clients, ReadRequest(c)
  PROVE  FilesInv'
  <1> DEFINE pc == Dispatch(request'[c].kind)
  <1>1. /\ SessionGoes(c, pc) /\ UNCHANGED <<waiters, countVars>>
        /\ DOMAIN request' = Clients
        /\ \A d \in Clients \ {c} : request'[d] = request[d]
    BY DEF ReadRequest, semVars, countVars, FilesInv, Domains
  <1>2. request'[c].kind = "HELP" \/ pc \notin HandlerStates
    BY DEF Dispatch, FileKinds, HandlerStates
  <1>3. /\ DOMAIN session' = Clients /\ session'[c] = pc
        /\ \A d \in Clients \ {c} : session'[d] = session[d]
    BY <1>1 DEF SessionGoes, FilesInv, Domains
  <1>4. ASSUME NEW d \in Clients, AtHand(d)' PROVE AtHand(d)
    BY <1>1, <1>2, <1>3, <1>4 DEF AtHand
  <1> QED
    BY <1>1, <1>3, <1>4, ThereBefore

(* The semaphore lets one to the files.                                    *)
LEMMA SemWaitKeeps ==
  ASSUME FilesInv, NEW c \in Clients, SemWait(c)
  PROVE  FilesInv'
  <1>1. /\ UNCHANGED <<request, waiters, freePosts>>
        /\ SessionGoes(c, "handle") /\ serverFileIOSemaphore > 0
        /\ serverFileIOSemaphore' = serverFileIOSemaphore - 1
    BY DEF SemWait
  <1>2. Domains'
    BY <1>1 DEF SessionGoes, FilesInv, Domains
  <1>3. ASSUME NEW d \in Clients \ {c}, AtHand(d)' PROVE AtHand(d)
    BY <1>1, <1>3 DEF AtHand, SessionGoes, FilesInv, Domains
  <1>4. ASSUME NEW x \in AtFiles' PROVE x \in AtFiles \cup {<<c, 0>>}
    BY <1>1, <1>3, <1>4, AtFilesMembers, AtFilesNext
  <1>5. serverFileIOSemaphore' + freePosts + 1
          = serverFileIOSemaphore + freePosts'
    BY <1>1 DEF FilesInv, Domains
  <1> QED
    BY <1>2, <1>4, <1>5, OneComes

(* Who has been there posts.                                               *)
LEMMA PostKeeps ==
  ASSUME FilesInv, NEW c \in Clients, Post(c)
  PROVE  FilesInv'
  <1>1. /\ UNCHANGED <<request, waiters, freePosts>>
        /\ SessionGoes(c, "open") /\ session[c] = "post"
        /\ serverFileIOSemaphore' = serverFileIOSemaphore
             + IF request[c].kind = "HELP" THEN 0 ELSE 1
    BY DEF Post, OnlySession
  <1>2. Domains' /\ "open" \notin HandlerStates
    BY <1>1 DEF SessionGoes, FilesInv, Domains, HandlerStates
  <1>3. ASSUME NEW d \in Clients, AtHand(d)' PROVE AtHand(d) /\ d # c
    BY <1>1, <1>2, <1>3 DEF AtHand, SessionGoes, FilesInv, Domains
  <1>4. CASE request[c].kind = "HELP"
    <2>1. ASSUME NEW x \in AtFiles' PROVE x \in AtFiles
      BY <1>1, <1>3, <2>1, AtFilesMembers, AtFilesNext
    <2>2. serverFileIOSemaphore' + freePosts
            = serverFileIOSemaphore + freePosts'
      BY <1>1, <1>4 DEF FilesInv, Domains
    <2> QED
      BY <1>2, <2>1, <2>2, NobodyComes
  <1>5. CASE request[c].kind # "HELP"
    <2>1. <<c, 0>> \in AtFiles
      BY <1>1, <1>5, AtFilesMembers DEF AtHand, HandlerStates
    <2>2. \A d \in Clients : 0 \notin DOMAIN waiters[d]
      BY WaitersFromOne
    <2>3. ASSUME NEW x \in AtFiles' PROVE x \in AtFiles \ {<<c, 0>>}
      BY <1>1, <1>3, <2>2, <2>3, AtFilesMembers, AtFilesNext
    <2>4. serverFileIOSemaphore' + freePosts
            = serverFileIOSemaphore + freePosts' + 1
      BY <1>1, <1>5 DEF FilesInv, Domains
    <2> QED
      BY <1>2, <2>1, <2>3, <2>4, OneGoes
  <1> QED
    BY <1>4, <1>5

(* Who quits posts without having waited, and the post is counted.         *)
LEMMA ByeKeeps ==
  ASSUME FilesInv, NEW c \in Clients, NEW kind, Bye(c, kind)
  PROVE  FilesInv'
  <1>1. /\ serverFileIOSemaphore' = serverFileIOSemaphore + 1
        /\ freePosts' = freePosts + 1 /\ Ends(c, "quit")
    BY DEF Bye
  <1>2. /\ serverFileIOSemaphore' \in Nat /\ freePosts' \in Nat
        /\ serverFileIOSemaphore' + freePosts
             = serverFileIOSemaphore + freePosts'
    BY <1>1 DEF FilesInv, Domains
  <1> QED
    BY <1>1, <1>2, EndsKeep DEF HandlerStates

(* So does the child of a failed archive, which comes to the files while   *)
(* its parent stays.                                                       *)
LEMMA ChildGoesOnKeeps ==
  ASSUME FilesInv, NEW c \in Clients, ChildGoesOn(c),
         session[c] = "handle", request[c].kind = "ARCHSERVER",
         UNCHANGED serverFileIOSemaphore
  PROVE  FilesInv'
  <1> DEFINE w == [request |-> request[c], ends |-> ends[c] \cap SessionEnds]
             n == Len(waiters[c]) + 1
  <1>1. /\ waiters' = [waiters EXCEPT ![c] = Append(@, w)]
        /\ freePosts' = freePosts + 1 /\ SessionGoes(c, "post")
        /\ UNCHANGED request
    BY DEF ChildGoesOn
  <1>2. /\ Listed(Append(waiters[c], w)) /\ n \in Nat
        /\ DOMAIN waiters[c] = 1..Len(waiters[c]) /\ Len(waiters[c]) \in Nat
        /\ DOMAIN Append(waiters[c], w) = 1..n
    BY ListedAppend DEF FilesInv, Domains
  <1>3. /\ waiters'[c] = Append(waiters[c], w) /\ DOMAIN waiters' = Clients
        /\ \A d \in Clients \ {c} : waiters'[d] = waiters[d]
    BY <1>1 DEF FilesInv, Domains
  <1> HIDE DEF w
  <1>4. Domains'
    BY <1>1, <1>2, <1>3 DEF SessionGoes, FilesInv, Domains
  <1>5. ASSUME NEW d \in Clients, AtHand(d)' PROVE AtHand(d)
    BY <1>1, <1>5 DEF AtHand, SessionGoes, FilesInv, Domains, HandlerStates
  <1>6. ASSUME NEW d \in Clients, NEW i \in DOMAIN waiters'[d]
        PROVE  i \in DOMAIN waiters[d] \/ <<d, i>> = <<c, n>>
    BY <1>2, <1>3, <1>6
  <1>7. ASSUME NEW x \in AtFiles' PROVE x \in AtFiles \cup {<<c, n>>}
    BY <1>5, <1>6, <1>7, AtFilesMembers, AtFilesNext
  <1>8. serverFileIOSemaphore' + freePosts + 1
          = serverFileIOSemaphore + freePosts'
    BY <1>1 DEF FilesInv, Domains
  <1> QED
    BY <1>4, <1>7, <1>8, OneComes

-----------------------------------------------------------------------------
(* A handler stays at the files.                                           *)
LEMMA RespondKeeps ==
  ASSUME FilesInv, NEW c \in Clients, NEW kind, NEW size,
         Respond(c, kind, size), session[c] \in HandlerStates,
         UNCHANGED countVars
  PROVE  FilesInv'
  BY StaysThere DEF Respond

LEMMA GiveUpKeeps ==
  ASSUME FilesInv, NEW c \in Clients, GiveUp(c),
         session[c] \in HandlerStates, UNCHANGED countVars
  PROVE  FilesInv'
  BY StaysThere DEF GiveUp

LEMMA HandlersKeep ==
  ASSUME FilesInv, NEW c \in Clients,
         \/ HandleHelp(c) \/ HandleList(c) \/ HandleReadFrom(c)
         \/ HandleWriteTo(c) \/ HandleDownload(c) \/ HandleUpload(c)
         \/ HandleArchServer(c) \/ RespondAgain(c)
  PROVE  FilesInv'
  <1>H. session[c] \in HandlerStates /\ UNCHANGED serverFileIOSemaphore
    BY DEF HandleHelp, HandleList, HandleReadFrom, HandleWriteTo, semVars,
           HandleDownload, HandleUpload, HandleArchServer, RespondAgain,
           Handling, HandlerStates
  <1>1. CASE HandleHelp(c)
    BY <1>H, <1>1, RespondKeeps, GiveUpKeeps DEF HandleHelp, countVars
  <1>2. CASE HandleList(c)
    <2>1. CASE Respond(c, "LIST", Packets)
      BY <1>H, <1>2, <2>1, RespondKeeps DEF HandleList, countVars
    <2>2. CASE SessionGoes(c, "post") /\ UNCHANGED <<request, waiters>>
      BY <1>H, <1>2, <2>2, StaysThere DEF HandleList, countVars
    <2> QED
      BY <1>2, <2>1, <2>2 DEF HandleList
  <1>3. CASE HandleReadFrom(c)
    BY <1>H, <1>3, RespondKeeps, GiveUpKeeps DEF HandleReadFrom, countVars
  <1>4. CASE HandleWriteTo(c)
    <2>1. CASE SessionGoes(c, "searching") /\ UNCHANGED <<request, waiters>>
      BY <1>H, <1>4, <2>1, StaysThere DEF HandleWriteTo, countVars
    <2> QED
      BY <1>H, <1>4, <2>1, RespondKeeps, GiveUpKeeps
      DEF HandleWriteTo, countVars
  <1>5. CASE HandleDownload(c)
    BY <1>H, <1>5, RespondKeeps, GiveUpKeeps DEF HandleDownload, countVars
  <1>6. CASE HandleUpload(c)
    <2>1. CASE SessionGoes(c, "receive") /\ UNCHANGED <<request, waiters>>
      BY <1>H, <1>6, <2>1, StaysThere DEF HandleUpload, countVars
    <2> QED
      BY <1>H, <1>6, <2>1, RespondKeeps, GiveUpKeeps
      DEF HandleUpload, countVars
  <1>7. CASE HandleArchServer(c)
    <2>1. session[c] = "handle" /\ request[c].kind = "ARCHSERVER"
      BY <1>7 DEF HandleArchServer, Handling
    <2>2. CASE ChildGoesOn(c)
      BY <1>H, <2>1, <2>2, ChildGoesOnKeeps
    <2>3. CASE Respond(c, "ARCHSERVER", Packets) /\ UNCHANGED freePosts
      BY <1>H, <2>3, RespondKeeps DEF countVars
    <2>4. CASE GiveUp(c) /\ UNCHANGED freePosts
      BY <1>H, <2>4, GiveUpKeeps DEF countVars
    <2> QED
      BY <1>7, <2>2, <2>3, <2>4 DEF HandleArchServer
  <1>8. CASE RespondAgain(c)
    BY <1>H, <1>8, RespondKeeps, GiveUpKeeps
    DEF RespondAgain, semVars, countVars
  <1> QED
    BY <1>1, <1>2, <1>3, <1>4, <1>5, <1>6, <1>7, <1>8

LEMMA TransferKeeps ==
  ASSUME FilesInv, NEW c \in Clients,
         \/ PassOver(c) \/ Broken(c) \/ WriteHeader(c) \/ WritePacket(c)
         \/ Close(c) \/ ReadAnswer(c) \/ Truncate(c) \/ Keep(c) \/ Receive(c)
         \/ Received(c) \/ ReadFails(c) \/ CreateFails(c) \/ WriteFails(c)
  PROVE  FilesInv'
  <1>1. CASE PassOver(c)
    BY <1>1, StaysThere
    DEF PassOver, OnlySession, semVars, countVars, HandlerStates
  <1>2. CASE Broken(c)
    <2>1. session[c] \in HandlerStates /\ UNCHANGED countVars
      BY <1>2 DEF Broken, semVars, countVars, HandlerStates
    <2>2. CASE Ends(c, "dead")
      BY <2>1, <2>2, EndsKeep DEF countVars, HandlerStates, FilesInv, Domains
    <2>3. CASE SessionGoes(c, "post") /\ UNCHANGED <<request, waiters>>
      BY <2>1, <2>3, StaysThere
    <2> QED
      BY <1>2, <2>2, <2>3 DEF Broken
  <1>3. CASE WriteHeader(c)
    BY <1>3, StaysThere
    DEF WriteHeader, OnlySession, semVars, countVars, HandlerStates
  <1>4. CASE WritePacket(c)
    BY <1>4, StaysThere
    DEF WritePacket, OnlySession, semVars, countVars, HandlerStates
  <1>5. CASE Close(c)
    <2>1. /\ session[c] \in HandlerStates
          /\ UNCHANGED <<request, waiters, countVars>>
      BY <1>5 DEF Close, OnlySession, semVars, countVars, HandlerStates
    <2>2. \E pc \in {"receive", "second", "post"} : SessionGoes(c, pc)
      BY <1>5 DEF Close
    <2> QED
      BY <2>1, <2>2, StaysThere
  <1>6. CASE ReadAnswer(c)
    <2>1. /\ session[c] \in HandlerStates
          /\ UNCHANGED <<request, waiters, countVars>>
      BY <1>6 DEF ReadAnswer, OnlySession, semVars, countVars, HandlerStates
    <2>2. \E pc \in {"truncate", "keep"} : SessionGoes(c, pc)
      BY <1>6 DEF ReadAnswer
    <2> QED
      BY <2>1, <2>2, StaysThere
  <1>7. CASE Truncate(c)
    BY <1>7, StaysThere
    DEF Truncate, OnlySession, semVars, countVars, HandlerStates
  <1>8. CASE Keep(c)
    BY <1>8, StaysThere
    DEF Keep, OnlySession, semVars, countVars, HandlerStates
  <1>9. CASE Receive(c)
    BY <1>9, Unmoved DEF Receive, semVars, countVars
  <1>10. CASE Received(c)
    BY <1>10, StaysThere
    DEF Received, OnlySession, semVars, countVars, HandlerStates
  <1>11. CASE ReadFails(c) \/ CreateFails(c) \/ WriteFails(c)
    <2>1. /\ session[c] \in HandlerStates /\ SessionGoes(c, "post")
          /\ UNCHANGED <<request, waiters, countVars>>
      BY <1>11 DEF ReadFails, CreateFails, WriteFails, BreakOff, OnlySession,
                   semVars, countVars, HandlerStates
    <2> QED
      BY <2>1, StaysThere DEF HandlerStates
  <1> QED
    BY <1>1, <1>2, <1>3, <1>4, <1>5, <1>6, <1>7, <1>8, <1>9, <1>10, <1>11

(* SIGTERM ends a session and those that wait for it.                      *)
LEMMA SessionTermKeeps ==
  ASSUME FilesInv, NEW c \in Clients, SessionTerm(c)
  PROVE  FilesInv'
  <1>1. /\ SessionGoes(c, "killed") /\ UNCHANGED <<request, countVars>>
        /\ waiters' = [waiters EXCEPT ![c] = <<>>]
    BY DEF SessionTerm, semVars, countVars
  <1>2. Listed(<<>>) /\ DOMAIN <<>> = {}
    BY DEF Listed
  <1>3. /\ waiters'[c] = <<>> /\ DOMAIN waiters' = Clients
        /\ \A d \in Clients \ {c} : waiters'[d] = waiters[d]
    BY <1>1 DEF FilesInv, Domains
  <1>4. Domains'
    BY <1>1, <1>2, <1>3 DEF SessionGoes, countVars, FilesInv, Domains
  <1>5. ASSUME NEW d \in Clients, AtHand(d)' PROVE AtHand(d)
    BY <1>1, <1>5 DEF AtHand, SessionGoes, FilesInv, Domains, HandlerStates
  <1>6. ASSUME NEW d \in Clients, NEW i \in DOMAIN waiters'[d]
        PROVE  i \in DOMAIN waiters[d]
    BY <1>2, <1>3, <1>6
  <1>7. ASSUME NEW x \in AtFiles' PROVE x \in AtFiles
    BY <1>5, <1>6, <1>7, AtFilesMembers, AtFilesNext
  <1>8. serverFileIOSemaphore' + freePosts = serverFileIOSemaphore + freePosts'
    BY <1>1 DEF countVars
  <1> QED
    BY <1>4, <1>7, <1>8, NobodyComes

LEMMA SessionKeeps ==
  ASSUME FilesInv, NEW c \in Clients, SessionStep(c)
  PROVE  FilesInv'
  <1>1. CASE Quit(c) \/ KillServer(c)
    BY <1>1, ByeKeeps DEF Quit, KillServer
  <1> QED
    BY <1>1, OpenRequestKeeps, ReadRequestKeeps, SemWaitKeeps, HandlersKeep,
       TransferKeeps, PostKeeps, SessionTermKeeps DEF SessionStep

-----------------------------------------------------------------------------
(* The parent starts sessions, which open their FIFO first.                *)
LEMMA ServerKeeps ==
  ASSUME FilesInv, ServerStep \/ ShutDown
  PROVE  FilesInv'
  <1>1. CASE SigChld
    <2>1. UNCHANGED <<request, waiters, countVars>>
      BY <1>1 DEF SigChld, semVars, countVars
    <2>2. CASE clientQueue = <<>>
      BY <1>1, <2>1, <2>2, Unmoved DEF SigChld
    <2>3. CASE clientQueue # <<>>
      <3>1. SessionGoes(Head(clientQueue), "open")
        BY <1>1, <2>3 DEF SigChld
      <3>2. DOMAIN session' = Clients /\ DOMAIN request' = Clients
        BY <2>1, <3>1 DEF SessionGoes, FilesInv, Domains
      <3>3. ASSUME NEW d \in Clients, AtHand(d)' PROVE AtHand(d)
        BY <2>1, <3>1, <3>3
        DEF AtHand, SessionGoes, FilesInv, Domains, HandlerStates
      <3> QED
        BY <2>1, <3>2, <3>3, ThereBefore
    <2> QED
      BY <2>2, <2>3
  <1>2. CASE \E from, to : OnlyServer(from, to)
    BY <1>2, Unmoved DEF OnlyServer, sessionVars, semVars, countVars
  <1> QED
    BY <1>1, <1>2 DEF ServerStep, ServerTerm, ServerExits, ShutDown

LEMMA InitFiles == Init => FilesInv
  <1> SUFFICES ASSUME Init PROVE FilesInv
    OBVIOUS
  <1>1. /\ DOMAIN session = Clients /\ DOMAIN request = Clients
        /\ serverFileIOSemaphore = 1 /\ freePosts = 0
        /\ waiters = [c \in Clients |-> <<>>]
        /\ \A c \in Clients : session[c] \in {"none", "open"}
    BY DEF Init
  <1>2. Listed(<<>>) /\ DOMAIN <<>> = {}
    BY DEF Listed
  <1>3. Domains
    BY <1>1, <1>2 DEF Domains
  <1>4. ASSUME NEW x \in AtFiles PROVE FALSE
    BY <1>1, <1>2, <1>4, AtFilesMembers DEF AtHand, HandlerStates
  <1>5. AtFiles = {}
    BY <1>4
  <1>6. IsFiniteSet(AtFiles) /\ Cardinality(AtFiles) = 0
    BY <1>5, FS_EmptySet
  <1> QED
    BY <1>1, <1>3, <1>6 DEF FilesInv, Bounded

(* The inductive invariant: what serverFileIOSemaphore counts and the      *)
(* sessions at the files are together no more than 1 and the posts of      *)
(* those who have not waited (server.c 393-547, 536).                      *)
THEOREM FilesInvariant == Spec => []FilesInv
  <1>1. FilesInv /\ [Next]_vars => FilesInv'
    <2> SUFFICES ASSUME FilesInv, [Next]_vars PROVE FilesInv'
      OBVIOUS
    <2>1. CASE UNCHANGED vars
      BY <2>1, Unmoved DEF vars, sessionVars, semVars, countVars
    <2>2. CASE ServerStep \/ ShutDown
      BY <2>2, ServerKeeps
    <2>3. ASSUME NEW c \in Clients,
                 \/ \E k \in scenario.typed[c] : Type(c, k)
                 \/ ClientStep(c) \/ Overwrite(c) \/ SessionStep(c)
                 \/ Interrupt(c)
          PROVE  FilesInv'
      BY <2>3, ClientKeeps, SessionKeeps
    <2> QED
      BY <2>1, <2>2, <2>3 DEF Next
  <1> QED
    BY <1>1, InitFiles, PTL DEF Spec

(* For any clients, whatever they type and whatever fails, at most one     *)
(* session is at the server's files, and one more for every post by one    *)
(* that has not waited (serverFileIOSemaphore, server.c 393-547).          *)
THEOREM FilesExclusiveHolds == Spec => []FilesExclusive
  <1>1. FilesInv => FilesExclusive
    <2> SUFFICES ASSUME FilesInv PROVE FilesExclusive
      OBVIOUS
    <2>1. Cardinality(AtFiles) \in Nat
      BY FS_CardinalityType DEF FilesInv, Bounded
    <2> QED
      BY <2>1 DEF FilesInv, Domains, Bounded, FilesExclusive
  <1> QED
    BY <1>1, FilesInvariant, PTL

-----------------------------------------------------------------------------
(* Types: TypeOK, and what the messages, the queue and the scenario are.   *)
RequestKinds == Kinds \cup {"INVALID", "yes", "no"}
Command == [kind : Kinds \cup {"INVALID"}, n : Nat]
Request == [kind : RequestKinds, n : Nat]
Message == [kind : RequestKinds \cup {"bytes", "rest"}, n : Nat]
ReplyKinds == Kinds \cup {"INVALID", "ERROR", "ASK", "DONE", "none", "packet"}
Response == [kind : ReplyKinds, n : Nat, size : 0..Packets]
Waiter == [request : [kind : {"ARCHSERVER"}, n : Nat],
           ends : SUBSET SessionEnds]

ClientTypes ==
  /\ client \in [Clients -> ClientStates]
  /\ command \in [Clients -> Command]
  /\ past \in [Clients -> Seq(Kinds \cup {"INVALID"})]
  /\ response \in [Clients -> Response]
  /\ left \in [Clients -> 0..Packets]
FifoTypes ==
  /\ ends \in [Clients -> SUBSET (ClientEnds \cup SessionEnds)]
  /\ toServer \in [Clients -> Seq(Message)]
  /\ toClient \in [Clients -> Seq(Response)]
  /\ gone \subseteq Clients
SessionTypes ==
  /\ session \in [Clients -> SessionStates]
  /\ request \in [Clients -> Request]
  /\ reply \in [Clients -> [kind : ReplyKinds, size : 0..Packets]]
  /\ todo \in [Clients -> 0..Packets]
  /\ waiters \in [Clients -> Seq(Waiter)]
  /\ unanswered \subseteq Clients
  /\ \A c \in Clients : session[c] = "packets" => todo[c] > 0
SemTypes ==
  /\ serverFileIOSemaphore \in Nat /\ loggerSemaphore \in Nat
  /\ freePosts \in Nat
ParentTypes ==
  /\ scenario \in Scenarios
  /\ server \in {"up", "sigterm", "waiting", "gone"}
  /\ clientQueue \in Seq(Clients)
  /\ clientTerm \subseteq Clients /\ sessionTerm \subseteq Clients
Types ==
  /\ ClientTypes /\ FifoTypes /\ SessionTypes /\ SemTypes /\ ParentTypes
  /\ sigchld \in BOOLEAN

LEMMA TypesSame ==
  /\ ClientTypes /\ UNCHANGED clientVars => ClientTypes'
  /\ FifoTypes /\ UNCHANGED fifoVars => FifoTypes'
  /\ SessionTypes /\ UNCHANGED sessionVars => SessionTypes'
  /\ SemTypes /\ UNCHANGED semVars => SemTypes'
  /\ ParentTypes /\ UNCHANGED parentVars => ParentTypes'
<1>1. ClientTypes /\ UNCHANGED clientVars => ClientTypes'
  BY DEF ClientTypes, clientVars, commandVars
<1>2. FifoTypes /\ UNCHANGED fifoVars => FifoTypes'
  BY DEF FifoTypes, fifoVars
<1>3. SessionTypes /\ UNCHANGED sessionVars => SessionTypes'
  BY DEF SessionTypes, sessionVars, handlerVars
<1>4. SemTypes /\ UNCHANGED semVars => SemTypes'
  BY DEF SemTypes, semVars
<1>5. ParentTypes /\ UNCHANGED parentVars => ParentTypes'
  BY DEF ParentTypes, parentVars
<1> QED BY <1>1, <1>2, <1>3, <1>4, <1>5

LEMMA DescriptorsTyped ==
  ASSUME FifoTypes, NEW c \in Clients,
         NEW new \in SUBSET (ClientEnds \cup SessionEnds), Descriptors(c, new),
         gone' \subseteq Clients
  PROVE  FifoTypes'
  BY EmptySeq DEF Descriptors, FifoTypes

LEMMA ForgottenTyped ==
  ASSUME FifoTypes, NEW c \in Clients,
         NEW S \in SUBSET (ClientEnds \cup SessionEnds)
  PROVE  Forgotten(c, S) \in SUBSET (ClientEnds \cup SessionEnds)
  BY DEF Forgotten, Old, FifoTypes, ClientEnds, SessionEnds, RDReaders,
         RDWriters, WRReaders, WRWriters

LEMMA ToServerTyped ==
  ASSUME FifoTypes, NEW c \in Clients, NEW m \in Message, ToServer(c, m),
         gone' = gone
  PROVE  FifoTypes'
<1>1. Append(toServer[c], m) \in Seq(Message)
  BY AppendProperties DEF FifoTypes
<1> QED BY <1>1 DEF ToServer, FifoTypes

LEMMA ToClientTyped ==
  ASSUME FifoTypes, NEW c \in Clients, NEW m \in Response, ToClient(c, m)
  PROVE  FifoTypes'
<1>1. Append(toClient[c], m) \in Seq(Response)
  BY AppendProperties DEF FifoTypes
<1> QED BY <1>1 DEF ToClient, FifoTypes

LEMMA TakeTyped ==
  ASSUME FifoTypes, NEW c \in Clients
  PROVE  /\ toServer[c] # <<>> =>
              Head(toServer[c]) \in Message /\ Tail(toServer[c]) \in Seq(Message)
         /\ toClient[c] # <<>> =>
              /\ Head(toClient[c]) \in Response
              /\ Tail(toClient[c]) \in Seq(Response)
  BY HeadTailProperties DEF FifoTypes

LEMMA GoesTyped ==
  ASSUME NEW c \in Clients
  PROVE  /\ \A pc \in ClientStates :
              /\ client \in [Clients -> ClientStates] /\ ClientGoes(c, pc)
                   => client' \in [Clients -> ClientStates]
         /\ \A pc \in SessionStates :
              session \in [Clients -> SessionStates] /\ SessionGoes(c, pc)
                => session' \in [Clients -> SessionStates]
  BY DEF ClientGoes, SessionGoes

-----------------------------------------------------------------------------
(* Steps of the client.                                                    *)
LEMMA ClientWritesTyped ==
  ASSUME Types, NEW c \in Clients, NEW from, NEW to \in ClientStates,
         NEW m \in Message, ClientWrites(c, from, to, m)
  PROVE  /\ client' \in [Clients -> ClientStates] /\ FifoTypes'
         /\ UNCHANGED <<command, past, response, sessionVars, semVars,
                        parentVars, sigchld>>
<1>1. UNCHANGED <<command, past, response, gone, sessionVars, semVars,
                  parentVars, sigchld>>
  BY DEF ClientWrites, OnlyClient
<1>2. CASE ClientGoes(c, to) /\ ToServer(c, m)
  BY <1>1, <1>2, GoesTyped, ToServerTyped DEF Types, ClientTypes
<1>3. CASE ClientGoes(c, "dead") /\ Descriptors(c, ends[c] \ ClientEnds)
  <2>1. ends[c] \ ClientEnds \in SUBSET (ClientEnds \cup SessionEnds)
    BY DEF Types, FifoTypes
  <2>2. gone' \subseteq Clients /\ "dead" \in ClientStates
    BY <1>1 DEF Types, FifoTypes, ClientStates
  <2>3. FifoTypes'
    BY <1>3, <2>1, <2>2, DescriptorsTyped DEF Types
  <2>4. client' \in [Clients -> ClientStates]
    BY <1>3, <2>2, GoesTyped DEF Types, ClientTypes
  <2> QED BY <1>1, <2>3, <2>4
<1> QED BY <1>1, <1>2, <1>3 DEF ClientWrites

LEMMA PromptTyped ==
  ASSUME Types, NEW c \in Clients, NEW closed \in SUBSET {"cRD", "cWR"},
         Prompt(c, closed)
  PROVE  ClientTypes' /\ FifoTypes'
<1>1. FifoTypes'
  <2> DEFINE S == {"cRD", "cWR"} \ closed
             new == Forgotten(c, S) \ closed
  <2>1. S \in SUBSET (ClientEnds \cup SessionEnds)
    BY DEF ClientEnds, RDWriters, WRReaders
  <2>2. new \in SUBSET (ClientEnds \cup SessionEnds)
    <3> HIDE DEF S
    <3> QED BY <2>1, ForgottenTyped DEF Types
  <2>3. gone' \subseteq Clients /\ Descriptors(c, new)
    BY DEF Prompt, Types, FifoTypes
  <2> HIDE DEF new
  <2> QED BY <2>2, <2>3, DescriptorsTyped DEF Types
<1>2. ClientTypes'
  <2>1. Append(past[c], command[c].kind) \in Seq(Kinds \cup {"INVALID"})
    <3>1. /\ past[c] \in Seq(Kinds \cup {"INVALID"})
          /\ command[c].kind \in Kinds \cup {"INVALID"}
      BY DEF Types, ClientTypes, Command
    <3> QED BY <3>1, AppendProperties
  <2>2. past' \in [Clients -> Seq(Kinds \cup {"INVALID"})]
    BY <2>1 DEF Prompt, Types, ClientTypes
  <2>3. NoResponse \in Response
    BY BoundsAssumption DEF NoResponse, Response, ReplyKinds
  <2>4. response' \in [Clients -> Response]
    BY <2>3 DEF Prompt, Types, ClientTypes
  <2>5. left' \in [Clients -> 0..Packets]
    BY BoundsAssumption DEF Prompt, Types, ClientTypes
  <2>6. client' \in [Clients -> ClientStates] /\ command' = command
    BY GoesTyped DEF Prompt, Types, ClientTypes, ClientStates
  <2> QED BY <2>2, <2>4, <2>5, <2>6 DEF Types, ClientTypes
<1> QED BY <1>1, <1>2

LEMMA ToPacketsTyped ==
  ASSUME Types, NEW c \in Clients, ToPackets(c)
  PROVE  ClientTypes' /\ FifoTypes'
<1>1. FifoTypes'
  BY TypesSame DEF ToPackets, Types
<1>2. response[c].size \in 0..Packets
  BY DEF Types, ClientTypes, Response
<1>3. client' \in [Clients -> ClientStates]
  BY GoesTyped DEF ToPackets, Types, ClientTypes, ClientStates
<1> QED BY <1>1, <1>2, <1>3 DEF ToPackets, Types, ClientTypes

LEMMA LeaveTyped ==
  ASSUME Types, NEW c \in Clients, Leave(c)
  PROVE  ClientTypes' /\ FifoTypes'
<1>1. ends[c] \ ClientEnds \in SUBSET (ClientEnds \cup SessionEnds)
  BY DEF Types, FifoTypes
<1>2. gone' \subseteq Clients
  BY DEF Leave, Types, FifoTypes
<1>3. FifoTypes'
  BY <1>1, <1>2, DescriptorsTyped DEF Leave, Types
<1>4. client' \in [Clients -> ClientStates]
  BY GoesTyped DEF Leave, Types, ClientTypes, ClientStates
<1> QED BY <1>3, <1>4 DEF Leave, Types, ClientTypes

(* What an action of the client leaves alone.                              *)
LEMMA OnlyClientTyped ==
  ASSUME Types, NEW c \in Clients, NEW from, OnlyClient(c, from),
         ClientTypes', FifoTypes'
  PROVE  Types'
  BY TypesSame DEF OnlyClient, Types

LEMMA TypeTyped ==
  ASSUME Types, NEW c \in Clients, NEW k \in scenario.typed[c], Type(c, k)
  PROVE  Types'
<1>1. k \in Kinds
  BY ScenariosAssumption DEF Types, ParentTypes
<1>2. Len(past[c]) \in Nat
  BY LenProperties DEF Types, ClientTypes
<1>3. [kind |-> k, n |-> Len(past[c]) + 1] \in Command
  BY <1>1, <1>2 DEF Command
<1>4. client' \in [Clients -> ClientStates]
  BY GoesTyped DEF Type, Types, ClientTypes, ClientStates
<1>5. ClientTypes'
  BY <1>3, <1>4 DEF Type, Types, ClientTypes
<1>6. FifoTypes'
  BY TypesSame DEF Type, Types
<1> QED BY <1>5, <1>6, OnlyClientTyped DEF Type

LEMMA InterruptTyped ==
  ASSUME Types, NEW c \in Clients, Interrupt(c)
  PROVE  Types'
<1>1. command' \in [Clients -> Command]
  BY DEF Interrupt, Types, ClientTypes, Command, Kinds
<1>2. client' \in [Clients -> ClientStates]
  BY GoesTyped DEF Interrupt, Types, ClientTypes, ClientStates
<1>3. ClientTypes'
  BY <1>1, <1>2 DEF Interrupt, Types, ClientTypes
<1>4. FifoTypes'
  <2> DEFINE lost == CASE client[c] = "opening" -> {"cRD"}
                       [] client[c] = "openingResponse" -> {"cWR"}
                       [] OTHER -> {}
             S == {"cRD", "cWR"} \ lost
             new == Forgotten(c, S) \ lost
  <2>1. Descriptors(c, new) /\ gone' = gone
    BY DEF Interrupt
  <2>2. S \in SUBSET (ClientEnds \cup SessionEnds)
    BY DEF ClientEnds, RDWriters, WRReaders
  <2> HIDE DEF S, lost
  <2>3. new \in SUBSET (ClientEnds \cup SessionEnds)
    BY <2>2, ForgottenTyped DEF Types
  <2> HIDE DEF new
  <2> QED BY <2>1, <2>3, DescriptorsTyped DEF Types, FifoTypes
<1> QED BY <1>3, <1>4, OnlyClientTyped DEF Interrupt

LEMMA OpensTyped ==
  ASSUME Types, NEW c \in Clients, OpenRD(c) \/ OpenWR(c)
  PROVE  Types'
<1>1. client' \in [Clients -> ClientStates]
  <2>1. \E pc \in {"write", "opening", "header", "openingResponse"} :
          ClientGoes(c, pc)
    BY DEF OpenRD, OpenWR
  <2> QED BY <2>1, GoesTyped DEF Types, ClientTypes, ClientStates
<1>2. ClientTypes'
  BY <1>1 DEF OpenRD, OpenWR, Types, ClientTypes, commandVars
<1>3. FifoTypes'
  <2>1. PICK e \in {"cRD", "cWR"} : Descriptors(c, ends[c] \cup {e})
    BY DEF OpenRD, OpenWR
  <2>2. /\ ends[c] \cup {e} \in SUBSET (ClientEnds \cup SessionEnds)
        /\ gone' \subseteq Clients
    BY DEF OpenRD, OpenWR, Types, FifoTypes, ClientEnds, RDWriters, WRReaders
  <2> QED BY <2>1, <2>2, DescriptorsTyped DEF Types
<1>4. SessionTypes'
  <2>1. \/ session' = session
        \/ SessionGoes(c, "read")
        \/ SessionGoes(c, "write")
    BY DEF OpenRD, OpenWR, SessionGoes
  <2>2. /\ session' \in [Clients -> SessionStates]
        /\ \A d \in Clients : session'[d] = "packets" => session[d] = "packets"
    BY <2>1 DEF SessionGoes, Types, SessionTypes, SessionStates, HandlerStates
  <2> QED BY <2>2
          DEF OpenRD, OpenWR, Types, SessionTypes, handlerVars
<1>5. SemTypes' /\ ParentTypes' /\ sigchld' \in BOOLEAN
  BY TypesSame DEF OpenRD, OpenWR, Types
<1> QED BY <1>2, <1>3, <1>4, <1>5 DEF Types

LEMMA ReadsTyped ==
  ASSUME Types, NEW c \in Clients, ReadHeader(c) \/ ReadPacket(c)
  PROVE  Types'
<1>1. toClient[c] # <<>> =>
        /\ Head(toClient[c]) \in Response
        /\ Tail(toClient[c]) \in Seq(Response)
  BY TakeTyped DEF Types
<1>2. toClient' \in [Clients -> Seq(Response)]
  BY <1>1 DEF ReadHeader, ReadPacket, Types, FifoTypes
<1>3. FifoTypes'
  BY <1>2 DEF ReadHeader, ReadPacket, Types, FifoTypes
<1>4. CASE ReadHeader(c)
  <2>1. client' \in [Clients -> ClientStates]
    BY <1>4, GoesTyped DEF ReadHeader, Types, ClientTypes, ClientStates
  <2>2. \E r \in Response : response' = [response EXCEPT ![c] = r]
    <3>1. CASE toClient[c] # <<>>
      BY <1>1, <1>4, <3>1 DEF ReadHeader
    <3>2. CASE toClient[c] = <<>>
      <4>1. PICK k \in {"ERROR", command[c].kind}, size \in {0, Packets} :
              response' = [response EXCEPT ![c] =
                             [kind |-> k, n |-> 0, size |-> size]]
        BY <1>4, <3>2 DEF ReadHeader
      <4>2. k \in ReplyKinds
        BY DEF Types, ClientTypes, Command, ReplyKinds
      <4>3. [kind |-> k, n |-> 0, size |-> size] \in Response
        BY <4>2, BoundsAssumption DEF Response
      <4> QED BY <4>1, <4>3
    <3> QED BY <3>1, <3>2
  <2>3. ClientTypes'
    BY <1>4, <2>1, <2>2 DEF ReadHeader, Types, ClientTypes
  <2> QED BY <1>3, <1>4, <2>3, OnlyClientTyped DEF ReadHeader
<1>5. CASE ReadPacket(c)
  <2>1. ClientTypes'
    BY <1>5, BoundsAssumption DEF ReadPacket, Types, ClientTypes
  <2> QED BY <1>3, <1>5, <2>1, OnlyClientTyped DEF ReadPacket
<1> QED BY <1>4, <1>5

LEMMA SendsTyped ==
  ASSUME Types, NEW c \in Clients,
         \/ WriteRequest(c) \/ Overwrite(c)
         \/ /\ left[c] > 0
            /\ ClientWrites(c, "send", "send",
                            [kind |-> "bytes", n |-> command[c].n])
            /\ left' = [left EXCEPT ![c] = @ - 1]
  PROVE  Types'
<1>1. /\ command[c] \in Command
      /\ left' \in [Clients -> 0..Packets]
  BY BoundsAssumption DEF WriteRequest, Overwrite, Types, ClientTypes
<1>2. \E from : \E to \in ClientStates, m \in Message :
        ClientWrites(c, from, to, m)
  <2>1. CASE WriteRequest(c)
    <3>1. /\ "exit" \in ClientStates /\ "openResponse" \in ClientStates
          /\ command[c] \in Message
      BY <1>1 DEF ClientStates, Command, Message, RequestKinds
    <3> QED BY <2>1, <3>1 DEF WriteRequest
  <2>2. CASE ~WriteRequest(c)
    <3>1. /\ "send" \in ClientStates /\ "kept" \in ClientStates
          /\ \A k \in {"bytes", "yes", "no"} :
               [kind |-> k, n |-> command[c].n] \in Message
      BY <1>1 DEF ClientStates, Command, Message, RequestKinds
    <3> QED BY <2>2, <3>1 DEF Overwrite
  <2> QED BY <2>1, <2>2
<1>3. PICK from : \E to \in ClientStates, m \in Message :
        ClientWrites(c, from, to, m)
  BY <1>2
<1>4. /\ client' \in [Clients -> ClientStates] /\ FifoTypes'
      /\ UNCHANGED <<command, past, response>> /\ OnlyClient(c, from)
  BY <1>3, ClientWritesTyped DEF ClientWrites
<1>5. ClientTypes'
  BY <1>1, <1>4 DEF Types, ClientTypes
<1> QED BY <1>4, <1>5, OnlyClientTyped

LEMMA ClientTyped ==
  ASSUME Types, NEW c \in Clients, ClientStep(c)
  PROVE  Types'
<1> DEFINE closing == {{}, {"cWR"}, {"cRD", "cWR"}}
           only == \E from : OnlyClient(c, from)
<1>1. closing \in SUBSET SUBSET {"cRD", "cWR"}
  OBVIOUS
<1>2. CASE \E closed \in closing : Prompt(c, closed) /\ only
  BY <1>1, <1>2, PromptTyped, OnlyClientTyped
<1>3. CASE ToPackets(c) /\ only
  BY <1>3, ToPacketsTyped, OnlyClientTyped
<1>4. CASE Leave(c) /\ only
  BY <1>4, LeaveTyped, OnlyClientTyped
<1>5. CASE OpenRD(c) \/ OpenWR(c)
  BY <1>5, OpensTyped
<1>6. CASE ReadHeader(c) \/ ReadPacket(c)
  BY <1>6, ReadsTyped
<1>7. CASE WriteRequest(c)
  BY <1>7, SendsTyped
<1>8. CASE ClientOneMessage(c) \/ ClientReadF(c) \/ ClientList(c)
             \/ ClientDownload(c)
  <2>1. only /\ (ToPackets(c) \/ \E closed \in closing : Prompt(c, closed))
    BY <1>8
    DEF ClientOneMessage, ClientReadF, ClientList, ClientDownload, Failed,
        Succeeded, Answered, Done
  <2> QED BY <1>2, <1>3, <2>1
<1>9. CASE ClientUpload(c)
  <2>1. CASE \E closed \in closing : Prompt(c, closed) /\ only
    BY <1>2, <2>1
  <2>2. CASE /\ left[c] > 0
             /\ ClientWrites(c, "send", "send",
                             [kind |-> "bytes", n |-> command[c].n])
             /\ left' = [left EXCEPT ![c] = @ - 1]
    BY <2>2, SendsTyped
  <2>3. CASE /\ Succeeded(c, {"UPLOAD"})
             /\ IF response[c].kind = "ASK"
                THEN ClientGoes(c, "ask") /\ UNCHANGED left
                ELSE ClientGoes(c, "send") /\ left' = [left EXCEPT ![c] = Packets]
             /\ UNCHANGED <<command, past, response, fifoVars>>
    <3>1. client' \in [Clients -> ClientStates]
      BY <2>3, GoesTyped DEF Types, ClientTypes, ClientStates
    <3>2. left' \in [Clients -> 0..Packets]
      <4>1. left' = left \/ left' = [left EXCEPT ![c] = Packets]
        BY <2>3
      <4>2. left \in [Clients -> 0..Packets] /\ Packets \in 0..Packets
        BY BoundsAssumption DEF Types, ClientTypes
      <4> QED BY <4>1, <4>2
    <3>3. ClientTypes'
      BY <2>3, <3>1, <3>2 DEF Types, ClientTypes
    <3>4. FifoTypes'
      BY <2>3, TypesSame DEF Types
    <3> QED BY <2>3, <3>3, <3>4, OnlyClientTyped DEF Succeeded, Answered
  <2> QED BY <1>9, <2>1, <2>2, <2>3 DEF ClientUpload, Failed, Answered
<1>10. CASE ClientQuits(c) \/ ClientTerm(c)
  BY <1>4, <1>10 DEF ClientQuits, ClientTerm
<1> QED BY <1>5, <1>6, <1>7, <1>8, <1>9, <1>10 DEF ClientStep

-----------------------------------------------------------------------------
(* Steps of the session.                                                   *)
LEMMA MovesTyped ==
  ASSUME Types, NEW c \in Clients, NEW pc \in SessionStates,
         SessionGoes(c, pc),
         pc = "packets" => todo'[c] > 0,
         \A d \in Clients : d # c => todo'[d] = todo[d],
         request' \in [Clients -> Request],
         reply' \in [Clients -> [kind : ReplyKinds, size : 0..Packets]],
         todo' \in [Clients -> 0..Packets],
         waiters' \in [Clients -> Seq(Waiter)],
         unanswered' \subseteq Clients
  PROVE  SessionTypes'
<1>1. session' \in [Clients -> SessionStates]
  BY GoesTyped DEF Types, SessionTypes
<1>2. /\ session'[c] = pc
      /\ \A d \in Clients : d # c => session'[d] = session[d]
  BY DEF SessionGoes, Types, SessionTypes
<1>3. \A d \in Clients : session[d] = "packets" => todo[d] > 0
  BY DEF Types, SessionTypes
<1>4. \A d \in Clients : session'[d] = "packets" => todo'[d] > 0
  BY <1>2, <1>3
<1> QED BY <1>1, <1>4 DEF SessionTypes

(* A step that only moves.                                                 *)
LEMMA GoesOnTyped ==
  ASSUME Types, NEW c \in Clients, NEW pc \in SessionStates \ {"packets"},
         SessionGoes(c, pc), UNCHANGED <<request, waiters, handlerVars>>
  PROVE  SessionTypes'
<1>1. /\ request' \in [Clients -> Request]
      /\ reply' \in [Clients -> [kind : ReplyKinds, size : 0..Packets]]
      /\ todo' \in [Clients -> 0..Packets] /\ todo' = todo
      /\ waiters' \in [Clients -> Seq(Waiter)]
      /\ unanswered' \subseteq Clients
  BY DEF Types, SessionTypes, handlerVars
<1> QED BY <1>1, MovesTyped

LEMMA EndsTyped ==
  ASSUME Types, NEW c \in Clients, NEW how \in {"ended", "quit", "dead"},
         Ends(c, how), UNCHANGED <<gone, handlerVars>>
  PROVE  SessionTypes' /\ FifoTypes' /\ sigchld' \in BOOLEAN
<1>0. /\ reply' \in [Clients -> [kind : ReplyKinds, size : 0..Packets]]
      /\ todo' \in [Clients -> 0..Packets] /\ todo' = todo
      /\ unanswered' \subseteq Clients /\ gone' \subseteq Clients
      /\ waiters[c] \in Seq(Waiter)
  BY DEF Types, SessionTypes, FifoTypes, handlerVars
<1>1. CASE waiters[c] = <<>>
  <2>1. /\ SessionGoes(c, how) /\ sigchld' = TRUE /\ waiters' = waiters
        /\ request' = [request EXCEPT ![c] = Invalid]
        /\ Descriptors(c, ends[c] \ SessionEnds)
    BY <1>1 DEF Ends
  <2>2. Invalid \in Request
    BY DEF Invalid, Request, RequestKinds
  <2>3. /\ request' \in [Clients -> Request]
        /\ waiters' \in [Clients -> Seq(Waiter)]
        /\ how \in SessionStates \ {"packets"}
    BY <2>1, <2>2 DEF Types, SessionTypes, SessionStates, Over
  <2>4. SessionTypes'
    BY <1>0, <2>1, <2>3, MovesTyped
  <2>5. ends[c] \ SessionEnds \in SUBSET (ClientEnds \cup SessionEnds)
    BY DEF Types, FifoTypes
  <2>6. FifoTypes'
    BY <1>0, <2>1, <2>5, DescriptorsTyped DEF Types
  <2> QED BY <2>1, <2>4, <2>6
<1>2. CASE waiters[c] # <<>>
  <2> DEFINE n == Len(waiters[c])
             front == SubSeq(waiters[c], 1, n - 1)
  <2>1. PICK w : w = waiters[c][n]
    OBVIOUS
  <2>2. /\ SessionGoes(c, IF how = "dead" THEN "post" ELSE "second")
        /\ request' = [request EXCEPT ![c] = w.request]
        /\ waiters' = [waiters EXCEPT ![c] = front]
        /\ Descriptors(c, (ends[c] \ SessionEnds) \cup w.ends)
        /\ UNCHANGED sigchld
    BY <1>2, <2>1 DEF Ends, Types, SessionTypes
  <2>3. n \in Nat \ {0}
    BY <1>0, <1>2, LenProperties, EmptySeq
  <2>4. w \in Waiter
    BY <1>0, <2>1, <2>3, ElementOfSeq
  <2>5. front \in Seq(Waiter)
    BY <1>0, <2>3
  <2> HIDE DEF n, front
  <2>6. w.request \in Request /\ w.ends \subseteq SessionEnds
    BY <2>4 DEF Waiter, Request, RequestKinds, Kinds, FileKinds
  <2>7. /\ request' \in [Clients -> Request]
        /\ waiters' \in [Clients -> Seq(Waiter)]
    BY <2>2, <2>5, <2>6 DEF Types, SessionTypes
  <2>8. PICK pc \in SessionStates \ {"packets"} : SessionGoes(c, pc)
    BY <2>2 DEF SessionStates, HandlerStates
  <2>9. SessionTypes'
    BY <1>0, <2>7, <2>8, MovesTyped
  <2>10. (ends[c] \ SessionEnds) \cup w.ends
           \in SUBSET (ClientEnds \cup SessionEnds)
    BY <2>6 DEF Types, FifoTypes
  <2>11. FifoTypes'
    BY <1>0, <2>2, <2>10, DescriptorsTyped DEF Types
  <2>12. sigchld' \in BOOLEAN
    BY <2>2 DEF Types
  <2> QED BY <2>9, <2>11, <2>12
<1> QED BY <1>1, <1>2

LEMMA RespondTyped ==
  ASSUME Types, NEW c \in Clients, NEW kind \in ReplyKinds,
         NEW size \in {0, Packets}, Respond(c, kind, size)
  PROVE  SessionTypes' /\ FifoTypes' /\ ClientTypes'
<1>1. [kind |-> kind, size |-> size] \in [kind : ReplyKinds, size : 0..Packets]
  BY BoundsAssumption
<1>2. PICK rs : rs = [kind : ReplyKinds, size : 0..Packets]
  OBVIOUS
<1>3. reply' \in [Clients -> rs]
  BY <1>1, <1>2 DEF Respond, Reply, Types, SessionTypes
<1>4. /\ request' \in [Clients -> Request]
      /\ todo' \in [Clients -> 0..Packets] /\ todo' = todo
      /\ waiters' \in [Clients -> Seq(Waiter)]
      /\ unanswered' \subseteq Clients
  BY DEF Respond, Types, SessionTypes
<1>5. PICK pc \in SessionStates \ {"packets"} : SessionGoes(c, pc)
  BY DEF Respond, SessionStates, HandlerStates
<1>6. SessionTypes'
  BY <1>2, <1>3, <1>4, <1>5, MovesTyped
<1>7. FifoTypes'
  <2>1. ends[c] \cup {"sWR"} \in SUBSET (ClientEnds \cup SessionEnds)
    BY DEF Types, FifoTypes, SessionEnds, WRWriters
  <2>2. Descriptors(c, ends[c] \cup {"sWR"}) /\ gone' \subseteq Clients
    BY DEF Respond, Types, FifoTypes
  <2> QED BY <2>1, <2>2, DescriptorsTyped DEF Types
<1>8. ClientTypes'
  BY DEF Respond, Types, ClientTypes, ClientStates, commandVars
<1> QED BY <1>6, <1>7, <1>8

LEMMA GiveUpTyped ==
  ASSUME Types, NEW c \in Clients,
         \/ GiveUp(c)
         \/ ChildGoesOn(c) /\ request[c].kind = "ARCHSERVER"
         \/ /\ SessionGoes(c, "post") /\ Descriptors(c, ends[c] \ {"sRD"})
            /\ unanswered' = unanswered \cup {c}
            /\ UNCHANGED <<clientVars, gone, request, waiters, reply, todo>>
  PROVE  SessionTypes' /\ FifoTypes' /\ ClientTypes'
<1>1. /\ request' \in [Clients -> Request]
      /\ reply' \in [Clients -> [kind : ReplyKinds, size : 0..Packets]]
      /\ todo' \in [Clients -> 0..Packets] /\ todo' = todo
      /\ unanswered' \subseteq Clients
      /\ gone' \subseteq Clients
      /\ SessionGoes(c, "post")
  BY DEF GiveUp, ChildGoesOn, Types, SessionTypes, FifoTypes
<1>2. waiters' \in [Clients -> Seq(Waiter)]
  <2>1. CASE UNCHANGED waiters
    BY <2>1 DEF Types, SessionTypes
  <2>2. CASE ChildGoesOn(c) /\ request[c].kind = "ARCHSERVER"
    <3> DEFINE w == [request |-> request[c], ends |-> ends[c] \cap SessionEnds]
    <3>1. w \in Waiter
      BY <2>2 DEF Types, SessionTypes, Request, Waiter
    <3>2. waiters' = [waiters EXCEPT ![c] = Append(@, w)]
      BY <2>2 DEF ChildGoesOn
    <3> HIDE DEF w
    <3>3. Append(waiters[c], w) \in Seq(Waiter)
      BY <3>1, AppendProperties DEF Types, SessionTypes
    <3> QED BY <3>2, <3>3 DEF Types, SessionTypes
  <2> QED BY <2>1, <2>2 DEF GiveUp
<1>3. "post" \in SessionStates \ {"packets"}
  BY DEF SessionStates, HandlerStates
<1>4. SessionTypes'
  BY <1>1, <1>2, <1>3, MovesTyped
<1>5. PICK new \in SUBSET (ClientEnds \cup SessionEnds) : Descriptors(c, new)
  <2>1. {"sRD"} \in SUBSET (ClientEnds \cup SessionEnds)
    BY DEF SessionEnds, RDReaders
  <2>2. Forgotten(c, {"sRD"}) \in SUBSET (ClientEnds \cup SessionEnds)
    BY <2>1, ForgottenTyped DEF Types
  <2>3. ends[c] \ {"sRD"} \in SUBSET (ClientEnds \cup SessionEnds)
    BY DEF Types, FifoTypes
  <2> QED BY <2>2, <2>3 DEF GiveUp, ChildGoesOn
<1>6. FifoTypes'
  BY <1>1, <1>5, DescriptorsTyped DEF Types
<1>7. ClientTypes'
  BY TypesSame DEF GiveUp, ChildGoesOn, Types
<1> QED BY <1>4, <1>6, <1>7

(* What an action of the session leaves alone.                             *)
LEMMA OnlySessionTyped ==
  ASSUME Types, NEW c \in Clients, NEW from, OnlySession(c, from),
         FifoTypes', SessionTypes', SemTypes', sigchld' \in BOOLEAN
  PROVE  Types'
  BY TypesSame DEF OnlySession, Types

LEMMA CountsTyped ==
  ASSUME Types, NEW c \in Clients, NEW pc \in SessionStates,
         SessionGoes(c, pc), NEW k \in 0..Packets, pc = "packets" => k > 0,
         todo' = [todo EXCEPT ![c] = k],
         UNCHANGED <<request, waiters, unanswered>>,
         reply' \in [Clients -> [kind : ReplyKinds, size : 0..Packets]]
  PROVE  SessionTypes'
<1>1. /\ todo' \in [Clients -> 0..Packets] /\ todo'[c] = k
      /\ \A d \in Clients : d # c => todo'[d] = todo[d]
  BY DEF Types, SessionTypes
<1>2. /\ request' \in [Clients -> Request]
      /\ waiters' \in [Clients -> Seq(Waiter)]
      /\ unanswered' \subseteq Clients
  BY DEF Types, SessionTypes
<1> QED BY <1>1, <1>2, MovesTyped

LEMMA ClosesTyped ==
  ASSUME Types, NEW c \in Clients, gone' = gone,
         \/ Descriptors(c, Forgotten(c, {"sRD"}))
         \/ Descriptors(c, Forgotten(c, {"sWR"}))
         \/ Descriptors(c, Forgotten(c, {"sRD"}) \ {"sWR"})
         \/ \E S : Descriptors(c, ends[c] \ S)
         \/ Descriptors(c, ends[c] \cup {"sRD"})
  PROVE  FifoTypes'
<1>1. /\ {"sRD"} \in SUBSET (ClientEnds \cup SessionEnds)
      /\ {"sWR"} \in SUBSET (ClientEnds \cup SessionEnds)
  BY DEF SessionEnds, RDReaders, WRWriters
<1>2. /\ Forgotten(c, {"sRD"}) \in SUBSET (ClientEnds \cup SessionEnds)
      /\ Forgotten(c, {"sWR"}) \in SUBSET (ClientEnds \cup SessionEnds)
  BY <1>1, ForgottenTyped DEF Types
<1>3. /\ Forgotten(c, {"sRD"}) \ {"sWR"}
           \in SUBSET (ClientEnds \cup SessionEnds)
      /\ \A S : ends[c] \ S \in SUBSET (ClientEnds \cup SessionEnds)
      /\ ends[c] \cup {"sRD"} \in SUBSET (ClientEnds \cup SessionEnds)
  BY <1>1, <1>2 DEF Types, FifoTypes
<1>4. gone' \subseteq Clients
  BY DEF Types, FifoTypes
<1> QED BY <1>2, <1>3, <1>4, DescriptorsTyped DEF Types

LEMMA OpenRequestTyped ==
  ASSUME Types, NEW c \in Clients, OpenRequest(c)
  PROVE  Types'
<1>1. SemTypes' /\ ParentTypes'
  BY TypesSame DEF OpenRequest, Types
<1>2. CASE c \in gone
  <2>1. ClientTypes'
    BY <1>2, TypesSame DEF OpenRequest, Types, clientVars
  <2>2. UNCHANGED <<gone, handlerVars>>
    BY DEF OpenRequest
  <2>3. SessionTypes' /\ FifoTypes' /\ sigchld' \in BOOLEAN
    BY <1>2, <2>2, EndsTyped DEF OpenRequest
  <2> QED BY <1>1, <2>1, <2>3 DEF Types
<1>3. CASE c \notin gone
  <2>1. PICK pc \in SessionStates \ {"packets"} : SessionGoes(c, pc)
    BY <1>3 DEF OpenRequest, SessionStates
  <2>2. SessionTypes'
    BY <1>3, <2>1, GoesOnTyped DEF OpenRequest
  <2>3. FifoTypes'
    BY <1>3, ClosesTyped DEF OpenRequest
  <2>4. client' \in [Clients -> ClientStates]
    BY <1>3 DEF OpenRequest, Types, ClientTypes, ClientStates
  <2>5. ClientTypes'
    BY <2>4 DEF OpenRequest, Types, ClientTypes, commandVars
  <2>6. sigchld' \in BOOLEAN
    BY <1>3 DEF OpenRequest, Types
  <2> QED BY <1>1, <2>2, <2>3, <2>5, <2>6 DEF Types
<1> QED BY <1>2, <1>3

LEMMA TornTyped ==
  ASSUME NEW q \in Seq(Message), Len(q) > 1
  PROVE  Torn(q) \in Seq(Message)
<1>1. Len(q) \in Nat
  BY LenProperties
<1>2. q[2] \in Message
  BY <1>1, ElementOfSeq
<1>3. PICK m : m = [kind |-> "rest", n |-> q[2].n]
  OBVIOUS
<1>4. m \in Message
  BY <1>2, <1>3 DEF Message
<1>5. SubSeq(q, 3, Len(q)) \in Seq(Message)
  BY <1>1, SubSeqProperties
<1>6. <<m>> \o SubSeq(q, 3, Len(q)) \in Seq(Message)
  BY <1>4, <1>5
<1> QED BY <1>3, <1>6 DEF Torn

LEMMA ReadRequestTyped ==
  ASSUME Types, NEW c \in Clients, ReadRequest(c)
  PROVE  Types'
<1>1. PICK pc \in SessionStates \ {"packets"} : SessionGoes(c, pc)
  <2>1. Dispatch(request'[c].kind) \in {"wait", "handle", "bye", "invalid"}
    BY DEF Dispatch
  <2> QED BY <2>1 DEF ReadRequest, SessionStates, HandlerStates
<1>2. /\ request' \in [Clients -> Request]
      /\ toServer' \in [Clients -> Seq(Message)]
  <2>1. CASE toServer[c] = <<>>
    BY <2>1 DEF ReadRequest, Types, SessionTypes, FifoTypes
  <2>2. CASE toServer[c] # <<>>
    <3>1. PICK m \in Message : m = Head(toServer[c])
      BY <2>2, TakeTyped DEF Types
    <3>2. /\ Tail(toServer[c]) \in Seq(Message)
          /\ toServer[c] \in Seq(Message)
      BY <2>2, TakeTyped DEF Types, FifoTypes
    <3>3. PICK r : r = IF m.kind \in {"bytes", "rest"} THEN Invalid ELSE m
      OBVIOUS
    <3>4. r \in Request
      BY <3>1, <3>3 DEF Message, Request, Invalid, RequestKinds
    <3>5. request' = [request EXCEPT ![c] = r]
      BY <2>2, <3>1, <3>3 DEF ReadRequest
    <3>6. \E q \in Seq(Message) : toServer' = [toServer EXCEPT ![c] = q]
      <4>1. CASE toServer' = [toServer EXCEPT ![c] = Tail(@)]
        BY <3>2, <4>1 DEF Types, FifoTypes
      <4>2. CASE /\ Len(toServer[c]) > 1
                 /\ toServer' = [toServer EXCEPT ![c] = Torn(@)]
        <5>1. Torn(toServer[c]) \in Seq(Message)
          BY <3>2, <4>2, TornTyped
        <5> QED BY <4>2, <5>1 DEF Types, FifoTypes
      <4> QED BY <2>2, <4>1, <4>2 DEF ReadRequest
    <3> QED BY <3>4, <3>5, <3>6 DEF Types, SessionTypes, FifoTypes
  <2> QED BY <2>1, <2>2
<1>3. FifoTypes'
  BY <1>2 DEF ReadRequest, OnlySession, Types, FifoTypes
<1>4. /\ reply' \in [Clients -> [kind : ReplyKinds, size : 0..Packets]]
      /\ todo' \in [Clients -> 0..Packets] /\ todo' = todo
      /\ waiters' \in [Clients -> Seq(Waiter)]
      /\ unanswered' \subseteq Clients
  BY DEF ReadRequest, handlerVars, Types, SessionTypes
<1>5. SessionTypes'
  BY <1>1, <1>2, <1>4, MovesTyped
<1>6. SemTypes' /\ sigchld' \in BOOLEAN
  BY TypesSame DEF ReadRequest, Types
<1> QED BY <1>3, <1>5, <1>6, OnlySessionTyped DEF ReadRequest

LEMMA SemWaitTyped ==
  ASSUME Types, NEW c \in Clients, SemWait(c)
  PROVE  Types'
<1>1. SemTypes'
  BY DEF SemWait, Types, SemTypes
<1>2. FifoTypes'
  BY TypesSame DEF SemWait, OnlySession, Types, fifoVars
<1>3. "handle" \in SessionStates \ {"packets"}
  BY DEF SessionStates, HandlerStates
<1>4. SessionTypes'
  BY <1>3, GoesOnTyped DEF SemWait
<1> QED BY <1>1, <1>2, <1>4, OnlySessionTyped DEF SemWait, Types

LEMMA ByeTyped ==
  ASSUME Types, NEW c \in Clients, Quit(c) \/ KillServer(c)
  PROVE  Types'
<1>1. PICK kind : Bye(c, kind)
  BY DEF Quit, KillServer
<1>2. SemTypes'
  BY <1>1 DEF Bye, Types, SemTypes
<1>3. ClientTypes'
  BY <1>1, TypesSame DEF Bye, Types
<1>4. SessionTypes' /\ FifoTypes' /\ sigchld' \in BOOLEAN
  BY <1>1, EndsTyped DEF Bye
<1>5. /\ server' \in {"up", "sigterm", "waiting", "gone"}
      /\ clientTerm' \subseteq Clients
  BY DEF Quit, KillServer, Types, ParentTypes
<1>6. ParentTypes'
  BY <1>1, <1>5 DEF Bye, Types, ParentTypes
<1> QED BY <1>2, <1>3, <1>4, <1>6 DEF Types

LEMMA HandlersTyped ==
  ASSUME Types, NEW c \in Clients,
         \/ HandleHelp(c) \/ HandleList(c) \/ HandleReadFrom(c)
         \/ HandleWriteTo(c) \/ HandleDownload(c) \/ HandleUpload(c)
         \/ HandleArchServer(c) \/ RespondAgain(c)
  PROVE  Types'
<1> DEFINE responds == \E kind \in ReplyKinds, size \in {0, Packets} :
                         Respond(c, kind, size)
           givesUp ==
             \/ GiveUp(c)
             \/ ChildGoesOn(c) /\ request[c].kind = "ARCHSERVER"
             \/ /\ SessionGoes(c, "post") /\ Descriptors(c, ends[c] \ {"sRD"})
                /\ unanswered' = unanswered \cup {c}
                /\ UNCHANGED <<clientVars, gone, request, waiters, reply, todo>>
           others ==
             /\ UNCHANGED <<clientVars, fifoVars, request, waiters, reply,
                            unanswered>>
             /\ \/ SessionGoes(c, "searching") /\ UNCHANGED todo
                \/ /\ SessionGoes(c, "receive")
                   /\ todo' = [todo EXCEPT ![c] = Packets]
<1>1. SemTypes' /\ ParentTypes' /\ sigchld' \in BOOLEAN
  <2>1. ParentTypes' /\ sigchld' \in BOOLEAN
    BY TypesSame
    DEF HandleHelp, HandleList, HandleReadFrom, HandleWriteTo, HandleDownload,
        HandleUpload, HandleArchServer, RespondAgain, Handling, Types
  <2>2. CASE RespondAgain(c)
    BY <2>2, TypesSame DEF RespondAgain, Types
  <2>3. CASE ~RespondAgain(c)
    <3>1. /\ serverFileIOSemaphore' = serverFileIOSemaphore
          /\ Logs
      BY <2>3
      DEF HandleHelp, HandleList, HandleReadFrom, HandleWriteTo,
          HandleDownload, HandleUpload, HandleArchServer, Handling
    <3>2. freePosts' = freePosts \/ freePosts' = freePosts + 1
      BY <2>3
      DEF HandleHelp, HandleList, HandleReadFrom, HandleWriteTo,
          HandleDownload, HandleUpload, HandleArchServer, ChildGoesOn
    <3> QED BY <2>1, <3>1, <3>2 DEF Logs, Types, SemTypes
  <2> QED BY <2>1, <2>2, <2>3
<1>2. /\ \A k \in {"HELP", "LIST", "READFROM", "ERROR", "WRITETO", "DOWNLOAD",
                   "UPLOAD", "ASK", "ARCHSERVER", "DONE"} : k \in ReplyKinds
  BY DEF ReplyKinds, Kinds, FileKinds
<1>3. responds \/ givesUp \/ others
  <2>1. CASE HandleHelp(c) \/ HandleList(c)
    BY <1>2, <2>1 DEF HandleHelp, HandleList
  <2>2. CASE HandleReadFrom(c) \/ HandleDownload(c)
    BY <1>2, <2>2 DEF HandleReadFrom, HandleDownload
  <2>3. CASE HandleWriteTo(c)
    BY <1>2, <2>3 DEF HandleWriteTo, handlerVars
  <2>4. CASE HandleUpload(c)
    BY <1>2, <2>4 DEF HandleUpload
  <2>5. CASE HandleArchServer(c) \/ RespondAgain(c)
    BY <1>2, <2>5 DEF HandleArchServer, RespondAgain, Handling
  <2> QED BY <2>1, <2>2, <2>3, <2>4, <2>5
<1>4. CASE responds
  BY <1>1, <1>4, RespondTyped DEF Types
<1>5. CASE givesUp
  BY <1>1, <1>5, GiveUpTyped DEF Types
<1>6. CASE others
  <2>1. ClientTypes' /\ FifoTypes'
    BY <1>6, TypesSame DEF Types
  <2>2. SessionTypes'
    <3>1. reply' \in [Clients -> [kind : ReplyKinds, size : 0..Packets]]
      BY <1>6 DEF Types, SessionTypes
    <3>2. /\ "searching" \in SessionStates \ {"packets"}
          /\ "receive" \in SessionStates /\ Packets \in 0..Packets
      BY BoundsAssumption DEF SessionStates, HandlerStates
    <3>3. CASE SessionGoes(c, "searching") /\ UNCHANGED todo
      BY <1>6, <3>2, <3>3, GoesOnTyped DEF handlerVars
    <3>4. CASE /\ SessionGoes(c, "receive")
               /\ todo' = [todo EXCEPT ![c] = Packets]
      BY <1>6, <3>1, <3>2, <3>4, CountsTyped
    <3> QED BY <1>6, <3>3, <3>4
  <2> QED BY <1>1, <2>1, <2>2 DEF Types
<1> HIDE DEF responds, givesUp, others
<1> QED BY <1>3, <1>4, <1>5, <1>6

LEMMA WritesTyped ==
  ASSUME Types, NEW c \in Clients, WriteHeader(c) \/ WritePacket(c)
  PROVE  Types'
<1>1. SemTypes' /\ sigchld' \in BOOLEAN
  BY TypesSame DEF WriteHeader, WritePacket, Types
<1>2. /\ reply[c].kind \in ReplyKinds /\ reply[c].size \in 0..Packets
      /\ request[c].n \in Nat /\ todo[c] \in 0..Packets /\ 0 \in 0..Packets
  <2>1. /\ reply[c] \in [kind : ReplyKinds, size : 0..Packets]
        /\ request[c] \in Request /\ todo[c] \in 0..Packets
    BY DEF Types, SessionTypes
  <2> QED BY <2>1, BoundsAssumption DEF Request
<1>3. FifoTypes'
  <2>1. \E m \in Response : ToClient(c, m)
    <3>1. "packet" \in ReplyKinds
      BY DEF ReplyKinds
    <3>2. /\ [kind |-> reply[c].kind, n |-> request[c].n,
              size |-> reply[c].size] \in Response
          /\ [kind |-> "packet", n |-> request[c].n, size |-> 0] \in Response
      BY <1>2, <3>1 DEF Response
    <3> QED BY <3>2 DEF WriteHeader, WritePacket
  <2> QED BY <2>1, ToClientTyped DEF Types
<1>4. reply' \in [Clients -> [kind : ReplyKinds, size : 0..Packets]]
  BY DEF WriteHeader, WritePacket, Types, SessionTypes
<1>5. CASE WriteHeader(c)
  <2>1. PICK pc : pc = CASE reply[c].kind = "ASK" -> "answer"
                         [] reply[c].size > 0 -> "packets"
                         [] OTHER -> "close"
    OBVIOUS
  <2>2. pc \in {"answer", "packets", "close"}
    BY <2>1
  <2>3. pc = "packets" => reply[c].size > 0
    BY <2>1
  <2>4. pc \in SessionStates
    BY <2>2 DEF SessionStates, HandlerStates
  <2>5. SessionGoes(c, pc)
    BY <1>5, <2>1 DEF WriteHeader
  <2>6. SessionTypes'
    BY <1>2, <1>4, <1>5, <2>3, <2>4, <2>5, CountsTyped DEF WriteHeader
  <2> QED BY <1>1, <1>3, <1>5, <2>6, OnlySessionTyped DEF WriteHeader
<1>6. CASE WritePacket(c)
  <2>1. PICK pc : pc = IF todo[c] = 1 THEN "close" ELSE "packets"
    OBVIOUS
  <2>2. todo[c] > 0
    BY <1>6 DEF WritePacket, OnlySession, Types, SessionTypes
  <2>3. todo[c] - 1 \in 0..Packets /\ (pc = "packets" => todo[c] - 1 > 0)
    BY <1>2, <2>1, <2>2, BoundsAssumption
  <2>4. pc \in SessionStates
    BY <2>1 DEF SessionStates, HandlerStates
  <2>5. SessionGoes(c, pc) /\ todo' = [todo EXCEPT ![c] = todo[c] - 1]
    <3>1. SessionGoes(c, pc)
      BY <1>6, <2>1, Zenon DEF WritePacket
    <3>2. todo' = [todo EXCEPT ![c] = todo[c] - 1]
      BY <1>6 DEF WritePacket
    <3> QED BY <3>1, <3>2
  <2>6. SessionTypes'
    BY <1>4, <1>6, <2>3, <2>4, <2>5, CountsTyped DEF WritePacket
  <2> QED BY <1>1, <1>3, <1>6, <2>6, OnlySessionTyped DEF WritePacket
<1> QED BY <1>5, <1>6

LEMMA ReceiveTyped ==
  ASSUME Types, NEW c \in Clients, Receive(c)
  PROVE  Types'
<1>1. SemTypes' /\ sigchld' \in BOOLEAN /\ OnlySession(c, "receive")
  BY TypesSame DEF Receive, Types
<1>2. SessionTypes'
  <2>1. /\ session' = session /\ session[c] = "receive"
        /\ todo' = [todo EXCEPT ![c] = todo[c] - 1]
        /\ todo[c] > 0 /\ todo[c] \in 0..Packets
    BY DEF Receive, OnlySession, Types, SessionTypes
  <2>2. todo[c] - 1 \in 0..Packets
    BY <2>1, BoundsAssumption
  <2>3. /\ reply' \in [Clients -> [kind : ReplyKinds, size : 0..Packets]]
        /\ UNCHANGED <<request, waiters, unanswered>>
    BY DEF Receive, Types, SessionTypes
  <2>4. SessionGoes(c, "receive") /\ "receive" \in SessionStates
    BY <2>1 DEF SessionGoes, Types, SessionTypes, SessionStates, HandlerStates
  <2> QED BY <2>1, <2>2, <2>3, <2>4, CountsTyped
<1>3. PICK q : q = toServer[c]
  OBVIOUS
<1>4. /\ q \in Seq(Message) /\ q # <<>> /\ Tail(q) \in Seq(Message)
      /\ Len(q) \in Nat
  <2>1. q \in Seq(Message) /\ q # <<>>
    BY <1>3 DEF Receive, Types, FifoTypes
  <2> QED BY <2>1, HeadTailProperties, LenProperties
<1>5. \E r \in Seq(Message) : toServer' = [toServer EXCEPT ![c] = r]
  <2>1. CASE toServer' = [toServer EXCEPT ![c] = Tail(@)]
    BY <1>3, <1>4, <2>1 DEF Types, FifoTypes
  <2>2. CASE /\ Len(q) > 1
             /\ toServer' = [toServer EXCEPT ![c] = Torn(@)]
    BY <1>3, <1>4, <2>2, TornTyped DEF Types, FifoTypes
  <2> QED BY <1>3, <2>1, <2>2 DEF Receive
<1>6. FifoTypes'
  BY <1>5 DEF Receive, OnlySession, Types, FifoTypes
<1> QED BY <1>1, <1>2, <1>6, OnlySessionTyped

LEMMA PostTyped ==
  ASSUME Types, NEW c \in Clients, Post(c)
  PROVE  Types'
<1>1. SemTypes'
  BY DEF Post, Logs, Types, SemTypes
<1>2. FifoTypes' /\ sigchld' \in BOOLEAN
  BY TypesSame DEF Post, OnlySession, Types, fifoVars
<1>3. "open" \in SessionStates /\ 0 \in 0..Packets /\ NoReply = Reply("none", 0)
  BY BoundsAssumption DEF SessionStates, NoReply
<1>4. NoReply \in [kind : ReplyKinds, size : 0..Packets]
  BY <1>3 DEF NoReply, Reply, ReplyKinds
<1>5. PICK rs : rs = [kind : ReplyKinds, size : 0..Packets]
  OBVIOUS
<1>6. reply \in [Clients -> rs] /\ NoReply \in rs
  BY <1>4, <1>5 DEF Types, SessionTypes
<1>7. reply' \in [Clients -> rs]
  BY <1>6 DEF Post
<1>8. SessionTypes'
  BY <1>3, <1>5, <1>7, CountsTyped DEF Post
<1> QED BY <1>1, <1>2, <1>8, OnlySessionTyped DEF Post

LEMMA TransferTyped ==
  ASSUME Types, NEW c \in Clients,
         \/ PassOver(c) \/ Broken(c) \/ Close(c) \/ ReadAnswer(c)
         \/ Truncate(c) \/ Keep(c) \/ Received(c)
  PROVE  Types'
<1>1. SemTypes' /\ \E from : OnlySession(c, from)
  BY TypesSame
  DEF PassOver, Broken, Close, ReadAnswer, Truncate, Keep, Received, Types
<1>2. gone' = gone
  BY DEF PassOver, Broken, Close, ReadAnswer, Truncate, Keep, Received,
         OnlySession
<1>3. /\ "open" \in SessionStates \ {"packets"}
      /\ "post" \in SessionStates \ {"packets"}
      /\ "second" \in SessionStates \ {"packets"}
      /\ "receive" \in SessionStates \ {"packets"}
      /\ "truncate" \in SessionStates \ {"packets"}
      /\ "keep" \in SessionStates \ {"packets"}
      /\ Packets \in 0..Packets
  BY BoundsAssumption DEF SessionStates, HandlerStates
<1>4. CASE PassOver(c) \/ Keep(c) \/ Received(c)
  <2>1. FifoTypes' /\ sigchld' \in BOOLEAN
    BY <1>2, <1>4, ClosesTyped DEF PassOver, Keep, Received, Types
  <2>2. SessionTypes'
    BY <1>3, <1>4, GoesOnTyped DEF PassOver, Keep, Received
  <2> QED BY <1>1, <2>1, <2>2, OnlySessionTyped
<1>5. CASE Broken(c)
  <2>1. CASE Ends(c, "dead")
    <3>1. SessionTypes' /\ FifoTypes' /\ sigchld' \in BOOLEAN
      BY <1>2, <1>5, <2>1, EndsTyped DEF Broken
    <3> QED BY <1>1, <3>1, OnlySessionTyped
  <2>2. CASE /\ SessionGoes(c, "post")
             /\ Descriptors(c, Forgotten(c, {"sRD"}) \ {"sWR"})
             /\ UNCHANGED <<request, waiters, sigchld>>
    <3>1. FifoTypes' /\ sigchld' \in BOOLEAN
      BY <1>2, <2>2, ClosesTyped DEF Types
    <3>2. SessionTypes'
      BY <1>3, <1>5, <2>2, GoesOnTyped DEF Broken
    <3> QED BY <1>1, <3>1, <3>2, OnlySessionTyped
  <2> QED BY <1>5, <2>1, <2>2 DEF Broken
<1>6. CASE ReadAnswer(c)
  <2>1. SessionTypes'
    <3>1. \E pc \in {"truncate", "keep"} : SessionGoes(c, pc)
      BY <1>6 DEF ReadAnswer
    <3> QED BY <1>3, <1>6, <3>1, GoesOnTyped DEF ReadAnswer
  <2>2. toServer' \in [Clients -> Seq(Message)]
    BY <1>6, TakeTyped DEF ReadAnswer, Types, FifoTypes
  <2>3. FifoTypes' /\ sigchld' \in BOOLEAN
    BY <1>2, <1>6, <2>2 DEF ReadAnswer, Types, FifoTypes
  <2> QED BY <1>1, <2>1, <2>3, OnlySessionTyped
<1>7. CASE Close(c) \/ Truncate(c)
  <2>1. FifoTypes' /\ sigchld' \in BOOLEAN
    BY <1>2, <1>7, ClosesTyped DEF Close, Truncate, Types
  <2>2. reply' \in [Clients -> [kind : ReplyKinds, size : 0..Packets]]
    BY <1>7 DEF Close, Truncate, Types, SessionTypes
  <2>3. CASE /\ SessionGoes(c, "receive")
             /\ todo' = [todo EXCEPT ![c] = Packets]
    BY <1>1, <1>3, <1>7, <2>1, <2>2, <2>3, CountsTyped, OnlySessionTyped
    DEF Close, Truncate
  <2>4. CASE /\ UNCHANGED todo
             /\ SessionGoes(c, "second") \/ SessionGoes(c, "post")
    BY <1>1, <1>3, <1>7, <2>1, <2>4, GoesOnTyped, OnlySessionTyped
    DEF Close, Truncate, handlerVars
  <2> QED BY <1>7, <2>3, <2>4 DEF Close, Truncate
<1> QED BY <1>4, <1>5, <1>6, <1>7

LEMMA BreaksOffTyped ==
  ASSUME Types, NEW c \in Clients,
         ReadFails(c) \/ CreateFails(c) \/ WriteFails(c)
  PROVE  Types'
<1>1. /\ \E from : OnlySession(c, from)
      /\ SessionGoes(c, "post") /\ unanswered' = unanswered \cup {c}
      /\ UNCHANGED <<gone, request, waiters, reply, todo, semVars, sigchld>>
  BY DEF ReadFails, CreateFails, WriteFails, BreakOff, OnlySession
<1>2. SemTypes' /\ sigchld' \in BOOLEAN
  BY <1>1, TypesSame DEF Types
<1>3. SessionTypes'
  <2>1. /\ request' \in [Clients -> Request]
        /\ reply' \in [Clients -> [kind : ReplyKinds, size : 0..Packets]]
        /\ todo' \in [Clients -> 0..Packets] /\ todo' = todo
        /\ waiters' \in [Clients -> Seq(Waiter)]
        /\ unanswered' \subseteq Clients
    BY <1>1 DEF Types, SessionTypes
  <2>2. "post" \in SessionStates
    BY DEF SessionStates, HandlerStates
  <2> QED BY <1>1, <2>1, <2>2, MovesTyped
<1>4. FifoTypes'
  <2>1. CASE CreateFails(c)
    BY <1>1, <2>1, ClosesTyped DEF CreateFails
  <2>2. CASE ReadFails(c) \/ WriteFails(c)
    <3>1. \E S \in {{"sRD"}, {"sRD", "sWR"}} :
            ends' = [ends EXCEPT ![c] = Forgotten(c, S)]
      BY <2>2 DEF ReadFails, WriteFails, BreakOff
    <3>2. \A S \in {{"sRD"}, {"sRD", "sWR"}} :
            Forgotten(c, S) \in SUBSET (ClientEnds \cup SessionEnds)
      <4>1. \A S \in {{"sRD"}, {"sRD", "sWR"}} :
              S \in SUBSET (ClientEnds \cup SessionEnds)
        BY DEF SessionEnds, RDReaders, WRWriters
      <4> QED BY <4>1, ForgottenTyped DEF Types
    <3>3. \/ toServer' = toServer
          \/ \E q \in Seq(Message) : toServer' = [toServer EXCEPT ![c] = q]
      <4>1. CASE toServer[c] # <<>> /\ toServer' = [toServer EXCEPT ![c] = Tail(@)]
        <5>1. Tail(toServer[c]) \in Seq(Message)
          BY <4>1, TakeTyped DEF Types
        <5> QED BY <4>1, <5>1 DEF Types, FifoTypes
      <4>2. CASE /\ Len(toServer[c]) > 1
                 /\ toServer' = [toServer EXCEPT ![c] = Torn(@)]
        <5>1. toServer[c] \in Seq(Message)
          BY DEF Types, FifoTypes
        <5>2. Torn(toServer[c]) \in Seq(Message)
          BY <4>2, <5>1, TornTyped
        <5> QED BY <4>2, <5>2 DEF Types, FifoTypes
      <4> QED BY <2>2, <4>1, <4>2 DEF ReadFails, WriteFails
    <3>4. toServer' \in [Clients -> Seq(Message)]
      BY <3>3 DEF Types, FifoTypes
    <3>5. ends' \in [Clients -> SUBSET (ClientEnds \cup SessionEnds)]
      BY <3>1, <3>2 DEF Types, FifoTypes
    <3>6. toClient' = toClient
      BY <2>2 DEF ReadFails, WriteFails, BreakOff
    <3> QED BY <1>1, <3>4, <3>5, <3>6 DEF Types, FifoTypes
  <2> QED BY <2>1, <2>2
<1> QED BY <1>1, <1>2, <1>3, <1>4, OnlySessionTyped

LEMMA SessionTermTyped ==
  ASSUME Types, NEW c \in Clients, SessionTerm(c)
  PROVE  Types'
<1>1. ClientTypes' /\ SemTypes' /\ sigchld' \in BOOLEAN
  BY TypesSame DEF SessionTerm, Types
<1>2. FifoTypes'
  BY ClosesTyped DEF SessionTerm
<1>3. ParentTypes'
  BY DEF SessionTerm, Types, ParentTypes
<1>4. /\ request' \in [Clients -> Request]
      /\ reply' \in [Clients -> [kind : ReplyKinds, size : 0..Packets]]
      /\ todo' \in [Clients -> 0..Packets] /\ todo' = todo
      /\ unanswered' \subseteq Clients
  BY DEF SessionTerm, handlerVars, Types, SessionTypes
<1>5. waiters' \in [Clients -> Seq(Waiter)]
  BY EmptySeq DEF SessionTerm, Types, SessionTypes
<1>6. "killed" \in SessionStates
  BY DEF SessionStates, Over
<1>7. SessionTypes'
  BY <1>4, <1>5, <1>6, MovesTyped DEF SessionTerm
<1> QED BY <1>1, <1>2, <1>3, <1>7 DEF Types

LEMMA SessionTyped ==
  ASSUME Types, NEW c \in Clients, SessionStep(c)
  PROVE  Types'
BY OpenRequestTyped, ReadRequestTyped, SemWaitTyped, ByeTyped, HandlersTyped,
   TransferTyped, BreaksOffTyped, WritesTyped, ReceiveTyped, PostTyped,
   SessionTermTyped
DEF SessionStep

-----------------------------------------------------------------------------
(* Steps of the parent, and the beginning.                                 *)
LEMMA ServerTyped ==
  ASSUME Types, ServerStep \/ ShutDown
  PROVE  Types'
<1>1. CASE SigChld
  <2>1. /\ SemTypes' /\ FifoTypes' /\ sigchld' \in BOOLEAN
        /\ UNCHANGED <<commandVars, request, waiters, handlerVars>>
        /\ UNCHANGED <<scenario, clientTerm, sessionTerm>>
    BY <1>1, TypesSame DEF SigChld, Types
  <2>2. server' \in {"up", "sigterm", "waiting", "gone"}
    BY <1>1 DEF SigChld, Types, ParentTypes
  <2>3. CASE clientQueue = <<>>
    <3>1. UNCHANGED <<client, session, clientQueue>>
      BY <1>1, <2>3 DEF SigChld
    <3> QED BY <2>1, <2>2, <3>1
            DEF Types, ClientTypes, SessionTypes, ParentTypes, commandVars,
                handlerVars
  <2>4. CASE clientQueue # <<>>
    <3>1. PICK c : c = Head(clientQueue)
      OBVIOUS
    <3>2. c \in Clients /\ Tail(clientQueue) \in Seq(Clients)
      BY <2>4, <3>1, HeadTailProperties DEF Types, ParentTypes
    <3>3. /\ clientQueue' = Tail(clientQueue)
          /\ SessionGoes(c, "open") /\ ClientGoes(c, "prompt")
      BY <1>1, <2>4, <3>1 DEF SigChld
    <3>4. "open" \in SessionStates \ {"packets"} /\ "prompt" \in ClientStates
      BY DEF SessionStates, ClientStates
    <3>5. SessionTypes'
      BY <2>1, <3>2, <3>3, <3>4, GoesOnTyped
    <3>6. client' \in [Clients -> ClientStates]
      BY <3>2, <3>3, <3>4, GoesTyped DEF Types, ClientTypes
    <3>7. ClientTypes'
      BY <2>1, <3>6 DEF Types, ClientTypes, commandVars
    <3>8. ParentTypes'
      BY <2>1, <2>2, <3>2, <3>3 DEF Types, ParentTypes
    <3> QED BY <2>1, <3>5, <3>7, <3>8 DEF Types
  <2> QED BY <2>3, <2>4
<1>2. CASE ServerTerm \/ ServerExits \/ ShutDown
  <2>1. /\ ClientTypes' /\ FifoTypes' /\ SessionTypes' /\ SemTypes'
        /\ sigchld' \in BOOLEAN
    BY <1>2, TypesSame
    DEF ServerTerm, ServerExits, ShutDown, OnlyServer, Types
  <2>2. sessionTerm' \subseteq Clients
    BY <1>2 DEF ServerTerm, ServerExits, ShutDown, Live, Types, ParentTypes
  <2>3. ParentTypes'
    BY <1>2, <2>2
    DEF ServerTerm, ServerExits, ShutDown, OnlyServer, Types, ParentTypes
  <2> QED BY <2>1, <2>3 DEF Types
<1> QED BY <1>1, <1>2 DEF ServerStep

LEMMA InitTypes == Init => Types
<1> SUFFICES ASSUME Init PROVE Types
  OBVIOUS
<1>1. 0 \in 0..Packets /\ 0 \in Nat
  BY BoundsAssumption
<1>2. ClientTypes
  <2>1. client \in [Clients -> ClientStates]
    BY DEF Init, ClientStates
  <2>2. Invalid \in Command /\ NoResponse \in Response
    BY <1>1 DEF Invalid, Command, NoResponse, Response, ReplyKinds
  <2>3. command \in [Clients -> Command] /\ response \in [Clients -> Response]
    BY <2>2 DEF Init
  <2>4. past \in [Clients -> Seq(Kinds \cup {"INVALID"})]
    BY EmptySeq DEF Init
  <2> QED BY <1>1, <2>1, <2>3, <2>4 DEF Init, ClientTypes
<1>3. FifoTypes
  <2>1. /\ toServer \in [Clients -> Seq(Message)]
        /\ toClient \in [Clients -> Seq(Response)]
    BY EmptySeq DEF Init
  <2>2. ends \in [Clients -> SUBSET (ClientEnds \cup SessionEnds)]
    BY DEF Init, ClientEnds, WRReaders
  <2>3. gone \subseteq Clients
    BY DEF Init
  <2> QED BY <2>1, <2>2, <2>3 DEF FifoTypes
<1>4. SessionTypes
  <2>1. /\ session \in [Clients -> SessionStates]
        /\ \A c \in Clients : session[c] # "packets"
    BY DEF Init, SessionStates, Over
  <2>2. Invalid \in Request /\ NoReply \in [kind : ReplyKinds, size : 0..Packets]
    BY <1>1 DEF Invalid, Request, RequestKinds, NoReply, Reply, ReplyKinds
  <2>3. PICK rs : rs = [kind : ReplyKinds, size : 0..Packets]
    OBVIOUS
  <2>4. request \in [Clients -> Request] /\ reply \in [Clients -> rs]
    BY <2>2, <2>3 DEF Init
  <2>5. waiters \in [Clients -> Seq(Waiter)]
    BY EmptySeq DEF Init
  <2>6. todo \in [Clients -> 0..Packets] /\ unanswered \subseteq Clients
    BY <1>1 DEF Init
  <2> QED BY <2>1, <2>3, <2>4, <2>5, <2>6 DEF SessionTypes
<1>5. SemTypes /\ sigchld \in BOOLEAN
  BY DEF Init, SemTypes
<1>6. ParentTypes
  <2>1. PICK Waiting : Waiting = scenario.queued
    OBVIOUS
  <2>2. /\ scenario \in Scenarios /\ Waiting \subseteq Clients
        /\ clientQueue \in [1..Cardinality(Waiting) -> Waiting]
    BY <2>1, ScenariosAssumption DEF Init
  <2>3. Cardinality(Waiting) \in Nat
    BY <2>2, BoundsAssumption, FS_Subset, FS_CardinalityType
  <2>4. clientQueue \in Seq(Waiting)
    BY <2>2, <2>3
  <2>5. clientQueue \in Seq(Clients)
    BY <2>2, <2>4
  <2> QED BY <2>2, <2>5 DEF Init, ParentTypes
<1> QED BY <1>2, <1>3, <1>4, <1>5, <1>6 DEF Types

(* Types is inductive.                                                     *)
THEOREM TypesInvariant == Spec => []Types
<1>1. Types /\ [Next]_vars => Types'
  <2> SUFFICES ASSUME Types, [Next]_vars PROVE Types'
    OBVIOUS
  <2>1. CASE UNCHANGED vars
    BY <2>1, TypesSame DEF vars, Types
  <2>2. CASE ServerStep \/ ShutDown
    BY <2>2, ServerTyped
  <2>3. ASSUME NEW c \in Clients,
               \/ \E k \in scenario.typed[c] : Type(c, k)
               \/ ClientStep(c) \/ Overwrite(c) \/ SessionStep(c)
               \/ Interrupt(c)
        PROVE  Types'
    BY <2>3, TypeTyped, ClientTyped, SendsTyped, SessionTyped, InterruptTyped
  <2> QED BY <2>1, <2>2, <2>3 DEF Next
<1> QED BY <1>1, InitTypes, PTL DEF Spec

(* For any clients, packets and scenarios the model is type-correct.       *)
THEOREM TypeCorrect == Spec => []TypeOK
<1>1. Types => TypeOK
  <2> SUFFICES ASSUME Types PROVE TypeOK
    OBVIOUS
  <2>1. ASSUME NEW c \in Clients
        PROVE  /\ command[c].kind \in Kinds \cup {"INVALID"}
               /\ request[c].kind \in Kinds \cup {"INVALID", "yes", "no"}
               /\ left[c] \in 0..Packets /\ todo[c] \in 0..Packets
    BY DEF Types, ClientTypes, SessionTypes, Command, Request, RequestKinds
  <2>2. ASSUME NEW c \in Clients,
               NEW w \in {waiters[c][i] : i \in DOMAIN waiters[c]}
        PROVE  w.request.kind = "ARCHSERVER" /\ w.ends \subseteq SessionEnds
    <3>1. PICK q : q = waiters[c]
      OBVIOUS
    <3>2. q \in Seq(Waiter)
      BY <3>1 DEF Types, SessionTypes
    <3>3. PICK i \in DOMAIN q : w = q[i]
      BY <3>1
    <3>4. w \in Waiter
      BY <3>2, <3>3
    <3> QED BY <3>4 DEF Waiter
  <2>3. /\ client \in [Clients -> ClientStates]
        /\ session \in [Clients -> SessionStates]
        /\ ends \in [Clients -> SUBSET (ClientEnds \cup SessionEnds)]
        /\ gone \subseteq Clients
        /\ serverFileIOSemaphore \in Nat /\ loggerSemaphore \in Nat
        /\ freePosts \in Nat /\ unanswered \subseteq Clients
        /\ server \in {"up", "sigterm", "waiting", "gone"}
        /\ sigchld \in BOOLEAN
        /\ clientTerm \subseteq Clients /\ sessionTerm \subseteq Clients
    BY DEF Types, ClientTypes, SessionTypes, FifoTypes, SemTypes, ParentTypes
  <2> QED BY <2>1, <2>2, <2>3 DEF TypeOK
<1> QED BY <1>1, TypesInvariant, PTL

-----------------------------------------------------------------------------
(* The conversation of a steady client, which is not on its way out, and   *)
(* its session.                                                            *)
Conversing(c) ==
  Steady(c) /\ command[c].kind # "QUIT" /\ session[c] \notin Over

OneWay == {"HELP", "LIST", "READFROM", "WRITETO", "DOWNLOAD"}
Between == {"post", "open", "opening", "read"}
Onward == {"UPLOAD", "ARCHSERVER"}

(* The responses a session makes up to a command.                          *)
Fits(kind, r) ==
  \/ kind \in {"READFROM", "DOWNLOAD"} /\ r.kind = "ERROR" /\ r.size = 0
  \/ kind \in {"HELP", "WRITETO", "UPLOAD"} /\ r.kind = kind /\ r.size = 0
  \/ /\ kind \in {"LIST", "READFROM", "DOWNLOAD", "ARCHSERVER"}
     /\ r.kind = kind /\ r.size = Packets
  \/ kind = "UPLOAD" /\ r.kind = "ASK" /\ r.size = 0
  \/ kind = "ARCHSERVER" /\ r.kind = "DONE" /\ r.size = 0

(* Packets the session has yet to write.                                   *)
Unwritten(c) == IF session[c] = "packets" THEN todo[c] ELSE 0

SessionDone(c) ==
  /\ toServer[c] = <<>>
  /\ \/ session[c] \in Between
     \/ session[c] = "close" /\ reply[c].kind \notin Onward

(* A file on its way: the session takes what is in the FIFO and the items  *)
(* the client has yet to send, and no more.                                *)
Bytes(s, n) == \A i \in 1..Len(s) : s[i] = [kind |-> "bytes", n |-> n]
Sent(s, n, all, unsent) == Bytes(s, n) /\ Len(s) + unsent = all
Uploading(c, unsent) ==
  /\ request[c] = command[c]
  /\ \/ /\ session[c] = "close" /\ reply[c].kind = "UPLOAD"
        /\ Sent(toServer[c], command[c].n, Packets, unsent)
     \/ /\ session[c] = "answer" /\ toServer[c] # <<>>
        /\ Head(toServer[c]).kind = "yes"
        /\ Sent(Tail(toServer[c]), command[c].n, Packets, unsent)
     \/ /\ session[c] = "truncate"
        /\ Sent(toServer[c], command[c].n, Packets, unsent)
     \/ /\ session[c] = "receive"
        /\ Sent(toServer[c], command[c].n, todo[c], unsent)
     \/ session[c] \in Between /\ toServer[c] = <<>> /\ unsent = 0

(* The user has answered not to overwrite the file.                        *)
Keeping(c) ==
  \/ /\ session[c] = "answer" /\ toServer[c] # <<>>
     /\ Head(toServer[c]).kind = "no" /\ Tail(toServer[c]) = <<>>
  \/ session[c] \in Between \cup {"keep"} /\ toServer[c] = <<>>

(* What is left of a response of which the client has read, or will read   *)
(* next, the Request r, of size, when items messages are behind it.        *)
Delivering(c, size, items) ==
  /\ toServer[c] = <<>> /\ items + Unwritten(c) <= size
  /\ \/ SessionDone(c)
     \/ session[c] = "packets" /\ reply[c].kind \notin Onward
Accepting(c, r) ==
  \/ r.kind = "UPLOAD" /\ Uploading(c, Packets)
  \/ r.kind = "ASK" /\ session[c] = "answer" /\ toServer[c] = <<>>
Numbered(s, n) == \A i \in 1..Len(s) : s[i].n = n
Archiving(c) ==
  /\ toServer[c] = <<>> /\ Numbered(toClient[c], command[c].n)
  /\ session[c] \in {"write", "packets", "close", "second", "post", "open",
                     "read"}
  /\ session[c] \in {"write", "packets", "close"} =>
       reply[c].kind \in {"ARCHSERVER", "DONE"}
Follows(c, r, size, items) ==
  /\ request[c] = command[c] /\ r.n = command[c].n
  /\ command[c].kind \in OneWay \cup Onward
  /\ command[c].kind \in OneWay => Delivering(c, size, items)
  /\ command[c].kind = "UPLOAD" => items = 0 /\ Accepting(c, r)
  /\ command[c].kind = "ARCHSERVER" => Archiving(c)

(* The client has sent its request and not read a response.                *)
Asked(c) ==
  session[c] = "read" /\ toServer[c] = <<command[c]>> /\ toClient[c] = <<>>
Served(c) ==
  /\ request[c] = command[c] /\ toServer[c] = <<>> /\ toClient[c] = <<>>
  /\ \/ session[c] = "wait" /\ command[c].kind \in FileKinds
     \/ session[c] = "handle" /\ command[c].kind \in FileKinds \cup {"HELP"}
     \/ session[c] = "bye" /\ command[c].kind = "KILLSERVER"
     \/ session[c] \in {"searching", "post", "open", "read"}
     \/ /\ session[c] \in {"openingResponse", "write"}
        /\ Fits(command[c].kind, reply[c])
Responded(c) ==
  /\ toClient[c] # <<>> /\ Fits(command[c].kind, Head(toClient[c]))
  /\ Follows(c, Head(toClient[c]), Head(toClient[c]).size,
             Len(toClient[c]) - 1)

(* Where the client is, the session and the FIFOs fit.                     *)
Talking(c) ==
  /\ client[c] \in {"prompt", "open", "write", "openResponse",
                    "openingResponse", "header", "answered", "packets", "ask",
                    "send", "kept"}
  /\ client[c] = "prompt" =>
       /\ toClient[c] = <<>>
       /\ SessionDone(c) \/ Uploading(c, 0) \/ Keeping(c)
  /\ client[c] \in {"open", "write"} =>
       /\ toServer[c] = <<>> /\ toClient[c] = <<>>
       /\ session[c] \in {"opening", "read"}
  /\ client[c] = "write" => session[c] = "read"
  /\ client[c] \in {"openResponse", "openingResponse", "header"} =>
       Asked(c) \/ Served(c) \/ Responded(c)
  /\ client[c] = "answered" =>
       /\ Fits(command[c].kind, response[c])
       /\ Follows(c, response[c], response[c].size, Len(toClient[c]))
  /\ client[c] = "packets" =>
       /\ command[c].kind # "UPLOAD"
       /\ Follows(c, response[c], left[c], Len(toClient[c]))
  /\ client[c] \in {"ask", "send", "kept"} =>
       /\ command[c].kind = "UPLOAD" /\ toClient[c] = <<>>
       /\ response[c].n = command[c].n
  /\ client[c] = "ask" =>
       session[c] = "answer" /\ toServer[c] = <<>> /\ request[c] = command[c]
  /\ client[c] = "send" => Uploading(c, left[c])
  /\ client[c] = "kept" => Keeping(c)

(* A session that has broken an upload off passes over what the client     *)
(* sends of the file; it may lose the next request with it.                *)
Leftover == {"bytes", "rest"}
Junk(s) == \A i \in 1..Len(s) : s[i].kind \in Leftover
Trailing(s, m) ==
  /\ s # <<>> /\ s[Len(s)] = m
  /\ \A i \in 1..(Len(s) - 1) : s[i].kind \in Leftover
Awaiting == {"openResponse", "openingResponse", "header"}
Accepted(c, r) ==
  /\ command[c].kind = "UPLOAD" /\ r.kind = "UPLOAD" /\ r.n = command[c].n
  /\ toServer[c] = <<>>
Straying(c) ==
  /\ session[c] \in Between \cup {"invalid"} /\ Has(c, RDReaders)
  /\ \/ /\ client[c] \in {"prompt", "open", "write"}
        /\ toClient[c] = <<>> /\ Junk(toServer[c])
     \/ /\ client[c] \in Awaiting /\ toClient[c] = <<>>
        /\ Junk(toServer[c]) \/ Trailing(toServer[c], command[c])
     \/ /\ client[c] \in Awaiting /\ Len(toClient[c]) = 1
        /\ Accepted(c, Head(toClient[c]))
     \/ /\ client[c] = "answered" /\ toClient[c] = <<>>
        /\ Accepted(c, response[c])
     \/ /\ client[c] = "send" /\ toClient[c] = <<>> /\ Junk(toServer[c])
        /\ command[c].kind = "UPLOAD" /\ response[c].n = command[c].n

(* Who has which FIFO open.                                                *)
Connected(c) ==
  /\ c \notin gone /\ c \notin clientTerm
  /\ client[c] # "prompt" => command[c].kind \in Kinds
  /\ waiters[c] # <<>> =>
       command[c].kind = "ARCHSERVER" /\ client[c] # "prompt"
  /\ past[c] # <<>> => "cRD old" \in ends[c]
  /\ client[c] \notin {"prompt", "open"} => "cRD" \in ends[c]
  /\ session[c] = "read" => Has(c, RDWriters)
  /\ session[c] \notin {"open", "post"} => "sRD" \in ends[c]
  /\ session[c] \in {"openingResponse", "write", "packets"} =>
       "sWR" \in ends[c]
  /\ client[c] \in {"openingResponse", "header", "answered", "packets"} =>
       "cWR" \in ends[c]
  /\ session[c] \in {"write", "packets"} \/ toClient[c] # <<>> =>
       Has(c, WRReaders)
  /\ client[c] = "header" /\ toClient[c] = <<>> => Has(c, WRWriters)

InTouch(c) == Conversing(c) => (Talking(c) \/ Straying(c)) /\ Connected(c)

(* Clients in the queue, and those that leave.                             *)
Queued(c) ==
  /\ client[c] = "queued" /\ session[c] = "none" /\ past[c] = <<>>
  /\ command[c] = Invalid /\ toServer[c] = <<>> /\ toClient[c] = <<>>
  /\ ends[c] = {"cWR old"} /\ waiters[c] = <<>>
  /\ c \notin gone /\ c \notin clientTerm /\ c \notin sessionTerm
Leaving(c) ==
  command[c].kind = "QUIT" =>
    client[c] \in {"open", "opening", "write", "exit", "left", "dead"}
Aside ==
  /\ \A i, j \in 1..Len(clientQueue) : clientQueue[i] = clientQueue[j] => i = j
  /\ \A i \in 1..Len(clientQueue) : Queued(clientQueue[i])

TalkInv == Aside /\ \A c \in Clients : InTouch(c) /\ Leaving(c)

-----------------------------------------------------------------------------
(* What a step leaves alone of a client and its session.                   *)
ClientSame(c) ==
  /\ client'[c] = client[c] /\ command'[c] = command[c]
  /\ past'[c] = past[c] /\ response'[c] = response[c] /\ left'[c] = left[c]
HandlerSame(c) ==
  /\ request'[c] = request[c] /\ reply'[c] = reply[c]
  /\ todo'[c] = todo[c] /\ waiters'[c] = waiters[c]
FifoSame(c) ==
  ends'[c] = ends[c] /\ toServer'[c] = toServer[c] /\ toClient'[c] = toClient[c]
Apart(c) ==
  /\ scenario' = scenario /\ (c \in gone' <=> c \in gone)
  /\ c \in clientTerm' => c \in clientTerm
Same(c) ==
  /\ ClientSame(c) /\ HandlerSame(c) /\ FifoSame(c) /\ Apart(c)
  /\ session'[c] = session[c]

LEMMA SameDone ==
  ASSUME NEW c \in Clients, Same(c)
  PROVE  /\ SessionDone(c)' <=> SessionDone(c)
         /\ Keeping(c)' <=> Keeping(c)
         /\ Unwritten(c)' = Unwritten(c)
         /\ \A u : Uploading(c, u)' <=> Uploading(c, u)
         /\ Archiving(c)' <=> Archiving(c)
         /\ \A S : Has(c, S)' <=> Has(c, S)
<1>1. SessionDone(c)' <=> SessionDone(c)
  BY DEF Same, HandlerSame, FifoSame, SessionDone
<1>2. Keeping(c)' <=> Keeping(c)
  BY DEF Same, HandlerSame, FifoSame, Keeping
<1>3. Unwritten(c)' = Unwritten(c)
  BY DEF Same, HandlerSame, Unwritten
<1>4. \A u : Uploading(c, u)' <=> Uploading(c, u)
  BY DEF Same, HandlerSame, FifoSame, ClientSame, Uploading
<1>5. Archiving(c)' <=> Archiving(c)
  BY DEF Same, HandlerSame, FifoSame, ClientSame, Archiving
<1>6. \A S : Has(c, S)' <=> Has(c, S)
  BY DEF Same, FifoSame, Has
<1> QED BY <1>1, <1>2, <1>3, <1>4, <1>5, <1>6

LEMMA SameTalking ==
  ASSUME NEW c \in Clients, Same(c), Talking(c)
  PROVE  Talking(c)'
<1>1. client[c] = "answered" =>
        Follows(c, response[c], response[c].size, Len(toClient[c]))'
  BY DEF Same, HandlerSame, ClientSame, FifoSame, Talking, Follows, Delivering,
         Accepting, Archiving, Uploading, Unwritten, SessionDone
<1>2. client[c] = "packets" =>
        Follows(c, response[c], left[c], Len(toClient[c]))'
  BY DEF Same, HandlerSame, ClientSame, FifoSame, Talking, Follows, Delivering,
         Accepting, Archiving, Uploading, Unwritten, SessionDone
<1>3. client[c] = "send" => Uploading(c, left[c])'
  BY DEF Same, HandlerSame, ClientSame, FifoSame, Talking, Uploading
<1>4. (Asked(c)' <=> Asked(c)) /\ (Served(c)' <=> Served(c))
  BY DEF Same, HandlerSame, ClientSame, FifoSame, Asked, Served
<1>5. Responded(c) => Responded(c)'
  BY DEF Same, HandlerSame, ClientSame, FifoSame, Responded, Follows, Delivering,
         Accepting, Archiving, Uploading, Unwritten, SessionDone
<1> QED BY <1>1, <1>2, <1>3, <1>4, <1>5, SameDone
        DEF Same, HandlerSame, ClientSame, FifoSame, Talking

LEMMA SameStraying ==
  ASSUME NEW c \in Clients, Same(c), Straying(c)
  PROVE  Straying(c)'
<1>1. Has(c, RDReaders)'
  BY SameDone DEF Straying
<1>2. /\ Accepted(c, response[c]) => Accepted(c, response[c])'
      /\ Accepted(c, Head(toClient[c])) => Accepted(c, Head(toClient[c]))'
      /\ Junk(toServer[c]) => Junk(toServer[c])'
      /\ Trailing(toServer[c], command[c]) => Trailing(toServer[c], command[c])'
  BY DEF Same, ClientSame, FifoSame, Accepted, Junk, Trailing
<1> QED BY <1>1, <1>2 DEF Same, ClientSame, FifoSame, Straying

LEMMA SameInTouch ==
  ASSUME NEW c \in Clients, Same(c), InTouch(c), Leaving(c)
  PROVE  InTouch(c)' /\ Leaving(c)'
<1>1. Conversing(c)' <=> Conversing(c)
  BY DEF Same, ClientSame, Apart, Conversing, Steady
<1>2. Connected(c) => Connected(c)'
  BY SameDone DEF Same, ClientSame, HandlerSame, FifoSame, Apart, Connected
<1>3. Leaving(c)'
  BY DEF Same, ClientSame, Leaving
<1> QED BY <1>1, <1>2, <1>3, SameTalking, SameStraying DEF InTouch

LEMMA QueuedSame ==
  ASSUME NEW c \in Clients, Same(c), Queued(c),
         c \in sessionTerm' => c \in sessionTerm
  PROVE  Queued(c)'
BY DEF Same, ClientSame, HandlerSame, FifoSame, Apart, Queued

(* Descriptors that leave somebody on a FIFO with something in it.         *)
LEMMA NothingLost ==
  ASSUME FifoTypes, NEW c \in Clients, NEW new, Descriptors(c, new),
         toServer[c] = <<>> \/ new \cap (RDReaders \cup RDWriters) # {},
         toClient[c] = <<>> \/ new \cap (WRReaders \cup WRWriters) # {}
  PROVE  /\ ends'[c] = new /\ toServer'[c] = toServer[c]
         /\ toClient'[c] = toClient[c]
BY DEF Descriptors, FifoTypes

LEMMA OthersDescriptors ==
  ASSUME FifoTypes, NEW c \in Clients, NEW new, Descriptors(c, new),
         NEW d \in Clients, d # c
  PROVE  FifoSame(d)
BY DEF Descriptors, FifoTypes, FifoSame

-----------------------------------------------------------------------------
(* A step of one client or its session is none of another one.             *)
LEMMA OthersWrite ==
  ASSUME Types, NEW c \in Clients, NEW d \in Clients, d # c, NEW from, NEW to,
         NEW m, ClientWrites(c, from, to, m)
  PROVE  /\ client'[d] = client[d] /\ FifoSame(d)
         /\ UNCHANGED <<command, past, response, gone, sessionVars, semVars,
                        parentVars>>
<1>1. CASE ClientGoes(c, to) /\ ToServer(c, m)
  BY <1>1 DEF ClientWrites, OnlyClient, ClientGoes, ToServer, FifoSame, Types,
              ClientTypes, FifoTypes
<1>2. CASE ClientGoes(c, "dead") /\ Descriptors(c, ends[c] \ ClientEnds)
  <2>1. FifoSame(d)
    BY <1>2, OthersDescriptors DEF Types
  <2> QED BY <1>2, <2>1
          DEF ClientWrites, OnlyClient, ClientGoes, Types, ClientTypes
<1> QED BY <1>1, <1>2 DEF ClientWrites

LEMMA OthersPrompt ==
  ASSUME Types, NEW c \in Clients, NEW d \in Clients, d # c, NEW closed,
         Prompt(c, closed) \/ ToPackets(c) \/ Leave(c)
  PROVE  ClientSame(d) /\ FifoSame(d) /\ (d \in gone' <=> d \in gone)
<1>1. FifoSame(d)
  BY OthersDescriptors
  DEF Prompt, ToPackets, Leave, Types, fifoVars, FifoSame
<1>2. ClientSame(d)
  BY DEF Prompt, ToPackets, Leave, ClientGoes, ClientSame, Types, ClientTypes
<1>3. d \in gone' <=> d \in gone
  BY DEF Prompt, ToPackets, Leave, fifoVars
<1> QED BY <1>1, <1>2, <1>3

LEMMA OthersClient ==
  ASSUME Types, NEW c \in Clients, NEW d \in Clients, d # c,
         \/ \E k \in scenario.typed[c] : Type(c, k)
         \/ ClientStep(c) \/ Overwrite(c) \/ Interrupt(c)
  PROVE  /\ Same(d) /\ UNCHANGED <<clientQueue, sessionTerm>>
<1> DEFINE only == UNCHANGED <<sessionVars, semVars, parentVars, sigchld>>
           good == Same(d) /\ UNCHANGED <<clientQueue, sessionTerm>>
<1>1. only => /\ HandlerSame(d) /\ session'[d] = session[d]
              /\ scenario' = scenario /\ clientTerm' = clientTerm
              /\ UNCHANGED <<clientQueue, sessionTerm>>
  BY DEF HandlerSame, sessionVars, handlerVars, parentVars
<1>2. only /\ ClientSame(d) /\ FifoSame(d) /\ (d \in gone' <=> d \in gone)
        => good
  BY <1>1 DEF Same, Apart
<1>3. ASSUME NEW k \in scenario.typed[c], Type(c, k) PROVE good
  <2>1. ClientSame(d) /\ FifoSame(d) /\ gone' = gone
    BY <1>3 DEF Type, ClientGoes, ClientSame, FifoSame, fifoVars, Types,
                ClientTypes
  <2> QED BY <1>2, <1>3, <2>1 DEF Type, OnlyClient
<1>4. CASE OpenRD(c) \/ OpenWR(c)
  <2>1. FifoSame(d)
    BY <1>4, OthersDescriptors DEF OpenRD, OpenWR, Types
  <2>2. ClientSame(d) /\ session'[d] = session[d]
    BY <1>4 DEF OpenRD, OpenWR, ClientGoes, ClientSame, commandVars, Types,
                ClientTypes, SessionTypes
  <2>3. HandlerSame(d) /\ Apart(d) /\ UNCHANGED <<clientQueue, sessionTerm>>
    BY <1>4 DEF OpenRD, OpenWR, HandlerSame, handlerVars, Apart, parentVars
  <2> QED BY <2>1, <2>2, <2>3 DEF Same
<1>5. CASE ReadHeader(c) \/ ReadPacket(c)
  <2>1. only /\ gone' = gone
    BY <1>5 DEF ReadHeader, ReadPacket, OnlyClient
  <2>2. FifoSame(d)
    BY <1>5 DEF ReadHeader, ReadPacket, FifoSame, Types, FifoTypes
  <2>3. ClientSame(d)
    BY <1>5 DEF ReadHeader, ReadPacket, ClientGoes, ClientSame, Types,
                ClientTypes
  <2> QED BY <1>2, <2>1, <2>2, <2>3
<1>6. CASE \/ WriteRequest(c) \/ Overwrite(c)
           \/ /\ left[c] > 0
              /\ ClientWrites(c, "send", "send",
                              [kind |-> "bytes", n |-> command[c].n])
              /\ left' = [left EXCEPT ![c] = @ - 1]
  <2>1. \E from, to, m : ClientWrites(c, from, to, m)
    BY <1>6 DEF WriteRequest, Overwrite
  <2>2. /\ client'[d] = client[d] /\ FifoSame(d)
        /\ UNCHANGED <<command, past, response, gone, sessionVars, semVars,
                       parentVars>>
    BY <2>1, OthersWrite
  <2>3. left'[d] = left[d]
    BY <1>6 DEF WriteRequest, Overwrite, Types, ClientTypes
  <2>4. ClientSame(d)
    BY <2>2, <2>3 DEF ClientSame
  <2>5. only
    BY <2>1 DEF ClientWrites, OnlyClient
  <2> QED BY <1>2, <2>2, <2>4, <2>5
<1>7. CASE only /\ (ToPackets(c) \/ Leave(c) \/ \E s : Prompt(c, s))
  BY <1>2, <1>7, OthersPrompt
<1>8. CASE Interrupt(c)
  <2>1. only /\ gone' = gone
    BY <1>8 DEF Interrupt, OnlyClient
  <2>2. FifoSame(d)
    BY <1>8, OthersDescriptors DEF Interrupt, Types
  <2>3. ClientSame(d)
    BY <1>8 DEF Interrupt, ClientGoes, ClientSame, Types, ClientTypes
  <2> QED BY <1>2, <2>1, <2>2, <2>3
<1>9. CASE ClientOneMessage(c) \/ ClientReadF(c) \/ ClientList(c)
           \/ ClientDownload(c) \/ ClientQuits(c) \/ ClientTerm(c)
  <2>1. only
    BY <1>9 DEF ClientOneMessage, ClientReadF, ClientList, ClientDownload,
                ClientQuits, ClientTerm, Answered, Failed, Succeeded, Done,
                OnlyClient
  <2>2. ToPackets(c) \/ Leave(c) \/ \E s : Prompt(c, s)
    BY <1>9 DEF ClientOneMessage, ClientReadF, ClientList, ClientDownload,
                ClientQuits, ClientTerm
  <2> QED BY <1>7, <2>1, <2>2
<1>10. CASE ClientUpload(c)
  <2>1. CASE (\E s : Prompt(c, s)) /\ only
    BY <1>7, <2>1
  <2>2. CASE /\ Succeeded(c, {"UPLOAD"})
             /\ IF response[c].kind = "ASK"
                THEN ClientGoes(c, "ask") /\ UNCHANGED left
                ELSE ClientGoes(c, "send")
                     /\ left' = [left EXCEPT ![c] = Packets]
             /\ UNCHANGED <<command, past, response, fifoVars>>
    <3>1. only /\ gone' = gone /\ FifoSame(d)
      BY <2>2 DEF Succeeded, Answered, OnlyClient, fifoVars, FifoSame
    <3>2. client'[d] = client[d] /\ left'[d] = left[d]
      BY <2>2 DEF ClientGoes, Types, ClientTypes
    <3>3. ClientSame(d)
      BY <2>2, <3>2 DEF ClientSame
    <3> QED BY <1>2, <3>1, <3>3
  <2> QED BY <1>6, <1>10, <2>1, <2>2
          DEF ClientUpload, Failed, Answered, OnlyClient
<1> QED BY <1>3, <1>4, <1>5, <1>6, <1>8, <1>9, <1>10 DEF ClientStep

LEMMA OthersEnds ==
  ASSUME Types, NEW c \in Clients, NEW d \in Clients, d # c, NEW how,
         Ends(c, how)
  PROVE  /\ FifoSame(d) /\ session'[d] = session[d]
         /\ request'[d] = request[d] /\ waiters'[d] = waiters[d]
<1>1. FifoSame(d)
  BY OthersDescriptors DEF Ends, Types
<1>2. CASE waiters[c] = <<>>
  BY <1>1, <1>2 DEF Ends, SessionGoes, Types, SessionTypes
<1>3. CASE waiters[c] # <<>>
  BY <1>1, <1>3 DEF Ends, SessionGoes, Types, SessionTypes
<1> QED BY <1>2, <1>3

LEMMA OthersSession ==
  ASSUME Types, NEW c \in Clients, NEW d \in Clients, d # c, SessionStep(c)
  PROVE  /\ Same(d) /\ UNCHANGED clientQueue
         /\ d \in sessionTerm' => d \in sessionTerm
<1> DEFINE good == /\ Same(d) /\ UNCHANGED clientQueue
                   /\ d \in sessionTerm' => d \in sessionTerm
           only == UNCHANGED <<clientVars, gone, parentVars>>
           others == HandlerSame(d) /\ FifoSame(d) /\ session'[d] = session[d]
<1>1. only /\ others => good
  BY DEF Same, ClientSame, clientVars, commandVars, parentVars, Apart
<1>2. ASSUME NEW pc, SessionGoes(c, pc) PROVE session'[d] = session[d]
  BY <1>2 DEF SessionGoes, Types, SessionTypes
<1>3. CASE OpenRequest(c)
  <2>1. /\ Apart(d) /\ UNCHANGED <<commandVars, handlerVars, clientQueue,
                                   sessionTerm>>
    BY <1>3 DEF OpenRequest, Apart, parentVars
  <2>2. client'[d] = client[d]
    BY <1>3 DEF OpenRequest, Types, ClientTypes
  <2>3. CASE Ends(c, "ended")
    <3>1. /\ FifoSame(d) /\ session'[d] = session[d]
          /\ request'[d] = request[d] /\ waiters'[d] = waiters[d]
      BY <2>3, OthersEnds
    <3> QED BY <2>1, <2>2, <3>1
            DEF Same, ClientSame, HandlerSame, commandVars, handlerVars
  <2>4. CASE ~Ends(c, "ended")
    <3>1. FifoSame(d)
      BY <1>3, <2>4, OthersDescriptors DEF OpenRequest, Types
    <3>2. session'[d] = session[d] /\ UNCHANGED <<request, waiters>>
      BY <1>3, <2>4, <1>2 DEF OpenRequest
    <3> QED BY <2>1, <2>2, <3>1, <3>2
            DEF Same, ClientSame, HandlerSame, commandVars, handlerVars
  <2> QED BY <2>3, <2>4
<1>4. CASE ReadRequest(c) \/ SemWait(c)
  <2>1. only
    BY <1>4 DEF ReadRequest, SemWait, OnlySession
  <2>2. session'[d] = session[d]
    BY <1>2, <1>4 DEF ReadRequest, SemWait
  <2>3. FifoSame(d) /\ HandlerSame(d)
    BY <1>4 DEF ReadRequest, SemWait, FifoSame, HandlerSame, handlerVars,
                Types, SessionTypes, FifoTypes
  <2> QED BY <1>1, <2>1, <2>2, <2>3
<1>5. CASE Quit(c) \/ KillServer(c)
  <2>1. PICK kind : Bye(c, kind)
    BY <1>5 DEF Quit, KillServer
  <2>2. /\ FifoSame(d) /\ session'[d] = session[d]
        /\ request'[d] = request[d] /\ waiters'[d] = waiters[d]
    BY <2>1, OthersEnds DEF Bye
  <2>3. UNCHANGED <<clientVars, gone, handlerVars, scenario, clientQueue,
                    sessionTerm>>
    BY <2>1 DEF Bye
  <2>4. d \in clientTerm' => d \in clientTerm
    BY <1>5 DEF Quit, KillServer
  <2>5. ClientSame(d) /\ HandlerSame(d) /\ Apart(d)
    BY <2>2, <2>3, <2>4 DEF ClientSame, HandlerSame, Apart, clientVars,
                            commandVars, handlerVars
  <2> QED BY <2>2, <2>3, <2>5 DEF Same
<1>6. CASE PassOver(c) \/ Close(c) \/ Truncate(c) \/ Keep(c) \/ Received(c)
           \/ CreateFails(c)
  <2>1. only
    BY <1>6 DEF PassOver, Close, Truncate, Keep, Received, CreateFails,
                OnlySession
  <2>2. session'[d] = session[d]
    BY <1>2, <1>6 DEF PassOver, Close, Truncate, Keep, Received, CreateFails
  <2>3. FifoSame(d)
    BY <1>6, OthersDescriptors
    DEF PassOver, Close, Truncate, Keep, Received, CreateFails, Types
  <2>4. HandlerSame(d)
    BY <1>6 DEF PassOver, Close, Truncate, Keep, Received, CreateFails,
                HandlerSame, handlerVars, Types, SessionTypes
  <2> QED BY <1>1, <2>1, <2>2, <2>3, <2>4
<1>7. CASE WriteHeader(c) \/ WritePacket(c) \/ ReadAnswer(c) \/ Receive(c)
           \/ Post(c) \/ ReadFails(c) \/ WriteFails(c)
  <2>1. only
    BY <1>7 DEF WriteHeader, WritePacket, ReadAnswer, Receive, Post, ReadFails,
                WriteFails, OnlySession
  <2>2. session'[d] = session[d]
    BY <1>2, <1>7 DEF WriteHeader, WritePacket, ReadAnswer, Receive, Post,
                      ReadFails, WriteFails, BreakOff
  <2>3. FifoSame(d)
    BY <1>7 DEF WriteHeader, WritePacket, ReadAnswer, Receive, Post, ReadFails,
                WriteFails, BreakOff, ToClient, FifoSame, Types, FifoTypes
  <2>4. HandlerSame(d)
    BY <1>7 DEF WriteHeader, WritePacket, ReadAnswer, Receive, Post, ReadFails,
                WriteFails, BreakOff, HandlerSame, handlerVars, Types,
                SessionTypes
  <2> QED BY <1>1, <2>1, <2>2, <2>3, <2>4
<1>8. CASE Broken(c)
  <2>1. only /\ UNCHANGED handlerVars
    BY <1>8 DEF Broken, OnlySession
  <2>2. CASE Ends(c, "dead")
    <3>1. /\ FifoSame(d) /\ session'[d] = session[d]
          /\ request'[d] = request[d] /\ waiters'[d] = waiters[d]
      BY <2>2, OthersEnds
    <3>2. HandlerSame(d)
      BY <2>1, <3>1 DEF HandlerSame, handlerVars
    <3> QED BY <1>1, <2>1, <3>1, <3>2
  <2>3. CASE /\ SessionGoes(c, "post")
             /\ Descriptors(c, Forgotten(c, {"sRD"}) \ {"sWR"})
             /\ UNCHANGED <<request, waiters, sigchld>>
    <3>1. FifoSame(d) /\ session'[d] = session[d]
      BY <1>2, <2>3, OthersDescriptors DEF Types
    <3>2. HandlerSame(d)
      BY <2>1, <2>3 DEF HandlerSame, handlerVars
    <3> QED BY <1>1, <2>1, <3>1, <3>2
  <2> QED BY <1>8, <2>2, <2>3 DEF Broken
<1>9. CASE SessionTerm(c)
  <2>1. session'[d] = session[d]
    BY <1>2, <1>9 DEF SessionTerm
  <2>2. FifoSame(d)
    BY <1>9, OthersDescriptors DEF SessionTerm, Types
  <2>3. HandlerSame(d)
    BY <1>9 DEF SessionTerm, HandlerSame, handlerVars, Types, SessionTypes
  <2>4. ClientSame(d) /\ Apart(d) /\ UNCHANGED clientQueue
    BY <1>9 DEF SessionTerm, ClientSame, clientVars, commandVars, Apart
  <2>5. d \in sessionTerm' => d \in sessionTerm
    BY <1>9 DEF SessionTerm
  <2> QED BY <2>1, <2>2, <2>3, <2>4, <2>5 DEF Same
<1>10. CASE HandleHelp(c) \/ HandleList(c) \/ HandleReadFrom(c)
            \/ HandleWriteTo(c) \/ HandleDownload(c) \/ HandleUpload(c)
            \/ HandleArchServer(c) \/ RespondAgain(c)
  <2>1. UNCHANGED parentVars
    BY <1>10 DEF HandleHelp, HandleList, HandleReadFrom, HandleWriteTo,
         HandleDownload, HandleUpload, HandleArchServer, RespondAgain, Handling
  <2>2. ASSUME NEW kind, NEW size, Respond(c, kind, size) PROVE good
    <3>1. FifoSame(d) /\ session'[d] = session[d]
      BY <1>2, <2>2, OthersDescriptors DEF Respond, Types
    <3>2. client'[d] = client[d] /\ reply'[d] = reply[d]
      BY <2>2 DEF Respond, Types, ClientTypes, SessionTypes
    <3>3. /\ UNCHANGED <<commandVars, gone, request, waiters, todo>>
      BY <2>2 DEF Respond
    <3>4. ClientSame(d) /\ HandlerSame(d) /\ Apart(d)
      BY <2>1, <3>2, <3>3
      DEF ClientSame, HandlerSame, Apart, commandVars, parentVars
    <3> QED BY <2>1, <3>1, <3>4 DEF Same, parentVars
  <2>3. CASE UNCHANGED clientVars
    <3>1. CASE \E kind, size : Respond(c, kind, size)
      BY <2>2, <3>1
    <3>2. CASE GiveUp(c) \/ ChildGoesOn(c)
      <4>1. only
        BY <2>1, <2>3, <3>2 DEF GiveUp, ChildGoesOn
      <4>2. FifoSame(d) /\ session'[d] = session[d]
        BY <1>2, <3>2, OthersDescriptors DEF GiveUp, ChildGoesOn, Types
      <4>3. HandlerSame(d)
        BY <3>2 DEF GiveUp, ChildGoesOn, HandlerSame, Types, SessionTypes
      <4> QED BY <1>1, <4>1, <4>2, <4>3
    <3>3. CASE /\ SessionGoes(c, "post") /\ Descriptors(c, ends[c] \ {"sRD"})
               /\ UNCHANGED <<clientVars, gone, request, waiters, reply, todo>>
      <4>1. FifoSame(d) /\ session'[d] = session[d]
        BY <1>2, <3>3, OthersDescriptors DEF Types
      <4>2. HandlerSame(d) /\ only
        BY <2>1, <3>3 DEF HandlerSame
      <4> QED BY <1>1, <4>1, <4>2
    <3>4. CASE /\ UNCHANGED <<clientVars, fifoVars, request, waiters, reply>>
               /\ \/ SessionGoes(c, "searching") /\ UNCHANGED todo
                  \/ /\ SessionGoes(c, "receive")
                     /\ todo' = [todo EXCEPT ![c] = Packets]
      <4>1. FifoSame(d) /\ session'[d] = session[d] /\ only
        BY <1>2, <2>1, <3>4 DEF fifoVars, FifoSame
      <4>2. HandlerSame(d)
        BY <3>4 DEF HandlerSame, Types, SessionTypes
      <4> QED BY <1>1, <4>1, <4>2
    <3> HIDE DEF good
    <3>5. CASE HandleHelp(c) \/ HandleList(c)
      BY <3>1, <3>2, <3>3, <3>5 DEF HandleHelp, HandleList
    <3>6. CASE HandleReadFrom(c) \/ HandleDownload(c)
      BY <3>1, <3>2, <3>6 DEF HandleReadFrom, HandleDownload
    <3>7. CASE HandleWriteTo(c)
      BY <3>1, <3>2, <3>4, <3>7 DEF HandleWriteTo, handlerVars
    <3>8. CASE HandleUpload(c)
      BY <3>1, <3>2, <3>4, <3>8 DEF HandleUpload
    <3>9. CASE HandleArchServer(c) \/ RespondAgain(c)
      BY <3>1, <3>2, <3>9 DEF HandleArchServer, RespondAgain
    <3> QED BY <1>10, <3>5, <3>6, <3>7, <3>8, <3>9
  <2>4. CASE \E kind, size : Respond(c, kind, size)
    BY <2>2, <2>4
  <2>5. UNCHANGED clientVars \/ \E kind, size : Respond(c, kind, size)
    <3>1. CASE HandleHelp(c) \/ HandleList(c)
      BY <3>1 DEF HandleHelp, HandleList, GiveUp
    <3>2. CASE HandleReadFrom(c) \/ HandleDownload(c)
      BY <3>2 DEF HandleReadFrom, HandleDownload, GiveUp
    <3>3. CASE HandleWriteTo(c) \/ HandleUpload(c)
      BY <3>3 DEF HandleWriteTo, HandleUpload, GiveUp
    <3>4. CASE HandleArchServer(c) \/ RespondAgain(c)
      BY <3>4 DEF HandleArchServer, RespondAgain, GiveUp, ChildGoesOn
    <3> QED BY <1>10, <3>1, <3>2, <3>3, <3>4
  <2> QED BY <2>3, <2>4, <2>5
<1> HIDE DEF good
<1>11. good
  BY <1>3, <1>4, <1>5, <1>6, <1>7, <1>8, <1>9, <1>10 DEF SessionStep, good
<1> QED BY <1>11 DEF good

-----------------------------------------------------------------------------
(* Steps of the session.                                                   *)
Attended(c) ==
  /\ ClientSame(c) /\ Apart(c) /\ waiters'[c] = waiters[c]
  /\ ends'[c] \cap ClientEnds = ends[c] \cap ClientEnds

LEMMA StaysConnected ==
  ASSUME NEW c \in Clients, Connected(c), Attended(c),
         session'[c] = "read" => Has(c, RDWriters),
         session'[c] \notin {"open", "post"} => "sRD" \in ends'[c],
         session'[c] \in {"openingResponse", "write", "packets"} =>
           "sWR" \in ends'[c],
         session'[c] \in {"write", "packets"} \/ toClient'[c] # <<>> =>
           Has(c, WRReaders),
         client[c] = "header" /\ toClient'[c] = <<>> =>
           toClient[c] = <<>> /\ ends[c] \cap WRWriters \subseteq ends'[c]
  PROVE  Connected(c)'
<1>1. /\ Has(c, RDWriters)' <=> Has(c, RDWriters)
      /\ Has(c, WRReaders)' <=> Has(c, WRReaders)
      /\ \A e \in {"cRD", "cRD old", "cWR"} : e \in ends'[c] <=> e \in ends[c]
  BY DEF Attended, Has, ClientEnds, RDWriters, WRReaders
<1>2. client[c] = "header" /\ toClient'[c] = <<>> => Has(c, WRWriters)'
  BY DEF Connected, Has
<1> QED BY <1>1, <1>2 DEF Attended, ClientSame, Apart, Connected

LEMMA ConversingBefore ==
  ASSUME NEW c \in Clients, Conversing(c)', session[c] \notin Over,
         UNCHANGED <<command, past, scenario>>
  PROVE  Conversing(c)
BY DEF Conversing, Steady

LEMMA OpenRequestTalks ==
  ASSUME Types, NEW c \in Clients, OpenRequest(c), Talking(c), Connected(c)
  PROVE  Talking(c)' /\ Connected(c)'
<1>1. c \notin gone /\ client[c] # "opening" /\ session[c] = "open"
  BY DEF OpenRequest, Talking, Connected
<1>2. /\ session'[c] = IF Has(c, RDWriters) THEN "read" ELSE "opening"
      /\ client' = client /\ UNCHANGED <<request, waiters, commandVars, gone,
                                         handlerVars, parentVars>>
      /\ Descriptors(c, ends[c] \cup {"sRD"})
  BY <1>1 DEF OpenRequest, SessionGoes, Types, SessionTypes
<1>3. /\ ends'[c] = ends[c] \cup {"sRD"} /\ toServer'[c] = toServer[c]
      /\ toClient'[c] = toClient[c]
  <2>1. toClient[c] = <<>> \/ ends[c] \cap (WRReaders \cup WRWriters) # {}
    BY DEF Connected, Has
  <2> QED BY <1>2, <2>1, NothingLost DEF Types, RDReaders
<1>4. Attended(c)
  BY <1>2, <1>3 DEF Attended, ClientSame, Apart, commandVars, parentVars,
                    ClientEnds, RDWriters, WRReaders
<1>5. Connected(c)'
  BY <1>1, <1>2, <1>3, <1>4, StaysConnected DEF Connected
<1>6. /\ request' = request /\ reply' = reply /\ todo' = todo
      /\ client'[c] = client[c] /\ command'[c] = command[c]
      /\ response'[c] = response[c] /\ left'[c] = left[c]
      /\ session'[c] \in {"read", "opening"}
      /\ client[c] \notin {"prompt", "open"} => session'[c] = "read"
  BY <1>2 DEF commandVars, handlerVars, Connected, Has, RDWriters
<1>7. /\ SessionDone(c)' <=> SessionDone(c)
      /\ Keeping(c)' <=> Keeping(c)
      /\ Unwritten(c)' = Unwritten(c)
  BY <1>1, <1>3, <1>6 DEF SessionDone, Keeping, Unwritten, Between
<1>8. /\ client[c] = "prompt" /\ Uploading(c, 0) => Uploading(c, 0)'
      /\ client[c] = "send" /\ Uploading(c, left[c]) => Uploading(c, left[c])'
  BY <1>1, <1>3, <1>6 DEF Uploading, Between
<1>9. client[c] = "answered" =>
        Follows(c, response[c], response[c].size, Len(toClient[c]))'
  BY <1>1, <1>3, <1>6, <1>7
  DEF Talking, Follows, Delivering, Accepting, Archiving, Uploading, Between
<1>10. client[c] = "packets" =>
        Follows(c, response[c], left[c], Len(toClient[c]))'
  BY <1>1, <1>3, <1>6, <1>7
  DEF Talking, Follows, Delivering, Accepting, Archiving, Uploading, Between
<1>11. /\ Served(c) /\ client[c] \notin {"prompt", "open"} => Served(c)'
       /\ ~Asked(c)
  BY <1>1, <1>3, <1>6 DEF Served, Asked
<1>12. Responded(c) /\ client[c] \notin {"prompt", "open"} => Responded(c)'
  BY <1>1, <1>3, <1>6, <1>7
  DEF Responded, Follows, Delivering, Accepting, Archiving, Uploading, Between
<1> QED BY <1>1, <1>3, <1>5, <1>6, <1>7, <1>8, <1>9, <1>10, <1>11, <1>12
        DEF Talking

LEMMA ReadsCommand ==
  ASSUME Types, NEW c \in Clients, ReadRequest(c), Connected(c),
         client[c] \in {"openResponse", "openingResponse", "header"},
         toServer[c] = <<command[c]>>, toClient[c] = <<>>,
         command[c].kind # "QUIT"
  PROVE  Talking(c)' /\ Connected(c)'
<1>1. session[c] = "read" /\ Has(c, RDWriters)
  BY DEF ReadRequest, OnlySession, Connected
<1>2. toServer[c] # <<>>
  BY <1>1 DEF ReadRequest
<1>3. /\ client[c] \in {"openResponse", "openingResponse", "header"}
      /\ toServer[c] = <<command[c]>> /\ toClient[c] = <<>>
  OBVIOUS
<1>4. command[c].kind \in (FileKinds \cup {"HELP", "KILLSERVER"})
  BY <1>3 DEF Connected, Kinds
<1>5. Head(toServer[c]) = command[c] /\ Tail(toServer[c]) = <<>>
  BY <1>3
<1>6. /\ request'[c] = command[c] /\ toServer'[c] = <<>>
      /\ ends' = ends /\ toClient' = toClient
      /\ UNCHANGED <<waiters, handlerVars, clientVars, gone, parentVars>>
      /\ SessionGoes(c, Dispatch(request'[c].kind))
  <2>1. PICK m : m = command[c]
    OBVIOUS
  <2>2. m.kind \notin {"bytes", "rest"}
    BY <1>4, <2>1 DEF FileKinds
  <2>3. /\ request' = [request EXCEPT ![c] = m]
        /\ toServer' = [toServer EXCEPT ![c] = <<>>]
    BY <1>2, <1>5, <2>1, <2>2 DEF ReadRequest
  <2> QED BY <2>1, <2>3
          DEF ReadRequest, OnlySession, Types, SessionTypes, FifoTypes
<1>7. /\ session'[c] \in {"wait", "handle", "bye"}
      /\ session'[c] = "wait" => command[c].kind \in FileKinds
      /\ session'[c] = "handle" => command[c].kind = "HELP"
      /\ session'[c] = "bye" => command[c].kind = "KILLSERVER"
  BY <1>4, <1>6 DEF SessionGoes, Dispatch, FileKinds, Types, SessionTypes
<1>8. Attended(c)
  BY <1>6 DEF Attended, ClientSame, Apart, clientVars, commandVars, parentVars
<1>9. Connected(c)'
  BY <1>1, <1>3, <1>6, <1>7, <1>8, StaysConnected DEF Connected
<1>10. Served(c)'
  BY <1>3, <1>6, <1>7, <1>8 DEF Served, Attended, ClientSame
<1> QED BY <1>3, <1>6, <1>8, <1>9, <1>10 DEF Talking, Attended, ClientSame

LEMMA ReadRequestTalks ==
  ASSUME Types, NEW c \in Clients, ReadRequest(c), Talking(c), Connected(c),
         command[c].kind # "QUIT"
  PROVE  Talking(c)' /\ Connected(c)'
<1>1. session[c] = "read" /\ Has(c, RDWriters)
  BY DEF ReadRequest, OnlySession, Connected
<1>2. toServer[c] # <<>>
  BY <1>1 DEF ReadRequest
<1>3. /\ client[c] \in {"openResponse", "openingResponse", "header"}
      /\ toServer[c] = <<command[c]>> /\ toClient[c] = <<>>
  BY <1>1, <1>2
  DEF Talking, SessionDone, Uploading, Keeping, Follows, Delivering, Accepting,
      Archiving, Served, Asked, Responded, OneWay, Onward, Between
<1> QED BY <1>3, ReadsCommand

LEMMA SemWaitTalks ==
  ASSUME Types, NEW c \in Clients, SemWait(c), Talking(c), Connected(c)
  PROVE  Talking(c)' /\ Connected(c)'
<1>1. session[c] = "wait"
  BY DEF SemWait, OnlySession
<1>2. /\ client[c] \in {"openResponse", "openingResponse", "header"}
      /\ toServer[c] = <<>> /\ toClient[c] = <<>>
      /\ request[c] = command[c] /\ command[c].kind \in FileKinds
  BY <1>1
  DEF Talking, SessionDone, Uploading, Keeping, Follows, Delivering, Accepting,
      Archiving, Served, Asked, Responded, OneWay, Onward, Between
<1>3. /\ session'[c] = "handle"
      /\ UNCHANGED <<ends, toServer, toClient, request, waiters, handlerVars,
                     clientVars, gone, parentVars>>
  BY DEF SemWait, OnlySession, SessionGoes, Types, SessionTypes
<1>4. Attended(c)
  BY <1>3 DEF Attended, ClientSame, Apart, clientVars, commandVars, parentVars
<1>5. Connected(c)'
  BY <1>1, <1>2, <1>3, <1>4, StaysConnected DEF Connected
<1>6. Served(c)'
  BY <1>2, <1>3, <1>4 DEF Served, Attended, ClientSame
<1> QED BY <1>2, <1>3, <1>4, <1>5, <1>6 DEF Talking, Attended, ClientSame

(* The end of the conversation: KILLSERVER.                                *)
LEMMA ByeTalks ==
  ASSUME Types, NEW c \in Clients, Quit(c) \/ KillServer(c), Talking(c),
         Connected(c)
  PROVE  ~Conversing(c)'
<1>1. session[c] = "bye" /\ Ends(c, "quit")
  BY DEF Quit, KillServer, Bye
<1>2. command[c].kind = "KILLSERVER"
  BY <1>1
  DEF Talking, SessionDone, Uploading, Keeping, Follows, Delivering, Accepting,
      Archiving, Served, Asked, Responded, OneWay, Onward, Between
<1>3. waiters[c] = <<>>
  BY <1>2 DEF Connected
<1>4. session'[c] = "quit"
  BY <1>1, <1>3 DEF Ends, SessionGoes, Types, SessionTypes
<1> QED BY <1>4 DEF Conversing, Over

-----------------------------------------------------------------------------
(* The handlers.                                                           *)
LEMMA HandlingServes ==
  ASSUME Types, NEW c \in Clients, Talking(c), session[c] = "handle"
  PROVE  /\ client[c] \in {"openResponse", "openingResponse", "header"}
         /\ toServer[c] = <<>> /\ toClient[c] = <<>>
         /\ request[c] = command[c]
         /\ command[c].kind \in FileKinds \cup {"HELP"}
BY DEF Talking, SessionDone, Uploading, Keeping, Follows, Delivering, Accepting,
       Archiving, Served, Asked, Responded, OneWay, Onward, Between

LEMMA RespondTalks ==
  ASSUME Types, NEW c \in Clients, NEW kind, NEW size, Talking(c), Connected(c),
         Respond(c, kind, size), session[c] = "handle", UNCHANGED parentVars,
         Fits(command[c].kind, Reply(kind, size))
  PROVE  Talking(c)' /\ Connected(c)'
<1>1. /\ client[c] \in {"openResponse", "openingResponse", "header"}
      /\ toServer[c] = <<>> /\ toClient[c] = <<>>
      /\ request[c] = command[c]
  BY HandlingServes
<1>2. /\ session'[c] = IF Has(c, WRReaders) THEN "write" ELSE "openingResponse"
      /\ client'[c] = IF client[c] # "openingResponse" THEN client[c]
                      ELSE "header"
      /\ reply'[c] = Reply(kind, size)
      /\ UNCHANGED <<commandVars, gone, request, waiters, todo>>
      /\ Descriptors(c, ends[c] \cup {"sWR"})
  BY DEF Respond, SessionGoes, Types, SessionTypes, ClientTypes
<1>3. ends'[c] = ends[c] \cup {"sWR"} /\ toServer'[c] = <<>> /\ toClient'[c] = <<>>
  BY <1>1, <1>2, NothingLost DEF Types
<1>4. client'[c] \in {"openResponse", "header"}
  BY <1>1, <1>2
<1>5. UNCHANGED <<command, past, clientTerm>>
  BY <1>2 DEF commandVars, parentVars
<1>6. Served(c)'
  <2>1. session'[c] \in {"openingResponse", "write"}
    BY <1>2
  <2>2. Fits(command'[c].kind, reply'[c])
    BY <1>2, <1>5
  <2> QED BY <1>1, <1>2, <1>3, <1>5, <2>1, <2>2 DEF Served
<1>7. Connected(c)'
  <2>1. /\ session'[c] \in {"openingResponse", "write"}
        /\ session'[c] = "write" => Has(c, WRReaders)
        /\ client[c] # "header" /\ client'[c] = "header"
             => client[c] = "openingResponse"
    BY <1>1, <1>2
  <2>2. "sWR" \in ends'[c] /\ \A e \in ends[c] : e \in ends'[c]
    BY <1>3
  <2>3. Has(c, WRReaders) => Has(c, WRReaders)'
    BY <1>3 DEF Has
  <2>4. Has(c, WRWriters)'
    BY <2>2 DEF Has, WRWriters
  <2>5. client[c] = "openingResponse" => "cWR" \in ends[c]
    BY DEF Connected
  <2>6. command[c].kind \in Kinds /\ "cRD" \in ends[c] /\ "sRD" \in ends[c]
    BY <1>1 DEF Connected
  <2>7. /\ c \notin gone' /\ c \notin clientTerm'
        /\ client'[c] \notin {"prompt", "open"}
        /\ command'[c] = command[c] /\ past'[c] = past[c]
        /\ waiters'[c] = waiters[c]
    BY <1>2, <1>4, <1>5 DEF Connected
  <2>8. client'[c] = "header" => "cWR" \in ends'[c]
    BY <1>1, <1>2, <2>1, <2>2, <2>5 DEF Connected
  <2>9. past'[c] # <<>> => "cRD old" \in ends'[c]
    BY <2>2, <2>7 DEF Connected
  <2>10. waiters'[c] # <<>> => command'[c].kind = "ARCHSERVER"
    BY <2>7 DEF Connected
  <2> QED BY <1>3, <1>4, <2>1, <2>2, <2>3, <2>4, <2>6, <2>7, <2>8, <2>9, <2>10
          DEF Connected
<1> QED BY <1>4, <1>6, <1>7 DEF Talking

LEMMA GiveUpTalks ==
  ASSUME Types, NEW c \in Clients, Talking(c), Connected(c),
         \/ GiveUp(c)
         \/ ChildGoesOn(c) /\ request[c].kind = "ARCHSERVER"
         \/ /\ SessionGoes(c, "searching")
            /\ UNCHANGED <<clientVars, fifoVars, request, waiters, handlerVars>>,
         session[c] = "handle", UNCHANGED parentVars
  PROVE  Talking(c)' /\ Connected(c)'
<1>1. /\ client[c] \in {"openResponse", "openingResponse", "header"}
      /\ toServer[c] = <<>> /\ toClient[c] = <<>>
      /\ request[c] = command[c]
  BY HandlingServes
<1>2. /\ session'[c] \in {"post", "searching"}
      /\ UNCHANGED <<clientVars, gone, request>>
      /\ waiters'[c] # waiters[c] => request[c].kind = "ARCHSERVER"
  BY DEF GiveUp, ChildGoesOn, SessionGoes, Types, SessionTypes, fifoVars
<1>3. /\ ends'[c] \cap ClientEnds = ends[c] \cap ClientEnds
      /\ ends[c] \cap WRWriters = ends'[c] \cap WRWriters
      /\ toServer'[c] = <<>> /\ toClient'[c] = <<>>
      /\ session'[c] = "searching" => "sRD" \in ends'[c]
  <2>1. CASE UNCHANGED fifoVars
    BY <1>1, <2>1 DEF fifoVars, Connected
  <2>2. CASE ~UNCHANGED fifoVars
    <3>1. Descriptors(c, Forgotten(c, {"sRD"})) /\ session'[c] = "post"
      BY <2>2 DEF GiveUp, ChildGoesOn, SessionGoes, Types, SessionTypes
    <3>2. /\ ends'[c] = Forgotten(c, {"sRD"})
          /\ toServer'[c] = <<>> /\ toClient'[c] = <<>>
      BY <1>1, <3>1, NothingLost DEF Types
    <3> QED BY <3>1, <3>2
            DEF Forgotten, Old, ClientEnds, RDWriters, WRReaders, WRWriters
  <2> QED BY <2>1, <2>2
<1>4. UNCHANGED <<client, command, past, clientTerm>>
  BY <1>2 DEF clientVars, commandVars, parentVars
<1>5. Served(c)'
  BY <1>1, <1>2, <1>3, <1>4 DEF Served
<1>6. /\ Has(c, WRWriters)' <=> Has(c, WRWriters)
      /\ \A e \in {"cRD", "cRD old", "cWR"} : e \in ends'[c] <=> e \in ends[c]
  BY <1>3 DEF Has, ClientEnds, RDWriters, WRReaders
<1>7. Connected(c)'
  BY <1>1, <1>2, <1>3, <1>4, <1>6 DEF Connected
<1> QED BY <1>1, <1>4, <1>5, <1>7 DEF Talking

LEMMA HandlersTalk ==
  ASSUME Types, NEW c \in Clients, Talking(c), Connected(c),
         \/ HandleHelp(c) \/ HandleList(c) \/ HandleReadFrom(c)
         \/ HandleWriteTo(c) \/ HandleDownload(c) \/ HandleUpload(c)
         \/ HandleArchServer(c)
  PROVE  Talking(c)' /\ Connected(c)'
<1>1. session[c] = "handle" /\ UNCHANGED parentVars /\ c \notin gone
  BY DEF HandleHelp, HandleList, HandleReadFrom, HandleWriteTo, HandleDownload,
         HandleUpload, HandleArchServer, Handling, Connected
<1>2. request[c] = command[c] /\ command[c].kind \in FileKinds \cup {"HELP"}
  BY <1>1, HandlingServes
<1> DEFINE responds == \E kind, size : Respond(c, kind, size)
                         /\ Fits(command[c].kind, Reply(kind, size))
           givesUp ==
             \/ GiveUp(c)
             \/ ChildGoesOn(c) /\ request[c].kind = "ARCHSERVER"
             \/ /\ SessionGoes(c, "searching")
                /\ UNCHANGED <<clientVars, fifoVars, request, waiters,
                               handlerVars>>
<1>3. \A kind, size : Reply(kind, size).kind = kind
                        /\ Reply(kind, size).size = size
  BY DEF Reply
<1>4. responds \/ givesUp
  <2>1. CASE HandleHelp(c) \/ HandleList(c)
    BY <1>1, <1>2, <1>3, <2>1 DEF HandleHelp, HandleList, Handling, Fits
  <2>2. CASE HandleReadFrom(c) \/ HandleDownload(c)
    BY <1>1, <1>2, <1>3, <2>2 DEF HandleReadFrom, HandleDownload, Handling, Fits
  <2>3. CASE HandleWriteTo(c)
    BY <1>1, <1>2, <1>3, <2>3 DEF HandleWriteTo, Handling, Fits
  <2>4. CASE HandleUpload(c)
    BY <1>1, <1>2, <1>3, <2>4 DEF HandleUpload, Handling, Fits, FileKinds
  <2>5. CASE HandleArchServer(c)
    BY <1>1, <1>2, <1>3, <2>5 DEF HandleArchServer, Handling, Fits
  <2> QED BY <2>1, <2>2, <2>3, <2>4, <2>5
<1>5. CASE responds
  BY <1>1, <1>5, RespondTalks
<1>6. CASE givesUp
  BY <1>1, <1>6, GiveUpTalks
<1> HIDE DEF responds, givesUp
<1> QED BY <1>4, <1>5, <1>6

LEMMA RespondAgainTalks ==
  ASSUME Types, NEW c \in Clients, RespondAgain(c), Talking(c), Connected(c)
  PROVE  Talking(c)' /\ Connected(c)'
<1>1. session[c] = "second" /\ UNCHANGED parentVars /\ Respond(c, "DONE", 0)
  BY DEF RespondAgain, Connected
<1>2. /\ client[c] \in {"openResponse", "openingResponse", "header", "answered",
                        "packets"}
      /\ command[c].kind = "ARCHSERVER" /\ Archiving(c)
      /\ request[c] = command[c]
      /\ client[c] \in {"openResponse", "openingResponse", "header"} =>
           Responded(c)
  BY <1>1
  DEF Talking, SessionDone, Uploading, Keeping, Follows, Delivering, Accepting,
      Served, Asked, Responded, OneWay, Onward, Between
<1>3. Has(c, WRReaders)
  <2>1. "cWR" \in ends[c] \/ toClient[c] # <<>>
    BY <1>2 DEF Responded, Connected
  <2> QED BY <2>1 DEF Connected, Has, WRReaders
<1>4. /\ session'[c] = "write"
      /\ client'[c] = IF client[c] # "openingResponse" THEN client[c]
                      ELSE "header"
      /\ reply'[c] = Reply("DONE", 0)
      /\ UNCHANGED <<commandVars, gone, request, waiters, todo>>
      /\ Descriptors(c, ends[c] \cup {"sWR"})
  BY <1>1, <1>3 DEF Respond, SessionGoes, Types, SessionTypes, ClientTypes
<1>5. /\ ends'[c] = ends[c] \cup {"sWR"} /\ toServer'[c] = toServer[c]
      /\ toClient'[c] = toClient[c]
  <2>1. toServer[c] = <<>>
    BY <1>2 DEF Archiving
  <2> QED BY <1>4, <2>1, NothingLost DEF Types, WRWriters
<1>6. UNCHANGED <<command, past, response, left, clientTerm>>
  BY <1>1, <1>4 DEF commandVars, parentVars
<1>7. Archiving(c)'
  BY <1>2, <1>4, <1>5, <1>6 DEF Archiving, Reply
<1>8. Responded(c) => Responded(c)'
  BY <1>2, <1>4, <1>5, <1>6, <1>7 DEF Responded, Follows, OneWay
<1>9. client[c] = "answered" =>
        Follows(c, response[c], response[c].size, Len(toClient[c]))'
  BY <1>2, <1>4, <1>5, <1>6, <1>7 DEF Talking, Follows, OneWay
<1>10. client[c] = "packets" =>
        Follows(c, response[c], left[c], Len(toClient[c]))'
  BY <1>2, <1>4, <1>5, <1>6, <1>7 DEF Talking, Follows, OneWay
<1>11. /\ client'[c] \in {"openResponse", "header", "answered", "packets"}
       /\ client'[c] \in {"openResponse", "header"} =>
            client[c] \in {"openResponse", "openingResponse", "header"}
       /\ client'[c] \in {"answered", "packets"} => client'[c] = client[c]
  BY <1>2, <1>4
<1>12. client'[c] = "header" => client[c] \in {"openingResponse", "header"}
  BY <1>2, <1>4
<1>13. Talking(c)'
  BY <1>2, <1>5, <1>6, <1>8, <1>9, <1>10, <1>11 DEF Talking
<1>14. Connected(c)'
  <2>1. Has(c, WRReaders)' /\ Has(c, WRWriters)'
    BY <1>3, <1>5 DEF Has, WRWriters
  <2>2. \A e \in ends[c] : e \in ends'[c]
    BY <1>5
  <2>3. /\ "sRD" \in ends[c] /\ "cRD" \in ends[c] /\ "sWR" \in ends'[c]
        /\ client[c] = "openingResponse" => "cWR" \in ends[c]
        /\ client[c] \in {"header", "answered", "packets"} => "cWR" \in ends[c]
        /\ command[c].kind \in Kinds
    BY <1>1, <1>2, <1>5 DEF Connected
  <2>4. client'[c] \in {"header", "answered", "packets"} => "cWR" \in ends'[c]
    BY <1>11, <1>12, <2>2, <2>3
  <2>5. past'[c] # <<>> => "cRD old" \in ends'[c]
    BY <1>6, <2>2 DEF Connected
  <2> QED BY <1>4, <1>6, <1>11, <1>2, <2>1, <2>2, <2>3, <2>4, <2>5 DEF Connected
<1> QED BY <1>13, <1>14

LEMMA BrokenNever ==
  ASSUME NEW c \in Clients, Broken(c), Connected(c)
  PROVE  FALSE
BY DEF Broken, Connected

LEMMA NumberedAppend ==
  ASSUME NEW S, NEW s \in Seq(S), NEW m \in S, NEW n
  PROVE  /\ Numbered(s, n) /\ m.n = n => Numbered(Append(s, m), n)
         /\ Len(Append(s, m)) = Len(s) + 1 /\ Append(s, m) # <<>>
         /\ s = <<>> => Head(Append(s, m)) = m
         /\ s # <<>> => Head(Append(s, m)) = Head(s)
         /\ Len(s) \in Nat /\ (s = <<>> <=> Len(s) = 0)
<1>1. /\ Append(s, m) \in Seq(S) /\ Len(Append(s, m)) = Len(s) + 1
      /\ \A i \in 1..Len(s) : Append(s, m)[i] = s[i]
      /\ Append(s, m)[Len(s) + 1] = m
      /\ Len(s) \in Nat /\ (s = <<>> <=> Len(s) = 0)
  BY AppendProperties, LenProperties, EmptySeq
<1>2. ASSUME Numbered(s, n), m.n = n PROVE Numbered(Append(s, m), n)
  BY <1>1, <1>2 DEF Numbered
<1>3. Append(s, m) # <<>> /\ Head(Append(s, m)) = Append(s, m)[1]
  BY <1>1
<1>4. s = <<>> => Head(Append(s, m)) = m
  BY <1>1, <1>3
<1>5. s # <<>> => Head(Append(s, m)) = Head(s)
  BY <1>1, <1>3
<1> QED BY <1>1, <1>2, <1>3, <1>4, <1>5

(* The Request of the response.                                            *)
LEMMA WriteHeaderTalks ==
  ASSUME Types, NEW c \in Clients, WriteHeader(c), Talking(c), Connected(c)
  PROVE  Talking(c)' /\ Connected(c)'
<1>1. session[c] = "write" /\ Has(c, WRReaders)
  BY DEF WriteHeader, OnlySession
<1> DEFINE early == {"openResponse", "openingResponse", "header"}
<1>2. /\ \/ client[c] \in early /\ Served(c)
         \/ /\ command[c].kind = "ARCHSERVER" /\ Archiving(c)
            /\ client[c] \in early => Responded(c)
      /\ client[c] \in early \cup {"answered", "packets"}
      /\ toServer[c] = <<>> /\ request[c] = command[c]
  BY <1>1
  DEF Talking, SessionDone, Uploading, Keeping, Follows, Delivering, Accepting,
      Served, Asked, Responded, Archiving, OneWay, Onward, Between
<1>3. PICK m : m = [kind |-> reply[c].kind, n |-> request[c].n,
                    size |-> reply[c].size]
  OBVIOUS
<1>4. /\ m.kind = reply[c].kind /\ m.n = command[c].n /\ m.size = reply[c].size
      /\ m \in Response /\ toClient[c] \in Seq(Response)
  <2>1. reply[c] \in [kind : ReplyKinds, size : 0..Packets]
    BY DEF Types, SessionTypes
  <2>2. request[c] \in Request /\ toClient[c] \in Seq(Response)
    BY DEF Types, SessionTypes, FifoTypes
  <2> QED BY <1>2, <1>3, <2>1, <2>2 DEF Response, Request
<1>5. /\ toClient'[c] = Append(toClient[c], m)
      /\ UNCHANGED <<ends, toServer, gone, request, waiters, reply, clientVars,
                     parentVars>>
      /\ todo'[c] = reply[c].size
  BY <1>3 DEF WriteHeader, OnlySession, ToClient, Types, FifoTypes, SessionTypes
<1>6. /\ session'[c] \in {"answer", "packets", "close"}
      /\ reply[c].kind = "ASK" /\ reply[c].size = 0 => session'[c] = "answer"
      /\ reply[c].kind # "ASK" =>
           session'[c] = IF reply[c].size > 0 THEN "packets" ELSE "close"
      /\ session'[c] = "packets" => reply[c].size > 0
      /\ todo[c] \in Nat /\ reply[c].size \in Nat
  <2>1. PICK pc : pc = CASE reply[c].kind = "ASK" -> "answer"
                         [] reply[c].size > 0 -> "packets"
                         [] OTHER -> "close"
    OBVIOUS
  <2>2. session'[c] = pc
    BY <2>1 DEF WriteHeader, SessionGoes, Types, SessionTypes
  <2>3. reply[c] \in [kind : ReplyKinds, size : 0..Packets]
        /\ todo[c] \in 0..Packets
    BY DEF Types, SessionTypes
  <2>4. reply[c].size \in Nat /\ todo[c] \in Nat
    BY <2>3, BoundsAssumption
  <2> QED BY <2>1, <2>2, <2>4
<1>7. /\ Numbered(toClient[c], command[c].n) =>
           Numbered(toClient'[c], command[c].n)
      /\ toClient'[c] # <<>> /\ Len(toClient'[c]) = Len(toClient[c]) + 1
      /\ toClient[c] = <<>> => Head(toClient'[c]) = m
      /\ toClient[c] # <<>> => Head(toClient'[c]) = Head(toClient[c])
      /\ Len(toClient[c]) \in Nat /\ (toClient[c] = <<>> <=> Len(toClient[c]) = 0)
  BY <1>4, <1>5, NumberedAppend
<1>8. Attended(c)
  BY <1>5 DEF Attended, ClientSame, Apart, clientVars, commandVars, parentVars
<1>9. Connected(c)'
  BY <1>1, <1>5, <1>6, <1>7, <1>8, StaysConnected DEF Connected
<1>10. UNCHANGED <<client, command, response, left>>
  BY <1>5 DEF clientVars, commandVars
<1>11. Archiving(c) => Archiving(c)'
  BY <1>1, <1>2, <1>5, <1>6, <1>7, <1>10 DEF Archiving
<1>12. CASE client[c] \in early /\ Served(c)
  <2>1. toClient[c] = <<>> /\ Fits(command[c].kind, reply[c])
    BY <1>1, <1>12 DEF Served
  <2>2. Head(toClient'[c]) = m /\ Len(toClient'[c]) - 1 = 0
    BY <1>7, <2>1
  <2>3. Fits(command'[c].kind, m)
    BY <1>4, <1>10, <2>1 DEF Fits
  <2>4. command[c].kind \in OneWay \cup Onward
    BY <2>1 DEF Fits, OneWay, Onward
  <2>5. command[c].kind \in OneWay => Delivering(c, m.size, 0)'
    <3> SUFFICES ASSUME command[c].kind \in OneWay
                 PROVE  Delivering(c, m.size, 0)'
      OBVIOUS
    <3>1. reply[c].kind \notin Onward /\ reply[c].kind # "ASK"
      BY <2>1 DEF Fits, OneWay, Onward
    <3>2. session'[c] = IF reply[c].size > 0 THEN "packets" ELSE "close"
      BY <1>6, <3>1
    <3>3. Unwritten(c)' = reply[c].size
      BY <1>5, <1>6, <3>2 DEF Unwritten
    <3>4. toServer'[c] = <<>> /\ reply'[c].kind \notin Onward
      BY <1>2, <1>5, <3>1
    <3> QED BY <1>4, <1>6, <3>2, <3>3, <3>4 DEF Delivering, SessionDone
  <2>6. command[c].kind = "UPLOAD" => Accepting(c, m)'
    <3> SUFFICES ASSUME command[c].kind = "UPLOAD" PROVE Accepting(c, m)'
      OBVIOUS
    <3>1. reply[c].size = 0 /\ reply[c].kind \in {"UPLOAD", "ASK"}
      BY <2>1 DEF Fits
    <3>2. CASE reply[c].kind = "ASK"
      BY <1>2, <1>4, <1>5, <1>6, <3>1, <3>2 DEF Accepting
    <3>3. CASE reply[c].kind = "UPLOAD"
      <4>1. session'[c] = "close" /\ reply'[c].kind = "UPLOAD"
        BY <1>5, <1>6, <3>1, <3>3
      <4>2. Sent(toServer'[c], command'[c].n, Packets, Packets)
        <5>1. toServer'[c] = <<>>
          BY <1>2, <1>5
        <5> QED BY <5>1, BoundsAssumption DEF Sent, Bytes
      <4> QED BY <1>2, <1>4, <1>5, <1>10, <3>3, <4>1, <4>2
              DEF Accepting, Uploading
    <3> QED BY <3>1, <3>2, <3>3
  <2>7. command[c].kind = "ARCHSERVER" => Archiving(c)'
    <3> SUFFICES ASSUME command[c].kind = "ARCHSERVER" PROVE Archiving(c)'
      OBVIOUS
    <3>1. reply[c].kind \in {"ARCHSERVER", "DONE"}
      BY <2>1 DEF Fits
    <3>2. Numbered(toClient[c], command[c].n)
      BY <2>1 DEF Numbered
    <3> QED BY <1>2, <1>5, <1>6, <1>7, <1>10, <3>1, <3>2 DEF Archiving
  <2>8. Follows(c, m, m.size, 0)'
    BY <1>2, <1>4, <1>5, <1>10, <2>4, <2>5, <2>6, <2>7 DEF Follows
  <2>9. Responded(c)'
    <3>1. PICK i : i = Len(toClient'[c]) - 1
      OBVIOUS
    <3> QED BY <1>7, <2>2, <2>3, <2>8
            DEF Responded, Follows, Delivering, Accepting
  <2> QED BY <1>9, <1>10, <1>12, <2>9 DEF Talking
<1>13. CASE command[c].kind = "ARCHSERVER" /\ Archiving(c)
            /\ (client[c] \in early => Responded(c))
  <2>1. Responded(c) => Responded(c)'
    BY <1>5, <1>7, <1>10, <1>11, <1>13 DEF Responded, Follows, OneWay
  <2>2. client[c] = "answered" =>
          Follows(c, response[c], response[c].size, Len(toClient[c]))'
    BY <1>5, <1>10, <1>11, <1>13 DEF Talking, Follows, OneWay
  <2>3. client[c] = "packets" =>
          Follows(c, response[c], left[c], Len(toClient[c]))'
    BY <1>5, <1>10, <1>11, <1>13 DEF Talking, Follows, OneWay
  <2> QED BY <1>2, <1>9, <1>10, <1>13, <2>1, <2>2, <2>3 DEF Talking
<1> QED BY <1>2, <1>12, <1>13

(* A packet.                                                               *)
LEMMA WritePacketTalks ==
  ASSUME Types, NEW c \in Clients, WritePacket(c), Talking(c), Connected(c)
  PROVE  Talking(c)' /\ Connected(c)'
<1>1. session[c] = "packets" /\ Has(c, WRReaders) /\ todo[c] \in Nat \ {0}
  <2>1. session[c] = "packets" /\ Has(c, WRReaders)
    BY DEF WritePacket, OnlySession
  <2>2. todo[c] \in 0..Packets /\ todo[c] > 0
    BY <2>1 DEF Types, SessionTypes
  <2> QED BY <2>1, <2>2, BoundsAssumption
<1> DEFINE early == {"openResponse", "openingResponse", "header"}
<1>2. /\ client[c] \in early \cup {"answered", "packets"}
      /\ client[c] \in early => Responded(c)
      /\ toServer[c] = <<>> /\ request[c] = command[c]
      /\ command[c].kind \in OneWay \cup {"ARCHSERVER"}
  BY <1>1
  DEF Talking, SessionDone, Uploading, Keeping, Follows, Delivering, Accepting,
      Served, Asked, Responded, Archiving, OneWay, Onward, Between
<1>3. PICK m : m = [kind |-> "packet", n |-> request[c].n, size |-> 0]
  OBVIOUS
<1>4. m.n = command[c].n /\ m \in Response /\ toClient[c] \in Seq(Response)
  <2>1. request[c] \in Request /\ toClient[c] \in Seq(Response)
    BY DEF Types, SessionTypes, FifoTypes
  <2> QED BY <1>2, <1>3, <2>1, BoundsAssumption
          DEF Response, Request, ReplyKinds
<1>5. /\ toClient'[c] = Append(toClient[c], m)
      /\ UNCHANGED <<ends, toServer, gone, request, waiters, reply, clientVars,
                     parentVars>>
      /\ todo'[c] = todo[c] - 1
      /\ session'[c] = IF todo[c] = 1 THEN "close" ELSE "packets"
  BY <1>3 DEF WritePacket, OnlySession, SessionGoes, ToClient, Types, FifoTypes,
              SessionTypes
<1>6. /\ Numbered(toClient[c], command[c].n) =>
           Numbered(toClient'[c], command[c].n)
      /\ toClient'[c] # <<>> /\ Len(toClient'[c]) = Len(toClient[c]) + 1
      /\ toClient[c] # <<>> => Head(toClient'[c]) = Head(toClient[c])
      /\ Len(toClient[c]) \in Nat
  BY <1>4, <1>5, NumberedAppend
<1>7. Attended(c)
  BY <1>5 DEF Attended, ClientSame, Apart, clientVars, commandVars, parentVars
<1>8. Connected(c)'
  BY <1>1, <1>5, <1>6, <1>7, StaysConnected DEF Connected
<1>9. UNCHANGED <<client, command, response, left>>
  BY <1>5 DEF clientVars, commandVars
<1>10. Archiving(c) => Archiving(c)'
  BY <1>1, <1>5, <1>6, <1>9 DEF Archiving
<1>11. Unwritten(c) = todo[c] /\ Unwritten(c)' = todo[c] - 1
  BY <1>1, <1>5 DEF Unwritten
<1>12. ASSUME NEW size, NEW items \in Int, Delivering(c, size, items)
       PROVE  Delivering(c, size, items + 1)'
  <2>1. items + 1 + Unwritten(c)' <= size
    BY <1>1, <1>11, <1>12 DEF Delivering
  <2>2. reply[c].kind \notin Onward
    BY <1>1, <1>12 DEF Delivering, SessionDone, Between
  <2>3. reply'[c].kind \notin Onward
    BY <1>5, <2>2
  <2> QED BY <1>2, <1>5, <2>1, <2>3 DEF Delivering, SessionDone
<1>13. PICK k : k = Len(toClient[c])
  OBVIOUS
<1>14. k \in Nat /\ Len(toClient'[c]) = k + 1
  BY <1>6, <1>13
<1>15. Responded(c) => Responded(c)'
  <2> SUFFICES ASSUME Responded(c) PROVE Responded(c)'
    OBVIOUS
  <2>1. PICK r : r = Head(toClient[c])
    OBVIOUS
  <2>2. /\ toClient[c] # <<>> /\ Fits(command[c].kind, r)
        /\ Follows(c, r, r.size, k - 1)
    BY <1>13, <2>1 DEF Responded
  <2>3. Head(toClient'[c]) = r /\ r.n = command[c].n
    BY <1>6, <2>1, <2>2 DEF Follows
  <2>4. command[c].kind \in OneWay => Delivering(c, r.size, k - 1 + 1)'
    BY <1>12, <1>14, <2>2 DEF Follows
  <2>5. k - 1 + 1 = Len(toClient'[c]) - 1
    BY <1>14
  <2>6. command[c].kind = "ARCHSERVER" => Archiving(c)'
    BY <1>10, <2>2 DEF Follows
  <2>7. command[c].kind # "UPLOAD"
    BY <1>2 DEF OneWay
  <2>8. command[c].kind \in OneWay =>
          Delivering(c, Head(toClient[c]).size, Len(toClient[c]) - 1)'
    BY <2>3, <2>4, <2>5 DEF Delivering
  <2> QED BY <1>2, <1>5, <1>6, <1>9, <2>2, <2>3, <2>6, <2>7, <2>8
          DEF Responded, Follows, Onward
<1>16. client[c] = "answered" =>
         Follows(c, response[c], response[c].size, Len(toClient[c]))'
  <2> SUFFICES ASSUME client[c] = "answered"
               PROVE Follows(c, response[c], response[c].size,
                             Len(toClient[c]))'
    OBVIOUS
  <2>1. PICK r : r = response[c]
    OBVIOUS
  <2>2. Follows(c, r, r.size, k)
    BY <1>13, <2>1 DEF Talking
  <2>3. command[c].kind \in OneWay => Delivering(c, r.size, k + 1)'
    BY <1>12, <1>14, <2>2 DEF Follows
  <2>4. command[c].kind = "ARCHSERVER" => Archiving(c)'
    BY <1>10, <2>2 DEF Follows
  <2>5. command[c].kind # "UPLOAD"
    BY <1>2 DEF OneWay
  <2>6. command[c].kind \in OneWay =>
          Delivering(c, response[c].size, Len(toClient[c]))'
    BY <1>9, <1>14, <2>1, <2>3 DEF Delivering
  <2> QED BY <1>2, <1>5, <1>9, <2>1, <2>2, <2>4, <2>5, <2>6
          DEF Follows, Onward
<1>17. client[c] = "packets" =>
         Follows(c, response[c], left[c], Len(toClient[c]))'
  <2> SUFFICES ASSUME client[c] = "packets"
               PROVE Follows(c, response[c], left[c], Len(toClient[c]))'
    OBVIOUS
  <2>1. PICK r, size : r = response[c] /\ size = left[c]
    OBVIOUS
  <2>2. Follows(c, r, size, k)
    BY <1>13, <2>1 DEF Talking
  <2>3. command[c].kind \in OneWay => Delivering(c, size, k + 1)'
    BY <1>12, <1>14, <2>2 DEF Follows
  <2>4. command[c].kind = "ARCHSERVER" => Archiving(c)'
    BY <1>10, <2>2 DEF Follows
  <2>5. command[c].kind # "UPLOAD"
    BY <1>2 DEF OneWay
  <2>6. command[c].kind \in OneWay =>
          Delivering(c, left[c], Len(toClient[c]))'
    BY <1>9, <1>14, <2>1, <2>3 DEF Delivering
  <2> QED BY <1>2, <1>5, <1>9, <2>1, <2>2, <2>4, <2>5, <2>6
          DEF Follows, Onward
<1> QED BY <1>2, <1>8, <1>9, <1>15, <1>16, <1>17 DEF Talking

(* What a session at its last steps has before it.                         *)
LEMMA LastSteps ==
  ASSUME NEW c \in Clients, Talking(c),
         session[c] \in {"close", "answer", "truncate", "keep", "receive",
                         "post"}
  PROVE  /\ client[c] \notin {"open", "write"}
         /\ client[c] \in {"openResponse", "openingResponse", "header"} =>
              \/ Responded(c)
              \/ Served(c) /\ session[c] = "post"
BY DEF Talking, Asked, Served

LEMMA CloseTalks ==
  ASSUME Types, NEW c \in Clients, Close(c), Talking(c), Connected(c)
  PROVE  Talking(c)' /\ Connected(c)'
<1>1. session[c] = "close"
  BY DEF Close, OnlySession
<1> DEFINE early == {"openResponse", "openingResponse", "header"}
<1>2. /\ client[c] \in early => Responded(c)
      /\ client[c] \notin {"open", "write", "ask"}
  BY <1>1, LastSteps DEF Talking
<1>3. \/ toServer[c] = <<>>
      \/ reply[c].kind = "UPLOAD"
  BY <1>1, <1>2
  DEF Talking, SessionDone, Uploading, Keeping, Follows, Delivering, Accepting,
      Responded, Archiving, OneWay, Onward, Between
<1>4. /\ reply[c].kind = "UPLOAD" =>
           /\ session'[c] = "receive" /\ todo'[c] = Packets
           /\ Descriptors(c, ends[c] \ {"sWR"})
      /\ reply[c].kind = "ARCHSERVER" =>
           session'[c] = "second" /\ Descriptors(c, ends[c] \ {"sWR"})
      /\ reply[c].kind \notin Onward =>
           session'[c] = "post" /\ Descriptors(c, ends[c] \ {"sRD", "sWR"})
      /\ UNCHANGED <<request, waiters, reply, clientVars, gone, parentVars>>
  <2>1. CASE reply[c].kind = "UPLOAD"
    BY <2>1 DEF Close, OnlySession, SessionGoes, Types, SessionTypes, Onward
  <2>2. CASE reply[c].kind = "ARCHSERVER"
    BY <2>2 DEF Close, OnlySession, SessionGoes, Types, SessionTypes, Onward
  <2>3. CASE reply[c].kind \notin Onward
    BY <2>3 DEF Close, OnlySession, SessionGoes, Types, SessionTypes, Onward
  <2> QED BY <2>1, <2>2, <2>3 DEF Onward
<1>5. PICK new : /\ Descriptors(c, new)
                 /\ new = IF reply[c].kind \in Onward THEN ends[c] \ {"sWR"}
                          ELSE ends[c] \ {"sRD", "sWR"}
  BY <1>4 DEF Onward
<1>6. new \cap ClientEnds = ends[c] \cap ClientEnds
  BY <1>5 DEF ClientEnds, RDWriters, WRReaders
<1>7. /\ ends'[c] = new /\ toServer'[c] = toServer[c]
      /\ toClient'[c] = toClient[c]
  <2>1. toServer[c] = <<>> \/ new \cap (RDReaders \cup RDWriters) # {}
    <3>1. CASE reply[c].kind = "UPLOAD"
      <4>1. "sRD" \in new
        BY <1>1, <1>5, <3>1 DEF Connected, Onward
      <4> QED BY <4>1 DEF RDReaders
    <3> QED BY <1>3, <3>1
  <2>2. toClient[c] = <<>> \/ new \cap (WRReaders \cup WRWriters) # {}
    <3>1. toClient[c] # <<>> => ends[c] \cap WRReaders # {}
      BY DEF Connected, Has
    <3> QED BY <1>6, <3>1 DEF ClientEnds
  <2> QED BY <1>5, <2>1, <2>2, NothingLost DEF Types
<1>8. Attended(c)
  BY <1>4, <1>6, <1>7
  DEF Attended, ClientSame, Apart, clientVars, commandVars, parentVars
<1>9. Connected(c)'
  <2>1. session'[c] \in {"receive", "second", "post"}
    BY <1>4 DEF Onward
  <2>2. session'[c] # "post" => "sRD" \in new
    BY <1>1, <1>4, <1>5 DEF Connected, Onward
  <2>3. client[c] = "header" => toClient'[c] # <<>>
    BY <1>2, <1>7 DEF Responded
  <2>4. toClient'[c] # <<>> => Has(c, WRReaders)
    BY <1>7 DEF Connected
  <2> QED BY <1>7, <1>8, <2>1, <2>2, <2>3, <2>4, StaysConnected
<1>10. UNCHANGED <<client, command, response, left>>
  BY <1>4 DEF clientVars, commandVars
<1>11. /\ SessionDone(c) => SessionDone(c)'
       /\ Archiving(c) => Archiving(c)'
       /\ Unwritten(c)' = Unwritten(c)
       /\ ~Keeping(c)
       /\ ~(session[c] = "packets")
  <2>1. SessionDone(c) => SessionDone(c)'
    BY <1>1, <1>4, <1>7 DEF SessionDone, Between
  <2>2. Archiving(c) => Archiving(c)'
    BY <1>1, <1>4, <1>7, <1>10 DEF Archiving, Onward
  <2>3. Unwritten(c)' = Unwritten(c)
    BY <1>1, <1>4 DEF Unwritten, Onward
  <2> QED BY <1>1, <2>1, <2>2, <2>3 DEF Keeping, Between
<1>12. client[c] = "prompt" /\ Uploading(c, 0) => Uploading(c, 0)'
  BY <1>1, <1>4, <1>7, <1>10 DEF Uploading, Between
<1>13. client[c] = "send" => Uploading(c, left[c])'
  BY <1>1, <1>4, <1>7, <1>10 DEF Talking, Uploading, Between
<1>14. client[c] = "answered" =>
         Follows(c, response[c], response[c].size, Len(toClient[c]))'
  BY <1>1, <1>4, <1>7, <1>10, <1>11
  DEF Talking, Follows, Delivering, Accepting, Uploading, Between
<1>15. client[c] = "packets" =>
         Follows(c, response[c], left[c], Len(toClient[c]))'
  BY <1>1, <1>4, <1>7, <1>10, <1>11
  DEF Talking, Follows, Delivering, Accepting, Uploading, Between
<1>16. Responded(c) => Responded(c)'
  BY <1>1, <1>4, <1>7, <1>10, <1>11
  DEF Responded, Follows, Delivering, Accepting, Uploading, Between
<1> QED BY <1>2, <1>7, <1>9, <1>10, <1>11, <1>12, <1>13, <1>14, <1>15, <1>16
        DEF Talking

(* The user's answer.                                                      *)
LEMMA ReadAnswerTalks ==
  ASSUME Types, NEW c \in Clients, ReadAnswer(c), Talking(c), Connected(c)
  PROVE  Talking(c)' /\ Connected(c)'
<1>1. session[c] = "answer"
  BY DEF ReadAnswer, OnlySession
<1> DEFINE early == {"openResponse", "openingResponse", "header"}
<1>2. /\ client[c] \in early => Responded(c)
      /\ client[c] \notin {"open", "write"}
  BY <1>1, LastSteps
<1>3. toServer[c] # <<>>
  <2>1. client[c] \in early \cup {"answered", "packets", "ask"} =>
          Has(c, RDWriters)
    BY DEF Connected, Has, RDWriters
  <2>2. CASE toServer[c] = <<>>
    <3>1. ~Has(c, RDWriters)
      BY <2>2 DEF ReadAnswer
    <3>2. client[c] \in {"prompt", "send", "kept"}
      BY <1>2, <2>1, <3>1 DEF Talking
    <3> QED BY <1>1, <2>2, <3>2
            DEF Talking, SessionDone, Uploading, Keeping, Between
  <2> QED BY <2>2
<1>4. /\ session'[c] = IF Head(toServer[c]).kind = "yes" THEN "truncate"
                       ELSE "keep"
      /\ toServer'[c] = Tail(toServer[c])
      /\ UNCHANGED <<ends, toClient, request, waiters, handlerVars, clientVars,
                     gone, parentVars>>
  BY <1>3 DEF ReadAnswer, OnlySession, SessionGoes, Types, SessionTypes,
              FifoTypes
<1>5. Attended(c)
  BY <1>4 DEF Attended, ClientSame, Apart, clientVars, commandVars, parentVars
<1>6. Connected(c)'
  <2>1. session'[c] \in {"truncate", "keep"}
    BY <1>4
  <2> QED BY <1>1, <1>4, <1>5, <2>1, StaysConnected DEF Connected
<1>7. UNCHANGED <<client, command, response, left, reply, todo>>
  BY <1>4 DEF clientVars, commandVars, handlerVars
<1>8. /\ ~SessionDone(c)
      /\ Keeping(c) => Keeping(c)'
      /\ \A size, items : ~Delivering(c, size, items)
      /\ ~Archiving(c)
  BY <1>1, <1>4 DEF SessionDone, Keeping, Delivering, Archiving, Between
<1>9. client[c] = "prompt" /\ Uploading(c, 0) => Uploading(c, 0)'
  BY <1>1, <1>4, <1>7 DEF Uploading, Between
<1>10. client[c] = "send" => Uploading(c, left[c])'
  BY <1>1, <1>4, <1>7 DEF Talking, Uploading, Between
<1>11. client[c] = "answered" =>
         Follows(c, response[c], response[c].size, Len(toClient[c]))'
  BY <1>1, <1>3, <1>4, <1>7, <1>8
  DEF Talking, Follows, Accepting, Uploading, Between, Onward
<1>12. client[c] \notin {"packets", "ask"}
  BY <1>1, <1>3, <1>8 DEF Talking, Follows, Onward
<1>13. Responded(c) => Responded(c)'
  BY <1>1, <1>3, <1>4, <1>7, <1>8
  DEF Responded, Follows, Accepting, Uploading, Between, Onward
<1> QED BY <1>2, <1>4, <1>6, <1>7, <1>8, <1>9, <1>10, <1>11, <1>12, <1>13
        DEF Talking

LEMMA TruncateTalks ==
  ASSUME Types, NEW c \in Clients, Truncate(c), Talking(c), Connected(c)
  PROVE  Talking(c)' /\ Connected(c)'
<1>1. session[c] = "truncate"
  BY DEF Truncate, OnlySession
<1> DEFINE early == {"openResponse", "openingResponse", "header"}
<1>2. /\ client[c] \in early => Responded(c)
      /\ client[c] \notin {"open", "write", "ask"}
  BY <1>1, LastSteps DEF Talking
<1>3. /\ session'[c] = "receive" /\ todo'[c] = Packets
      /\ Descriptors(c, Forgotten(c, {"sWR"}))
      /\ UNCHANGED <<request, waiters, reply, clientVars, gone, parentVars>>
  BY DEF Truncate, OnlySession, SessionGoes, Types, SessionTypes
<1>4. PICK new : new = Forgotten(c, {"sWR"})
  OBVIOUS
<1>5. /\ new \cap ClientEnds = ends[c] \cap ClientEnds
      /\ "sRD" \in new
  BY <1>1, <1>4 DEF Forgotten, Old, ClientEnds, RDWriters, WRReaders, Connected
<1>6. /\ ends'[c] = new /\ toServer'[c] = toServer[c]
      /\ toClient'[c] = toClient[c]
  <2>1. new \cap (RDReaders \cup RDWriters) # {}
    BY <1>5 DEF RDReaders
  <2>2. toClient[c] = <<>> \/ new \cap (WRReaders \cup WRWriters) # {}
    <3>1. toClient[c] # <<>> => ends[c] \cap WRReaders # {}
      BY DEF Connected, Has
    <3> QED BY <1>5, <3>1 DEF ClientEnds
  <2> QED BY <1>3, <1>4, <2>1, <2>2, NothingLost DEF Types
<1>7. Attended(c)
  BY <1>3, <1>5, <1>6
  DEF Attended, ClientSame, Apart, clientVars, commandVars, parentVars
<1>8. Connected(c)'
  <2>1. client[c] = "header" => toClient'[c] # <<>>
    BY <1>2, <1>6 DEF Responded
  <2>2. toClient'[c] # <<>> => Has(c, WRReaders)
    BY <1>6 DEF Connected
  <2> QED BY <1>3, <1>5, <1>6, <1>7, <2>1, <2>2, StaysConnected
<1>9. UNCHANGED <<client, command, response, left>>
  BY <1>3 DEF clientVars, commandVars
<1>10. /\ ~SessionDone(c) /\ ~Keeping(c) /\ ~Archiving(c)
       /\ \A size, items : ~Delivering(c, size, items)
  BY <1>1 DEF SessionDone, Keeping, Delivering, Archiving, Between
<1>11. client[c] = "prompt" /\ Uploading(c, 0) => Uploading(c, 0)'
  BY <1>1, <1>3, <1>6, <1>9 DEF Uploading, Between
<1>12. client[c] = "send" => Uploading(c, left[c])'
  BY <1>1, <1>3, <1>6, <1>9 DEF Talking, Uploading, Between
<1>13. client[c] = "answered" =>
         Follows(c, response[c], response[c].size, Len(toClient[c]))'
  BY <1>1, <1>3, <1>6, <1>9, <1>10
  DEF Talking, Follows, Accepting, Uploading, Between, Onward
<1>14. client[c] # "packets"
  BY <1>10 DEF Talking, Follows, Onward
<1>15. Responded(c) => Responded(c)'
  BY <1>1, <1>3, <1>6, <1>9, <1>10
  DEF Responded, Follows, Accepting, Uploading, Between, Onward
<1> QED BY <1>2, <1>6, <1>8, <1>9, <1>10, <1>11, <1>12, <1>13, <1>14, <1>15
        DEF Talking

LEMMA KeepTalks ==
  ASSUME Types, NEW c \in Clients, Keep(c), Talking(c), Connected(c)
  PROVE  Talking(c)' /\ Connected(c)'
<1>1. session[c] = "keep"
  BY DEF Keep, OnlySession
<1>2. client[c] \in {"prompt", "kept"} /\ Keeping(c) /\ toClient[c] = <<>>
  BY <1>1, LastSteps
  DEF Talking, Responded, Follows, Delivering, Accepting, Archiving, Uploading,
      SessionDone, Between, Onward
<1>3. toServer[c] = <<>>
  BY <1>1, <1>2 DEF Keeping
<1>4. /\ session'[c] = "post"
      /\ Descriptors(c, ends[c] \ {"sRD", "sWR"})
      /\ UNCHANGED <<request, waiters, handlerVars, clientVars, gone,
                     parentVars>>
  BY DEF Keep, OnlySession, SessionGoes, Types, SessionTypes
<1>5. /\ ends'[c] = ends[c] \ {"sRD", "sWR"} /\ toServer'[c] = <<>>
      /\ toClient'[c] = <<>>
  BY <1>2, <1>3, <1>4, NothingLost DEF Types
<1>6. Attended(c)
  BY <1>4, <1>5
  DEF Attended, ClientSame, Apart, clientVars, commandVars, parentVars,
      ClientEnds, RDWriters, WRReaders
<1>7. Connected(c)'
  BY <1>2, <1>4, <1>5, <1>6, StaysConnected
<1>8. Keeping(c)' /\ client'[c] = client[c] /\ UNCHANGED <<command, response>>
  BY <1>4, <1>5 DEF Keeping, Between, clientVars, commandVars
<1> QED BY <1>2, <1>5, <1>7, <1>8 DEF Talking

(* The bytes of a file, one by one.                                        *)
LEMMA SentTail ==
  ASSUME NEW S, NEW s \in Seq(S), NEW n, NEW all \in Nat, NEW unsent \in Nat,
         Sent(s, n, all, unsent), s # <<>>
  PROVE  /\ Head(s) = [kind |-> "bytes", n |-> n]
         /\ Sent(Tail(s), n, all - 1, unsent)
         /\ all = 1 => Len(s) = 1
<1>1. /\ Len(s) \in Nat \ {0} /\ Tail(s) \in Seq(S)
      /\ Len(Tail(s)) = Len(s) - 1
      /\ \A i \in 1..Len(Tail(s)) : Tail(s)[i] = s[i + 1]
      /\ Head(s) = s[1]
  BY HeadTailProperties, LenProperties, EmptySeq
<1>2. Bytes(Tail(s), n)
  BY <1>1 DEF Sent, Bytes
<1>3. Len(Tail(s)) + unsent = all - 1 /\ (all = 1 => Len(s) = 1)
  BY <1>1 DEF Sent
<1>4. Head(s) = [kind |-> "bytes", n |-> n]
  BY <1>1 DEF Sent, Bytes
<1> QED BY <1>2, <1>3, <1>4 DEF Sent

(* A session that receives gets what its client sends for this upload.     *)
LEMMA Receiving ==
  ASSUME Types, NEW c \in Clients, Talking(c), session[c] = "receive"
  PROVE  /\ \E u \in Nat : Sent(toServer[c], command[c].n, todo[c], u)
         /\ request[c] = command[c]
         /\ client[c] \in {"prompt", "send", "answered"} \/ Responded(c)
<1>1. 0 \in Nat /\ left[c] \in Nat /\ Packets \in Nat
  BY BoundsAssumption DEF Types, ClientTypes
<1>2. \/ client[c] = "prompt" /\ Uploading(c, 0)
      \/ client[c] = "send" /\ Uploading(c, left[c])
      \/ client[c] = "answered" /\ Uploading(c, Packets)
      \/ Responded(c) /\ Uploading(c, Packets)
  BY LastSteps
  DEF Talking, Responded, Follows, Delivering, Accepting, Archiving, Keeping,
      SessionDone, Between, Onward
<1>3. PICK u \in Nat : Uploading(c, u)
  BY <1>1, <1>2
<1>4. Sent(toServer[c], command[c].n, todo[c], u) /\ request[c] = command[c]
  BY <1>3 DEF Uploading, Between
<1> QED BY <1>2, <1>4

LEMMA ReceiveTakes ==
  ASSUME Types, NEW c \in Clients, Talking(c), Receive(c)
  PROVE  /\ session[c] = "receive" /\ request[c] = command[c]
         /\ Head(toServer[c]) = [kind |-> "bytes", n |-> command[c].n]
         /\ toServer'[c] = Tail(toServer[c]) /\ todo'[c] = todo[c] - 1
<1>1. /\ session[c] = "receive" /\ todo[c] > 0 /\ toServer[c] # <<>>
      /\ todo'[c] = todo[c] - 1
  BY DEF Receive, OnlySession, Types, SessionTypes
<1>2. PICK u \in Nat : Sent(toServer[c], command[c].n, todo[c], u)
  BY <1>1, Receiving
<1>3. toServer[c] \in Seq(Message) /\ todo[c] \in Nat
  BY BoundsAssumption DEF Types, FifoTypes, SessionTypes
<1>4. /\ Head(toServer[c]) = [kind |-> "bytes", n |-> command[c].n]
      /\ todo[c] = 1 => Len(toServer[c]) = 1
  BY <1>1, <1>2, <1>3, SentTail
<1>5. toServer' = [toServer EXCEPT ![c] = Tail(@)]
  BY <1>4 DEF Receive
<1> QED BY <1>1, <1>4, <1>5, Receiving DEF Types, FifoTypes

LEMMA ReceiveTalks ==
  ASSUME Types, NEW c \in Clients, Receive(c), Talking(c), Connected(c)
  PROVE  Talking(c)' /\ Connected(c)'
<1>1. /\ session[c] = "receive" /\ toServer[c] # <<>>
      /\ toServer'[c] = Tail(toServer[c]) /\ todo'[c] = todo[c] - 1
  BY ReceiveTakes DEF Receive
<1>2. UNCHANGED <<ends, toClient, session, request, waiters, reply, clientVars,
                  gone, parentVars>>
  BY DEF Receive, OnlySession
<1>3. Attended(c)
  BY <1>2 DEF Attended, ClientSame, Apart, clientVars, commandVars, parentVars
<1>4. Connected(c)'
  BY <1>1, <1>2, <1>3, StaysConnected DEF Connected
<1>5. UNCHANGED <<client, command, response, left>>
  BY <1>2 DEF clientVars, commandVars
<1>6. toServer[c] \in Seq(Message) /\ todo[c] \in Nat
  BY BoundsAssumption DEF Types, FifoTypes, SessionTypes
<1>7. ASSUME NEW u \in Nat, Sent(toServer[c], command[c].n, todo[c], u)
      PROVE  Sent(toServer'[c], command'[c].n, todo'[c], u)
  BY <1>1, <1>5, <1>6, <1>7, SentTail
<1>8. 0 \in Nat /\ left[c] \in Nat /\ Packets \in Nat
  BY BoundsAssumption DEF Types, ClientTypes
<1>9. /\ ~SessionDone(c) /\ ~Keeping(c) /\ ~Archiving(c)
      /\ \A size, items : ~Delivering(c, size, items)
  BY <1>1 DEF SessionDone, Keeping, Delivering, Archiving, Between
<1>10. client[c] = "prompt" /\ Uploading(c, 0) => Uploading(c, 0)'
  BY <1>1, <1>2, <1>5, <1>7, <1>8 DEF Uploading, Between
<1>11. client[c] = "send" => Uploading(c, left[c])'
  BY <1>1, <1>2, <1>5, <1>7, <1>8 DEF Talking, Uploading, Between
<1>12. Uploading(c, Packets) => Uploading(c, Packets)'
  BY <1>1, <1>2, <1>5, <1>7, <1>8 DEF Uploading, Between
<1>13. client[c] = "answered" =>
         Follows(c, response[c], response[c].size, Len(toClient[c]))'
  BY <1>1, <1>2, <1>5, <1>9, <1>12 DEF Talking, Follows, Accepting, Onward
<1>14. /\ client[c] \notin {"packets", "ask", "kept", "open", "write"}
       /\ client[c] \in {"openResponse", "openingResponse", "header"} =>
            Responded(c)
  BY <1>1, <1>9, LastSteps DEF Talking, Follows, Onward
<1>15. Responded(c) => Responded(c)'
  BY <1>1, <1>2, <1>5, <1>9, <1>12 DEF Responded, Follows, Accepting, Onward
<1> QED BY <1>2, <1>4, <1>5, <1>9, <1>10, <1>11, <1>13, <1>14, <1>15
        DEF Talking

LEMMA ReceivedTalks ==
  ASSUME Types, NEW c \in Clients, Received(c), Talking(c), Connected(c)
  PROVE  Talking(c)' /\ Connected(c)'
<1>1. session[c] = "receive" /\ todo[c] = 0
  BY DEF Received, OnlySession
<1>2. toServer[c] \in Seq(Message) /\ left[c] \in Nat /\ Packets \in Nat \ {0}
  BY BoundsAssumption DEF Types, FifoTypes, ClientTypes
<1>3. ASSUME NEW u \in Nat, Sent(toServer[c], command[c].n, 0, u)
      PROVE  toServer[c] = <<>> /\ u = 0
  <2>1. Len(toServer[c]) \in Nat /\ Len(toServer[c]) + u = 0
    BY <1>2, <1>3, LenProperties DEF Sent
  <2>2. Len(toServer[c]) = 0 /\ u = 0
    BY <2>1
  <2> QED BY <1>2, <2>2, EmptySeq
<1>4. /\ ~SessionDone(c) /\ ~Keeping(c) /\ ~Archiving(c)
      /\ \A size, items : ~Delivering(c, size, items)
  BY <1>1 DEF SessionDone, Keeping, Delivering, Archiving, Between
<1>5. ~Uploading(c, Packets)
  <2>1. SUFFICES ASSUME Uploading(c, Packets) PROVE FALSE
    OBVIOUS
  <2>2. Sent(toServer[c], command[c].n, 0, Packets)
    BY <1>1, <2>1 DEF Uploading, Between
  <2> QED BY <1>2, <1>3, <2>2
<1>6. /\ client[c] \in {"prompt", "send"}
      /\ client[c] = "prompt" => Uploading(c, 0)
      /\ client[c] = "send" => Uploading(c, left[c])
      /\ toClient[c] = <<>>
  BY <1>1, <1>4, <1>5, LastSteps
  DEF Talking, Responded, Follows, Accepting, Onward
<1>7. /\ toServer[c] = <<>> /\ request[c] = command[c]
      /\ client[c] = "send" => left[c] = 0
  <2>1. PICK u \in Nat : Uploading(c, u) /\ (client[c] = "send" => u = left[c])
    BY <1>2, <1>6
  <2>2. Sent(toServer[c], command[c].n, 0, u) /\ request[c] = command[c]
    BY <1>1, <2>1 DEF Uploading, Between
  <2> QED BY <1>3, <2>1, <2>2
<1>8. /\ session'[c] = "post" /\ Descriptors(c, ends[c] \ {"sRD"})
      /\ UNCHANGED <<request, waiters, handlerVars, clientVars, gone,
                     parentVars>>
  BY DEF Received, OnlySession, SessionGoes, Types, SessionTypes
<1>9. /\ ends'[c] = ends[c] \ {"sRD"} /\ toServer'[c] = <<>>
      /\ toClient'[c] = <<>>
  BY <1>6, <1>7, <1>8, NothingLost DEF Types
<1>10. Attended(c)
  BY <1>8, <1>9
  DEF Attended, ClientSame, Apart, clientVars, commandVars, parentVars,
      ClientEnds, RDWriters, WRReaders
<1>11. Connected(c)'
  BY <1>6, <1>8, <1>9, <1>10, StaysConnected
<1>12. UNCHANGED <<client, command, response, left>>
  BY <1>8 DEF clientVars, commandVars
<1>13. /\ Uploading(c, 0)'
       /\ client[c] = "send" => Uploading(c, left[c])'
  BY <1>7, <1>8, <1>9, <1>12 DEF Uploading, Between
<1> QED BY <1>6, <1>9, <1>11, <1>12, <1>13 DEF Talking

LEMMA PostTalks ==
  ASSUME Types, NEW c \in Clients, Post(c), Talking(c), Connected(c)
  PROVE  Talking(c)' /\ Connected(c)'
<1>1. session[c] = "post"
  BY DEF Post, OnlySession
<1>2. /\ session'[c] = "open"
      /\ UNCHANGED <<ends, toServer, toClient, request, waiters, clientVars,
                     gone, parentVars>>
  BY DEF Post, OnlySession, SessionGoes, Types, SessionTypes
<1>3. Attended(c)
  BY <1>2 DEF Attended, ClientSame, Apart, clientVars, commandVars, parentVars
<1>4. Connected(c)'
  BY <1>1, <1>2, <1>3, StaysConnected DEF Connected
<1>5. UNCHANGED <<client, command, response, left>>
  BY <1>2 DEF clientVars, commandVars
<1>6. /\ SessionDone(c) => SessionDone(c)'
      /\ Keeping(c) => Keeping(c)'
      /\ Archiving(c) => Archiving(c)'
      /\ Unwritten(c)' = Unwritten(c)
      /\ Served(c) => Served(c)'
      /\ ~Asked(c)
  BY <1>1, <1>2, <1>5
  DEF SessionDone, Keeping, Archiving, Unwritten, Served, Asked, Between
<1>7. client[c] = "prompt" /\ Uploading(c, 0) => Uploading(c, 0)'
  BY <1>1, <1>2, <1>5 DEF Uploading, Between
<1>8. client[c] = "send" => Uploading(c, left[c])'
  BY <1>1, <1>2, <1>5 DEF Talking, Uploading, Between
<1>9. client[c] = "answered" =>
        Follows(c, response[c], response[c].size, Len(toClient[c]))'
  BY <1>1, <1>2, <1>5, <1>6
  DEF Talking, Follows, Delivering, Accepting, Uploading, Between
<1>10. client[c] = "packets" =>
        Follows(c, response[c], left[c], Len(toClient[c]))'
  BY <1>1, <1>2, <1>5, <1>6
  DEF Talking, Follows, Delivering, Accepting, Uploading, Between
<1>11. Responded(c) => Responded(c)'
  BY <1>1, <1>2, <1>5, <1>6
  DEF Responded, Follows, Delivering, Accepting, Uploading, Between
<1> QED BY <1>1, <1>2, <1>4, <1>5, <1>6, <1>7, <1>8, <1>9, <1>10, <1>11
        DEF Talking

-----------------------------------------------------------------------------
(* A session that breaks a file off.                                       *)
LEMMA ReadFailsTalks ==
  ASSUME Types, NEW c \in Clients, ReadFails(c), Talking(c), Connected(c)
  PROVE  Talking(c)' /\ Connected(c)'
<1>1. session[c] = "packets" /\ reply[c].kind = "DOWNLOAD"
  BY DEF ReadFails, OnlySession
<1> DEFINE early == {"openResponse", "openingResponse", "header"}
<1>2. /\ client[c] \in early \cup {"answered", "packets"}
      /\ client[c] \in early => Responded(c)
      /\ command[c].kind \in OneWay \cup {"ARCHSERVER"}
      /\ toServer[c] = <<>>
  BY <1>1
  DEF Talking, SessionDone, Uploading, Keeping, Follows, Delivering, Accepting,
      Served, Asked, Responded, Archiving, OneWay, Onward, Between
<1>3. /\ session'[c] = "post"
      /\ ends'[c] = Forgotten(c, {"sRD", "sWR"})
      /\ UNCHANGED <<toServer, toClient, request, waiters, reply, clientVars,
                     gone, parentVars>>
  BY DEF ReadFails, BreakOff, OnlySession, SessionGoes, Types, SessionTypes,
         FifoTypes
<1>4. /\ Attended(c)
      /\ UNCHANGED <<client, command, response, left>>
  BY <1>3
  DEF Attended, ClientSame, Apart, clientVars, commandVars, parentVars,
      Forgotten, Old, ClientEnds, RDWriters, WRReaders
<1>5. Connected(c)'
  <2>1. client[c] = "header" => toClient[c] # <<>>
    BY <1>2 DEF Responded
  <2> QED BY <1>3, <1>4, <2>1, StaysConnected DEF Connected
<1>6. Unwritten(c) \in Nat /\ Unwritten(c)' = 0
  BY <1>3, BoundsAssumption DEF Unwritten, Types, SessionTypes
<1>7. PICK k \in Nat : k = Len(toClient[c])
  BY LenProperties DEF Types, FifoTypes
<1>8. ASSUME NEW size \in Nat, NEW items \in Int, Delivering(c, size, items)
      PROVE  Delivering(c, size, items)'
  <2>1. items + Unwritten(c)' <= size
    BY <1>6, <1>8 DEF Delivering
  <2> QED BY <1>2, <1>3, <2>1 DEF Delivering, SessionDone, Between
<1>9. /\ response[c].size \in Nat /\ left[c] \in Nat
      /\ toClient[c] # <<>> => Head(toClient[c]).size \in Nat
  <2>1. /\ response[c].size \in Nat /\ left[c] \in Nat
    BY BoundsAssumption DEF Types, ClientTypes, Response
  <2>2. toClient[c] # <<>> => Head(toClient[c]) \in Response
    BY HeadTailProperties DEF Types, FifoTypes
  <2> QED BY <2>1, <2>2, BoundsAssumption DEF Response
<1>10. ~Archiving(c)
  BY <1>1 DEF Archiving
<1>11. Responded(c) => Responded(c)'
  <2> SUFFICES ASSUME Responded(c) PROVE Responded(c)'
    OBVIOUS
  <2>1. PICK r : r = Head(toClient[c])
    OBVIOUS
  <2>2. /\ toClient[c] # <<>> /\ Fits(command[c].kind, r)
        /\ Follows(c, r, r.size, k - 1)
    BY <1>7, <2>1 DEF Responded
  <2>3. Delivering(c, r.size, k - 1)'
    BY <1>2, <1>8, <1>9, <1>10, <2>1, <2>2 DEF Follows
  <2>4. command[c].kind \in OneWay =>
          Delivering(c, Head(toClient[c]).size, Len(toClient[c]) - 1)'
    BY <1>3, <1>7, <2>1, <2>3 DEF Delivering
  <2> QED BY <1>2, <1>3, <1>4, <1>10, <2>1, <2>2, <2>4
          DEF Responded, Follows, OneWay, Onward
<1>12. client[c] = "answered" =>
         Follows(c, response[c], response[c].size, Len(toClient[c]))'
  <2> SUFFICES ASSUME client[c] = "answered"
               PROVE Follows(c, response[c], response[c].size,
                             Len(toClient[c]))'
    OBVIOUS
  <2>0. PICK size \in Nat : size = response[c].size
    BY <1>9
  <2>1. Follows(c, response[c], size, k)
    BY <1>7, <2>0 DEF Talking
  <2>2. Delivering(c, size, k)'
    <3>1. Delivering(c, size, k)
      BY <1>2, <1>10, <2>1 DEF Follows
    <3> QED BY <1>8, <3>1
  <2>3. command[c].kind \in OneWay =>
          Delivering(c, response[c].size, Len(toClient[c]))'
    BY <1>3, <1>4, <1>7, <2>0, <2>2 DEF Delivering
  <2> QED BY <1>2, <1>3, <1>4, <1>10, <2>1, <2>3 DEF Follows, OneWay, Onward
<1>13. client[c] = "packets" =>
         Follows(c, response[c], left[c], Len(toClient[c]))'
  <2> SUFFICES ASSUME client[c] = "packets"
               PROVE Follows(c, response[c], left[c], Len(toClient[c]))'
    OBVIOUS
  <2>0. PICK size \in Nat : size = left[c]
    BY <1>9
  <2>1. Follows(c, response[c], size, k)
    BY <1>7, <2>0 DEF Talking
  <2>2. Delivering(c, size, k)'
    BY <1>2, <1>8, <1>10, <2>1 DEF Follows
  <2>3. command[c].kind \in OneWay =>
          Delivering(c, left[c], Len(toClient[c]))'
    BY <1>3, <1>4, <1>7, <2>0, <2>2 DEF Delivering
  <2> QED BY <1>2, <1>3, <1>4, <1>10, <2>1, <2>3 DEF Follows, OneWay, Onward
<1> QED BY <1>2, <1>4, <1>5, <1>11, <1>12, <1>13 DEF Talking

LEMMA BytesJunk ==
  ASSUME NEW s, NEW n, Bytes(s, n)
  PROVE  Junk(s)
BY DEF Bytes, Junk, Leftover

LEMMA NoJunk == Junk(<<>>)
BY DEF Junk

LEMMA CreateFailsStrays ==
  ASSUME Types, NEW c \in Clients, CreateFails(c), Talking(c), Connected(c)
  PROVE  Straying(c)' /\ Connected(c)'
<1>1. session[c] = "close" /\ reply[c].kind = "UPLOAD"
  BY DEF CreateFails, OnlySession
<1>2. \/ client[c] = "prompt" /\ Uploading(c, 0) /\ toClient[c] = <<>>
      \/ /\ client[c] = "send" /\ Uploading(c, left[c])
         /\ toClient[c] = <<>> /\ command[c].kind = "UPLOAD"
         /\ response[c].n = command[c].n
      \/ /\ client[c] = "answered" /\ command[c].kind = "UPLOAD"
         /\ response[c].kind = "UPLOAD" /\ response[c].n = command[c].n
         /\ Uploading(c, Packets) /\ Len(toClient[c]) = 0
      \/ /\ client[c] \in Awaiting /\ command[c].kind = "UPLOAD"
         /\ toClient[c] # <<>> /\ Head(toClient[c]).kind = "UPLOAD"
         /\ Head(toClient[c]).n = command[c].n
         /\ Uploading(c, Packets) /\ Len(toClient[c]) - 1 = 0
  BY <1>1, LastSteps
  DEF Talking, Responded, Follows, Delivering, Accepting, Archiving, Keeping,
      SessionDone, Between, OneWay, Onward, Awaiting
<1>3. /\ toServer[c] \in Seq(Message) /\ toClient[c] \in Seq(Response)
      /\ Len(toServer[c]) \in Nat /\ Len(toClient[c]) \in Nat
      /\ Packets \in Nat
  BY LenProperties, BoundsAssumption DEF Types, FifoTypes
<1>4. /\ Junk(toServer[c])
      /\ Uploading(c, Packets) => toServer[c] = <<>>
  <2>1. Uploading(c, Packets) => Len(toServer[c]) + Packets = Packets
    BY <1>1 DEF Uploading, Sent, Between
  <2>2. Bytes(toServer[c], command[c].n)
    BY <1>1, <1>2 DEF Uploading, Sent, Between
  <2> QED BY <1>3, <2>1, <2>2, BytesJunk, EmptySeq
<1>5. /\ session'[c] = "post"
      /\ Descriptors(c, Forgotten(c, {"sRD"}) \ {"sWR"})
      /\ UNCHANGED <<request, waiters, reply, clientVars, gone, parentVars>>
  BY DEF CreateFails, OnlySession, SessionGoes, Types, SessionTypes
<1>6. PICK new : new = Forgotten(c, {"sRD"}) \ {"sWR"}
  OBVIOUS
<1>7. /\ new \cap ClientEnds = ends[c] \cap ClientEnds
      /\ "sRD old" \in new
  BY <1>1, <1>6
  DEF Forgotten, Old, ClientEnds, RDWriters, WRReaders, Connected
<1>8. /\ ends'[c] = new /\ toServer'[c] = toServer[c]
      /\ toClient'[c] = toClient[c]
  <2>1. new \cap (RDReaders \cup RDWriters) # {}
    BY <1>7 DEF RDReaders
  <2>2. toClient[c] = <<>> \/ new \cap (WRReaders \cup WRWriters) # {}
    <3>1. toClient[c] # <<>> => ends[c] \cap WRReaders # {}
      BY DEF Connected, Has
    <3> QED BY <1>7, <3>1 DEF ClientEnds
  <2> QED BY <1>5, <1>6, <2>1, <2>2, NothingLost DEF Types
<1>9. /\ Attended(c)
      /\ UNCHANGED <<client, command, response, left>>
  BY <1>5, <1>7, <1>8
  DEF Attended, ClientSame, Apart, clientVars, commandVars, parentVars
<1>10. Connected(c)'
  <2>1. client[c] = "header" => toClient[c] # <<>>
    BY <1>2 DEF Awaiting
  <2> QED BY <1>5, <1>8, <1>9, <2>1, StaysConnected DEF Connected
<1>11. Has(c, RDReaders)'
  BY <1>7, <1>8 DEF Has, RDReaders
<1>12. Len(toClient[c]) = 0 => toClient[c] = <<>>
  BY <1>3, EmptySeq
<1> QED BY <1>2, <1>3, <1>4, <1>5, <1>8, <1>9, <1>10, <1>11, <1>12
        DEF Straying, Accepted, Between, Awaiting

LEMMA WriteFailsStrays ==
  ASSUME Types, NEW c \in Clients, WriteFails(c), Talking(c), Connected(c)
  PROVE  Straying(c)' /\ Connected(c)'
<1>1. session[c] = "receive" /\ todo[c] > 0
  BY DEF WriteFails, OnlySession
<1>2. /\ toServer[c] \in Seq(Message) /\ left[c] \in Nat
      /\ todo[c] \in 0..Packets /\ Packets \in Nat
      /\ Len(toServer[c]) \in Nat
  BY BoundsAssumption, LenProperties
  DEF Types, FifoTypes, ClientTypes, SessionTypes
<1>3. \/ client[c] = "prompt" /\ Uploading(c, 0) /\ toClient[c] = <<>>
      \/ /\ client[c] = "send" /\ Uploading(c, left[c])
         /\ toClient[c] = <<>> /\ command[c].kind = "UPLOAD"
         /\ response[c].n = command[c].n
      \/ client[c] \notin {"prompt", "open", "send"} /\ Uploading(c, Packets)
  BY <1>1, LastSteps
  DEF Talking, Responded, Follows, Delivering, Accepting, Archiving, Keeping,
      SessionDone, Between, OneWay, Onward
<1>4. PICK u \in Nat : /\ Sent(toServer[c], command[c].n, todo[c], u)
                       /\ client[c] = "prompt" => u = 0
                       /\ client[c] \notin {"prompt", "send"} => u = Packets
  BY <1>1, <1>2, <1>3 DEF Uploading, Between
<1>5. toServer[c] # <<>>
  <2> SUFFICES ASSUME toServer[c] = <<>> PROVE FALSE
    OBVIOUS
  <2>1. ~Has(c, RDWriters)
    BY DEF WriteFails
  <2>2. client[c] = "prompt"
    BY <1>3, <2>1 DEF Connected, Has, RDWriters
  <2> QED BY <1>1, <1>2, <1>4, <2>2 DEF Sent
<1>6. /\ Sent(Tail(toServer[c]), command[c].n, todo[c] - 1, u)
      /\ todo[c] = 1 => Len(toServer[c]) = 1
      /\ client[c] \in {"prompt", "send"}
  <2>1. client[c] \in {"prompt", "send"}
    <3> SUFFICES ASSUME client[c] \notin {"prompt", "send"} PROVE FALSE
      OBVIOUS
    <3>1. Len(toServer[c]) + Packets = todo[c] /\ Len(toServer[c]) # 0
      BY <1>2, <1>4, <1>5, EmptySeq DEF Sent
    <3> QED BY <1>2, <3>1
  <2>2. todo[c] \in Nat
    BY <1>2
  <2> QED BY <1>2, <1>4, <1>5, <2>1, <2>2, SentTail
<1>7. /\ session'[c] = "post" /\ toServer'[c] = Tail(toServer[c])
      /\ ends'[c] = Forgotten(c, {"sRD"})
      /\ UNCHANGED <<toClient, request, waiters, reply, clientVars, gone,
                     parentVars>>
  <2>1. toServer' = [toServer EXCEPT ![c] = Tail(@)]
    <3>1. ~(todo[c] = 1 /\ Len(toServer[c]) > 1)
      <4>1. PICK n \in Nat : n = Len(toServer[c])
        BY <1>2
      <4>2. n = 1 => ~(n > 1)
        OBVIOUS
      <4> QED BY <1>6, <4>1, <4>2, Zenon
    <3> QED BY <1>5, <3>1, Zenon DEF WriteFails
  <2>2. toServer'[c] = Tail(toServer[c])
    BY <2>1 DEF Types, FifoTypes
  <2>3. OnlySession(c, "receive") /\ BreakOff(c, {"sRD"})
    BY DEF WriteFails
  <2> QED BY <2>2, <2>3 DEF BreakOff, OnlySession, SessionGoes, Types,
                            SessionTypes, FifoTypes
<1>8. /\ Attended(c) /\ "sRD old" \in ends'[c]
      /\ UNCHANGED <<client, command, response, left>>
  BY <1>1, <1>7
  DEF Attended, ClientSame, Apart, clientVars, commandVars, parentVars,
      Forgotten, Old, ClientEnds, RDWriters, WRReaders, Connected
<1>9. Connected(c)'
  BY <1>6, <1>7, <1>8, StaysConnected DEF Connected
<1>10. Junk(toServer'[c])
  BY <1>6, <1>7, BytesJunk DEF Sent
<1> QED BY <1>3, <1>6, <1>7, <1>8, <1>9, <1>10
        DEF Straying, Between, Has, RDReaders

(* What is read of a file that was broken off.                             *)
LEMMA TornItems ==
  ASSUME NEW s \in Seq(Message), Len(s) > 1
  PROVE  /\ Torn(s) \in Seq(Message) /\ Len(Torn(s)) = Len(s) - 1
         /\ Torn(s)[1].kind = "rest"
         /\ \A i \in 2..(Len(s) - 1) : Torn(s)[i] = s[i + 1]
<1>1. PICK n \in Nat : n = Len(s)
  BY LenProperties
<1>2. PICK m : m = [kind |-> "rest", n |-> s[2].n]
  OBVIOUS
<1>3. s[2] \in Message
  BY <1>1, ElementOfSeq
<1>4. m \in Message /\ m.kind = "rest"
  BY <1>2, <1>3 DEF Message
<1>5. PICK t : t = SubSeq(s, 3, n)
  OBVIOUS
<1>6. /\ t \in Seq(Message) /\ Len(t) = n - 2
      /\ \A i \in 1..(n - 2) : t[i] = s[i + 2]
  <2>1. n > 1
    BY <1>1
  <2>2. \A i \in 3..n : i \in 1..Len(s)
    BY <1>1
  <2>3. /\ t \in Seq(Message)
        /\ Len(t) = IF 3 <= n THEN n - 3 + 1 ELSE 0
        /\ \A i \in 1..(n - 3 + 1) : t[i] = s[3 + i - 1]
    BY <1>1, <1>5, <2>2, SubSeqProperties
  <2>4. Len(t) = n - 2
    BY <2>1, <2>3
  <2>5. ASSUME NEW i \in 1..(n - 2) PROVE t[i] = s[i + 2]
    <3>1. i \in 1..(n - 3 + 1) /\ 3 + i - 1 = i + 2
      OBVIOUS
    <3> QED BY <2>3, <3>1
  <2> QED BY <2>3, <2>4, <2>5
<1>7. /\ <<m>> \in Seq(Message) /\ Len(<<m>>) = 1 /\ <<m>>[1] = m
  BY <1>4
<1>8. PICK h \in Seq(Message) : h = <<m>> /\ Len(h) = 1 /\ h[1] = m
  BY <1>7
<1>9. /\ h \o t \in Seq(Message) /\ Len(h \o t) = 1 + (n - 2)
      /\ \A i \in 1..(Len(h) + Len(t)) :
           (h \o t)[i] = IF i <= Len(h) THEN h[i] ELSE t[i - Len(h)]
  BY <1>6, <1>8, ConcatProperties
<1>10. Torn(s) = h \o t
  BY <1>1, <1>2, <1>5, <1>8 DEF Torn
<1>11. (h \o t)[1] = m
  BY <1>1, <1>6, <1>8, <1>9
<1>12. ASSUME NEW i \in 2..(n - 1) PROVE (h \o t)[i] = s[i + 1]
  <2>1. /\ i \in 1..(1 + (n - 2)) /\ ~(i <= 1) /\ i - 1 \in 1..(n - 2)
        /\ (i - 1) + 2 = i + 1
    OBVIOUS
  <2>2. (h \o t)[i] = t[i - 1]
    BY <1>6, <1>8, <1>9, <2>1
  <2> QED BY <1>6, <2>1, <2>2
<1> QED BY <1>1, <1>4, <1>9, <1>10, <1>11, <1>12

LEMMA JunkTaken ==
  ASSUME NEW s \in Seq(Message), s # <<>>
  PROVE  /\ Junk(s) =>
              /\ Head(s).kind \in Leftover /\ Junk(Tail(s))
              /\ Len(s) > 1 => Junk(Torn(s))
         /\ \A m : Trailing(s, m) =>
              \/ s = <<m>>
              \/ /\ Head(s).kind \in Leftover /\ Trailing(Tail(s), m)
                 /\ Len(s) > 1 => Junk(Torn(s)) \/ Trailing(Torn(s), m)
<1>1. PICK n \in Nat \ {0} : n = Len(s)
  BY LenProperties, EmptySeq
<1>2. /\ Tail(s) \in Seq(Message) /\ Len(Tail(s)) = n - 1
      /\ \A i \in 1..(n - 1) : Tail(s)[i] = s[i + 1]
      /\ Head(s) = s[1]
  BY <1>1, HeadTailProperties
<1>3. n > 1 => /\ Torn(s) \in Seq(Message) /\ Len(Torn(s)) = n - 1
               /\ Torn(s)[1].kind = "rest"
               /\ \A i \in 2..(n - 1) : Torn(s)[i] = s[i + 1]
  BY <1>1, TornItems
<1>4. ASSUME Junk(s)
      PROVE  /\ Head(s).kind \in Leftover /\ Junk(Tail(s))
             /\ n > 1 => Junk(Torn(s))
  <2>1. \A i \in 1..n : s[i].kind \in Leftover
    BY <1>1, <1>4 DEF Junk
  <2>2. \A i \in 1..(n - 1) : i + 1 \in 1..n
    OBVIOUS
  <2>3. Junk(Tail(s))
    BY <1>2, <2>1, <2>2 DEF Junk
  <2>4. ASSUME n > 1 PROVE Junk(Torn(s))
    BY <1>3, <2>1, <2>2, <2>4 DEF Junk, Leftover
  <2> QED BY <1>2, <2>1, <2>3, <2>4
<1>5. ASSUME NEW m, Trailing(s, m), n > 1
      PROVE  /\ Head(s).kind \in Leftover /\ Trailing(Tail(s), m)
             /\ Junk(Torn(s)) \/ Trailing(Torn(s), m)
  <2>1. s[n] = m /\ \A i \in 1..(n - 1) : s[i].kind \in Leftover
    BY <1>1, <1>5 DEF Trailing
  <2>2. \A i \in 1..(n - 1 - 1) : i + 1 \in 1..(n - 1) /\ i \in 1..(n - 1)
    OBVIOUS
  <2>3. n - 1 \in 1..(n - 1) /\ n - 1 + 1 = n /\ 1 \in 1..(n - 1)
    BY <1>5
  <2>4. Tail(s) # <<>>
    <3>1. PICK t \in Seq(Message) : t = Tail(s)
      BY <1>2
    <3>2. Len(t) # 0
      BY <1>2, <1>5, <3>1
    <3> QED BY <3>1, <3>2, EmptySeq
  <2>5. Trailing(Tail(s), m)
    <3>1. Tail(s)[Len(Tail(s))] = m
      BY <1>2, <2>1, <2>3
    <3>2. \A i \in 1..(Len(Tail(s)) - 1) : Tail(s)[i].kind \in Leftover
      BY <1>2, <2>1, <2>2
    <3> QED BY <2>4, <3>1, <3>2 DEF Trailing
  <2>6. ASSUME n = 2 PROVE Junk(Torn(s))
    <3>1. Len(Torn(s)) = 1 /\ Torn(s)[1].kind \in Leftover
      BY <1>3, <2>6 DEF Leftover
    <3>2. \A i \in 1..1 : i = 1
      OBVIOUS
    <3> QED BY <3>1, <3>2 DEF Junk
  <2>7. ASSUME n > 2 PROVE Trailing(Torn(s), m)
    <3>1. n - 1 \in 2..(n - 1) /\ Torn(s) # <<>>
      BY <1>3, <2>7, EmptySeq
    <3>2. Torn(s)[n - 1] = m
      BY <1>3, <1>5, <2>1, <2>3, <3>1
    <3>3. ASSUME NEW i \in 1..(n - 1 - 1) PROVE Torn(s)[i].kind \in Leftover
      <4>1. CASE i = 1
        BY <1>3, <1>5, <4>1 DEF Leftover
      <4>2. CASE i # 1
        <5>1. i \in 2..(n - 1) /\ i + 1 \in 1..(n - 1)
          BY <4>2
        <5>2. Torn(s)[i] = s[i + 1]
          BY <1>3, <1>5, <5>1
        <5> QED BY <2>1, <5>1, <5>2
      <4> QED BY <4>1, <4>2
    <3> QED BY <1>3, <1>5, <3>1, <3>2, <3>3 DEF Trailing
  <2> QED BY <1>2, <1>5, <2>1, <2>3, <2>5, <2>6, <2>7
<1>6. ASSUME NEW m, Trailing(s, m), n = 1 PROVE s = <<m>>
  <2>1. s[1] = m
    BY <1>1, <1>6 DEF Trailing
  <2>2. DOMAIN s = 1..1 /\ s = [i \in 1..1 |-> s[i]]
    BY <1>1, <1>6, LenProperties
  <2> QED BY <2>1, <2>2
<1> QED BY <1>1, <1>4, <1>5, <1>6

LEMMA JunkAppend ==
  ASSUME NEW s \in Seq(Message), NEW m \in Message, Junk(s)
  PROVE  /\ Trailing(Append(s, m), m)
         /\ m.kind \in Leftover => Junk(Append(s, m))
<1>1. PICK n \in Nat : n = Len(s)
  BY LenProperties
<1>2. /\ Len(Append(s, m)) = n + 1 /\ Append(s, m)[n + 1] = m
      /\ \A i \in 1..n : Append(s, m)[i] = s[i]
      /\ Append(s, m) # <<>>
  BY <1>1, AppendProperties
<1>3. \A i \in 1..n : s[i].kind \in Leftover
  BY <1>1 DEF Junk
<1>4. Trailing(Append(s, m), m)
  BY <1>2, <1>3 DEF Trailing
<1> QED BY <1>2, <1>3, <1>4 DEF Junk

(* Its session passes it over, until it comes to a request.                *)
LEMMA SessionStrays ==
  ASSUME Types, NEW c \in Clients, Straying(c), Connected(c),
         OpenRequest(c) \/ PassOver(c) \/ Post(c)
  PROVE  Straying(c)' /\ Connected(c)'
<1>1. c \notin gone /\ client[c] # "opening"
  BY DEF Straying, Connected, Awaiting
<1>2. PICK new : new = IF session[c] = "open" THEN ends[c] \cup {"sRD"}
                       ELSE IF session[c] = "invalid" THEN Forgotten(c, {"sRD"})
                       ELSE ends[c]
  OBVIOUS
<1>3. /\ session[c] \in {"open", "invalid", "post"}
      /\ session'[c] = CASE session[c] = "open" ->
                               IF Has(c, RDWriters) THEN "read" ELSE "opening"
                         [] OTHER -> "open"
      /\ Descriptors(c, new) \/ UNCHANGED <<ends, toServer, toClient>>
      /\ session[c] \in {"open", "invalid"} => Descriptors(c, new)
      /\ UNCHANGED <<clientVars, gone, waiters, parentVars>>
  <2>1. CASE OpenRequest(c)
    BY <1>1, <1>2, <2>1
    DEF OpenRequest, SessionGoes, clientVars, Types, SessionTypes
  <2>2. CASE PassOver(c)
    BY <1>2, <2>2
    DEF PassOver, OnlySession, SessionGoes, Types, SessionTypes
  <2>3. CASE Post(c)
    BY <1>2, <2>3 DEF Post, OnlySession, SessionGoes, Types, SessionTypes
  <2> QED BY <2>1, <2>2, <2>3
<1>4. /\ new \cap ClientEnds = ends[c] \cap ClientEnds
      /\ new \cap RDReaders # {}
  BY <1>2, <1>3
  DEF Forgotten, Old, ClientEnds, RDWriters, WRReaders, RDReaders, Straying,
      Has, Connected
<1>5. ends[c] \cap WRWriters \subseteq new
  BY <1>2 DEF Forgotten, Old, WRWriters
<1>6. /\ ends'[c] = new /\ toServer'[c] = toServer[c]
      /\ toClient'[c] = toClient[c]
  <2>1. toClient[c] = <<>> \/ new \cap (WRReaders \cup WRWriters) # {}
    <3>1. toClient[c] # <<>> => ends[c] \cap WRReaders # {}
      BY DEF Connected, Has
    <3> QED BY <1>4, <3>1 DEF ClientEnds
  <2>2. CASE Descriptors(c, new)
    BY <1>4, <2>1, <2>2, NothingLost DEF Types
  <2>3. CASE session[c] = "post" /\ UNCHANGED <<ends, toServer, toClient>>
    BY <1>2, <2>3
  <2> QED BY <1>3, <2>2, <2>3
<1>7. /\ Attended(c)
      /\ UNCHANGED <<client, command, response, left>>
  BY <1>3, <1>4, <1>6
  DEF Attended, ClientSame, Apart, clientVars, commandVars, parentVars
<1>8. Connected(c)'
  <2>1. session'[c] \in {"read", "opening"} => "sRD" \in new
    BY <1>2, <1>3
  <2>2. /\ session'[c] \in {"open", "read", "opening"}
        /\ session'[c] = "read" => Has(c, RDWriters)
    BY <1>3
  <2>3. toClient'[c] # <<>> => Has(c, WRReaders)
    BY <1>6 DEF Connected
  <2> QED BY <1>5, <1>6, <1>7, <2>1, <2>2, <2>3, StaysConnected
<1>9. Has(c, RDReaders)' /\ session'[c] \in Between
  BY <1>3, <1>4, <1>6 DEF Has, Between
<1> QED BY <1>6, <1>7, <1>8, <1>9 DEF Straying, Accepted

LEMMA ReadRequestStrays ==
  ASSUME Types, NEW c \in Clients, ReadRequest(c), Straying(c), Connected(c),
         command[c].kind # "QUIT"
  PROVE  (Talking(c)' \/ Straying(c)') /\ Connected(c)'
<1>1. session[c] = "read" /\ Has(c, RDWriters)
  BY DEF ReadRequest, OnlySession, Connected
<1>2. toServer[c] # <<>> /\ toServer[c] \in Seq(Message)
  BY <1>1 DEF ReadRequest, Types, FifoTypes
<1>3. /\ toClient[c] = <<>>
      /\ \/ Junk(toServer[c])
         \/ client[c] \in Awaiting /\ Trailing(toServer[c], command[c])
  BY <1>2 DEF Straying, Accepted
<1>4. CASE client[c] \in Awaiting /\ toServer[c] = <<command[c]>>
  BY <1>3, <1>4, ReadsCommand DEF Awaiting
<1>5. CASE /\ Head(toServer[c]).kind \in Leftover
           /\ \/ /\ Junk(toServer[c]) /\ Junk(Tail(toServer[c]))
                 /\ Len(toServer[c]) > 1 => Junk(Torn(toServer[c]))
              \/ /\ client[c] \in Awaiting
                 /\ Trailing(Tail(toServer[c]), command[c])
                 /\ Len(toServer[c]) > 1 =>
                      \/ Junk(Torn(toServer[c]))
                      \/ Trailing(Torn(toServer[c]), command[c])
  <2>1. /\ request' = [request EXCEPT ![c] = Invalid]
        /\ \/ toServer' = [toServer EXCEPT ![c] = Tail(@)]
           \/ /\ Len(toServer[c]) > 1
              /\ toServer' = [toServer EXCEPT ![c] = Torn(@)]
        /\ SessionGoes(c, Dispatch(request'[c].kind))
        /\ UNCHANGED <<ends, toClient, waiters, clientVars, gone, parentVars>>
    BY <1>2, <1>5 DEF ReadRequest, OnlySession, Leftover
  <2>2. Dispatch(request'[c].kind) = "invalid"
    <3>1. request'[c] = Invalid
      BY <2>1 DEF Types, SessionTypes
    <3> QED BY <3>1 DEF Dispatch, Invalid, FileKinds
  <2>3. session'[c] = "invalid"
    BY <2>1, <2>2 DEF SessionGoes, Types, SessionTypes
  <2>4. \/ toServer'[c] = Tail(toServer[c])
        \/ Len(toServer[c]) > 1 /\ toServer'[c] = Torn(toServer[c])
    BY <2>1 DEF Types, FifoTypes
  <2>5. /\ Attended(c)
        /\ UNCHANGED <<client, command, response, left>>
    BY <2>1 DEF Attended, ClientSame, Apart, clientVars, commandVars, parentVars
  <2>6. Connected(c)'
    BY <1>1, <1>3, <2>1, <2>3, <2>5, StaysConnected DEF Connected
  <2>7. /\ Has(c, RDReaders)' /\ toClient'[c] = <<>>
    BY <1>3, <2>1 DEF Has, Straying
  <2>8. CASE Junk(toServer[c])
    <3>1. Junk(toServer'[c])
      BY <1>2, <2>4, <2>8, JunkTaken
    <3>2. \/ client[c] \in {"prompt", "open", "write"} \cup Awaiting
          \/ /\ client[c] = "answered"
             /\ Accepted(c, response[c])
          \/ /\ client[c] = "send" /\ command[c].kind = "UPLOAD"
             /\ response[c].n = command[c].n
      BY DEF Straying
    <3> QED BY <1>2, <2>3, <2>5, <2>6, <2>7, <3>1, <3>2 DEF Straying, Accepted
  <2>9. CASE client[c] \in Awaiting /\ ~Junk(toServer[c])
    <3>1. Junk(toServer'[c]) \/ Trailing(toServer'[c], command[c])
      BY <1>5, <2>4, <2>9
    <3> QED BY <2>3, <2>5, <2>6, <2>7, <2>9, <3>1 DEF Straying
  <2> QED BY <1>5, <2>8, <2>9
<1> QED BY <1>2, <1>3, <1>4, <1>5, JunkTaken

LEMMA SessionLeavesAlone ==
  ASSUME Types, NEW c \in Clients, SessionStep(c)
  PROVE  /\ UNCHANGED <<commandVars, scenario>>
         /\ \/ client'[c] = client[c]
            \/ client[c] = "opening" /\ client'[c] = "write"
            \/ client[c] = "openingResponse" /\ client'[c] = "header"
         /\ session[c] \notin Over \/ SessionTerm(c)
<1> DEFINE same == UNCHANGED clientVars /\ scenario' = scenario
           alive == session[c] \notin Over
           moved == /\ UNCHANGED <<commandVars, scenario>>
                    /\ \/ client' = client
                       \/ client' = [client EXCEPT ![c] = "header"]
                            /\ client[c] = "openingResponse"
<1>1. CASE SessionTerm(c)
  BY <1>1 DEF SessionTerm, clientVars
<1>2. CASE OpenRequest(c)
  BY <1>2 DEF OpenRequest, parentVars, Over, Types, ClientTypes
<1>3. CASE Quit(c) \/ KillServer(c)
  BY <1>3 DEF Quit, KillServer, Bye, clientVars, Over
<1>4. CASE ReadRequest(c) \/ PassOver(c) \/ SemWait(c) \/ Broken(c)
           \/ WriteHeader(c) \/ WritePacket(c) \/ Close(c) \/ ReadAnswer(c)
           \/ Truncate(c) \/ Keep(c) \/ Receive(c) \/ Received(c) \/ Post(c)
           \/ ReadFails(c) \/ CreateFails(c) \/ WriteFails(c)
  <2>1. PICK from \in {"read", "invalid", "wait", "write", "packets", "close",
                       "answer", "truncate", "keep", "receive", "post"} :
          OnlySession(c, from)
    BY <1>4 DEF ReadRequest, PassOver, SemWait, Broken, WriteHeader,
                WritePacket, Close, ReadAnswer, Truncate, Keep, Receive,
                Received, Post, ReadFails, CreateFails, WriteFails
  <2> QED BY <2>1 DEF OnlySession, clientVars, parentVars, Over
<1>5. CASE HandleHelp(c) \/ HandleList(c) \/ HandleReadFrom(c)
           \/ HandleWriteTo(c) \/ HandleDownload(c) \/ HandleUpload(c)
           \/ HandleArchServer(c) \/ RespondAgain(c)
  <2>1. session[c] \in {"handle", "second"} /\ scenario' = scenario
    BY <1>5 DEF HandleHelp, HandleList, HandleReadFrom, HandleWriteTo,
                HandleDownload, HandleUpload, HandleArchServer, RespondAgain,
                Handling, parentVars
  <2>2. UNCHANGED clientVars \/ \E kind, size : Respond(c, kind, size)
    <3>1. CASE HandleHelp(c) \/ HandleList(c)
      BY <3>1 DEF HandleHelp, HandleList, GiveUp
    <3>2. CASE HandleReadFrom(c) \/ HandleDownload(c)
      BY <3>2 DEF HandleReadFrom, HandleDownload, GiveUp
    <3>3. CASE HandleWriteTo(c) \/ HandleUpload(c)
      BY <3>3 DEF HandleWriteTo, HandleUpload, GiveUp
    <3>4. CASE HandleArchServer(c) \/ RespondAgain(c)
      BY <3>4 DEF HandleArchServer, RespondAgain, GiveUp, ChildGoesOn
    <3> QED BY <1>5, <3>1, <3>2, <3>3, <3>4
  <2>3. CASE UNCHANGED clientVars
    BY <2>1, <2>3 DEF clientVars, Over
  <2>4. CASE \E kind, size : Respond(c, kind, size)
    BY <2>1, <2>4 DEF Respond, Over, Types, ClientTypes
  <2> QED BY <2>2, <2>3, <2>4
<1> QED BY <1>1, <1>2, <1>3, <1>4, <1>5 DEF SessionStep

LEMMA SessionTalks ==
  ASSUME Types, NEW c \in Clients, InTouch(c), Leaving(c), SessionStep(c)
  PROVE  InTouch(c)' /\ Leaving(c)'
<1>1. /\ UNCHANGED <<commandVars, scenario>>
      /\ \/ client'[c] = client[c]
         \/ client[c] = "opening" /\ client'[c] = "write"
         \/ client[c] = "openingResponse" /\ client'[c] = "header"
      /\ session[c] \notin Over \/ SessionTerm(c)
  BY SessionLeavesAlone
<1>2. Leaving(c)'
  BY <1>1 DEF Leaving, commandVars
<1>3. ASSUME Conversing(c)'
      PROVE  (Talking(c)' \/ Straying(c)') /\ Connected(c)'
  <2>1. ~SessionTerm(c)
    BY <1>3 DEF SessionTerm, SessionGoes, Conversing, Over, Types, SessionTypes
  <2>2. Conversing(c)
    BY <1>1, <1>3, <2>1, ConversingBefore DEF commandVars
  <2>3. Connected(c) /\ command[c].kind # "QUIT"
    BY <2>2 DEF InTouch, Conversing
  <2>4. CASE Talking(c)
    <3>1. ~PassOver(c)
      BY <2>4
      DEF PassOver, OnlySession, Talking, SessionDone, Uploading, Keeping,
          Follows, Delivering, Accepting, Archiving, Served, Asked, Responded,
          OneWay, Onward, Between
    <3> QED BY <1>3, <2>1, <2>3, <2>4, <3>1, OpenRequestTalks,
               ReadRequestTalks, SemWaitTalks, ByeTalks, HandlersTalk,
               RespondAgainTalks, BrokenNever, WriteHeaderTalks,
               WritePacketTalks, CloseTalks, ReadAnswerTalks, TruncateTalks,
               KeepTalks, ReceiveTalks, ReceivedTalks, ReadFailsTalks,
               CreateFailsStrays, WriteFailsStrays, PostTalks DEF SessionStep
  <2>5. CASE Straying(c)
    <3>1. session[c] \in Between \cup {"invalid"}
      BY <2>5 DEF Straying
    <3>2. OpenRequest(c) \/ ReadRequest(c) \/ PassOver(c) \/ Post(c)
      BY <2>1, <3>1
      DEF SessionStep, SemWait, Quit, KillServer, Bye, HandleHelp, HandleList,
          HandleReadFrom, HandleWriteTo, HandleDownload, HandleUpload,
          HandleArchServer, Handling, RespondAgain, Broken, WriteHeader,
          WritePacket, Close, ReadAnswer, Truncate, Keep, Receive, Received,
          ReadFails, CreateFails, WriteFails, OnlySession, Between
    <3> QED BY <2>3, <2>5, <3>2, SessionStrays, ReadRequestStrays
  <2> QED BY <2>2, <2>4, <2>5 DEF InTouch
<1> QED BY <1>2, <1>3 DEF InTouch

-----------------------------------------------------------------------------
(* Steps of the client.                                                    *)
Rests(c) == HandlerSame(c) /\ session'[c] = session[c] /\ Apart(c)

LEMMA OnlyClientRests ==
  ASSUME NEW c \in Clients, NEW from, OnlyClient(c, from), gone' = gone
  PROVE  Rests(c)
BY DEF OnlyClient, Rests, HandlerSame, Apart, sessionVars, handlerVars,
       parentVars

LEMMA TypeTalks ==
  ASSUME Types, NEW c \in Clients, NEW k \in scenario.typed[c], Type(c, k),
         Steady(c), Talking(c), Connected(c)
  PROVE  Talking(c)' /\ Connected(c)'
<1>1. /\ client[c] = "prompt" /\ session[c] \in {"opening", "read"}
      /\ UNCHANGED <<past, response, left, fifoVars>>
  BY DEF Type, OnlyClient, Steady
<1>2. /\ client'[c] = "open" /\ command'[c].kind = k
  BY DEF Type, ClientGoes, Types, ClientTypes
<1>3. k \in Kinds
  BY ScenariosAssumption DEF Types, ParentTypes
<1>4. Rests(c)
  BY OnlyClientRests DEF Type, fifoVars
<1>5. toServer[c] = <<>> /\ toClient[c] = <<>> /\ waiters[c] = <<>>
  BY <1>1 DEF Talking, SessionDone, Uploading, Keeping, Connected
<1>6. Talking(c)'
  BY <1>1, <1>2, <1>4, <1>5 DEF Talking, Rests, fifoVars
<1>7. Connected(c)'
  BY <1>1, <1>2, <1>3, <1>4, <1>5
  DEF Connected, Rests, HandlerSame, Apart, Has, fifoVars
<1> QED BY <1>6, <1>7

LEMMA OpenRDTalks ==
  ASSUME Types, NEW c \in Clients, OpenRD(c), Talking(c), Connected(c)
  PROVE  Talking(c)' /\ Connected(c)'
<1>1. /\ client[c] = "open" /\ session[c] \in {"opening", "read"}
      /\ toServer[c] = <<>> /\ toClient[c] = <<>> /\ "sRD" \in ends[c]
  BY DEF OpenRD, Talking, Connected
<1>2. Has(c, RDReaders)
  BY <1>1 DEF Has, RDReaders
<1>3. /\ client'[c] = "write" /\ session'[c] = "read"
      /\ Descriptors(c, ends[c] \cup {"cRD"})
      /\ UNCHANGED <<commandVars, gone, waiters, parentVars>>
  BY <1>1, <1>2 DEF OpenRD, ClientGoes, Types, ClientTypes, SessionTypes
<1>4. /\ ends'[c] = ends[c] \cup {"cRD"} /\ toServer'[c] = <<>>
      /\ toClient'[c] = <<>>
  BY <1>1, <1>3, NothingLost DEF Types
<1>5. Talking(c)'
  BY <1>3, <1>4 DEF Talking
<1>6. Connected(c)'
  BY <1>1, <1>3, <1>4
  DEF Connected, Has, RDWriters, commandVars, parentVars
<1> QED BY <1>5, <1>6

LEMMA WriteRequestTalks ==
  ASSUME Types, NEW c \in Clients, WriteRequest(c), Talking(c), Connected(c),
         command[c].kind # "QUIT"
  PROVE  Talking(c)' /\ Connected(c)'
<1>1. /\ client[c] = "write" /\ session[c] = "read" /\ toServer[c] = <<>>
      /\ toClient[c] = <<>> /\ "sRD" \in ends[c]
  BY DEF WriteRequest, ClientWrites, OnlyClient, Talking, Connected
<1>2. Has(c, RDReaders)
  BY <1>1 DEF Has, RDReaders
<1>3. /\ ClientGoes(c, "openResponse") /\ ToServer(c, command[c])
      /\ UNCHANGED <<command, past, response, gone, left>>
  BY <1>2 DEF WriteRequest, ClientWrites
<1>4. /\ client'[c] = "openResponse" /\ toServer'[c] = <<command[c]>>
      /\ UNCHANGED <<ends, toClient>>
  BY <1>1, <1>3 DEF ClientGoes, ToServer, Types, ClientTypes, FifoTypes
<1>5. Rests(c)
  BY <1>3, OnlyClientRests DEF WriteRequest, ClientWrites
<1>6. Talking(c)'
  BY <1>1, <1>3, <1>4, <1>5 DEF Talking, Asked, Rests
<1>7. Connected(c)'
  BY <1>1, <1>3, <1>4, <1>5 DEF Connected, Rests, HandlerSame, Apart, Has
<1> QED BY <1>6, <1>7

LEMMA OpenWRTalks ==
  ASSUME Types, NEW c \in Clients, OpenWR(c), Talking(c), Connected(c)
  PROVE  Talking(c)' /\ Connected(c)'
<1>1. client[c] = "openResponse" /\ "cRD" \in ends[c]
  BY DEF OpenWR, Connected
<1>2. /\ client'[c] =
           IF Has(c, WRWriters) THEN "header" ELSE "openingResponse"
      /\ session'[c] = IF session[c] = "openingResponse" THEN "write"
                       ELSE session[c]
      /\ Descriptors(c, ends[c] \cup {"cWR"})
      /\ UNCHANGED <<commandVars, gone, request, waiters, handlerVars,
                     parentVars>>
  BY <1>1 DEF OpenWR, ClientGoes, Types, ClientTypes, SessionTypes
<1>3. /\ ends'[c] = ends[c] \cup {"cWR"} /\ toServer'[c] = toServer[c]
      /\ toClient'[c] = toClient[c]
  BY <1>1, <1>2, NothingLost DEF Types, RDWriters, WRReaders
<1>4. Asked(c) => Asked(c)'
  BY <1>2, <1>3 DEF Asked, commandVars
<1>5. Served(c) => Served(c)'
  BY <1>2, <1>3 DEF Served, commandVars, handlerVars
<1>6. Responded(c) => Responded(c)'
  BY <1>2, <1>3
  DEF Responded, Follows, Delivering, Accepting, Archiving, Uploading,
      Unwritten, SessionDone, Between, commandVars, handlerVars
<1>7. Talking(c)'
  BY <1>1, <1>2, <1>4, <1>5, <1>6 DEF Talking
<1>8. Connected(c)'
  BY <1>1, <1>2, <1>3
  DEF Connected, Has, WRReaders, WRWriters, RDWriters, commandVars, parentVars
<1> QED BY <1>7, <1>8

LEMMA ReadHeaderTalks ==
  ASSUME Types, NEW c \in Clients, ReadHeader(c), Talking(c), Connected(c)
  PROVE  Talking(c)' /\ Connected(c)'
<1>1. client[c] = "header" /\ toClient[c] # <<>>
  BY DEF ReadHeader, OnlyClient, Connected
<1>2. /\ client'[c] = "answered" /\ response'[c] = Head(toClient[c])
      /\ toClient'[c] = Tail(toClient[c])
      /\ UNCHANGED <<command, past, left, ends, toServer, gone>>
  BY <1>1 DEF ReadHeader, ClientGoes, Types, ClientTypes, FifoTypes
<1>3. Rests(c)
  BY <1>2, OnlyClientRests DEF ReadHeader
<1>4. Responded(c)
  BY <1>1 DEF Talking, Asked, Served
<1>5. /\ Len(toClient'[c]) = Len(toClient[c]) - 1
      /\ \A i \in 1..Len(toClient'[c]) : toClient'[c][i] = toClient[c][i + 1]
      /\ Len(toClient[c]) \in Nat
  BY <1>1, <1>2, HeadTailProperties, LenProperties DEF Types, FifoTypes
<1>6. Archiving(c) => Archiving(c)'
  BY <1>2, <1>3, <1>5 DEF Archiving, Numbered, Rests, HandlerSame
<1>7. PICK r : r = Head(toClient[c])
  OBVIOUS
<1>8. Follows(c, r, r.size, Len(toClient[c]) - 1) /\ Fits(command[c].kind, r)
  BY <1>4, <1>7 DEF Responded
<1>9. Follows(c, response[c], response[c].size, Len(toClient[c]))'
  BY <1>2, <1>3, <1>5, <1>6, <1>7, <1>8
  DEF Follows, Delivering, Accepting, Uploading, Unwritten, SessionDone,
      Rests, HandlerSame
<1>10. Fits(command[c].kind, response[c])'
  BY <1>2, <1>7, <1>8
<1>11. Talking(c)'
  BY <1>2, <1>9, <1>10 DEF Talking
<1>12. Connected(c)'
  BY <1>1, <1>2, <1>3 DEF Connected, Rests, HandlerSame, Apart, Has
<1> QED BY <1>11, <1>12

LEMMA ReadPacketTalks ==
  ASSUME Types, NEW c \in Clients, ReadPacket(c), Talking(c), Connected(c)
  PROVE  Talking(c)' /\ Connected(c)'
<1>1. /\ client[c] = "packets" /\ left[c] \in Nat /\ left[c] > 0
      /\ command[c].kind # "UPLOAD"
      /\ Follows(c, response[c], left[c], Len(toClient[c]))
  BY BoundsAssumption
  DEF ReadPacket, OnlyClient, Talking, Types, ClientTypes
<1>2. \/ toClient[c] # <<>> /\ toClient'[c] = Tail(toClient[c])
      \/ /\ toClient[c] = <<>> /\ toClient'[c] = <<>>
         /\ session[c] # "packets"
  BY DEF ReadPacket, Connected, Has, WRWriters, Types, FifoTypes
<1>3. /\ left'[c] = left[c] - 1
      /\ UNCHANGED <<client, command, past, response, ends, toServer, gone>>
  BY DEF ReadPacket, Types, ClientTypes
<1>4. Rests(c)
  BY <1>3, OnlyClientRests DEF ReadPacket
<1>5. /\ \/ Len(toClient'[c]) = Len(toClient[c]) - 1
         \/ Len(toClient'[c]) = 0 /\ session[c] # "packets"
      /\ \A i \in 1..Len(toClient'[c]) : toClient'[c][i] = toClient[c][i + 1]
      /\ Len(toClient[c]) \in Nat
      /\ Len(toClient'[c]) + 1 \in 1..(Len(toClient[c]) + 1)
      /\ \A i \in 1..Len(toClient'[c]) : i + 1 \in 1..Len(toClient[c])
  <2>1. toClient[c] \in Seq(Response) /\ Len(toClient[c]) \in Nat
    BY LenProperties DEF Types, FifoTypes
  <2>2. CASE toClient[c] # <<>> /\ toClient'[c] = Tail(toClient[c])
    <3>1. PICK s \in Seq(Response) : s = toClient[c]
      BY <2>1
    <3>2. /\ Len(Tail(s)) = Len(s) - 1 /\ Len(s) \in Nat \ {0}
          /\ \A i \in 1..Len(Tail(s)) : Tail(s)[i] = s[i + 1]
      BY <2>2, <3>1, HeadTailProperties, LenProperties, EmptySeq
    <3>3. toClient'[c] = Tail(s)
      BY <2>2, <3>1
    <3> QED BY <3>1, <3>2, <3>3
  <2>3. CASE toClient[c] = <<>> /\ toClient'[c] = <<>> /\ session[c] # "packets"
    BY <2>3
  <2> QED BY <1>2, <2>2, <2>3
<1>6. Archiving(c) => Archiving(c)'
  BY <1>3, <1>4, <1>5 DEF Archiving, Numbered, Rests, HandlerSame
<1>7. Unwritten(c) \in Nat
  BY BoundsAssumption DEF Unwritten, Types, SessionTypes
<1>8. /\ Unwritten(c)' = Unwritten(c) /\ (SessionDone(c)' <=> SessionDone(c))
      /\ UNCHANGED <<session[c], reply[c], request[c]>>
  BY <1>3, <1>4 DEF Unwritten, SessionDone, Rests, HandlerSame
<1>9. Delivering(c, left[c], Len(toClient[c])) =>
         Delivering(c, left[c], Len(toClient[c]))'
  <2> SUFFICES ASSUME Delivering(c, left[c], Len(toClient[c]))
               PROVE  Delivering(c, left[c], Len(toClient[c]))'
    OBVIOUS
  <2>1. Len(toClient'[c]) + Unwritten(c) <= left'[c]
    BY <1>1, <1>3, <1>5, <1>7 DEF Delivering, Unwritten
  <2> QED BY <1>3, <1>8, <2>1 DEF Delivering
<1>10. Follows(c, response[c], left[c], Len(toClient[c]))'
  BY <1>1, <1>3, <1>6, <1>8, <1>9 DEF Follows
<1>11. Talking(c)'
  BY <1>1, <1>3, <1>10 DEF Talking
<1>12. Connected(c)'
  BY <1>1, <1>2, <1>3, <1>4 DEF Connected, Rests, HandlerSame, Apart, Has
<1> QED BY <1>11, <1>12

LEMMA ToPacketsTalks ==
  ASSUME Types, NEW c \in Clients, Answered(c, Kinds), ToPackets(c),
         command[c].kind # "UPLOAD", Talking(c), Connected(c)
  PROVE  Talking(c)' /\ Connected(c)'
<1>1. /\ client[c] = "answered" /\ client'[c] = "packets"
      /\ left'[c] = response[c].size
      /\ UNCHANGED <<command, past, response, fifoVars>>
  BY DEF Answered, OnlyClient, ToPackets, ClientGoes, Types, ClientTypes
<1>2. Rests(c)
  BY <1>1, OnlyClientRests DEF Answered, fifoVars
<1>3. Follows(c, response[c], left[c], Len(toClient[c]))'
  BY <1>1, <1>2
  DEF Talking, Follows, Delivering, Archiving, Unwritten, SessionDone, Rests,
      HandlerSame, fifoVars
<1>4. Talking(c)'
  BY <1>1, <1>3 DEF Talking
<1>5. Connected(c)'
  BY <1>1, <1>2 DEF Connected, Rests, HandlerSame, Apart, Has, fifoVars
<1> QED BY <1>4, <1>5

(* A client that comes back to its prompt.                                 *)
LEMMA PromptConnects ==
  ASSUME Types, NEW c \in Clients, NEW closed, Prompt(c, closed),
         OnlyClient(c, client[c]), Connected(c), Steady(c)',
         client[c] \notin {"prompt", "open"}, toClient[c] = <<>>,
         session[c] \notin {"openingResponse", "write", "packets"},
         \/ closed \in {{}, {"cWR"}}
         \/ closed = {"cRD", "cWR"} /\ command[c].kind \notin Keepers
  PROVE  /\ Connected(c)' /\ Rests(c) /\ client'[c] = "prompt"
         /\ command' = command /\ toServer'[c] = toServer[c]
         /\ toClient'[c] = <<>>
         /\ Has(c, RDReaders) => Has(c, RDReaders)'
<1>1. /\ client'[c] = "prompt" /\ UNCHANGED <<command, gone>>
      /\ past'[c] = Append(past[c], command[c].kind)
      /\ Descriptors(c, Forgotten(c, {"cRD", "cWR"} \ closed) \ closed)
  BY DEF Prompt, ClientGoes, Types, ClientTypes
<1>2. Rests(c)
  BY <1>1, OnlyClientRests
<1>3. past[c] \in Seq(Kinds \cup {"INVALID"})
  BY DEF Types, ClientTypes
<1>4. /\ Len(past[c]) \in Nat /\ DOMAIN past[c] = 1..Len(past[c])
      /\ Len(past'[c]) = Len(past[c]) + 1
      /\ past'[c][Len(past[c]) + 1] = command[c].kind
      /\ DOMAIN past'[c] = 1..(Len(past[c]) + 1)
      /\ \A i \in 1..Len(past[c]) : past'[c][i] = past[c][i]
  BY <1>1, <1>3, AppendProperties, LenProperties
  DEF Types, ClientTypes, Command
<1>5. \/ command[c].kind \in Keepers
      \/ command[c].kind \in {"LIST", "DOWNLOAD", "UPLOAD"} /\ past[c] # <<>>
  <2>1. Len(past[c]) + 1 \in DOMAIN past'[c]
    BY <1>4
  <2>2. \/ command[c].kind \in Keepers
        \/ /\ command[c].kind \in {"LIST", "DOWNLOAD", "UPLOAD"}
           /\ \E j \in 1..(Len(past[c]) + 1 - 1) : past'[c][j] \in Keepers
    BY <1>4, <2>1 DEF Steady
  <2>3. 1..0 = {} /\ (past[c] = <<>> => Len(past[c]) = 0)
    BY <1>3, EmptySeq
  <2> QED BY <1>4, <2>2, <2>3
<1>6. command[c].kind # "ARCHSERVER" /\ waiters[c] = <<>>
  BY <1>5 DEF Keepers, Connected
<1> DEFINE new == Forgotten(c, {"cRD", "cWR"} \ closed) \ closed
<1>7. /\ "cRD old" \in new
      /\ \A e \in RDReaders : e \in ends[c] => e \in new
  <2>1. "cRD" \in ends[c] /\ (past[c] # <<>> => "cRD old" \in ends[c])
    BY DEF Connected
  <2>2. CASE closed \in {{}, {"cWR"}}
    <3>1. "cRD" \in ({"cRD", "cWR"} \ closed) \cap ends[c]
      BY <2>1, <2>2
    <3>2. Old("cRD") = "cRD old"
      BY DEF Old
    <3>3. "cRD old" \in Forgotten(c, {"cRD", "cWR"} \ closed)
      BY <3>1, <3>2 DEF Forgotten
    <3> QED BY <2>2, <3>3 DEF Forgotten, RDReaders
  <2>3. CASE closed = {"cRD", "cWR"} /\ past[c] # <<>>
    BY <2>1, <2>3 DEF Forgotten, RDReaders
  <2> QED BY <1>5, <2>2, <2>3
<1>8. ends'[c] = new /\ toServer'[c] = toServer[c] /\ toClient'[c] = <<>>
  BY <1>1, <1>7, NothingLost DEF Types, RDWriters
<1>9. Has(c, RDReaders) => Has(c, RDReaders)'
  BY <1>7, <1>8 DEF Has
<1>10. Connected(c)'
  BY <1>1, <1>2, <1>6, <1>7, <1>8
  DEF Connected, Rests, HandlerSame, Apart, Has, RDReaders, RDWriters
<1> QED BY <1>1, <1>2, <1>8, <1>9, <1>10

(* What has come of a command when the client is back at its prompt.       *)
LEMMA PromptTalks ==
  ASSUME Types, NEW c \in Clients, NEW closed, Prompt(c, closed),
         OnlyClient(c, client[c]), Connected(c), Steady(c)',
         client[c] \notin {"prompt", "open"}, toClient[c] = <<>>,
         SessionDone(c) \/ Uploading(c, 0) \/ Keeping(c),
         \/ closed \in {{}, {"cWR"}}
         \/ closed = {"cRD", "cWR"} /\ command[c].kind \notin Keepers
  PROVE  Talking(c)' /\ Connected(c)'
<1>1. session[c] \notin {"openingResponse", "write", "packets"}
  BY DEF SessionDone, Uploading, Keeping, Between
<1>2. /\ Connected(c)' /\ Rests(c) /\ client'[c] = "prompt"
      /\ command' = command /\ toServer'[c] = toServer[c]
      /\ toClient'[c] = <<>>
  BY <1>1, PromptConnects
<1>3. SessionDone(c)' \/ Uploading(c, 0)' \/ Keeping(c)'
  BY <1>2 DEF SessionDone, Uploading, Keeping, Rests, HandlerSame
<1> QED BY <1>2, <1>3 DEF Talking

LEMMA SentAppend ==
  ASSUME NEW S, NEW s \in Seq(S), NEW n, [kind |-> "bytes", n |-> n] \in S,
         NEW all \in Nat, NEW unsent \in Nat, unsent > 0,
         Sent(s, n, all, unsent)
  PROVE  Sent(Append(s, [kind |-> "bytes", n |-> n]), n, all, unsent - 1)
<1> DEFINE m == [kind |-> "bytes", n |-> n]
           t == Append(s, m)
<1>1. m \in S
  OBVIOUS
<1> HIDE DEF m
<1>2. /\ Len(s) \in Nat /\ Len(t) = Len(s) + 1 /\ t[Len(s) + 1] = m
      /\ \A i \in 1..Len(s) : t[i] = s[i]
  BY <1>1, AppendProperties, LenProperties
<1>3. Bytes(t, n)
  BY <1>2 DEF Sent, Bytes, m
<1>4. Len(t) + (unsent - 1) = all
  BY <1>2 DEF Sent
<1> QED BY <1>3, <1>4 DEF Sent, m

(* A client that sends bytes, and its answer before them.                  *)
LEMMA SendTalks ==
  ASSUME Types, NEW c \in Clients, left[c] > 0,
         ClientWrites(c, "send", "send", [kind |-> "bytes", n |-> command[c].n]),
         left' = [left EXCEPT ![c] = @ - 1], Talking(c), Connected(c)
  PROVE  Talking(c)' /\ Connected(c)'
<1> DEFINE m == [kind |-> "bytes", n |-> command[c].n]
<1>1. /\ client[c] = "send" /\ Uploading(c, left[c]) /\ left[c] \in Nat
      /\ toClient[c] = <<>>
  BY BoundsAssumption
  DEF ClientWrites, OnlyClient, Talking, Types, ClientTypes
<1>2. session[c] \in {"close", "answer", "truncate", "receive"}
  BY <1>1 DEF Uploading
<1>3. "sRD" \in ends[c] /\ Has(c, RDReaders)
  BY <1>2 DEF Connected, Has, RDReaders
<1>4. /\ ClientGoes(c, "send") /\ ToServer(c, m)
      /\ UNCHANGED <<command, past, response, gone>>
  BY <1>3 DEF ClientWrites
<1>5. /\ client'[c] = "send" /\ left'[c] = left[c] - 1
      /\ toServer'[c] = Append(toServer[c], m)
      /\ UNCHANGED <<ends, toClient>>
  BY <1>4 DEF ClientGoes, ToServer, Types, ClientTypes, FifoTypes
<1>6. Rests(c)
  BY <1>4, OnlyClientRests DEF ClientWrites
<1>7. /\ toServer[c] \in Seq(Message) /\ m \in Message /\ todo[c] \in Nat
      /\ Packets \in Nat
  <2>1. command[c].n \in Nat
    BY DEF Types, ClientTypes, Command
  <2>2. m \in Message
    BY <2>1 DEF Message
  <2> QED BY <2>2, BoundsAssumption DEF Types, FifoTypes, SessionTypes
<1>8. ASSUME NEW s \in Seq(Message), NEW all \in Nat,
             Sent(s, command[c].n, all, left[c])
      PROVE  Sent(Append(s, m), command'[c].n, all, left'[c])
  BY <1>1, <1>4, <1>5, <1>7, <1>8, SentAppend
<1>9. toServer[c] # <<>> =>
        /\ Tail(toServer[c]) \in Seq(Message)
        /\ Head(toServer'[c]) = Head(toServer[c]) /\ toServer'[c] # <<>>
        /\ Tail(toServer'[c]) = Append(Tail(toServer[c]), m)
  BY <1>5, <1>7, AppendProperties, HeadTailProperties
<1> HIDE DEF m
<1>10. Uploading(c, left[c])'
  <2>1. request'[c] = command'[c] /\ session'[c] = session[c]
        /\ reply'[c] = reply[c] /\ todo'[c] = todo[c]
    BY <1>1, <1>4, <1>6 DEF Uploading, Rests, HandlerSame
  <2>2. CASE session[c] = "close" \/ session[c] = "truncate"
    <3>1. Sent(toServer'[c], command'[c].n, Packets, left'[c])
      BY <1>1, <1>5, <1>7, <1>8, <2>2 DEF Uploading, Between
    <3> QED BY <1>1, <2>1, <2>2, <3>1 DEF Uploading, Between
  <2>3. CASE session[c] = "receive"
    <3>1. Sent(toServer'[c], command'[c].n, todo'[c], left'[c])
      BY <1>1, <1>5, <1>7, <1>8, <2>1, <2>3 DEF Uploading, Between
    <3> QED BY <2>1, <2>3, <3>1 DEF Uploading
  <2>4. CASE session[c] = "answer"
    <3>1. /\ toServer[c] # <<>> /\ Head(toServer[c]).kind = "yes"
          /\ Sent(Tail(toServer[c]), command[c].n, Packets, left[c])
      BY <1>1, <2>4 DEF Uploading, Between
    <3>2. Sent(Tail(toServer'[c]), command'[c].n, Packets, left'[c])
      BY <1>7, <1>8, <1>9, <3>1
    <3> QED BY <1>9, <2>1, <2>4, <3>1, <3>2 DEF Uploading
  <2> QED BY <1>2, <2>2, <2>3, <2>4
<1>11. Talking(c)'
  BY <1>1, <1>4, <1>5, <1>10 DEF Talking
<1>12. Connected(c)'
  BY <1>1, <1>4, <1>5, <1>6 DEF Connected, Rests, HandlerSame, Apart, Has
<1> QED BY <1>11, <1>12

LEMMA OverwriteTalks ==
  ASSUME Types, NEW c \in Clients, Overwrite(c), Talking(c), Connected(c)
  PROVE  Talking(c)' /\ Connected(c)'
<1>1. PICK kind \in {"yes", "no"} :
        /\ ClientWrites(c, "ask", IF kind = "yes" THEN "send" ELSE "kept",
                        [kind |-> kind, n |-> command[c].n])
        /\ kind = "yes" => left' = [left EXCEPT ![c] = Packets]
  BY DEF Overwrite
<1> DEFINE m == [kind |-> kind, n |-> command[c].n]
<1>2. /\ client[c] = "ask" /\ session[c] = "answer" /\ toServer[c] = <<>>
      /\ request[c] = command[c] /\ toClient[c] = <<>>
      /\ "sRD" \in ends[c]
  BY <1>1 DEF ClientWrites, OnlyClient, Talking, Connected
<1>3. Has(c, RDReaders)
  BY <1>2 DEF Has, RDReaders
<1>4. /\ ClientGoes(c, IF kind = "yes" THEN "send" ELSE "kept")
      /\ ToServer(c, m) /\ UNCHANGED <<command, past, response, gone>>
  BY <1>1, <1>3 DEF ClientWrites
<1>5. /\ client'[c] = IF kind = "yes" THEN "send" ELSE "kept"
      /\ toServer'[c] = <<m>> /\ UNCHANGED <<ends, toClient>>
      /\ kind = "yes" => left'[c] = Packets
  BY <1>1, <1>2, <1>4
  DEF ClientGoes, ToServer, Types, ClientTypes, FifoTypes
<1>6. Rests(c)
  BY <1>1, <1>4, OnlyClientRests DEF ClientWrites
<1>7. /\ toServer'[c] # <<>> /\ Head(toServer'[c]).kind = kind
      /\ Tail(toServer'[c]) = <<>>
  BY <1>5
<1>8. Sent(<<>>, command[c].n, Packets, Packets)
  BY BoundsAssumption, EmptySeq DEF Sent, Bytes
<1>9. kind = "yes" => Uploading(c, left[c])'
  BY <1>2, <1>4, <1>5, <1>6, <1>7, <1>8
  DEF Uploading, Rests, HandlerSame
<1>10. kind = "no" => Keeping(c)'
  BY <1>2, <1>6, <1>7 DEF Keeping, Rests
<1>11. Talking(c)'
  BY <1>2, <1>4, <1>5, <1>9, <1>10 DEF Talking
<1>12. Connected(c)'
  BY <1>2, <1>4, <1>5, <1>6 DEF Connected, Rests, HandlerSame, Apart, Has
<1> QED BY <1>11, <1>12

(* Nothing is left of a response that has been read to its end.            *)
LEMMA NothingLeft ==
  ASSUME Types, NEW c \in Clients, Delivering(c, 0, Len(toClient[c]))
  PROVE  SessionDone(c) /\ toClient[c] = <<>>
<1>1. Len(toClient[c]) \in Nat /\ Unwritten(c) \in Nat
  BY BoundsAssumption, LenProperties
  DEF Unwritten, Types, FifoTypes, SessionTypes
<1>2. Len(toClient[c]) = 0 /\ Unwritten(c) = 0
  BY <1>1 DEF Delivering
<1>3. session[c] # "packets"
  BY <1>2, BoundsAssumption DEF Unwritten, Types, SessionTypes
<1>4. toClient[c] = <<>>
  BY <1>2, EmptySeq DEF Types, FifoTypes
<1> QED BY <1>3, <1>4 DEF Delivering

(* The command that a steady client is done with.                          *)
LEMMA SteadyKinds ==
  ASSUME Types, NEW c \in Clients, Steady(c)',
         past'[c] = Append(past[c], command[c].kind)
  PROVE  command[c].kind \in Keepers \cup {"LIST", "DOWNLOAD", "UPLOAD"}
<1>1. past[c] \in Seq(Kinds \cup {"INVALID"})
  BY DEF Types, ClientTypes
<1>2. /\ Len(past[c]) \in Nat /\ Len(past[c]) + 1 \in DOMAIN past'[c]
      /\ past'[c][Len(past[c]) + 1] = command[c].kind
  BY <1>1, AppendProperties, LenProperties DEF Types, ClientTypes, Command
<1> QED BY <1>2 DEF Steady

LEMMA AnsweredTalks ==
  ASSUME Types, NEW c \in Clients,
         \/ ClientOneMessage(c) \/ ClientReadF(c) \/ ClientList(c)
         \/ ClientDownload(c),
         Talking(c), Connected(c), Steady(c)'
  PROVE  Talking(c)' /\ Connected(c)'
<1>1. CASE Answered(c, Kinds) /\ command[c].kind # "UPLOAD" /\ ToPackets(c)
  BY <1>1, ToPacketsTalks
<1>2. ASSUME NEW closed, Prompt(c, closed), OnlyClient(c, client[c]),
             \/ closed \in {{}, {"cWR"}}
             \/ closed = {"cRD", "cWR"} /\ command[c].kind \notin Keepers,
             \/ /\ client[c] = "answered"
                /\ \/ command[c].kind \in {"HELP", "WRITETO", "KILLSERVER"}
                   \/ response[c].kind = "ERROR"
             \/ client[c] = "packets" /\ left[c] = 0
      PROVE  Talking(c)' /\ Connected(c)'
  <2>1. command[c].kind \in OneWay \cup {"UPLOAD"}
    <3>1. past'[c] = Append(past[c], command[c].kind)
      BY <1>2 DEF Prompt, Types, ClientTypes
    <3> QED BY <3>1, SteadyKinds DEF Keepers, OneWay
  <2>2. command[c].kind \in OneWay
    BY <1>2, <2>1 DEF Talking, Fits
  <2>3. Delivering(c, 0, Len(toClient[c]))
    <3>1. CASE client[c] = "answered"
      <4>1. response[c].size = 0
        BY <1>2, <2>2, <3>1, BoundsAssumption DEF Talking, Fits, OneWay
      <4> QED BY <2>2, <3>1, <4>1 DEF Talking, Follows
    <3>2. CASE client[c] = "packets"
      BY <1>2, <2>2, <3>2 DEF Talking, Follows
    <3> QED BY <1>2, <3>1, <3>2
  <2>4. SessionDone(c) /\ toClient[c] = <<>>
    BY <2>3, NothingLeft
  <2> QED BY <1>2, <2>4, PromptTalks
<1>3. CASE ClientOneMessage(c)
  BY <1>2, <1>3 DEF ClientOneMessage, Answered, OnlyClient
<1>4. CASE ClientReadF(c)
  BY <1>1, <1>2, <1>4
  DEF ClientReadF, Failed, Succeeded, Done, Answered, OnlyClient, Kinds,
      FileKinds
<1>5. CASE ClientList(c)
  BY <1>1, <1>2, <1>5
  DEF ClientList, Done, Answered, OnlyClient, Kinds, FileKinds, Keepers
<1>6. CASE ClientDownload(c)
  BY <1>1, <1>2, <1>6
  DEF ClientDownload, Failed, Succeeded, Done, Answered, OnlyClient, Kinds,
      FileKinds, Keepers
<1> QED BY <1>3, <1>4, <1>5, <1>6

LEMMA UploadTalks ==
  ASSUME Types, NEW c \in Clients, ClientUpload(c), Talking(c), Connected(c),
         Steady(c)'
  PROVE  Talking(c)' /\ Connected(c)'
<1>1. CASE Failed(c, {"UPLOAD"}) /\ Prompt(c, {})
  BY <1>1 DEF Failed, Answered, OnlyClient, Talking, Fits
<1>2. CASE Succeeded(c, {"UPLOAD"})
  <2>1. /\ client[c] = "answered" /\ command[c].kind = "UPLOAD"
        /\ UNCHANGED <<command, past, response, fifoVars>>
        /\ client'[c] = IF response[c].kind = "ASK" THEN "ask" ELSE "send"
        /\ response[c].kind # "ASK" => left'[c] = Packets
    BY <1>2 DEF ClientUpload, Failed, Succeeded, Answered, OnlyClient,
                ClientWrites, ClientGoes, Types, ClientTypes
  <2>2. /\ Accepting(c, response[c]) /\ request[c] = command[c]
        /\ response[c].n = command[c].n /\ Len(toClient[c]) = 0
        /\ response[c].kind \in {"UPLOAD", "ASK"}
    BY <2>1 DEF Talking, Follows, Fits
  <2>3. toClient[c] = <<>>
    BY <2>2, EmptySeq DEF Types, FifoTypes
  <2>4. Rests(c)
    BY <1>2, <2>1, OnlyClientRests DEF Succeeded, Answered, fifoVars
  <2>5. response[c].kind = "ASK" =>
          session[c] = "answer" /\ toServer[c] = <<>>
    BY <2>2 DEF Accepting
  <2>6. response[c].kind = "UPLOAD" => Uploading(c, left[c])'
    BY <2>1, <2>2, <2>4
    DEF Accepting, Uploading, Rests, HandlerSame, fifoVars
  <2>7. Talking(c)'
    BY <2>1, <2>2, <2>3, <2>4, <2>5, <2>6
    DEF Talking, Rests, HandlerSame, fifoVars
  <2>8. Connected(c)'
    BY <2>1, <2>3, <2>4 DEF Connected, Rests, HandlerSame, Apart, Has, fifoVars
  <2> QED BY <2>7, <2>8
<1>3. CASE /\ left[c] > 0
           /\ ClientWrites(c, "send", "send",
                           [kind |-> "bytes", n |-> command[c].n])
           /\ left' = [left EXCEPT ![c] = @ - 1]
  BY <1>3, SendTalks
<1>4. CASE OnlyClient(c, "send") /\ left[c] = 0 /\ Prompt(c, {"cRD", "cWR"})
  <2>1. Uploading(c, 0) /\ toClient[c] = <<>> /\ command[c].kind = "UPLOAD"
    BY <1>4 DEF OnlyClient, Talking
  <2>2. client[c] = "send" /\ OnlyClient(c, client[c])
    BY <1>4 DEF OnlyClient
  <2> QED BY <1>4, <2>1, <2>2, PromptTalks DEF Keepers
<1>5. CASE OnlyClient(c, "kept") /\ Prompt(c, {})
  <2>1. Keeping(c) /\ toClient[c] = <<>>
    BY <1>5 DEF OnlyClient, Talking
  <2>2. client[c] = "kept" /\ OnlyClient(c, client[c])
    BY <1>5 DEF OnlyClient
  <2> QED BY <1>5, <2>1, <2>2, PromptTalks
<1> QED BY <1>1, <1>2, <1>3, <1>4, <1>5 DEF ClientUpload

(* A client whose upload has been broken off.                              *)
LEMMA TypeStrays ==
  ASSUME Types, NEW c \in Clients, NEW k \in scenario.typed[c], Type(c, k),
         Steady(c), Straying(c), Connected(c)
  PROVE  Straying(c)' /\ Connected(c)'
<1>1. /\ client[c] = "prompt" /\ session[c] \in {"opening", "read"}
      /\ UNCHANGED <<past, response, left, fifoVars>>
  BY DEF Type, OnlyClient, Steady
<1>2. /\ client'[c] = "open" /\ command'[c].kind = k
  BY DEF Type, ClientGoes, Types, ClientTypes
<1>3. k \in Kinds
  BY ScenariosAssumption DEF Types, ParentTypes
<1>4. Rests(c)
  BY OnlyClientRests DEF Type, fifoVars
<1>5. /\ toClient[c] = <<>> /\ Junk(toServer[c]) /\ Has(c, RDReaders)
      /\ waiters[c] = <<>>
  BY <1>1 DEF Straying, Connected, Awaiting
<1>6. Straying(c)'
  BY <1>1, <1>2, <1>4, <1>5 DEF Straying, Rests, Has, Between, fifoVars
<1>7. Connected(c)'
  BY <1>1, <1>2, <1>3, <1>4, <1>5
  DEF Connected, Rests, HandlerSame, Apart, Has, fifoVars
<1> QED BY <1>6, <1>7

LEMMA OpensStray ==
  ASSUME Types, NEW c \in Clients, OpenRD(c) \/ OpenWR(c), Straying(c),
         Connected(c)
  PROVE  Straying(c)' /\ Connected(c)'
<1>1. session[c] \in Between \cup {"invalid"} /\ Has(c, RDReaders)
  BY DEF Straying
<1>2. CASE OpenRD(c)
  <2>1. /\ client[c] = "open" /\ toClient[c] = <<>> /\ Junk(toServer[c])
    BY <1>2 DEF OpenRD, Straying, Awaiting
  <2>2. /\ client'[c] = "write"
        /\ session'[c] = IF session[c] = "opening" THEN "read" ELSE session[c]
        /\ Descriptors(c, ends[c] \cup {"cRD"})
        /\ UNCHANGED <<commandVars, gone, waiters, parentVars>>
    BY <1>1, <1>2, <2>1 DEF OpenRD, ClientGoes, Types, ClientTypes, SessionTypes
  <2>3. /\ ends'[c] = ends[c] \cup {"cRD"} /\ toServer'[c] = toServer[c]
        /\ toClient'[c] = <<>>
    BY <2>1, <2>2, NothingLost DEF Types, RDWriters
  <2>4. Straying(c)'
    BY <1>1, <2>1, <2>2, <2>3 DEF Straying, Has, Between
  <2>5. Connected(c)'
    BY <1>1, <2>1, <2>2, <2>3
    DEF Connected, Has, RDWriters, Between, commandVars, parentVars
  <2> QED BY <2>4, <2>5
<1>3. CASE OpenWR(c)
  <2>1. client[c] = "openResponse" /\ "cRD" \in ends[c]
    BY <1>3 DEF OpenWR, Connected
  <2>2. /\ client'[c] =
             IF Has(c, WRWriters) THEN "header" ELSE "openingResponse"
        /\ session'[c] = session[c]
        /\ Descriptors(c, ends[c] \cup {"cWR"})
        /\ UNCHANGED <<commandVars, gone, waiters, parentVars>>
    BY <1>1, <1>3, <2>1
    DEF OpenWR, ClientGoes, Between, Types, ClientTypes, SessionTypes
  <2>3. /\ ends'[c] = ends[c] \cup {"cWR"} /\ toServer'[c] = toServer[c]
        /\ toClient'[c] = toClient[c]
    BY <2>1, <2>2, NothingLost DEF Types, RDWriters, WRReaders
  <2>4. Straying(c)'
    BY <1>1, <2>1, <2>2, <2>3
    DEF Straying, Accepted, Awaiting, Has, commandVars
  <2>5. Connected(c)'
    BY <2>1, <2>2, <2>3
    DEF Connected, Has, WRReaders, WRWriters, RDWriters, commandVars, parentVars
  <2> QED BY <2>4, <2>5
<1> QED BY <1>2, <1>3

LEMMA WritesStray ==
  ASSUME Types, NEW c \in Clients, Straying(c), Connected(c),
         \/ WriteRequest(c) /\ command[c].kind # "QUIT"
         \/ /\ left[c] > 0
            /\ ClientWrites(c, "send", "send",
                            [kind |-> "bytes", n |-> command[c].n])
  PROVE  Straying(c)' /\ Connected(c)'
<1>1. session[c] \in Between \cup {"invalid"} /\ Has(c, RDReaders)
  BY DEF Straying
<1>2. PICK m : m = IF client[c] = "write" THEN command[c]
                   ELSE [kind |-> "bytes", n |-> command[c].n]
  OBVIOUS
<1>3. /\ client[c] \in {"write", "send"}
      /\ client'[c] = IF client[c] = "write" THEN "openResponse" ELSE "send"
      /\ ToServer(c, m) /\ UNCHANGED <<command, past, response, gone>>
  BY <1>1, <1>2
  DEF WriteRequest, ClientWrites, OnlyClient, ClientGoes, Types, ClientTypes
<1>4. /\ toClient[c] = <<>> /\ Junk(toServer[c])
      /\ client[c] = "send" =>
           command[c].kind = "UPLOAD" /\ response[c].n = command[c].n
  BY <1>3 DEF Straying, Awaiting
<1>5. /\ m \in Message /\ toServer[c] \in Seq(Message)
      /\ client[c] = "send" => m.kind \in Leftover
  <2>1. command[c] \in Command /\ toServer[c] \in Seq(Message)
    BY DEF Types, ClientTypes, FifoTypes
  <2>2. CASE client[c] = "write"
    BY <1>2, <2>1, <2>2 DEF Command, Message, RequestKinds
  <2>3. CASE client[c] = "send"
    BY <1>2, <2>1, <2>3 DEF Command, Message, Leftover
  <2> QED BY <1>3, <2>1, <2>2, <2>3
<1>6. /\ toServer'[c] = Append(toServer[c], m) /\ ends' = ends
      /\ toClient' = toClient
  BY <1>3 DEF ToServer, Types, FifoTypes
<1>7. Rests(c)
  BY <1>3, OnlyClientRests DEF WriteRequest, ClientWrites
<1>8. /\ client[c] = "write" => Trailing(toServer'[c], command'[c])
      /\ client[c] = "send" => Junk(toServer'[c])
  BY <1>2, <1>3, <1>4, <1>5, <1>6, JunkAppend
<1>9. Straying(c)'
  BY <1>1, <1>3, <1>4, <1>6, <1>7, <1>8
  DEF Straying, Awaiting, Rests, Has, Between
<1>10. Connected(c)'
  BY <1>1, <1>3, <1>4, <1>6, <1>7
  DEF Connected, Rests, HandlerSame, Apart, Has, Between
<1> QED BY <1>9, <1>10

LEMMA ReadHeaderStrays ==
  ASSUME Types, NEW c \in Clients, ReadHeader(c), Straying(c), Connected(c)
  PROVE  Straying(c)' /\ Connected(c)'
<1>1. client[c] = "header" /\ toClient[c] # <<>>
  BY DEF ReadHeader, OnlyClient, Connected
<1>2. /\ client'[c] = "answered" /\ response'[c] = Head(toClient[c])
      /\ toClient'[c] = Tail(toClient[c])
      /\ UNCHANGED <<command, past, left, ends, toServer, gone>>
  BY <1>1 DEF ReadHeader, ClientGoes, Types, ClientTypes, FifoTypes
<1>3. Rests(c)
  BY <1>2, OnlyClientRests DEF ReadHeader
<1>4. Len(toClient[c]) = 1 /\ Accepted(c, Head(toClient[c]))
  BY <1>1 DEF Straying
<1>5. toClient'[c] = <<>>
  <2>1. PICK s \in Seq(Response) : s = toClient[c]
    BY DEF Types, FifoTypes
  <2>2. Tail(s) \in Seq(Response) /\ Len(Tail(s)) = 0
    BY <1>1, <1>4, <2>1, HeadTailProperties
  <2> QED BY <1>2, <2>1, <2>2, EmptySeq
<1>6. Straying(c)'
  BY <1>2, <1>3, <1>4, <1>5
  DEF Straying, Accepted, Rests, Has
<1>7. Connected(c)'
  BY <1>1, <1>2, <1>3, <1>5
  DEF Connected, Rests, HandlerSame, Apart, Has, Straying, Between
<1> QED BY <1>6, <1>7

LEMMA UploadStrays ==
  ASSUME Types, NEW c \in Clients, ClientUpload(c), Straying(c), Connected(c),
         Steady(c)'
  PROVE  Straying(c)' /\ Connected(c)'
<1>1. CASE Failed(c, {"UPLOAD"}) /\ Prompt(c, {})
  BY <1>1 DEF Failed, Answered, OnlyClient, Straying, Accepted, Awaiting
<1>2. CASE Succeeded(c, {"UPLOAD"})
  <2>1. /\ client[c] = "answered"
        /\ toClient[c] = <<>> /\ Accepted(c, response[c])
    BY <1>2 DEF Succeeded, Answered, OnlyClient, Straying, Awaiting
  <2>2. /\ client'[c] = "send"
        /\ UNCHANGED <<command, past, response, fifoVars>>
    BY <1>2, <2>1
    DEF ClientUpload, Accepted, Failed, Succeeded, Answered, OnlyClient,
        ClientWrites, ClientGoes, Types, ClientTypes
  <2>3. Rests(c)
    BY <1>2, <2>2, OnlyClientRests DEF Succeeded, Answered, fifoVars
  <2>4. Junk(toServer'[c])
    BY <2>1, <2>2, NoJunk DEF Accepted, fifoVars
  <2>5. Straying(c)'
    BY <2>1, <2>2, <2>3, <2>4
    DEF Straying, Accepted, Rests, Has, fifoVars
  <2>6. Connected(c)'
    BY <2>1, <2>2, <2>3 DEF Connected, Rests, HandlerSame, Apart, Has, fifoVars
  <2> QED BY <2>5, <2>6
<1>3. CASE /\ left[c] > 0
           /\ ClientWrites(c, "send", "send",
                           [kind |-> "bytes", n |-> command[c].n])
           /\ left' = [left EXCEPT ![c] = @ - 1]
  BY <1>3, WritesStray
<1>4. CASE OnlyClient(c, "send") /\ left[c] = 0 /\ Prompt(c, {"cRD", "cWR"})
  <2>1. /\ client[c] = "send" /\ OnlyClient(c, client[c])
        /\ toClient[c] = <<>> /\ Junk(toServer[c])
        /\ command[c].kind = "UPLOAD"
        /\ session[c] \in Between \cup {"invalid"} /\ Has(c, RDReaders)
    BY <1>4 DEF OnlyClient, Straying, Awaiting
  <2>2. /\ Connected(c)' /\ Rests(c) /\ client'[c] = "prompt"
        /\ command' = command /\ toServer'[c] = toServer[c]
        /\ toClient'[c] = <<>>
        /\ Has(c, RDReaders) => Has(c, RDReaders)'
    BY <1>4, <2>1, PromptConnects DEF Keepers, Between
  <2> QED BY <2>1, <2>2 DEF Straying, Rests
<1>5. CASE OnlyClient(c, "kept") /\ Prompt(c, {})
  BY <1>5 DEF OnlyClient, Straying, Awaiting
<1> QED BY <1>1, <1>2, <1>3, <1>4, <1>5 DEF ClientUpload

LEMMA SteadyBefore ==
  ASSUME Types, NEW c \in Clients, scenario' = scenario, Steady(c)',
         past'[c] = past[c] \/ past'[c] = Append(past[c], command[c].kind)
  PROVE  Steady(c)
<1>1. CASE past'[c] = past[c]
  BY <1>1 DEF Steady
<1>2. CASE past'[c] = Append(past[c], command[c].kind)
  <2>1. past[c] \in Seq(Kinds \cup {"INVALID"})
    BY DEF Types, ClientTypes
  <2>2. /\ Len(past[c]) \in Nat /\ DOMAIN past[c] = 1..Len(past[c])
        /\ DOMAIN past'[c] = 1..(Len(past[c]) + 1)
        /\ \A i \in 1..Len(past[c]) : past'[c][i] = past[c][i]
    BY <1>2, <2>1, AppendProperties, LenProperties
    DEF Types, ClientTypes, Command
  <2>3. ASSUME NEW i \in DOMAIN past[c]
        PROVE  \/ past[c][i] \in Keepers
               \/ /\ past[c][i] \in {"LIST", "DOWNLOAD", "UPLOAD"}
                  /\ \E j \in 1..(i - 1) : past[c][j] \in Keepers
    <3>1. i \in DOMAIN past'[c] /\ past'[c][i] = past[c][i]
      BY <2>2, <2>3
    <3>2. \A j \in 1..(i - 1) : past'[c][j] = past[c][j]
      BY <2>2, <2>3
    <3> QED BY <3>1, <3>2 DEF Steady
  <2> QED BY <2>3 DEF Steady
<1> QED BY <1>1, <1>2

LEMMA ClientMoves ==
  ASSUME Types, NEW c \in Clients,
         \/ \E k \in scenario.typed[c] : Type(c, k)
         \/ ClientStep(c) \/ Overwrite(c)
  PROVE  /\ scenario' = scenario
         /\ past'[c] = past[c] \/ past'[c] = Append(past[c], command[c].kind)
         /\ session'[c] = session[c] \/ session[c] \notin Over
         /\ (\E k \in scenario.typed[c] : Type(c, k)) \/ command' = command
<1>1. CASE \E k \in scenario.typed[c] : Type(c, k)
  BY <1>1 DEF Type, OnlyClient, sessionVars, parentVars
<1>2. CASE OpenRD(c) \/ OpenWR(c)
  BY <1>2 DEF OpenRD, OpenWR, commandVars, parentVars, Over, Types,
              SessionTypes
<1>3. CASE UNCHANGED <<sessionVars, parentVars, command, past>>
  BY <1>3 DEF sessionVars, parentVars
<1>4. CASE WriteRequest(c) \/ ReadHeader(c) \/ ReadPacket(c) \/ Overwrite(c)
           \/ ClientQuits(c) \/ ClientTerm(c)
  BY <1>3, <1>4
  DEF WriteRequest, ReadHeader, ReadPacket, Overwrite, ClientQuits, ClientTerm,
      ClientWrites, OnlyClient, Leave
<1>5. CASE \/ ClientOneMessage(c) \/ ClientReadF(c) \/ ClientList(c)
           \/ ClientDownload(c) \/ ClientUpload(c)
  <2>1. UNCHANGED <<sessionVars, parentVars>>
    BY <1>5
    DEF ClientOneMessage, ClientReadF, ClientList, ClientDownload,
        ClientUpload, Answered, Failed, Succeeded, Done, OnlyClient,
        ClientWrites
  <2>2. (\E closed : Prompt(c, closed)) \/ UNCHANGED <<command, past>>
    BY <1>5
    DEF ClientOneMessage, ClientReadF, ClientList, ClientDownload,
        ClientUpload, ToPackets, ClientWrites
  <2>3. CASE \E closed : Prompt(c, closed)
    BY <2>1, <2>3 DEF Prompt, sessionVars, parentVars, Types, ClientTypes
  <2> QED BY <1>3, <2>1, <2>2, <2>3
<1> QED BY <1>1, <1>2, <1>4, <1>5 DEF ClientStep

LEMMA ClientLeaves ==
  ASSUME Types, NEW c \in Clients, Leaving(c),
         \/ \E k \in scenario.typed[c] : Type(c, k)
         \/ ClientStep(c) \/ Overwrite(c) \/ Interrupt(c)
  PROVE  Leaving(c)'
<1>1. CASE (\E k \in scenario.typed[c] : Type(c, k)) \/ Interrupt(c)
  <2>1. client'[c] = "open"
    BY <1>1 DEF Type, Interrupt, ClientGoes, Types, ClientTypes
  <2> QED BY <2>1 DEF Leaving
<1>2. CASE ClientStep(c) \/ Overwrite(c)
  <2>1. SUFFICES ASSUME command[c].kind = "QUIT", command' = command
                 PROVE  client'[c] \in {"open", "opening", "write", "exit",
                                        "left", "dead"}
    BY <1>1, <1>2, ClientMoves DEF Leaving
  <2>2. client[c] \in {"open", "opening", "write", "exit", "left", "dead"}
    BY <2>1 DEF Leaving
  <2>3. OpenRD(c) \/ WriteRequest(c) \/ ClientQuits(c) \/ ClientTerm(c)
    BY <1>2, <2>2
    DEF ClientStep, OpenWR, ReadHeader, ReadPacket, ClientOneMessage,
        ClientReadF, ClientList, ClientDownload, ClientUpload, Overwrite,
        ClientWrites, Answered, Failed, Succeeded, Done, OnlyClient
  <2> QED BY <2>1, <2>3
          DEF OpenRD, WriteRequest, ClientQuits, ClientTerm, ClientWrites,
              Leave, ClientGoes, Types, ClientTypes
<1> QED BY <1>1, <1>2

LEMMA ClientTalks ==
  ASSUME Types, NEW c \in Clients, InTouch(c), Leaving(c),
         \/ \E k \in scenario.typed[c] : Type(c, k)
         \/ ClientStep(c) \/ Overwrite(c) \/ Interrupt(c)
  PROVE  InTouch(c)' /\ Leaving(c)'
<1>1. Leaving(c)'
  BY ClientLeaves
<1>2. ASSUME Conversing(c)'
      PROVE  (Talking(c)' \/ Straying(c)') /\ Connected(c)'
  <2>1. ~Interrupt(c)
    <3> SUFFICES ASSUME Interrupt(c) PROVE FALSE
      OBVIOUS
    <3>1. command'[c] = [command[c] EXCEPT !.kind = "QUIT"]
      BY DEF Interrupt, Types, ClientTypes
    <3>2. command[c] \in Command
      BY DEF Types, ClientTypes
    <3>3. command'[c].kind = "QUIT"
      BY <3>1, <3>2 DEF Command
    <3> QED BY <1>2, <3>3 DEF Conversing
  <2>2. /\ Steady(c)' /\ command'[c].kind # "QUIT" /\ Steady(c)
        /\ session[c] \notin Over
    BY <1>2, <2>1, ClientMoves, SteadyBefore DEF Conversing
  <2>3. command[c].kind # "QUIT"
    <3>1. CASE \E k \in scenario.typed[c] : Type(c, k)
      BY <3>1 DEF Type, OnlyClient, Leaving
    <3>2. CASE command' = command
      BY <2>2, <3>2
    <3> QED BY <2>1, <3>1, <3>2, ClientMoves
  <2>4. (Talking(c) \/ Straying(c)) /\ Connected(c)
    BY <2>2, <2>3 DEF InTouch, Conversing
  <2>5. CASE Talking(c)
    <3>1. CASE \E k \in scenario.typed[c] : Type(c, k)
      BY <2>2, <2>4, <2>5, <3>1, TypeTalks
    <3>2. ~ClientQuits(c) /\ ~ClientTerm(c)
      BY <2>4, <2>5 DEF ClientQuits, ClientTerm, OnlyClient, Talking, Connected
    <3> QED BY <2>1, <2>2, <2>3, <2>4, <2>5, <3>1, <3>2, OpenRDTalks,
               WriteRequestTalks, OpenWRTalks, ReadHeaderTalks,
               ReadPacketTalks, AnsweredTalks, UploadTalks, OverwriteTalks
            DEF ClientStep
  <2>6. CASE Straying(c)
    <3>1. CASE \E k \in scenario.typed[c] : Type(c, k)
      BY <2>2, <2>4, <2>6, <3>1, TypeStrays
    <3>2. CASE ClientStep(c) \/ Overwrite(c)
      <4>1. client[c] \in {"prompt", "open", "write", "openResponse",
                           "openingResponse", "header", "answered", "send"}
        BY <2>6 DEF Straying, Awaiting
      <4>2. client[c] = "answered" => command[c].kind = "UPLOAD"
        BY <2>6 DEF Straying, Awaiting, Accepted
      <4>3. \/ OpenRD(c) \/ WriteRequest(c) \/ OpenWR(c) \/ ReadHeader(c)
            \/ ClientUpload(c)
        BY <2>4, <3>2, <4>1, <4>2
        DEF ClientStep, ReadPacket, ClientOneMessage, ClientReadF, ClientList,
            ClientDownload, ClientQuits, ClientTerm, Overwrite, ClientWrites,
            Answered, Failed, Succeeded, Done, OnlyClient, Connected
      <4> QED BY <2>2, <2>3, <2>4, <2>6, <4>3, OpensStray, WritesStray,
                 ReadHeaderStrays, UploadStrays
    <3> QED BY <2>1, <3>1, <3>2
  <2> QED BY <2>4, <2>5, <2>6
<1> QED BY <1>1, <1>2 DEF InTouch

-----------------------------------------------------------------------------
(* The queue and the parent.                                               *)
LEMMA QueuedRests ==
  ASSUME NEW c \in Clients, Queued(c),
         \/ \E k \in scenario.typed[c] : Type(c, k)
         \/ ClientStep(c) \/ Overwrite(c) \/ SessionStep(c) \/ Interrupt(c)
  PROVE  FALSE
<1>1. /\ client[c] = "queued" /\ session[c] = "none"
      /\ c \notin clientTerm /\ c \notin sessionTerm
  BY DEF Queued
<1>2. ~\E k \in scenario.typed[c] : Type(c, k)
  BY <1>1 DEF Type, OnlyClient
<1>3. ~ClientStep(c) /\ ~Overwrite(c) /\ ~Interrupt(c)
  BY <1>1
  DEF ClientStep, OpenRD, WriteRequest, OpenWR, ReadHeader, ReadPacket,
      ClientOneMessage, ClientReadF, ClientList, ClientDownload, ClientUpload,
      ClientQuits, ClientTerm, Overwrite, Interrupt, ClientWrites, Answered,
      Failed, Succeeded, Done, OnlyClient
<1>4. ~SessionStep(c)
  BY <1>1
  DEF SessionStep, OpenRequest, ReadRequest, PassOver, SemWait, Quit,
      KillServer, Bye, HandleHelp, HandleList, HandleReadFrom, HandleWriteTo,
      HandleDownload, HandleUpload, HandleArchServer, Handling, RespondAgain,
      Broken, WriteHeader, WritePacket, Close, ReadAnswer, Truncate, Keep,
      Receive, Received, ReadFails, CreateFails, WriteFails, Post, SessionTerm,
      OnlySession
<1> QED BY <1>2, <1>3, <1>4

LEMMA QueueKept ==
  ASSUME Types, Aside, clientQueue' = clientQueue,
         \A c \in Clients : Queued(c) => Queued(c)'
  PROVE  Aside'
BY ElementOfSeq DEF Aside, Types, ParentTypes

(* The first of the queue is admitted.                                     *)
LEMMA AdmittedTalks ==
  ASSUME Types, NEW c \in Clients, Queued(c), client'[c] = "prompt",
         session'[c] = "open",
         UNCHANGED <<commandVars, fifoVars, request, waiters, clientTerm>>
  PROVE  InTouch(c)' /\ Leaving(c)'
<1>1. /\ toServer'[c] = <<>> /\ toClient'[c] = <<>> /\ waiters'[c] = <<>>
      /\ past'[c] = <<>> /\ command'[c] = Invalid
      /\ c \notin gone' /\ c \notin clientTerm'
  BY DEF Queued, commandVars, fifoVars
<1>2. Talking(c)'
  BY <1>1 DEF Talking, SessionDone, Between
<1>3. Connected(c)'
  BY <1>1 DEF Connected
<1>4. Leaving(c)'
  BY <1>1 DEF Leaving, Invalid
<1> QED BY <1>2, <1>3, <1>4 DEF InTouch

LEMMA ParentTalks ==
  ASSUME Types, TalkInv, ServerStep \/ ShutDown \/ UNCHANGED vars
  PROVE  TalkInv'
<1>1. ASSUME UNCHANGED <<clientVars, fifoVars, sessionVars, scenario,
                         clientQueue, clientTerm>>,
             \A c \in sessionTerm' : c \in sessionTerm \/ session[c] # "none"
      PROVE  TalkInv'
  <2>1. ASSUME NEW c \in Clients PROVE Same(c)
    BY <1>1
    DEF Same, ClientSame, HandlerSame, FifoSame, Apart, clientVars,
        commandVars, fifoVars, sessionVars, handlerVars
  <2>2. ASSUME NEW c \in Clients PROVE InTouch(c)' /\ Leaving(c)'
    BY <2>1, SameInTouch DEF TalkInv
  <2>3. ASSUME NEW c \in Clients, Queued(c) PROVE Queued(c)'
    BY <1>1, <2>1, <2>3, QueuedSame DEF Queued
  <2> QED BY <1>1, <2>2, <2>3, QueueKept DEF TalkInv
<1>2. CASE SigChld
  <2>1. UNCHANGED <<commandVars, fifoVars, request, waiters, handlerVars,
                    semVars, scenario, clientTerm, sessionTerm>>
    BY <1>2 DEF SigChld
  <2>2. CASE clientQueue = <<>>
    BY <1>1, <1>2, <2>1, <2>2 DEF SigChld, clientVars, sessionVars
  <2>3. CASE clientQueue # <<>>
    <3>0. PICK h \in Clients : h = Head(clientQueue)
      BY <2>3, HeadTailProperties DEF Types, ParentTypes
    <3>1. /\ Len(clientQueue) \in Nat \ {0} /\ h = clientQueue[1]
          /\ Tail(clientQueue) \in Seq(Clients)
          /\ Len(Tail(clientQueue)) = Len(clientQueue) - 1
          /\ \A i \in 1..Len(Tail(clientQueue)) :
               Tail(clientQueue)[i] = clientQueue[i + 1]
      BY <2>3, <3>0, HeadTailProperties, LenProperties, EmptySeq
      DEF Types, ParentTypes
    <3>2. clientQueue' = Tail(clientQueue) /\ SessionGoes(h, "open")
          /\ ClientGoes(h, "prompt")
      BY <1>2, <2>3, <3>0 DEF SigChld
    <3>3. Queued(h)
      BY <3>1 DEF TalkInv, Aside
    <3>4. client'[h] = "prompt" /\ session'[h] = "open"
      BY <3>1, <3>2
      DEF SessionGoes, ClientGoes, Types, ClientTypes, SessionTypes
    <3>5. InTouch(h)' /\ Leaving(h)'
      BY <2>1, <3>1, <3>3, <3>4, AdmittedTalks
    <3>6. ASSUME NEW c \in Clients, c # h PROVE Same(c)
      <4>1. client'[c] = client[c] /\ session'[c] = session[c]
        BY <3>1, <3>2, <3>6
        DEF SessionGoes, ClientGoes, Types, ClientTypes, SessionTypes
      <4> QED BY <2>1, <4>1
              DEF Same, ClientSame, HandlerSame, FifoSame, Apart, commandVars,
                  fifoVars, handlerVars
    <3>7. ASSUME NEW c \in Clients PROVE InTouch(c)' /\ Leaving(c)'
      <4>1. CASE c = h
        BY <3>5, <4>1
      <4>2. CASE c # h
        BY <3>6, <4>2, SameInTouch DEF TalkInv
      <4> QED BY <4>1, <4>2
    <3>8. /\ Len(clientQueue') = Len(clientQueue) - 1
          /\ \A i \in 1..Len(clientQueue') :
               /\ clientQueue'[i] = clientQueue[i + 1]
               /\ i + 1 \in 1..Len(clientQueue) /\ i + 1 # 1
      <4>1. PICK q : q = Tail(clientQueue)
        OBVIOUS
      <4>2. /\ Len(q) = Len(clientQueue) - 1
            /\ \A i \in 1..Len(q) : q[i] = clientQueue[i + 1]
        BY <3>1, <4>1
      <4>3. PICK n \in Nat : n = Len(clientQueue)
        BY <3>1
      <4>4. \A i \in 1..(n - 1) : i + 1 \in 1..n /\ i + 1 # 1
        OBVIOUS
      <4>5. clientQueue' = q
        BY <3>2, <4>1
      <4> QED BY <4>2, <4>3, <4>4, <4>5
    <3>9. Aside'
      <4>1. ASSUME NEW i \in 1..Len(clientQueue'),
                   NEW j \in 1..Len(clientQueue'),
                   clientQueue'[i] = clientQueue'[j]
            PROVE  i = j
        <5>1. /\ i + 1 \in 1..Len(clientQueue) /\ j + 1 \in 1..Len(clientQueue)
              /\ clientQueue[i + 1] = clientQueue[j + 1]
          BY <3>8, <4>1
        <5>2. i + 1 = j + 1
          BY <5>1 DEF TalkInv, Aside
        <5>3. i \in Int /\ j \in Int
          OBVIOUS
        <5> QED BY <5>2, <5>3
      <4>2. ASSUME NEW i \in 1..Len(clientQueue')
            PROVE  Queued(clientQueue[i])'
        <5>1. /\ i + 1 \in 1..Len(clientQueue) /\ 1 \in 1..Len(clientQueue)
              /\ clientQueue'[i] = clientQueue[i + 1] /\ i + 1 # 1
          BY <3>1, <3>8
        <5>2. clientQueue[i + 1] # h /\ Queued(clientQueue[i + 1])
          BY <3>1, <5>1 DEF TalkInv, Aside
        <5>3. PICK c \in Clients : c = clientQueue[i + 1]
          BY <5>1, ElementOfSeq DEF Types, ParentTypes
        <5>4. Queued(c)'
          BY <2>1, <3>6, <5>2, <5>3, QueuedSame
        <5> QED BY <5>1, <5>3, <5>4 DEF Queued
      <4> QED BY <4>1, <4>2 DEF Aside
    <3> QED BY <3>7, <3>9 DEF TalkInv
  <2> QED BY <2>2, <2>3
<1>3. CASE ServerTerm
  <2>1. \A c \in sessionTerm' : session[c] # "none"
    BY <1>3 DEF ServerTerm, Live, Over
  <2> QED BY <1>1, <1>3, <2>1 DEF ServerTerm, OnlyServer
<1>4. CASE ServerExits \/ ShutDown
  BY <1>1, <1>4 DEF ServerExits, ShutDown, OnlyServer
<1>5. CASE UNCHANGED vars
  BY <1>1, <1>5 DEF vars, parentVars
<1> QED BY <1>2, <1>3, <1>4, <1>5 DEF ServerStep

LEMMA InitTalks == Init => TalkInv
<1> SUFFICES ASSUME Init PROVE TalkInv
  OBVIOUS
<1>1. Types
  BY InitTypes
<1>2. scenario.queued \subseteq Clients
  BY <1>1, ScenariosAssumption DEF Types, ParentTypes
<1>3. ASSUME NEW c \in Clients PROVE InTouch(c) /\ Leaving(c)
  <2>1. /\ command[c] = Invalid /\ past[c] = <<>> /\ waiters[c] = <<>>
        /\ toServer[c] = <<>> /\ toClient[c] = <<>>
        /\ c \notin gone /\ c \notin clientTerm
        /\ client[c] = IF c \in scenario.queued THEN "queued" ELSE "prompt"
        /\ session[c] = IF c \in scenario.queued THEN "none" ELSE "open"
    BY DEF Init
  <2>2. Leaving(c)
    BY <2>1 DEF Leaving, Invalid
  <2>3. CASE c \in scenario.queued
    BY <2>1, <2>2, <2>3 DEF InTouch, Conversing, Over
  <2>4. CASE c \notin scenario.queued
    <3>1. Talking(c)
      BY <2>1, <2>4 DEF Talking, SessionDone, Between
    <3>2. Connected(c)
      BY <2>1, <2>4 DEF Connected
    <3> QED BY <2>2, <3>1, <3>2 DEF InTouch
  <2> QED BY <2>3, <2>4
<1>4. Aside
  <2>1. PICK n \in Nat : /\ clientQueue \in [1..n -> scenario.queued]
                         /\ \A i, j \in DOMAIN clientQueue :
                              clientQueue[i] = clientQueue[j] => i = j
    <3>1. IsFiniteSet(scenario.queued)
      BY <1>2, BoundsAssumption, FS_Subset
    <3>2. Cardinality(scenario.queued) \in Nat
      BY <3>1, FS_CardinalityType
    <3> QED BY <3>2 DEF Init
  <2>2. DOMAIN clientQueue = 1..n
    BY <2>1
  <2>3. Len(clientQueue) \in Nat /\ DOMAIN clientQueue = 1..Len(clientQueue)
    BY <1>1, LenProperties DEF Types, ParentTypes
  <2>4. ASSUME NEW i \in 1..Len(clientQueue) PROVE Queued(clientQueue[i])
    <3>1. PICK c \in scenario.queued : c = clientQueue[i]
      BY <2>1, <2>2, <2>3
    <3>2. Queued(c)
      BY <1>2 DEF Init, Queued
    <3> QED BY <3>1, <3>2
  <2> QED BY <2>1, <2>3, <2>4 DEF Aside
<1> QED BY <1>3, <1>4 DEF TalkInv

LEMMA QueueAlone ==
  ASSUME NEW c \in Clients,
         \/ \E k \in scenario.typed[c] : Type(c, k)
         \/ ClientStep(c) \/ Overwrite(c) \/ SessionStep(c) \/ Interrupt(c)
  PROVE  clientQueue' = clientQueue
<1>1. CASE UNCHANGED parentVars
  BY <1>1 DEF parentVars
<1>2. CASE \E k \in scenario.typed[c] : Type(c, k)
  BY <1>1, <1>2 DEF Type, OnlyClient
<1>3. CASE ClientStep(c) \/ Overwrite(c) \/ Interrupt(c)
  BY <1>1, <1>3
  DEF ClientStep, OpenRD, WriteRequest, OpenWR, ReadHeader, ReadPacket,
      ClientOneMessage, ClientReadF, ClientList, ClientDownload, ClientUpload,
      ClientQuits, ClientTerm, Overwrite, Interrupt, ClientWrites, Answered,
      Failed, Succeeded, Done, OnlyClient
<1>4. CASE SessionStep(c)
  BY <1>1, <1>4
  DEF SessionStep, OpenRequest, ReadRequest, PassOver, SemWait, Quit,
      KillServer, Bye, HandleHelp, HandleList, HandleReadFrom, HandleWriteTo,
      HandleDownload, HandleUpload, HandleArchServer, Handling, RespondAgain,
      Broken, WriteHeader, WritePacket, Close, ReadAnswer, Truncate, Keep,
      Receive, Received, ReadFails, CreateFails, WriteFails, Post, SessionTerm,
      OnlySession
<1> QED BY <1>2, <1>3, <1>4

LEMMA NextTalks ==
  ASSUME Types, TalkInv, [Next]_vars
  PROVE  TalkInv'
<1>1. ASSUME NEW c \in Clients,
             \/ \E k \in scenario.typed[c] : Type(c, k)
             \/ ClientStep(c) \/ Overwrite(c) \/ SessionStep(c) \/ Interrupt(c)
      PROVE  TalkInv'
  <2>1. InTouch(c)' /\ Leaving(c)'
    BY <1>1, ClientTalks, SessionTalks DEF TalkInv
  <2>2. ASSUME NEW d \in Clients, d # c
        PROVE  Same(d) /\ (d \in sessionTerm' => d \in sessionTerm)
    BY <1>1, <2>2, OthersClient, OthersSession
  <2>3. ASSUME NEW d \in Clients PROVE InTouch(d)' /\ Leaving(d)'
    BY <2>1, <2>2, SameInTouch DEF TalkInv
  <2>4. ASSUME NEW d \in Clients, Queued(d) PROVE Queued(d)'
    <3>1. d # c
      BY <1>1, <2>4, QueuedRests
    <3> QED BY <2>2, <2>4, <3>1, QueuedSame
  <2>5. clientQueue' = clientQueue
    BY <1>1, QueueAlone
  <2> QED BY <2>3, <2>4, <2>5, QueueKept DEF TalkInv
<1> QED BY <1>1, ParentTalks DEF Next

(* TalkInv is inductive together with Types.                               *)
THEOREM TalkInvariant == Spec => []TalkInv
<1>1. Types /\ TalkInv /\ [Next]_vars => TalkInv'
  BY NextTalks
<1> QED BY <1>1, InitTalks, TypesInvariant, PTL DEF Spec

(* A steady client that has a session is in conversation with it, unless   *)
(* it is about to quit.                                                    *)
LEMMA SteadyTalks ==
  ASSUME TalkInv, NEW c \in Clients, Steady(c), session[c] \notin Over,
         command[c].kind # "QUIT"
  PROVE  (Talking(c) \/ Straying(c)) /\ Connected(c)
BY DEF TalkInv, InTouch, Conversing

(* For any clients, packets and scenarios: what a steady client takes for  *)
(* the response to its command is the response to that command             *)
(* (client.c 255-740).                                                     *)
THEOREM InStepHolds == Spec => []InStep
<1>1. Types /\ TalkInv => InStep
  <2> SUFFICES ASSUME Types, TalkInv, NEW c \in Clients,
                      client[c] \in {"answered", "packets", "ask", "kept",
                                     "send"},
                      Steady(c), session[c] \notin Over
               PROVE  response[c].n = command[c].n
    BY DEF InStep
  <2>1. command[c].kind # "QUIT"
    BY DEF TalkInv, Leaving
  <2>2. Talking(c) \/ Straying(c)
    BY <2>1, SteadyTalks
  <2>3. CASE Talking(c)
    BY <2>3 DEF Talking, Follows
  <2>4. CASE Straying(c)
    BY <2>4 DEF Straying, Accepted, Awaiting
  <2> QED BY <2>2, <2>3, <2>4
<1> QED BY <1>1, TypesInvariant, TalkInvariant, PTL

(* For any clients, packets and scenarios: no session stays in a handler   *)
(* for a steady client that is back at its prompt (server.c 981-1097).     *)
THEOREM NoneHeldUpHolds == Spec => []NoneHeldUp
<1>1. Types /\ TalkInv => NoneHeldUp
  <2> SUFFICES ASSUME Types, TalkInv, NEW c \in Clients, Steady(c),
                      WaitsForClient(c), command[c].kind # "QUIT",
                      client[c] \in {"prompt", "open", "opening"}
               PROVE  FALSE
    BY DEF NoneHeldUp
  <2>1. session[c] \in {"openingResponse", "answer", "receive"}
    BY DEF WaitsForClient
  <2>2. Talking(c)
    BY <2>1, SteadyTalks DEF Over, Straying, Between
  <2>3. client[c] = "prompt"
    BY <2>1, <2>2 DEF Talking
  <2>4. Uploading(c, 0) /\ session[c] \in {"answer", "receive"}
    BY <2>1, <2>2, <2>3 DEF Talking, SessionDone, Keeping, Uploading, Between,
                            WaitsForClient
  <2>5. session[c] = "receive" /\ toServer[c] = <<>> /\ todo[c] > 0
    BY <2>4 DEF Uploading, WaitsForClient, Between
  <2>6. Sent(toServer[c], command[c].n, todo[c], 0)
    BY <2>4, <2>5 DEF Uploading, Between
  <2>7. Len(toServer[c]) = 0
    BY <2>5
  <2> QED BY <2>5, <2>6, <2>7 DEF Sent
<1> QED BY <1>1, TypesInvariant, TalkInvariant, PTL

(* For any clients, packets and scenarios: what handleUpload takes out of  *)
(* the FIFO is what a steady client has sent for this upload, and no part  *)
(* of another message (server.c 1056-1080).                                *)
THEOREM UploadIntactHolds == Spec => UploadIntact
<1>1. ASSUME Types, TalkInv, [Next]_vars, NEW c \in Clients,
             session[c] = "receive", todo'[c] < todo[c], Steady(c),
             command[c].kind # "QUIT"
      PROVE  /\ Head(toServer[c]).kind = "bytes"
             /\ Head(toServer[c]).n = request[c].n
             /\ toServer'[c] = Tail(toServer[c])
  <2>1. Talking(c) /\ Connected(c)
    BY <1>1, SteadyTalks DEF Over, Straying, Between
  <2>2. todo[c] \in Nat /\ todo'[c] # todo[c]
    BY <1>1, BoundsAssumption DEF Types, SessionTypes
  <2>3. Receive(c)
    <3>1. ~UNCHANGED sessionVars
      BY <2>2 DEF sessionVars, handlerVars
    <3>2. ~UNCHANGED vars /\ ~ServerStep /\ ~ShutDown
      BY <2>2 DEF vars, sessionVars, handlerVars, ServerStep, ShutDown, SigChld,
                  ServerTerm, ServerExits, OnlyServer
    <3>3. ASSUME NEW d \in Clients,
                 \/ \E k \in scenario.typed[d] : Type(d, k)
                 \/ ClientStep(d) \/ Overwrite(d) \/ SessionStep(d)
                 \/ Interrupt(d)
          PROVE  d = c /\ SessionStep(c)
      <4>1. d = c
        BY <1>1, <2>2, <3>3, OthersClient, OthersSession DEF Same, HandlerSame
      <4>2. CASE OpenRD(c) \/ OpenWR(c)
        BY <2>2, <4>2 DEF OpenRD, OpenWR, handlerVars
      <4>3. CASE \/ \E k \in scenario.typed[c] : Type(c, k)
                 \/ Overwrite(c) \/ Interrupt(c)
        BY <3>1, <4>3 DEF Type, Overwrite, Interrupt, ClientWrites, OnlyClient
      <4>4. CASE ClientStep(c) /\ ~OpenRD(c) /\ ~OpenWR(c)
        BY <3>1, <4>4
        DEF ClientStep, WriteRequest, ReadHeader, ReadPacket,
            ClientOneMessage, ClientReadF, ClientList, ClientDownload,
            ClientUpload, ClientQuits, ClientTerm, ClientWrites, Answered,
            Failed, Succeeded, Done, OnlyClient
      <4> QED BY <3>3, <4>1, <4>2, <4>3, <4>4
    <3>4. SessionStep(c)
      BY <1>1, <3>2, <3>3 DEF Next
    <3>5. Receive(c) \/ Received(c) \/ SessionTerm(c)
      BY <1>1, <2>2, <3>4
      DEF SessionStep, OpenRequest, ReadRequest, PassOver, SemWait, Quit,
          KillServer, Bye, HandleHelp, HandleList, HandleReadFrom,
          HandleWriteTo, HandleDownload, HandleUpload, HandleArchServer,
          Handling, RespondAgain, Broken, WriteHeader, WritePacket, Close,
          ReadAnswer, Truncate, Keep, ReadFails, CreateFails, WriteFails,
          BreakOff, Post, OnlySession
    <3>6. ~Received(c) /\ ~SessionTerm(c)
      BY <2>2 DEF Received, SessionTerm, handlerVars
    <3> QED BY <3>5, <3>6
  <2>4. /\ Head(toServer[c]) = [kind |-> "bytes", n |-> command[c].n]
        /\ request[c] = command[c] /\ toServer'[c] = Tail(toServer[c])
    BY <1>1, <2>1, <2>3, ReceiveTakes
  <2> QED BY <2>4
<1> DEFINE A == \A c \in Clients :
       (/\ session[c] = "receive" /\ todo'[c] < todo[c]
        /\ Steady(c) /\ command[c].kind # "QUIT") =>
         /\ Head(toServer[c]).kind = "bytes"
         /\ Head(toServer[c]).n = request[c].n
         /\ toServer'[c] = Tail(toServer[c])
<1>2. Types /\ TalkInv /\ [Next]_vars => A
  BY <1>1
<1> HIDE DEF A
<1>3. Spec => [][A]_vars
  BY <1>2, TypesInvariant, TalkInvariant, PTL DEF Spec
<1> QED BY <1>3 DEF A, UploadIntact
=============================================================================
