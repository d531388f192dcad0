----------------------------- MODULE MWCp_proofs -----------------------------
(* Proofs about the copier, for every tree, buffer size and thread pool.    *)
EXTENDS MWCp, FiniteSetTheorems, SequenceTheorems, TLAPS

LEMMA PairsTyped ==
  /\ ZeroPair \in FilePairs
  /\ \A n \in Names, f, g \in Nat, b \in BOOLEAN :
       FilePair(n, f, g, b) \in FilePairs
  /\ \A p \in FilePairs : /\ p.name \in Names /\ p.srcFD \in Nat
                          /\ p.destFD \in Nat /\ p.isFifo \in BOOLEAN
BY DEF ZeroPair, FilePair, FilePairs, Names

(* Every step of the copier is one of these.                                *)
Operation ==
  \/ \E t \in Threads : Lock(t)
  \/ OpenDir \/ OpenDirFails \/ (\E e \in Entries : ReadEntry(e))
  \/ OpenSrc \/ OpenDest \/ MakeFifo \/ PushWait \/ Push \/ CountDir
  \/ CloseDir \/ SetDone
  \/ \E w \in Workers :
       \/ TakeWait(w) \/ Leave(w) \/ Take(w) \/ Read(w) \/ ReadEnds(w)
       \/ Write(w) \/ WriteFails(w) \/ AddBytes(w) \/ AddRegular(w)
       \/ CloseJob(w) \/ AddFifo(w) \/ PrintCopied(w)
  \/ Report \/ (\E t \in SigThreads : Sigint(t)) \/ HandlerSetDone
  \/ HandlerCloseAll \/ HandlerExit \/ SpuriousWakeup
  \/ UNCHANGED vars

LEMMA NextIsOperation == [Next]_vars => Operation
BY DEF Next, Operation, ManagerStep, WorkerStep, HandlerStep, Gone, Threads

LEMMA ControlPreserved ==
  ASSUME TypeOK, Operation
  PROVE  ControlOK'
<1> USE ThreadsDistinct DEF TypeOK, ControlOK, Threads, Critical, Labels,
        At, Holds, Runs, Goto
<1>1. ASSUME NEW t \in Threads, Lock(t) PROVE ControlOK'
  BY <1>1 DEF Lock
<1>2. CASE OpenDir \/ OpenDirFails \/ MakeFifo
  BY <1>2 DEF OpenDir, OpenDirFails, MakeFifo, Skip, Return, syncVars
<1>15. CASE OpenSrc
  BY <1>15 DEF OpenSrc, Skip, syncVars
<1>16. CASE OpenDest
  BY <1>16 DEF OpenDest, Skip, syncVars
<1>3. ASSUME NEW e \in Entries, ReadEntry(e) PROVE ControlOK'
  BY <1>3 DEF ReadEntry, Skip, syncVars
<1>4. CASE PushWait
  BY <1>4 DEF PushWait
<1>5. CASE Push
  BY <1>5 DEF Push, Signalled
<1>6. CASE CountDir \/ CloseDir \/ SetDone
  BY <1>6 DEF CountDir, CloseDir, SetDone, Return, syncVars, Broadcast
<1>7. ASSUME NEW w \in Workers,
             \/ Read(w) \/ ReadEnds(w) \/ Write(w) \/ WriteFails(w)
             \/ CloseJob(w) \/ PrintCopied(w)
      PROVE  ControlOK'
  BY <1>7 DEF Read, ReadEnds, Write, WriteFails, CloseJob, PrintCopied,
              syncVars
<1>8. ASSUME NEW w \in Workers,
             \/ Leave(w) \/ AddBytes(w) \/ AddRegular(w) \/ AddFifo(w)
      PROVE  ControlOK'
  BY <1>8 DEF Leave, AddBytes, AddRegular, AddFifo
<1>9. ASSUME NEW w \in Workers, TakeWait(w) PROVE ControlOK'
  BY <1>9 DEF TakeWait
<1>10. ASSUME NEW w \in Workers, Take(w) PROVE ControlOK'
  BY <1>10 DEF Take, Signalled
<1>11. CASE Report \/ HandlerExit \/ UNCHANGED vars
  BY <1>11 DEF Report, HandlerExit, vars, syncVars
<1>12. ASSUME NEW t \in SigThreads, Sigint(t) PROVE ControlOK'
  BY <1>12 DEF Sigint, syncVars
<1>13. CASE HandlerSetDone \/ HandlerCloseAll
  BY <1>13 DEF HandlerSetDone, HandlerCloseAll, Broadcast
<1>14. CASE SpuriousWakeup
  BY <1>14 DEF SpuriousWakeup
<1> QED
  BY <1>1, <1>2, <1>3, <1>4, <1>5, <1>6, <1>7, <1>8, <1>9, <1>10, <1>11,
     <1>12, <1>13, <1>14, <1>15, <1>16 DEF Operation
LEMMA QueuePreserved ==
  ASSUME TypeOK, Operation
  PROVE  QueueOK'
<1> USE SizeAssumption DEF TypeOK, QueueOK
<1>1. CASE Push
  <2>1. bufferCount \in Slots /\ bufferCount + 1 \in 0 .. BufferSize
    BY <1>1 DEF Push, Full, Slots
  <2>2. \A slot \in FilePairs : Filled(slot) \in FilePairs
    BY PairsTyped DEF Filled, WalkOK
  <2> QED BY <1>1, <2>1, <2>2 DEF Push, statVars
<1>2. CASE CountDir
  BY <1>2 DEF CountDir, queueVars
<1>6. CASE SetDone \/ HandlerSetDone
  BY <1>6 DEF SetDone, HandlerSetDone, statVars
<1>3. ASSUME NEW w \in Workers, Take(w) PROVE QueueOK'
  BY <1>3 DEF Take, statVars
<1>4. ASSUME NEW w \in Workers, AddBytes(w) \/ AddRegular(w) \/ AddFifo(w)
      PROVE  QueueOK'
  BY <1>4 DEF AddBytes, AddRegular, AddFifo, queueVars
<1>5. CASE UNCHANGED <<queueVars, statVars>>
  BY <1>5 DEF queueVars, statVars
<1> QED
  BY <1>1, <1>2, <1>3, <1>4, <1>5, <1>6
     DEF Operation, Lock, OpenDir, OpenDirFails, ReadEntry, OpenSrc, OpenDest,
         MakeFifo, PushWait, CloseDir, TakeWait, Leave, Read, ReadEnds, Write,
         WriteFails, CloseJob, PrintCopied, Report, Sigint, HandlerCloseAll,
         HandlerExit, SpuriousWakeup, vars

LEMMA WalkPreserved ==
  ASSUME TypeOK, Operation
  PROVE  WalkOK'
<1> USE TreeAssumption, PairsTyped DEF TypeOK, WalkOK
<1>1. CASE OpenDirFails \/ CloseDir
  BY <1>1 DEF OpenDirFails, CloseDir, Return, Dirs
<1>2. ASSUME NEW e \in Entries, ReadEntry(e) PROVE WalkOK'
  <2>1. FilePair(e, 0, 0, Kind[e] = "fifo") \in FilePairs
    BY DEF Names
  <2>2. item' \in FilePairs
    BY <1>2, <2>1 DEF ReadEntry
  <2> QED BY <1>2, <2>2 DEF ReadEntry, Skip, Dirs
<1>3. CASE OpenSrc \/ OpenDest
  <2>1. Fds \subseteq Nat
    BY SizeAssumption DEF Fds
  <2>2. item' \in FilePairs
    <3>1. item.name \in Names /\ item.srcFD \in Nat /\ item \in FilePairs
      OBVIOUS
    <3>2. \A f \in Fds :
            /\ FilePair(item.name, f, 0, FALSE) \in FilePairs
            /\ FilePair(item.name, item.srcFD, f, FALSE) \in FilePairs
      BY <2>1, <3>1
    <3>5. Lowest(Free) \subseteq Fds
      BY DEF Lowest, Free
    <3>3. CASE OpenSrc
      BY <3>2, <3>3, <3>5 DEF OpenSrc
    <3>4. CASE OpenDest
      BY <3>2, <3>4, <3>5 DEF OpenDest
    <3> QED BY <1>3, <3>3, <3>4
  <2>3. item.name \in Entries \cup {NoOne}
    BY DEF Names
  <2> QED BY <1>3, <2>2, <2>3 DEF OpenSrc, OpenDest, Skip
<1>4. CASE MakeFifo \/ Push
  <2>1. item.name \in Entries \cup {NoOne}
    BY DEF Names
  <2> QED BY <1>4, <2>1 DEF MakeFifo, Push, Skip
<1>5. CASE UNCHANGED walkVars
  BY <1>5 DEF walkVars
<1> QED
  BY <1>1, <1>2, <1>3, <1>4, <1>5
     DEF Operation, Lock, OpenDir, PushWait, CountDir, SetDone, TakeWait,
         Leave, Take, Read, ReadEnds, Write, WriteFails, AddBytes, AddRegular,
         CloseJob, AddFifo, PrintCopied, Report, Sigint, HandlerSetDone,
         HandlerCloseAll, HandlerExit, SpuriousWakeup, vars

LEMMA BlocksTyped ==
  ASSUME FileOK
  PROVE  \A e \in Entries : <<e, offset[e] + 1>> \in Names \X Nat
BY DEF FileOK, Names

LEMMA WorkPreserved ==
  ASSUME TypeOK, Operation
  PROVE  WorkOK'
<1> USE PairsTyped DEF TypeOK, WorkOK
<1>1. ASSUME NEW w \in Workers, Take(w) PROVE WorkOK'
  <2>0. bufferCount - 1 \in Slots
    BY <1>1, SizeAssumption DEF Take, QueueOK, Slots
  <2>1. buffer[bufferCount - 1] \in FilePairs
    BY <2>0 DEF QueueOK
  <2> QED BY <1>1, <2>1 DEF Take, Top
<1>2. ASSUME NEW w \in Workers, Read(w) PROVE WorkOK'
  <2>1. FileAt(job[w].srcFD, "src") \in Entries
    BY <1>2 DEF Read, Readable
  <2>2. \A e \in Entries : <<e, offset[e] + 1>> \in Names \X Nat
    BY BlocksTyped
  <2> QED BY <1>2, <2>1, <2>2 DEF Read
<1>3. ASSUME NEW w \in Workers, PrintCopied(w) PROVE WorkOK'
  BY <1>3 DEF PrintCopied, Names
<1>4. CASE UNCHANGED workVars
  BY <1>4 DEF workVars
<1> QED
  BY <1>1, <1>2, <1>3, <1>4
     DEF Operation, Lock, OpenDir, OpenDirFails, ReadEntry, OpenSrc, OpenDest,
         MakeFifo, PushWait, Push, CountDir, CloseDir, SetDone, TakeWait,
         Leave, ReadEnds, Write, WriteFails, AddBytes, AddRegular, CloseJob,
         AddFifo, Report, Sigint, HandlerSetDone, HandlerCloseAll,
         HandlerExit, SpuriousWakeup, vars

LEMMA FilePreserved ==
  ASSUME TypeOK, Operation
  PROVE  FileOK'
<1> USE DEF TypeOK, FileOK
<1>1. CASE OpenDir \/ CloseDir
  <2>1. <<cwd, "dir">> \in Ends /\ Closed \in Ends
    BY DEF Ends, WalkOK
  <2> QED BY <1>1, <2>1 DEF OpenDir, CloseDir, Lowest, Free
<1>2. CASE OpenSrc \/ OpenDest
  <2>1. /\ <<item.name, "src">> \in Ends /\ <<item.name, "dest">> \in Ends
        /\ Closed \in Ends
    BY PairsTyped DEF Ends, WalkOK
  <2> QED BY <1>2, <2>1 DEF OpenSrc, OpenDest, Lowest, Free, AbandonSrc
<1>3. ASSUME NEW w \in Workers, Read(w) PROVE FileOK'
  <2>1. FileAt(job[w].srcFD, "src") \in Entries
    BY <1>3 DEF Read, Readable
  <2> QED BY <1>3, <2>1 DEF Read
<1>4. ASSUME NEW w \in Workers, Write(w) PROVE FileOK'
  BY <1>4 DEF Write, WorkOK
<1>5. ASSUME NEW w \in Workers, CloseJob(w) PROVE FileOK'
  BY <1>5 DEF CloseJob, Ends
<1>6. CASE HandlerCloseAll
  BY <1>6 DEF HandlerCloseAll, Ends
<1>7. CASE UNCHANGED fileVars
  BY <1>7 DEF fileVars
<1>8. ASSUME NEW w \in Workers, WriteFails(w) PROVE FileOK'
  BY <1>8 DEF WriteFails, CutShort
<1> QED
  BY <1>1, <1>2, <1>3, <1>4, <1>5, <1>6, <1>7, <1>8
     DEF Operation, Lock, OpenDirFails, ReadEntry, MakeFifo, PushWait, Push,
         CountDir, SetDone, TakeWait, Leave, Take, ReadEnds, AddBytes,
         AddRegular, AddFifo, PrintCopied, Report, Sigint,
         HandlerSetDone, HandlerExit, SpuriousWakeup, vars

LEMMA EndPreserved ==
  ASSUME TypeOK, Operation
  PROVE  EndOK'
<1> USE DEF TypeOK, EndOK
<1>1. ASSUME NEW w \in Workers, PrintCopied(w) PROVE EndOK'
  BY <1>1 DEF PrintCopied, WorkOK, FilePairs
<1>2. CASE Report \/ HandlerExit
  BY <1>2 DEF Report, HandlerExit
<1>3. ASSUME NEW t \in SigThreads, Sigint(t) PROVE EndOK'
  BY <1>3 DEF Sigint
<1>4. CASE UNCHANGED endVars
  BY <1>4 DEF endVars
<1> QED
  BY <1>1, <1>2, <1>3, <1>4
     DEF Operation, Lock, OpenDir, OpenDirFails, ReadEntry, OpenSrc, OpenDest,
         MakeFifo, PushWait, Push, CountDir, CloseDir, SetDone, TakeWait,
         Leave, Take, Read, ReadEnds, Write, WriteFails, AddBytes, AddRegular,
         CloseJob, AddFifo, HandlerSetDone, HandlerCloseAll, SpuriousWakeup,
         vars

LEMMA InitType == Init => TypeOK
<1> SUFFICES ASSUME Init PROVE TypeOK
  OBVIOUS
<1> USE SizeAssumption, TreeAssumption, PairsTyped DEF Init
<1>1. ControlOK
  BY ThreadsDistinct DEF ControlOK, Labels, Critical, Threads
<1>2. QueueOK
  <2>1. buffer \in [Slots -> FilePairs]
    OBVIOUS
  <2>2. bufferCount \in 0 .. BufferSize
    OBVIOUS
  <2>3. done \in BOOLEAN
    OBVIOUS
  <2> QED BY <2>1, <2>2, <2>3 DEF QueueOK
<1>6. EndOK
  BY DEF EndOK
<1>3. WorkOK
  BY DEF WorkOK, Names
<1>4. WalkOK
  BY DEF WalkOK, Dirs
<1>5. FileOK
  BY DEF FileOK, Ends
<1> QED BY <1>1, <1>2, <1>3, <1>4, <1>5, <1>6 DEF TypeOK

(* The copier's state is well formed at every step, and in particular a     *)
(* thread holds mutex only in a critical section and never while it waits.  *)
THEOREM TypeCorrect == Spec => []TypeOK
<1>1. TypeOK /\ [Next]_vars => TypeOK'
  BY NextIsOperation, ControlPreserved, QueuePreserved, WalkPreserved,
     WorkPreserved, FilePreserved, EndPreserved DEF TypeOK
<1> QED BY InitType, <1>1, PTL DEF Spec
-----------------------------------------------------------------------------
(* Who has an entry in hand, as a function of control.                      *)
Carrying == {"openSrc", "openDest", "mkfifo", "push"}
HandsOK ==
  /\ item.name \in Entries <=> pc[Manager] \in Carrying
  /\ \A i \in Pending : buffer[i].name \in Entries
  /\ \A w \in Workers : job[w].name = NoOne <=> pc[w] \in {"take", "ended"}
  /\ printed \subseteq Entries

(* OnePlace, place by place.                                                *)
Apart ==
  /\ \A i, j \in Pending : buffer[i].name = buffer[j].name => i = j
  /\ \A v, w \in Workers :
       job[v].name = job[w].name /\ job[v].name # NoOne => v = w
  /\ \A i \in Pending, w \in Workers : buffer[i].name # job[w].name
  /\ \A i \in Pending : buffer[i].name # item.name
  /\ \A w \in Workers : job[w].name = item.name => item.name = NoOne
  /\ item.name \notin unread \cup printed
  /\ \A i \in Pending : buffer[i].name \notin unread \cup printed
  /\ \A w \in Workers : job[w].name \notin unread \cup printed
  /\ unread \cap printed = {}

LEMMA ApartIsOnePlace == Apart <=> OnePlace
BY DEF Apart, OnePlace

LEMMA InitPlaces == Init => HandsOK /\ Apart
BY TreeAssumption, ThreadsDistinct
   DEF Init, HandsOK, Apart, Carrying, Pending, ZeroPair, FilePair, Threads

(* What the places depend on.                                               *)
placeVars == <<buffer, bufferCount, job, item, unread, printed>>

LEMMA PlacesPreserved ==
  ASSUME TypeOK, HandsOK, Apart, Operation
  PROVE  HandsOK' /\ Apart'
<1> USE ThreadsDistinct, TreeAssumption DEF At, Holds, Runs, Goto
<1>0. pc \in [Threads -> Labels] /\ Manager \in Threads
      /\ Workers \subseteq Threads /\ Handler \in Threads
      /\ NoOne \notin unread \cup printed
  BY DEF TypeOK, ControlOK, WalkOK, HandsOK, Threads
<1>1. ASSUME UNCHANGED placeVars,
             pc'[Manager] \in Carrying <=> pc[Manager] \in Carrying,
             \A w \in Workers : pc'[w] \in {"take", "ended"} <=>
                                pc[w] \in {"take", "ended"}
      PROVE  HandsOK' /\ Apart'
  BY <1>1 DEF placeVars, HandsOK, Apart, Pending
<1>2. ASSUME NEW e \in Entries, ReadEntry(e) PROVE HandsOK' /\ Apart'
  <2>1. item' = item \/ item'.name = e
    BY <1>2 DEF ReadEntry, FilePair
  <2>2. UNCHANGED <<buffer, bufferCount, job, printed>>
    BY <1>2 DEF ReadEntry, queueVars, workVars, endVars
  <2>3. unread' = unread \ {e} /\ e \in unread /\ pc[Manager] = "readdir"
    BY <1>2 DEF ReadEntry
  <2>4. item'.name \in Entries <=> pc'[Manager] \in Carrying
    BY <1>2, <1>0, <2>3 DEF ReadEntry, Skip, FilePair, Carrying, HandsOK
  <2>5. \A w \in Workers : pc'[w] = pc[w]
    BY <1>2, <1>0 DEF ReadEntry, Skip
  <2>6. HandsOK'
    BY <2>2, <2>4, <2>5 DEF HandsOK, Pending
  <2>7. Apart'
    BY <2>1, <2>2, <2>3 DEF Apart, Pending
  <2> QED BY <2>6, <2>7
<1>3. CASE OpenSrc \/ OpenDest \/ MakeFifo
  <2>1. /\ pc[Manager] \in Carrying
        /\ UNCHANGED <<buffer, bufferCount, job, printed, unread>>
        /\ \A w \in Workers : pc'[w] = pc[w]
    BY <1>3, <1>0 DEF OpenSrc, OpenDest, MakeFifo, Skip, Carrying, queueVars,
                      workVars, endVars
  <2>2. \/ item'.name = item.name /\ pc'[Manager] \in Carrying
        \/ item'.name = NoOne /\ pc'[Manager] \notin Carrying
    BY <1>3, <1>0 DEF OpenSrc, OpenDest, MakeFifo, Skip, Carrying, FilePair,
                      ZeroPair
  <2>3. HandsOK'
    BY <2>1, <2>2 DEF HandsOK, Pending
  <2>4. Apart'
    BY <1>0, <2>1, <2>2 DEF Apart, HandsOK, Pending
  <2> QED BY <2>3, <2>4
<1>4. CASE Push
  <2>1. /\ bufferCount \in Slots /\ bufferCount' = bufferCount + 1
        /\ bufferCount \in Nat
    BY <1>4, SizeAssumption DEF Push, TypeOK, QueueOK, Slots, Full
  <2>2. /\ UNCHANGED <<job, printed, unread>>
        /\ \A w \in Workers : pc'[w] = pc[w]
        /\ pc[Manager] \in Carrying /\ pc'[Manager] \notin Carrying
        /\ item'.name = NoOne
    BY <1>4, <1>0 DEF Push, workVars, endVars, Carrying, ZeroPair, FilePair
  <2>3. Pending' = Pending \cup {bufferCount}
    BY <2>1 DEF Pending
  <2>4. /\ buffer'[bufferCount].name = item.name
        /\ \A i \in Pending : buffer'[i] = buffer[i]
    BY <1>4, <2>1
    DEF Push, Full, Filled, FilePair, TypeOK, QueueOK, Pending, Slots
  <2>5. HandsOK'
    BY <2>2, <2>3, <2>4 DEF HandsOK
  <2>6. Apart'
    <3>1. bufferCount \notin Pending
      BY <2>1 DEF Pending
    <3>2. item.name \in Entries
      BY <2>2 DEF HandsOK
    <3> QED BY <1>0, <2>2, <2>3, <2>4, <3>1, <3>2 DEF Apart, HandsOK
  <2> QED BY <2>5, <2>6
<1>5. ASSUME NEW w \in Workers, Take(w) PROVE HandsOK' /\ Apart'
  <2>1. /\ bufferCount \in Nat /\ bufferCount' = bufferCount - 1
        /\ bufferCount - 1 \in Pending
    BY <1>5, SizeAssumption DEF Take, TypeOK, QueueOK, Pending
  <2>2. /\ UNCHANGED <<buffer, item, printed, unread>>
        /\ pc'[Manager] = pc[Manager]
        /\ pc[w] = "take" /\ pc'[w] \notin {"take", "ended"}
        /\ \A v \in Workers \ {w} : pc'[v] = pc[v]
    BY <1>5, <1>0 DEF Take, walkVars, endVars
  <2>3. Pending' = Pending \ {bufferCount - 1}
    BY <2>1 DEF Pending
  <2>4. /\ job'[w] = buffer[bufferCount - 1]
        /\ \A v \in Workers \ {w} : job'[v] = job[v]
    BY <1>5 DEF Take, TypeOK, WorkOK, Top
  <2>5. HandsOK'
    BY <2>1, <2>2, <2>3, <2>4 DEF HandsOK
  <2>6. Apart'
    BY <2>1, <2>2, <2>3, <2>4 DEF Apart, HandsOK
  <2> QED BY <2>5, <2>6
<1>6. ASSUME NEW w \in Workers, PrintCopied(w) PROVE HandsOK' /\ Apart'
  <2>1. /\ UNCHANGED <<buffer, bufferCount, item, unread>>
        /\ printed' = printed \cup {job[w].name}
        /\ pc'[Manager] = pc[Manager]
        /\ pc[w] = "print" /\ pc'[w] = "take"
        /\ \A v \in Workers \ {w} : pc'[v] = pc[v]
    BY <1>6, <1>0 DEF PrintCopied, queueVars, walkVars
  <2>2. /\ job'[w].name = NoOne
        /\ \A v \in Workers \ {w} : job'[v] = job[v]
    BY <1>6 DEF PrintCopied, TypeOK, WorkOK, ZeroPair, FilePair
  <2>3. job[w].name \in Entries
    BY <2>1, PairsTyped DEF HandsOK, TypeOK, WorkOK, Names
  <2>4. HandsOK'
    BY <2>1, <2>2, <2>3 DEF HandsOK, Pending
  <2>5. Apart'
    BY <1>0, <2>1, <2>2, <2>3 DEF Apart, HandsOK, Pending
  <2> QED BY <2>4, <2>5
<1>7. CASE \/ \E t \in Threads : Lock(t)
           \/ OpenDir \/ OpenDirFails \/ PushWait \/ CountDir \/ CloseDir
           \/ SetDone
  BY <1>7, <1>0, <1>1
     DEF Lock, OpenDir, OpenDirFails, Return, PushWait, CountDir, CloseDir,
         SetDone, placeVars, Carrying, syncVars, queueVars, walkVars,
         workVars, endVars
<1>8. ASSUME NEW w \in Workers,
             \/ TakeWait(w) \/ Leave(w) \/ Read(w) \/ ReadEnds(w) \/ Write(w)
             \/ WriteFails(w) \/ AddBytes(w) \/ AddRegular(w) \/ CloseJob(w)
             \/ AddFifo(w)
      PROVE  HandsOK' /\ Apart'
  BY <1>8, <1>0, <1>1
     DEF TakeWait, Leave, Read, ReadEnds, Write, WriteFails, AddBytes,
         AddRegular, CloseJob, AddFifo, placeVars, queueVars, walkVars,
         workVars, endVars
<1>9. CASE \/ Report \/ (\E t \in SigThreads : Sigint(t)) \/ HandlerSetDone
           \/ HandlerCloseAll \/ HandlerExit \/ SpuriousWakeup
           \/ UNCHANGED vars
  BY <1>9, <1>0, <1>1
     DEF Report, Sigint, HandlerSetDone, HandlerCloseAll, HandlerExit,
         SpuriousWakeup, placeVars, queueVars, walkVars, workVars, endVars,
         vars
<1> QED
  BY <1>2, <1>3, <1>4, <1>5, <1>6, <1>7, <1>8, <1>9 DEF Operation

(* However many workers pop, wait and are interrupted, no file is ever in   *)
(* two places: it is copied by one worker, once.                            *)
THEOREM OnePlaceHolds == Spec => []OnePlace
<1>1. TypeOK /\ HandsOK /\ Apart /\ [Next]_vars => HandsOK' /\ Apart'
  BY NextIsOperation, PlacesPreserved
<1>2. Spec => [](HandsOK /\ Apart)
  BY InitPlaces, <1>1, TypeCorrect, PTL DEF Spec
<1> QED BY <1>2, ApartIsOnePlace, PTL
-----------------------------------------------------------------------------
(* Until the handler has closed them, the descriptors of every regular file *)
(* in hand are its own: in the manager's hands, in the buffer, at a worker. *)
HandlerOK == interrupted = NoOne => pc[Handler] = "idle"

Owned ==
  /\ pc[Manager] \in {"openSrc", "openDest"} => ~item.isFifo
  /\ pc[Manager] = "mkfifo" => item.isFifo
  /\ pc[Manager] = "openDest" =>
       item.srcFD \in Fds /\ fds[item.srcFD] = <<item.name, "src">>
  /\ pc[Manager] = "push" /\ ~item.isFifo => OwnEnds(item)
  /\ \A i \in Pending : ~buffer[i].isFifo => OwnEnds(buffer[i])
  /\ \A w \in Workers : pc[w] \in Copying => OwnEnds(job[w])

OwnedUnlessExit == pc[Handler] # "exit" => Owned

LEMMA InitOwned == Init => HandlerOK /\ OwnedUnlessExit
BY ThreadsDistinct
   DEF Init, HandlerOK, OwnedUnlessExit, Owned, Pending, Copying, Threads

(* Descriptors keep what they refer to, as long as their table entry does.  *)
LEMMA OwnEndsFrame ==
  ASSUME NEW p, OwnEnds(p),
         \A f \in Fds : f \in {p.srcFD, p.destFD} => fds'[f] = fds[f]
  PROVE  /\ p.srcFD \in Fds /\ fds'[p.srcFD] = <<p.name, "src">>
         /\ p.destFD \in Fds /\ fds'[p.destFD] = <<p.name, "dest">>
BY DEF OwnEnds

(* Only SIGINT starts the handler.                                          *)
LEMMA HandlerPreserved ==
  ASSUME TypeOK, HandlerOK, Operation
  PROVE  HandlerOK'
<1> USE ThreadsDistinct, EnvironmentAssumption
    DEF At, Holds, Runs, Goto, HandlerOK, Threads
<1>0. pc \in [Threads -> Labels]
  BY DEF TypeOK, ControlOK
<1>1. CASE pc'[Handler] = pc[Handler] /\ interrupted' = interrupted
  BY <1>1
<1>2. ASSUME NEW t \in SigThreads, Sigint(t) PROVE HandlerOK'
  BY <1>2, <1>0, TreeAssumption DEF Sigint
<1>3. CASE HandlerSetDone \/ HandlerCloseAll
  BY <1>3, <1>0 DEF HandlerSetDone, HandlerCloseAll, endVars
<1>4. CASE \/ \E t \in Threads : Lock(t)
           \/ OpenDir \/ OpenDirFails \/ (\E e \in Entries : ReadEntry(e))
           \/ OpenSrc \/ OpenDest \/ MakeFifo \/ PushWait \/ Push \/ CountDir
           \/ CloseDir \/ SetDone \/ Report \/ HandlerExit
           \/ SpuriousWakeup \/ UNCHANGED vars
  BY <1>4, <1>0, <1>1
     DEF Lock, OpenDir, OpenDirFails, Return, ReadEntry, OpenSrc, OpenDest,
         MakeFifo, Skip, PushWait, Push, CountDir, CloseDir, SetDone, Report,
         HandlerExit, SpuriousWakeup, vars, endVars
<1>5. ASSUME NEW w \in Workers,
             \/ TakeWait(w) \/ Leave(w) \/ Take(w) \/ Read(w) \/ ReadEnds(w)
             \/ Write(w) \/ WriteFails(w) \/ AddBytes(w) \/ AddRegular(w)
             \/ CloseJob(w) \/ AddFifo(w) \/ PrintCopied(w)
      PROVE  HandlerOK'
  BY <1>5, <1>0, <1>1
     DEF TakeWait, Leave, Take, Read, ReadEnds, Write, WriteFails, AddBytes,
         AddRegular, CloseJob, AddFifo, PrintCopied, endVars
<1> QED BY <1>2, <1>3, <1>4, <1>5 DEF Operation

(* Two entries never share a descriptor.                                    *)
LEMMA OwnersDiffer ==
  ASSUME NEW p, NEW q, OwnEnds(p), OwnEnds(q), p.name # q.name
  PROVE  {p.srcFD, p.destFD} \cap {q.srcFD, q.destFD} = {}
BY DEF OwnEnds

(* A step that leaves the manager, the queue and the jobs alone, and keeps  *)
(* the descriptors of every file in hand, keeps Owned.                      *)
LEMMA OwnedFrame ==
  ASSUME Owned,
         UNCHANGED <<buffer, bufferCount, job, item>>,
         pc'[Manager] = pc[Manager],
         \A w \in Workers : pc'[w] \in Copying => pc[w] \in Copying,
         \A f \in Fds : fds[f][2] \in {"src", "dest"} => fds'[f] = fds[f]
  PROVE  Owned'
<1>1. \A p : OwnEnds(p) => /\ fds'[p.srcFD] = <<p.name, "src">>
                          /\ fds'[p.destFD] = <<p.name, "dest">>
  BY DEF OwnEnds
<1>2. pc[Manager] = "openDest" => fds'[item.srcFD] = <<item.name, "src">>
  BY DEF Owned
<1> QED BY <1>1, <1>2 DEF Owned, OwnEnds, Pending

(* Once the handler has closed the descriptors it only exits.               *)
LEMMA ExitStays ==
  ASSUME TypeOK, HandlerOK, Operation, pc[Handler] = "exit"
  PROVE  pc'[Handler] = "exit"
<1> USE ThreadsDistinct, TreeAssumption DEF At, Holds, Runs, Goto
<1>0. /\ pc \in [Threads -> Labels] /\ Manager \in Threads
      /\ Workers \subseteq Threads /\ Handler \in Threads
      /\ Handler \notin Workers /\ Handler # Manager
      /\ interrupted # NoOne
  BY DEF TypeOK, ControlOK, Threads, HandlerOK
<1>1. CASE \/ \E t \in Threads : Lock(t)
           \/ OpenDir \/ OpenDirFails \/ (\E e \in Entries : ReadEntry(e))
           \/ OpenSrc \/ OpenDest \/ MakeFifo \/ PushWait \/ Push
           \/ CountDir \/ CloseDir \/ SetDone
  BY <1>0, <1>1
     DEF Lock, OpenDir, OpenDirFails, Return, ReadEntry, OpenSrc,
         OpenDest, MakeFifo, Skip, PushWait, Push, CountDir, CloseDir,
         SetDone
<1>2. ASSUME NEW w \in Workers,
             \/ TakeWait(w) \/ Leave(w) \/ Take(w) \/ Read(w)
             \/ ReadEnds(w) \/ Write(w) \/ WriteFails(w) \/ AddBytes(w)
             \/ AddRegular(w) \/ CloseJob(w) \/ AddFifo(w)
             \/ PrintCopied(w)
      PROVE  pc'[Handler] = "exit"
  BY <1>0, <1>2
     DEF TakeWait, Leave, Take, Read, ReadEnds, Write, WriteFails,
         AddBytes, AddRegular, CloseJob, AddFifo, PrintCopied
<1>3. CASE \/ Report \/ (\E t \in SigThreads : Sigint(t)) \/ HandlerSetDone
           \/ HandlerCloseAll \/ HandlerExit \/ SpuriousWakeup
           \/ UNCHANGED vars
  BY <1>0, <1>3
     DEF Report, Sigint, HandlerSetDone, HandlerCloseAll, HandlerExit,
         SpuriousWakeup, vars
<1> QED BY <1>1, <1>2, <1>3 DEF Operation

LEMMA OwnedPreserved ==
  ASSUME TypeOK, HandsOK, Apart, HandlerOK, OwnedUnlessExit, Operation
  PROVE  OwnedUnlessExit'
<1> USE ThreadsDistinct, TreeAssumption DEF At, Holds, Runs, Goto
<1>0. /\ pc \in [Threads -> Labels] /\ Manager \in Threads
      /\ Workers \subseteq Threads /\ Handler \in Threads
      /\ Handler \notin Workers /\ Handler # Manager /\ Manager \notin Workers
      /\ fds \in [Fds -> Ends] /\ item \in FilePairs
      /\ buffer \in [Slots -> FilePairs] /\ job \in [Workers -> FilePairs]
  BY DEF TypeOK, ControlOK, WalkOK, FileOK, QueueOK, WorkOK, Threads
<1>free. \A f \in Lowest(Free) : f \in Fds /\ fds[f] = Closed
  BY DEF Lowest, Free
<1>1. CASE pc[Handler] = "exit"
  BY <1>1, ExitStays DEF OwnedUnlessExit
<1>2. CASE pc[Handler] # "exit"
  <2>0. Owned
    BY <1>2 DEF OwnedUnlessExit
  <2>1. CASE OpenSrc
    <3>1. /\ UNCHANGED <<buffer, bufferCount, job>>
          /\ \A w \in Workers : pc'[w] = pc[w]
          /\ pc'[Manager] \in {"openDest", "readdir"}
          /\ item'.isFifo = FALSE
      BY <2>1, <1>0 DEF OpenSrc, Skip, queueVars, workVars, FilePair, ZeroPair
    <3>2. pc'[Manager] = "openDest" =>
            item'.srcFD \in Fds /\ fds'[item'.srcFD] = <<item'.name, "src">>
      BY <2>1, <1>0, <1>free DEF OpenSrc, Skip, FilePair
    <3>3. \A f \in Fds : fds[f][2] \in {"src", "dest"} => fds'[f] = fds[f]
      <4>1. \/ fds' = fds
            \/ \E f \in Fds : /\ fds[f] = Closed
                             /\ fds' = [fds EXCEPT ![f] = <<item.name, "src">>]
        BY <2>1, <1>free DEF OpenSrc
      <4> QED BY <4>1, <1>0 DEF Closed
    <3>4. \A p : OwnEnds(p) => /\ fds'[p.srcFD] = <<p.name, "src">>
                               /\ fds'[p.destFD] = <<p.name, "dest">>
      BY <3>3 DEF OwnEnds
    <3> QED
      BY <2>0, <3>1, <3>2, <3>4 DEF Owned, OwnedUnlessExit, OwnEnds, Pending
  <2>2. CASE OpenDest
    <3>1. /\ UNCHANGED <<buffer, bufferCount, job>>
          /\ \A w \in Workers : pc'[w] = pc[w]
          /\ pc[Manager] = "openDest"
          /\ pc'[Manager] \in {"push", "readdir"}
      BY <2>2, <1>0 DEF OpenDest, Skip, queueVars, workVars
    <3>2. /\ item.srcFD \in Fds /\ fds[item.srcFD] = <<item.name, "src">>
      BY <2>0, <3>1 DEF Owned
    <3>3. pc'[Manager] = "push" => OwnEnds(item)'
      BY <2>2, <1>0, <1>free, <3>2
      DEF OpenDest, Skip, FilePair, Closed, OwnEnds
    <3>4. \A f \in Fds : fds[f][2] \in {"src", "dest"} /\ fds[f][1] # item.name
                        => fds'[f] = fds[f]
      <4>1. \/ fds' = [fds EXCEPT ![item.srcFD] = Closed]
            \/ \E f \in Fds :
                 /\ fds[f] = Closed
                 /\ fds' = [fds EXCEPT ![f] = <<item.name, "dest">>]
        BY <2>2, <1>free DEF OpenDest, AbandonSrc
      <4> QED BY <4>1, <1>0, <3>2 DEF Closed
    <3>5. \A p : OwnEnds(p) /\ p.name # item.name =>
                 /\ fds'[p.srcFD] = <<p.name, "src">>
                 /\ fds'[p.destFD] = <<p.name, "dest">>
      BY <3>4 DEF OwnEnds
    <3>6. item.name \in Entries
      BY <3>1 DEF HandsOK, Carrying
    <3>7. /\ \A i \in Pending : buffer[i].name # item.name
          /\ \A w \in Workers : job[w].name # item.name
      BY <3>6 DEF Apart
    <3> QED BY <2>0, <3>1, <3>3, <3>5, <3>7
            DEF Owned, OwnedUnlessExit, OwnEnds, Pending
  <2>3. CASE Push
    <3>1. /\ bufferCount \in Slots /\ bufferCount' = bufferCount + 1
          /\ bufferCount \in Nat
      BY <2>3, SizeAssumption DEF Push, TypeOK, QueueOK, Slots, Full
    <3>2. /\ UNCHANGED <<job, fds>>
          /\ \A w \in Workers : pc'[w] = pc[w]
          /\ pc[Manager] = "push" /\ pc'[Manager] = "readdir"
      BY <2>3, <1>0 DEF Push, workVars, fileVars
    <3>3. Pending' = Pending \cup {bufferCount}
      BY <3>1 DEF Pending
    <3>4. /\ ~item.isFifo => buffer'[bufferCount] = item
          /\ item.isFifo => buffer'[bufferCount].isFifo
          /\ \A i \in Pending : buffer'[i] = buffer[i]
      BY <2>3, <3>1, <1>0 DEF Push, Full, Filled, FilePair, Pending, Slots
    <3>5. \A i \in Pending' : ~buffer'[i].isFifo => OwnEnds(buffer'[i])
      BY <2>0, <3>2, <3>3, <3>4 DEF Owned
    <3>6. \A w \in Workers : pc'[w] \in Copying => OwnEnds(job'[w])
      BY <2>0, <3>2 DEF Owned
    <3> QED BY <3>2, <3>5, <3>6 DEF Owned, OwnedUnlessExit, OwnEnds
  <2>4. ASSUME NEW w \in Workers, Take(w) PROVE OwnedUnlessExit'
    <3>1. /\ bufferCount \in Nat /\ bufferCount' = bufferCount - 1
          /\ bufferCount - 1 \in Pending
      BY <2>4, SizeAssumption DEF Take, TypeOK, QueueOK, Pending
    <3>2. /\ UNCHANGED <<buffer, item, fds>>
          /\ pc'[Manager] = pc[Manager]
          /\ pc'[w] \in Copying => ~buffer[bufferCount - 1].isFifo
          /\ \A v \in Workers \ {w} : pc'[v] = pc[v]
      BY <2>4, <1>0 DEF Take, walkVars, fileVars, Copying, Top
    <3>3. Pending' \subseteq Pending
      BY <3>1 DEF Pending
    <3>4. /\ job'[w] = buffer[bufferCount - 1]
          /\ \A v \in Workers \ {w} : job'[v] = job[v]
      BY <2>4, <1>0 DEF Take, Top
    <3>5. \A i \in Pending' : ~buffer'[i].isFifo => OwnEnds(buffer'[i])
      BY <2>0, <3>2, <3>3 DEF Owned
    <3>6. \A v \in Workers : pc'[v] \in Copying => OwnEnds(job'[v])
      BY <2>0, <3>1, <3>2, <3>4 DEF Owned
    <3> QED BY <2>0, <3>2, <3>5, <3>6 DEF Owned, OwnedUnlessExit, OwnEnds
  <2>5. ASSUME NEW w \in Workers, CloseJob(w) PROVE OwnedUnlessExit'
    <3>1. /\ UNCHANGED <<buffer, bufferCount, job, item>>
          /\ pc'[Manager] = pc[Manager]
          /\ pc[w] = "close" /\ pc'[w] \notin Copying
          /\ \A v \in Workers \ {w} : pc'[v] = pc[v]
      BY <2>5, <1>0 DEF CloseJob, walkVars, queueVars, workVars, Copying
    <3>2. OwnEnds(job[w]) /\ job[w].name # NoOne
      BY <2>0, <3>1 DEF Owned, Copying, HandsOK
    <3>3. \A f \in Fds : fds[f][1] # job[w].name => fds'[f] = fds[f]
      BY <2>5, <1>0, <3>2 DEF CloseJob, OwnEnds
    <3>4. \A p : OwnEnds(p) /\ p.name # job[w].name =>
                 /\ fds'[p.srcFD] = <<p.name, "src">>
                 /\ fds'[p.destFD] = <<p.name, "dest">>
      BY <3>3 DEF OwnEnds
    <3>5. /\ \A i \in Pending : buffer[i].name # job[w].name
          /\ \A v \in Workers \ {w} : job[v].name # job[w].name
          /\ item.name # job[w].name
      BY <3>2 DEF Apart
    <3>6. pc[Manager] = "openDest" => fds'[item.srcFD] = <<item.name, "src">>
      BY <2>0, <3>3, <3>5 DEF Owned
    <3> QED BY <2>0, <3>1, <3>4, <3>5, <3>6
            DEF Owned, OwnedUnlessExit, OwnEnds, Pending
  <2>6. CASE HandlerCloseAll
    BY <2>6, <1>0 DEF HandlerCloseAll, OwnedUnlessExit
  <2>7. ASSUME NEW e \in Entries, ReadEntry(e) PROVE OwnedUnlessExit'
    <3>1. /\ UNCHANGED <<buffer, bufferCount, job, fds>>
          /\ \A w \in Workers : pc'[w] = pc[w]
          /\ pc'[Manager] \notin {"openDest", "push"}
      BY <2>7, <1>0 DEF ReadEntry, Skip, queueVars, workVars, fileVars
    <3>2. /\ pc'[Manager] = "openSrc" => ~item'.isFifo
          /\ pc'[Manager] = "mkfifo" => item'.isFifo
      <4>1. pc'[Manager] \in {"openSrc", "mkfifo"} =>
              /\ item' = FilePair(e, 0, 0, Kind[e] = "fifo")
              /\ pc'[Manager] = "mkfifo" <=> Kind[e] = "fifo"
        BY <2>7, <1>0 DEF ReadEntry, Skip
      <4>2. FilePair(e, 0, 0, TRUE).isFifo /\ ~FilePair(e, 0, 0, FALSE).isFifo
        BY DEF FilePair
      <4>3. CASE Kind[e] = "fifo"
        <5>1. (Kind[e] = "fifo") = TRUE
          BY <4>3
        <5> QED BY <4>1, <4>2, <5>1
      <4>4. CASE Kind[e] # "fifo"
        <5>1. (Kind[e] = "fifo") = FALSE
          BY <4>4
        <5> QED BY <4>1, <4>2, <5>1
      <4> QED BY <4>3, <4>4
    <3> QED BY <2>0, <3>1, <3>2 DEF Owned, OwnedUnlessExit, OwnEnds, Pending
  <2>8. CASE MakeFifo
    <3>1. /\ UNCHANGED <<buffer, bufferCount, job, fds>>
          /\ \A w \in Workers : pc'[w] = pc[w]
          /\ \/ pc'[Manager] = "readdir"
             \/ pc'[Manager] = "push" /\ item' = item /\ item.isFifo
      BY <2>8, <2>0, <1>0
      DEF MakeFifo, Skip, queueVars, workVars, fileVars, Owned
    <3> QED BY <2>0, <3>1 DEF Owned, OwnedUnlessExit, OwnEnds, Pending
  <2>9. ASSUME NEW w \in Workers, PrintCopied(w) PROVE OwnedUnlessExit'
    <3>1. /\ UNCHANGED <<buffer, bufferCount, item, fds>>
          /\ pc'[Manager] = pc[Manager] /\ pc'[w] \notin Copying
          /\ \A v \in Workers \ {w} : pc'[v] = pc[v] /\ job'[v] = job[v]
      BY <2>9, <1>0 DEF PrintCopied, queueVars, walkVars, fileVars, Copying
    <3> QED BY <2>0, <3>1 DEF Owned, OwnedUnlessExit, OwnEnds, Pending
  <2>10. CASE OpenDir \/ OpenDirFails \/ CloseDir \/ SetDone \/ CountDir
    <3>1. /\ UNCHANGED <<buffer, bufferCount, job, item>>
          /\ \A w \in Workers : pc'[w] = pc[w]
          /\ pc'[Manager] \notin {"openSrc", "openDest", "mkfifo", "push"}
      BY <2>10, <1>0 DEF OpenDir, OpenDirFails, CloseDir, SetDone, CountDir,
                         Return, queueVars, walkVars, workVars
    <3>2. \A f \in Fds : fds[f][2] \in {"src", "dest"} => fds'[f] = fds[f]
      BY <2>10, <1>0, <1>free DEF OpenDir, OpenDirFails, CloseDir, SetDone,
                                  CountDir, fileVars, Closed
    <3>3. \A p : OwnEnds(p) => /\ fds'[p.srcFD] = <<p.name, "src">>
                               /\ fds'[p.destFD] = <<p.name, "dest">>
      BY <3>2 DEF OwnEnds
    <3> QED BY <2>0, <3>1, <3>3 DEF Owned, OwnedUnlessExit, OwnEnds, Pending
  <2>11. ASSUME NEW w \in Workers,
                \/ TakeWait(w) \/ Leave(w) \/ Read(w) \/ ReadEnds(w)
                \/ Write(w) \/ WriteFails(w) \/ AddBytes(w)
                \/ AddRegular(w) \/ AddFifo(w)
         PROVE  OwnedUnlessExit'
    <3>1. /\ UNCHANGED <<buffer, bufferCount, job, item, fds>>
          /\ pc'[Manager] = pc[Manager]
          /\ \A v \in Workers : pc'[v] \in Copying => pc[v] \in Copying
      BY <2>11, <1>0
         DEF TakeWait, Leave, Read, ReadEnds, Write, WriteFails, AddBytes,
             AddRegular, AddFifo, queueVars, walkVars, workVars, fileVars,
             Copying
    <3> QED BY <2>0, <3>1, OwnedFrame DEF OwnedUnlessExit
  <2>12. CASE \/ \E t \in Threads : Lock(t)
              \/ PushWait \/ Report \/ (\E t \in SigThreads : Sigint(t))
              \/ HandlerSetDone \/ HandlerExit \/ SpuriousWakeup
              \/ UNCHANGED vars
    <3>1. /\ UNCHANGED <<buffer, bufferCount, job, item, fds>>
          /\ pc'[Manager] = pc[Manager]
          /\ \A v \in Workers : pc'[v] = pc[v]
      BY <2>12, <1>0
         DEF Lock, PushWait, Report, Sigint, HandlerSetDone, HandlerExit,
             SpuriousWakeup, queueVars, walkVars, workVars, fileVars, vars
    <3> QED BY <2>0, <3>1, OwnedFrame DEF OwnedUnlessExit
  <2> QED
    BY <2>1, <2>2, <2>3, <2>4, <2>5, <2>6, <2>7, <2>8, <2>9, <2>10, <2>11,
       <2>12 DEF Operation
<1> QED BY <1>1, <1>2

(* Whatever is closed, reused or left stale in a FIFO's slot, a worker      *)
(* reads, writes and closes only the descriptors opened for its file.       *)
THEOREM DescriptorsOwnedHolds == Spec => []DescriptorsOwned
<1>1. /\ TypeOK /\ HandsOK /\ Apart /\ HandlerOK /\ OwnedUnlessExit
      /\ [Next]_vars
      => HandsOK' /\ Apart' /\ HandlerOK' /\ OwnedUnlessExit'
  BY NextIsOperation, PlacesPreserved, HandlerPreserved, OwnedPreserved
<1>2. Spec => [](HandsOK /\ Apart /\ HandlerOK /\ OwnedUnlessExit)
  BY InitPlaces, InitOwned, <1>1, TypeCorrect, PTL DEF Spec
<1>3. OwnedUnlessExit => DescriptorsOwned
  BY DEF OwnedUnlessExit, Owned, DescriptorsOwned
<1> QED BY <1>2, <1>3, PTL
-----------------------------------------------------------------------------
(* DrainedBeforeLeaving, and that only the manager's end sets done.         *)
Drained ==
  interrupted = NoOne =>
    /\ done => pc[Manager] = "ended"
    /\ (\E w \in Workers : pc[w] = "ended") => done /\ bufferCount = 0

LEMMA InitDrained == Init => Drained
BY ThreadsDistinct DEF Init, Drained, Threads

LEMMA DrainedPreserved ==
  ASSUME TypeOK, HandlerOK, Drained, Operation
  PROVE  Drained'
<1> USE ThreadsDistinct, EnvironmentAssumption
    DEF At, Holds, Runs, Goto, Threads, Drained
<1>0. pc \in [Threads -> Labels] /\ bufferCount \in Nat
  BY SizeAssumption DEF TypeOK, ControlOK, QueueOK
<1>1. ASSUME interrupted' = interrupted,
             done' => done,
             bufferCount' = bufferCount,
             pc[Manager] = "ended" => pc'[Manager] = "ended",
             \A w \in Workers : pc'[w] = "ended" => pc[w] = "ended",
             done => done'
      PROVE  Drained'
  BY <1>1
<1>2. CASE \/ \E t \in Threads : Lock(t)
           \/ OpenDir \/ OpenDirFails \/ (\E e \in Entries : ReadEntry(e))
           \/ OpenSrc \/ OpenDest \/ MakeFifo \/ PushWait \/ CountDir
           \/ CloseDir
  BY <1>2, <1>0, <1>1
     DEF Lock, OpenDir, OpenDirFails, Return, ReadEntry, OpenSrc, OpenDest,
         MakeFifo, Skip, PushWait, CountDir, CloseDir, queueVars, endVars
<1>3. CASE Push
  BY <1>3, <1>0 DEF Push, endVars
<1>4. CASE SetDone
  BY <1>4, <1>0 DEF SetDone, endVars
<1>5. ASSUME NEW w \in Workers,
             \/ TakeWait(w) \/ Read(w) \/ ReadEnds(w) \/ Write(w)
             \/ WriteFails(w) \/ AddBytes(w) \/ AddRegular(w) \/ CloseJob(w)
             \/ AddFifo(w) \/ PrintCopied(w)
      PROVE  Drained'
  BY <1>5, <1>0, <1>1
     DEF TakeWait, Read, ReadEnds, Write, WriteFails, AddBytes, AddRegular,
         CloseJob, AddFifo, PrintCopied, queueVars, endVars
<1>6. ASSUME NEW w \in Workers, Take(w) PROVE Drained'
  BY <1>6, <1>0 DEF Take, endVars
<1>7. ASSUME NEW w \in Workers, Leave(w) PROVE Drained'
  BY <1>7, <1>0 DEF Leave, queueVars, endVars, MayLeave
<1>8. ASSUME NEW t \in SigThreads, Sigint(t) PROVE Drained'
  BY <1>8, TreeAssumption DEF Sigint
<1>9. CASE HandlerSetDone \/ HandlerCloseAll
  BY <1>9 DEF HandlerOK, HandlerSetDone, HandlerCloseAll, endVars
<1>10. CASE Report \/ HandlerExit \/ SpuriousWakeup \/ UNCHANGED vars
  BY <1>10, <1>0, <1>1
     DEF Report, HandlerExit, SpuriousWakeup, queueVars, endVars, vars
<1> QED
  BY <1>2, <1>3, <1>4, <1>5, <1>6, <1>7, <1>8, <1>9, <1>10 DEF Operation

(* Without SIGINT no worker leaves before the walk is over and the buffer   *)
(* empty: no pushed file is abandoned, whatever the interleaving.           *)
THEOREM DrainedHolds == Spec => []DrainedBeforeLeaving
<1>1. TypeOK /\ HandlerOK /\ Drained /\ [Next]_vars => HandlerOK' /\ Drained'
  BY NextIsOperation, HandlerPreserved, DrainedPreserved
<1>2. Spec => [](HandlerOK /\ Drained)
  BY InitOwned, InitDrained, <1>1, TypeCorrect, PTL DEF Spec
<1>3. Drained => DrainedBeforeLeaving
  BY DEF Drained, DrainedBeforeLeaving
<1> QED BY <1>2, <1>3, PTL
-----------------------------------------------------------------------------
(* What a worker has read and not yet written, as a function of control;   *)
(* a file nobody copies yet is untouched.                                   *)
Fresh == {e \in Entries : e \in unread \/ e = item.name
                          \/ \E i \in Pending : buffer[i].name = e}
CopiedSoFar(w) == Len(content[job[w].name])
ContentOK ==
  /\ \A e \in Entries : \A i \in 1 .. Len(content[e]) : content[e][i] = <<e, i>>
  /\ \A e \in Fresh : offset[e] = 0 /\ content[e] = <<>>
  /\ \A w \in Workers : pc[w] \in {"read", "addBytes"} =>
                          offset[job[w].name] = CopiedSoFar(w)
  /\ \A w \in Workers : pc[w] = "write" =>
       /\ offset[job[w].name] = CopiedSoFar(w) + 1
       /\ block[w] = <<job[w].name, offset[job[w].name]>>
ContentUnlessExit == pc[Handler] # "exit" => ContentOK

LEMMA InitContent == Init => ContentUnlessExit
BY ThreadsDistinct DEF Init, ContentUnlessExit, ContentOK, Fresh, Threads

LEMMA ContentPreserved ==
  ASSUME TypeOK, HandsOK, Apart, HandlerOK, OwnedUnlessExit,
         ContentUnlessExit, Operation
  PROVE  ContentUnlessExit'
<1> USE ThreadsDistinct, TreeAssumption DEF At, Holds, Runs, Goto
<1>0. /\ pc \in [Threads -> Labels] /\ Manager \in Threads
      /\ Workers \subseteq Threads /\ Manager \notin Workers
      /\ item \in FilePairs /\ job \in [Workers -> FilePairs]
      /\ offset \in [Entries -> Nat]
      /\ content \in [Entries -> Seq(Names \X Nat)]
      /\ block \in [Workers -> Names \X Nat]
  BY DEF TypeOK, ControlOK, WalkOK, FileOK, WorkOK, Threads
<1> SUFFICES ASSUME pc'[Handler] # "exit" PROVE ContentOK'
  BY DEF ContentUnlessExit
<1>1. Owned /\ ContentOK
  BY ExitStays DEF OwnedUnlessExit, ContentUnlessExit
<1>2. ASSUME NEW w \in Workers, pc[w] \in Copying
      PROVE  /\ job[w].name \in Entries \ Fresh
             /\ FileAt(job[w].srcFD, "src") = job[w].name
             /\ FileAt(job[w].destFD, "dest") = job[w].name
             /\ \A v \in Workers \ {w} : job[v].name # job[w].name
  <2>1. job[w].name \in Entries
    BY <1>0, <1>2, PairsTyped DEF HandsOK, Copying, Names
  <2>2. job[w].name \notin Fresh
    BY <2>1 DEF Apart, Fresh
  <2>3. OwnEnds(job[w])
    BY <1>1, <1>2 DEF Owned
  <2> QED BY <2>1, <2>2, <2>3 DEF OwnEnds, FileAt, Apart
<1>3. ASSUME NEW w \in Workers, Read(w) PROVE ContentOK'
  <2> DEFINE e == job[w].name
  <2>1. /\ pc[w] = "read" /\ pc' = [pc EXCEPT ![w] = "write"]
        /\ UNCHANGED <<job, content, unread, item, buffer, bufferCount>>
    BY <1>3 DEF Read, queueVars, walkVars
  <2>2. /\ e \in Entries \ Fresh /\ FileAt(job[w].srcFD, "src") = e
        /\ \A v \in Workers \ {w} : job[v].name # e
    BY <1>2, <2>1 DEF Copying
  <2>3. /\ offset' = [offset EXCEPT ![e] = offset[e] + 1]
        /\ block' = [block EXCEPT ![w] = <<e, offset[e] + 1>>]
    BY <1>3, <2>2 DEF Read
  <2>4. Fresh' = Fresh
    BY <2>1 DEF Fresh, Pending
  <2>5. offset[e] = CopiedSoFar(w) /\ \A v \in Workers : CopiedSoFar(v)' = CopiedSoFar(v)
    BY <1>1, <2>1 DEF ContentOK, CopiedSoFar
  <2> HIDE DEF e
  <2>6. \A f \in Fresh' : offset'[f] = 0 /\ content'[f] = <<>>
    BY <1>0, <1>1, <2>1, <2>2, <2>3, <2>4 DEF ContentOK, Fresh
  <2>7. ASSUME NEW v \in Workers, pc'[v] \in {"read", "addBytes"}
        PROVE  offset'[job'[v].name] = CopiedSoFar(v)'
    <3>1. v # w /\ pc[v] = pc'[v]
      BY <1>0, <2>1, <2>7
    <3>2. offset'[job[v].name] = offset[job[v].name]
      BY <1>0, <2>2, <2>3, <3>1
    <3> QED BY <1>1, <2>1, <2>5, <2>7, <3>1, <3>2 DEF ContentOK
  <2>8. ASSUME NEW v \in Workers, pc'[v] = "write"
        PROVE  /\ offset'[job'[v].name] = CopiedSoFar(v)' + 1
               /\ block'[v] = <<job'[v].name, offset'[job'[v].name]>>
    <3>1. CASE v = w
      BY <1>0, <2>1, <2>2, <2>3, <2>5, <3>1 DEF e
    <3>2. CASE v # w
      <4>1. pc[v] = "write" /\ block'[v] = block[v]
        BY <1>0, <2>1, <2>3, <2>8, <3>2
      <4>2. offset'[job[v].name] = offset[job[v].name]
        BY <1>0, <2>2, <2>3, <3>2
      <4> QED BY <1>1, <2>1, <2>5, <4>1, <4>2 DEF ContentOK
    <3> QED BY <3>1, <3>2
  <2> QED BY <1>1, <2>1, <2>6, <2>7, <2>8 DEF ContentOK
<1>4. ASSUME NEW w \in Workers, Write(w) PROVE ContentOK'
  <2> DEFINE e == job[w].name
  <2>1. /\ pc[w] = "write" /\ pc' = [pc EXCEPT ![w] = "addBytes"]
        /\ UNCHANGED <<job, block, offset, unread, item, buffer, bufferCount>>
    BY <1>4 DEF Write, queueVars, walkVars, workVars
  <2>2. /\ e \in Entries \ Fresh /\ FileAt(job[w].destFD, "dest") = e
        /\ \A v \in Workers \ {w} : job[v].name # e
    BY <1>2, <2>1 DEF Copying
  <2>3. content' = [content EXCEPT ![e] = Append(content[e], block[w])]
    BY <1>4, <2>2 DEF Write
  <2>4. Fresh' = Fresh
    BY <2>1 DEF Fresh, Pending
  <2>5. /\ content[e] \in Seq(Names \X Nat) /\ block[w] \in Names \X Nat
        /\ offset[e] = Len(content[e]) + 1 /\ block[w] = <<e, offset[e]>>
    BY <1>0, <1>1, <2>1, <2>2 DEF ContentOK, CopiedSoFar
  <2> HIDE DEF e
  <2>6. /\ Len(content'[e]) = Len(content[e]) + 1 /\ Len(content[e]) \in Nat
        /\ \A i \in 1 .. Len(content[e]) : content'[e][i] = content[e][i]
        /\ content'[e][Len(content[e]) + 1] = block[w]
        /\ \A f \in Entries \ {e} : content'[f] = content[f]
    <3>1. content'[e] = Append(content[e], block[w])
      BY <1>0, <2>2, <2>3
    <3>2. /\ Len(Append(content[e], block[w])) = Len(content[e]) + 1
          /\ Len(content[e]) \in Nat
          /\ \A i \in 1 .. Len(content[e]) :
               Append(content[e], block[w])[i] = content[e][i]
          /\ Append(content[e], block[w])[Len(content[e]) + 1] = block[w]
      BY <2>5
    <3> QED BY <1>0, <2>3, <3>1, <3>2
  <2>7. ASSUME NEW f \in Entries, NEW i \in 1 .. Len(content'[f])
        PROVE  content'[f][i] = <<f, i>>
    <3>1. CASE f # e
      BY <1>1, <2>6, <3>1 DEF ContentOK
    <3>2. CASE f = e /\ i \in 1 .. Len(content[e])
      BY <1>1, <2>2, <2>6, <3>2 DEF ContentOK
    <3>3. CASE f = e /\ i = Len(content[e]) + 1
      BY <2>5, <2>6, <3>3
    <3> QED BY <2>6, <3>1, <3>2, <3>3
  <2>8. \A f \in Fresh' : offset'[f] = 0 /\ content'[f] = <<>>
    BY <1>1, <2>1, <2>2, <2>4, <2>6 DEF ContentOK, Fresh
  <2>9. \A v \in Workers \ {w} : /\ pc'[v] = pc[v]
                                 /\ job[v].name \in Entries =>
                                      CopiedSoFar(v)' = CopiedSoFar(v)
    BY <1>0, <2>1, <2>2, <2>6 DEF CopiedSoFar
  <2>10. ASSUME NEW v \in Workers, pc'[v] \in {"read", "addBytes"}
         PROVE  offset'[job'[v].name] = CopiedSoFar(v)'
    <3>1. CASE v = w
      BY <2>1, <2>5, <2>6, <3>1 DEF CopiedSoFar, e
    <3>2. CASE v # w
      BY <1>1, <1>2, <2>1, <2>9, <2>10, <3>2 DEF ContentOK, Copying
    <3> QED BY <3>1, <3>2
  <2>11. ASSUME NEW v \in Workers, pc'[v] = "write"
         PROVE  /\ offset'[job'[v].name] = CopiedSoFar(v)' + 1
                /\ block'[v] = <<job'[v].name, offset'[job'[v].name]>>
    <3>1. v # w
      BY <1>0, <2>1, <2>11
    <3> QED BY <1>1, <1>2, <2>1, <2>9, <2>11, <3>1 DEF ContentOK, Copying
  <2> QED BY <2>7, <2>8, <2>10, <2>11 DEF ContentOK
<1>5. ASSUME UNCHANGED <<offset, content>>, Fresh' \subseteq Fresh,
             \A w \in Workers : pc'[w] \in {"read", "write", "addBytes"} =>
               /\ job'[w] = job[w] /\ block'[w] = block[w]
               /\ pc'[w] = pc[w] \/ (pc'[w] = "read" /\ pc[w] = "addBytes")
      PROVE  ContentOK'
  BY <1>1, <1>5 DEF ContentOK, CopiedSoFar
<1>6. ASSUME NEW w \in Workers, Take(w) PROVE ContentOK'
  <2>1. /\ bufferCount \in Nat /\ bufferCount' = bufferCount - 1
        /\ bufferCount - 1 \in Pending
    BY <1>6, SizeAssumption DEF Take, TypeOK, QueueOK, Pending
  <2>2. /\ UNCHANGED <<buffer, item, unread, offset, content, block>>
        /\ job' = [job EXCEPT ![w] = buffer[bufferCount - 1]]
        /\ pc'[w] \in {"read", "addFifo"}
        /\ \A v \in Workers \ {w} : pc'[v] = pc[v]
    BY <1>0, <1>6 DEF Take, walkVars, fileVars, Top
  <2>3. Fresh' \subseteq Fresh
    BY <2>1, <2>2 DEF Fresh, Pending
  <2>4. buffer[bufferCount - 1].name \in Fresh
    BY <2>1 DEF Fresh, HandsOK
  <2>5. /\ job'[w].name \in Fresh /\ \A v \in Workers \ {w} : job'[v] = job[v]
    BY <1>0, <2>2, <2>4
  <2>6. offset[job'[w].name] = 0 /\ content[job'[w].name] = <<>>
    BY <1>1, <2>5 DEF ContentOK
  <2>7. CopiedSoFar(w)' = 0 /\ \A v \in Workers \ {w} : CopiedSoFar(v)' = CopiedSoFar(v)
    BY <2>2, <2>5, <2>6 DEF CopiedSoFar
  <2> QED BY <1>1, <2>2, <2>3, <2>5, <2>6, <2>7 DEF ContentOK
<1>7. ASSUME UNCHANGED <<offset, content, job, block>>,
             \A w \in Workers : pc'[w] = pc[w],
             Fresh' \subseteq Fresh
      PROVE  ContentOK'
  BY <1>5, <1>7
<1>8. ASSUME NEW e \in Entries, ReadEntry(e) PROVE ContentOK'
  <2>1. /\ item' = item \/ item'.name = e
        /\ UNCHANGED <<buffer, bufferCount, job, block, offset, content>>
        /\ unread' \subseteq unread /\ e \in unread
        /\ \A w \in Workers : pc'[w] = pc[w]
    BY <1>0, <1>8 DEF ReadEntry, Skip, FilePair, queueVars, workVars, fileVars
  <2>2. Fresh' \subseteq Fresh
    BY <2>1 DEF Fresh, Pending
  <2> QED BY <1>7, <2>1, <2>2
<1>9. CASE OpenSrc \/ OpenDest \/ MakeFifo
  <2>1. /\ item'.name \in {item.name, NoOne}
        /\ UNCHANGED <<buffer, bufferCount, job, block, offset, content, unread>>
        /\ \A w \in Workers : pc'[w] = pc[w]
    BY <1>0, <1>9 DEF OpenSrc, OpenDest, MakeFifo, Skip, FilePair, ZeroPair,
                      queueVars, workVars, fileVars
  <2>2. Fresh' \subseteq Fresh
    BY <2>1 DEF Fresh, Pending
  <2> QED BY <1>7, <2>1, <2>2
<1>10. CASE Push
  <2>1. /\ bufferCount \in Slots /\ bufferCount' = bufferCount + 1
        /\ bufferCount \in Nat
    BY <1>10, SizeAssumption DEF Push, TypeOK, QueueOK, Slots, Full
  <2>2. Pending' = Pending \cup {bufferCount}
    BY <2>1 DEF Pending
  <2>3. /\ buffer'[bufferCount].name = item.name
        /\ \A i \in Pending : buffer'[i] = buffer[i]
    BY <1>10, <2>1
    DEF Push, Full, Filled, FilePair, TypeOK, QueueOK, Pending, Slots
  <2>4. /\ UNCHANGED <<job, block, offset, content, unread>>
        /\ \A w \in Workers : pc'[w] = pc[w]
        /\ item'.name = NoOne
    BY <1>0, <1>10 DEF Push, workVars, fileVars, ZeroPair, FilePair
  <2>5. Fresh' \subseteq Fresh
    BY <2>2, <2>3, <2>4 DEF Fresh
  <2> QED BY <1>7, <2>4, <2>5
<1>11. ASSUME NEW w \in Workers,
              \/ TakeWait(w) \/ Leave(w) \/ ReadEnds(w) \/ WriteFails(w)
              \/ AddBytes(w) \/ AddRegular(w) \/ CloseJob(w) \/ AddFifo(w)
       PROVE  ContentOK'
  <2>1. /\ UNCHANGED <<buffer, bufferCount, item, unread, job, block, offset,
                       content>>
        /\ \A v \in Workers : pc'[v] \in {"read", "write", "addBytes"} =>
             pc'[v] = pc[v] \/ (pc'[v] = "read" /\ pc[v] = "addBytes")
    BY <1>0, <1>11
       DEF TakeWait, Leave, ReadEnds, WriteFails, AddBytes, AddRegular,
           CloseJob, AddFifo, queueVars, walkVars, workVars, fileVars
  <2>2. Fresh' \subseteq Fresh
    BY <2>1 DEF Fresh, Pending
  <2> QED BY <1>5, <2>1, <2>2
<1>12. ASSUME NEW w \in Workers, PrintCopied(w) PROVE ContentOK'
  <2>1. /\ UNCHANGED <<buffer, bufferCount, item, unread, offset, content>>
        /\ pc'[w] = "take"
        /\ \A v \in Workers \ {w} :
             pc'[v] = pc[v] /\ job'[v] = job[v] /\ block'[v] = block[v]
    BY <1>0, <1>12 DEF PrintCopied, queueVars, walkVars, fileVars
  <2>2. Fresh' \subseteq Fresh
    BY <2>1 DEF Fresh, Pending
  <2> QED BY <1>5, <2>1, <2>2
<1>13. CASE \/ \E t \in Threads : Lock(t)
            \/ OpenDir \/ OpenDirFails \/ PushWait \/ CountDir \/ CloseDir
            \/ SetDone \/ Report \/ (\E t \in SigThreads : Sigint(t))
            \/ HandlerSetDone \/ HandlerCloseAll \/ HandlerExit
            \/ SpuriousWakeup \/ UNCHANGED vars
  <2>1. /\ UNCHANGED <<buffer, bufferCount, item, unread, job, block, offset,
                       content>>
        /\ \A v \in Workers : pc'[v] = pc[v]
    BY <1>0, <1>13
       DEF Lock, OpenDir, OpenDirFails, Return, PushWait, CountDir, CloseDir,
           SetDone, Report, Sigint, HandlerSetDone, HandlerCloseAll,
           HandlerExit, SpuriousWakeup, vars, queueVars, walkVars, workVars,
           fileVars
  <2>2. Fresh' \subseteq Fresh
    BY <2>1 DEF Fresh, Pending
  <2> QED BY <1>7, <2>1, <2>2
<1> QED
  BY <1>3, <1>4, <1>6, <1>8, <1>9, <1>10, <1>11, <1>12, <1>13 DEF Operation

(* A file that a short write cut has lost one block and no worker reads or  *)
(* writes it any more.                                                      *)
CutOK ==
  /\ \A e \in cut : offset[e] = Len(content[e]) + 1 /\ e \notin Fresh
  /\ \A w \in Workers :
       pc[w] \in {"read", "write", "addBytes"} => job[w].name \notin cut
CutUnlessExit == pc[Handler] # "exit" => CutOK

LEMMA InitCut == Init => CutUnlessExit
BY ThreadsDistinct DEF Init, CutUnlessExit, CutOK, Threads

LEMMA CutPreserved ==
  ASSUME TypeOK, HandsOK, Apart, HandlerOK, OwnedUnlessExit,
         ContentUnlessExit, CutUnlessExit, Operation
  PROVE  CutUnlessExit'
<1> USE ThreadsDistinct, TreeAssumption DEF At, Holds, Runs, Goto
<1>0. /\ pc \in [Threads -> Labels] /\ Manager \in Threads
      /\ Workers \subseteq Threads /\ Manager \notin Workers
      /\ item \in FilePairs /\ job \in [Workers -> FilePairs]
      /\ offset \in [Entries -> Nat] /\ cut \subseteq Entries
      /\ content \in [Entries -> Seq(Names \X Nat)]
  BY DEF TypeOK, ControlOK, WalkOK, FileOK, WorkOK, Threads
<1> SUFFICES ASSUME pc'[Handler] # "exit" PROVE CutOK'
  BY DEF CutUnlessExit
<1>1. Owned /\ ContentOK /\ CutOK
  BY ExitStays DEF OwnedUnlessExit, ContentUnlessExit, CutUnlessExit
<1>2. ASSUME NEW w \in Workers, pc[w] \in Copying
      PROVE  /\ job[w].name \in Entries \ Fresh
             /\ FileAt(job[w].srcFD, "src") = job[w].name
             /\ FileAt(job[w].destFD, "dest") = job[w].name
             /\ \A v \in Workers \ {w} : job[v].name # job[w].name
  <2>1. job[w].name \in Entries
    BY <1>0, <1>2, PairsTyped DEF HandsOK, Copying, Names
  <2>2. job[w].name \notin Fresh
    BY <2>1 DEF Apart, Fresh
  <2>3. OwnEnds(job[w])
    BY <1>1, <1>2 DEF Owned
  <2> QED BY <2>1, <2>2, <2>3 DEF OwnEnds, FileAt, Apart
<1>3. ASSUME NEW w \in Workers, Read(w) \/ Write(w) PROVE CutOK'
  <2> DEFINE e == job[w].name
  <2>1. /\ pc[w] \in {"read", "write"} /\ cut' = cut
        /\ \A v \in Workers \ {w} : pc'[v] = pc[v]
        /\ UNCHANGED <<job, unread, item, buffer, bufferCount>>
    BY <1>0, <1>3 DEF Read, Write, queueVars, walkVars, workVars
  <2>2. /\ e \in Entries \ Fresh /\ FileAt(job[w].srcFD, "src") = e
        /\ FileAt(job[w].destFD, "dest") = e
    BY <1>2, <2>1 DEF Copying
  <2>3. \A f \in Entries \ {e} : offset'[f] = offset[f] /\ content'[f] = content[f]
    BY <1>0, <1>3, <2>2 DEF Read, Write
  <2>4. Fresh' = Fresh
    BY <2>1 DEF Fresh, Pending
  <2>5. e \notin cut
    BY <1>1, <2>1 DEF CutOK
  <2>6. \A f \in cut : offset'[f] = offset[f] /\ content'[f] = content[f]
    BY <1>0, <2>3, <2>5
  <2>7. \A v \in Workers : pc'[v] \in {"read", "write", "addBytes"} =>
                             job[v].name \notin cut
    BY <1>1, <2>1, <2>5 DEF CutOK
  <2> HIDE DEF e
  <2> QED BY <1>1, <2>1, <2>4, <2>6, <2>7 DEF CutOK
<1>4. ASSUME NEW w \in Workers, WriteFails(w) PROVE CutOK'
  <2> DEFINE e == job[w].name
  <2>1. /\ pc[w] = "write" /\ pc' = [pc EXCEPT ![w] = "addRegular"]
        /\ UNCHANGED <<job, unread, item, buffer, bufferCount, offset, content>>
    BY <1>4 DEF WriteFails, queueVars, walkVars, workVars
  <2>2. /\ e \in Entries \ Fresh /\ FileAt(job[w].destFD, "dest") = e
        /\ \A v \in Workers \ {w} : job[v].name # e
    BY <1>2, <2>1 DEF Copying
  <2>3. cut' \subseteq cut \cup {e}
    BY <1>4, <2>2 DEF WriteFails, CutShort
  <2>4. Fresh' = Fresh
    BY <2>1 DEF Fresh, Pending
  <2>5. offset[e] = Len(content[e]) + 1
    BY <1>1, <2>1 DEF ContentOK, CopiedSoFar
  <2>6. \A v \in Workers : pc'[v] \in {"read", "write", "addBytes"} =>
          v # w /\ pc'[v] = pc[v]
    BY <1>0, <2>1
  <2> HIDE DEF e
  <2>7. \A v \in Workers : pc'[v] \in {"read", "write", "addBytes"} =>
                             job[v].name \notin cut'
    BY <1>1, <2>2, <2>3, <2>6 DEF CutOK
  <2>8. \A f \in cut' : offset[f] = Len(content[f]) + 1 /\ f \notin Fresh
    BY <1>1, <2>2, <2>3, <2>5 DEF CutOK
  <2> QED BY <2>1, <2>4, <2>7, <2>8 DEF CutOK
<1>5. ASSUME UNCHANGED <<offset, content, cut>>, Fresh' \subseteq Fresh,
             \A w \in Workers : pc'[w] \in {"read", "write", "addBytes"} =>
               \/ job'[w] = job[w] /\ pc[w] \in {"read", "write", "addBytes"}
               \/ job'[w].name \in Fresh
      PROVE  CutOK'
  BY <1>1, <1>5 DEF CutOK
<1>6. ASSUME NEW w \in Workers, Take(w) PROVE CutOK'
  <2>1. /\ bufferCount \in Nat /\ bufferCount' = bufferCount - 1
        /\ bufferCount - 1 \in Pending
    BY <1>6, SizeAssumption DEF Take, TypeOK, QueueOK, Pending
  <2>2. /\ UNCHANGED <<buffer, item, unread, offset, content, cut>>
        /\ job' = [job EXCEPT ![w] = buffer[bufferCount - 1]]
        /\ \A v \in Workers \ {w} : pc'[v] = pc[v]
    BY <1>0, <1>6 DEF Take, walkVars, fileVars, Top
  <2>3. Fresh' \subseteq Fresh
    BY <2>1, <2>2 DEF Fresh, Pending
  <2>4. buffer[bufferCount - 1].name \in Fresh
    BY <2>1 DEF Fresh, HandsOK
  <2>5. job'[w].name \in Fresh /\ \A v \in Workers \ {w} : job'[v] = job[v]
    BY <1>0, <2>2, <2>4
  <2>6. \A v \in Workers : pc'[v] \in {"read", "write", "addBytes"} =>
          \/ job'[v] = job[v] /\ pc[v] \in {"read", "write", "addBytes"}
          \/ job'[v].name \in Fresh
    BY <2>2, <2>5
  <2> QED BY <1>5, <2>2, <2>3, <2>6
<1>7. ASSUME UNCHANGED <<offset, content, cut, job>>, Fresh' \subseteq Fresh,
             \A w \in Workers : pc'[w] = pc[w]
      PROVE  CutOK'
  BY <1>5, <1>7
<1>8. ASSUME NEW e \in Entries, ReadEntry(e) PROVE CutOK'
  <2>1. /\ item' = item \/ item'.name = e
        /\ UNCHANGED <<buffer, bufferCount, job, offset, content, cut>>
        /\ unread' \subseteq unread /\ e \in unread
        /\ \A w \in Workers : pc'[w] = pc[w]
    BY <1>0, <1>8 DEF ReadEntry, Skip, FilePair, queueVars, workVars, fileVars
  <2>2. Fresh' \subseteq Fresh
    BY <2>1 DEF Fresh, Pending
  <2> QED BY <1>7, <2>1, <2>2
<1>9. CASE OpenSrc \/ OpenDest \/ MakeFifo
  <2>1. /\ item'.name \in {item.name, NoOne}
        /\ UNCHANGED <<buffer, bufferCount, job, offset, content, cut, unread>>
        /\ \A w \in Workers : pc'[w] = pc[w]
    BY <1>0, <1>9 DEF OpenSrc, OpenDest, MakeFifo, Skip, FilePair, ZeroPair,
                      queueVars, workVars, fileVars
  <2>2. Fresh' \subseteq Fresh
    BY <2>1 DEF Fresh, Pending
  <2> QED BY <1>7, <2>1, <2>2
<1>10. CASE Push
  <2>1. /\ bufferCount \in Slots /\ bufferCount' = bufferCount + 1
        /\ bufferCount \in Nat
    BY <1>10, SizeAssumption DEF Push, TypeOK, QueueOK, Slots, Full
  <2>2. Pending' = Pending \cup {bufferCount}
    BY <2>1 DEF Pending
  <2>3. /\ buffer'[bufferCount].name = item.name
        /\ \A i \in Pending : buffer'[i] = buffer[i]
    BY <1>10, <2>1
    DEF Push, Full, Filled, FilePair, TypeOK, QueueOK, Pending, Slots
  <2>4. /\ UNCHANGED <<job, offset, content, cut, unread>>
        /\ \A w \in Workers : pc'[w] = pc[w]
        /\ item'.name = NoOne
    BY <1>0, <1>10 DEF Push, workVars, fileVars, ZeroPair, FilePair
  <2>5. Fresh' \subseteq Fresh
    BY <2>2, <2>3, <2>4 DEF Fresh
  <2> QED BY <1>7, <2>4, <2>5
<1>11. ASSUME NEW w \in Workers,
              \/ TakeWait(w) \/ Leave(w) \/ ReadEnds(w) \/ AddBytes(w)
              \/ AddRegular(w) \/ CloseJob(w) \/ AddFifo(w) \/ PrintCopied(w)
       PROVE  CutOK'
  <2>1. /\ UNCHANGED <<buffer, bufferCount, item, unread, offset, content, cut>>
        /\ \A v \in Workers : pc'[v] \in {"read", "write", "addBytes"} =>
             job'[v] = job[v] /\ pc[v] \in {"read", "write", "addBytes"}
    BY <1>0, <1>11
       DEF TakeWait, Leave, ReadEnds, AddBytes, AddRegular, PrintCopied,
           CloseJob, AddFifo, queueVars, walkVars, workVars, fileVars
  <2>2. Fresh' \subseteq Fresh
    BY <2>1 DEF Fresh, Pending
  <2> QED BY <1>5, <2>1, <2>2
<1>12. CASE \/ \E t \in Threads : Lock(t)
            \/ OpenDir \/ OpenDirFails \/ PushWait \/ CountDir \/ CloseDir
            \/ SetDone \/ Report \/ (\E t \in SigThreads : Sigint(t))
            \/ HandlerSetDone \/ HandlerCloseAll \/ HandlerExit
            \/ SpuriousWakeup \/ UNCHANGED vars
  <2>1. /\ UNCHANGED <<buffer, bufferCount, item, unread, job, offset,
                       content, cut>>
        /\ \A v \in Workers : pc'[v] = pc[v]
    BY <1>0, <1>12
       DEF Lock, OpenDir, OpenDirFails, Return, PushWait, CountDir, CloseDir,
           SetDone, Report, Sigint, HandlerSetDone, HandlerCloseAll,
           HandlerExit, SpuriousWakeup, vars, queueVars, walkVars, workVars,
           fileVars
  <2>2. Fresh' \subseteq Fresh
    BY <2>1 DEF Fresh, Pending
  <2> QED BY <1>7, <2>1, <2>2
<1> QED
  BY <1>3, <1>4, <1>6, <1>8, <1>9, <1>10, <1>11, <1>12 DEF Operation

(* However the workers' reads, writes and failures interleave, what a       *)
(* destination file holds are the first blocks of its own source, in order, *)
(* and nothing follows the part of a block that a short write left.         *)
THEOREM ContentInOrderHolds == Spec => []ContentInOrder
<1>1. /\ TypeOK /\ HandsOK /\ Apart /\ HandlerOK /\ OwnedUnlessExit
      /\ ContentUnlessExit /\ CutUnlessExit /\ [Next]_vars
      => HandsOK' /\ Apart' /\ HandlerOK' /\ OwnedUnlessExit'
         /\ ContentUnlessExit' /\ CutUnlessExit'
  BY NextIsOperation, PlacesPreserved, HandlerPreserved, OwnedPreserved,
     ContentPreserved, CutPreserved
<1>2. Spec => [](ContentUnlessExit /\ CutUnlessExit)
  BY InitPlaces, InitOwned, InitContent, InitCut, <1>1, TypeCorrect, PTL
     DEF Spec
<1>3. ContentUnlessExit /\ CutUnlessExit => ContentInOrder
  BY DEF ContentUnlessExit, ContentOK, CutUnlessExit, CutOK, ContentInOrder
<1> QED BY <1>2, <1>3, PTL
-----------------------------------------------------------------------------
(* The manager pushes what stat told it: isFifo is the kind of the file,    *)
(* in every hand, and only regular files and FIFOs are pushed.              *)
KindOf(p) == IF p.isFifo THEN "fifo" ELSE "regular"
KindOK ==
  /\ pc[Manager] \in Carrying =>
       Kind[item.name] = KindOf(item) /\ Parent[item.name] = cwd
  /\ pc[Manager] \in {"openSrc", "openDest"} => ~item.isFifo
  /\ pc[Manager] = "mkfifo" => item.isFifo
  /\ \A i \in Pending : Kind[buffer[i].name] = KindOf(buffer[i])
  /\ \A w \in Workers : job[w].name # NoOne => Kind[job[w].name] = KindOf(job[w])
  /\ \A w \in Workers : /\ pc[w] \in Copying => ~job[w].isFifo
                        /\ pc[w] = "addFifo" => job[w].isFifo
  /\ \A e \in printed : Kind[e] \in {"regular", "fifo"}

LEMMA InitKind == Init => KindOK
BY ThreadsDistinct
   DEF Init, KindOK, Pending, Carrying, Copying, Threads, ZeroPair, FilePair

LEMMA KindPreserved ==
  ASSUME TypeOK, HandsOK, KindOK, Operation
  PROVE  KindOK'
<1> USE ThreadsDistinct DEF At, Holds, Runs, Goto
<1>0. /\ pc \in [Threads -> Labels] /\ Manager \in Threads
      /\ Workers \subseteq Threads /\ Manager \notin Workers
      /\ item \in FilePairs /\ job \in [Workers -> FilePairs]
      /\ buffer \in [Slots -> FilePairs]
  BY DEF TypeOK, ControlOK, WalkOK, WorkOK, QueueOK, Threads
<1>1. ASSUME NEW e \in Entries, ReadEntry(e) PROVE KindOK'
  <2>1. /\ UNCHANGED <<buffer, bufferCount, job, printed>>
        /\ \A w \in Workers : pc'[w] = pc[w]
    BY <1>0, <1>1 DEF ReadEntry, Skip, queueVars, workVars, endVars
  <2>2. \/ /\ pc'[Manager] = IF Kind[e] = "fifo" THEN "mkfifo" ELSE "openSrc"
           /\ Kind[e] \in {"regular", "fifo"}
           /\ item' = FilePair(e, 0, 0, Kind[e] = "fifo")
           /\ cwd' = cwd /\ Parent[e] = cwd
        \/ pc'[Manager] \in {"readdir", "countDir"}
    BY <1>0, <1>1 DEF ReadEntry, Skip
  <2>3. CASE pc'[Manager] \in {"readdir", "countDir"}
    BY <2>1, <2>3 DEF KindOK, KindOf, Pending, Carrying
  <2>4. CASE Kind[e] = "fifo" /\ pc'[Manager] = "mkfifo"
    <3>1. (Kind[e] = "fifo") = TRUE
      BY <2>4
    <3>2. item' = FilePair(e, 0, 0, TRUE) /\ cwd' = cwd /\ Parent[e] = cwd
      BY <2>2, <2>4, <3>1
    <3>3. item'.name = e /\ item'.isFifo
      BY <3>2 DEF FilePair
    <3> QED BY <2>1, <2>4, <3>2, <3>3 DEF KindOK, KindOf, Pending, Carrying
  <2>5. CASE Kind[e] = "regular" /\ pc'[Manager] = "openSrc"
    <3>1. (Kind[e] = "fifo") = FALSE
      BY <2>5
    <3>2. item' = FilePair(e, 0, 0, FALSE) /\ cwd' = cwd /\ Parent[e] = cwd
      BY <2>2, <2>5, <3>1
    <3>3. item'.name = e /\ ~item'.isFifo
      BY <3>2 DEF FilePair
    <3> QED BY <2>1, <2>5, <3>2, <3>3 DEF KindOK, KindOf, Pending, Carrying
  <2> QED BY <2>2, <2>3, <2>4, <2>5
<1>2. CASE OpenSrc \/ OpenDest \/ MakeFifo
  <2>1. /\ UNCHANGED <<buffer, bufferCount, job, printed, cwd>>
        /\ \A w \in Workers : pc'[w] = pc[w]
    BY <1>0, <1>2 DEF OpenSrc, OpenDest, MakeFifo, Skip, queueVars, workVars,
                      endVars
  <2>2. pc[Manager] \in Carrying
    BY <1>2 DEF OpenSrc, OpenDest, MakeFifo, Carrying
  <2>3. \/ /\ item'.name = item.name /\ (item'.isFifo <=> item.isFifo)
           /\ pc'[Manager] = "openDest" => ~item.isFifo
           /\ pc'[Manager] \in {"openDest", "push"}
        \/ pc'[Manager] = "readdir"
    <3>1. CASE OpenSrc
      BY <1>0, <3>1, <2>2 DEF OpenSrc, Skip, FilePair, KindOK
    <3>2. CASE OpenDest
      BY <1>0, <3>2, <2>2 DEF OpenDest, Skip, FilePair, KindOK
    <3>3. CASE MakeFifo
      BY <1>0, <3>3 DEF MakeFifo, Skip
    <3> QED BY <1>2, <3>1, <3>2, <3>3
  <2> QED BY <2>1, <2>2, <2>3 DEF KindOK, KindOf, Pending, Carrying
<1>3. CASE Push
  <2>1. /\ bufferCount \in Slots /\ bufferCount' = bufferCount + 1
        /\ bufferCount \in Nat
    BY <1>3, SizeAssumption DEF Push, TypeOK, QueueOK, Slots, Full
  <2>2. Pending' = Pending \cup {bufferCount}
    BY <2>1 DEF Pending
  <2>3. /\ buffer'[bufferCount].name = item.name
        /\ buffer'[bufferCount].isFifo = item.isFifo
        /\ \A i \in Pending : buffer'[i] = buffer[i]
    <3>1. /\ Filled(buffer[bufferCount]).name = item.name
          /\ Filled(buffer[bufferCount]).isFifo = item.isFifo
      BY PairsTyped, <1>0 DEF Filled, FilePair
    <3> QED BY <1>0, <1>3, <2>1, <3>1 DEF Push, Pending
  <2>4. /\ UNCHANGED <<job, printed, cwd>>
        /\ pc[Manager] = "push" /\ pc'[Manager] = "readdir"
        /\ \A w \in Workers : pc'[w] = pc[w]
    BY <1>0, <1>3 DEF Push, workVars, endVars
  <2>5. \A i \in Pending' : Kind[buffer'[i].name] = KindOf(buffer'[i])
    BY <2>2, <2>3, <2>4 DEF KindOK, KindOf, Carrying
  <2> QED BY <2>4, <2>5 DEF KindOK, KindOf, Carrying
<1>4. ASSUME NEW w \in Workers, Take(w) PROVE KindOK'
  <2>1. /\ bufferCount \in Nat /\ bufferCount' = bufferCount - 1
        /\ bufferCount - 1 \in Pending /\ Pending' \subseteq Pending
    BY <1>4, SizeAssumption DEF Take, TypeOK, QueueOK, Pending
  <2>2. /\ UNCHANGED <<buffer, item, printed, cwd>>
        /\ job' = [job EXCEPT ![w] = buffer[bufferCount - 1]]
        /\ pc'[w] = IF buffer[bufferCount - 1].isFifo THEN "addFifo" ELSE "read"
        /\ pc'[Manager] = pc[Manager]
        /\ \A v \in Workers \ {w} : pc'[v] = pc[v]
    BY <1>0, <1>4 DEF Take, walkVars, endVars, Top
  <2>3. /\ job'[w] = buffer[bufferCount - 1]
        /\ \A v \in Workers \ {w} : job'[v] = job[v]
    BY <1>0, <2>2
  <2>4. \A v \in Workers :
          /\ job'[v].name # NoOne => Kind[job'[v].name] = KindOf(job'[v])
          /\ pc'[v] \in Copying => ~job'[v].isFifo
          /\ pc'[v] = "addFifo" => job'[v].isFifo
    BY <2>1, <2>2, <2>3 DEF KindOK, Copying
  <2> QED BY <2>1, <2>2, <2>4 DEF KindOK, KindOf, Carrying
<1>5. ASSUME NEW w \in Workers, PrintCopied(w) PROVE KindOK'
  <2>1. /\ UNCHANGED <<buffer, bufferCount, item, cwd>>
        /\ printed' = printed \cup {job[w].name}
        /\ pc[w] = "print" /\ pc'[w] = "take" /\ pc'[Manager] = pc[Manager]
        /\ \A v \in Workers \ {w} : pc'[v] = pc[v] /\ job'[v] = job[v]
        /\ job'[w].name = NoOne
    BY <1>0, <1>5 DEF PrintCopied, queueVars, walkVars, ZeroPair, FilePair
  <2>2. Kind[job[w].name] \in {"regular", "fifo"}
    BY <2>1 DEF KindOK, KindOf, HandsOK
  <2> QED BY <2>1, <2>2 DEF KindOK, KindOf, Pending, Carrying, Copying
<1>6. ASSUME UNCHANGED <<buffer, bufferCount, job, item, printed>>,
             pc'[Manager] \in Carrying => pc'[Manager] = pc[Manager] /\ cwd' = cwd,
             \A w \in Workers : /\ pc'[w] \in Copying => pc[w] \in Copying
                                /\ pc'[w] = "addFifo" => pc[w] = "addFifo"
      PROVE  KindOK'
  BY <1>6 DEF KindOK, KindOf, Pending, Carrying
<1>7. CASE \/ \E t \in Threads : Lock(t)
           \/ OpenDir \/ OpenDirFails \/ PushWait \/ CountDir \/ CloseDir
           \/ SetDone
  BY <1>0, <1>6, <1>7
     DEF Lock, OpenDir, OpenDirFails, Return, PushWait, CountDir, CloseDir,
         SetDone, Carrying, Copying, syncVars, queueVars, walkVars, workVars,
         endVars
<1>8. ASSUME NEW w \in Workers,
             \/ TakeWait(w) \/ Leave(w) \/ Read(w) \/ ReadEnds(w) \/ Write(w)
             \/ WriteFails(w) \/ AddBytes(w) \/ AddRegular(w) \/ CloseJob(w)
             \/ AddFifo(w)
      PROVE  KindOK'
  BY <1>0, <1>6, <1>8
     DEF TakeWait, Leave, Read, ReadEnds, Write, WriteFails, AddBytes,
         AddRegular, CloseJob, AddFifo, Copying, queueVars, walkVars,
         workVars, endVars
<1>9. CASE \/ Report \/ (\E t \in SigThreads : Sigint(t)) \/ HandlerSetDone
           \/ HandlerCloseAll \/ HandlerExit \/ SpuriousWakeup
           \/ UNCHANGED vars
  BY <1>0, <1>6, <1>9
     DEF Report, Sigint, HandlerSetDone, HandlerCloseAll, HandlerExit,
         SpuriousWakeup, Copying, queueVars, walkVars, workVars, endVars, vars
<1> QED
  BY <1>1, <1>2, <1>3, <1>4, <1>5, <1>7, <1>8, <1>9 DEF Operation
-----------------------------------------------------------------------------
(* The directories being walked, from Root down to cwd: only they are open, *)
(* and what is still unread is below one of them, of another unread one or  *)
(* of one that was skipped.                                                 *)
Opening == pc[Manager] \in {"countDir", "opendir"}
Walking == pc[Manager] \notin {"setDone", "ended"}
DirOpen(d) == \E f \in Fds : fds[f] = <<d, "dir">>

Trail(n, s) ==
  /\ s[1] = Root /\ s[n] = cwd
  /\ \A i, j \in 1 .. n : s[i] = s[j] => i = j
  /\ \A i \in 2 .. n : s[i] \notin unread /\ Parent[s[i]] = s[i - 1]
  /\ \A i \in 1 .. n : s[i] \notin skipped
  /\ \A d : DirOpen(d) => \E i \in 1 .. n : d = s[i] /\ (Opening => i # n)
  /\ \A e \in unread : \/ Parent[e] \in unread \cup skipped
                       \/ \E i \in 1 .. n : Parent[e] = s[i]
WalkInv ==
  /\ Walking => \E n \in Nat \ {0} : \E s \in [1 .. n -> Dirs] : Trail(n, s)
  /\ ~Walking => /\ \A d : ~DirOpen(d)
                 /\ \A e \in unread : Parent[e] \in unread \cup skipped
  /\ unread \cap skipped = {}

LEMMA InitWalk == Init => WalkInv
<1> SUFFICES ASSUME Init PROVE WalkInv
  OBVIOUS
<1>1. Walking /\ Opening /\ \A d : ~DirOpen(d)
  BY ThreadsDistinct DEF Init, Walking, Opening, DirOpen, Threads, Closed
<1> DEFINE s == [i \in 1 .. 1 |-> Root]
<1>2. s \in [1 .. 1 -> Dirs] /\ \A i \in 1 .. 1 : i = 1 /\ s[i] = Root
  BY DEF Dirs
<1> HIDE DEF s
<1>3. \A e \in Entries : Parent[e] \in Entries \cup {Root}
  BY TreeAssumption DEF Dirs
<1>4. Trail(1, s)
  BY <1>1, <1>2, <1>3 DEF Trail, Init
<1>5. unread \cap skipped = {}
  BY DEF Init
<1>6. 1 \in Nat \ {0}
  OBVIOUS
<1> QED BY <1>1, <1>2, <1>4, <1>5, <1>6, Zenon DEF WalkInv

(* Steps that only close directories, or skip a file.                       *)
LEMMA WalkFrame ==
  ASSUME TypeOK, WalkInv, UNCHANGED <<cwd, unread>>,
         Walking' <=> Walking, Opening' => Opening,
         \A d : DirOpen(d)' => DirOpen(d),
         skipped \subseteq skipped',
         (skipped' \ skipped) \cap (Dirs \cup unread) = {}
  PROVE  WalkInv'
<1>1. CASE Walking
  <2>1. PICK n \in Nat \ {0} : \E s \in [1 .. n -> Dirs] : Trail(n, s)
    BY <1>1 DEF WalkInv
  <2>2. PICK s \in [1 .. n -> Dirs] : Trail(n, s)
    BY <2>1
  <2>3. Trail(n, s)'
    BY <2>2 DEF Trail
  <2> QED BY <1>1, <2>3 DEF WalkInv
<1>2. CASE ~Walking
  BY <1>2 DEF WalkInv
<1> QED BY <1>1, <1>2

(* The manager goes down into an entry.                                     *)
LEMMA WalkDown ==
  ASSUME TypeOK, NEW e \in unread, Kind[e] = "dir", Parent[e] = cwd,
         NEW n \in Nat \ {0}, NEW s \in [1 .. n -> Dirs], Trail(n, s),
         e \notin skipped, cwd' = e, unread' = unread \ {e},
         UNCHANGED <<fds, skipped>>, ~Opening
  PROVE  \E m \in Nat \ {0} : \E t \in [1 .. m -> Dirs] : Trail(m, t)'
<1> DEFINE t == [i \in 1 .. n + 1 |-> IF i = n + 1 THEN e ELSE s[i]]
<1>1. e \in Entries /\ e \in Dirs /\ e # Root
  BY TreeAssumption DEF TypeOK, WalkOK, Dirs
<1>2. /\ t \in [1 .. n + 1 -> Dirs] /\ t[n + 1] = e
      /\ \A i \in 1 .. n : t[i] = s[i]
      /\ 1 .. n + 1 = 1 .. n \cup {n + 1} /\ n + 1 \notin 1 .. n
      /\ n \in 1 .. n /\ 1 \in 1 .. n
  BY <1>1
<1> HIDE DEF t
<1>3. \A i \in 1 .. n : s[i] # e
  <2>1. \A i \in 2 .. n : s[i] # e
    BY DEF Trail
  <2> QED BY <1>1, <2>1 DEF Trail
<1>4. /\ t[1] = Root /\ t[n + 1] = cwd'
      /\ \A i, j \in 1 .. n + 1 : t[i] = t[j] => i = j
  BY <1>2, <1>3 DEF Trail
<1>5. ASSUME NEW i \in 2 .. n + 1
      PROVE  t[i] \notin unread' /\ Parent[t[i]] = t[i - 1]
  <2>1. CASE i = n + 1
    BY <1>2, <2>1 DEF Trail
  <2>2. CASE i \in 2 .. n
    <3>1. i \in 1 .. n /\ i - 1 \in 1 .. n
      BY <2>2
    <3> QED BY <1>2, <2>2, <3>1 DEF Trail
  <2> QED BY <2>1, <2>2
<1>6. \A i \in 1 .. n + 1 : t[i] \notin skipped'
  BY <1>2 DEF Trail
<1>7. \A d : DirOpen(d)' => \E i \in 1 .. n + 1 : d = t[i] /\ i # n + 1
  BY <1>2 DEF Trail, DirOpen
<1>8. \A f \in unread' : \/ Parent[f] \in unread' \cup skipped'
                         \/ \E i \in 1 .. n + 1 : Parent[f] = t[i]
  BY <1>2 DEF Trail
<1>9. Trail(n + 1, t)'
  BY <1>4, <1>5, <1>6, <1>7, <1>8 DEF Trail
<1> QED BY <1>2, <1>9

(* The manager returns from cwd, with nothing left unread in it unless it   *)
(* is skipped.                                                              *)
LEMMA WalkUp ==
  ASSUME TypeOK, WalkInv, NEW n \in Nat \ {0}, NEW s \in [1 .. n -> Dirs], Trail(n, s),
         Return, Manager \in DOMAIN pc, UNCHANGED unread,
         \A d : DirOpen(d)' => DirOpen(d) /\ d # cwd,
         \/ UNCHANGED skipped /\ \A e \in unread : Parent[e] # cwd
         \/ skipped' = skipped \cup {cwd}
  PROVE  WalkInv'
<1>1. n \in 1 .. n /\ 1 \in 1 .. n
  OBVIOUS
<1>2. \A d : DirOpen(d)' => \E i \in 1 .. n : d = s[i] /\ i # n
  BY <1>1 DEF Trail
<1>5. unread' \cap skipped' = {}
  <2>1. cwd \notin unread
    <3>1. CASE n = 1
      BY <3>1, TreeAssumption DEF Trail, TypeOK, WalkOK
    <3>2. CASE n # 1
      <4>1. n \in 2 .. n
        BY <3>2
      <4> QED BY <4>1 DEF Trail
    <3> QED BY <3>1, <3>2
  <2> QED BY <2>1 DEF WalkInv
<1>3. CASE cwd = Root
  <2>1. n = 1
    BY <1>1, <1>3 DEF Trail
  <2>2. ~Walking'
    BY <1>3 DEF Return, Goto, Walking
  <2>3. \A d : ~DirOpen(d)'
    BY <1>2, <2>1
  <2>4. \A e \in unread' : Parent[e] \in unread' \cup skipped'
    BY <1>3, <2>1 DEF Trail
  <2> QED BY <1>5, <2>2, <2>3, <2>4 DEF WalkInv
<1>4. CASE cwd # Root
  <2>1. n - 1 \in Nat \ {0} /\ n # 1 /\ n \in 2 .. n
    BY <1>4 DEF Trail
  <2> DEFINE t == [i \in 1 .. n - 1 |-> s[i]]
  <2>2. /\ t \in [1 .. n - 1 -> Dirs] /\ \A i \in 1 .. n - 1 : t[i] = s[i]
        /\ 1 .. n = 1 .. n - 1 \cup {n} /\ n \notin 1 .. n - 1
        /\ 1 \in 1 .. n - 1 /\ n - 1 \in 1 .. n - 1
    BY <2>1
  <2> HIDE DEF t
  <2>3. cwd' = Parent[cwd] /\ pc' = [pc EXCEPT ![Manager] = "readdir"]
    BY <1>4 DEF Return, Goto
  <2>4. Parent[cwd] = s[n - 1]
    BY <2>1 DEF Trail
  <2>5. /\ t[1] = Root /\ t[n - 1] = cwd'
        /\ \A i, j \in 1 .. n - 1 : t[i] = t[j] => i = j
    BY <2>2, <2>3, <2>4 DEF Trail
  <2>6. \A i \in 2 .. n - 1 : t[i] \notin unread' /\ Parent[t[i]] = t[i - 1]
    <3>1. \A i \in 2 .. n - 1 : i - 1 \in 1 .. n - 1 /\ i \in 1 .. n - 1
                                /\ i \in 2 .. n
      BY <2>1
    <3> QED BY <2>2, <3>1 DEF Trail
  <2>7. \A i \in 1 .. n - 1 : t[i] \notin skipped'
    BY <1>1, <2>2 DEF Trail
  <2>8. \A d : DirOpen(d)' => \E i \in 1 .. n - 1 : d = t[i]
    BY <1>2, <2>2
  <2>9. \A e \in unread' : \/ Parent[e] \in unread' \cup skipped'
                           \/ \E i \in 1 .. n - 1 : Parent[e] = t[i]
    BY <1>1, <2>2 DEF Trail
  <2>10. ~Opening' /\ Walking'
    BY <2>3 DEF Opening, Walking
  <2>11. Trail(n - 1, t)'
    BY <2>5, <2>6, <2>7, <2>8, <2>9, <2>10 DEF Trail
  <2> QED BY <1>5, <2>1, <2>2, <2>10, <2>11 DEF WalkInv
<1> QED BY <1>3, <1>4

LEMMA WalkInvPreserved ==
  ASSUME TypeOK, HandsOK, Apart, KindOK, WalkInv, Operation
  PROVE  WalkInv'
<1> USE ThreadsDistinct DEF At, Holds, Runs, Goto
<1>0. /\ pc \in [Threads -> Labels] /\ Manager \in Threads
      /\ Workers \subseteq Threads /\ Manager \notin Workers
      /\ Manager # Handler /\ fds \in [Fds -> Ends]
  BY DEF TypeOK, ControlOK, FileOK, Threads
<1>free. \A f \in Lowest(Free) : f \in Fds /\ fds[f] = Closed
  BY DEF Lowest, Free
<1>files. pc[Manager] \in Carrying => item.name \notin Dirs \cup unread
  <2> SUFFICES ASSUME pc[Manager] \in Carrying
               PROVE  item.name \notin Dirs \cup unread
    OBVIOUS
  <2>1. item.name \in Entries /\ Kind[item.name] # "dir"
    BY DEF HandsOK, KindOK, KindOf
  <2> QED BY <2>1, TreeAssumption DEF Dirs, Apart
<1>1. ASSUME Walking PROVE \E n \in Nat \ {0} : \E s \in [1 .. n -> Dirs] : Trail(n, s)
  BY <1>1 DEF WalkInv
<1>2. CASE OpenDir
  <2>1. /\ UNCHANGED <<cwd, unread, skipped>> /\ Walking /\ Walking' /\ ~Opening'
    BY <1>0, <1>2 DEF OpenDir, walkVars, Walking, Opening
  <2>2. \A d : DirOpen(d)' => DirOpen(d) \/ d = cwd
    BY <1>0, <1>2, <1>free DEF OpenDir, DirOpen
  <2>3. PICK n \in Nat \ {0} : \E s \in [1 .. n -> Dirs] : Trail(n, s)
    BY <1>1, <2>1
  <2>4. PICK s \in [1 .. n -> Dirs] : Trail(n, s)
    BY <2>3
  <2>5. n \in 1 .. n
    OBVIOUS
  <2>6. Trail(n, s)'
    BY <2>1, <2>2, <2>4, <2>5 DEF Trail
  <2> QED BY <2>1, <2>6 DEF WalkInv
<1>3. CASE OpenDirFails
  <2>1. /\ Walking /\ Opening /\ UNCHANGED <<unread, fds>> /\ Return
        /\ skipped' = skipped \cup {cwd}
    BY <1>3 DEF OpenDirFails, fileVars, Walking, Opening
  <2>2. PICK n \in Nat \ {0} : \E s \in [1 .. n -> Dirs] : Trail(n, s)
    BY <1>1, <2>1
  <2>3. PICK s \in [1 .. n -> Dirs] : Trail(n, s)
    BY <2>2
  <2>4. \A d : DirOpen(d)' => DirOpen(d) /\ d # cwd
    <3>1. \A d : DirOpen(d) => \E i \in 1 .. n : d = s[i] /\ i # n
      BY <2>1, <2>3 DEF Trail
    <3>2. n \in 1 .. n /\ s[n] = cwd /\ \A i \in 1 .. n : s[i] = s[n] => i = n
      BY <2>3 DEF Trail
    <3> QED BY <2>1, <3>1, <3>2 DEF DirOpen
  <2> QED BY <1>0, <2>1, <2>3, <2>4, WalkUp
<1>4. CASE CloseDir
  <2>1. /\ Walking /\ UNCHANGED <<unread, skipped>> /\ Return
        /\ \A e \in unread : Parent[e] # cwd
    BY <1>4 DEF CloseDir, Walking
  <2>2. PICK n \in Nat \ {0} : \E s \in [1 .. n -> Dirs] : Trail(n, s)
    BY <1>1, <2>1
  <2>3. PICK s \in [1 .. n -> Dirs] : Trail(n, s)
    BY <2>2
  <2>4. \A d : DirOpen(d)' => DirOpen(d) /\ d # cwd
    BY <1>4 DEF CloseDir, DirOpen, Closed
  <2> QED BY <1>0, <2>1, <2>3, <2>4, WalkUp
<1>5. ASSUME NEW e \in Entries, ReadEntry(e) PROVE WalkInv'
  <2>1. /\ e \in unread /\ unread' = unread \ {e} /\ Parent[e] = cwd
        /\ UNCHANGED fds /\ Walking /\ ~Opening /\ Walking'
    BY <1>0, <1>5 DEF ReadEntry, Skip, fileVars, Walking, Opening
  <2>2. PICK n \in Nat \ {0} : \E s \in [1 .. n -> Dirs] : Trail(n, s)
    BY <1>1, <2>1
  <2>3. PICK s \in [1 .. n -> Dirs] : Trail(n, s)
    BY <2>2
  <2>4. \A i \in 1 .. n : s[i] # e
    <3>1. \A i \in 2 .. n : s[i] # e
      BY <2>1, <2>3 DEF Trail
    <3>2. s[1] # e
      BY <2>3, TreeAssumption DEF Trail
    <3> QED BY <3>1, <3>2
  <2>0. unread \cap skipped = {} /\ e \notin skipped
    BY <2>1 DEF WalkInv
  <2>5. CASE UNCHANGED cwd /\ skipped' = skipped \cup {e} /\ ~Opening'
    <3>1. Trail(n, s)'
      BY <2>1, <2>3, <2>4, <2>5 DEF Trail, DirOpen
    <3> QED BY <2>0, <2>1, <2>5, <3>1 DEF WalkInv
  <2>6. CASE UNCHANGED <<cwd, skipped>> /\ Kind[e] # "dir" /\ ~Opening'
    <3>1. \A f \in unread : Parent[f] # e
      BY <2>6, TreeAssumption DEF Dirs, TypeOK, WalkOK
    <3>2. Trail(n, s)'
      BY <2>1, <2>3, <2>6, <3>1 DEF Trail, DirOpen
    <3> QED BY <2>0, <2>1, <2>6, <3>2 DEF WalkInv
  <2>7. CASE cwd' = e /\ Kind[e] = "dir" /\ UNCHANGED skipped
    <3>1. \E m \in Nat \ {0} : \E t \in [1 .. m -> Dirs] : Trail(m, t)'
      BY <2>0, <2>1, <2>3, <2>7, WalkDown
    <3> QED BY <2>0, <2>1, <2>7, <3>1 DEF WalkInv
  <2>8. \/ UNCHANGED cwd /\ skipped' = skipped \cup {e} /\ ~Opening'
        \/ UNCHANGED <<cwd, skipped>> /\ Kind[e] # "dir" /\ ~Opening'
        \/ cwd' = e /\ Kind[e] = "dir" /\ UNCHANGED skipped
    BY <1>0, <1>5 DEF ReadEntry, Skip, Opening
  <2> QED BY <2>5, <2>6, <2>7, <2>8
<1>6. CASE OpenSrc \/ OpenDest \/ MakeFifo
  <2>1. /\ UNCHANGED <<cwd, unread>> /\ Walking /\ Walking' /\ ~Opening'
        /\ skipped' = skipped \/ skipped' = skipped \cup {item.name}
        /\ pc[Manager] \in Carrying
    BY <1>0, <1>6 DEF OpenSrc, OpenDest, MakeFifo, Skip, Walking, Opening,
                      Carrying
  <2>2. \A d : DirOpen(d)' => DirOpen(d)
    <3>1. ASSUME NEW f \in Fds, NEW d, fds'[f] = <<d, "dir">>
          PROVE  fds[f] = <<d, "dir">>
      <4>1. \/ UNCHANGED fds
            \/ \E g, v : /\ fds' = [fds EXCEPT ![g] = v]
                         /\ v \in {Closed, <<item.name, "src">>,
                                   <<item.name, "dest">>}
        BY <1>6 DEF OpenSrc, OpenDest, MakeFifo, AbandonSrc, fileVars
      <4> QED BY <1>0, <3>1, <4>1 DEF Closed
    <3> QED BY <3>1 DEF DirOpen
  <2>3. /\ skipped \subseteq skipped'
        /\ (skipped' \ skipped) \cap (Dirs \cup unread) = {}
    BY <1>files, <2>1
  <2>4. (Walking' <=> Walking) /\ (Opening' => Opening)
    BY <2>1
  <2> QED BY <2>1, <2>2, <2>3, <2>4, WalkFrame
<1>7. ASSUME UNCHANGED <<cwd, unread, skipped>>,
             pc'[Manager] = pc[Manager],
             \A f \in Fds : fds'[f] \in {fds[f], Closed}
      PROVE  WalkInv'
  <2>1. \A d : DirOpen(d)' => DirOpen(d)
    BY <1>7 DEF DirOpen, Closed
  <2> QED BY <1>7, <2>1, WalkFrame DEF Walking, Opening
<1>8. CASE Push \/ CountDir \/ SetDone
  <2>1. UNCHANGED <<cwd, unread, skipped, fds>>
    BY <1>8 DEF Push, CountDir, SetDone, walkVars, fileVars
  <2>2. (Walking' <=> Walking) /\ (Opening' => Opening)
    BY <1>0, <1>8 DEF Push, CountDir, SetDone, Walking, Opening
  <2> QED BY <2>1, <2>2, WalkFrame DEF DirOpen
<1>9. ASSUME NEW w \in Workers,
             \/ TakeWait(w) \/ Leave(w) \/ Take(w) \/ Read(w) \/ ReadEnds(w)
             \/ Write(w) \/ WriteFails(w) \/ AddBytes(w) \/ AddRegular(w)
             \/ AddFifo(w) \/ PrintCopied(w)
      PROVE  WalkInv'
  BY <1>0, <1>7, <1>9
     DEF TakeWait, Leave, Take, Read, ReadEnds, Write, WriteFails, AddBytes,
         AddRegular, AddFifo, PrintCopied, walkVars, fileVars
<1>10. ASSUME NEW w \in Workers, CloseJob(w) PROVE WalkInv'
  BY <1>0, <1>7, <1>10 DEF CloseJob, walkVars
<1>11. CASE HandlerCloseAll
  BY <1>0, <1>7, <1>11 DEF HandlerCloseAll, walkVars
<1>12. CASE \/ \E t \in Threads : Lock(t)
            \/ PushWait \/ Report \/ (\E t \in SigThreads : Sigint(t))
            \/ HandlerSetDone \/ HandlerExit \/ SpuriousWakeup
            \/ UNCHANGED vars
  BY <1>0, <1>7, <1>12
     DEF Lock, PushWait, Report, Sigint, HandlerSetDone, HandlerExit,
         SpuriousWakeup, vars, walkVars, fileVars
<1> QED
  BY <1>2, <1>3, <1>4, <1>5, <1>6, <1>8, <1>9, <1>10, <1>11, <1>12
     DEF Operation
-----------------------------------------------------------------------------
(* Every open descriptor is a directory's, or that of a file in hand: every *)
(* path through skipped files and failed copies closes what it opened.      *)
HeldBy(p, f) == f \in {p.srcFD, p.destFD}
Held(f) ==
  \/ pc[Manager] = "openDest" /\ f = item.srcFD
  \/ pc[Manager] = "push" /\ ~item.isFifo /\ HeldBy(item, f)
  \/ \E i \in Pending : ~buffer[i].isFifo /\ HeldBy(buffer[i], f)
  \/ \E w \in Workers : pc[w] \in Copying /\ HeldBy(job[w], f)
FdsHeld == \A f \in Fds : fds[f] = Closed \/ fds[f][2] = "dir" \/ Held(f)

LEMMA InitHeld == Init => FdsHeld
BY DEF Init, FdsHeld

LEMMA FdsHeldPreserved ==
  ASSUME TypeOK, KindOK, FdsHeld, Operation
  PROVE  FdsHeld'
<1> USE ThreadsDistinct DEF At, Holds, Runs, Goto
<1>0. /\ pc \in [Threads -> Labels] /\ Manager \in Threads
      /\ Workers \subseteq Threads /\ Manager \notin Workers
      /\ fds \in [Fds -> Ends] /\ item \in FilePairs
      /\ buffer \in [Slots -> FilePairs] /\ job \in [Workers -> FilePairs]
  BY DEF TypeOK, ControlOK, WalkOK, FileOK, QueueOK, WorkOK, Threads
<1>1. ASSUME UNCHANGED <<buffer, bufferCount, job>>,
             \A w \in Workers : pc[w] \in Copying => pc'[w] \in Copying,
             \/ pc'[Manager] = pc[Manager] /\ item' = item
             \/ pc[Manager] \notin {"openDest", "push"}
             \/ pc[Manager] = "push" /\ item.isFifo,
             \A f \in Fds : fds'[f] \in {fds[f], Closed} \/ fds'[f][2] = "dir"
      PROVE  FdsHeld'
  <2>1. \A f : Held(f) => Held(f)'
    BY <1>1 DEF Held, Pending, HeldBy
  <2> QED BY <1>1, <2>1 DEF FdsHeld
<1>2. CASE OpenDir
  BY <1>0, <1>1, <1>2 DEF OpenDir, queueVars, workVars, walkVars
<1>3. CASE OpenDirFails \/ CloseDir \/ CountDir \/ SetDone
  BY <1>0, <1>1, <1>3
     DEF OpenDirFails, CloseDir, CountDir, SetDone, Return, queueVars,
         workVars, fileVars
<1>4. ASSUME NEW e \in Entries, ReadEntry(e) PROVE FdsHeld'
  BY <1>0, <1>1, <1>4 DEF ReadEntry, Skip, queueVars, workVars, fileVars
<1>5. CASE MakeFifo
  BY <1>0, <1>1, <1>5 DEF MakeFifo, Skip, queueVars, workVars, fileVars
<1>6. CASE OpenSrc \/ OpenDest
  <2>1. /\ UNCHANGED <<buffer, bufferCount, job>>
        /\ \A w \in Workers : pc'[w] = pc[w]
    BY <1>0, <1>6 DEF OpenSrc, OpenDest, Skip, queueVars, workVars
  <2>2. ASSUME NEW f \in Fds, fds'[f] # Closed, fds'[f][2] # "dir"
        PROVE  Held(f)'
    <3>1. CASE \/ \E i \in Pending : ~buffer[i].isFifo /\ HeldBy(buffer[i], f)
               \/ \E w \in Workers : pc[w] \in Copying /\ HeldBy(job[w], f)
      BY <2>1, <3>1 DEF Held, Pending, HeldBy
    <3>2. CASE OpenSrc
      <4>1. \/ /\ fds' = [fds EXCEPT ![item'.srcFD] = <<item.name, "src">>]
               /\ pc'[Manager] = "openDest"
            \/ UNCHANGED fds
        BY <1>0, <3>2 DEF OpenSrc, FilePair
      <4>2. pc[Manager] = "openSrc"
        BY <3>2 DEF OpenSrc
      <4> QED BY <1>0, <2>2, <3>1, <4>1, <4>2 DEF FdsHeld, Held
    <3>3. CASE OpenDest
      <4>1. KindOK /\ pc[Manager] = "openDest" /\ ~item.isFifo
        BY <3>3 DEF OpenDest, KindOK
      <4>2. \/ /\ fds' = [fds EXCEPT ![item'.destFD] = <<item.name, "dest">>]
               /\ pc'[Manager] = "push" /\ item'.srcFD = item.srcFD
               /\ ~item'.isFifo
            \/ fds' = [fds EXCEPT ![item.srcFD] = Closed]
        BY <1>0, <3>3 DEF OpenDest, AbandonSrc, FilePair
      <4>3. fds[f] = Closed \/ fds[f][2] = "dir" \/ f = item.srcFD
            \/ (\E i \in Pending : ~buffer[i].isFifo /\ HeldBy(buffer[i], f))
            \/ (\E w \in Workers : pc[w] \in Copying /\ HeldBy(job[w], f))
        BY <4>1 DEF FdsHeld, Held
      <4> QED BY <1>0, <2>2, <3>1, <4>2, <4>3 DEF Held, HeldBy
    <3> QED BY <1>6, <3>2, <3>3
  <2> QED BY <2>2 DEF FdsHeld
<1>7. CASE Push
  <2>1. /\ bufferCount \in Slots /\ bufferCount' = bufferCount + 1
        /\ bufferCount \in Nat
    BY <1>7, SizeAssumption DEF Push, TypeOK, QueueOK, Slots, Full
  <2>2. /\ UNCHANGED <<job, fds>> /\ pc[Manager] = "push"
        /\ \A w \in Workers : pc'[w] = pc[w]
    BY <1>0, <1>7 DEF Push, workVars, fileVars
  <2>3. bufferCount \in Pending' /\ Pending \subseteq Pending'
        /\ bufferCount \notin Pending
    BY <2>1 DEF Pending
  <2>4. /\ ~item.isFifo => buffer'[bufferCount] = item
        /\ \A i \in Pending : buffer'[i] = buffer[i]
    <3>1. buffer' = [buffer EXCEPT ![bufferCount] = Filled(buffer[bufferCount])]
      BY <1>7 DEF Push
    <3>2. Pending \subseteq Slots
      BY <2>1, SizeAssumption DEF Pending, Slots
    <3>3. buffer'[bufferCount] = Filled(buffer[bufferCount])
      BY <1>0, <2>1, <3>1
    <3>4. ~item.isFifo => Filled(buffer[bufferCount]) = item
      BY DEF Filled
    <3>5. \A i \in Pending : buffer'[i] = buffer[i]
      BY <1>0, <2>3, <3>1, <3>2
    <3> QED BY <3>3, <3>4, <3>5
  <2>5. ASSUME NEW f \in Fds, Held(f) PROVE Held(f)'
    <3>1. CASE ~item.isFifo /\ HeldBy(item, f)
      <4>1. \E i \in Pending' : ~buffer'[i].isFifo /\ HeldBy(buffer'[i], f)
        BY <2>3, <2>4, <3>1
      <4> QED BY <4>1 DEF Held, HeldBy
    <3>2. CASE \E i \in Pending : ~buffer[i].isFifo /\ HeldBy(buffer[i], f)
      <4>1. \E i \in Pending' : ~buffer'[i].isFifo /\ HeldBy(buffer'[i], f)
        BY <2>3, <2>4, <3>2
      <4> QED BY <4>1 DEF Held, HeldBy
    <3>3. CASE \E w \in Workers : pc[w] \in Copying /\ HeldBy(job[w], f)
      BY <2>2, <3>3 DEF Held, HeldBy
    <3> QED BY <2>2, <2>5, <3>1, <3>2, <3>3 DEF Held
  <2> QED BY <2>2, <2>5 DEF FdsHeld
<1>8. ASSUME NEW w \in Workers, Take(w) PROVE FdsHeld'
  <2>1. /\ bufferCount \in Nat /\ bufferCount' = bufferCount - 1
        /\ Pending = Pending' \cup {bufferCount - 1}
    BY <1>8, SizeAssumption DEF Take, TypeOK, QueueOK, Pending
  <2>2. /\ UNCHANGED <<buffer, item, fds>>
        /\ job' = [job EXCEPT ![w] = buffer[bufferCount - 1]]
        /\ pc[w] = "take" /\ pc'[Manager] = pc[Manager]
        /\ ~buffer[bufferCount - 1].isFifo => pc'[w] \in Copying
        /\ \A v \in Workers \ {w} : pc'[v] = pc[v]
    BY <1>0, <1>8 DEF Take, walkVars, fileVars, Top, Copying
  <2>3. /\ job'[w] = buffer[bufferCount - 1] /\ pc[w] \notin Copying
        /\ \A v \in Workers \ {w} : job'[v] = job[v]
    BY <1>0, <2>2 DEF Copying
  <2> QED BY <2>1, <2>2, <2>3 DEF FdsHeld, Held, HeldBy
<1>9. ASSUME NEW w \in Workers, CloseJob(w) PROVE FdsHeld'
  <2>1. /\ UNCHANGED <<buffer, bufferCount, job, item>>
        /\ pc'[Manager] = pc[Manager]
        /\ \A v \in Workers \ {w} : pc'[v] = pc[v]
        /\ \A f \in Fds : fds'[f] = IF HeldBy(job[w], f) THEN Closed ELSE fds[f]
    BY <1>0, <1>9 DEF CloseJob, queueVars, walkVars, workVars, HeldBy
  <2> QED BY <2>1 DEF FdsHeld, Held, HeldBy, Pending
<1>10. ASSUME NEW w \in Workers, PrintCopied(w) PROVE FdsHeld'
  <2>1. /\ UNCHANGED <<buffer, bufferCount, item, fds>>
        /\ pc'[Manager] = pc[Manager] /\ pc[w] \notin Copying
        /\ \A v \in Workers \ {w} : pc'[v] = pc[v] /\ job'[v] = job[v]
    BY <1>0, <1>10 DEF PrintCopied, queueVars, walkVars, fileVars, Copying
  <2> QED BY <2>1 DEF FdsHeld, Held, HeldBy, Pending
<1>11. ASSUME NEW w \in Workers,
              \/ TakeWait(w) \/ Leave(w) \/ Read(w) \/ ReadEnds(w) \/ Write(w)
              \/ WriteFails(w) \/ AddBytes(w) \/ AddRegular(w) \/ AddFifo(w)
       PROVE  FdsHeld'
  BY <1>0, <1>1, <1>11
     DEF TakeWait, Leave, Read, ReadEnds, Write, WriteFails, AddBytes,
         AddRegular, AddFifo, Copying, queueVars, walkVars, workVars, fileVars
<1>12. CASE HandlerCloseAll
  BY <1>0, <1>1, <1>12 DEF HandlerCloseAll, queueVars, walkVars, workVars
<1>13. CASE \/ \E t \in Threads : Lock(t)
            \/ PushWait \/ Report \/ (\E t \in SigThreads : Sigint(t))
            \/ HandlerSetDone \/ HandlerExit \/ SpuriousWakeup
            \/ UNCHANGED vars
  BY <1>0, <1>1, <1>13
     DEF Lock, PushWait, Report, Sigint, HandlerSetDone, HandlerExit,
         SpuriousWakeup, queueVars, walkVars, workVars, fileVars, vars
<1> QED
  BY <1>2, <1>3, <1>4, <1>5, <1>6, <1>7, <1>8, <1>9, <1>10, <1>11, <1>12,
     <1>13 DEF Operation

(* Nothing happens once the process has ended.                              *)
LEMMA Frozen ==
  ASSUME Operation, status # "running"
  PROVE  UNCHANGED vars
BY DEF Operation, At, Holds, Runs, Lock, OpenDir, OpenDirFails, ReadEntry,
       OpenSrc, OpenDest, MakeFifo, PushWait, Push, CountDir, CloseDir,
       SetDone, TakeWait, Leave, Take, Read, ReadEnds, Write, WriteFails,
       AddBytes, AddRegular, CloseJob, AddFifo, PrintCopied, Report, Sigint,
       HandlerSetDone, HandlerCloseAll, HandlerExit, SpuriousWakeup

(* Only Report reports.                                                     *)
LEMMA OnlyReportReports ==
  ASSUME Operation, status # "reported", status' = "reported"
  PROVE  Report
BY DEF Operation, At, Holds, Runs, Lock, OpenDir, OpenDirFails, ReadEntry,
       OpenSrc, OpenDest, MakeFifo, PushWait, Push, CountDir, CloseDir,
       SetDone, TakeWait, Leave, Take, Read, ReadEnds, Write, WriteFails,
       AddBytes, AddRegular, CloseJob, AddFifo, PrintCopied, Sigint,
       HandlerSetDone, HandlerCloseAll, HandlerExit, SpuriousWakeup, endVars,
       vars

(* When main reports nothing is in anybody's hands.                         *)
AllQuiet ==
  /\ pc[Manager] = "ended" /\ \A w \in Workers : pc[w] = "ended"
  /\ interrupted = NoOne /\ bufferCount = 0
QuietReport == status = "reported" => AllQuiet

LEMMA QuietPreserved ==
  ASSUME TypeOK, Drained, QuietReport, Operation
  PROVE  QuietReport'
<1>1. CASE status = "reported"
  BY <1>1, Frozen DEF vars, queueVars, endVars, QuietReport, AllQuiet
<1>2. CASE status # "reported" /\ status' = "reported"
  <2>1. Report
    BY <1>2, OnlyReportReports
  <2>2. Joined /\ Main # interrupted
        /\ UNCHANGED <<pc, interrupted, bufferCount>>
    BY <2>1 DEF Report, At, Runs, queueVars
  <2>3. interrupted = NoOne
    BY <2>2, EnvironmentAssumption DEF Joined, TypeOK, EndOK
  <2>4. bufferCount = 0
    BY <2>2, <2>3, WorkersFinite DEF Joined, Drained
  <2> QED BY <2>2, <2>3, <2>4 DEF QuietReport, AllQuiet, Joined
<1> QED BY <1>1, <1>2 DEF QuietReport

(* What an entry's place, kind and descriptors depend on; every part of it  *)
(* is kept by every step.                                                   *)
CopierInv ==
  /\ TypeOK /\ HandsOK /\ Apart /\ HandlerOK /\ OwnedUnlessExit /\ Drained
  /\ ContentUnlessExit /\ KindOK /\ WalkInv /\ FdsHeld /\ QuietReport

LEMMA CopierInvariant == Spec => []CopierInv
<1>1. Init => CopierInv
  BY InitType, InitPlaces, InitOwned, InitDrained, InitContent, InitKind,
     InitWalk, InitHeld DEF CopierInv, QuietReport, Init
<1>2. CopierInv /\ TypeOK' /\ [Next]_vars => CopierInv'
  <2> SUFFICES ASSUME CopierInv, TypeOK', [Next]_vars PROVE CopierInv'
    OBVIOUS
  <2>1. Operation
    BY NextIsOperation
  <2> QED
    BY <2>1, PlacesPreserved, HandlerPreserved, OwnedPreserved,
       DrainedPreserved, ContentPreserved, KindPreserved, WalkInvPreserved,
       FdsHeldPreserved, QuietPreserved DEF CopierInv
<1> QED BY <1>1, <1>2, TypeCorrect, PTL DEF Spec

(* When main reports, no descriptor is left open, on any path through       *)
(* skipped files, failed copies and unreadable directories.                 *)
THEOREM NoDescriptorLeakHolds == Spec => []NoDescriptorLeak
<1>1. CopierInv => NoDescriptorLeak
  <2> SUFFICES ASSUME CopierInv, status = "reported", NEW f \in Fds
               PROVE  fds[f] = Closed
    BY DEF NoDescriptorLeak
  <2>1. AllQuiet /\ Pending = {}
    BY DEF CopierInv, QuietReport, AllQuiet, Pending
  <2>2. ~Held(f)
    BY <2>1 DEF AllQuiet, Held, Copying
  <2>3. \A d : fds[f] # <<d, "dir">>
    BY <2>1 DEF CopierInv, WalkInv, Walking, AllQuiet, DirOpen
  <2>4. fds[f] \in Ends
    BY DEF CopierInv, TypeOK, FileOK
  <2> QED BY <2>2, <2>3, <2>4 DEF CopierInv, FdsHeld, Ends, Closed
<1> QED BY <1>1, CopierInvariant, PTL
-----------------------------------------------------------------------------
(* An entry that was skipped is in no other place.                          *)
SkippedApart ==
  /\ NoOne \notin skipped /\ item.name \notin skipped
  /\ \A i \in Pending : buffer[i].name \notin skipped
  /\ \A w \in Workers : job[w].name \notin skipped
  /\ skipped \cap printed = {}

LEMMA InitSkipped == Init => SkippedApart
BY DEF Init, SkippedApart

LEMMA SkippedPreserved ==
  ASSUME CopierInv, SkippedApart, Operation
  PROVE  SkippedApart'
<1> USE ThreadsDistinct, TreeAssumption DEF At, Holds, Runs, Goto
<1>0. /\ pc \in [Threads -> Labels] /\ Manager \in Threads
      /\ item \in FilePairs /\ job \in [Workers -> FilePairs]
      /\ buffer \in [Slots -> FilePairs]
      /\ HandsOK /\ Apart /\ KindOK /\ ZeroPair.name = NoOne
  BY DEF CopierInv, TypeOK, ControlOK, WalkOK, QueueOK, WorkOK, Threads,
         ZeroPair, FilePair
<1>1. ASSUME UNCHANGED <<buffer, bufferCount, job, printed, skipped>>,
             item'.name = item.name \/ item'.name = NoOne
      PROVE  SkippedApart'
  BY <1>1 DEF SkippedApart, Pending
<1>2. ASSUME NEW x \in Entries, skipped' = skipped \cup {x},
             UNCHANGED <<buffer, bufferCount, job, printed>>,
             \/ item'.name = NoOne
             \/ item'.name = item.name /\ x # item.name,
             x \notin printed,
             \A i \in Pending : buffer[i].name # x,
             \A w \in Workers : job[w].name # x
      PROVE  SkippedApart'
  BY <1>2 DEF SkippedApart, Pending
<1>3. ASSUME NEW e \in Entries, ReadEntry(e) PROVE SkippedApart'
  <2>1. /\ UNCHANGED <<buffer, bufferCount, job, printed>> /\ e \in unread
        /\ \/ UNCHANGED skipped /\ (item' = item \/ item'.name = e)
           \/ skipped' = skipped \cup {e} /\ UNCHANGED item
    BY <1>0, <1>3 DEF ReadEntry, Skip, queueVars, workVars, endVars, FilePair
  <2>2. /\ e \notin skipped /\ e # item.name /\ e \notin printed
        /\ \A i \in Pending : buffer[i].name # e
        /\ \A w \in Workers : job[w].name # e
    BY <1>0, <2>1 DEF CopierInv, WalkInv, Apart
  <2>3. CASE skipped' = skipped \cup {e} /\ UNCHANGED item
    BY <1>2, <2>1, <2>2, <2>3
  <2>4. CASE UNCHANGED skipped /\ (item' = item \/ item'.name = e)
    BY <2>1, <2>2, <2>4 DEF SkippedApart, Pending
  <2> QED BY <2>1, <2>3, <2>4
<1>4. CASE OpenSrc \/ OpenDest \/ MakeFifo
  <2>1. /\ UNCHANGED <<buffer, bufferCount, job, printed>>
        /\ pc[Manager] \in Carrying
        /\ \/ UNCHANGED skipped /\ item'.name = item.name
           \/ skipped' = skipped \cup {item.name} /\ item'.name = NoOne
    BY <1>0, <1>4 DEF OpenSrc, OpenDest, MakeFifo, Skip, queueVars, workVars,
                      endVars, FilePair, Carrying
  <2>2. /\ item.name \in Entries /\ item.name \notin printed
        /\ \A i \in Pending : buffer[i].name # item.name
        /\ \A w \in Workers : job[w].name # item.name
    BY <1>0, <2>1 DEF HandsOK, Apart
  <2>3. CASE UNCHANGED skipped /\ item'.name = item.name
    BY <1>1, <2>1, <2>3
  <2>4. CASE skipped' = skipped \cup {item.name} /\ item'.name = NoOne
    <3>1. PICK x \in Entries : x = item.name
      BY <2>2
    <3> QED BY <1>2, <2>1, <2>2, <2>4, <3>1
  <2> QED BY <2>1, <2>3, <2>4
<1>5. CASE OpenDirFails
  <2>1. /\ UNCHANGED <<buffer, bufferCount, job, printed, item>>
        /\ skipped' = skipped \cup {cwd} /\ pc[Manager] \notin Carrying
    BY <1>5 DEF OpenDirFails, queueVars, workVars, endVars, Carrying
  <2>2. cwd \in Dirs /\ cwd # NoOne /\ item.name \in Names
        /\ \A w \in Workers : job[w].name \in Names
    BY <1>0, PairsTyped DEF CopierInv, TypeOK, WalkOK, Dirs
  <2>3. item.name # cwd
    BY <1>0, <2>1, <2>2 DEF HandsOK, Dirs, Names
  <2>4. \A i \in Pending : buffer[i].name # cwd
    BY <1>0 DEF HandsOK, KindOK, KindOf, Dirs, CopierInv, TypeOK, WalkOK
  <2>5. \A w \in Workers : job[w].name # cwd
    BY <1>0, <2>2 DEF KindOK, KindOf, Dirs, Names
  <2>6. cwd \notin printed
    BY <1>0, <2>2 DEF HandsOK, KindOK, Dirs
  <2> QED BY <2>1, <2>2, <2>3, <2>4, <2>5, <2>6 DEF SkippedApart, Pending
<1>6. CASE Push
  <2>1. /\ bufferCount \in Slots /\ bufferCount' = bufferCount + 1
        /\ bufferCount \in Nat
    BY <1>6, SizeAssumption
       DEF Push, CopierInv, TypeOK, QueueOK, Slots, Full
  <2>2. /\ UNCHANGED <<job, skipped, printed>> /\ item' = ZeroPair
        /\ buffer' = [buffer EXCEPT ![bufferCount] = Filled(buffer[bufferCount])]
    BY <1>6 DEF Push, workVars, endVars
  <2>3. Pending' = Pending \cup {bufferCount} /\ bufferCount \notin Pending
    BY <2>1 DEF Pending
  <2>4. buffer'[bufferCount].name = item.name
    BY <1>0, <2>1, <2>2 DEF Filled, FilePair
  <2>5. \A i \in Pending : buffer'[i] = buffer[i]
    <3>1. Pending \subseteq Slots
      BY <2>1, SizeAssumption DEF Pending, Slots
    <3> QED BY <1>0, <2>2, <2>3, <3>1
  <2> QED BY <1>0, <2>2, <2>3, <2>4, <2>5 DEF SkippedApart
<1>7. ASSUME NEW w \in Workers, Take(w) PROVE SkippedApart'
  <2>1. /\ bufferCount - 1 \in Pending /\ Pending' \subseteq Pending
    BY <1>7, SizeAssumption DEF Take, CopierInv, TypeOK, QueueOK, Pending
  <2>2. /\ UNCHANGED <<buffer, item, skipped, printed>>
        /\ job' = [job EXCEPT ![w] = buffer[bufferCount - 1]]
    BY <1>7 DEF Take, Top, walkVars, endVars
  <2> QED BY <1>0, <2>1, <2>2 DEF SkippedApart
<1>8. ASSUME NEW w \in Workers, PrintCopied(w) PROVE SkippedApart'
  <2>1. /\ UNCHANGED <<buffer, bufferCount, item, skipped>>
        /\ printed' = printed \cup {job[w].name}
        /\ job' = [job EXCEPT ![w] = ZeroPair]
    BY <1>8 DEF PrintCopied, queueVars, walkVars
  <2> QED BY <1>0, <2>1 DEF SkippedApart, Pending
<1>9. ASSUME NEW w \in Workers,
             \/ TakeWait(w) \/ Leave(w) \/ Read(w) \/ ReadEnds(w) \/ Write(w)
             \/ WriteFails(w) \/ AddBytes(w) \/ AddRegular(w) \/ CloseJob(w)
             \/ AddFifo(w)
      PROVE  SkippedApart'
  BY <1>1, <1>9
     DEF TakeWait, Leave, Read, ReadEnds, Write, WriteFails, AddBytes,
         AddRegular, CloseJob, AddFifo, queueVars, walkVars, workVars, endVars
<1>10. CASE \/ OpenDir \/ CountDir \/ CloseDir \/ SetDone
            \/ \E t \in Threads : Lock(t)
            \/ PushWait \/ Report \/ (\E t \in SigThreads : Sigint(t))
            \/ HandlerSetDone \/ HandlerCloseAll \/ HandlerExit
            \/ SpuriousWakeup \/ UNCHANGED vars
  BY <1>1, <1>10
     DEF OpenDir, CountDir, CloseDir, SetDone, Lock, PushWait, Report, Sigint,
         HandlerSetDone, HandlerCloseAll, HandlerExit, SpuriousWakeup,
         queueVars, walkVars, workVars, endVars, vars
<1> QED
  BY <1>3, <1>4, <1>5, <1>6, <1>7, <1>8, <1>9, <1>10 DEF Operation

(* What the phase of an entry says about where it is.                       *)
Phases == {"waiting", "passed", "skipped", "queued", "taken", "copied"}
IsTaken(e) == \E w \in Workers : job[w].name = e
IsQueued(e) == \E i \in Pending : buffer[i].name = e
IsWaiting(e) == e \in unread \/ e = item.name
PhaseOK ==
  /\ Phase \in [Entries \cup {Root} -> Phases]
  /\ \A e \in Entries \cup {Root} :
       /\ Phase[e] = "skipped" <=> e \in skipped
       /\ Phase[e] = "copied" <=> e \in printed
       /\ Phase[e] = "taken" <=> IsTaken(e)
       /\ Phase[e] = "queued" <=> IsQueued(e)
       /\ Phase[e] = "waiting" <=> IsWaiting(e)

LEMMA PhaseIsRead == CopierInv /\ SkippedApart => PhaseOK
<1> SUFFICES ASSUME CopierInv, SkippedApart, NEW e \in Entries \cup {Root}
             PROVE  /\ Phase[e] \in Phases
                    /\ Phase[e] = "skipped" <=> e \in skipped
                    /\ Phase[e] = "copied" <=> e \in printed
                    /\ Phase[e] = "taken" <=> IsTaken(e)
                    /\ Phase[e] = "queued" <=> IsQueued(e)
                    /\ Phase[e] = "waiting" <=> IsWaiting(e)
  BY DEF PhaseOK, Phase
<1> DEFINE A == e \in skipped
           B == e \in printed
           C == IsTaken(e)
           D == IsQueued(e)
           E == IsWaiting(e)
<1>1. Phase[e] = CASE A -> "skipped" [] B -> "copied" [] C -> "taken"
                   [] D -> "queued" [] E -> "waiting" [] OTHER -> "passed"
  <2>1. E <=> e \in unread \cup {item.name}
    BY DEF IsWaiting
  <2>2. CASE E
    BY <2>1, <2>2 DEF Phase, IsTaken, IsQueued
  <2>3. CASE ~E
    BY <2>1, <2>3 DEF Phase, IsTaken, IsQueued
  <2> QED BY <2>2, <2>3
<1>2. e # NoOne
  BY TreeAssumption
<1>3. /\ ~(A /\ B) /\ ~(A /\ C) /\ ~(A /\ D) /\ ~(A /\ E)
      /\ ~(B /\ C) /\ ~(B /\ D) /\ ~(B /\ E)
      /\ ~(C /\ D) /\ ~(C /\ E) /\ ~(D /\ E)
  BY <1>2
     DEF CopierInv, SkippedApart, Apart, WalkInv, IsTaken, IsQueued, IsWaiting
<1> HIDE DEF A, B, C, D, E
<1>4. /\ Phase[e] \in Phases
      /\ Phase[e] = "skipped" <=> A
      /\ Phase[e] = "copied" <=> B
      /\ Phase[e] = "taken" <=> C
      /\ Phase[e] = "queued" <=> D
      /\ Phase[e] = "waiting" <=> E
  <2>1. CASE A
    BY <1>1, <1>3, <2>1 DEF Phases
  <2>2. CASE B
    BY <1>1, <1>3, <2>2 DEF Phases
  <2>3. CASE C
    BY <1>1, <1>3, <2>3 DEF Phases
  <2>4. CASE D
    BY <1>1, <1>3, <2>4 DEF Phases
  <2>5. CASE E
    BY <1>1, <1>3, <2>5 DEF Phases
  <2>6. CASE ~A /\ ~B /\ ~C /\ ~D /\ ~E
    BY <1>1, <2>6 DEF Phases
  <2> QED BY <2>1, <2>2, <2>3, <2>4, <2>5, <2>6
<1> QED BY <1>4 DEF A, B, C, D, E

(* An entry that stays where it is, stays in its phase.                     *)
Nodes == Entries \cup {Root}
Stays(e) ==
  /\ e \in skipped' <=> e \in skipped
  /\ e \in printed' <=> e \in printed
  /\ IsTaken(e)' <=> IsTaken(e)
  /\ IsQueued(e)' <=> IsQueued(e)
  /\ IsWaiting(e)' <=> IsWaiting(e)

LEMMA PhaseStays ==
  ASSUME PhaseOK, PhaseOK', NEW e \in Nodes, Stays(e)
  PROVE  Phase'[e] = Phase[e]
<1>1. Phase[e] \in Phases /\ Phase'[e] \in Phases
  BY DEF PhaseOK, Nodes
<1>2. \A p \in Phases \ {"passed"} : Phase'[e] = p <=> Phase[e] = p
  BY DEF PhaseOK, Stays, Phases, Nodes
<1> QED BY <1>1, <1>2

LEMMA PhaseMoves ==
  ASSUME PhaseOK, PhaseOK', NEW x \in Nodes, \A e \in Nodes \ {x} : Stays(e)
  PROVE  Phase' = [Phase EXCEPT ![x] = Phase'[x]]
<1>1. Phase \in [Nodes -> Phases] /\ Phase' \in [Nodes -> Phases]
  BY DEF PhaseOK, Nodes
<1>2. \A e \in Nodes \ {x} : Phase'[e] = Phase[e]
  BY PhaseStays
<1> QED BY <1>1, <1>2

LEMMA PhaseFrame ==
  ASSUME PhaseOK, PhaseOK', \A e \in Nodes : Stays(e)
  PROVE  Phase' = Phase
<1>1. Phase \in [Nodes -> Phases] /\ Phase' \in [Nodes -> Phases]
  BY DEF PhaseOK, Nodes
<1>2. \A e \in Nodes : Phase'[e] = Phase[e]
  BY PhaseStays
<1> QED BY <1>1, <1>2

(* A directory is nobody's job, and the one being read was entered.         *)
LEMMA DirsApart ==
  ASSUME CopierInv, NEW d \in Dirs
  PROVE  d \notin printed /\ ~IsTaken(d) /\ ~IsQueued(d) /\ d # item.name
<1>0. /\ HandsOK /\ KindOK /\ d # NoOne /\ item.name \in Names
      /\ \A w \in Workers : job[w].name \in Names
  BY PairsTyped, TreeAssumption DEF CopierInv, TypeOK, WalkOK, WorkOK, Dirs
<1>1. d \in Entries => Kind[d] = "dir"
  BY TreeAssumption DEF Dirs
<1> QED
  BY <1>0, <1>1, TreeAssumption
     DEF HandsOK, KindOK, KindOf, Names, Dirs, IsTaken, IsQueued

LEMMA CwdPassed ==
  ASSUME CopierInv, PhaseOK, Walking
  PROVE  cwd \in Nodes /\ Phase[cwd] = "passed"
<1>1. cwd \in Dirs /\ cwd \in Nodes
  BY DEF CopierInv, TypeOK, WalkOK, Dirs, Nodes
<1>2. PICK n \in Nat \ {0} : \E s \in [1 .. n -> Dirs] : Trail(n, s)
  BY DEF CopierInv, WalkInv
<1>3. PICK s \in [1 .. n -> Dirs] : Trail(n, s)
  BY <1>2
<1>4. n \in 1 .. n /\ (n = 1 \/ n \in 2 .. n)
  OBVIOUS
<1>5. cwd \notin skipped /\ cwd \notin unread
  BY <1>3, <1>4, TreeAssumption DEF Trail, CopierInv, TypeOK, WalkOK
<1>6. ~IsWaiting(cwd) /\ ~IsTaken(cwd) /\ ~IsQueued(cwd) /\ cwd \notin printed
  BY <1>1, <1>5, DirsApart DEF IsWaiting
<1> QED BY <1>1, <1>5, <1>6 DEF PhaseOK, Phases, Nodes

(* No more entries are queued than the buffer holds, none is copied without *)
(* a worker.                                                                *)
LEMMA PoolCardinality == \A S : Pool!Cardinality(S) = Cardinality(S)
BY DEF Pool!Cardinality, Cardinality

LEMMA FewerThanPlaces ==
  ASSUME NEW S, NEW T, NEW file, IsFiniteSet(T),
         \A e \in S : \E t \in T : file[t].name = e
  PROVE  IsFiniteSet(S) /\ Cardinality(S) <= Cardinality(T)
<1> DEFINE place == [e \in S |-> CHOOSE t \in T : file[t].name = e]
<1>1. \A e \in S : place[e] \in T /\ file[place[e]].name = e
  OBVIOUS
<1>2. place \in Injection(S, T)
  BY <1>1 DEF Injection, IsInjective
<1> QED BY <1>2, FS_Injection

LEMMA FewQueued ==
  ASSUME CopierInv, PhaseOK, bufferCount # BufferSize
  PROVE  Pool!Cardinality(Pool!In("queued")) < BufferSize
<1> DEFINE Q == {e \in Entries : Phase[e] = "queued"}
<1>1. \A e \in Q : \E i \in Pending : buffer[i].name = e
  BY DEF PhaseOK, IsQueued
<1>2. bufferCount \in Nat /\ bufferCount < BufferSize
  BY SizeAssumption DEF CopierInv, TypeOK, QueueOK
<1>3. IsFiniteSet(Pending) /\ Cardinality(Pending) = bufferCount
  BY <1>2, FS_Interval DEF Pending
<1> HIDE DEF Q
<1>4. IsFiniteSet(Q) /\ Cardinality(Q) <= bufferCount
  BY <1>1, <1>3, FewerThanPlaces
<1>5. Cardinality(Q) < BufferSize
  BY <1>2, <1>4, FS_CardinalityType, SizeAssumption
<1> QED BY <1>5, PoolCardinality DEF Pool!In, Q

LEMMA WorkerFree ==
  ASSUME CopierInv, PhaseOK, NEW w \in Workers, pc[w] = "take"
  PROVE  Pool!Cardinality(Pool!In("taken")) < Cardinality(Workers)
<1> DEFINE T == {e \in Entries : Phase[e] = "taken"}
           Others == Workers \ {w}
<1>1. job[w].name = NoOne
  BY DEF CopierInv, HandsOK
<1>2. \A e \in T : \E v \in Others : job[v].name = e
  BY <1>1, TreeAssumption DEF PhaseOK, IsTaken
<1>3. IsFiniteSet(Others) /\ Cardinality(Others) = Cardinality(Workers) - 1
      /\ Cardinality(Workers) \in Nat
  BY WorkersFinite, FS_RemoveElement, FS_CardinalityType
<1> HIDE DEF T, Others
<1>4. IsFiniteSet(T) /\ Cardinality(T) <= Cardinality(Others)
  BY <1>2, <1>3, FewerThanPlaces
<1>5. Cardinality(T) < Cardinality(Workers)
  BY <1>3, <1>4, FS_CardinalityType
<1> QED BY <1>5, PoolCardinality DEF Pool!In, T

(* Every step of the copier is a step of the job pool, or none.             *)
LEMMA PoolStep ==
  ASSUME CopierInv, SkippedApart, PhaseOK, CopierInv', PhaseOK', Operation
  PROVE  [Pool!Next]_<<Phase, status>>
<1> USE ThreadsDistinct DEF At, Holds, Runs, Goto
<1>0. /\ pc \in [Threads -> Labels] /\ Manager \in Threads
      /\ item \in FilePairs /\ job \in [Workers -> FilePairs]
      /\ buffer \in [Slots -> FilePairs]
      /\ HandsOK /\ Apart /\ ZeroPair.name = NoOne /\ NoOne \notin Nodes
  BY TreeAssumption
     DEF CopierInv, TypeOK, ControlOK, WalkOK, QueueOK, WorkOK, Threads,
         ZeroPair, FilePair, Nodes
<1>entries. Entries \subseteq Nodes
  BY DEF Nodes
<1>idle. pc[Manager] \notin Carrying => item.name \notin Nodes
  BY <1>0, PairsTyped, TreeAssumption DEF HandsOK, Nodes, Names
<1>stay. ASSUME \A e \in Nodes : Stays(e), UNCHANGED status
         PROVE  UNCHANGED <<Phase, status>>
  BY <1>stay, PhaseFrame
<1>1. ASSUME UNCHANGED <<buffer, bufferCount, job, unread, printed, skipped, status>>,
             item'.name = item.name
      PROVE  UNCHANGED <<Phase, status>>
  BY <1>1, <1>stay DEF Stays, IsTaken, IsQueued, IsWaiting, Pending
(* Entry x changes phase; the pool's step is named by what it becomes.      *)
<1>2. ASSUME NEW x \in Nodes, \A e \in Nodes \ {x} : Stays(e),
             NEW p \in Phases, Phase'[x] = p, UNCHANGED status
      PROVE  Pool!Become(x, p)
  BY <1>2, PhaseMoves DEF Pool!Become
<1>3. ASSUME NEW e \in Entries, ReadEntry(e) PROVE [Pool!Next]_<<Phase, status>>
  <2>1. /\ UNCHANGED <<buffer, bufferCount, job, printed, status>>
        /\ e \in unread /\ unread' = unread \ {e} /\ Parent[e] = cwd
        /\ pc[Manager] = "readdir" /\ status = "running"
    BY <1>3 DEF ReadEntry, queueVars, workVars, endVars
  <2>2. Phase[e] = "waiting" /\ Phase[cwd] = "passed" /\ item.name \notin Nodes
    BY <1>idle, <2>1, CwdPassed, <1>entries
       DEF PhaseOK, IsWaiting, Walking, Carrying, Nodes
  <2>3. Pool!Reachable(e)
    BY <2>1, <2>2 DEF Pool!Reachable
  <2>4. CASE skipped' = skipped \cup {e} /\ UNCHANGED item
    <3>1. \A f \in Nodes \ {e} : Stays(f)
      BY <2>1, <2>4 DEF Stays, IsTaken, IsQueued, IsWaiting, Pending
    <3>2. Phase'[e] = "skipped"
      BY <2>4 DEF PhaseOK
    <3>3. Pool!SkipEntry(e)
      BY <1>2, <1>entries, <2>1, <2>3, <3>1, <3>2 DEF Pool!SkipEntry, Phases
    <3> QED BY <2>1, <3>3 DEF Pool!Next
  <2>5. CASE UNCHANGED skipped /\ item'.name = e
    <3>1. \A f \in Nodes : Stays(f)
      BY <2>1, <2>2, <2>5 DEF Stays, IsTaken, IsQueued, IsWaiting, Pending
    <3> QED BY <1>stay, <2>1, <3>1
  <2>6. CASE UNCHANGED <<skipped, item>>
    <3>1. \A f \in Nodes \ {e} : Stays(f)
      BY <2>1, <2>6 DEF Stays, IsTaken, IsQueued, IsWaiting, Pending
    <3>2. /\ e \notin skipped' /\ e \notin printed' /\ ~IsTaken(e)'
          /\ ~IsQueued(e)' /\ ~IsWaiting(e)'
      BY <1>0, <2>1, <2>6
         DEF Apart, CopierInv, WalkInv, IsTaken, IsQueued, IsWaiting, Pending
    <3>3. Phase'[e] = "passed"
      BY <3>2, <1>entries DEF PhaseOK, Phases
    <3>4. Pool!Pass(e)
      BY <1>2, <1>entries, <2>1, <2>3, <3>1, <3>3 DEF Pool!Pass, Phases
    <3> QED BY <2>1, <3>4 DEF Pool!Next
  <2>7. \/ skipped' = skipped \cup {e} /\ UNCHANGED item
        \/ UNCHANGED skipped /\ item'.name = e
        \/ UNCHANGED <<skipped, item>>
    BY <1>3 DEF ReadEntry, Skip, FilePair
  <2> QED BY <2>4, <2>5, <2>6, <2>7
<1>4. CASE OpenSrc \/ OpenDest \/ MakeFifo
  <2>1. /\ UNCHANGED <<buffer, bufferCount, job, unread, printed, status>>
        /\ pc[Manager] \in Carrying /\ status = "running"
        /\ \/ UNCHANGED skipped /\ item'.name = item.name
           \/ skipped' = skipped \cup {item.name} /\ item'.name = NoOne
    BY <1>0, <1>4 DEF OpenSrc, OpenDest, MakeFifo, Skip, queueVars, workVars,
                      endVars, FilePair, Carrying
  <2>2. CASE UNCHANGED skipped /\ item'.name = item.name
    BY <1>1, <2>1, <2>2
  <2>3. CASE skipped' = skipped \cup {item.name} /\ item'.name = NoOne
    <3>1. PICK x \in Entries : x = item.name
      BY <1>0, <2>1 DEF HandsOK
    <3>2. Parent[x] = cwd
      BY <2>1, <3>1 DEF CopierInv, KindOK
    <3>3. \A f \in Nodes \ {x} : Stays(f)
      BY <1>0, <2>1, <2>3, <3>1
         DEF Stays, IsTaken, IsQueued, IsWaiting, Pending
    <3>4. Phase'[x] = "skipped"
      BY <2>3, <3>1 DEF PhaseOK
    <3>5. Phase[x] = "waiting" /\ Phase[cwd] = "passed"
      BY <2>1, <3>1, CwdPassed DEF PhaseOK, IsWaiting, Walking, Carrying
    <3>6. Pool!SkipEntry(x)
      BY <1>2, <1>entries, <2>1, <3>2, <3>3, <3>4, <3>5
         DEF Pool!SkipEntry, Pool!Reachable, Phases
    <3> QED BY <2>1, <3>6 DEF Pool!Next
  <2> QED BY <2>1, <2>2, <2>3
<1>5. CASE OpenDirFails
  <2>1. /\ UNCHANGED <<buffer, bufferCount, job, unread, printed, item, status>>
        /\ skipped' = skipped \cup {cwd} /\ Walking /\ status = "running"
    BY <1>5 DEF OpenDirFails, queueVars, workVars, endVars, Walking
  <2>2. PICK d \in Nodes : d = cwd
    BY <2>1, CwdPassed
  <2>3. \A f \in Nodes \ {d} : Stays(f)
    BY <2>1, <2>2 DEF Stays, IsTaken, IsQueued, IsWaiting, Pending
  <2>4. Phase'[d] = "skipped" /\ Phase[d] = "passed"
    BY <2>1, <2>2, CwdPassed DEF PhaseOK, Nodes
  <2>5. Pool!SkipDir(d)
    BY <1>2, <2>1, <2>3, <2>4 DEF Pool!SkipDir, Phases
  <2> QED BY <2>1, <2>5 DEF Pool!Next, Nodes
<1>6. CASE Push
  <2>1. /\ bufferCount \in Slots /\ bufferCount' = bufferCount + 1
        /\ bufferCount \in Nat /\ bufferCount # BufferSize
    BY <1>6, SizeAssumption
       DEF Push, CopierInv, TypeOK, QueueOK, Slots, Full
  <2>2. /\ UNCHANGED <<job, unread, skipped, printed, status>>
        /\ item' = ZeroPair /\ pc[Manager] = "push" /\ status = "running"
        /\ buffer' = [buffer EXCEPT ![bufferCount] = Filled(buffer[bufferCount])]
    BY <1>6 DEF Push, workVars, endVars
  <2>3. PICK x \in Entries : x = item.name
    BY <1>0, <2>2 DEF HandsOK, Carrying
  <2>4. Pending' = Pending \cup {bufferCount} /\ bufferCount \notin Pending
    BY <2>1 DEF Pending
  <2>5. /\ buffer'[bufferCount].name = x
        /\ \A i \in Pending : buffer'[i] = buffer[i]
    <3>1. Pending \subseteq Slots
      BY <2>1, SizeAssumption DEF Pending, Slots
    <3>2. buffer'[bufferCount].name = x
      BY <1>0, <2>1, <2>2, <2>3 DEF Filled, FilePair
    <3> QED BY <1>0, <2>2, <2>4, <3>1, <3>2
  <2>6. \A f \in Nodes \ {x} : Stays(f)
    BY <1>0, <2>2, <2>3, <2>4, <2>5 DEF Stays, IsTaken, IsQueued, IsWaiting
  <2>7. Phase'[x] = "queued"
    BY <1>entries, <2>4, <2>5 DEF PhaseOK, IsQueued
  <2>8. Phase[x] = "waiting" /\ Phase[cwd] = "passed" /\ Parent[x] = cwd
    BY <2>2, <2>3, CwdPassed
       DEF PhaseOK, IsWaiting, Walking, Carrying, CopierInv, KindOK
  <2>9. Pool!Enqueue(x)
    BY <1>2, <1>entries, <2>1, <2>2, <2>6, <2>7, <2>8, FewQueued
       DEF Pool!Enqueue, Pool!Reachable, Phases
  <2> QED BY <2>2, <2>9 DEF Pool!Next
<1>7. ASSUME NEW w \in Workers, Take(w) PROVE [Pool!Next]_<<Phase, status>>
  <2>1. /\ bufferCount - 1 \in Pending /\ Pending = Pending' \cup {bufferCount - 1}
        /\ bufferCount - 1 \notin Pending'
    BY <1>7, SizeAssumption DEF Take, CopierInv, TypeOK, QueueOK, Pending
  <2>2. /\ UNCHANGED <<buffer, item, unread, skipped, printed, status>>
        /\ job' = [job EXCEPT ![w] = buffer[bufferCount - 1]]
        /\ pc[w] = "take" /\ status = "running"
    BY <1>7 DEF Take, Top, walkVars, endVars
  <2>3. PICK x \in Entries : x = buffer[bufferCount - 1].name
    BY <1>0, <2>1 DEF HandsOK
  <2>4. job[w].name = NoOne /\ job'[w].name = x
        /\ \A v \in Workers \ {w} : job'[v] = job[v]
    BY <1>0, <2>2, <2>3 DEF HandsOK
  <2>5. \A f \in Nodes \ {x} : Stays(f)
    BY <1>0, <2>1, <2>2, <2>3, <2>4
       DEF Stays, IsTaken, IsQueued, IsWaiting
  <2>6. Phase'[x] = "taken" /\ Phase[x] = "queued"
    BY <1>entries, <2>1, <2>3, <2>4 DEF PhaseOK, IsQueued, IsTaken
  <2>7. Pool!Dequeue(x)
    BY <1>2, <1>entries, <2>2, <2>5, <2>6, WorkerFree
       DEF Pool!Dequeue, Phases
  <2> QED BY <2>2, <2>7 DEF Pool!Next
<1>8. ASSUME NEW w \in Workers, PrintCopied(w)
      PROVE  [Pool!Next]_<<Phase, status>>
  <2>1. /\ UNCHANGED <<buffer, bufferCount, item, unread, skipped, status>>
        /\ printed' = printed \cup {job[w].name}
        /\ job' = [job EXCEPT ![w] = ZeroPair]
        /\ pc[w] = "print" /\ status = "running"
    BY <1>8 DEF PrintCopied, queueVars, walkVars
  <2>2. PICK x \in Entries : x = job[w].name
    <3>1. job[w].name # NoOne /\ job[w].name \in Names
      BY <1>0, <2>1, PairsTyped DEF HandsOK
    <3> QED BY <3>1 DEF Names
  <2>3. job'[w].name = NoOne /\ \A v \in Workers \ {w} : job'[v] = job[v]
    BY <1>0, <2>1
  <2>4. \A f \in Nodes \ {x} : Stays(f)
    BY <1>0, <2>1, <2>2, <2>3
       DEF Stays, IsTaken, IsQueued, IsWaiting, Pending
  <2>5. Phase'[x] = "copied" /\ Phase[x] = "taken"
    BY <1>entries, <2>1, <2>2 DEF PhaseOK, IsTaken
  <2>6. Pool!Copied(x)
    BY <1>2, <1>entries, <2>1, <2>4, <2>5 DEF Pool!Copied, Phases
  <2> QED BY <2>1, <2>6 DEF Pool!Next
<1>9. CASE Report
  <2>1. /\ UNCHANGED <<buffer, bufferCount, job, unread, printed, skipped, item>>
        /\ status = "running" /\ status' = "reported"
        /\ pc' = pc
    BY <1>9 DEF Report, queueVars, walkVars, workVars
  <2>2. AllQuiet
    BY <2>1, <1>9 DEF CopierInv, QuietReport, AllQuiet, Report
  <2>3. UNCHANGED Phase
    BY <2>1, PhaseFrame DEF Stays, IsTaken, IsQueued, IsWaiting, Pending
  <2>4. Pending = {} /\ \A w \in Workers : job[w].name = NoOne
    BY <1>0, <2>2 DEF AllQuiet, Pending, HandsOK
  <2>5. Pool!In("queued") \cup Pool!In("taken") = {}
    BY <1>0, <1>entries, <2>4 DEF Pool!In, PhaseOK, IsQueued, IsTaken, Nodes
  <2>6. ASSUME NEW e \in Entries, Phase[e] = "waiting"
        PROVE  Phase[Parent[e]] # "passed"
    <3>1. e \in unread
      BY <1>idle, <1>entries, <2>2, <2>6
         DEF PhaseOK, IsWaiting, AllQuiet, Carrying
    <3>2. Parent[e] \in unread \cup skipped
      BY <2>2, <3>1 DEF CopierInv, WalkInv, AllQuiet, Walking
    <3>3. Parent[e] \in Nodes
      BY TreeAssumption DEF Dirs, Nodes
    <3> QED BY <3>2, <3>3 DEF PhaseOK, IsWaiting, Nodes
  <2>7. Pool!Report
    BY <2>1, <2>3, <2>5, <2>6 DEF Pool!Report, Pool!Reachable
  <2> QED BY <2>1, <2>7 DEF Pool!Next
<1>10. CASE HandlerExit
  <2>1. /\ UNCHANGED <<buffer, bufferCount, job, unread, printed, skipped, item>>
        /\ status = "running" /\ status' = "killed"
    BY <1>10 DEF HandlerExit, queueVars, walkVars, workVars
  <2>2. UNCHANGED Phase
    BY <2>1, PhaseFrame DEF Stays, IsTaken, IsQueued, IsWaiting, Pending
  <2> QED BY <2>1, <2>2 DEF Pool!Next, Pool!Killed
<1>11. ASSUME NEW w \in Workers,
              \/ TakeWait(w) \/ Leave(w) \/ Read(w) \/ ReadEnds(w) \/ Write(w)
              \/ WriteFails(w) \/ AddBytes(w) \/ AddRegular(w) \/ CloseJob(w)
              \/ AddFifo(w)
       PROVE  UNCHANGED <<Phase, status>>
  BY <1>1, <1>11
     DEF TakeWait, Leave, Read, ReadEnds, Write, WriteFails, AddBytes,
         AddRegular, CloseJob, AddFifo, queueVars, walkVars, workVars, endVars
<1>12. CASE \/ OpenDir \/ CountDir \/ CloseDir \/ SetDone
            \/ \E t \in Threads : Lock(t)
            \/ PushWait \/ (\E t \in SigThreads : Sigint(t))
            \/ HandlerSetDone \/ HandlerCloseAll
            \/ SpuriousWakeup \/ UNCHANGED vars
  BY <1>1, <1>12
     DEF OpenDir, CountDir, CloseDir, SetDone, Lock, PushWait, Sigint,
         HandlerSetDone, HandlerCloseAll, SpuriousWakeup,
         queueVars, walkVars, workVars, endVars, vars
<1> QED
  BY <1>3, <1>4, <1>5, <1>6, <1>7, <1>8, <1>9, <1>10, <1>11, <1>12
     DEF Operation

(* The copier implements the job pool: whatever the threads, locks, faults  *)
(* and the signal do, every entry leads the life of the pool, and main      *)
(* reports only when nothing that was entered is left to copy.              *)
THEOREM ImplementsPoolHolds == Spec => ImplementsPool
<1>1. Init /\ PhaseOK => Pool!Init
  <2> SUFFICES ASSUME Init, PhaseOK PROVE Pool!Init
    OBVIOUS
  <2>1. \A e \in Entries : Phase[e] = "waiting"
    BY DEF Init, PhaseOK, IsWaiting
  <2>2. Phase[Root] = "passed"
    BY TreeAssumption
       DEF Init, PhaseOK, IsWaiting, IsQueued, IsTaken, Pending, ZeroPair,
           FilePair, Phases
  <2> QED BY <2>1, <2>2, TreeAssumption DEF Pool!Init, PhaseOK, Init
<1>2. CopierInv /\ SkippedApart /\ [Next]_vars => SkippedApart'
  BY NextIsOperation, SkippedPreserved
<1>3. Spec => [](CopierInv /\ SkippedApart)
  BY InitSkipped, <1>2, CopierInvariant, PTL DEF Spec
<1>4. /\ CopierInv /\ SkippedApart /\ PhaseOK /\ CopierInv' /\ PhaseOK'
      /\ [Next]_vars
      => [Pool!Next]_<<Phase, status>>
  BY NextIsOperation, PoolStep
<1> QED
  BY <1>1, <1>3, <1>4, PhaseIsRead, PTL DEF Spec, ImplementsPool, Pool!Spec
-----------------------------------------------------------------------------
(* What the statistics count, one set for each counter and one for who is   *)
(* between the count and what it counts.                                    *)
PrintedOf(kind) == {e \in printed : Kind[e] = kind}
PastRegular ==
  {w \in Workers : pc[w] \in {"close", "print"} /\ ~job[w].isFifo}
PastFifo == {w \in Workers : pc[w] = "print" /\ job[w].isFifo}
Adding == {w \in Workers : pc[w] \in {"addBytes"}}
Blocks == UNION {{e} \X DOMAIN content[e] : e \in Entries}
DirsRead == {e \in Entries \ unread : Kind[e] = "dir"}
Uncounted == IF pc[Manager] = "countDir" THEN 1 ELSE 0

StatsInv ==
  /\ IsFiniteSet(printed) /\ IsFiniteSet(Blocks)
  /\ IsFiniteSet(Entries \ unread)
  /\ numRegular = Cardinality(PrintedOf("regular")) + Cardinality(PastRegular)
  /\ numFifo = Cardinality(PrintedOf("fifo")) + Cardinality(PastFifo)
  /\ totalBytes + Cardinality(Adding) = Cardinality(Blocks)
  /\ skipped = {} => numDir + Uncounted = Cardinality(DirsRead)

LEMMA StatsAreExact == StatsInv => StatisticsExact
BY DEF StatsInv, StatisticsExact, Counted, PrintedOf, PastRegular, PastFifo,
       Adding, Blocks, DirsRead, Uncounted

LEMMA StatsFinite ==
  /\ IsFiniteSet(PastRegular) /\ Cardinality(PastRegular) \in Nat
  /\ IsFiniteSet(PastFifo) /\ Cardinality(PastFifo) \in Nat
  /\ IsFiniteSet(Adding) /\ Cardinality(Adding) \in Nat
<1>1. /\ PastRegular \in SUBSET Workers /\ PastFifo \in SUBSET Workers
      /\ Adding \in SUBSET Workers
  BY DEF PastRegular, PastFifo, Adding
<1> QED BY <1>1, WorkersFinite, FS_Subset, FS_CardinalityType

LEMMA BlocksAre ==
  \A x : x \in Blocks <=>
           \E e \in Entries : \E i \in DOMAIN content[e] : x = <<e, i>>
BY DEF Blocks

LEMMA InitStats == Init => StatsInv
<1> SUFFICES ASSUME Init PROVE StatsInv
  OBVIOUS
<1>1. /\ \A k : PrintedOf(k) = {}
      /\ PastRegular = {} /\ PastFifo = {} /\ Adding = {} /\ DirsRead = {}
      /\ Entries \ unread = {} /\ printed = {} /\ Uncounted = 0
  BY ThreadsDistinct
     DEF Init, PrintedOf, PastRegular, PastFifo, Adding, DirsRead, Uncounted,
         Threads
<1>2. Blocks = {}
  <2>1. \A e \in Entries : DOMAIN content[e] = {}
    BY DEF Init
  <2> QED BY <2>1, BlocksAre
<1>3. /\ totalBytes = 0 /\ numRegular = 0 /\ numFifo = 0 /\ numDir = 0
  BY DEF Init
<1>4. IsFiniteSet({}) /\ Cardinality({}) = 0
  BY FS_EmptySet
<1>5. /\ Cardinality(PrintedOf("regular")) = 0
      /\ Cardinality(PrintedOf("fifo")) = 0
      /\ Cardinality(PastRegular) = 0 /\ Cardinality(PastFifo) = 0
      /\ Cardinality(Adding) = 0 /\ Cardinality(DirsRead) = 0
      /\ Cardinality(Blocks) = 0 /\ IsFiniteSet(Blocks)
      /\ IsFiniteSet(printed) /\ IsFiniteSet(Entries \ unread)
  BY <1>1, <1>2, <1>4, Zenon
<1> QED BY <1>1, <1>3, <1>5 DEF StatsInv

(* One more, one less.                                                      *)
LEMMA OneMore ==
  ASSUME NEW S, IsFiniteSet(S), NEW x, x \notin S
  PROVE  /\ IsFiniteSet(S \cup {x})
         /\ Cardinality(S \cup {x}) = Cardinality(S) + 1
BY FS_AddElement

LEMMA OneLess ==
  ASSUME NEW S, IsFiniteSet(S), NEW x, x \in S
  PROVE  /\ IsFiniteSet(S \ {x})
         /\ Cardinality(S) = Cardinality(S \ {x}) + 1
         /\ Cardinality(S \ {x}) \in Nat
<1>1. IsFiniteSet(S \ {x}) /\ Cardinality(S \ {x}) = Cardinality(S) - 1
  BY FS_RemoveElement
<1>2. Cardinality(S) \in Nat /\ Cardinality(S \ {x}) \in Nat
  BY <1>1, FS_CardinalityType
<1> QED BY <1>1, <1>2

LEMMA StatsPreserved ==
  ASSUME CopierInv, StatsInv, Operation
  PROVE  StatsInv'
<1> USE ThreadsDistinct DEF At, Holds, Runs, Goto
<1>0. /\ pc \in [Threads -> Labels] /\ Manager \in Threads
      /\ Workers \subseteq Threads /\ Manager \notin Workers
      /\ job \in [Workers -> FilePairs] /\ KindOK
      /\ totalBytes \in Nat /\ numRegular \in Nat
      /\ numFifo \in Nat /\ numDir \in Nat
  BY DEF CopierInv, TypeOK, ControlOK, QueueOK, WorkOK, Threads
<1>c. UNCHANGED content => UNCHANGED Blocks
  BY DEF Blocks
<1>p. UNCHANGED printed => \A k : PrintedOf(k)' = PrintedOf(k)
  BY DEF PrintedOf
<1>1. ASSUME UNCHANGED <<printed, content, unread, statVars>>,
             skipped \subseteq skipped',
             pc'[Manager] = "countDir" <=> pc[Manager] = "countDir",
             \A w \in Workers :
               \/ pc'[w] = pc[w] /\ job'[w] = job[w]
               \/ /\ {pc[w], pc'[w]} \cap {"close", "print", "addBytes"} = {}
               \/ pc[w] = "close" /\ pc'[w] = "print" /\ job'[w] = job[w]
                  /\ ~job[w].isFifo
      PROVE  StatsInv'
  <2>1. UNCHANGED <<PastRegular, PastFifo, Adding>>
    BY <1>1 DEF PastRegular, PastFifo, Adding
  <2>2. UNCHANGED <<Uncounted, DirsRead>>
    BY <1>1 DEF Uncounted, DirsRead
  <2>3. UNCHANGED <<totalBytes, numRegular, numFifo, numDir>>
    BY <1>1 DEF statVars
  <2> QED BY <1>1, <1>c, <1>p, <2>1, <2>2, <2>3 DEF StatsInv
<1>2. ASSUME NEW e \in Entries, ReadEntry(e) PROVE StatsInv'
  <2>1. /\ UNCHANGED <<printed, content, job, statVars>>
        /\ e \in unread /\ unread' = unread \ {e}
        /\ pc[Manager] = "readdir"
        /\ \A w \in Workers : pc'[w] = pc[w]
        /\ \/ skipped' = skipped \cup {e}
           \/ /\ UNCHANGED skipped /\ Kind[e] = "dir"
              /\ pc'[Manager] = "countDir"
           \/ /\ UNCHANGED skipped /\ Kind[e] # "dir"
              /\ pc'[Manager] # "countDir"
    BY <1>0, <1>2 DEF ReadEntry, Skip, workVars, fileVars, endVars
  <2>2. UNCHANGED <<PastRegular, PastFifo, Adding>>
    BY <2>1 DEF PastRegular, PastFifo, Adding
  <2>3. /\ Entries \ unread' = (Entries \ unread) \cup {e}
        /\ e \notin Entries \ unread
    BY <2>1
  <2>4. IsFiniteSet(Entries \ unread')
    BY <2>3, FS_AddElement DEF StatsInv
  <2>5. ASSUME skipped' = {}
        PROVE  numDir' + Uncounted' = Cardinality(DirsRead')
    <3>1. Uncounted = 0 /\ UNCHANGED numDir /\ skipped = {}
      BY <2>1, <2>5 DEF Uncounted, statVars
    <3>2. IsFiniteSet(DirsRead) /\ DirsRead \in SUBSET (Entries \ unread)
      BY FS_Subset DEF StatsInv, DirsRead
    <3>3. CASE Kind[e] = "dir"
      <4>1. DirsRead' = DirsRead \cup {e} /\ e \notin DirsRead
        BY <2>3, <3>3 DEF DirsRead
      <4>2. Uncounted' = 1
        BY <2>1, <2>5, <3>3 DEF Uncounted
      <4> QED BY <1>0, <3>1, <3>2, <4>1, <4>2, OneMore DEF StatsInv
    <3>4. CASE Kind[e] # "dir"
      <4>1. DirsRead' = DirsRead
        BY <2>3, <3>4 DEF DirsRead
      <4>2. Uncounted' = 0
        BY <2>1, <2>5, <3>4 DEF Uncounted
      <4> QED BY <3>1, <4>1, <4>2 DEF StatsInv
    <3> QED BY <3>3, <3>4
  <2> QED BY <1>c, <1>p, <2>1, <2>2, <2>4, <2>5 DEF StatsInv, statVars
<1>3. CASE CountDir
  <2>1. /\ UNCHANGED <<printed, content, job, unread, skipped, totalBytes,
                       numRegular, numFifo>>
        /\ numDir' = numDir + 1
        /\ pc[Manager] = "countDir" /\ pc'[Manager] = "opendir"
        /\ \A w \in Workers : pc'[w] = pc[w]
    BY <1>0, <1>3 DEF CountDir, walkVars, workVars, fileVars, endVars
  <2>2. UNCHANGED <<PastRegular, PastFifo, Adding, DirsRead>>
    BY <2>1 DEF PastRegular, PastFifo, Adding, DirsRead
  <2>3. Uncounted = 1 /\ Uncounted' = 0
    BY <2>1 DEF Uncounted
  <2> QED BY <1>0, <1>c, <1>p, <2>1, <2>2, <2>3 DEF StatsInv
<1>4. ASSUME NEW w \in Workers, Write(w) PROVE StatsInv'
  <2>1. /\ UNCHANGED <<printed, job, unread, skipped, statVars>>
        /\ pc[w] = "write" /\ pc'[w] = "addBytes" /\ pc'[Manager] = pc[Manager]
        /\ \A v \in Workers \ {w} : pc'[v] = pc[v]
    BY <1>0, <1>4 DEF Write, walkVars, workVars, endVars
  <2>2. PICK e \in Entries :
               content' = [content EXCEPT ![e] = Append(content[e], block[w])]
    BY <1>4 DEF Write
  <2>3. /\ content \in [Entries -> Seq(Names \X Nat)]
        /\ block[w] \in Names \X Nat
    BY DEF CopierInv, TypeOK, FileOK, WorkOK
  <2> DEFINE n == Len(content[e])
  <2>4. /\ n \in Nat /\ DOMAIN content[e] = 1 .. n
        /\ DOMAIN content'[e] = 1 .. n + 1
        /\ \A f \in Entries \ {e} : content'[f] = content[f]
    <3>1. content[e] \in Seq(Names \X Nat)
      BY <2>3
    <3>2. content'[e] = Append(content[e], block[w])
      BY <2>2, <2>3
    <3> QED BY <2>2, <2>3, <3>1, <3>2
  <2> HIDE DEF n
  <2>5. <<e, n + 1>> \notin Blocks
    BY <2>4, BlocksAre
  <2>6. Blocks' = Blocks \cup {<<e, n + 1>>}
    <3>1. 1 .. n + 1 = 1 .. n \cup {n + 1}
      BY <2>4
    <3>2. \A x : x \in Blocks' <=>
             \E f \in Entries : \E i \in DOMAIN content'[f] : x = <<f, i>>
      BY DEF Blocks
    <3>3. \A x : x \in Blocks' <=> x \in Blocks \/ x = <<e, n + 1>>
      BY <2>4, <3>1, <3>2, BlocksAre
    <3> QED BY <3>3
  <2>7. Adding' = Adding \cup {w} /\ w \notin Adding
    BY <2>1 DEF Adding
  <2>8. UNCHANGED <<PastRegular, PastFifo, DirsRead, Uncounted>>
    BY <2>1 DEF PastRegular, PastFifo, DirsRead, Uncounted
  <2>9. totalBytes' + Cardinality(Adding') = Cardinality(Blocks')
        /\ IsFiniteSet(Blocks')
    <3>1. /\ IsFiniteSet(Blocks)
          /\ totalBytes + Cardinality(Adding) = Cardinality(Blocks)
      BY DEF StatsInv
    <3>2. /\ Cardinality(Blocks') = Cardinality(Blocks) + 1
          /\ IsFiniteSet(Blocks')
      BY <2>5, <2>6, <3>1, OneMore
    <3>3. Cardinality(Adding') = Cardinality(Adding) + 1
      BY <2>7, StatsFinite, OneMore
    <3> QED BY <1>0, <2>1, <3>1, <3>2, <3>3, StatsFinite DEF statVars
  <2> QED BY <1>p, <2>1, <2>8, <2>9 DEF StatsInv, statVars
<1>5. ASSUME NEW w \in Workers, AddBytes(w) PROVE StatsInv'
  <2>1. /\ UNCHANGED <<printed, content, job, unread, skipped, numRegular,
                       numFifo, numDir>>
        /\ totalBytes' = totalBytes + 1
        /\ pc[w] = "addBytes" /\ pc'[w] = "read" /\ pc'[Manager] = pc[Manager]
        /\ \A v \in Workers \ {w} : pc'[v] = pc[v]
    BY <1>0, <1>5 DEF AddBytes, walkVars, workVars, fileVars, endVars
  <2>2. UNCHANGED <<PastRegular, PastFifo, DirsRead, Uncounted>>
    BY <2>1 DEF PastRegular, PastFifo, DirsRead, Uncounted
  <2>3. Adding' = Adding \ {w} /\ w \in Adding
    BY <2>1 DEF Adding
  <2>4. Cardinality(Adding) = Cardinality(Adding') + 1
        /\ Cardinality(Adding') \in Nat
    BY <2>3, StatsFinite, OneLess
  <2>5. totalBytes' + Cardinality(Adding') = Cardinality(Blocks)
    BY <1>0, <2>1, <2>4 DEF StatsInv
  <2> QED BY <1>c, <1>p, <2>1, <2>2, <2>5 DEF StatsInv
<1>6. ASSUME NEW w \in Workers, AddRegular(w) PROVE StatsInv'
  <2>1. /\ UNCHANGED <<printed, content, job, unread, skipped, totalBytes,
                       numFifo, numDir>>
        /\ numRegular' = numRegular + 1
        /\ pc[w] = "addRegular" /\ pc'[w] = "close"
        /\ pc'[Manager] = pc[Manager]
        /\ \A v \in Workers \ {w} : pc'[v] = pc[v]
    BY <1>0, <1>6 DEF AddRegular, walkVars, workVars, fileVars, endVars
  <2>2. UNCHANGED <<PastFifo, Adding, DirsRead, Uncounted>>
    BY <2>1 DEF PastFifo, Adding, DirsRead, Uncounted
  <2>3. PastRegular' = PastRegular \cup {w} /\ w \notin PastRegular
    <3>1. ~job[w].isFifo
      BY <1>0, <2>1 DEF KindOK, Copying
    <3> QED BY <2>1, <3>1 DEF PastRegular
  <2>4. Cardinality(PastRegular') = Cardinality(PastRegular) + 1
    BY <2>3, StatsFinite, OneMore
  <2>5. Cardinality(PrintedOf("regular")) \in Nat
    BY FS_Subset, FS_CardinalityType DEF StatsInv, PrintedOf
  <2>6. numRegular' = Cardinality(PrintedOf("regular"))
                        + Cardinality(PastRegular')
    BY <2>1, <2>4, <2>5, StatsFinite DEF StatsInv
  <2> QED BY <1>c, <1>p, <2>1, <2>2, <2>6 DEF StatsInv
<1>7. ASSUME NEW w \in Workers, AddFifo(w) PROVE StatsInv'
  <2>1. /\ UNCHANGED <<printed, content, job, unread, skipped, totalBytes,
                       numRegular, numDir>>
        /\ numFifo' = numFifo + 1
        /\ pc[w] = "addFifo" /\ pc'[w] = "print"
        /\ pc'[Manager] = pc[Manager]
        /\ \A v \in Workers \ {w} : pc'[v] = pc[v]
    BY <1>0, <1>7 DEF AddFifo, walkVars, workVars, fileVars, endVars
  <2>0. job[w].isFifo
    BY <1>0, <2>1 DEF KindOK
  <2>2. UNCHANGED <<PastRegular, Adding, DirsRead, Uncounted>>
    BY <2>0, <2>1 DEF PastRegular, Adding, DirsRead, Uncounted
  <2>3. PastFifo' = PastFifo \cup {w} /\ w \notin PastFifo
    BY <2>0, <2>1 DEF PastFifo
  <2>4. Cardinality(PastFifo') = Cardinality(PastFifo) + 1
    BY <2>3, StatsFinite, OneMore
  <2>5. Cardinality(PrintedOf("fifo")) \in Nat
    BY FS_Subset, FS_CardinalityType DEF StatsInv, PrintedOf
  <2>6. numFifo' = Cardinality(PrintedOf("fifo")) + Cardinality(PastFifo')
    BY <2>1, <2>4, <2>5, StatsFinite DEF StatsInv
  <2> QED BY <1>c, <1>p, <2>1, <2>2, <2>6 DEF StatsInv
<1>8. ASSUME NEW w \in Workers, PrintCopied(w) PROVE StatsInv'
  <2>1. /\ UNCHANGED <<content, unread, skipped, statVars>>
        /\ printed' = printed \cup {job[w].name}
        /\ pc[w] = "print" /\ pc'[w] = "take"
        /\ pc'[Manager] = pc[Manager]
        /\ \A v \in Workers \ {w} : pc'[v] = pc[v] /\ job'[v] = job[v]
    BY <1>0, <1>8 DEF PrintCopied, walkVars, fileVars
  <2>2. /\ job[w].name # NoOne /\ job[w].name \notin printed
        /\ Kind[job[w].name] = KindOf(job[w])
    BY <1>0, <2>1 DEF CopierInv, HandsOK, Apart, KindOK
  <2>3. UNCHANGED <<Adding, DirsRead, Uncounted>>
    BY <2>1 DEF Adding, DirsRead, Uncounted
  <2>4. IsFiniteSet(printed')
    BY <2>1, FS_AddElement DEF StatsInv
  <2>5. \A k : IsFiniteSet(PrintedOf(k)) /\ Cardinality(PrintedOf(k)) \in Nat
    BY FS_Subset, FS_CardinalityType DEF StatsInv, PrintedOf
  <2>6. CASE job[w].isFifo
    <3>1. /\ PrintedOf("fifo")' = PrintedOf("fifo") \cup {job[w].name}
          /\ PrintedOf("regular")' = PrintedOf("regular")
          /\ job[w].name \notin PrintedOf("fifo")
      BY <2>1, <2>2, <2>6 DEF PrintedOf, KindOf
    <3>2. /\ PastFifo' = PastFifo \ {w} /\ w \in PastFifo
          /\ UNCHANGED PastRegular
      BY <2>1, <2>6 DEF PastFifo, PastRegular
    <3>3. Cardinality(PrintedOf("fifo")') = Cardinality(PrintedOf("fifo")) + 1
      BY <2>5, <3>1, OneMore
    <3>4. /\ Cardinality(PastFifo) = Cardinality(PastFifo') + 1
          /\ Cardinality(PastFifo') \in Nat
      BY <3>2, StatsFinite, OneLess
    <3>5. numFifo' = Cardinality(PrintedOf("fifo")') + Cardinality(PastFifo')
      BY <2>1, <2>5, <3>3, <3>4 DEF StatsInv, statVars
    <3> QED BY <1>c, <2>1, <2>3, <2>4, <3>1, <3>2, <3>5 DEF StatsInv, statVars
  <2>7. CASE ~job[w].isFifo
    <3>1. /\ PrintedOf("regular")' = PrintedOf("regular") \cup {job[w].name}
          /\ PrintedOf("fifo")' = PrintedOf("fifo")
          /\ job[w].name \notin PrintedOf("regular")
      BY <2>1, <2>2, <2>7 DEF PrintedOf, KindOf
    <3>2. /\ PastRegular' = PastRegular \ {w} /\ w \in PastRegular
          /\ UNCHANGED PastFifo
      BY <2>1, <2>7 DEF PastFifo, PastRegular
    <3>3. Cardinality(PrintedOf("regular")')
            = Cardinality(PrintedOf("regular")) + 1
      BY <2>5, <3>1, OneMore
    <3>4. /\ Cardinality(PastRegular) = Cardinality(PastRegular') + 1
          /\ Cardinality(PastRegular') \in Nat
      BY <3>2, StatsFinite, OneLess
    <3>5. numRegular' = Cardinality(PrintedOf("regular")')
                          + Cardinality(PastRegular')
      BY <2>1, <2>5, <3>3, <3>4 DEF StatsInv, statVars
    <3> QED BY <1>c, <2>1, <2>3, <2>4, <3>1, <3>2, <3>5 DEF StatsInv, statVars
  <2> QED BY <2>6, <2>7
<1>9. ASSUME NEW w \in Workers,
             \/ TakeWait(w) \/ Leave(w) \/ Take(w) \/ Read(w) \/ ReadEnds(w)
             \/ WriteFails(w) \/ CloseJob(w)
      PROVE  StatsInv'
  <2>1. /\ UNCHANGED <<printed, content, unread, statVars, skipped>>
        /\ pc'[Manager] = pc[Manager]
        /\ \A v \in Workers \ {w} : pc'[v] = pc[v] /\ job'[v] = job[v]
    BY <1>0, <1>9
       DEF TakeWait, Leave, Take, Read, ReadEnds, WriteFails, CloseJob,
           walkVars, workVars, fileVars, endVars
  <2>2. \/ pc'[w] = pc[w] /\ job'[w] = job[w]
        \/ {pc[w], pc'[w]} \cap {"close", "print", "addBytes"} = {}
        \/ pc[w] = "close" /\ pc'[w] = "print" /\ job'[w] = job[w]
    BY <1>0, <1>9
       DEF TakeWait, Leave, Take, Read, ReadEnds, WriteFails, CloseJob,
           workVars
  <2>3. pc[w] = "close" => ~job[w].isFifo
    BY <1>0 DEF KindOK, Copying
  <2> QED BY <1>1, <2>1, <2>2, <2>3
<1>10. CASE OpenSrc \/ OpenDest \/ MakeFifo \/ OpenDirFails
  BY <1>0, <1>1, <1>10
     DEF OpenSrc, OpenDest, MakeFifo, OpenDirFails, Skip, Return, workVars,
         fileVars, endVars
<1>11. CASE OpenDir \/ Push \/ CloseDir \/ SetDone \/ PushWait
  BY <1>0, <1>1, <1>11
     DEF OpenDir, Push, CloseDir, SetDone, PushWait, Return, walkVars,
         workVars, fileVars, endVars
<1>12. CASE \/ \E t \in Threads : Lock(t)
            \/ Report \/ (\E t \in SigThreads : Sigint(t))
            \/ HandlerSetDone \/ HandlerCloseAll \/ HandlerExit
            \/ SpuriousWakeup \/ UNCHANGED vars
  BY <1>0, <1>1, <1>12
     DEF Lock, Report, Sigint, HandlerSetDone, HandlerCloseAll, HandlerExit,
         SpuriousWakeup, walkVars, workVars, fileVars, endVars, vars
<1> QED
  BY <1>2, <1>3, <1>4, <1>5, <1>6, <1>7, <1>8, <1>9, <1>10, <1>11, <1>12
     DEF Operation

(* The statistics main prints count every file, FIFO, directory and whole   *)
(* block written exactly once, however the threads interleave; part of a    *)
(* block that a short write left is not counted.                            *)
THEOREM StatisticsExactHolds == Spec => []StatisticsExact
<1>1. CopierInv /\ StatsInv /\ [Next]_vars => StatsInv'
  BY NextIsOperation, StatsPreserved
<1>2. Spec => []StatsInv
  BY InitStats, <1>1, CopierInvariant, PTL DEF Spec
<1> QED BY <1>2, StatsAreExact, PTL
-----------------------------------------------------------------------------
(* No regular file and no FIFO is dropped: one that was read from its       *)
(* directory is in some hand, printed, or skipped with a message.           *)
Jobs == {e \in Entries : Kind[e] \in {"regular", "fifo"}}
Somewhere(e) ==
  \/ e \in unread \cup skipped \cup printed \/ e = item.name
  \/ IsQueued(e) \/ IsTaken(e)
NoneDropped == \A e \in Jobs : Somewhere(e)

LEMMA NoneDroppedPreserved ==
  ASSUME CopierInv, NoneDropped, Operation
  PROVE  NoneDropped'
<1> USE DEF At, Holds, Runs, Goto
<1>0. /\ pc \in [Threads -> Labels] /\ Manager \in Threads
      /\ item \in FilePairs /\ job \in [Workers -> FilePairs]
      /\ buffer \in [Slots -> FilePairs] /\ HandsOK
      /\ NoOne \notin Jobs
  BY TreeAssumption
     DEF CopierInv, TypeOK, ControlOK, WalkOK, QueueOK, WorkOK, Threads, Jobs
<1>1. ASSUME UNCHANGED <<buffer, bufferCount, job, unread, printed>>,
             skipped \subseteq skipped',
             \/ item'.name = item.name
             \/ item.name \notin Jobs \/ item.name \in skipped'
      PROVE  NoneDropped'
  BY <1>1 DEF NoneDropped, Somewhere, IsQueued, IsTaken, Pending
<1>2. ASSUME NEW e \in Entries, ReadEntry(e) PROVE NoneDropped'
  <2>1. /\ UNCHANGED <<buffer, bufferCount, job, printed>>
        /\ unread' = unread \ {e} /\ skipped \subseteq skipped'
        /\ pc[Manager] \notin Carrying
        /\ \/ e \in skipped' /\ UNCHANGED item
           \/ item'.name = e
           \/ e \notin Jobs /\ UNCHANGED item
    BY <1>2 DEF ReadEntry, Skip, FilePair, queueVars, workVars, endVars,
                Carrying, Jobs
  <2>2. item.name \notin Jobs
    BY <1>0, <2>1 DEF HandsOK, Jobs
  <2> QED
    BY <2>1, <2>2 DEF NoneDropped, Somewhere, IsQueued, IsTaken, Pending
<1>3. CASE OpenSrc \/ OpenDest \/ MakeFifo
  BY <1>1, <1>3
     DEF OpenSrc, OpenDest, MakeFifo, Skip, FilePair, queueVars, workVars,
         endVars
<1>4. CASE Push
  <2>1. /\ bufferCount \in Slots /\ bufferCount' = bufferCount + 1
        /\ bufferCount \in Nat
    BY <1>4, SizeAssumption
       DEF Push, CopierInv, TypeOK, QueueOK, Slots, Full
  <2>2. /\ UNCHANGED <<job, unread, skipped, printed>>
        /\ buffer' = [buffer EXCEPT ![bufferCount] = Filled(buffer[bufferCount])]
    BY <1>4 DEF Push, workVars, endVars
  <2>3. Pending' = Pending \cup {bufferCount} /\ bufferCount \notin Pending
    BY <2>1 DEF Pending
  <2>4. /\ buffer'[bufferCount].name = item.name
        /\ \A i \in Pending : buffer'[i] = buffer[i]
    <3>1. Pending \subseteq Slots
      BY <2>1, SizeAssumption DEF Pending, Slots
    <3>2. buffer'[bufferCount].name = item.name
      BY <1>0, <2>1, <2>2 DEF Filled, FilePair
    <3> QED BY <1>0, <2>2, <2>3, <3>1, <3>2
  <2> QED BY <2>2, <2>3, <2>4 DEF NoneDropped, Somewhere, IsQueued, IsTaken
<1>5. ASSUME NEW w \in Workers, Take(w) PROVE NoneDropped'
  <2>1. /\ bufferCount - 1 \in Pending /\ Pending = Pending' \cup {bufferCount - 1}
    BY <1>5, SizeAssumption DEF Take, CopierInv, TypeOK, QueueOK, Pending
  <2>2. /\ UNCHANGED <<buffer, item, unread, skipped, printed>>
        /\ job' = [job EXCEPT ![w] = buffer[bufferCount - 1]]
        /\ pc[w] = "take"
    BY <1>5 DEF Take, Top, walkVars, endVars
  <2>3. job[w].name = NoOne /\ job'[w] = buffer[bufferCount - 1]
        /\ \A v \in Workers \ {w} : job'[v] = job[v]
    BY <1>0, <2>2 DEF HandsOK
  <2> QED
    BY <1>0, <2>1, <2>2, <2>3 DEF NoneDropped, Somewhere, IsQueued, IsTaken
<1>6. ASSUME NEW w \in Workers, PrintCopied(w) PROVE NoneDropped'
  <2>1. /\ UNCHANGED <<buffer, bufferCount, item, unread, skipped>>
        /\ printed' = printed \cup {job[w].name}
        /\ \A v \in Workers \ {w} : job'[v] = job[v]
    BY <1>0, <1>6 DEF PrintCopied, queueVars, walkVars
  <2> QED
    BY <2>1 DEF NoneDropped, Somewhere, IsQueued, IsTaken, Pending
<1>7. ASSUME NEW w \in Workers,
             \/ TakeWait(w) \/ Leave(w) \/ Read(w) \/ ReadEnds(w) \/ Write(w)
             \/ WriteFails(w) \/ AddBytes(w) \/ AddRegular(w) \/ CloseJob(w)
             \/ AddFifo(w)
      PROVE  NoneDropped'
  BY <1>1, <1>7
     DEF TakeWait, Leave, Read, ReadEnds, Write, WriteFails, AddBytes,
         AddRegular, CloseJob, AddFifo, queueVars, walkVars, workVars, endVars
<1>8. CASE \/ OpenDir \/ OpenDirFails \/ CountDir \/ CloseDir \/ SetDone
           \/ \E t \in Threads : Lock(t)
           \/ PushWait \/ Report \/ (\E t \in SigThreads : Sigint(t))
           \/ HandlerSetDone \/ HandlerCloseAll \/ HandlerExit
           \/ SpuriousWakeup \/ UNCHANGED vars
  BY <1>1, <1>8
     DEF OpenDir, OpenDirFails, CountDir, CloseDir, SetDone, Lock, PushWait,
         Report, Sigint, HandlerSetDone, HandlerCloseAll, HandlerExit,
         SpuriousWakeup, queueVars, walkVars, workVars, endVars, vars
<1> QED
  BY <1>2, <1>3, <1>4, <1>5, <1>6, <1>7, <1>8 DEF Operation

(* Unless read or write fail, a worker leaves its loop at the end of the    *)
(* file, which it has copied.                                               *)
ReliableIO == MayFail("read") = FALSE /\ MayFail("write") = FALSE
Through == {"addRegular", "close", "print"}
Complete ==
  /\ \A e \in Entries : offset[e] <= Size[e]
  /\ \A w \in Workers : pc[w] \in Through /\ ~job[w].isFifo =>
                          Len(content[job[w].name]) = Size[job[w].name]
  /\ \A e \in printed : Kind[e] = "regular" => Len(content[e]) = Size[e]
CompleteUnlessExit == pc[Handler] # "exit" => Complete

LEMMA InitComplete == Init => CompleteUnlessExit /\ NoneDropped
BY TreeAssumption, ThreadsDistinct
   DEF Init, CompleteUnlessExit, Complete, Through, Threads, NoneDropped,
       Somewhere, Jobs

LEMMA CompletePreserved ==
  ASSUME CopierInv, CompleteUnlessExit, ReliableIO, Operation
  PROVE  CompleteUnlessExit'
<1> USE ThreadsDistinct DEF At, Holds, Runs, Goto
<1>0. /\ pc \in [Threads -> Labels] /\ Workers \subseteq Threads
      /\ Handler \notin Workers /\ Manager \notin Workers
      /\ job \in [Workers -> FilePairs]
      /\ offset \in [Entries -> Nat] /\ Size \in [Entries -> Nat]
      /\ content \in [Entries -> Seq(Names \X Nat)]
      /\ HandsOK /\ Apart /\ KindOK
  BY TreeAssumption
     DEF CopierInv, TypeOK, ControlOK, FileOK, WorkOK, Threads
<1> SUFFICES ASSUME pc'[Handler] # "exit" PROVE Complete'
  BY DEF CompleteUnlessExit
<1>1. Owned /\ ContentOK /\ Complete
  BY ExitStays
     DEF CopierInv, OwnedUnlessExit, ContentUnlessExit, CompleteUnlessExit
<1>2. ASSUME NEW w \in Workers, pc[w] \in Copying
      PROVE  /\ job[w].name \in Entries
             /\ FileAt(job[w].srcFD, "src") = job[w].name
             /\ FileAt(job[w].destFD, "dest") = job[w].name
             /\ \A v \in Workers \ {w} : job[v].name # job[w].name
             /\ job[w].name \notin printed
  <2>1. job[w].name \in Entries
    BY <1>0, <1>2, PairsTyped DEF HandsOK, Copying, Names
  <2>2. OwnEnds(job[w])
    BY <1>1, <1>2 DEF Owned
  <2> QED BY <1>0, <2>1, <2>2, TreeAssumption DEF OwnEnds, FileAt, Apart
<1>3. ASSUME UNCHANGED <<content, printed>>,
             \A e \in Entries : offset'[e] <= Size[e],
             \A w \in Workers : pc'[w] \in Through =>
               /\ job'[w] = job[w]
               /\ \/ pc[w] \in Through \/ job[w].isFifo
                  \/ Len(content[job[w].name]) = Size[job[w].name]
      PROVE  Complete'
  BY <1>1, <1>3 DEF Complete
<1>4. ASSUME NEW w \in Workers, Read(w) PROVE Complete'
  <2>1. /\ UNCHANGED <<content, printed, job>> /\ pc'[w] = "write"
        /\ pc[w] = "read" /\ \A v \in Workers \ {w} : pc'[v] = pc[v]
    BY <1>0, <1>4 DEF Read, endVars
  <2>2. /\ job[w].name \in Entries
        /\ offset' = [offset EXCEPT ![job[w].name] = offset[job[w].name] + 1]
        /\ offset[job[w].name] < Size[job[w].name]
    BY <1>2, <1>4, <2>1 DEF Read, Readable, Copying
  <2>3. \A e \in Entries : offset'[e] <= Size[e]
    BY <1>0, <1>1, <2>2 DEF Complete
  <2> QED BY <1>3, <2>1, <2>3 DEF Through
<1>5. ASSUME NEW w \in Workers, ReadEnds(w) PROVE Complete'
  <2>1. /\ UNCHANGED <<content, printed, job, offset>>
        /\ pc[w] = "read" /\ ~Readable(w)
        /\ \A v \in Workers \ {w} : pc'[v] = pc[v]
    BY <1>0, <1>5 DEF ReadEnds, ReliableIO, workVars, fileVars, endVars
  <2>2. job[w].name \in Entries /\ ~(offset[job[w].name] < Size[job[w].name])
    BY <1>2, <2>1 DEF Readable, Copying
  <2>3. offset[job[w].name] = Size[job[w].name]
    BY <1>0, <1>1, <2>2 DEF Complete
  <2>4. Len(content[job[w].name]) = Size[job[w].name]
    BY <1>1, <2>1, <2>3 DEF ContentOK, CopiedSoFar
  <2> QED BY <1>1, <1>3, <2>1, <2>4 DEF Complete
<1>6. ASSUME NEW w \in Workers, Write(w) PROVE Complete'
  <2>1. /\ UNCHANGED <<offset, printed, job>>
        /\ pc[w] = "write" /\ pc'[w] = "addBytes"
        /\ \A v \in Workers \ {w} : pc'[v] = pc[v]
    BY <1>0, <1>6 DEF Write, workVars, endVars
  <2>2. /\ job[w].name \in Entries
        /\ \A v \in Workers \ {w} : job[v].name # job[w].name
        /\ job[w].name \notin printed
        /\ \A e \in Entries \ {job[w].name} : content'[e] = content[e]
    BY <1>0, <1>2, <1>6, <2>1 DEF Write, Copying
  <2>3. \A v \in Workers : pc[v] \in Through => job[v].name \in Entries
    BY <1>0, PairsTyped DEF HandsOK, Through, Names
  <2>4. \A v \in Workers : pc'[v] \in Through =>
                             v # w /\ pc[v] \in Through
                             /\ content'[job[v].name] = content[job[v].name]
    BY <2>1, <2>2, <2>3 DEF Through
  <2>5. \A e \in printed : content'[e] = content[e]
    BY <1>0, <2>2 DEF HandsOK
  <2> QED BY <1>1, <2>1, <2>4, <2>5 DEF Complete
<1>7. ASSUME NEW w \in Workers, WriteFails(w) PROVE Complete'
  BY <1>2, <1>7 DEF WriteFails, ReliableIO, Copying
<1>8. ASSUME NEW w \in Workers, Take(w) PROVE Complete'
  <2>1. /\ UNCHANGED <<content, printed, offset>> /\ pc'[w] \notin Through
        /\ \A v \in Workers \ {w} : pc'[v] = pc[v] /\ job'[v] = job[v]
    BY <1>0, <1>8 DEF Take, Through, fileVars, endVars
  <2> QED BY <1>1, <1>3, <2>1 DEF Complete
<1>9. ASSUME NEW w \in Workers, PrintCopied(w) PROVE Complete'
  <2>1. /\ UNCHANGED <<content, offset>>
        /\ printed' = printed \cup {job[w].name}
        /\ pc[w] = "print" /\ pc'[w] = "take"
        /\ \A v \in Workers \ {w} : pc'[v] = pc[v] /\ job'[v] = job[v]
    BY <1>0, <1>9 DEF PrintCopied, fileVars
  <2>2. Kind[job[w].name] = KindOf(job[w])
    BY <1>0, <2>1 DEF HandsOK, KindOK
  <2>3. Kind[job[w].name] = "regular" =>
          Len(content[job[w].name]) = Size[job[w].name]
    BY <1>1, <2>1, <2>2 DEF Complete, Through, KindOf
  <2> QED BY <1>1, <2>1, <2>3 DEF Complete, Through
<1>10. ASSUME NEW w \in Workers,
              \/ TakeWait(w) \/ Leave(w) \/ AddBytes(w) \/ AddRegular(w)
              \/ CloseJob(w) \/ AddFifo(w)
       PROVE  Complete'
  <2>1. /\ UNCHANGED <<content, printed, offset, job>>
        /\ \A v \in Workers : /\ pc'[v] \in Through
                              => pc[v] \in Through \/ pc[v] = "addFifo"
    BY <1>0, <1>10
       DEF TakeWait, Leave, AddBytes, AddRegular, CloseJob, AddFifo, Through,
           workVars, fileVars, endVars
  <2>2. \A v \in Workers : pc[v] = "addFifo" => job[v].isFifo
    BY <1>0 DEF KindOK
  <2> QED BY <1>1, <1>3, <2>1, <2>2 DEF Complete
<1>11. ASSUME UNCHANGED <<content, printed, offset, job>>,
              \A v \in Workers : pc'[v] = pc[v]
       PROVE  Complete'
  BY <1>1, <1>11 DEF Complete
<1>12. CASE OpenSrc \/ OpenDest \/ MakeFifo \/ \E e \in Entries : ReadEntry(e)
  BY <1>0, <1>11, <1>12
     DEF OpenSrc, OpenDest, MakeFifo, ReadEntry, Skip, workVars, fileVars,
         endVars, Threads
<1>13. CASE \/ OpenDir \/ OpenDirFails \/ Push \/ CountDir \/ CloseDir
            \/ SetDone \/ PushWait
  BY <1>0, <1>11, <1>13
     DEF OpenDir, OpenDirFails, Push, CountDir, CloseDir, SetDone, PushWait,
         Return, workVars, fileVars, endVars, Threads
<1>14. CASE \/ \E t \in Threads : Lock(t)
            \/ Report \/ (\E t \in SigThreads : Sigint(t))
            \/ HandlerSetDone \/ HandlerCloseAll \/ HandlerExit
            \/ SpuriousWakeup \/ UNCHANGED vars
  BY <1>0, <1>11, <1>14
     DEF Lock, Report, Sigint, HandlerSetDone, HandlerCloseAll, HandlerExit,
         SpuriousWakeup, workVars, fileVars, endVars, vars, Threads
<1> QED
  BY <1>4, <1>5, <1>6, <1>7, <1>8, <1>9, <1>10, <1>12, <1>13, <1>14
     DEF Operation

(* "All files copied successfully": main says so only when every regular    *)
(* file and FIFO was copied, whole and in order, unless an error message    *)
(* was printed for an entry or a read or write failed; those the code does  *)
(* not hold against its report.                                             *)
THEOREM AllCopiedHolds ==
  ASSUME {"read", "write"} \cap Faults = {}
  PROVE  Spec => [](skipped = {} => AllCopied)
<1>1. ReliableIO
  BY DEF ReliableIO, MayFail
<1>2. /\ CopierInv /\ NoneDropped /\ CompleteUnlessExit /\ [Next]_vars
      => NoneDropped' /\ CompleteUnlessExit'
  BY <1>1, NextIsOperation, NoneDroppedPreserved, CompletePreserved
<1>3. Spec => [](CopierInv /\ NoneDropped /\ CompleteUnlessExit)
  BY InitComplete, <1>2, CopierInvariant, PTL DEF Spec
<1>4. CopierInv /\ NoneDropped /\ CompleteUnlessExit =>
        (skipped = {} => AllCopied)
  <2> SUFFICES ASSUME CopierInv, NoneDropped, CompleteUnlessExit,
                      skipped = {}, status = "reported"
               PROVE  /\ Jobs \subseteq printed
                      /\ \A e \in Entries : Kind[e] = "regular" =>
                                              content[e] = Whole(e)
    BY DEF AllCopied, Jobs
  <2>1. /\ AllQuiet /\ Pending = {} /\ pc[Handler] = "idle"
        /\ \A w \in Workers : job[w].name = NoOne
    BY DEF CopierInv, QuietReport, AllQuiet, Pending, HandlerOK, HandsOK
  <2>2. unread = {}
    <3>1. unread \subseteq Entries /\ \A e \in unread : Parent[e] \in unread
      BY <2>1 DEF CopierInv, TypeOK, WalkOK, WalkInv, Walking, AllQuiet
    <3> QED BY <3>1, TreeAcyclic
  <2>3. item.name \notin Entries
    BY <2>1 DEF CopierInv, HandsOK, AllQuiet, Carrying
  <2>4. Jobs \subseteq printed
    BY <2>1, <2>2, <2>3, TreeAssumption
       DEF NoneDropped, Somewhere, Jobs, IsQueued, IsTaken
  <2>5. ASSUME NEW e \in Entries, Kind[e] = "regular"
        PROVE  content[e] = Whole(e)
    <3>1. Len(content[e]) = Size[e]
      BY <2>1, <2>4, <2>5 DEF CompleteUnlessExit, Complete, Jobs
    <3>2. \A i \in 1 .. Len(content[e]) : content[e][i] = <<e, i>>
      BY <2>1 DEF CopierInv, ContentUnlessExit, ContentOK
    <3>3. content[e] \in Seq(Names \X Nat)
      BY DEF CopierInv, TypeOK, FileOK
    <3>4. content[e] \in [1 .. Len(content[e]) -> Names \X Nat]
      BY <3>3, LenProperties
    <3> QED BY <3>1, <3>2, <3>4 DEF Whole
  <2> QED BY <2>4, <2>5
<1> QED BY <1>3, <1>4, PTL
-----------------------------------------------------------------------------
(* No wakeup is lost, by counting who is on the way to the buffer.          *)
LEMMA InitWakeups == Init => NoWakeupLost
BY DEF Init, NoWakeupLost

LEMMA WakeupsPreserved ==
  ASSUME TypeOK, NoWakeupLost, Operation
  PROVE  NoWakeupLost'
<1> USE ThreadsDistinct, EnvironmentAssumption
    DEF At, Holds, Runs, Goto, Threads
<1>0. /\ pc \in [Threads -> Labels] /\ bufferCount \in 0 .. BufferSize
      /\ notFull \subseteq {Manager} /\ notEmpty \subseteq Workers
      /\ mutex \notin notFull \cup notEmpty \/ mutex = NoOne
      /\ \A t \in notEmpty : pc[t] = "take"
      /\ BufferSize \in Nat \ {0}
  BY SizeAssumption DEF TypeOK, ControlOK, QueueOK
<1>1. IsFiniteSet(OnTheWay) /\ Cardinality(OnTheWay) \in Nat
  BY WorkersFinite, FS_Subset, FS_CardinalityType DEF OnTheWay
<1>2. ASSUME notFull' \subseteq notFull, notEmpty' \subseteq notEmpty,
             bufferCount' = bufferCount, done' = done \/ notEmpty' = {},
             \A w \in Workers : pc[w] = "take" => pc'[w] = "take"
      PROVE  NoWakeupLost'
  <2>1. OnTheWay \subseteq OnTheWay' /\ OnTheWay' \subseteq Workers
    BY <1>2 DEF OnTheWay
  <2>2. Cardinality(OnTheWay) <= Cardinality(OnTheWay')
    BY <2>1, WorkersFinite, FS_Subset
  <2>3. Cardinality(OnTheWay') \in Nat
    BY <2>1, WorkersFinite, FS_Subset, FS_CardinalityType
  <2>4. /\ notFull' # {} => Full'
        /\ done' => notEmpty' = {}
    BY <1>2 DEF NoWakeupLost, Full
  <2>5. notEmpty' # {} => bufferCount <= Cardinality(OnTheWay)
    BY <1>2 DEF NoWakeupLost
  <2> QED BY <1>0, <1>1, <1>2, <2>2, <2>3, <2>4, <2>5 DEF NoWakeupLost
<1>3. CASE \/ \E t \in Threads : Lock(t)
           \/ OpenDir \/ OpenDirFails \/ (\E e \in Entries : ReadEntry(e))
           \/ OpenSrc \/ OpenDest \/ MakeFifo \/ CountDir \/ CloseDir
           \/ SetDone
  BY <1>3, <1>0, <1>2
     DEF Lock, OpenDir, OpenDirFails, Return, ReadEntry, OpenSrc, OpenDest,
         MakeFifo, Skip, CountDir, CloseDir, SetDone, Broadcast, queueVars,
         syncVars
<1>4. CASE PushWait
  <2>1. /\ notEmpty' = notEmpty /\ bufferCount' = bufferCount /\ done' = done
        /\ OnTheWay' = OnTheWay /\ Full'
    BY <1>4 DEF PushWait, queueVars, OnTheWay, Full
  <2> QED BY <2>1 DEF NoWakeupLost
<1>5. CASE Push
  <2>1. /\ notFull' = notFull /\ notFull = {} /\ done' = done
        /\ bufferCount' = bufferCount + 1
        /\ \A w \in Workers : pc'[w] = pc[w]
    BY <1>5, <1>0 DEF Push
  <2>2. CASE notEmpty = {}
    <3>1. notEmpty' = {}
      BY <1>5, <2>2 DEF Push, Signalled
    <3> QED BY <2>1, <3>1 DEF NoWakeupLost
  <2>3. CASE notEmpty # {}
    <3>1. PICK t \in notEmpty : notEmpty' = notEmpty \ {t}
      BY <1>5, <2>3 DEF Push, Signalled
    <3>2. OnTheWay' = OnTheWay \cup {t} /\ t \notin OnTheWay
      BY <1>0, <2>1, <3>1 DEF OnTheWay
    <3>3. Cardinality(OnTheWay') = Cardinality(OnTheWay) + 1
      BY <1>1, <3>2, FS_AddElement
    <3>4. bufferCount <= Cardinality(OnTheWay) /\ ~done
      BY <2>3 DEF NoWakeupLost
    <3> QED BY <1>0, <1>1, <2>1, <3>3, <3>4 DEF NoWakeupLost
  <2> QED BY <2>2, <2>3
<1>6. ASSUME NEW w \in Workers,
             \/ Read(w) \/ ReadEnds(w) \/ Write(w) \/ WriteFails(w)
             \/ AddBytes(w) \/ AddRegular(w) \/ CloseJob(w) \/ AddFifo(w)
             \/ PrintCopied(w)
      PROVE  NoWakeupLost'
  BY <1>6, <1>0, <1>2
     DEF Read, ReadEnds, Write, WriteFails, AddBytes, AddRegular, CloseJob,
         AddFifo, PrintCopied, queueVars, syncVars
<1>7. ASSUME NEW w \in Workers, TakeWait(w) PROVE NoWakeupLost'
  <2>1. /\ notFull' = notFull /\ done' = done /\ ~done
        /\ bufferCount' = bufferCount /\ bufferCount = 0
    BY <1>7 DEF TakeWait, queueVars
  <2>2. Cardinality(OnTheWay') \in Nat
    <3>1. OnTheWay' \subseteq Workers
      BY DEF OnTheWay
    <3> QED BY <3>1, WorkersFinite, FS_Subset, FS_CardinalityType
  <2> QED BY <2>1, <2>2 DEF NoWakeupLost, Full
<1>8. ASSUME NEW w \in Workers, Take(w) PROVE NoWakeupLost'
  <2>1. /\ notEmpty' = notEmpty /\ done' = done /\ w \in OnTheWay
        /\ bufferCount' = bufferCount - 1 /\ notFull' = {}
    BY <1>8, <1>0, TreeAssumption DEF Take, Signalled, OnTheWay
  <2>2. OnTheWay' = OnTheWay \ {w}
    BY <1>8, <1>0, <2>1 DEF Take, OnTheWay
  <2>3. Cardinality(OnTheWay') = Cardinality(OnTheWay) - 1
    BY <1>1, <2>1, <2>2, FS_RemoveElement
  <2> QED BY <1>0, <1>1, <2>1, <2>3 DEF NoWakeupLost
<1>9. ASSUME NEW w \in Workers, Leave(w) PROVE NoWakeupLost'
  BY <1>9 DEF Leave, MayLeave, NoWakeupLost, Full, queueVars
<1>10. CASE \/ Report \/ (\E t \in SigThreads : Sigint(t)) \/ HandlerSetDone
            \/ HandlerCloseAll \/ HandlerExit \/ SpuriousWakeup
            \/ UNCHANGED vars
  BY <1>10, <1>0, <1>2
     DEF Report, Sigint, HandlerSetDone, HandlerCloseAll, HandlerExit,
         SpuriousWakeup, Broadcast, queueVars, syncVars, vars
<1> QED
  BY <1>3, <1>4, <1>5, <1>6, <1>7, <1>8, <1>9, <1>10 DEF Operation

(* Nobody sleeps on a file: the manager waits only while the buffer is      *)
(* full, no worker once done is set, and while one does, as many others as  *)
(* there are files are on their way to them, for any number of workers and  *)
(* any buffer, also when SIGINT comes or waits end for nothing.             *)
THEOREM NoWakeupLostHolds == Spec => []NoWakeupLost
<1>1. TypeOK /\ NoWakeupLost /\ [Next]_vars => NoWakeupLost'
  BY NextIsOperation, WakeupsPreserved
<1> QED BY <1>1, InitWakeups, TypeCorrect, PTL DEF Spec

(* When not everybody has ended, somebody who has not is not asleep.        *)
EndSetsDone == pc[Manager] = "ended" => done
LEMMA EndPreservesDone ==
  ASSUME TypeOK, EndSetsDone, Operation
  PROVE  EndSetsDone'
<1> USE ThreadsDistinct DEF At, Holds, Runs, Goto, Threads, EndSetsDone
<1>0. pc \in [Threads -> Labels]
  BY DEF TypeOK, ControlOK
<1>1. CASE \/ \E t \in Threads : Lock(t)
           \/ OpenDir \/ OpenDirFails \/ (\E e \in Entries : ReadEntry(e))
           \/ OpenSrc \/ OpenDest \/ MakeFifo \/ PushWait \/ Push
           \/ CountDir \/ CloseDir \/ SetDone
  BY <1>0, <1>1
     DEF Lock, OpenDir, OpenDirFails, Return, ReadEntry, OpenSrc, OpenDest,
         MakeFifo, Skip, PushWait, Push, CountDir, CloseDir, SetDone,
         queueVars
<1>2. ASSUME NEW w \in Workers,
             \/ TakeWait(w) \/ Leave(w) \/ Take(w) \/ Read(w) \/ ReadEnds(w)
             \/ Write(w) \/ WriteFails(w) \/ AddBytes(w) \/ AddRegular(w)
             \/ CloseJob(w) \/ AddFifo(w) \/ PrintCopied(w)
      PROVE  EndSetsDone'
  BY <1>0, <1>2
     DEF TakeWait, Leave, Take, Read, ReadEnds, Write, WriteFails, AddBytes,
         AddRegular, CloseJob, AddFifo, PrintCopied, queueVars
<1>3. CASE \/ Report \/ (\E t \in SigThreads : Sigint(t)) \/ HandlerSetDone
           \/ HandlerCloseAll \/ HandlerExit \/ SpuriousWakeup
           \/ UNCHANGED vars
  BY <1>0, <1>3
     DEF Report, Sigint, HandlerSetDone, HandlerCloseAll, HandlerExit,
         SpuriousWakeup, queueVars, vars
<1> QED BY <1>1, <1>2, <1>3 DEF Operation

(* Without SIGINT manager and workers never all sleep: until each of them   *)
(* has ended, one that has not is in neither wait set.  The two waits are   *)
(* free of deadlock, for any number of workers and any buffer.              *)
Sleeping == notFull \cup notEmpty
SomebodyAwake ==
  interrupted = NoOne /\ (\E t \in Workers \cup {Manager} : pc[t] # "ended")
    => \E t \in (Workers \cup {Manager}) \ Sleeping : pc[t] # "ended"
THEOREM SomebodyAwakeHolds == Spec => []SomebodyAwake
<1>1. Init => EndSetsDone
  BY ThreadsDistinct DEF Init, EndSetsDone, Threads
<1>2. TypeOK /\ EndSetsDone /\ [Next]_vars => EndSetsDone'
  BY NextIsOperation, EndPreservesDone
<1>3. TypeOK /\ EndSetsDone /\ NoWakeupLost /\ DrainedBeforeLeaving
      => SomebodyAwake
  <2> SUFFICES ASSUME TypeOK, EndSetsDone, NoWakeupLost,
                      DrainedBeforeLeaving, interrupted = NoOne,
                      NEW t \in Workers \cup {Manager}, pc[t] # "ended"
               PROVE  \E u \in (Workers \cup {Manager}) \ Sleeping :
                        pc[u] # "ended"
    BY DEF SomebodyAwake
  <2>1. /\ notFull \subseteq {Manager} /\ notEmpty \subseteq Workers
        /\ Manager \notin Workers /\ bufferCount \in 0 .. BufferSize
        /\ BufferSize \in Nat \ {0}
    BY ThreadsDistinct, SizeAssumption DEF TypeOK, ControlOK, QueueOK
  <2>2. CASE pc[Manager] = "ended"
    <3>1. notEmpty = {} /\ t # Manager
      BY <2>2 DEF EndSetsDone, NoWakeupLost
    <3> QED BY <2>1, <3>1 DEF Sleeping
  <2>3. CASE pc[Manager] # "ended" /\ Manager \notin notFull
    BY <2>1, <2>3 DEF Sleeping
  <2>4. CASE pc[Manager] # "ended" /\ Manager \in notFull
    <3>1. bufferCount > 0
      BY <2>1, <2>4 DEF NoWakeupLost, Full
    <3>2. \A w \in Workers : pc[w] # "ended"
      BY <2>4 DEF DrainedBeforeLeaving
    <3>3. CASE notEmpty = {}
      BY <2>1, <3>2, <3>3, WorkersFinite DEF Sleeping
    <3>4. CASE notEmpty # {}
      <4>1. Cardinality(OnTheWay) # 0
        BY <2>1, <3>1, <3>4 DEF NoWakeupLost
      <4>2. OnTheWay # {}
        BY <4>1, FS_EmptySet
      <4> QED BY <2>1, <3>2, <4>2 DEF OnTheWay, Sleeping
    <3> QED BY <3>3, <3>4
  <2> QED BY <2>2, <2>3, <2>4
<1> QED BY <1>1, <1>2, <1>3, NoWakeupLostHolds, DrainedHolds, TypeCorrect,
           PTL DEF Spec
=============================================================================
