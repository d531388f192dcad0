-------------------------------- MODULE MWCp --------------------------------
(***************************************************************************)
(* The multi-threaded directory copier of HW4: one manager thread walks    *)
(* the source tree and pushes open files on a bounded LIFO buffer, worker  *)
(* threads pop and copy them, main joins all of them and prints the        *)
(* statistics, and a SIGINT handler may run on any thread.                 *)
(*                                                                         *)
(* A thread is in a critical section when it holds mutex; pc says which    *)
(* one it is in, or is about to enter.  A thread in pthread_cond_wait is a *)
(* member of the wait set of the condition variable.  pthread_mutex_lock   *)
(* is a step of its own; the body of a critical section, up to its unlock, *)
(* is one step, because no other thread can read what it writes.           *)
(***************************************************************************)
EXTENDS Naturals, Sequences, FiniteSets

CONSTANTS
  Workers,        \* worker threads (argv[2])
  Manager, Main,  \* the manager thread and the main thread
  Handler,        \* the activation of SIGINTHandler
  NoOne,          \* no thread, no entry
  Entries,        \* what readdir finds under the source directory
  Root,           \* the source directory itself
  Kind,           \* Kind[e]: what stat says of e
  Parent,         \* Parent[e]: the directory e is in
  Size,           \* Size[e]: read()s that return data before end of file
  BufferSize,     \* argv[1]
  MaxBufferSize,  \* MAX_BUFFER_SIZE, the length of the array buffer
  MaxFds,         \* descriptors the process may still open
  SigThreads,     \* threads the kernel may pick to run SIGINTHandler
  Faults,         \* system calls that may fail
  Spurious        \* whether pthread_cond_wait may return unsignalled

Kinds == {"regular", "fifo", "dir", "other"}
Calls == {"stat", "open", "mkfifo", "mkdir", "opendir", "read", "write"}
Dirs == {e \in Entries : Kind[e] = "dir"} \cup {Root}
Threads == Workers \cup {Manager, Main, Handler}
Fds == 0 .. MaxFds - 1
Slots == 0 .. BufferSize - 1   \* what main lets the program index

ASSUME ThreadsDistinct ==
  /\ {Manager, Main, Handler, NoOne} \cap Workers = {}
  /\ Manager # Main /\ Manager # Handler /\ Main # Handler
  /\ NoOne \notin {Manager, Main, Handler}
(* main refuses fewer than one worker. *)
ASSUME WorkersFinite == IsFiniteSet(Workers) /\ Workers # {}
ASSUME TreeAssumption ==
  /\ Root \notin Entries /\ NoOne \notin Entries \cup {Root}
  /\ Kind \in [Entries -> Kinds]
  /\ Parent \in [Entries -> Dirs]
  /\ Size \in [Entries -> Nat]
(* A directory is not below itself. *)
ASSUME TreeAcyclic ==
  \A S \in SUBSET Entries : S # {} => \E e \in S : Parent[e] \notin S
(* main refuses a buffer size below 1; one above MAX_BUFFER_SIZE it accepts *)
(* and then writes past the array, where C defines no behaviour to model.  *)
ASSUME SizeAssumption ==
  /\ MaxBufferSize \in Nat /\ BufferSize \in 1 .. MaxBufferSize
  /\ MaxFds \in Nat
ASSUME EnvironmentAssumption ==
  /\ SigThreads \subseteq Workers \cup {Manager, Main}
  /\ Faults \subseteq Calls
  /\ Spurious \in BOOLEAN

(* What an open descriptor refers to. *)
Closed == <<NoOne, "closed">>
Names == Entries \cup {NoOne}
Ends == (Names \X {"src", "dest"}) \cup (Dirs \X {"dir"}) \cup {Closed}

(* filePairStruct; isDir is left out, every push sets it to 0.  A slot no  *)
(* push has used yet is zero: descriptors 0, not a FIFO.                   *)
FilePairs == [name : Names, srcFD : Nat, destFD : Nat, isFifo : BOOLEAN]
FilePair(name, src, dest, fifo) ==
  [name |-> name, srcFD |-> src, destFD |-> dest, isFifo |-> fifo]
ZeroPair == FilePair(NoOne, 0, 0, FALSE)

VARIABLES
  pc,           \* control of each thread
  mutex,        \* holder of mutex, or NoOne
  notFull,      \* threads waiting on bufferNotFull
  notEmpty,     \* threads waiting on bufferNotEmpty
  buffer, bufferCount, done,
  totalBytes, numRegular, numFifo, numDir,
  cwd,          \* the directory whose readdir loop is running
  unread,       \* entries readdir has not returned yet
  skipped,      \* entries an error message was printed for instead
  item,         \* filePair the manager is about to push
  job,          \* job[w]: filePair of worker w
  block,        \* block[w]: what w last read, <<file, block number>>
  fds,          \* descriptor table
  offset,       \* offset[e]: blocks of e read through its descriptor
  content,      \* content[e]: whole blocks in the destination file of e
  cut,          \* entries whose destination has part of one more block
  printed,      \* entries for which "Copied: ..." was printed
  interrupted,  \* the thread SIGINTHandler runs on, or NoOne
  status        \* "running", "reported" (main returned), "killed"

syncVars == <<mutex, notFull, notEmpty>>
queueVars == <<buffer, bufferCount, done>>
statVars == <<totalBytes, numRegular, numFifo, numDir>>
walkVars == <<cwd, unread, skipped, item>>
workVars == <<job, block>>
fileVars == <<fds, offset, content, cut>>
endVars == <<printed, interrupted, status>>
vars == <<pc, syncVars, queueVars, statVars, walkVars, workVars, fileVars,
          endVars>>

Init ==
  /\ pc = [t \in Threads |->
             CASE t = Manager -> "opendir"
               [] t = Main -> "join"
               [] t = Handler -> "idle"
               [] OTHER -> "take"]
  /\ mutex = NoOne /\ notFull = {} /\ notEmpty = {}
  /\ buffer = [i \in Slots |-> ZeroPair] /\ bufferCount = 0 /\ done = FALSE
  /\ totalBytes = 0 /\ numRegular = 0 /\ numFifo = 0 /\ numDir = 0
  /\ cwd = Root /\ unread = Entries /\ skipped = {} /\ item = ZeroPair
  /\ job = [w \in Workers |-> ZeroPair]
  /\ block = [w \in Workers |-> <<NoOne, 0>>]
  /\ fds = [f \in Fds |-> Closed]
  /\ offset = [e \in Entries |-> 0]
  /\ content = [e \in Entries |-> <<>>] /\ cut = {}
  /\ printed = {} /\ interrupted = NoOne /\ status = "running"

-----------------------------------------------------------------------------
(* A thread runs until the process ends, unless the handler interrupts it. *)
Runs(t) == status = "running" /\ t # interrupted

At(t, label) == Runs(t) /\ pc[t] = label

Goto(t, label) == pc' = [pc EXCEPT ![t] = label]

Critical == {"push", "countDir", "setDone", "take", "addBytes", "addRegular",
             "addFifo", "closeAll"}

Holds(t, label) == At(t, label) /\ mutex = t

(* pthread_mutex_lock, also at the end of pthread_cond_wait. *)
Lock(t) ==
  /\ Runs(t) /\ pc[t] \in Critical
  /\ t \notin notFull \cup notEmpty
  /\ mutex = NoOne
  /\ mutex' = t
  /\ UNCHANGED <<pc, notFull, notEmpty, queueVars, statVars, walkVars,
                 workVars, fileVars, endVars>>

(* Mutant: a push signals only when the buffer was empty. *)
SignalledIfEmpty(waiters) ==
  IF waiters = {} \/ bufferCount > 0 THEN {waiters}
  ELSE {waiters \ {t} : t \in waiters}

(* pthread_cond_signal wakes one waiter, any of them, or nobody. *)
Signalled(waiters) ==
  IF waiters = {} THEN {{}} ELSE {waiters \ {t} : t \in waiters}

(* pthread_cond_broadcast wakes them all. *)
Broadcast(waiters) == {{}}

MayFail(call) == call \in Faults

Free == {f \in Fds : fds[f] = Closed}
Lowest(S) == {f \in S : \A g \in S : f <= g}

-----------------------------------------------------------------------------
(* Manager: processDirectory.                                              *)

(* opendir, on entry to processDirectory. *)
OpenDir ==
  /\ At(Manager, "opendir")
  /\ \E f \in Lowest(Free) : fds' = [fds EXCEPT ![f] = <<cwd, "dir">>]
  /\ Goto(Manager, "readdir")
  /\ UNCHANGED <<syncVars, queueVars, statVars, walkVars, workVars, offset,
                 content, cut, endVars>>

(* Where processDirectory returns to: the readdir loop of the caller, or   *)
(* the manager function.                                                   *)
Return ==
  IF cwd = Root THEN cwd' = cwd /\ Goto(Manager, "setDone")
                ELSE cwd' = Parent[cwd] /\ Goto(Manager, "readdir")

OpenDirFails ==
  /\ At(Manager, "opendir")
  /\ MayFail("opendir") \/ Free = {}
  /\ skipped' = skipped \cup {cwd}
  /\ Return
  /\ UNCHANGED <<syncVars, queueVars, statVars, unread, item, workVars,
                 fileVars, endVars>>

(* The rest of the loop body once an error was printed: continue. *)
Skip(e) ==
  /\ skipped' = skipped \cup {e}
  /\ Goto(Manager, "readdir")

(* readdir returns any entry not returned yet; stat and its S_IS... tests. *)
ReadEntry(e) ==
  /\ At(Manager, "readdir")
  /\ e \in unread /\ Parent[e] = cwd
  /\ unread' = unread \ {e}
  /\ \/ /\ MayFail("stat")
        /\ Skip(e)
        /\ UNCHANGED <<cwd, item>>
     \/ /\ Kind[e] \in {"regular", "fifo"}
        /\ item' = FilePair(e, 0, 0, Kind[e] = "fifo")
        /\ Goto(Manager, IF Kind[e] = "fifo" THEN "mkfifo" ELSE "openSrc")
        /\ UNCHANGED <<cwd, skipped>>
     \/ /\ Kind[e] = "dir" /\ MayFail("mkdir")
        /\ Skip(e)
        /\ UNCHANGED <<cwd, item>>
     \/ /\ Kind[e] = "dir"
        /\ cwd' = e
        /\ Goto(Manager, "countDir")
        /\ UNCHANGED <<skipped, item>>
     \/ /\ Kind[e] = "other"
        /\ UNCHANGED <<cwd, skipped, item, pc>>
  /\ UNCHANGED <<syncVars, queueVars, statVars, workVars, fileVars, endVars>>

OpenSrc ==
  /\ At(Manager, "openSrc")
  /\ \/ /\ \E f \in Lowest(Free) :
             /\ fds' = [fds EXCEPT ![f] = <<item.name, "src">>]
             /\ item' = FilePair(item.name, f, 0, FALSE)
        /\ Goto(Manager, "openDest")
        /\ UNCHANGED skipped
     \/ /\ MayFail("open") \/ Free = {}
        /\ Skip(item.name)
        /\ item' = ZeroPair
        /\ UNCHANGED fds
  /\ UNCHANGED <<syncVars, queueVars, statVars, cwd, unread, workVars, offset,
                 content, cut, endVars>>

(* Mutant: the source stays open. *)
LeakSrc == UNCHANGED fds

(* close(src_fd), when the destination cannot be opened. *)
AbandonSrc == fds' = [fds EXCEPT ![item.srcFD] = Closed]

OpenDest ==
  /\ At(Manager, "openDest")
  /\ \/ /\ \E f \in Lowest(Free) :
             /\ fds' = [fds EXCEPT ![f] = <<item.name, "dest">>]
             /\ item' = FilePair(item.name, item.srcFD, f, FALSE)
        /\ Goto(Manager, "push")
        /\ UNCHANGED skipped
     \/ /\ MayFail("open") \/ Free = {}
        /\ AbandonSrc
        /\ Skip(item.name)
        /\ item' = ZeroPair
  /\ UNCHANGED <<syncVars, queueVars, statVars, cwd, unread, workVars, offset,
                 content, cut, endVars>>

MakeFifo ==
  /\ At(Manager, "mkfifo")
  /\ \/ /\ Goto(Manager, "push")
        /\ UNCHANGED <<skipped, item>>
     \/ /\ MayFail("mkfifo")
        /\ Skip(item.name)
        /\ item' = ZeroPair
  /\ UNCHANGED <<syncVars, queueVars, statVars, cwd, unread, workVars,
                 fileVars, endVars>>

(* Mutant: off by one. *)
FullLate == bufferCount > BufferSize
Full == bufferCount = BufferSize

(* while (bufferCount == bufferSize) pthread_cond_wait(&bufferNotFull, ..) *)
PushWait ==
  /\ Holds(Manager, "push") /\ Full
  /\ notFull' = notFull \cup {Manager}
  /\ mutex' = NoOne
  /\ UNCHANGED <<pc, notEmpty, queueVars, statVars, walkVars, workVars,
                 fileVars, endVars>>

(* Mutant: a FIFO's push forgets isFifo as well. *)
FilledFlagStale(slot) ==
  IF item.isFifo THEN [slot EXCEPT !.name = item.name] ELSE item

(* The slot a push leaves: a FIFO's push leaves the descriptors alone. *)
Filled(slot) ==
  IF item.isFifo THEN FilePair(item.name, slot.srcFD, slot.destFD, TRUE)
                 ELSE item

Push ==
  /\ Holds(Manager, "push") /\ ~Full
  /\ buffer' = [buffer EXCEPT ![bufferCount] = Filled(@)]
  /\ bufferCount' = bufferCount + 1
  /\ notEmpty' \in Signalled(notEmpty)
  /\ mutex' = NoOne
  /\ item' = ZeroPair
  /\ Goto(Manager, "readdir")
  /\ UNCHANGED <<notFull, done, statVars, cwd, unread, skipped, workVars,
                 fileVars, endVars>>

(* numDir++, then the recursive call. *)
CountDir ==
  /\ Holds(Manager, "countDir")
  /\ numDir' = numDir + 1
  /\ mutex' = NoOne
  /\ Goto(Manager, "opendir")
  /\ UNCHANGED <<notFull, notEmpty, queueVars, totalBytes, numRegular,
                 numFifo, walkVars, workVars, fileVars, endVars>>

(* readdir returns NULL: closedir and return. *)
CloseDir ==
  /\ At(Manager, "readdir")
  /\ \A e \in unread : Parent[e] # cwd
  /\ fds' = [f \in Fds |-> IF fds[f] = <<cwd, "dir">> THEN Closed ELSE fds[f]]
  /\ Return
  /\ UNCHANGED <<syncVars, queueVars, statVars, unread, skipped, item,
                 workVars, offset, content, cut, endVars>>

(* Mutant: the end of the manager without the unlock. *)
SetDoneKeepsMutex ==
  /\ Holds(Manager, "setDone")
  /\ done' = TRUE
  /\ notEmpty' \in Broadcast(notEmpty)
  /\ Goto(Manager, "ended")
  /\ UNCHANGED <<mutex, notFull, buffer, bufferCount, statVars, walkVars,
                 workVars, fileVars, endVars>>

(* The end of the manager function. *)
SetDone ==
  /\ Holds(Manager, "setDone")
  /\ done' = TRUE
  /\ notEmpty' \in Broadcast(notEmpty)
  /\ mutex' = NoOne
  /\ Goto(Manager, "ended")
  /\ UNCHANGED <<notFull, buffer, bufferCount, statVars, walkVars, workVars,
                 fileVars, endVars>>

ManagerStep ==
  \/ Lock(Manager) \/ OpenDir \/ OpenDirFails
  \/ \E e \in Entries : ReadEntry(e)
  \/ OpenSrc \/ OpenDest \/ MakeFifo \/ PushWait \/ Push \/ CountDir
  \/ CloseDir \/ SetDone

-----------------------------------------------------------------------------
(* Workers.                                                                *)

(* while (bufferCount == 0 && !done) pthread_cond_wait(&bufferNotEmpty..)  *)
TakeWait(w) ==
  /\ Holds(w, "take") /\ bufferCount = 0 /\ ~done
  /\ notEmpty' = notEmpty \cup {w}
  /\ mutex' = NoOne
  /\ UNCHANGED <<pc, notFull, queueVars, statVars, walkVars, workVars,
                 fileVars, endVars>>

(* Mutant: whatever is still buffered. *)
LeaveOnceDone == done
MayLeave == bufferCount = 0 /\ done

(* if (bufferCount == 0 && done) break; *)
Leave(w) ==
  /\ Holds(w, "take") /\ MayLeave
  /\ mutex' = NoOne
  /\ Goto(w, "ended")
  /\ UNCHANGED <<notFull, notEmpty, queueVars, statVars, walkVars, workVars,
                 fileVars, endVars>>

(* Mutant: a worker takes the first slot, without moving up the others. *)
Bottom == 0
Top == bufferCount - 1

Take(w) ==
  /\ Holds(w, "take") /\ bufferCount > 0
  /\ bufferCount' = bufferCount - 1
  /\ job' = [job EXCEPT ![w] = buffer[Top]]
  /\ notFull' \in Signalled(notFull)
  /\ mutex' = NoOne
  /\ Goto(w, IF buffer[Top].isFifo THEN "addFifo" ELSE "read")
  /\ UNCHANGED <<notEmpty, buffer, done, statVars, walkVars, block, fileVars,
                 endVars>>

(* The entry fd f can be read from or written to as, or NoOne (EBADF). *)
FileAt(f, end) == IF f \in Fds /\ fds[f][2] = end THEN fds[f][1] ELSE NoOne

Readable(w) ==
  LET e == FileAt(job[w].srcFD, "src")
  IN  e \in Entries /\ offset[e] < Size[e]

Read(w) ==
  /\ At(w, "read") /\ Readable(w)
  /\ LET e == FileAt(job[w].srcFD, "src") IN
       /\ offset' = [offset EXCEPT ![e] = @ + 1]
       /\ block' = [block EXCEPT ![w] = <<e, offset[e] + 1>>]
  /\ Goto(w, "write")
  /\ UNCHANGED <<syncVars, queueVars, statVars, walkVars, job, fds, content,
                 cut, endVars>>

(* read returns 0 at end of file, or -1: the loop ends alike. *)
ReadEnds(w) ==
  /\ At(w, "read") /\ (~Readable(w) \/ MayFail("read"))
  /\ Goto(w, "addRegular")
  /\ UNCHANGED <<syncVars, queueVars, statVars, walkVars, workVars, fileVars,
                 endVars>>

Write(w) ==
  /\ At(w, "write")
  /\ LET e == FileAt(job[w].destFD, "dest") IN
       /\ e \in Entries
       /\ content' = [content EXCEPT ![e] = Append(@, block[w])]
  /\ Goto(w, "addBytes")
  /\ UNCHANGED <<syncVars, queueVars, statVars, walkVars, workVars, fds,
                 offset, cut, endVars>>

(* write returned something else than the length of the block: an error    *)
(* left the destination as it was, a short write put part of it there.     *)
CutShort(w) ==
  LET e == FileAt(job[w].destFD, "dest")
  IN  cut' \in {cut} \cup {cut \cup {f} : f \in {e} \cap Entries}

(* Mutant: without the break. *)
WriteFailsGoesOn(w) ==
  /\ At(w, "write") /\ MayFail("write")
  /\ CutShort(w)
  /\ Goto(w, "read")
  /\ UNCHANGED <<syncVars, queueVars, statVars, walkVars, workVars, fds,
                 offset, content, endVars>>

(* Mutant: a failed copy is not counted. *)
WriteFailsUncounted(w) ==
  /\ At(w, "write") /\ MayFail("write")
  /\ CutShort(w)
  /\ Goto(w, "close")
  /\ UNCHANGED <<syncVars, queueVars, statVars, walkVars, workVars, fds,
                 offset, content, endVars>>

(* if (write(..) != bytesRead) { perror("write"); break; } *)
WriteFails(w) ==
  /\ At(w, "write")
  /\ FileAt(job[w].destFD, "dest") \notin Entries \/ MayFail("write")
  /\ CutShort(w)
  /\ Goto(w, "addRegular")
  /\ UNCHANGED <<syncVars, queueVars, statVars, walkVars, workVars, fds,
                 offset, content, endVars>>

AddBytes(w) ==
  /\ Holds(w, "addBytes")
  /\ totalBytes' = totalBytes + 1
  /\ mutex' = NoOne
  /\ Goto(w, "read")
  /\ UNCHANGED <<notFull, notEmpty, queueVars, numRegular, numFifo, numDir,
                 walkVars, workVars, fileVars, endVars>>

AddRegular(w) ==
  /\ Holds(w, "addRegular")
  /\ numRegular' = numRegular + 1
  /\ mutex' = NoOne
  /\ Goto(w, "close")
  /\ UNCHANGED <<notFull, notEmpty, queueVars, totalBytes, numFifo, numDir,
                 walkVars, workVars, fileVars, endVars>>

(* close(srcFD); close(destFD): closing a closed one fails with EBADF. *)
CloseJob(w) ==
  /\ At(w, "close")
  /\ fds' = [f \in Fds |-> IF f \in {job[w].srcFD, job[w].destFD}
                           THEN Closed ELSE fds[f]]
  /\ Goto(w, "print")
  /\ UNCHANGED <<syncVars, queueVars, statVars, walkVars, workVars, offset,
                 content, cut, endVars>>

AddFifo(w) ==
  /\ Holds(w, "addFifo")
  /\ numFifo' = numFifo + 1
  /\ mutex' = NoOne
  /\ Goto(w, "print")
  /\ UNCHANGED <<notFull, notEmpty, queueVars, totalBytes, numRegular, numDir,
                 walkVars, workVars, fileVars, endVars>>

(* "Copied: %s -> %s\n" *)
PrintCopied(w) ==
  /\ At(w, "print")
  /\ printed' = printed \cup {job[w].name}
  /\ job' = [job EXCEPT ![w] = ZeroPair]
  /\ block' = [block EXCEPT ![w] = <<NoOne, 0>>]
  /\ Goto(w, "take")
  /\ UNCHANGED <<syncVars, queueVars, statVars, walkVars, fileVars,
                 interrupted, status>>

WorkerStep(w) ==
  \/ Lock(w) \/ TakeWait(w) \/ Leave(w) \/ Take(w)
  \/ Read(w) \/ ReadEnds(w) \/ Write(w) \/ WriteFails(w)
  \/ AddBytes(w) \/ AddRegular(w) \/ CloseJob(w) \/ AddFifo(w)
  \/ PrintCopied(w)

-----------------------------------------------------------------------------
(* Main and the SIGINT handler.                                            *)

(* Every thread function has returned; one in the handler has not. *)
Joined == \A t \in Workers \cup {Manager} : pc[t] = "ended" /\ t # interrupted

(* Every thread is joined; main prints "All files copied successfully"     *)
(* and the statistics, and returns.                                        *)
Report ==
  /\ At(Main, "join") /\ Joined
  /\ status' = "reported"
  /\ UNCHANGED <<pc, syncVars, queueVars, statVars, walkVars, workVars,
                 fileVars, printed, interrupted>>

(* SIGINT, at most once. *)
Sigint(t) ==
  /\ status = "running" /\ interrupted = NoOne
  /\ t \in SigThreads
  /\ interrupted' = t
  /\ Goto(Handler, "setDone")
  /\ UNCHANGED <<syncVars, queueVars, statVars, walkVars, workVars, fileVars,
                 printed, status>>

HandlerSetDone ==
  /\ Holds(Handler, "setDone")
  /\ done' = TRUE
  /\ notEmpty' \in Broadcast(notEmpty)
  /\ mutex' = NoOne
  /\ Goto(Handler, "closeAll")
  /\ UNCHANGED <<notFull, buffer, bufferCount, statVars, walkVars, workVars,
                 fileVars, endVars>>

(* Closes the descriptors of every buffered file, which stays buffered. *)
HandlerCloseAll ==
  /\ Holds(Handler, "closeAll")
  /\ LET buffered == {buffer[i] : i \in 0 .. bufferCount - 1}
         closing == {p \in buffered : ~p.isFifo}
     IN  fds' = [f \in Fds |-> IF \E p \in closing : f \in {p.srcFD, p.destFD}
                               THEN Closed ELSE fds[f]]
  /\ mutex' = NoOne
  /\ Goto(Handler, "exit")
  /\ UNCHANGED <<notFull, notEmpty, queueVars, statVars, walkVars, workVars,
                 offset, content, cut, endVars>>

(* exit(EXIT_FAILURE) *)
HandlerExit ==
  /\ At(Handler, "exit")
  /\ status' = "killed"
  /\ UNCHANGED <<pc, syncVars, queueVars, statVars, walkVars, workVars,
                 fileVars, printed, interrupted>>

HandlerStep ==
  Lock(Handler) \/ HandlerSetDone \/ HandlerCloseAll \/ HandlerExit

-----------------------------------------------------------------------------
(* pthread_cond_wait may return although nobody signalled. *)
SpuriousWakeup ==
  /\ Spurious /\ status = "running"
  /\ \E t \in notFull \cup notEmpty :
       /\ notFull' = notFull \ {t}
       /\ notEmpty' = notEmpty \ {t}
  /\ UNCHANGED <<pc, mutex, queueVars, statVars, walkVars, workVars, fileVars,
                 endVars>>

(* The process is gone; the model idles. *)
Gone == status # "running" /\ UNCHANGED vars

Next ==
  \/ ManagerStep \/ (\E w \in Workers : WorkerStep(w))
  \/ Report \/ HandlerStep
  \/ (\E t \in SigThreads : Sigint(t)) \/ SpuriousWakeup \/ Gone

Spec == Init /\ [][Next]_vars

(* Every thread that can run keeps running; nothing makes SIGINT arrive.   *)
Fairness ==
  /\ WF_vars(ManagerStep) /\ WF_vars(Report) /\ WF_vars(HandlerStep)
  /\ \A w \in Workers : WF_vars(WorkerStep(w))

FairSpec == Spec /\ Fairness
-----------------------------------------------------------------------------
(* Correctness.                                                            *)

Labels == Critical \cup
  {"opendir", "readdir", "openSrc", "openDest", "mkfifo", "read", "write",
   "close", "print", "ended", "join", "idle", "exit"}

ControlOK ==
  /\ pc \in [Threads -> Labels]
  /\ mutex \in Threads \cup {NoOne}
  /\ mutex # NoOne =>
       pc[mutex] \in Critical /\ mutex \notin notFull \cup notEmpty
  /\ notFull \subseteq {Manager} /\ notEmpty \subseteq Workers
  /\ \A t \in notFull : pc[t] = "push"
  /\ \A t \in notEmpty : pc[t] = "take"
QueueOK ==
  /\ buffer \in [Slots -> FilePairs]
  /\ bufferCount \in 0 .. BufferSize /\ done \in BOOLEAN
  /\ totalBytes \in Nat /\ numRegular \in Nat
  /\ numFifo \in Nat /\ numDir \in Nat
WalkOK ==
  /\ cwd \in Dirs /\ unread \subseteq Entries
  /\ skipped \subseteq Entries \cup {Root, NoOne} /\ item \in FilePairs
WorkOK ==
  /\ job \in [Workers -> FilePairs]
  /\ block \in [Workers -> Names \X Nat]
FileOK ==
  /\ fds \in [Fds -> Ends]
  /\ offset \in [Entries -> Nat]
  /\ content \in [Entries -> Seq(Names \X Nat)]
  /\ cut \subseteq Entries
EndOK ==
  /\ printed \subseteq Names
  /\ interrupted \in SigThreads \cup {NoOne}
  /\ status \in {"running", "reported", "killed"}

(* The variables hold values of their C types; a thread that holds mutex   *)
(* is at a critical section and does not wait, and one that waits is at    *)
(* the loop around its pthread_cond_wait.                                  *)
TypeOK == ControlOK /\ QueueOK /\ WalkOK /\ WorkOK /\ FileOK /\ EndOK

Pending == 0 .. bufferCount - 1

(* A file is in one place at a time: not yet read, in the manager's hands, *)
(* in one slot of the buffer, in the hands of one worker, or reported.     *)
(* Two workers never copy the same file, no slot is popped twice, and no   *)
(* file is printed as copied while somebody still works on it.             *)
OnePlace ==
  /\ \A i, j \in Pending : buffer[i].name = buffer[j].name => i = j
  /\ \A v, w \in Workers :
       job[v].name = job[w].name /\ job[v].name # NoOne => v = w
  /\ \A i \in Pending, w \in Workers : buffer[i].name # job[w].name
  /\ \A i \in Pending : buffer[i].name # item.name
  /\ \A w \in Workers : job[w].name = item.name => item.name = NoOne
  /\ LET inHand == {item.name} \cup {buffer[i].name : i \in Pending}
                     \cup {job[w].name : w \in Workers}
     IN  inHand \cap (unread \cup printed) = {}
  /\ unread \cap printed = {}

(* The descriptors of filePair p are those of its own file. *)
OwnEnds(p) ==
  /\ p.srcFD \in Fds /\ fds[p.srcFD] = <<p.name, "src">>
  /\ p.destFD \in Fds /\ fds[p.destFD] = <<p.name, "dest">>

Copying == {"read", "write", "addBytes", "addRegular", "close"}

(* Until SIGINTHandler closes them, the descriptors in a regular file's    *)
(* slot, and those a worker reads, writes and closes, are the ones the     *)
(* manager opened for that file, whatever was closed, reused or left stale *)
(* in a FIFO's slot in between.                                            *)
DescriptorsOwned ==
  pc[Handler] # "exit" =>
    /\ \A i \in Pending : ~buffer[i].isFifo => OwnEnds(buffer[i])
    /\ \A w \in Workers : pc[w] \in Copying => OwnEnds(job[w])

(* Until then a destination file holds the first blocks of its own source, *)
(* in order, none twice and none of another file; and where a short write  *)
(* left part of a block, that part is of the next block and nothing        *)
(* follows it: neither is the source read on nor the destination written.  *)
ContentInOrder ==
  pc[Handler] # "exit" =>
    \A e \in Entries :
      /\ \A i \in 1 .. Len(content[e]) : content[e][i] = <<e, i>>
      /\ e \in cut => offset[e] = Len(content[e]) + 1

(* When main reports, no descriptor is left open, on any path through      *)
(* skipped files and failed copies.                                        *)
NoDescriptorLeak == status = "reported" => \A f \in Fds : fds[f] = Closed

(* Without SIGINT a worker leaves its loop only when the walk is over and  *)
(* the buffer is empty for good, so no pushed file is left behind.         *)
DrainedBeforeLeaving ==
  interrupted = NoOne /\ (\E w \in Workers : pc[w] = "ended") =>
    pc[Manager] = "ended" /\ bufferCount = 0

(* No wakeup is lost.  The manager waits only while the buffer is full; no *)
(* worker waits once done is set; and as long as one waits, as many others *)
(* are on their way to the buffer as there are files in it: nobody sleeps  *)
(* on a file, although each push signals one worker, another worker may    *)
(* come first, and waits may end for nothing.                              *)
OnTheWay == {w \in Workers \ notEmpty : pc[w] = "take"}
NoWakeupLost ==
  /\ notFull # {} => Full
  /\ done => notEmpty = {}
  /\ notEmpty # {} => bufferCount <= Cardinality(OnTheWay)

(* The statistics count every file exactly once, however the workers       *)
(* interleave: a counter is the number of files printed and of those in a  *)
(* worker's hands past the point where they are counted, a copy that       *)
(* failed included.  totalBytes is the blocks written whole: what a short  *)
(* write left in a destination (cut) is in no statistic.                   *)
Counted(labels) == Cardinality({w \in Workers : pc[w] \in labels})
StatisticsExact ==
  /\ numRegular = Cardinality({e \in printed : Kind[e] = "regular"})
       + Cardinality({w \in Workers : pc[w] \in {"close", "print"}
                                      /\ ~job[w].isFifo})
  /\ numFifo = Cardinality({e \in printed : Kind[e] = "fifo"})
       + Cardinality({w \in Workers : pc[w] = "print" /\ job[w].isFifo})
  /\ totalBytes + Counted({"addBytes"}) =
       Cardinality(UNION {{e} \X DOMAIN content[e] : e \in Entries})
  /\ skipped = {} =>
       numDir + (IF pc[Manager] = "countDir" THEN 1 ELSE 0)
         = Cardinality({e \in Entries \ unread : Kind[e] = "dir"})

Whole(e) == [i \in 1 .. Size[e] |-> <<e, i>>]

(* "All files copied successfully": main says so only when every regular   *)
(* file and FIFO of the source tree was copied.                            *)
AllCopied ==
  status = "reported" =>
    /\ {e \in Entries : Kind[e] \in {"regular", "fifo"}} \subseteq printed
    /\ \A e \in Entries : Kind[e] = "regular" => content[e] = Whole(e)

(* Unless SIGINT comes, the program comes to its report: no wakeup is lost. *)
Reports == <>(status = "reported" \/ interrupted # NoOne)

(* "SIGINT received. Exiting...": once the signal is taken the process     *)
(* ends.                                                                   *)
SigintEnds == interrupted # NoOne ~> status # "running"

(* The job pool of CopyPool, read off the state of the copier.             *)
Phase ==
  [e \in Entries \cup {Root} |->
     CASE e \in skipped -> "skipped"
       [] e \in printed -> "copied"
       [] \E w \in Workers : job[w].name = e -> "taken"
       [] \E i \in Pending : buffer[i].name = e -> "queued"
       [] e \in unread \cup {item.name} -> "waiting"
       [] OTHER -> "passed"]

Pool == INSTANCE CopyPool WITH phase <- Phase, outcome <- status,
                               Capacity <- BufferSize,
                               Consumers <- Cardinality(Workers)

(* The copier implements the job pool: every entry is queued only from a   *)
(* directory that was entered, at most BufferSize wait and at most one per *)
(* worker is being copied, each is copied at most once, and main reports   *)
(* only when none is queued, being copied, or unread in an entered         *)
(* directory.                                                              *)
ImplementsPool == Pool!Spec
=============================================================================
