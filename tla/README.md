# Verification of the CSE344 homework, midterm and final programs

The repository holds six C programs of a systems programming course. They do
not call each other; each is a small concurrent system of its own (threads
with mutexes and condition variables, processes with FIFOs, semaphores and
signals, clients and a server on sockets). This directory holds TLA+ models of
them, the TLC configurations that check the models on small instances, and
TLAPS proofs of the properties that matter most, for every value of the
constants.

## 1. The system: inventory

| Part | Source | State it keeps | Operations | How its parts interact |
|---|---|---|---|---|
| HW1, student grades | `src/HW1/gtuStudentGrades.c` | a text file of grades, a log | create, add, search, list, sort, each in a forked child that goes on in the same command loop | the parent waits for additions only; all processes read one input and one file |
| HW2, two FIFOs | `src/HW2/main.c` | two FIFOs, `counter` of ended children | the parent writes numbers and a command, child 1 sums, child 2 computes and adds | FIFOs, `SIGCHLD` |
| HW3, parking lot | `src/HW3/main.c` | places and counters per kind of vehicle, a car shown to the attendant | owners arrive and register, attendants park | mutexes and semaphores per kind |
| HW4, directory copier | `src/HW4/200104004043_main.c` | bounded buffer of open files, `done`, statistics, descriptors | manager walks and pushes, workers pop and copy, main reports, `SIGINT` | one mutex, two condition variables |
| HW5, the same with a barrier | `src/HW5/200104004043_main.c` | as HW4, and a barrier | as HW4; all threads meet at the barrier | as HW4 |
| Midterm, file server | `src/Midterm/server.c`, `client.c` | count of clients, waiting queue, three named semaphores, FIFOs, files | connection, requests, quit, kill; a forked session per client | FIFOs, semaphores, `SIGCHLD`, `SIGTERM` |
| Final, pide shop | `src/Final/pideshop.c`, `hungryverymuch.c` | order and delivery arrays, shovels, counters | accept, receive, cook, deliver, `SIGINT` on either side | sockets, mutexes, three condition variables |

What is hard in them, and what makes each correct:

* **HW4/HW5.** The buffer hands *open descriptors* from the manager to the
  workers, which close them while the manager opens others: a stale slot or a
  late close hits another file. The end of the walk (`done`), the waits of both
  sides and the exit have to fit, also when any system call fails. Correct
  means: a file is in one place, a worker uses its own descriptors only,
  blocks arrive in order, nothing leaks, no worker leaves early, all end, the
  statistics are right. `SIGINTHandler` takes the same mutex, and in HW5
  destroys the barrier others wait at.
* **HW3.** A counter is incremented by owners under one mutex and decremented
  by the attendant under another; lost updates go both ways.
* **Final.** Orders move through two arrays and three kinds of threads, in
  copies; all signals are sent outside the mutex; the cooks contend for shovels
  under a second mutex; `handleSigInt` locks what `main` may hold.
* **Midterm.** `sigChldHandler` runs between any two steps of the loop of the
  same process and shares its queue and its count; signals coalesce, opens
  block and may be interrupted; one semaphore is posted by whichever side
  thinks the other will not.
  The sessions share two semaphores, which some ways of ending a request post
  without having waited, or do not post; client and session open their two
  FIFOs anew for every request, close only some descriptors, and number
  nothing. Correct means: one session at the files, every response is that to
  the command the client is at, an upload is received whole, whoever types a
  command gets the prompt back, and KILLSERVER ends everything.
* **HW2.** The order in which FIFOs are opened, one signal for two children,
  and a sleep in the place of synchronisation. Correct means: the right number
  is printed, and everyone ends and cleans up.
* **HW1.** Processes that nobody waits for read the same file, and the same
  input, while another adds to it. Correct means: no entry is lost, and what is
  listed was in the file at one moment.

Each hazard is listed in `PROJECT.json` at its line, with the properties that
would catch it.

## 2. Modules

| Module | Models | Role |
|---|---|---|
| `MWCp` | HW4 | component |
| `CopyPool` | what HW4 and HW5 promise: the life of an entry of the tree | abstract specification, implemented by `MWCp` and `MWCpBarrier` |
| `MWCpBarrier` | HW5: `MWCp` with the barrier of `pthread_barrier_*` | component, composed of `MWCp` and the barrier |
| `ParkingLot` | HW3 | component |
| `PideShop` | Final, server and clients | component |
| `OrderLife` | what the pide shop promises of an order | abstract specification, implemented by `PideShop` |
| `Admission` | Midterm: connection requests, queue, `SIGCHLD` | component |
| `Requests` | Midterm: sessions, requests, end of the server | component |
| `TwoFifos` | HW2 | component |
| `Grades` | HW1 | component |
| `MWCp_proofs`, `MWCpBarrier_proofs`, `ParkingLot_proofs`, `PideShop_proofs`, `Admission_proofs`, `Requests_proofs`, `TwoFifos_proofs`, `Grades_proofs` | | proofs |
| `MCMWCp`, `MCMWCpBarrier`, `MCParkingLot`, `MCPideShop`, `MCAdmission`, `MCRequests`, `MCTwoFifos`, `MCGrades` | | definitions, scenarios and symmetry for TLC |

`PROJECT.json` maps every definition to the lines it stands for. The
definitions marked *Mutant* are small plausible bugs of the definition that
follows them; no specification uses them. They show that a property can fail.

### MWCp (HW4)

Variables carry the names of the globals (`buffer`, `bufferCount`, `done`,
`totalBytes`, `numRegular`, ...); `pc` is the control of each thread, `mutex`
its holder, `notFull` and `notEmpty` the threads waiting on the two condition
variables, `fds` the process's descriptor table (the lowest free number is
handed out, as by `open`), `content` what was written to each destination.
Taking the mutex is a step (`Lock`), and so is each part of a critical section
another thread or the handler can tell apart; `pthread_cond_wait` gives up the
mutex and joins the wait set in one step, a signal removes any one waiter,
`Spurious` allows waking up without one. The recursion of `processDirectory`
is replaced by the directory at hand and its `Parent`; the entries of a
directory come in any order. `isDir` is left out: every push sets it to 0. A
slot no push has used yet holds descriptors 0, as the zeroed global does, and a
FIFO's push leaves the descriptors of the file before it, as the code does.
Line 280 takes a short write for a failed one: `WriteFails` leaves the content as
it was or puts the destination in `cut`, part of one more block.
`Faults` names the system calls that may fail, each on its own error path;
`MaxFds` makes `open` fail for want of descriptors. `SIGINTHandler` runs on one
of `SigThreads`, which stands still meanwhile; on Linux that is the main
thread, which is what the runs assume; POSIX would allow any.

### MWCpBarrier (HW5)

Adds the threads that have arrived and passed to the steps of `MWCp`.
`BarrierCount` is the count given to `pthread_barrier_init`; glibc's
`pthread_barrier_destroy` waits for threads that have arrived. That HW5 takes no
steps but HW4's beside those of the barrier is how the module is written, and not
a property a run could break; what is checked of HW5 is what the barrier adds.

### ParkingLot (HW3)

One owner thread per vehicle and one attendant per kind. Every `++` and `--`
of a shared counter is a load and a store, since the two sides hold different
mutexes. An owner of a place in the lot may leave it in any later moment.
SIGINT destroys the mutexes and exits, so that every thread is gone.

### PideShop and OrderLife (Final)

A critical section is one step, taken when the mutex is free; only `main`'s call
of `serverLog` is split, because `handleSigInt`, running on `main`, may
interrupt it there. The other threads' calls of `serverLog` change the log file
only and are left out. A client may fail to connect or to send, and either
program may get SIGINT (once: the bound `NoSigintYet`). `OrderLife` says: an
order is placed, cooked and delivered in this order, by one cook at a time, each
once.

### Admission (Midterm)

`parent` and `handler` are the two threads of control of one process: the parent
stands still while `handler # "idle"`. FIFOs are modelled with their readers,
writers and content: `open` for reading counts as a reader at once and returns
when there is a writer, content is lost when both sides have closed, a write
without a reader is SIGPIPE and ends the server (`up`), a fork in the handler
inherits what the interrupted parent has open, and a read whose last writer went
away returns 0. SIGCHLD is one bit. `globalNumOfClients++` in the parent is a
load and a store. `enqueueClient` is taken apart as well: the test of `size`,
the link, and the load and store of `size++`. `clientQueue` is what `head` leads
to; an element that is hung on one freed meanwhile is not in it, and a
`dequeueClient` that follows a NULL `head` ends the server. `sa_flags` is not
initialised by `main`; whether a blocked `open` of the parent is interrupted is
therefore left open (fault `eintr`); `SA_NODEFER` is taken to be clear.
`dropped` records the clients the server gave up on after a `perror`; properties
refer to it.

A session inherits `sigChldHandler` and a copy of the queue as it was at the
fork (`copy`). When a process it has started ends, the handler runs in the session
and admits the first client of that copy, whatever the parent's count is
(`SessionAdmits`; `ArchiveAdmits` is the same in the child that `archServer`
forks, whose own child is `tar`; both with fault `archive`). The session it then
forks is `adopted`: the parent neither counts nor reaps it. A copy whose `size` is
too large ends the session (`SessionCrashes`). What else a session does is the
subject of `Requests`: here it is modelled by its end.

### Requests (Midterm)

A client and its session, `client` and `session`, take the steps of the
handlers of `client.c` and `server.c`. What is common to the handlers is one
action: `OpenRD`, `WriteRequest`, `OpenWR`, `ReadHeader` begin every command,
`Respond`, `WriteHeader`, `WritePacket`, `Close` and `Post` every response;
what differs (who closes which descriptor, who gives up without a response,
who asks back) are actions of their own. `ends[c]` holds the descriptors open
on the two FIFOs of `c`; one that the code forgets, by a return without `close`,
stays there as *old*. That is what makes `open` return at once or wait and
`read` return 0 or wait, so it decides which messages are mixed up. Messages
carry the number of the command they belong to, which the program does not
have; only properties look at it. When `read` returns 0, the request or
response in memory keeps its last value (`ReadRequest`) or is any value
(`ReadHeader`, an uninitialised variable).

A failed archive makes the forked child return into the loop as a second
session: `waiters[c]` holds the sessions of `c` that wait for their child,
`session[c]` is the innermost. The log is one step (`Logs`) that needs
`loggerSemaphore` and may fail to give it back. `freePosts` counts the posts of
`serverFileIOSemaphore` by one that has not waited; it is a history variable.
Admission is reduced to one step of `SigChld` that takes the first of the queue.
SIGTERM is pending per process (`sessionTerm`, `clientTerm`), as a signal is.

Handlers that fail in the middle of a file (`ReadFails`, `CreateFails`,
`WriteFails`) return with FIFOs open, and what has been sent of it, or is sent
later, stays in them: the bytes of an upload are then read by `handleClient`, as a
request of no type it knows (`ReadRequest`). A read that is longer than what
it takes may take the beginning of the next message with it, of which a *rest*
stays (`Torn`).

A *scenario* gives what every user may type and how often, whether users wait
for the session to read before they type (`patient`), and the faults: a missing
file, one that cannot be read or written, a line past the end of one, a failing
fork, tar or log, ^C, SIGTERM, an interrupted `wait`.

### TwoFifos (HW2)

`fifo[f]` holds who has `f` open and what is in it; `waiting` those in an `open`
that has not returned. A FIFO opened for reading is open at once, which lets a
writer in, as in the kernel. `sigchld` is one bit, `zombies` are the children
that have ended: the handler reaps all of them. The ten seconds of `sleep` are
long: child2 wakes when the others wait, sleep or have ended (`Idle`), unless
something is late. A `long` goes up to `LongMax` and wraps around past it; the
sum of an array, which child1 keeps in an `int`, is taken to fit in it. The two
loops over the array are recursive functions (`Sums`, `LongProducts`). An array
that the program can print fits into a pipe buffer, so writes and reads are one
step.

### Grades (HW1)

The file is a sequence of entries and a process's read takes up to `Buffer` of
them and, when the file goes on (`GoesOn`), perhaps the beginning of one more.
`ReadCommand` gives the next command to any process that reads: the terminal or
pipe is shared. A terminal gives a line; one read of a pipe may take any number
of lines, of which `main` executes the first and loses the others
(`Understood`), and where the first has no argument its word runs on into the next
line and is no command. A child that has done its command goes back to `read`
(`Loops`), as the code has no `exit` after it.

The listings are read by read, so that additions come in between. What a command
makes of bytes it has not read, has read to the wrong place or has cut is
`Junk`, a line that is no entry. `ListGrades` lists as many as are missing to
`First`, or some of them and reads on, since it takes newlines off `bytesRead`
nowhere. `ListSome` may count a line that is cut at the end of a buffer, and
counts its rest again (`cut`, `Seen`). `SearchStudent` may miss a name, and
after its first read find anything or crash (`Crash`: `strlen` of the NULL that
`strtok` returns); so may `SortAll` once a line was cut. The names that are
sorted may end in what was on the stack. What is undefined in C is here a
choice. `sortAll` looks for the space that ends a name in the first
`sizeof(line)` (8) bytes of the line: longer names (`LongNames`) are passed
over. `bubbleSort` is translated loop by loop (`Compared` is a pass, `Passes`
the outer loop), as recursive functions. The header of the module says which
lines are entries.

## 3. Runs

All runs are listed in `PROJECT.json` with what they show. Constants of the
modules are the bounds of the runs:

| Run | Instance | Why it is enough |
|---|---|---|
| `MWCp_safety` | 2 workers, a file of two blocks, an empty one and a FIFO, 2 slots, all calls failing, SIGINT, spurious wakeups | slots and descriptors are reused while both workers copy, and both sides wait |
| `MWCp_live` | a directory with a file in it, a socket, a file, 1 slot, SIGINT | the manager waits for every push; skipped entries; nested walk |
| `MWCp5_barrier` | HW5 on the same scale, opens and mkdir failing, SIGINT | the barrier fills in every order |
| `ParkingLot` | 3 owners, 2 places for pickups, 1 for automobiles, SIGINT | every pair of load and store overlaps, a lot is full |
| `PideShop_safety` | 2 clients, 2 cooks, 1 delivery thread, 1 shovel, failing connects and sends, SIGINT on either side | cooks contend; both queues hold two orders |
| `PideShop_live` | the same without faults, fair | waiting and signalling in every order |
| `Admission_safety` | 4 clients, 1 spot, all faults | the queue holds three, the handler interrupts every step; copies of the queue with clients in them, with one that the parent has admitted meanwhile, and with a wrong `size` |
| `Admission_live` | 4 clients, one of them `tryConnect`, 2 spots, all faults but killed clients, fair | refusal, waiting and admission; two sessions end with one signal |
| `Requests` | 2 clients, files of two items, six scenarios: both at the files with handlers that give up or break off, three commands in a row and a client that is then admitted, a user that types ahead, ^C at every point, a second session, the end of the server | two commands are what it takes to leave a descriptor open and to meet it, the third to be answered wrongly; every command follows every other |
| `TwoFifos` | both commands, arrays of 1 to 3 numbers, a `long` of 8 bits (`LongMax` is 127), each fault alone and with a late process, FIFOs left by an earlier run | three processes and two FIFOs are the program; one product overflows |
| `Grades` | up to 9 processes, files of 2, 3 and 6 entries, buffers, first entries and sorts of 3, pages of up to 3, every listing among additions and another command, from terminal and pipe | the file is shorter than a buffer, grows past it while it is read, or is longer; pages end before, at and after the end of a buffer; exits and ^D go to any process |

One run is expected to find a violation of something the program says of
itself:

* `Requests_list`: `help` says "download <filename>: Downloads file from
  server". The client closes its end of the FIFO after a list; if the session
  opens the FIFO before that, its `read` returns 0, `request` still holds the
  list, and the session serves that again, waiting in `open`, with
  `serverFileIOSemaphore` taken, for a client that has not asked. The next
  download gets the listing, stores it, and reports success.

Deadlock checking is off where the system stops by design: the programs end,
and in `PideShop` and `Admission` the remaining processes wait for a client or
a signal that need not come. Where the end matters a liveness property states
it (`Reports`, `SigintEnds`, `EveryOwnerAnswered`, `EveryOrderAnswered`,
`EveryClientAnswered`, `EveryCommandAnswered`, `KillServerEnds`,
`EveryoneEnds`).

**Fairness.** Each thread or process that can continue does (weak fairness per
thread). Nothing is fair about what the environment chooses: faults, SIGINT,
spurious wakeups, what users type, users that quit, clients that are killed. In
`Requests` users need not type, but answer a question (`Overwrite`), and
`sem_wait` on `serverFileIOSemaphore` is strongly fair: a session that waits is
not passed over for ever, which the futex behind a POSIX semaphore gives it when
the number of posts is finite, as it is here. In `TwoFifos` a pending signal is
delivered at last; being killed and ^C are not fair. Elsewhere no strong
fairness is assumed: the number of files, orders, owners and clients is finite,
so that a lock or semaphore others keep taking is free for good at last.
Spurious wakeups are allowed in the safety run only: with infinitely many of
them one thread can keep a weakly fair one from the mutex for ever.

**Divergences that no run is kept for.** TLC finds each of these in minutes
when the property is added to the configuration named with it:

* HW5, `SigintEnds` (`MWCp5_barrier`): after "SIGINT received. Exiting..." the
  program may stay, as `pthread_barrier_destroy` waits for threads that wait for
  a full barrier.
* HW3, `LotWithinMax` (`ParkingLot`, with a fourth owner): a lost update lets
  more cars into a lot than its "maximum number".
* Final, `SigintExits` (`PideShop_safety`, under `FairSpec`): `handleSigInt`
  waits for the mutex that `main`, which it interrupted in `serverLog`, holds.
* Midterm, `EmptySpotFound` (`Admission_live`): a client told to "wait for an
  empty spot" is put in the queue only after the answer; when the last session
  ends in between, it waits for ever while all spots are empty.
* Midterm, `MaximumOfClients` (`Admission_safety`): `globalMaxClients` is the
  "maximum number of clients". A session that serves an archive welcomes the
  first client of the queue it inherited and forks a session for it, while it is
  itself live. `NeverOverfull`, which holds, is about the sessions that the
  parent forked.
* HW1, `FirstAreEntries` (`Grades`): `listGrades` is to "Write the first 5
  entries to the console". With fewer in the file it goes on into bytes it has
  not read.
* HW1, `PagesAreEntries` (`Grades`): `listSome` is to "keep the last part of the
  buffer and append it to the next buffer". It allocates `carry` for that and
  never uses it: the parts of a line that is cut are two lines of a page.

Others: HW4 prints a file as copied after a failed write, or one that was short,
whose bytes are then in no statistic while the file is in `numRegular`; it
reports success when files were skipped, for instance for want of descriptors;
it accepts a buffer size above `MAX_BUFFER_SIZE` (`SizeAssumption` excludes it,
past the array C defines nothing). In HW3 two owners of different kinds may get
the same `carID`, and a lost increment leaves a car in a lot whose counter shows
none, for good: `CountersReturnToZero` is about the counters only. In Final two
orders may get the same `orderID`, the busiest delivery thread is printed as one
that does not exist, and a `CANCEL` is queued as an order. In Midterm
`serverSemaphore` grows by one with every client told to wait; a SIGCHLD inside
`enqueueClient` loses the client or leaves a `size` that is too large, with
which a later `dequeueClient` ends the server (`Dequeue`); `writeT` past the end
of a file never returns and locks the files for everyone; so does a client that
dies or gets ^C while its session waits for it; a download of a directory leaves
the client waiting for ever after the header, and an upload that cannot be
stored is read as requests; a failed archive leaves two sessions of one client;
a client that a session has admitted is still in the queue of the parent, which
admits it again; a failing log write stops every session; a client in the queue
when the server ends may be admitted and survive. In HW1 no child exits, so that
a terminal needs one `exit` for each process; several commands that come through
a pipe in one read are one, the first; `searchStudent` and `sortAll` garble
files longer than a buffer; `sortAll` cuts grades and passes over long names. In
HW2 a late child1 leaves child1 and the parent waiting for ever. The C library
calls in the handlers that are not async-signal-safe (`malloc`, `printf`) are
taken to work.

`EveryCommandAnswered`, `InStep` and `NoneHeldUp` are therefore stated for
*steady* clients, those that have kept a descriptor open (a `help`, `readF` or
`writeT` does it) before each command that closes one: for them the protocol
works, by the very descriptors the code forgets to close. What they exclude
beyond that (`Stuck`, `unanswered`) is named in their definitions.

## 4. What is proved

TLAPS checks, for all trees, buffer sizes, pools, numbers of owners, clients,
cooks, commands and processes, all maxima, scenarios and sets of faults, every
safety property that a run checks and that holds, and all refinements. Hardly
any of these properties is inductive; the invariant that carries each is the
interesting part. The type invariants of `PideShop` and `Requests` are proved
only.

**`MWCp_proofs`**, over the inductive `TypeOK` (with mutual exclusion: `mutex` is
held exactly in critical sections). Each property has a strengthening of its
own, which uses those before it:

| Property | Strengthening |
|---|---|
| `OnePlace` | an entry not read yet is nowhere, and the hands of a thread are full or empty as its control says (`HandsOK`, `Apart`) |
| `DescriptorsOwned` | what is queued, or in the hands of manager or workers, owns the descriptors it names, and no two own the same (`Owned`) |
| `DrainedBeforeLeaving` | only the manager's end sets `done` (`Drained`) |
| `NoWakeupLost` | inductive with `TypeOK`: by counting the workers on their way to the buffer (`OnTheWay`) |
| `SomebodyAwake` | from `NoWakeupLost` and `DrainedBeforeLeaving`: a manager that waits has a full buffer, which a sleeping worker would not sleep on |
| `ContentInOrder` | the block a worker has read is the next one of its own source, a file nobody copies yet is untouched, and who has left part of a block copies no more of that file (`ContentOK`) |
| `NoDescriptorLeak` | every open descriptor is that of a directory still being walked or of a file in a hand (`FdsHeld`); the directories being walked are a chain from the root down to the one at hand (`WalkInv`); at the report all hands are empty (`QuietReport`) |
| `ImplementsPool` | every entry is in the phase its place says (`PhaseOK`), a skipped one in no place (`SkippedApart`); then one lemma per step that moves an entry |
| `StatisticsExact` | the four sums, by adding one element to, or taking one from, the sets counted (`StatsInv`) |
| `AllCopied` | nothing read from a directory drops out of the places (`NoneDropped`), and who has left its loop has copied the file to its end (`Complete`) |

The theorem on `AllCopied` has two hypotheses. `read` and `write` do not fail:
the code prints a file as copied after either. Nothing was skipped: main's
"All files copied successfully" does not look at what was. The
run's instance has no faults either. `ContentInOrder` and `DescriptorsOwned` end
with the exit of `SIGINTHandler`, which closes descriptors under the workers.

**`MWCpBarrier_proofs`**: `NobodyLeavesEarly`, by counting arrivals; and the above
for HW5 (`SafetyOfHW4Holds`, `ImplementsPool`), since `MWCpBarrier` is composed so
that every step is one of HW4 or changes nothing of it (the lemma
`ComposedOfHW4`, which follows from the definitions).

**`ParkingLot_proofs`**: `CountWithinBounds` and `RegistersBounded`. Neither is
inductive alone: a counter stays in its bounds because what a thread has loaded
and is about to store does, and this because of the mutual exclusion per mutex.

**`PideShop_proofs`**: `TypeOK`, `OrderInOnePlace`, `ShovelsConserved`,
`ImplementsOrderLife`. `ShopInv` says which threads have an order in hand, that
what is in use of the two arrays are orders, and that the places of a client's
order are one place from its receipt on. Only with it the copies from array to
hand and back, which shift the rest of the array, are known to lose and to
double nothing; and with at most one order for each client in them the arrays
are never overrun, which the program does not check (the proof uses that there
are at most `MaxOrders` clients). For the refinement each step is shown to
change the stage of one order to its next, or of none. `NoWakeupLost` has the
same shape at each of the three conditions (`Backed`): while somebody sleeps,
what there is to take is at most the threads awake that will take it plus those
about to signal; what comes brings its signaller, a signal turns that into one
more thread awake, and who takes one drops out. `SomebodyAwake` follows, with
`ShovelsConserved` for the cooks that wait for a shovel: until the server
stops, the two waits of the cooks, each under a mutex of its own, never block
the shop.

**`Admission_proofs`**: `TypeOK`, `NeverOverfull` and `NobodyOverlooked`. The
count is wrong most of the time; the invariant says in which direction:
`SessionsCounted` (every session of the parent, and the one behind a pending
signal, is counted or about to be) and `SpotsLeft` (the count plus the spots set
aside by the parent and by the handler does not pass the maximum; a stale
register is never below the count). `SizeCovers` does the same for `size` and
the queue. `QueuedOnce` and `WelcomeKept` follow from `PlacesInv`: a client is
in the request FIFO, served by the parent, in the queue, admitted by the
handler, or through with it, in one of these places (`InOnePlace`); how far it
has got fits its place (`HowFar`), and what it was told does (`ToldRightly`),
unless another session has admitted it: the copies hold only clients that were
queued. All of this is about the places of the parent. That clients which
sessions admit come on top of the maximum, and are then in the parent's queue
and in a session, is in the model (`MaximumOfClients` is false); no theorem says
otherwise.

**`Requests_proofs`**: `FilesExclusive`, from `FilesInv`: the value of
`serverFileIOSemaphore` plus the number of sessions at the files, those that
wait for a child included, is at most 1 plus `freePosts`. `TypeOK`, with the
types of messages, queues and waiters. `InStep`, `NoneHeldUp` and
`UploadIntact`, from `TalkInv`: a steady client and its session are in
conversation. `Talking` gives, for each state of the client, the states the
session can be in and what the two FIFOs then hold; it is inductive only with
`Connected`, which says who has which FIFO open. There the descriptor that a
steady client has never closed appears by name ("cRD old"): without it a session
may read the end of a file where it expects the next request, and the
conversation is lost. Clients in the queue are `Aside`, in conversation from
their admission on. A handler that breaks an upload off leaves the conversation:
from then on the session passes over what the client sends of the file, its next
request perhaps included, and the client waits for ever (`Straying`); it gets no
wrong response.

**`TwoFifos_proofs`**: `NamesKept`, from `FifosInv`: while the parent lives,
`counter` plus the number of `zombies` is at most the number of children that
have ended, so that the parent leaves its loop when both have. Deaths by a
signal are in it; only ^C, with which a child's handler removes the names, is
excluded. `AnswerComputed`, from `Calm`: when nothing goes wrong, where the
three processes are determines who waits in `open`, who holds which FIFO open
and what is in it, in order, so that child2 prints what the arithmetic of both
children (`Answer`) makes of the whole array. `RightAnswer` then says that this
is the sum plus the result of the command, exactly, whenever that fits in a
`long`. It is proved by induction over the array: as long as a product has
stayed within `LongMax` the wrapping multiplications were exact; once it has
passed it, it stays there, unless a 0 follows, from which on both are 0.

**`Grades_proofs`**: `AddsKept`, from `AddsInv`: an entry is in the hands of one
process or once in the file (`Hands`, `Kept`, `NotLost`); while only additions
are typed, the living processes wait for one another in the order of their
births, all but the last (`Chain`), so that entries come in order (`Order`). The
hypothesis `Distinct` says that no entry is typed twice or in the file at first:
of two equal entries nobody can tell which command each is from, and the
property is stated of entries. `MCGrades` assumes it too. `AddsKept` is about
the additions that `main` understands; one behind another command in a read of a
pipe is lost. `ListedRight`, from `ListInv`: while a process lists, what it has
collected is that much of the file as it was at some moment since it opened it
(`Collected`), whoever adds between two reads, and what it prints is a listing
of that (`Listed`). This is said of listings that are `Whole`: no line was cut
in them and nothing in them is `Junk`. All those of `showAll` are; a page is
until a line is cut, the first entries when one buffer has as many, a sort or a
search as long as its reads go to the right place. The others can be anything.
For the sorted listings `bubbleSort` is proved to return the same elements in
order (`BubbleSorts`), for every array, key and direction: by induction over the
comparisons of a pass, which carries the greatest element to the end of what is
not sorted yet, and over the passes.

The assumptions are the named `ASSUME`s of the modules, which TLC evaluates in
every run. Beside types they say: a copier has a worker, and its worker count
is finite; the directory tree has no cycle (`TreeAcyclic`: every set of
entries has one whose directory is not in it); there are at most `MaxOrders`
clients, which the program does not enforce; an array of HW2 is not
empty and of numbers from 0 to 99, as `main` rejects a size below 1 and takes
`rand() % 100`; the greatest `long` is a natural number.

Only model-checked: all liveness properties, as liveness under fairness and
`ENABLED` are beyond the prover. `NoWakeupLost` and `SomebodyAwake` are what can
be proved of them: nobody sleeps on work, and not everybody sleeps. The
induction theorems of the prover's library take an operator as parameter, which
no backend can instantiate; the inductions above are therefore over sets of
natural numbers, each of which has a least element (`InductionNat`,
`Recursion`, from the well-foundedness of the order), and the loops of the code
are recursive functions instead of `RECURSIVE` operators.

## 5. Not modelled, and why

* Argument checks, creation of directories, FIFOs and semaphores at start: the
  initial states are those the programs reach after them.
* Log files and output, except where a property is about what is printed.
* The text of files and of requests on the Midterm server, with the string
  handling of `handleReadFrom` and `handleWriteTo`: it has no effect on the
  protocol but for the endless search, which is there.
* Admission and sessions in one module: two clients of each already give the
  largest state spaces TLC explores in minutes. What a session does with a
  client that another session admitted, among it the semaphores named by its own
  pid, is therefore not modelled, nor is a second session of a client that is
  admitted twice.
* Midterm: the bytes of a file that are read as a request are taken for no
  `requestType` (text is not); items are read and written whole but for the ends
  of files (`Torn`); a read of the archive that fails in the child that sends
  it; empty files and lists.
* HW1: partial writes (`writeToFile` would write the buffer from its start
  again), and reads and writes that fail. What is typed fits into the 1024 bytes
  of one read, line by line, and each line comes to a pipe whole. Entries end in
  a newline and are short enough for five of them to fit into a buffer (`First
  <= Buffer`), and a read that is full takes `Buffer` of them: a read of fewer,
  longer ones is that with a smaller `Buffer`. A name has no space, and is no
  beginning of another one.
* HW2: the array of more than about 330 numbers that overflows `str` (279): past
  it C defines nothing.
* The code of `pideshop.c` after its accept loop: the handler does not return to
  it.
* Sockets left open by `pideshop.c`, lengths of names and paths.

## 6. Plan

1. (done) HW4, its pool, HW5, HW3, Final, admission of Midterm.
2. (done) `Requests`: the sessions of Midterm, their requests and their end.
   `TwoFifos`: HW2. `Grades`: HW1. Proofs of `FilesExclusive` and `NamesKept`.
3. (done) Proofs of all safety properties and of the refinements of `CopyPool`
   and `OrderLife`; of the arithmetic of HW2 and the sort of HW1; that no wakeup
   is lost in HW4, HW5 and Final.
4. (done) What fails in the middle: short writes of HW4, sessions of Midterm that
   admit from their copies of the queue, files that are broken off, and the reads
   of HW1 that take several commands or cut a line.
5. Open: admission and sessions of Midterm in one module, with what the sessions
   do that other sessions forked; proofs of the liveness properties.
