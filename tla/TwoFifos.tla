------------------------------ MODULE TwoFifos ------------------------------
(***************************************************************************)
(* HW2: a parent sends an array through fifo1 to child1, which adds it up, *)
(* and a command and the array through fifo2 to child2, which waits for    *)
(* child1's sum on the same fifo2 and prints the sum plus its own result.  *)
(*                                                                         *)
(* Nothing but sleep(10) makes child2 read the sum after child1 has opened *)
(* fifo2, and the parent learns of the children's ends from SIGCHLD alone. *)
(* An array the program can print fits in PIPE_BUF (str, main.c:276, holds *)
(* 1024 bytes), so that a write or a read is one step.                     *)
(***************************************************************************)
EXTENDS Integers, Sequences, FiniteSets

CONSTANTS
  Scenarios,  \* see ScenariosAssumption
  LongMax     \* LONG_MAX: child2's result is a long

FaultKinds == {"late", "mkfifo", "fork child2", "fork child1", "kill", "int"}

(* What a run starts with: argv[2], the array, the FIFOs an earlier run    *)
(* has left, and what may go wrong: "late", something takes longer than    *)
(* the 10 seconds child2 sleeps; mkfifo or a fork fails; a child is        *)
(* killed; the user types ^C.                                              *)
ASSUME ScenariosAssumption ==
  \A s \in Scenarios :
    /\ s.command \in {"sum", "multiply"}
    /\ s.array \in Seq(0 .. 99) /\ s.array # <<>>
    /\ s.stale \subseteq {"fifo1", "fifo2"} /\ s.faults \subseteq FaultKinds
ASSUME LongAssumption == LongMax \in Nat

VARIABLES
  scenario,      \* chosen from Scenarios, and kept
  pc,            \* pc[p]: what process p does next
  disk,          \* the FIFOs that have a name
  fifo,          \* fifo[f]: who has f open, and what is in it
  waiting,       \* processes that wait in open for the other side
  counter,       \* children the SIGCHLD handler has counted
  zombies,       \* children that have ended and are not reaped
  sigchld,       \* SIGCHLD is pending for the parent
  sigint,        \* processes SIGINT is pending for
  command, array,    \* what a child has read: its command, array[child]
  sum, result, sumFromChild1,
  final          \* what child2 prints

vars == <<scenario, pc, disk, fifo, waiting, counter, zombies, sigchld,
          sigint, command, array, sum, result, sumFromChild1, final>>
localVars == <<command, array, sum, result, sumFromChild1, final>>
childVars == <<counter, zombies, sigchld>>

Children == {"child1", "child2"}
Procs == Children \cup {"parent"}
Fifos == {"fifo1", "fifo2"}
Sides == {"readers", "writers"}
Other(side) == CHOOSE s \in Sides : s # side

None == "none"      \* no command
Message(what, value) == [what |-> what, value |-> value]

Alive(p) == pc[p] \notin {"unborn", "ended"}
At(p, here) == pc[p] = here /\ p \notin waiting
Goto(p, there) == pc' = [pc EXCEPT ![p] = there]

(* A descriptor that is closed, and what is lost when nobody has one.      *)
Shut(p, f) ==
  LET readers == fifo[f].readers \ {p}
      writers == fifo[f].writers \ {p}
  IN  [readers |-> readers, writers |-> writers,
       data |-> IF readers \cup writers = {} THEN <<>> ELSE fifo[f].data]

(* The process p is over: its descriptors are closed, and its parent, if   *)
(* that lives, has a SIGCHLD.                                              *)
End(p) ==
  /\ Goto(p, "ended")
  /\ fifo' = [f \in Fifos |-> Shut(p, f)]
  /\ waiting' = waiting \ {p} /\ sigint' = sigint \ {p}
  /\ IF p \in Children /\ Alive("parent")
     THEN zombies' = zombies \cup {p} /\ sigchld' = TRUE
     ELSE UNCHANGED <<zombies, sigchld>>
  /\ UNCHANGED <<scenario, counter>>

(* open of a FIFO waits until somebody has the other side, and lets those  *)
(* go on who wait on that side.  It fails when the name is gone.           *)
Open(p, here, f, side, there) ==
  /\ At(p, here)
  /\ IF f \notin disk
     THEN End(p)
     ELSE /\ Goto(p, there)
          /\ fifo' = [fifo EXCEPT ![f][side] = @ \cup {p}]
          /\ waiting' = IF fifo[f][Other(side)] = {}
                        THEN waiting \cup {p}
                        ELSE waiting \ fifo[f][Other(side)]
          /\ UNCHANGED <<scenario, childVars, sigint>>
  /\ UNCHANGED <<disk, localVars>>

(* write without a reader raises SIGPIPE, which ends the process.          *)
Write(p, here, f, message, there) ==
  /\ At(p, here)
  /\ IF fifo[f].readers = {}
     THEN End(p)
     ELSE /\ Goto(p, there)
          /\ fifo' = [fifo EXCEPT ![f].data = Append(@, message)]
          /\ UNCHANGED <<scenario, waiting, childVars, sigint>>
  /\ UNCHANGED <<disk, localVars>>

(* read waits for data while somebody has the other side; it returns 0,    *)
(* and leaves the variable as it was, when nobody has.                     *)
Read(p, here, f, there) ==
  /\ At(p, here) /\ Goto(p, there)
  /\ fifo[f].data # <<>> \/ fifo[f].writers = {}
  /\ fifo' = [fifo EXCEPT ![f].data = IF @ = <<>> THEN @ ELSE Tail(@)]
  /\ UNCHANGED <<scenario, disk, waiting, childVars, sigint>>
Got(f, variable) ==
  IF fifo[f].data = <<>> THEN variable ELSE Head(fifo[f].data).value

Close(p, here, f, there) ==
  /\ At(p, here) /\ Goto(p, there)
  /\ fifo' = [fifo EXCEPT ![f] = Shut(p, f)]
  /\ UNCHANGED <<scenario, disk, waiting, childVars, sigint, localVars>>

Step(p, here, there) == At(p, here) /\ Goto(p, there)

-----------------------------------------------------------------------------
Init ==
  /\ scenario \in Scenarios
  /\ pc = [p \in Procs |-> IF p = "parent" THEN "mkfifo" ELSE "unborn"]
  /\ disk = scenario.stale
  /\ fifo = [f \in Fifos |-> [readers |-> {}, writers |-> {}, data |-> <<>>]]
  /\ waiting = {} /\ sigint = {}
  /\ counter = 0 /\ zombies = {} /\ sigchld = FALSE
  /\ command = None /\ array = [c \in Children |-> <<>>]
  /\ sum = 0 /\ result = 0 /\ sumFromChild1 = 0 /\ final = <<>>

(* main, lines 239-258: a FIFO that is there already is as good.           *)
MkFifos ==
  /\ At("parent", "mkfifo")
  /\ \/ /\ disk' = Fifos /\ Goto("parent", "fork child2")
        /\ UNCHANGED <<scenario, fifo, waiting, childVars, sigint>>
     \/ /\ "mkfifo" \in scenario.faults /\ End("parent")
        /\ disk' \in {disk, disk \cup {"fifo1"}}
  /\ UNCHANGED localVars

(* fork handles a pending signal first.                                    *)
Fork(here, child, first, there) ==
  /\ At("parent", here) /\ "parent" \notin sigint
  /\ \/ /\ pc' = [pc EXCEPT !["parent"] = there, ![child] = first]
        /\ UNCHANGED <<scenario, fifo, waiting, childVars, sigint>>
     \/ here \in scenario.faults /\ End("parent")
  /\ UNCHANGED <<disk, localVars>>
ForkChild2 == Fork("fork child2", "child2", "open", "open fifo2")
ParentOpensFifo2 ==
  Open("parent", "open fifo2", "fifo2", "writers", "write command")
WriteCommand ==
  Write("parent", "write command", "fifo2",
        Message("command", scenario.command), "write array")
WriteArray ==
  Write("parent", "write array", "fifo2",
        Message("array", scenario.array), "close fifo2")
ParentClosesFifo2 == Close("parent", "close fifo2", "fifo2", "fork child1")
ForkChild1 == Fork("fork child1", "child1", "open", "open fifo1")
ParentOpensFifo1 ==
  Open("parent", "open fifo1", "fifo1", "writers", "write fifo1")
WriteFifo1 ==
  Write("parent", "write fifo1", "fifo1",
        Message("array", scenario.array), "close fifo1")
ParentClosesFifo1 == Close("parent", "close fifo1", "fifo1", "loop")

(* Mutant: the loop ends with the first child. *)
OneCounted ==
  /\ counter > 0 /\ Step("parent", "loop", "unlink")
  /\ UNCHANGED <<scenario, disk, fifo, waiting, childVars, sigint, localVars>>
(* "proceeding..." every 2 seconds until counter is 2.                     *)
BothCounted ==
  /\ counter = 2 /\ Step("parent", "loop", "unlink")
  /\ UNCHANGED <<scenario, disk, fifo, waiting, childVars, sigint, localVars>>
Unlink ==
  /\ At("parent", "unlink") /\ End("parent") /\ disk' = {}
  /\ UNCHANGED localVars

(* Mutant: the handler calls waitpid once for a signal. *)
ReapsOne ==
  /\ Alive("parent") /\ sigchld /\ sigchld' = FALSE
  /\ counter' = counter + 1 /\ \E c \in zombies : zombies' = zombies \ {c}
  /\ UNCHANGED <<scenario, pc, disk, fifo, waiting, sigint, localVars>>
(* sigchld_handler reaps every child that has ended: signals that came     *)
(* together are one.  An open it interrupts is begun anew (SA_RESTART);    *)
(* its FIFO loses its name only when the parent has a SIGINT as well.      *)
SigchldHandler ==
  /\ Alive("parent") /\ sigchld /\ sigchld' = FALSE
  /\ counter' = counter + Cardinality(zombies) /\ zombies' = {}
  /\ UNCHANGED <<scenario, pc, disk, fifo, waiting, sigint, localVars>>

-----------------------------------------------------------------------------
Sums(a) ==
  LET after[i \in 0 .. Len(a)] == IF i = 0 THEN 0 ELSE after[i - 1] + a[i]
  IN  after
Total(a) == Sums(a)[Len(a)]
Child1OpensFifo1 == Open("child1", "open", "fifo1", "readers", "read array")
Child1ReadsArray ==
  /\ Read("child1", "read array", "fifo1", "close fifo1")
  /\ array' = [array EXCEPT !["child1"] = Got("fifo1", @)]
  /\ sum' = Total(array'["child1"])
  /\ UNCHANGED <<command, result, sumFromChild1, final>>
Child1ClosesFifo1 == Close("child1", "close fifo1", "fifo1", "open fifo2")
Child1OpensFifo2 ==
  Open("child1", "open fifo2", "fifo2", "writers", "write sum")
WriteSum == Write("child1", "write sum", "fifo2", Message("sum", sum), "close")
Child1ClosesFifo2 == Close("child1", "close", "fifo2", "sleep")
Child1Prints ==
  /\ At("child1", "sleep") /\ End("child1") /\ UNCHANGED <<disk, localVars>>

Child2OpensFifo2 == Open("child2", "open", "fifo2", "readers", "read command")
ReadCommand ==
  /\ Read("child2", "read command", "fifo2", "read array")
  /\ command' = Got("fifo2", command)
  /\ UNCHANGED <<array, sum, result, sumFromChild1, final>>

(* A long keeps the low bits of a product or a sum.  What read has not     *)
(* filled is 0 in a fresh heap: no command, and 0 for its result.          *)
Long(n) == ((n + LongMax + 1) % (2 * (LongMax + 1))) - (LongMax + 1)
LongProducts(a) ==
  LET after[i \in 0 .. Len(a)] ==
        IF i = 0 THEN 1 ELSE Long(after[i - 1] * a[i])
  IN  after
Result(cmd, a) ==
  IF a = <<>> THEN 0
  ELSE CASE cmd = "sum" -> Total(a)
         [] cmd = "multiply" -> LongProducts(a)[Len(a)]
         [] OTHER -> 0
Child2ReadsArray ==
  /\ Read("child2", "read array", "fifo2", "sleep")
  /\ array' = [array EXCEPT !["child2"] = Got("fifo2", @)]
  /\ result' = Result(command, array'["child2"])
  /\ UNCHANGED <<command, sum, sumFromChild1, final>>

(* 10 seconds outlast whatever the others do until they sleep, wait, poll  *)
(* or have ended; when something is late they do not.                      *)
Idle(p) == p \in waiting \/ pc[p] \in {"unborn", "loop", "sleep", "ended"}
(* Mutant: child2 does not sleep. *)
Child2Hurries ==
  /\ Step("child2", "sleep", "read sum")
  /\ UNCHANGED <<scenario, disk, fifo, waiting, childVars, sigint, localVars>>
Child2Wakes ==
  /\ "late" \in scenario.faults \/ (Idle("parent") /\ Idle("child1"))
  /\ Step("child2", "sleep", "read sum")
  /\ UNCHANGED <<scenario, disk, fifo, waiting, childVars, sigint, localVars>>
ReadSum ==
  /\ Read("child2", "read sum", "fifo2", "close")
  /\ sumFromChild1' = Got("fifo2", sumFromChild1)
  /\ UNCHANGED <<command, array, sum, result, final>>
Child2ClosesFifo2 == Close("child2", "close", "fifo2", "print")
Child2Prints ==
  /\ At("child2", "print") /\ End("child2")
  /\ final' = <<Long(sumFromChild1 + result)>>
  /\ UNCHANGED <<disk, command, array, sum, result, sumFromChild1>>

-----------------------------------------------------------------------------
(* ^C reaches the three; sigint_handler removes both names and exits.      *)
Interrupt ==
  /\ "int" \in scenario.faults /\ sigint = {} /\ Alive("parent")
  /\ sigint' = {p \in Procs : Alive(p)}
  /\ UNCHANGED <<scenario, pc, disk, fifo, waiting, childVars, localVars>>
SigintHandler(p) ==
  /\ p \in sigint /\ End(p) /\ disk' = {} /\ UNCHANGED localVars
Kill(p) ==
  /\ "kill" \in scenario.faults /\ Alive(p) /\ End(p)
  /\ UNCHANGED <<disk, localVars>>

ParentStep ==
  \/ MkFifos \/ ForkChild2 \/ ParentOpensFifo2 \/ WriteCommand \/ WriteArray
  \/ ParentClosesFifo2 \/ ForkChild1 \/ ParentOpensFifo1 \/ WriteFifo1
  \/ ParentClosesFifo1 \/ BothCounted \/ Unlink
Child1Step ==
  \/ Child1OpensFifo1 \/ Child1ReadsArray \/ Child1ClosesFifo1
  \/ Child1OpensFifo2 \/ WriteSum \/ Child1ClosesFifo2 \/ Child1Prints
Child2Step ==
  \/ Child2OpensFifo2 \/ ReadCommand \/ Child2ReadsArray \/ Child2Wakes
  \/ ReadSum \/ Child2ClosesFifo2 \/ Child2Prints
Next ==
  \/ ParentStep \/ Child1Step \/ Child2Step \/ SigchldHandler \/ Interrupt
  \/ \E p \in Procs : SigintHandler(p)
  \/ \E p \in Children : Kill(p)

Spec == Init /\ [][Next]_vars

(* The scheduler lets every process run, and the kernel delivers a signal. *)
FairSpec ==
  /\ Spec
  /\ WF_vars(ParentStep) /\ WF_vars(Child1Step) /\ WF_vars(Child2Step)
  /\ WF_vars(SigchldHandler)
  /\ \A p \in Procs : WF_vars(SigintHandler(p))

-----------------------------------------------------------------------------
(* When nothing is late, killed, interrupted or refused, what child2       *)
(* prints is the sum of the array plus the result of the command, computed *)
(* by two processes of what they read of one FIFO that two others write    *)
(* to; unless this does not fit in a long (main.c:168).  Answer is what    *)
(* the children's arithmetic makes of the array, Exact what it should.     *)
Products(a) ==
  LET after[i \in 0 .. Len(a)] == IF i = 0 THEN 1 ELSE after[i - 1] * a[i]
  IN  after
Exact(s) ==
  Total(s.array) +
    (IF s.command = "sum" THEN Total(s.array)
     ELSE Products(s.array)[Len(s.array)])
Answer(s) == Long(Total(s.array) + Result(s.command, s.array))
RightAnswer ==
  /\ scenario.faults = {} /\ final # <<>> /\ Exact(scenario) <= LongMax
  => final = <<Exact(scenario)>>

(* Without ^C, a FIFO keeps its name as long as somebody has still to open *)
(* it, whatever is late, and whoever dies: the parent removes the names    *)
(* after the end of both children only (main.c:337, 347).                  *)
WillOpen(p, f) ==
  \/ p = "child1" /\ f = "fifo1" /\ pc[p] = "open"
  \/ p = "child1" /\ f = "fifo2"
       /\ pc[p] \in {"open", "read array", "close fifo1", "open fifo2"}
  \/ p = "child2" /\ f = "fifo2" /\ pc[p] = "open"
NamesKept ==
  "int" \notin scenario.faults =>
    \A p \in Procs, f \in Fifos : WillOpen(p, f) => f \in disk

(* Every process ends and the names are gone, also after ^C, although the  *)
(* children's SIGCHLDs may come as one, during an open or before the loop. *)
(* All that can keep the program from it is that child2 reads too early or *)
(* that a child is killed: somebody then waits in open for ever for one    *)
(* that has ended.                                                         *)
Over == \A p \in Procs : ~Alive(p)
Tidy == scenario.faults \subseteq {"late", "int"} => disk = {}
Stranded(p) ==
  /\ p \in waiting
  /\ \E f \in Fifos :
       /\ p \in fifo[f].readers \cup fifo[f].writers
       /\ fifo[f].readers = {} \/ fifo[f].writers = {}
EveryoneEnds ==
  \/ <>(Over /\ Tidy)
  \/ scenario.faults \cap {"late", "kill"} # {}
     /\ <>[](\E p \in Procs : Stranded(p))
=============================================================================
