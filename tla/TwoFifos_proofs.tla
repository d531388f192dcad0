-------------------------- MODULE TwoFifos_proofs --------------------------
(***************************************************************************)
(* Proofs about TwoFifos, for all scenarios.                               *)
(*                                                                         *)
(* FifosInv holds whatever happens: the children that are counted or wait  *)
(* to be reaped have ended (Counting), so that the parent comes to remove  *)
(* the names only when both have (Last); a child runs only after it was    *)
(* forked (Born); and, without ^C, both FIFOs have a name from the first   *)
(* fork on until the parent removes them (Names).                          *)
(*                                                                         *)
(* Calm holds as long as nothing is late, killed, interrupted or refused:  *)
(* the three stay Together, nobody being ahead of those it talks to, and   *)
(* where they are says who waits in open (Waits), who has which FIFO open  *)
(* (HeldOpen), what is in the FIFOs, in order (InFifo1, InFifo2), and what *)
(* the children have read and worked out (Known).  What child2 prints is   *)
(* one of the things Known (AnswerComputed).                               *)
(*                                                                         *)
(* What it has worked out is right (RightAnswerHolds) because the loops    *)
(* over the array, recursive functions here, compute the exact product     *)
(* when that fits in a long (ProductFits): by induction over the numbers   *)
(* (InductionNat, Recursion).                                              *)
(***************************************************************************)
EXTENDS TwoFifos, FiniteSetTheorems, SequenceTheorems, WellFoundedInduction,
        TLAPS

Labels ==
  {"unborn", "mkfifo", "fork child2", "open fifo2", "write command",
   "write array", "close fifo2", "fork child1", "open fifo1", "write fifo1",
   "close fifo1", "loop", "unlink", "open", "read array", "write sum",
   "close", "sleep", "read command", "read sum", "print", "ended"}
EndedChildren == {c \in Children : pc[c] = "ended"}
Types ==
  /\ pc \in [Procs -> Labels] /\ disk \subseteq Fifos /\ counter \in Nat
  /\ zombies \subseteq EndedChildren
  /\ \A p \in sigint : p \in Procs /\ Alive(p)
Counting == counter + Cardinality(zombies) <= Cardinality(EndedChildren)
Last == pc["parent"] = "unlink" => EndedChildren = Children
Before(c) ==
  {"mkfifo", "fork child2"} \cup
    IF c = "child2" THEN {}
    ELSE {"open fifo2", "write command", "write array", "close fifo2",
          "fork child1"}
Born == \A c \in Children : pc["parent"] \in Before(c) => pc[c] = "unborn"
Names ==
  "int" \notin scenario.faults =>
    /\ sigint = {}
    /\ pc["parent"] \notin {"mkfifo", "ended"} => disk = Fifos
    /\ (\E c \in Children : Alive(c)) => disk = Fifos
FifosInv == Types /\ Counting /\ Last /\ Born /\ Names

LEMMA EndedFinite ==
  ASSUME NEW S \in SUBSET Children
  PROVE  /\ IsFiniteSet(S) /\ Cardinality(S) \in Nat
         /\ Cardinality(S) >= 2 => S = Children
  <1>1. IsFiniteSet(Children) /\ Cardinality(Children) = 2
    <2>1. "child1" # "child2"
      OBVIOUS
    <2>2. IsFiniteSet({"child1"}) /\ Cardinality({"child1"}) = 1
      BY FS_Singleton
    <2>3. Children = {"child1"} \cup {"child2"}
      BY DEF Children
    <2> QED
      BY <2>1, <2>2, <2>3, FS_AddElement
  <1>2. IsFiniteSet(S) /\ Cardinality(S) <= 2 /\ Cardinality(S) \in Nat
    BY <1>1, FS_Subset, FS_CardinalityType
  <1>3. ASSUME Cardinality(S) >= 2 PROVE S = Children
    BY <1>1, <1>2, <1>3, FS_Subset
  <1> QED
    BY <1>2, <1>3

(* A process goes on: nobody ends, no name is lost.                        *)
LEMMA GoesOn ==
  ASSUME FifosInv, NEW p \in Procs, NEW there \in Labels, Alive(p),
         there \notin {"unborn", "ended", "unlink"}, Goto(p, there),
         pc[p] # "mkfifo" \/ disk' = Fifos, disk' \in {disk, Fifos},
         p = "parent" => \A c \in Children :
                           there \in Before(c) => pc[p] \in Before(c),
         UNCHANGED <<scenario, childVars, sigint>>
  PROVE  FifosInv'
  <1>1. Types' /\ EndedChildren' = EndedChildren
    BY DEF FifosInv, Types, Goto, Alive, EndedChildren, Procs, Children,
           childVars
  <1>2. Counting' /\ Last'
    BY <1>1 DEF FifosInv, Types, Counting, Last, Goto, Procs, childVars
  <1>3. Names'
    BY <1>1 DEF FifosInv, Types, Names, Goto, Alive, Procs, Children
  <1>4. Born'
    BY DEF FifosInv, Types, Born, Before, Goto, Alive, Procs, Children
  <1> QED
    BY <1>1, <1>2, <1>3, <1>4 DEF FifosInv

(* A process ends.                                                         *)
LEMMA Ends ==
  ASSUME FifosInv, NEW p \in Procs, Alive(p), End(p), disk' \subseteq Fifos,
         \/ disk \subseteq disk'
         \/ "int" \in scenario.faults
         \/ p = "parent" /\ EndedChildren = Children
  PROVE  FifosInv'
  <1>1. EndedChildren' = IF p \in Children THEN EndedChildren \cup {p}
                                           ELSE EndedChildren
    BY DEF FifosInv, Types, End, Goto, EndedChildren, Procs, Children
  <1>2. p \notin EndedChildren
    BY DEF Alive, EndedChildren
  <1>3. zombies' = zombies \/ (p \in Children /\ zombies' = zombies \cup {p})
    BY DEF End
  <1>4. Types'
    <2>1. /\ pc' \in [Procs -> Labels]
          /\ disk' \subseteq Fifos /\ counter' \in Nat
      BY DEF FifosInv, Types, End, Goto, Labels
    <2>3. \A q \in sigint' : q \in Procs /\ Alive(q)'
      BY DEF FifosInv, Types, End, Goto, Alive
    <2>2. zombies' \subseteq EndedChildren'
      BY <1>1, <1>3 DEF FifosInv, Types
    <2> QED
      BY <2>1, <2>2, <2>3 DEF Types
  <1>5. Counting'
    <2>1. CASE p \in Children
      <3>1. IsFiniteSet(EndedChildren) /\ Cardinality(EndedChildren) \in Nat
        BY EndedFinite DEF EndedChildren
      <3>2. IsFiniteSet(zombies) /\ Cardinality(zombies) \in Nat
        BY <3>1, FS_Subset, FS_CardinalityType DEF FifosInv, Types
      <3>3. Cardinality(EndedChildren') = Cardinality(EndedChildren) + 1
        BY <1>1, <1>2, <2>1, <3>1, FS_AddElement
      <3>4. p \notin zombies
        BY <1>2 DEF FifosInv, Types
      <3>5. Cardinality(zombies') <= Cardinality(zombies) + 1
        <4>1. Cardinality(zombies \cup {p}) = Cardinality(zombies) + 1
          BY <3>2, <3>4, FS_AddElement
        <4>2. CASE zombies' = zombies
          BY <3>2, <4>2
        <4>3. CASE zombies' = zombies \cup {p}
          BY <3>2, <4>1, <4>3
        <4> QED
          BY <1>3, <4>2, <4>3
      <3>6. Cardinality(zombies') \in Nat
        BY <1>1, <1>3, <3>2, FS_AddElement, FS_CardinalityType
      <3> QED
        BY <3>1, <3>2, <3>3, <3>5, <3>6 DEF FifosInv, Types, Counting, End
    <2>2. CASE p \notin Children
      BY <1>1, <1>3, <2>2 DEF FifosInv, Counting, End
    <2> QED
      BY <2>1, <2>2
  <1>6. Last'
    BY <1>1 DEF FifosInv, Types, Last, End, Goto, Procs, EndedChildren
  <1>7. Names'
    BY <1>1 DEF FifosInv, Types, Names, End, Goto, Alive, Procs, Children,
                EndedChildren
  <1>8. Born'
    BY DEF FifosInv, Types, Born, Before, End, Goto, Alive, Procs, Children
  <1> QED
    BY <1>4, <1>5, <1>6, <1>7, <1>8 DEF FifosInv

(* The handler counts those it reaps.                                      *)
LEMMA HandlerCounts == FifosInv /\ SigchldHandler => FifosInv'
  <1> SUFFICES ASSUME FifosInv, SigchldHandler PROVE FifosInv'
    OBVIOUS
  <1>1. EndedChildren' = EndedChildren
    BY DEF SigchldHandler, EndedChildren
  <1>2. Cardinality(zombies) \in Nat /\ Cardinality(zombies') = 0
    <2>1. zombies \in SUBSET Children
      BY DEF FifosInv, Types, EndedChildren
    <2> QED
      BY <2>1, EndedFinite, FS_EmptySet DEF SigchldHandler
  <1>3. Cardinality(EndedChildren) \in Nat
    BY EndedFinite DEF EndedChildren
  <1>4. Types'
    BY <1>1, <1>2 DEF FifosInv, Types, Alive, SigchldHandler
  <1>5. Counting'
    BY <1>1, <1>2, <1>3 DEF FifosInv, Types, Counting, SigchldHandler
  <1>6. Last' /\ Names' /\ Born'
    BY <1>1 DEF FifosInv, Last, Names, Born, SigchldHandler, Alive
  <1> QED
    BY <1>4, <1>5, <1>6 DEF FifosInv

-----------------------------------------------------------------------------
(* What an operation on a FIFO does to a process, whoever calls it.        *)
LEMMA FifoOperations ==
  ASSUME FifosInv, NEW p \in Procs, NEW here \in Labels, NEW there \in Labels,
         here \notin {"unborn", "ended", "mkfifo"},
         there \notin {"unborn", "ended", "unlink"}, NEW f \in Fifos,
         p = "parent" => \A c \in Children :
                           there \in Before(c) => here \in Before(c),
         NEW side \in Sides, NEW message,
         \/ Open(p, here, f, side, there)
         \/ Write(p, here, f, message, there)
         \/ Read(p, here, f, there)
         \/ Close(p, here, f, there)
  PROVE  FifosInv'
  <1>1. Alive(p) /\ pc[p] # "mkfifo" /\ disk' = disk
    BY DEF Open, Write, Read, Close, At, Alive
  <1>2. CASE End(p)
    BY <1>1, <1>2, Ends DEF FifosInv, Types
  <1>3. CASE Goto(p, there) /\ UNCHANGED <<scenario, childVars, sigint>>
    <2>1. pc[p] = here
      BY DEF Open, Write, Read, Close, At
    <2> QED
      BY <1>1, <1>3, <2>1, GoesOn
  <1> QED
    BY <1>2, <1>3 DEF Open, Write, Read, Close

LEMMA ParentKeeps == FifosInv /\ ParentStep => FifosInv'
  <1> SUFFICES ASSUME FifosInv, ParentStep PROVE FifosInv'
    OBVIOUS
  <1> "parent" \in Procs /\ "fifo1" \in Fifos /\ "fifo2" \in Fifos
    BY DEF Procs, Fifos
  <1> "writers" \in Sides
    BY DEF Sides
  <1>0. \A c : "write fifo1" \notin Before(c) /\ "close fifo1" \notin Before(c)
               /\ "loop" \notin Before(c)
    BY DEF Before
  <1>1. CASE MkFifos
    <2>1. Alive("parent") /\ pc["parent"] = "mkfifo" /\ disk' \subseteq Fifos
      BY <1>1 DEF MkFifos, At, Alive, FifosInv, Types
    <2>2. CASE End("parent") /\ disk \subseteq disk'
      BY <2>1, <2>2, Ends
    <2>3. CASE disk' = Fifos /\ Goto("parent", "fork child2")
                 /\ UNCHANGED <<scenario, childVars, sigint>>
      BY <2>1, <2>3, GoesOn DEF Labels, Before
    <2> QED
      BY <1>1, <2>2, <2>3 DEF MkFifos
  <1>2. ASSUME NEW here \in Labels, NEW there \in Labels,
               NEW child \in Children,
               here \in Before(child), here # "mkfifo",
               there \notin {"mkfifo", "unborn", "ended", "unlink"},
               \A c \in Children \ {child} :
                 there \in Before(c) => here \in Before(c),
               there \notin Before(child),
               Fork(here, child, "open", there)
        PROVE  FifosInv'
    <2>1. CASE End("parent")
      BY <1>2, <2>1, Ends DEF Fork, At, Alive, Before, FifosInv, Types
    <2>2. CASE /\ pc' = [pc EXCEPT !["parent"] = there, ![child] = "open"]
               /\ UNCHANGED <<scenario, childVars, sigint>>
      <3>1. pc["parent"] = here /\ pc[child] = "unborn" /\ disk' = disk
        BY <1>2 DEF Fork, At, FifosInv, Born
      <3>2. EndedChildren' = EndedChildren
        BY <1>2, <2>2, <3>1 DEF FifosInv, Types, EndedChildren, Procs, Children
      <3>3. Types' /\ Counting'
        <4>1. pc' \in [Procs -> Labels] /\ disk' = disk
          BY <1>2, <2>2, <3>1 DEF FifosInv, Types, Labels, Procs
        <4>2. \A q \in sigint' : q \in Procs /\ Alive(q)'
          BY <1>2, <2>2, <3>1 DEF FifosInv, Types, Alive
        <4> QED
          BY <2>2, <3>2, <4>1, <4>2 DEF FifosInv, Types, Counting, childVars
      <3>4. Last'
        BY <1>2, <2>2, <3>1 DEF FifosInv, Types, Last, Procs, Children
      <3>5. Born'
        BY <1>2, <2>2, <3>1 DEF FifosInv, Types, Born, Procs, Children
      <3>6. Names'
        BY <1>2, <2>2, <3>1
           DEF FifosInv, Types, Names, Before, Procs, Children
      <3> QED
        BY <3>3, <3>4, <3>5, <3>6 DEF FifosInv
    <2> QED
      BY <1>2, <2>1, <2>2 DEF Fork
  <1>3. CASE ForkChild2
    <2> "child2" \in Children
      BY DEF Children
    <2> QED
      BY <1>2, <1>3 DEF Labels, ForkChild2, Before, Children
  <1>4. CASE ForkChild1
    <2> "child1" \in Children
      BY DEF Children
    <2> QED
      BY <1>2, <1>4 DEF Labels, ForkChild1, Before, Children
  <1>5. CASE ParentOpensFifo2 \/ ParentOpensFifo1
    <2>1. CASE ParentOpensFifo2
      BY <2>1, FifoOperations DEF Labels, ParentOpensFifo2, Before
    <2>2. CASE ParentOpensFifo1
      BY <1>0, <2>2, FifoOperations DEF Labels, ParentOpensFifo1
    <2> QED
      BY <1>5, <2>1, <2>2
  <1>6. CASE WriteCommand \/ WriteArray \/ WriteFifo1
    <2>1. CASE WriteCommand
      BY <2>1, FifoOperations DEF Labels, WriteCommand, Before
    <2>2. CASE WriteArray
      BY <2>2, FifoOperations DEF Labels, WriteArray, Before
    <2>3. CASE WriteFifo1
      BY <1>0, <2>3, FifoOperations DEF Labels, WriteFifo1
    <2> QED
      BY <1>6, <2>1, <2>2, <2>3
  <1>7. CASE ParentClosesFifo2 \/ ParentClosesFifo1
    <2>1. CASE ParentClosesFifo2
      BY <2>1, FifoOperations DEF Labels, ParentClosesFifo2, Before
    <2>2. CASE ParentClosesFifo1
      BY <1>0, <2>2, FifoOperations DEF Labels, ParentClosesFifo1
    <2> QED
      BY <1>7, <2>1, <2>2
  <1>8. CASE BothCounted
    <2>1. EndedChildren' = EndedChildren /\ EndedChildren = Children
      <3>1. counter = 2 /\ Cardinality(zombies) \in Nat
        <4>1. zombies \in SUBSET Children
          BY DEF FifosInv, Types, EndedChildren
        <4> QED
          BY <1>8, <4>1, EndedFinite DEF BothCounted
      <3>2. Cardinality(EndedChildren) >= 2
        <4>1. Cardinality(EndedChildren) \in Nat
          BY EndedFinite DEF EndedChildren
        <4> QED
          BY <3>1, <4>1 DEF FifosInv, Counting
      <3>3. EndedChildren = Children
        BY <3>2, EndedFinite DEF EndedChildren
      <3>4. EndedChildren' = EndedChildren
        BY <1>8 DEF BothCounted, Step, Goto, EndedChildren, FifosInv, Types,
                    Procs, Children
      <3> QED
        BY <3>3, <3>4
    <2>2. Types'
      BY <1>8, <2>1 DEF BothCounted, Step, Goto, At, Alive, FifosInv, Types,
                        Labels, childVars
    <2> Counting' /\ Last'
      BY <1>8, <2>1 DEF BothCounted, FifosInv, Counting, Last, childVars
    <2>3. Born' /\ Names'
      BY <1>8, <2>1 DEF BothCounted, Step, Goto, At, FifosInv, Types, Born,
                        Names, Before, Alive, Procs, Children, childVars
    <2> QED
      BY <2>2, <2>3 DEF FifosInv
  <1>9. CASE Unlink
    <2>1. Alive("parent") /\ EndedChildren = Children
      BY <1>9 DEF Unlink, At, Alive, FifosInv, Last
    <2> QED
      BY <1>9, <2>1, Ends DEF Unlink
  <1> QED
    BY <1>1, <1>3, <1>4, <1>5, <1>6, <1>7, <1>8, <1>9 DEF ParentStep

LEMMA ChildrenKeep == FifosInv /\ (Child1Step \/ Child2Step) => FifosInv'
  <1> SUFFICES ASSUME FifosInv, Child1Step \/ Child2Step PROVE FifosInv'
    OBVIOUS
  <1> /\ "child1" \in Procs /\ "child2" \in Procs
      /\ "fifo1" \in Fifos /\ "fifo2" \in Fifos
      /\ "readers" \in Sides /\ "writers" \in Sides
    BY DEF Procs, Children, Fifos, Sides
  <1>1. CASE Child1OpensFifo1 \/ Child1OpensFifo2 \/ Child2OpensFifo2
    <2>1. CASE Child1OpensFifo1
      BY <2>1, FifoOperations DEF Labels, Child1OpensFifo1
    <2>2. CASE Child1OpensFifo2
      BY <2>2, FifoOperations DEF Labels, Child1OpensFifo2
    <2>3. CASE Child2OpensFifo2
      BY <2>3, FifoOperations DEF Labels, Child2OpensFifo2
    <2> QED
      BY <1>1, <2>1, <2>2, <2>3
  <1>2. CASE Child1ReadsArray \/ ReadCommand \/ Child2ReadsArray \/ ReadSum
    BY <1>2, FifoOperations
       DEF Labels, Child1ReadsArray, ReadCommand, Child2ReadsArray, ReadSum
  <1>3. CASE WriteSum
    BY <1>3, FifoOperations DEF Labels, WriteSum
  <1>4. CASE Child1ClosesFifo1 \/ Child1ClosesFifo2 \/ Child2ClosesFifo2
    BY <1>4, FifoOperations
       DEF Labels, Child1ClosesFifo1, Child1ClosesFifo2, Child2ClosesFifo2
  <1>5. CASE Child1Prints \/ Child2Prints
    <2>1. CASE Child1Prints
      BY <2>1, Ends DEF Child1Prints, At, Alive, FifosInv, Types
    <2>2. CASE Child2Prints
      BY <2>2, Ends DEF Child2Prints, At, Alive, FifosInv, Types
    <2> QED
      BY <1>5, <2>1, <2>2
  <1>6. CASE Child2Wakes
    BY <1>6, GoesOn DEF Labels, Child2Wakes, Step, At, Alive
  <1> QED
    BY <1>1, <1>2, <1>3, <1>4, <1>5, <1>6 DEF Child1Step, Child2Step

LEMMA SignalsKeep ==
  ASSUME FifosInv,
         \/ Interrupt \/ \E p \in Procs : SigintHandler(p)
         \/ \E p \in Children : Kill(p)
  PROVE  FifosInv'
  <1>1. CASE Interrupt
    <2>1. EndedChildren' = EndedChildren
      BY <1>1 DEF Interrupt, EndedChildren
    <2> QED
      BY <1>1, <2>1 DEF Interrupt, FifosInv, Types, Counting, Last, Born,
                        Names, Alive, childVars
  <1>2. ASSUME NEW p \in Procs, SigintHandler(p) PROVE FifosInv'
    <2>1. Alive(p) /\ "int" \in scenario.faults
      BY <1>2 DEF SigintHandler, FifosInv, Types, Names
    <2> QED
      BY <1>2, <2>1, Ends DEF SigintHandler
  <1>3. ASSUME NEW p \in Children, Kill(p) PROVE FifosInv'
    BY <1>3, Ends DEF Kill, Procs, FifosInv, Types
  <1> QED
    BY <1>1, <1>2, <1>3

-----------------------------------------------------------------------------
LEMMA InitNames ==
  ASSUME ScenariosAssumption, Init PROVE FifosInv
  <1>1. EndedChildren = {} /\ zombies = {}
    BY DEF Init, EndedChildren, Procs, Children
  <1>2. Types
    BY <1>1 DEF Init, Types, ScenariosAssumption, Labels, Fifos
  <1>3. Counting
    BY <1>1, FS_EmptySet DEF Init, Counting
  <1>4. Last /\ Born /\ Names
    BY DEF Init, Last, Born, Before, Names, Alive, Procs, Children
  <1> QED
    BY <1>2, <1>3, <1>4 DEF FifosInv

LEMMA NextNames == FifosInv /\ [Next]_vars => FifosInv'
  <1> SUFFICES ASSUME FifosInv, [Next]_vars PROVE FifosInv'
    OBVIOUS
  <1>1. CASE ParentStep
    BY <1>1, ParentKeeps
  <1>2. CASE Child1Step \/ Child2Step
    BY <1>2, ChildrenKeep
  <1>3. CASE SigchldHandler
    BY <1>3, HandlerCounts
  <1>4. CASE \/ Interrupt \/ \E p \in Procs : SigintHandler(p)
             \/ \E p \in Children : Kill(p)
    BY <1>4, SignalsKeep
  <1>5. CASE UNCHANGED vars
    BY <1>5 DEF vars, FifosInv, Types, Counting, Last, Born, Names, Alive,
                EndedChildren
  <1> QED
    BY <1>1, <1>2, <1>3, <1>4, <1>5 DEF Next

(* The invariant holds, whatever is late, fails, is killed or interrupted. *)
THEOREM NamesInvariant == Spec => []FifosInv
  <1>1. Init => FifosInv
    BY InitNames, ScenariosAssumption
  <1> QED
    BY <1>1, NextNames, PTL DEF Spec

(* So, without ^C, a FIFO has a name while a child has still to open it:   *)
(* such a child is alive.                                                  *)
THEOREM NamesKeptHolds == Spec => []NamesKept
  <1>1. FifosInv => NamesKept
    <2> SUFFICES ASSUME FifosInv, "int" \notin scenario.faults,
                        NEW p \in Procs, NEW f \in Fifos, WillOpen(p, f)
                 PROVE  f \in disk
      BY DEF NamesKept
    <2>1. p \in Children /\ Alive(p)
      BY DEF WillOpen, Alive, Children
    <2> QED
      BY <2>1 DEF FifosInv, Names
  <1> QED
    BY <1>1, NamesInvariant, PTL

-----------------------------------------------------------------------------
(* When nothing is late and nothing fails, where the three are determines  *)
(* who has which FIFO open, who waits for whom, and what is in the FIFOs.  *)
Undisturbed == scenario.faults = {}
Parent == pc["parent"]
Child1 == pc["child1"]
Child2 == pc["child2"]

Labels0 ==
  {"mkfifo", "fork child2", "open fifo2", "write command", "write array",
   "close fifo2", "fork child1", "open fifo1", "write fifo1", "close fifo1",
   "loop", "unlink", "ended"}
Labels1 ==
  {"unborn", "open", "read array", "close fifo1", "open fifo2", "write sum",
   "close", "sleep", "ended"}
Labels2 ==
  {"unborn", "open", "read command", "read array", "sleep", "read sum",
   "close", "print", "ended"}
NoArray1 == {"unborn", "open", "read array"}
NoCommand == {"unborn", "open", "read command"}
SumSent == {"close", "sleep", "ended"}
SumRead == {"close", "print", "ended"}
Finishing == {"close fifo1", "loop", "unlink", "ended"}
Unwritten == Before("child2") \cup {"open fifo2", "write command"}

(* Nobody gets ahead of those it talks to.                                 *)
Together ==
  /\ Parent \in Labels0 /\ Child1 \in Labels1 /\ Child2 \in Labels2
  /\ Parent \in Before("child2") <=> Child2 = "unborn"
  /\ Child2 = "open" => Parent \in {"open fifo2", "write command"}
  /\ Child2 = "read array" => Parent \notin Unwritten
  /\ Child2 \notin NoCommand \cup {"read array"} =>
       Parent \notin Unwritten \cup {"write array"}
  /\ Child2 \in SumRead \cup {"read sum"} => Child1 \in {"sleep", "ended"}
  /\ Parent \in Before("child1") <=> Child1 = "unborn"
  /\ Child1 = "open" => Parent \in {"open fifo1", "write fifo1"}
  /\ Child1 \notin NoArray1 => Parent \in Finishing
  /\ Parent \in {"unlink", "ended"} => Child1 = "ended" /\ Child2 = "ended"
Waits ==
  /\ "parent" \in waiting <=>
       \/ Parent = "write command" /\ Child2 = "open"
       \/ Parent = "write fifo1" /\ Child1 = "open"
  /\ "child1" \in waiting <=> Child1 = "read array" /\ Parent = "open fifo1"
  /\ "child2" \in waiting <=> Child2 = "read command" /\ Parent = "open fifo2"
Records ==
  fifo = [f \in Fifos |-> [readers |-> fifo[f].readers,
                           writers |-> fifo[f].writers,
                           data |-> fifo[f].data]]
HeldOpen ==
  /\ Records
  /\ fifo["fifo1"].readers =
       IF Child1 \in {"read array", "close fifo1"} THEN {"child1"} ELSE {}
  /\ fifo["fifo1"].writers =
       IF Parent \in {"write fifo1", "close fifo1"} THEN {"parent"} ELSE {}
  /\ fifo["fifo2"].readers =
       IF Child2 \in {"read command", "read array", "sleep", "read sum",
                      "close"}
       THEN {"child2"} ELSE {}
  /\ fifo["fifo2"].writers =
       IF Parent \in {"write command", "write array", "close fifo2"}
       THEN {"parent"}
       ELSE IF Child1 \in {"write sum", "close"} THEN {"child1"} ELSE {}

CommandSent == Message("command", scenario.command)
ArraySent == Message("array", scenario.array)
SumWritten == Message("sum", Total(scenario.array))
InFifo1 ==
  fifo["fifo1"].data =
    IF Child1 = "read array" /\ Parent \in Finishing THEN <<ArraySent>>
    ELSE <<>>
InFifo2 ==
  /\ Child2 \in {"unborn", "open"} \cup SumRead => fifo["fifo2"].data = <<>>
  /\ Child2 = "read command" =>
       fifo["fifo2"].data =
         IF Parent \in Unwritten THEN <<>>
         ELSE IF Parent = "write array" THEN <<CommandSent>>
         ELSE IF Child1 \in SumSent
              THEN <<CommandSent, ArraySent, SumWritten>>
              ELSE <<CommandSent, ArraySent>>
  /\ Child2 = "read array" =>
       fifo["fifo2"].data =
         IF Parent = "write array" THEN <<>>
         ELSE IF Child1 \in SumSent THEN <<ArraySent, SumWritten>>
              ELSE <<ArraySent>>
  /\ Child2 \in {"sleep", "read sum"} =>
       fifo["fifo2"].data = IF Child1 \in SumSent THEN <<SumWritten>> ELSE <<>>

(* What they have read and worked out.                                     *)
Known ==
  /\ array = [c \in Children |-> array[c]]
  /\ Child1 \notin NoArray1 => sum = Total(scenario.array)
  /\ Child2 \notin NoCommand => command = scenario.command
  /\ Child2 \notin NoCommand \cup {"read array"} =>
       result = Result(scenario.command, scenario.array)
  /\ Child2 \in SumRead => sumFromChild1 = Total(scenario.array)
  /\ final # <<>> => final = <<Answer(scenario)>>

InTime == Together /\ Waits /\ HeldOpen /\ InFifo1 /\ InFifo2 /\ Known
Calm == Undisturbed => InTime

(* p goes on from here to there, and nothing else changes but the FIFOs.   *)
Moves(p, here, there) ==
  /\ pc[p] = here /\ pc'[p] = there /\ p \notin waiting
  /\ \A q \in Procs \ {p} : pc'[q] = pc[q]
  /\ scenario' = scenario

LEMMA FieldChanged ==
  ASSUME Records, NEW f \in Fifos, NEW e
  PROVE  /\ [fifo[f] EXCEPT !.readers = e] =
              [readers |-> e, writers |-> fifo[f].writers,
               data |-> fifo[f].data]
         /\ [fifo[f] EXCEPT !.writers = e] =
              [readers |-> fifo[f].readers, writers |-> e,
               data |-> fifo[f].data]
         /\ [fifo[f] EXCEPT !.data = e] =
              [readers |-> fifo[f].readers, writers |-> fifo[f].writers,
               data |-> e]
<1>1. PICK r, w, d : fifo[f] = [readers |-> r, writers |-> w, data |-> d]
  BY DEF Records
<1> QED BY <1>1

LEMMA OpensToRead ==
  ASSUME FifosInv, Records, NEW p \in Procs, NEW here, NEW there,
         NEW f \in Fifos, f \in disk, Open(p, here, f, "readers", there)
  PROVE  /\ Moves(p, here, there) /\ UNCHANGED localVars /\ Records'
         /\ fifo'[f].readers = fifo[f].readers \cup {p}
         /\ fifo'[f].writers = fifo[f].writers /\ fifo'[f].data = fifo[f].data
         /\ \A g \in Fifos \ {f} : fifo'[g] = fifo[g]
         /\ waiting' = IF fifo[f].writers = {} THEN waiting \cup {p}
                                               ELSE waiting \ fifo[f].writers
<1>1. Other("readers") = "writers"
  BY DEF Other, Sides
<1>2. /\ Goto(p, there) /\ At(p, here) /\ scenario' = scenario
      /\ fifo' = [fifo EXCEPT ![f]["readers"] = @ \cup {p}]
      /\ waiting' = IF fifo[f]["writers"] = {} THEN waiting \cup {p}
                    ELSE waiting \ fifo[f]["writers"]
      /\ UNCHANGED localVars
  BY <1>1 DEF Open
<1>3. Moves(p, here, there)
  BY <1>2 DEF Moves, Goto, At, FifosInv, Types
<1>4. fifo' = [g \in Fifos |->
                IF g = f
                THEN [fifo[f] EXCEPT !.readers = fifo[f].readers \cup {p}]
                ELSE fifo[g]]
  BY <1>2 DEF Records
<1>5. fifo' = [g \in Fifos |->
                IF g = f
                THEN [readers |-> fifo[f].readers \cup {p},
                      writers |-> fifo[f].writers,
                      data |-> fifo[f].data]
                ELSE fifo[g]]
  BY <1>4, FieldChanged
<1>6. Records'
  BY <1>5 DEF Records
<1> QED BY <1>2, <1>3, <1>5, <1>6

LEMMA OpensToWrite ==
  ASSUME FifosInv, Records, NEW p \in Procs, NEW here, NEW there,
         NEW f \in Fifos, f \in disk, Open(p, here, f, "writers", there)
  PROVE  /\ Moves(p, here, there) /\ UNCHANGED localVars /\ Records'
         /\ fifo'[f].writers = fifo[f].writers \cup {p}
         /\ fifo'[f].readers = fifo[f].readers /\ fifo'[f].data = fifo[f].data
         /\ \A g \in Fifos \ {f} : fifo'[g] = fifo[g]
         /\ waiting' = IF fifo[f].readers = {} THEN waiting \cup {p}
                                               ELSE waiting \ fifo[f].readers
<1>1. Other("writers") = "readers"
  BY DEF Other, Sides
<1>2. /\ Goto(p, there) /\ At(p, here) /\ scenario' = scenario
      /\ fifo' = [fifo EXCEPT ![f]["writers"] = @ \cup {p}]
      /\ waiting' = IF fifo[f]["readers"] = {} THEN waiting \cup {p}
                    ELSE waiting \ fifo[f]["readers"]
      /\ UNCHANGED localVars
  BY <1>1 DEF Open
<1>3. Moves(p, here, there)
  BY <1>2 DEF Moves, Goto, At, FifosInv, Types
<1>4. fifo' = [g \in Fifos |->
                IF g = f
                THEN [fifo[f] EXCEPT !.writers = fifo[f].writers \cup {p}]
                ELSE fifo[g]]
  BY <1>2 DEF Records
<1>5. fifo' = [g \in Fifos |->
                IF g = f
                THEN [readers |-> fifo[f].readers,
                      writers |-> fifo[f].writers \cup {p},
                      data |-> fifo[f].data]
                ELSE fifo[g]]
  BY <1>4, FieldChanged
<1>6. Records'
  BY <1>5 DEF Records
<1> QED BY <1>2, <1>3, <1>5, <1>6

LEMMA Puts ==
  ASSUME Records, NEW f \in Fifos, NEW queue,
         fifo' = [fifo EXCEPT ![f].data = queue]
  PROVE  /\ Records'
         /\ fifo'[f].readers = fifo[f].readers
         /\ fifo'[f].writers = fifo[f].writers
         /\ fifo'[f].data = queue
         /\ \A g \in Fifos \ {f} : fifo'[g] = fifo[g]
<1>1. fifo' = [g \in Fifos |-> IF g = f THEN [fifo[f] EXCEPT !.data = queue]
                                         ELSE fifo[g]]
  BY DEF Records
<1>2. fifo' = [g \in Fifos |->
                IF g = f
                THEN [readers |-> fifo[f].readers,
                      writers |-> fifo[f].writers,
                      data |-> queue]
                ELSE fifo[g]]
  BY <1>1, FieldChanged
<1>3. Records'
  BY <1>2 DEF Records
<1> QED BY <1>2, <1>3

LEMMA Reads ==
  ASSUME FifosInv, Records, NEW p \in Procs, NEW here, NEW there,
         NEW f \in Fifos, Read(p, here, f, there)
  PROVE  /\ Moves(p, here, there) /\ Records'
         /\ fifo[f].data # <<>> \/ fifo[f].writers = {}
         /\ fifo'[f].readers = fifo[f].readers
         /\ fifo'[f].writers = fifo[f].writers
         /\ fifo[f].data # <<>> => fifo'[f].data = Tail(fifo[f].data)
         /\ \A g \in Fifos \ {f} : fifo'[g] = fifo[g]
         /\ waiting' = waiting
<1>1. /\ Goto(p, there) /\ At(p, here) /\ scenario' = scenario
      /\ fifo[f].data # <<>> \/ fifo[f].writers = {}
      /\ fifo' = [fifo EXCEPT ![f].data = IF @ = <<>> THEN @ ELSE Tail(@)]
      /\ waiting' = waiting
  BY DEF Read
<1>2. Moves(p, here, there)
  BY <1>1 DEF Moves, Goto, At, FifosInv, Types
<1>3. fifo' = [g \in Fifos |->
                IF g = f
                THEN [fifo[f] EXCEPT !.data =
                        IF fifo[f].data = <<>> THEN fifo[f].data
                        ELSE Tail(fifo[f].data)]
                ELSE fifo[g]]
  BY <1>1 DEF Records
<1>4. fifo' = [g \in Fifos |->
                IF g = f
                THEN [readers |-> fifo[f].readers,
                      writers |-> fifo[f].writers,
                      data |-> IF fifo[f].data = <<>> THEN fifo[f].data
                               ELSE Tail(fifo[f].data)]
                ELSE fifo[g]]
  BY <1>3, FieldChanged
<1>5. Records'
  BY <1>4 DEF Records
<1> QED BY <1>1, <1>2, <1>4, <1>5

LEMMA Closes ==
  ASSUME FifosInv, Records, NEW p \in Procs, NEW here, NEW there,
         NEW f \in Fifos, Close(p, here, f, there)
  PROVE  /\ Moves(p, here, there) /\ UNCHANGED localVars /\ Records'
         /\ fifo'[f].readers = fifo[f].readers \ {p}
         /\ fifo'[f].writers = fifo[f].writers \ {p}
         /\ fifo'[f].data =
              IF fifo'[f].readers \cup fifo'[f].writers = {} THEN <<>>
              ELSE fifo[f].data
         /\ \A g \in Fifos \ {f} : fifo'[g] = fifo[g]
         /\ waiting' = waiting
<1>1. /\ Goto(p, there) /\ At(p, here) /\ scenario' = scenario
      /\ fifo' = [fifo EXCEPT ![f] = Shut(p, f)]
      /\ waiting' = waiting /\ UNCHANGED localVars
  BY DEF Close
<1>2. Moves(p, here, there)
  BY <1>1 DEF Moves, Goto, At, FifosInv, Types
<1> QED BY <1>1, <1>2 DEF Records, Shut

LEMMA Leaves ==
  ASSUME FifosInv, Records, NEW p \in Procs, At(p, pc[p]), End(p)
  PROVE  /\ Moves(p, pc[p], "ended") /\ Records'
         /\ \A f \in Fifos :
              /\ fifo'[f].readers = fifo[f].readers \ {p}
              /\ fifo'[f].writers = fifo[f].writers \ {p}
              /\ fifo'[f].data =
                   IF fifo'[f].readers \cup fifo'[f].writers = {} THEN <<>>
                   ELSE fifo[f].data
         /\ waiting' = waiting \ {p}
<1>1. /\ Goto(p, "ended") /\ scenario' = scenario
      /\ fifo' = [f \in Fifos |-> Shut(p, f)] /\ waiting' = waiting \ {p}
  BY DEF End
<1>2. Moves(p, pc[p], "ended")
  BY <1>1 DEF Moves, Goto, At, FifosInv, Types
<1> QED BY <1>1, <1>2 DEF Records, Shut

(* Queues of up to three messages.                                         *)
LEMMA AppendTo ==
  ASSUME NEW S, NEW s \in Seq(S), NEW e \in S
  PROVE  /\ Append(s, e) \in Seq(S) /\ Len(Append(s, e)) = Len(s) + 1
         /\ Append(s, e)[Len(s) + 1] = e
         /\ \A i \in 1 .. Len(s) : Append(s, e)[i] = s[i]
OBVIOUS

LEMMA AppendSecond ==
  ASSUME NEW a, NEW b
  PROVE  Append(<<a>>, b) = <<a, b>>
<1>1. <<a>> \in Seq({a, b})
  OBVIOUS
<1>2. PICK s \in Seq({a, b}) : s = <<a>>
  BY <1>1
<1>3. Len(s) = 1 /\ s[1] = a /\ b \in {a, b}
  BY <1>2
<1>4. /\ Append(s, b) \in Seq({a, b}) /\ Len(Append(s, b)) = Len(s) + 1
      /\ Append(s, b)[Len(s) + 1] = b
      /\ \A i \in 1 .. Len(s) : Append(s, b)[i] = s[i]
  BY <1>2, <1>3, AppendTo
<1>5. \A u \in Seq({a, b}) : Len(u) = 2 => u = <<u[1], u[2]>>
  OBVIOUS
<1>6. PICK t \in Seq({a, b}) : t = Append(s, b)
  BY <1>4
<1>7. Len(t) = 2 /\ t[1] = a /\ t[2] = b
  BY <1>3, <1>4, <1>6
<1> QED BY <1>2, <1>5, <1>6, <1>7

LEMMA AppendThird ==
  ASSUME NEW a, NEW b, NEW c
  PROVE  Append(<<a, b>>, c) = <<a, b, c>>
<1>1. <<a, b>> \in Seq({a, b, c})
  OBVIOUS
<1>2. PICK s \in Seq({a, b, c}) : s = <<a, b>>
  BY <1>1
<1>3. Len(s) = 2 /\ s[1] = a /\ s[2] = b /\ c \in {a, b, c}
  BY <1>2
<1>4. /\ Append(s, c) \in Seq({a, b, c}) /\ Len(Append(s, c)) = Len(s) + 1
      /\ Append(s, c)[Len(s) + 1] = c
      /\ \A i \in 1 .. Len(s) : Append(s, c)[i] = s[i]
  BY <1>2, <1>3, AppendTo
<1>5. \A u \in Seq({a, b, c}) : Len(u) = 3 => u = <<u[1], u[2], u[3]>>
  OBVIOUS
<1>6. PICK t \in Seq({a, b, c}) : t = Append(s, c)
  BY <1>4
<1>7. Len(t) = 3 /\ t[1] = a /\ t[2] = b /\ t[3] = c
  BY <1>3, <1>4, <1>6
<1> QED BY <1>2, <1>5, <1>6, <1>7

LEMMA FirstOfQueue ==
  ASSUME NEW a, NEW b, NEW c
  PROVE  /\ Head(<<a>>) = a /\ Head(<<a, b>>) = a /\ Head(<<a, b, c>>) = a
         /\ Tail(<<a>>) = <<>> /\ Tail(<<a, b>>) = <<b>>
         /\ Tail(<<a, b, c>>) = <<b, c>>
<1>1. Tail(<<a>>) = <<>> /\ Tail(<<a, b>>) = <<b>>
  OBVIOUS
<1>2. Tail(<<a, b, c>>) = <<b, c>>
  OBVIOUS
<1> QED BY <1>1, <1>2

-----------------------------------------------------------------------------
LEMMA Undeterred ==
  ASSUME FifosInv, Undisturbed
  PROVE  /\ sigint = {}
         /\ Parent \notin {"mkfifo", "ended"} => disk = Fifos
         /\ Child1 \notin {"unborn", "ended"} => disk = Fifos
         /\ Child2 \notin {"unborn", "ended"} => disk = Fifos
BY DEF FifosInv, Names, Undisturbed, Alive, Children, Parent, Child1, Child2

(* Where somebody is follows from where the others are: expanded below     *)
(* throughout.                                                             *)
USE DEF Before, Unwritten, Finishing, NoArray1, NoCommand, SumRead, SumSent,
        Labels0, Labels1, Labels2

(* The parent comes to fifo2.                                              *)
LEMMA ParentAtFifo2 ==
  ASSUME FifosInv, Undisturbed, InTime, ParentOpensFifo2 PROVE InTime'
<1> "parent" \in Procs /\ "fifo2" \in Fifos /\ "fifo1" \in Fifos \ {"fifo2"}
  BY DEF Procs, Children, Fifos
<1>1. /\ Parent = "open fifo2" /\ "parent" \notin waiting /\ disk = Fifos
      /\ Together /\ Waits /\ HeldOpen /\ InFifo1 /\ InFifo2 /\ Known
  BY Undeterred DEF ParentOpensFifo2, Open, At, InTime, Parent
<1>2. /\ Moves("parent", "open fifo2", "write command") /\ Records'
      /\ fifo'["fifo2"].writers = fifo["fifo2"].writers \cup {"parent"}
      /\ fifo'["fifo2"].readers = fifo["fifo2"].readers
      /\ fifo'["fifo2"].data = fifo["fifo2"].data
      /\ waiting' = IF fifo["fifo2"].readers = {}
                    THEN waiting \cup {"parent"}
                    ELSE waiting \ fifo["fifo2"].readers
      /\ fifo'["fifo1"] = fifo["fifo1"] /\ UNCHANGED localVars
  BY <1>1, OpensToWrite DEF ParentOpensFifo2, HeldOpen, Fifos
<1>3. /\ Parent' = "write command" /\ Child1' = Child1 /\ Child2' = Child2
      /\ scenario' = scenario
  BY <1>2 DEF Moves, Procs, Children, Parent, Child1, Child2
<1>4. Together'
  BY <1>1, <1>3 DEF Together
<1>5. Waits'
  BY <1>1, <1>2, <1>3 DEF Together, Waits, HeldOpen
<1>6. HeldOpen'
  BY <1>1, <1>2, <1>3 DEF Together, Waits, HeldOpen
<1>7. InFifo1'
  BY <1>1, <1>2, <1>3 DEF Together, Waits, HeldOpen, InFifo1, ArraySent
<1>8. InFifo2'
  BY <1>1, <1>2, <1>3
     DEF Together, Waits, HeldOpen, InFifo2, CommandSent, ArraySent, SumWritten
<1>9. Known'
  BY <1>1, <1>2, <1>3 DEF Together, Known, localVars
<1> QED BY <1>4, <1>5, <1>6, <1>7, <1>8, <1>9 DEF InTime

(* The parent leaves fifo2: child2 has it open.                            *)
LEMMA ParentOffFifo2 ==
  ASSUME FifosInv, Undisturbed, InTime, ParentClosesFifo2 PROVE InTime'
<1> "parent" \in Procs /\ "fifo2" \in Fifos /\ "fifo1" \in Fifos \ {"fifo2"}
  BY DEF Procs, Children, Fifos
<1>1. /\ Parent = "close fifo2" /\ "parent" \notin waiting
      /\ Together /\ Waits /\ HeldOpen /\ InFifo1 /\ InFifo2 /\ Known
  BY DEF ParentClosesFifo2, Close, At, InTime, Parent
<1>2. /\ Moves("parent", "close fifo2", "fork child1") /\ Records'
      /\ fifo'["fifo2"].readers = fifo["fifo2"].readers \ {"parent"}
      /\ fifo'["fifo2"].writers = fifo["fifo2"].writers \ {"parent"}
      /\ fifo'["fifo2"].data =
           IF fifo'["fifo2"].readers \cup fifo'["fifo2"].writers = {}
           THEN <<>> ELSE fifo["fifo2"].data
      /\ waiting' = waiting
      /\ fifo'["fifo1"] = fifo["fifo1"] /\ UNCHANGED localVars
  BY <1>1, Closes DEF ParentClosesFifo2, HeldOpen, Fifos
<1>3. /\ Parent' = "fork child1" /\ Child1' = Child1 /\ Child2' = Child2
      /\ scenario' = scenario
  BY <1>2 DEF Moves, Procs, Children, Parent, Child1, Child2
<1>4. Together'
  BY <1>1, <1>3 DEF Together
<1>5. Waits'
  BY <1>1, <1>2, <1>3 DEF Together, Waits, HeldOpen
<1>6. HeldOpen'
  BY <1>1, <1>2, <1>3 DEF Together, Waits, HeldOpen
<1>7. InFifo1'
  BY <1>1, <1>2, <1>3 DEF Together, Waits, HeldOpen, InFifo1, ArraySent
<1>8. InFifo2'
  BY <1>1, <1>2, <1>3
     DEF Together, Waits, HeldOpen, InFifo2, CommandSent, ArraySent, SumWritten
<1>9. Known'
  BY <1>1, <1>2, <1>3 DEF Together, Known, localVars
<1> QED BY <1>4, <1>5, <1>6, <1>7, <1>8, <1>9 DEF InTime

(* The parent comes to fifo1.                                              *)
LEMMA ParentAtFifo1 ==
  ASSUME FifosInv, Undisturbed, InTime, ParentOpensFifo1 PROVE InTime'
<1> "parent" \in Procs /\ "fifo1" \in Fifos /\ "fifo2" \in Fifos \ {"fifo1"}
  BY DEF Procs, Children, Fifos
<1>1. /\ Parent = "open fifo1" /\ "parent" \notin waiting /\ disk = Fifos
      /\ Together /\ Waits /\ HeldOpen /\ InFifo1 /\ InFifo2 /\ Known
  BY Undeterred DEF ParentOpensFifo1, Open, At, InTime, Parent
<1>2. /\ Moves("parent", "open fifo1", "write fifo1") /\ Records'
      /\ fifo'["fifo1"].writers = fifo["fifo1"].writers \cup {"parent"}
      /\ fifo'["fifo1"].readers = fifo["fifo1"].readers
      /\ fifo'["fifo1"].data = fifo["fifo1"].data
      /\ waiting' = IF fifo["fifo1"].readers = {}
                    THEN waiting \cup {"parent"}
                    ELSE waiting \ fifo["fifo1"].readers
      /\ fifo'["fifo2"] = fifo["fifo2"] /\ UNCHANGED localVars
  BY <1>1, OpensToWrite DEF ParentOpensFifo1, HeldOpen, Fifos
<1>3. /\ Parent' = "write fifo1" /\ Child1' = Child1 /\ Child2' = Child2
      /\ scenario' = scenario
  BY <1>2 DEF Moves, Procs, Children, Parent, Child1, Child2
<1>4. Together'
  BY <1>1, <1>3 DEF Together
<1>5. Waits'
  BY <1>1, <1>2, <1>3 DEF Together, Waits, HeldOpen
<1>6. HeldOpen'
  BY <1>1, <1>2, <1>3 DEF Together, Waits, HeldOpen
<1>7. InFifo1'
  BY <1>1, <1>2, <1>3 DEF Together, Waits, HeldOpen, InFifo1, ArraySent
<1>8. InFifo2'
  BY <1>1, <1>2, <1>3
     DEF Together, Waits, HeldOpen, InFifo2, CommandSent, ArraySent, SumWritten
<1>9. Known'
  BY <1>1, <1>2, <1>3 DEF Together, Known, localVars
<1> QED BY <1>4, <1>5, <1>6, <1>7, <1>8, <1>9 DEF InTime

(* The parent leaves fifo1.                                                *)
LEMMA ParentOffFifo1 ==
  ASSUME FifosInv, Undisturbed, InTime, ParentClosesFifo1 PROVE InTime'
<1> "parent" \in Procs /\ "fifo1" \in Fifos /\ "fifo2" \in Fifos \ {"fifo1"}
  BY DEF Procs, Children, Fifos
<1>1. /\ Parent = "close fifo1" /\ "parent" \notin waiting
      /\ Together /\ Waits /\ HeldOpen /\ InFifo1 /\ InFifo2 /\ Known
  BY DEF ParentClosesFifo1, Close, At, InTime, Parent
<1>2. /\ Moves("parent", "close fifo1", "loop") /\ Records'
      /\ fifo'["fifo1"].readers = fifo["fifo1"].readers \ {"parent"}
      /\ fifo'["fifo1"].writers = fifo["fifo1"].writers \ {"parent"}
      /\ fifo'["fifo1"].data =
           IF fifo'["fifo1"].readers \cup fifo'["fifo1"].writers = {}
           THEN <<>> ELSE fifo["fifo1"].data
      /\ waiting' = waiting
      /\ fifo'["fifo2"] = fifo["fifo2"] /\ UNCHANGED localVars
  BY <1>1, Closes DEF ParentClosesFifo1, HeldOpen, Fifos
<1>3. /\ Parent' = "loop" /\ Child1' = Child1 /\ Child2' = Child2
      /\ scenario' = scenario
  BY <1>2 DEF Moves, Procs, Children, Parent, Child1, Child2
<1>4. Together'
  BY <1>1, <1>3 DEF Together
<1>5. Waits'
  BY <1>1, <1>2, <1>3 DEF Together, Waits, HeldOpen
<1>6. HeldOpen'
  BY <1>1, <1>2, <1>3 DEF Together, Waits, HeldOpen
<1>7. InFifo1'
  BY <1>1, <1>2, <1>3 DEF Together, Waits, HeldOpen, InFifo1, ArraySent
<1>8. InFifo2'
  BY <1>1, <1>2, <1>3
     DEF Together, Waits, HeldOpen, InFifo2, CommandSent, ArraySent, SumWritten
<1>9. Known'
  BY <1>1, <1>2, <1>3 DEF Together, Known, localVars
<1> QED BY <1>4, <1>5, <1>6, <1>7, <1>8, <1>9 DEF InTime

(* child1 comes to fifo1.                                                  *)
LEMMA Child1AtFifo1 ==
  ASSUME FifosInv, Undisturbed, InTime, Child1OpensFifo1 PROVE InTime'
<1> "child1" \in Procs /\ "fifo1" \in Fifos /\ "fifo2" \in Fifos \ {"fifo1"}
  BY DEF Procs, Children, Fifos
<1>1. /\ Child1 = "open" /\ "child1" \notin waiting /\ disk = Fifos
      /\ Together /\ Waits /\ HeldOpen /\ InFifo1 /\ InFifo2 /\ Known
  BY Undeterred DEF Child1OpensFifo1, Open, At, InTime, Child1
<1>2. /\ Moves("child1", "open", "read array") /\ Records'
      /\ fifo'["fifo1"].readers = fifo["fifo1"].readers \cup {"child1"}
      /\ fifo'["fifo1"].writers = fifo["fifo1"].writers
      /\ fifo'["fifo1"].data = fifo["fifo1"].data
      /\ waiting' = IF fifo["fifo1"].writers = {}
                    THEN waiting \cup {"child1"}
                    ELSE waiting \ fifo["fifo1"].writers
      /\ fifo'["fifo2"] = fifo["fifo2"] /\ UNCHANGED localVars
  BY <1>1, OpensToRead DEF Child1OpensFifo1, HeldOpen, Fifos
<1>3. /\ Child1' = "read array" /\ Parent' = Parent /\ Child2' = Child2
      /\ scenario' = scenario
  BY <1>2 DEF Moves, Procs, Children, Parent, Child1, Child2
<1>4. Together'
  BY <1>1, <1>3 DEF Together
<1>5. Waits'
  BY <1>1, <1>2, <1>3 DEF Together, Waits, HeldOpen
<1>6. HeldOpen'
  BY <1>1, <1>2, <1>3 DEF Together, Waits, HeldOpen
<1>7. InFifo1'
  BY <1>1, <1>2, <1>3 DEF Together, Waits, HeldOpen, InFifo1, ArraySent
<1>8. InFifo2'
  BY <1>1, <1>2, <1>3
     DEF Together, Waits, HeldOpen, InFifo2, CommandSent, ArraySent, SumWritten
<1>9. Known'
  BY <1>1, <1>2, <1>3 DEF Together, Known, localVars
<1> QED BY <1>4, <1>5, <1>6, <1>7, <1>8, <1>9 DEF InTime

(* child1 leaves fifo1.                                                    *)
LEMMA Child1OffFifo1 ==
  ASSUME FifosInv, Undisturbed, InTime, Child1ClosesFifo1 PROVE InTime'
<1> "child1" \in Procs /\ "fifo1" \in Fifos /\ "fifo2" \in Fifos \ {"fifo1"}
  BY DEF Procs, Children, Fifos
<1>1. /\ Child1 = "close fifo1" /\ "child1" \notin waiting
      /\ Together /\ Waits /\ HeldOpen /\ InFifo1 /\ InFifo2 /\ Known
  BY DEF Child1ClosesFifo1, Close, At, InTime, Child1
<1>2. /\ Moves("child1", "close fifo1", "open fifo2") /\ Records'
      /\ fifo'["fifo1"].readers = fifo["fifo1"].readers \ {"child1"}
      /\ fifo'["fifo1"].writers = fifo["fifo1"].writers \ {"child1"}
      /\ fifo'["fifo1"].data =
           IF fifo'["fifo1"].readers \cup fifo'["fifo1"].writers = {}
           THEN <<>> ELSE fifo["fifo1"].data
      /\ waiting' = waiting
      /\ fifo'["fifo2"] = fifo["fifo2"] /\ UNCHANGED localVars
  BY <1>1, Closes DEF Child1ClosesFifo1, HeldOpen, Fifos
<1>3. /\ Child1' = "open fifo2" /\ Parent' = Parent /\ Child2' = Child2
      /\ scenario' = scenario
  BY <1>2 DEF Moves, Procs, Children, Parent, Child1, Child2
<1>4. Together'
  BY <1>1, <1>3 DEF Together
<1>5. Waits'
  BY <1>1, <1>2, <1>3 DEF Together, Waits, HeldOpen
<1>6. HeldOpen'
  BY <1>1, <1>2, <1>3 DEF Together, Waits, HeldOpen
<1>7. InFifo1'
  BY <1>1, <1>2, <1>3 DEF Together, Waits, HeldOpen, InFifo1, ArraySent
<1>8. InFifo2'
  BY <1>1, <1>2, <1>3
     DEF Together, Waits, HeldOpen, InFifo2, CommandSent, ArraySent, SumWritten
<1>9. Known'
  BY <1>1, <1>2, <1>3 DEF Together, Known, localVars
<1> QED BY <1>4, <1>5, <1>6, <1>7, <1>8, <1>9 DEF InTime

(* child1 comes to fifo2, which child2 has open.                           *)
LEMMA Child1AtFifo2 ==
  ASSUME FifosInv, Undisturbed, InTime, Child1OpensFifo2 PROVE InTime'
<1> "child1" \in Procs /\ "fifo2" \in Fifos /\ "fifo1" \in Fifos \ {"fifo2"}
  BY DEF Procs, Children, Fifos
<1>1. /\ Child1 = "open fifo2" /\ "child1" \notin waiting /\ disk = Fifos
      /\ Together /\ Waits /\ HeldOpen /\ InFifo1 /\ InFifo2 /\ Known
  BY Undeterred DEF Child1OpensFifo2, Open, At, InTime, Child1
<1>2. /\ Moves("child1", "open fifo2", "write sum") /\ Records'
      /\ fifo'["fifo2"].writers = fifo["fifo2"].writers \cup {"child1"}
      /\ fifo'["fifo2"].readers = fifo["fifo2"].readers
      /\ fifo'["fifo2"].data = fifo["fifo2"].data
      /\ waiting' = IF fifo["fifo2"].readers = {}
                    THEN waiting \cup {"child1"}
                    ELSE waiting \ fifo["fifo2"].readers
      /\ fifo'["fifo1"] = fifo["fifo1"] /\ UNCHANGED localVars
  BY <1>1, OpensToWrite DEF Child1OpensFifo2, HeldOpen, Fifos
<1>3. /\ Child1' = "write sum" /\ Parent' = Parent /\ Child2' = Child2
      /\ scenario' = scenario
  BY <1>2 DEF Moves, Procs, Children, Parent, Child1, Child2
<1>4. Together'
  BY <1>1, <1>3 DEF Together
<1>5. Waits'
  BY <1>1, <1>2, <1>3 DEF Together, Waits, HeldOpen
<1>6. HeldOpen'
  BY <1>1, <1>2, <1>3 DEF Together, Waits, HeldOpen
<1>7. InFifo1'
  BY <1>1, <1>2, <1>3 DEF Together, Waits, HeldOpen, InFifo1, ArraySent
<1>8. InFifo2'
  BY <1>1, <1>2, <1>3
     DEF Together, Waits, HeldOpen, InFifo2, CommandSent, ArraySent, SumWritten
<1>9. Known'
  BY <1>1, <1>2, <1>3 DEF Together, Known, localVars
<1> QED BY <1>4, <1>5, <1>6, <1>7, <1>8, <1>9 DEF InTime

(* child1 leaves fifo2, where child2 reads its sum.                        *)
LEMMA Child1OffFifo2 ==
  ASSUME FifosInv, Undisturbed, InTime, Child1ClosesFifo2 PROVE InTime'
<1> "child1" \in Procs /\ "fifo2" \in Fifos /\ "fifo1" \in Fifos \ {"fifo2"}
  BY DEF Procs, Children, Fifos
<1>1. /\ Child1 = "close" /\ "child1" \notin waiting
      /\ Together /\ Waits /\ HeldOpen /\ InFifo1 /\ InFifo2 /\ Known
  BY DEF Child1ClosesFifo2, Close, At, InTime, Child1
<1>2. /\ Moves("child1", "close", "sleep") /\ Records'
      /\ fifo'["fifo2"].readers = fifo["fifo2"].readers \ {"child1"}
      /\ fifo'["fifo2"].writers = fifo["fifo2"].writers \ {"child1"}
      /\ fifo'["fifo2"].data =
           IF fifo'["fifo2"].readers \cup fifo'["fifo2"].writers = {}
           THEN <<>> ELSE fifo["fifo2"].data
      /\ waiting' = waiting
      /\ fifo'["fifo1"] = fifo["fifo1"] /\ UNCHANGED localVars
  BY <1>1, Closes DEF Child1ClosesFifo2, HeldOpen, Fifos
<1>3. /\ Child1' = "sleep" /\ Parent' = Parent /\ Child2' = Child2
      /\ scenario' = scenario
  BY <1>2 DEF Moves, Procs, Children, Parent, Child1, Child2
<1>4. Together'
  BY <1>1, <1>3 DEF Together
<1>5. Waits'
  BY <1>1, <1>2, <1>3 DEF Together, Waits, HeldOpen
<1>6. HeldOpen'
  BY <1>1, <1>2, <1>3 DEF Together, Waits, HeldOpen
<1>7. InFifo1'
  BY <1>1, <1>2, <1>3 DEF Together, Waits, HeldOpen, InFifo1, ArraySent
<1>8. InFifo2'
  BY <1>1, <1>2, <1>3
     DEF Together, Waits, HeldOpen, InFifo2, CommandSent, ArraySent, SumWritten
<1>9. Known'
  BY <1>1, <1>2, <1>3 DEF Together, Known, localVars
<1> QED BY <1>4, <1>5, <1>6, <1>7, <1>8, <1>9 DEF InTime

(* child2 comes to fifo2.                                                  *)
LEMMA Child2AtFifo2 ==
  ASSUME FifosInv, Undisturbed, InTime, Child2OpensFifo2 PROVE InTime'
<1> "child2" \in Procs /\ "fifo2" \in Fifos /\ "fifo1" \in Fifos \ {"fifo2"}
  BY DEF Procs, Children, Fifos
<1>1. /\ Child2 = "open" /\ "child2" \notin waiting /\ disk = Fifos
      /\ Together /\ Waits /\ HeldOpen /\ InFifo1 /\ InFifo2 /\ Known
  BY Undeterred DEF Child2OpensFifo2, Open, At, InTime, Child2
<1>2. /\ Moves("child2", "open", "read command") /\ Records'
      /\ fifo'["fifo2"].readers = fifo["fifo2"].readers \cup {"child2"}
      /\ fifo'["fifo2"].writers = fifo["fifo2"].writers
      /\ fifo'["fifo2"].data = fifo["fifo2"].data
      /\ waiting' = IF fifo["fifo2"].writers = {}
                    THEN waiting \cup {"child2"}
                    ELSE waiting \ fifo["fifo2"].writers
      /\ fifo'["fifo1"] = fifo["fifo1"] /\ UNCHANGED localVars
  BY <1>1, OpensToRead DEF Child2OpensFifo2, HeldOpen, Fifos
<1>3. /\ Child2' = "read command" /\ Parent' = Parent /\ Child1' = Child1
      /\ scenario' = scenario
  BY <1>2 DEF Moves, Procs, Children, Parent, Child1, Child2
<1>4. Together'
  BY <1>1, <1>3 DEF Together
<1>5. Waits'
  BY <1>1, <1>2, <1>3 DEF Together, Waits, HeldOpen
<1>6. HeldOpen'
  BY <1>1, <1>2, <1>3 DEF Together, Waits, HeldOpen
<1>7. InFifo1'
  BY <1>1, <1>2, <1>3 DEF Together, Waits, HeldOpen, InFifo1, ArraySent
<1>8. InFifo2'
  BY <1>1, <1>2, <1>3
     DEF Together, Waits, HeldOpen, InFifo2, CommandSent, ArraySent, SumWritten
<1>9. Known'
  BY <1>1, <1>2, <1>3 DEF Together, Known, localVars
<1> QED BY <1>4, <1>5, <1>6, <1>7, <1>8, <1>9 DEF InTime

(* child2 leaves fifo2.                                                    *)
LEMMA Child2OffFifo2 ==
  ASSUME FifosInv, Undisturbed, InTime, Child2ClosesFifo2 PROVE InTime'
<1> "child2" \in Procs /\ "fifo2" \in Fifos /\ "fifo1" \in Fifos \ {"fifo2"}
  BY DEF Procs, Children, Fifos
<1>1. /\ Child2 = "close" /\ "child2" \notin waiting
      /\ Together /\ Waits /\ HeldOpen /\ InFifo1 /\ InFifo2 /\ Known
  BY DEF Child2ClosesFifo2, Close, At, InTime, Child2
<1>2. /\ Moves("child2", "close", "print") /\ Records'
      /\ fifo'["fifo2"].readers = fifo["fifo2"].readers \ {"child2"}
      /\ fifo'["fifo2"].writers = fifo["fifo2"].writers \ {"child2"}
      /\ fifo'["fifo2"].data =
           IF fifo'["fifo2"].readers \cup fifo'["fifo2"].writers = {}
           THEN <<>> ELSE fifo["fifo2"].data
      /\ waiting' = waiting
      /\ fifo'["fifo1"] = fifo["fifo1"] /\ UNCHANGED localVars
  BY <1>1, Closes DEF Child2ClosesFifo2, HeldOpen, Fifos
<1>3. /\ Child2' = "print" /\ Parent' = Parent /\ Child1' = Child1
      /\ scenario' = scenario
  BY <1>2 DEF Moves, Procs, Children, Parent, Child1, Child2
<1>4. Together'
  BY <1>1, <1>3 DEF Together
<1>5. Waits'
  BY <1>1, <1>2, <1>3 DEF Together, Waits, HeldOpen
<1>6. HeldOpen'
  BY <1>1, <1>2, <1>3 DEF Together, Waits, HeldOpen
<1>7. InFifo1'
  BY <1>1, <1>2, <1>3 DEF Together, Waits, HeldOpen, InFifo1, ArraySent
<1>8. InFifo2'
  BY <1>1, <1>2, <1>3
     DEF Together, Waits, HeldOpen, InFifo2, CommandSent, ArraySent, SumWritten
<1>9. Known'
  BY <1>1, <1>2, <1>3 DEF Together, Known, localVars
<1> QED BY <1>4, <1>5, <1>6, <1>7, <1>8, <1>9 DEF InTime

(* The command is the first in fifo2.                                      *)
LEMMA CommandInFifo2 ==
  ASSUME FifosInv, Undisturbed, InTime, WriteCommand PROVE InTime'
<1> "parent" \in Procs /\ "fifo2" \in Fifos /\ "fifo1" \in Fifos \ {"fifo2"}
  BY DEF Procs, Children, Fifos
<1>1. /\ Parent = "write command" /\ "parent" \notin waiting
      /\ Together /\ Waits /\ HeldOpen /\ InFifo1 /\ InFifo2 /\ Known
      /\ "child2" \in fifo["fifo2"].readers
  <2>1. /\ Parent = "write command" /\ "parent" \notin waiting
        /\ Together /\ Waits /\ HeldOpen /\ InFifo1 /\ InFifo2 /\ Known
    BY DEF WriteCommand, Write, At, InTime, Parent
  <2>2. "child2" \in fifo["fifo2"].readers
    BY <2>1 DEF Together, Waits, HeldOpen
  <2> QED BY <2>1, <2>2
<1>2. /\ Moves("parent", "write command", "write array") /\ Records'
      /\ fifo'["fifo2"].readers = fifo["fifo2"].readers
      /\ fifo'["fifo2"].writers = fifo["fifo2"].writers
      /\ fifo'["fifo2"].data = Append(fifo["fifo2"].data, CommandSent)
      /\ fifo'["fifo1"] = fifo["fifo1"] /\ UNCHANGED localVars
      /\ waiting' = waiting
  <2>1. Records /\ fifo["fifo2"].readers # {}
    BY <1>1 DEF HeldOpen
  <2>2. PICK queue : queue = Append(fifo["fifo2"].data, CommandSent)
    OBVIOUS
  <2>3. fifo' = [fifo EXCEPT !["fifo2"].data = queue]
    BY <2>1, <2>2 DEF WriteCommand, Write, CommandSent
  <2>4. /\ Records'
        /\ fifo'["fifo2"].readers = fifo["fifo2"].readers
        /\ fifo'["fifo2"].writers = fifo["fifo2"].writers
        /\ fifo'["fifo2"].data = queue /\ fifo'["fifo1"] = fifo["fifo1"]
    BY <2>1, <2>3, Puts
  <2>5. /\ Moves("parent", "write command", "write array")
        /\ UNCHANGED localVars /\ waiting' = waiting
    BY <2>1 DEF WriteCommand, Write, Moves, Goto, At, FifosInv, Types
  <2> QED BY <2>2, <2>4, <2>5
<1>3. /\ Parent' = "write array" /\ Child1' = Child1 /\ Child2' = Child2
      /\ scenario' = scenario
  BY <1>2 DEF Moves, Procs, Children, Parent, Child1, Child2
<1>4. Append(<<>>, CommandSent) = <<CommandSent>>
  BY AppendSecond, AppendThird
<1>5. /\ CommandSent' = CommandSent /\ ArraySent' = ArraySent
      /\ SumWritten' = SumWritten
  BY <1>3 DEF CommandSent, ArraySent, SumWritten
<1>6. Together'
  BY <1>1, <1>3 DEF Together, Waits
<1>7. Waits'
  BY <1>1, <1>2, <1>3 DEF Together, Waits
<1>8. HeldOpen'
  BY <1>1, <1>2, <1>3 DEF Together, HeldOpen
<1>9. InFifo1'
  BY <1>1, <1>2, <1>3, <1>4, <1>5 DEF Together, Waits, HeldOpen, InFifo1
<1>10. InFifo2'
  BY <1>1, <1>2, <1>3, <1>4, <1>5 DEF Together, Waits, HeldOpen, InFifo2
<1>11. Known'
  BY <1>1, <1>2, <1>3 DEF Together, Known, localVars
<1> QED BY <1>6, <1>7, <1>8, <1>9, <1>10, <1>11 DEF InTime

(* The array is the second in fifo2.                                       *)
LEMMA ArrayInFifo2 ==
  ASSUME FifosInv, Undisturbed, InTime, WriteArray PROVE InTime'
<1> "parent" \in Procs /\ "fifo2" \in Fifos /\ "fifo1" \in Fifos \ {"fifo2"}
  BY DEF Procs, Children, Fifos
<1>1. /\ Parent = "write array" /\ "parent" \notin waiting
      /\ Together /\ Waits /\ HeldOpen /\ InFifo1 /\ InFifo2 /\ Known
      /\ "child2" \in fifo["fifo2"].readers
  <2>1. /\ Parent = "write array" /\ "parent" \notin waiting
        /\ Together /\ Waits /\ HeldOpen /\ InFifo1 /\ InFifo2 /\ Known
    BY DEF WriteArray, Write, At, InTime, Parent
  <2>2. "child2" \in fifo["fifo2"].readers
    BY <2>1 DEF Together, Waits, HeldOpen
  <2> QED BY <2>1, <2>2
<1>2. /\ Moves("parent", "write array", "close fifo2") /\ Records'
      /\ fifo'["fifo2"].readers = fifo["fifo2"].readers
      /\ fifo'["fifo2"].writers = fifo["fifo2"].writers
      /\ fifo'["fifo2"].data = Append(fifo["fifo2"].data, ArraySent)
      /\ fifo'["fifo1"] = fifo["fifo1"] /\ UNCHANGED localVars
      /\ waiting' = waiting
  <2>1. Records /\ fifo["fifo2"].readers # {}
    BY <1>1 DEF HeldOpen
  <2>2. PICK queue : queue = Append(fifo["fifo2"].data, ArraySent)
    OBVIOUS
  <2>3. fifo' = [fifo EXCEPT !["fifo2"].data = queue]
    BY <2>1, <2>2 DEF WriteArray, Write, ArraySent
  <2>4. /\ Records'
        /\ fifo'["fifo2"].readers = fifo["fifo2"].readers
        /\ fifo'["fifo2"].writers = fifo["fifo2"].writers
        /\ fifo'["fifo2"].data = queue /\ fifo'["fifo1"] = fifo["fifo1"]
    BY <2>1, <2>3, Puts
  <2>5. /\ Moves("parent", "write array", "close fifo2")
        /\ UNCHANGED localVars /\ waiting' = waiting
    BY <2>1 DEF WriteArray, Write, Moves, Goto, At, FifosInv, Types
  <2> QED BY <2>2, <2>4, <2>5
<1>3. /\ Parent' = "close fifo2" /\ Child1' = Child1 /\ Child2' = Child2
      /\ scenario' = scenario
  BY <1>2 DEF Moves, Procs, Children, Parent, Child1, Child2
<1>4. /\ Append(<<>>, ArraySent) = <<ArraySent>>
      /\ Append(<<CommandSent>>, ArraySent) = <<CommandSent, ArraySent>>
  BY AppendSecond, AppendThird
<1>5. /\ CommandSent' = CommandSent /\ ArraySent' = ArraySent
      /\ SumWritten' = SumWritten
  BY <1>3 DEF CommandSent, ArraySent, SumWritten
<1>6. Together'
  BY <1>1, <1>3 DEF Together, Waits
<1>7. Waits'
  BY <1>1, <1>2, <1>3 DEF Together, Waits
<1>8. HeldOpen'
  BY <1>1, <1>2, <1>3 DEF Together, HeldOpen
<1>9. InFifo1'
  BY <1>1, <1>2, <1>3, <1>4, <1>5 DEF Together, Waits, HeldOpen, InFifo1
<1>10. InFifo2'
  BY <1>1, <1>2, <1>3, <1>4, <1>5 DEF Together, Waits, HeldOpen, InFifo2
<1>11. Known'
  BY <1>1, <1>2, <1>3 DEF Together, Known, localVars
<1> QED BY <1>6, <1>7, <1>8, <1>9, <1>10, <1>11 DEF InTime

(* The array is alone in fifo1.                                            *)
LEMMA ArrayInFifo1 ==
  ASSUME FifosInv, Undisturbed, InTime, WriteFifo1 PROVE InTime'
<1> "parent" \in Procs /\ "fifo1" \in Fifos /\ "fifo2" \in Fifos \ {"fifo1"}
  BY DEF Procs, Children, Fifos
<1>1. /\ Parent = "write fifo1" /\ "parent" \notin waiting
      /\ Together /\ Waits /\ HeldOpen /\ InFifo1 /\ InFifo2 /\ Known
      /\ "child1" \in fifo["fifo1"].readers
  <2>1. /\ Parent = "write fifo1" /\ "parent" \notin waiting
        /\ Together /\ Waits /\ HeldOpen /\ InFifo1 /\ InFifo2 /\ Known
    BY DEF WriteFifo1, Write, At, InTime, Parent
  <2>2. "child1" \in fifo["fifo1"].readers
    BY <2>1 DEF Together, Waits, HeldOpen
  <2> QED BY <2>1, <2>2
<1>2. /\ Moves("parent", "write fifo1", "close fifo1") /\ Records'
      /\ fifo'["fifo1"].readers = fifo["fifo1"].readers
      /\ fifo'["fifo1"].writers = fifo["fifo1"].writers
      /\ fifo'["fifo1"].data = Append(fifo["fifo1"].data, ArraySent)
      /\ fifo'["fifo2"] = fifo["fifo2"] /\ UNCHANGED localVars
      /\ waiting' = waiting
  <2>1. Records /\ fifo["fifo1"].readers # {}
    BY <1>1 DEF HeldOpen
  <2>2. PICK queue : queue = Append(fifo["fifo1"].data, ArraySent)
    OBVIOUS
  <2>3. fifo' = [fifo EXCEPT !["fifo1"].data = queue]
    BY <2>1, <2>2 DEF WriteFifo1, Write, ArraySent
  <2>4. /\ Records'
        /\ fifo'["fifo1"].readers = fifo["fifo1"].readers
        /\ fifo'["fifo1"].writers = fifo["fifo1"].writers
        /\ fifo'["fifo1"].data = queue /\ fifo'["fifo2"] = fifo["fifo2"]
    BY <2>1, <2>3, Puts
  <2>5. /\ Moves("parent", "write fifo1", "close fifo1")
        /\ UNCHANGED localVars /\ waiting' = waiting
    BY <2>1 DEF WriteFifo1, Write, Moves, Goto, At, FifosInv, Types
  <2> QED BY <2>2, <2>4, <2>5
<1>3. /\ Parent' = "close fifo1" /\ Child1' = Child1 /\ Child2' = Child2
      /\ scenario' = scenario
  BY <1>2 DEF Moves, Procs, Children, Parent, Child1, Child2
<1>4. Append(<<>>, ArraySent) = <<ArraySent>>
  BY AppendSecond, AppendThird
<1>5. /\ CommandSent' = CommandSent /\ ArraySent' = ArraySent
      /\ SumWritten' = SumWritten
  BY <1>3 DEF CommandSent, ArraySent, SumWritten
<1>6. Together'
  BY <1>1, <1>3 DEF Together, Waits
<1>7. Waits'
  BY <1>1, <1>2, <1>3 DEF Together, Waits
<1>8. HeldOpen'
  BY <1>1, <1>2, <1>3 DEF Together, HeldOpen
<1>9. InFifo1'
  BY <1>1, <1>2, <1>3, <1>4, <1>5 DEF Together, Waits, HeldOpen, InFifo1
<1>10. InFifo2'
  BY <1>1, <1>2, <1>3, <1>4, <1>5 DEF Together, Waits, HeldOpen, InFifo2
<1>11. Known'
  BY <1>1, <1>2, <1>3 DEF Together, Known, localVars
<1> QED BY <1>6, <1>7, <1>8, <1>9, <1>10, <1>11 DEF InTime

(* The sum is the last in fifo2.                                           *)
LEMMA SumInFifo2 ==
  ASSUME FifosInv, Undisturbed, InTime, WriteSum PROVE InTime'
<1> "child1" \in Procs /\ "fifo2" \in Fifos /\ "fifo1" \in Fifos \ {"fifo2"}
  BY DEF Procs, Children, Fifos
<1>1. /\ Child1 = "write sum" /\ "child1" \notin waiting
      /\ Together /\ Waits /\ HeldOpen /\ InFifo1 /\ InFifo2 /\ Known
      /\ "child2" \in fifo["fifo2"].readers
  <2>1. /\ Child1 = "write sum" /\ "child1" \notin waiting
        /\ Together /\ Waits /\ HeldOpen /\ InFifo1 /\ InFifo2 /\ Known
    BY DEF WriteSum, Write, At, InTime, Child1
  <2>2. "child2" \in fifo["fifo2"].readers
    BY <2>1 DEF Together, Waits, HeldOpen
  <2> QED BY <2>1, <2>2
<1>2. /\ Moves("child1", "write sum", "close") /\ Records'
      /\ fifo'["fifo2"].readers = fifo["fifo2"].readers
      /\ fifo'["fifo2"].writers = fifo["fifo2"].writers
      /\ fifo'["fifo2"].data = Append(fifo["fifo2"].data, SumWritten)
      /\ fifo'["fifo1"] = fifo["fifo1"] /\ UNCHANGED localVars
      /\ waiting' = waiting
  <2>1. Records /\ fifo["fifo2"].readers # {}
    BY <1>1 DEF HeldOpen
  <2>2. PICK queue : queue = Append(fifo["fifo2"].data, SumWritten)
    OBVIOUS
  <2>3. fifo' = [fifo EXCEPT !["fifo2"].data = queue]
    <3>1. sum = Total(scenario.array)
      BY <1>1 DEF Known
    <3>2. fifo' = [fifo EXCEPT !["fifo2"].data =
                     Append(fifo["fifo2"].data, Message("sum", sum))]
      BY <2>1 DEF WriteSum, Write
    <3>3. Message("sum", sum) = SumWritten
      BY <3>1 DEF SumWritten
    <3> QED BY <2>2, <3>2, <3>3
  <2>4. /\ Records'
        /\ fifo'["fifo2"].readers = fifo["fifo2"].readers
        /\ fifo'["fifo2"].writers = fifo["fifo2"].writers
        /\ fifo'["fifo2"].data = queue /\ fifo'["fifo1"] = fifo["fifo1"]
    BY <2>1, <2>3, Puts
  <2>5. /\ Moves("child1", "write sum", "close")
        /\ UNCHANGED localVars /\ waiting' = waiting
    BY <2>1 DEF WriteSum, Write, Moves, Goto, At, FifosInv, Types
  <2> QED BY <2>2, <2>4, <2>5
<1>3. /\ Child1' = "close" /\ Parent' = Parent /\ Child2' = Child2
      /\ scenario' = scenario
  BY <1>2 DEF Moves, Procs, Children, Parent, Child1, Child2
<1>4. /\ Append(<<>>, SumWritten) = <<SumWritten>>
      /\ Append(<<ArraySent>>, SumWritten) = <<ArraySent, SumWritten>>
      /\ Append(<<CommandSent, ArraySent>>, SumWritten) =
           <<CommandSent, ArraySent, SumWritten>>
  BY AppendSecond, AppendThird
<1>5. /\ CommandSent' = CommandSent /\ ArraySent' = ArraySent
      /\ SumWritten' = SumWritten
  BY <1>3 DEF CommandSent, ArraySent, SumWritten
<1>6. Together'
  BY <1>1, <1>3 DEF Together, Waits
<1>7. Waits'
  BY <1>1, <1>2, <1>3 DEF Together, Waits
<1>8. HeldOpen'
  BY <1>1, <1>2, <1>3 DEF Together, HeldOpen
<1>9. InFifo1'
  BY <1>1, <1>2, <1>3, <1>4, <1>5 DEF Together, Waits, HeldOpen, InFifo1
<1>10. InFifo2'
  BY <1>1, <1>2, <1>3, <1>4, <1>5 DEF Together, Waits, HeldOpen, InFifo2
<1>11. Known'
  BY <1>1, <1>2, <1>3 DEF Together, Known, localVars
<1> QED BY <1>6, <1>7, <1>8, <1>9, <1>10, <1>11 DEF InTime

(* child1 reads the array of fifo1.                                        *)
LEMMA ArrayToChild1 ==
  ASSUME FifosInv, Undisturbed, InTime, Child1ReadsArray PROVE InTime'
<1> "child1" \in Procs /\ "fifo1" \in Fifos /\ "fifo2" \in Fifos \ {"fifo1"}
  BY DEF Procs, Children, Fifos
<1>1. /\ Child1 = "read array" /\ "child1" \notin waiting
      /\ Together /\ Waits /\ HeldOpen /\ InFifo1 /\ InFifo2 /\ Known
  BY DEF Child1ReadsArray, Read, At, InTime, Child1
<1>2. /\ Moves("child1", "read array", "close fifo1") /\ Records'
      /\ fifo["fifo1"].data # <<>> \/ fifo["fifo1"].writers = {}
      /\ fifo'["fifo1"].readers = fifo["fifo1"].readers
      /\ fifo'["fifo1"].writers = fifo["fifo1"].writers
      /\ fifo["fifo1"].data # <<>> =>
           fifo'["fifo1"].data = Tail(fifo["fifo1"].data)
      /\ fifo'["fifo2"] = fifo["fifo2"] /\ waiting' = waiting
  BY <1>1, Reads DEF Child1ReadsArray, HeldOpen, Fifos
<1>3. /\ Child1' = "close fifo1" /\ Parent' = Parent /\ Child2' = Child2
      /\ scenario' = scenario
  BY <1>2 DEF Moves, Procs, Children, Parent, Child1, Child2
<1>4. /\ Head(<<ArraySent>>) = ArraySent
      /\ Tail(<<ArraySent>>) = <<>>
      /\ <<ArraySent>> # <<>>
  BY FirstOfQueue
<1>5. /\ CommandSent' = CommandSent /\ ArraySent' = ArraySent
      /\ SumWritten' = SumWritten
  BY <1>3 DEF CommandSent, ArraySent, SumWritten
<1>6. /\ fifo["fifo1"].data = <<ArraySent>> /\ Parent \in Finishing
  BY <1>1, <1>2, <1>4 DEF Together, Waits, HeldOpen, InFifo1, InFifo2
<1>7. Together'
  BY <1>1, <1>3, <1>6 DEF Together
<1>8. Waits'
  BY <1>1, <1>2, <1>3 DEF Together, Waits
<1>9. HeldOpen'
  BY <1>1, <1>2, <1>3 DEF Together, HeldOpen
<1>10. InFifo1'
  BY <1>1, <1>2, <1>3, <1>4, <1>5, <1>6 DEF Together, HeldOpen, InFifo1
<1>11. InFifo2'
  BY <1>1, <1>2, <1>3, <1>4, <1>5, <1>6 DEF Together, InFifo2
<1>12. Known'
  <2> Got("fifo1", array["child1"]) = ArraySent.value
    BY <1>4, <1>6 DEF Got
  <2> ArraySent.value = scenario.array
    BY DEF ArraySent, Message
  <2>1. array'["child1"] = scenario.array
    BY <1>1 DEF Child1ReadsArray, Known, Children
  <2>2. array' = [d \in Children |-> array'[d]]
    BY <1>1 DEF Child1ReadsArray, Known
  <2>3. /\ sum' = Total(scenario.array)
        /\ UNCHANGED <<command, result, sumFromChild1, final>>
    BY <2>1 DEF Child1ReadsArray
  <2> QED BY <1>1, <1>3, <2>2, <2>3 DEF Known
<1> QED BY <1>7, <1>8, <1>9, <1>10, <1>11, <1>12 DEF InTime

(* child2 reads the command first.                                         *)
LEMMA CommandToChild2 ==
  ASSUME FifosInv, Undisturbed, InTime, ReadCommand PROVE InTime'
<1> "child2" \in Procs /\ "fifo2" \in Fifos /\ "fifo1" \in Fifos \ {"fifo2"}
  BY DEF Procs, Children, Fifos
<1>1. /\ Child2 = "read command" /\ "child2" \notin waiting
      /\ Together /\ Waits /\ HeldOpen /\ InFifo1 /\ InFifo2 /\ Known
  BY DEF ReadCommand, Read, At, InTime, Child2
<1>2. /\ Moves("child2", "read command", "read array") /\ Records'
      /\ fifo["fifo2"].data # <<>> \/ fifo["fifo2"].writers = {}
      /\ fifo'["fifo2"].readers = fifo["fifo2"].readers
      /\ fifo'["fifo2"].writers = fifo["fifo2"].writers
      /\ fifo["fifo2"].data # <<>> =>
           fifo'["fifo2"].data = Tail(fifo["fifo2"].data)
      /\ fifo'["fifo1"] = fifo["fifo1"] /\ waiting' = waiting
  BY <1>1, Reads DEF ReadCommand, HeldOpen, Fifos
<1>3. /\ Child2' = "read array" /\ Parent' = Parent /\ Child1' = Child1
      /\ scenario' = scenario
  BY <1>2 DEF Moves, Procs, Children, Parent, Child1, Child2
<1>4. /\ Head(<<CommandSent>>) = CommandSent
      /\ Tail(<<CommandSent>>) = <<>>
      /\ <<CommandSent>> # <<>>
      /\ Head(<<CommandSent, ArraySent>>) = CommandSent
      /\ Tail(<<CommandSent, ArraySent>>) = <<ArraySent>>
      /\ <<CommandSent, ArraySent>> # <<>>
      /\ Head(<<CommandSent, ArraySent, SumWritten>>) = CommandSent
      /\ Tail(<<CommandSent, ArraySent, SumWritten>>) =
            <<ArraySent, SumWritten>>
      /\ <<CommandSent, ArraySent, SumWritten>> # <<>>
  BY FirstOfQueue
<1>5. /\ CommandSent' = CommandSent /\ ArraySent' = ArraySent
      /\ SumWritten' = SumWritten
  BY <1>3 DEF CommandSent, ArraySent, SumWritten
<1>6. /\ fifo["fifo2"].data \in
           {<<CommandSent>>, <<CommandSent, ArraySent>>,
            <<CommandSent, ArraySent, SumWritten>>}
      /\ Parent \notin Unwritten
  BY <1>1, <1>2, <1>4 DEF Together, Waits, HeldOpen, InFifo1, InFifo2
<1>7. Together'
  BY <1>1, <1>3, <1>6 DEF Together
<1>8. Waits'
  BY <1>1, <1>2, <1>3 DEF Together, Waits
<1>9. HeldOpen'
  BY <1>1, <1>2, <1>3 DEF Together, HeldOpen
<1>10. InFifo1'
  BY <1>1, <1>2, <1>3, <1>4, <1>5, <1>6 DEF Together, HeldOpen, InFifo1
<1>11. InFifo2'
  BY <1>1, <1>2, <1>3, <1>4, <1>5, <1>6 DEF Together, InFifo2
<1>12. Known'
  <2> Got("fifo2", command) = CommandSent.value
    BY <1>4, <1>6 DEF Got
  <2> CommandSent.value = scenario.command
    BY DEF CommandSent, Message
  <2>1. command' = scenario.command
    BY DEF ReadCommand
  <2> QED BY <1>1, <1>3, <2>1 DEF ReadCommand, Known
<1> QED BY <1>7, <1>8, <1>9, <1>10, <1>11, <1>12 DEF InTime

(* child2 reads the array next.                                            *)
LEMMA ArrayToChild2 ==
  ASSUME FifosInv, Undisturbed, InTime, Child2ReadsArray PROVE InTime'
<1> "child2" \in Procs /\ "fifo2" \in Fifos /\ "fifo1" \in Fifos \ {"fifo2"}
  BY DEF Procs, Children, Fifos
<1>1. /\ Child2 = "read array" /\ "child2" \notin waiting
      /\ Together /\ Waits /\ HeldOpen /\ InFifo1 /\ InFifo2 /\ Known
  BY DEF Child2ReadsArray, Read, At, InTime, Child2
<1>2. /\ Moves("child2", "read array", "sleep") /\ Records'
      /\ fifo["fifo2"].data # <<>> \/ fifo["fifo2"].writers = {}
      /\ fifo'["fifo2"].readers = fifo["fifo2"].readers
      /\ fifo'["fifo2"].writers = fifo["fifo2"].writers
      /\ fifo["fifo2"].data # <<>> =>
           fifo'["fifo2"].data = Tail(fifo["fifo2"].data)
      /\ fifo'["fifo1"] = fifo["fifo1"] /\ waiting' = waiting
  BY <1>1, Reads DEF Child2ReadsArray, HeldOpen, Fifos
<1>3. /\ Child2' = "sleep" /\ Parent' = Parent /\ Child1' = Child1
      /\ scenario' = scenario
  BY <1>2 DEF Moves, Procs, Children, Parent, Child1, Child2
<1>4. /\ Head(<<ArraySent>>) = ArraySent
      /\ Tail(<<ArraySent>>) = <<>>
      /\ <<ArraySent>> # <<>>
      /\ Head(<<ArraySent, SumWritten>>) = ArraySent
      /\ Tail(<<ArraySent, SumWritten>>) = <<SumWritten>>
      /\ <<ArraySent, SumWritten>> # <<>>
  BY FirstOfQueue
<1>5. /\ CommandSent' = CommandSent /\ ArraySent' = ArraySent
      /\ SumWritten' = SumWritten
  BY <1>3 DEF CommandSent, ArraySent, SumWritten
<1>6. /\ fifo["fifo2"].data \in {<<ArraySent>>, <<ArraySent, SumWritten>>}
      /\ Parent \notin Unwritten \cup {"write array"}
  BY <1>1, <1>2, <1>4 DEF Together, Waits, HeldOpen, InFifo1, InFifo2
<1>7. Together'
  BY <1>1, <1>3, <1>6 DEF Together
<1>8. Waits'
  BY <1>1, <1>2, <1>3 DEF Together, Waits
<1>9. HeldOpen'
  BY <1>1, <1>2, <1>3 DEF Together, HeldOpen
<1>10. InFifo1'
  BY <1>1, <1>2, <1>3, <1>4, <1>5, <1>6 DEF Together, HeldOpen, InFifo1
<1>11. InFifo2'
  BY <1>1, <1>2, <1>3, <1>4, <1>5, <1>6 DEF Together, InFifo2
<1>12. Known'
  <2> Got("fifo2", array["child2"]) = ArraySent.value
    BY <1>4, <1>6 DEF Got
  <2> ArraySent.value = scenario.array
    BY DEF ArraySent, Message
  <2>1. array'["child2"] = scenario.array
    BY <1>1 DEF Child2ReadsArray, Known, Children
  <2>2. array' = [d \in Children |-> array'[d]]
    BY <1>1 DEF Child2ReadsArray, Known
  <2>3. /\ result' = Result(scenario.command, scenario.array)
        /\ UNCHANGED <<command, sum, sumFromChild1, final>>
    BY <1>1, <2>1 DEF Child2ReadsArray, Known
  <2> QED BY <1>1, <1>3, <2>2, <2>3 DEF Known
<1> QED BY <1>7, <1>8, <1>9, <1>10, <1>11, <1>12 DEF InTime

(* child2 reads the sum last.                                              *)
LEMMA SumToChild2 ==
  ASSUME FifosInv, Undisturbed, InTime, ReadSum PROVE InTime'
<1> "child2" \in Procs /\ "fifo2" \in Fifos /\ "fifo1" \in Fifos \ {"fifo2"}
  BY DEF Procs, Children, Fifos
<1>1. /\ Child2 = "read sum" /\ "child2" \notin waiting
      /\ Together /\ Waits /\ HeldOpen /\ InFifo1 /\ InFifo2 /\ Known
  BY DEF ReadSum, Read, At, InTime, Child2
<1>2. /\ Moves("child2", "read sum", "close") /\ Records'
      /\ fifo["fifo2"].data # <<>> \/ fifo["fifo2"].writers = {}
      /\ fifo'["fifo2"].readers = fifo["fifo2"].readers
      /\ fifo'["fifo2"].writers = fifo["fifo2"].writers
      /\ fifo["fifo2"].data # <<>> =>
           fifo'["fifo2"].data = Tail(fifo["fifo2"].data)
      /\ fifo'["fifo1"] = fifo["fifo1"] /\ waiting' = waiting
  BY <1>1, Reads DEF ReadSum, HeldOpen, Fifos
<1>3. /\ Child2' = "close" /\ Parent' = Parent /\ Child1' = Child1
      /\ scenario' = scenario
  BY <1>2 DEF Moves, Procs, Children, Parent, Child1, Child2
<1>4. /\ Head(<<SumWritten>>) = SumWritten
      /\ Tail(<<SumWritten>>) = <<>>
      /\ <<SumWritten>> # <<>>
  BY FirstOfQueue
<1>5. /\ CommandSent' = CommandSent /\ ArraySent' = ArraySent
      /\ SumWritten' = SumWritten
  BY <1>3 DEF CommandSent, ArraySent, SumWritten
<1>6. fifo["fifo2"].data = <<SumWritten>>
  BY <1>1, <1>2, <1>4 DEF Together, Waits, HeldOpen, InFifo1, InFifo2
<1>7. Together'
  BY <1>1, <1>3, <1>6 DEF Together
<1>8. Waits'
  BY <1>1, <1>2, <1>3 DEF Together, Waits
<1>9. HeldOpen'
  BY <1>1, <1>2, <1>3 DEF Together, HeldOpen
<1>10. InFifo1'
  BY <1>1, <1>2, <1>3, <1>4, <1>5, <1>6 DEF Together, HeldOpen, InFifo1
<1>11. InFifo2'
  BY <1>1, <1>2, <1>3, <1>4, <1>5, <1>6 DEF Together, InFifo2
<1>12. Known'
  <2> Got("fifo2", sumFromChild1) = SumWritten.value
    BY <1>4, <1>6 DEF Got
  <2> SumWritten.value = Total(scenario.array)
    BY DEF SumWritten, Message
  <2>1. sumFromChild1' = Total(scenario.array)
    BY DEF ReadSum
  <2> QED BY <1>1, <1>3, <2>1 DEF ReadSum, Known
<1> QED BY <1>7, <1>8, <1>9, <1>10, <1>11, <1>12 DEF InTime

(* Without a process that moves, nothing changes.                          *)
LEMMA Steady ==
  ASSUME InTime, UNCHANGED <<scenario, pc, fifo, waiting, localVars>>
  PROVE  InTime'
<1>1. Parent' = Parent /\ Child1' = Child1 /\ Child2' = Child2
  BY DEF Parent, Child1, Child2
<1>2. Together' /\ Waits'
  BY <1>1 DEF InTime, Together, Waits
<1>3. HeldOpen'
  <2>1. Records /\ HeldOpen
    BY DEF InTime, HeldOpen
  <2>2. Records'
    BY <2>1 DEF Records
  <2> QED BY <1>1, <2>1, <2>2 DEF HeldOpen
<1>4. InFifo1' /\ InFifo2'
  BY <1>1 DEF InTime, InFifo1, InFifo2, CommandSent, ArraySent, SumWritten
<1>5. Known'
  BY <1>1 DEF InTime, Known, localVars
<1> QED BY <1>2, <1>3, <1>4, <1>5 DEF InTime

(* The names are there, and nobody else yet.                               *)
LEMMA NamesMade ==
  ASSUME FifosInv, Undisturbed, InTime, MkFifos PROVE InTime'
<1>1. /\ Parent = "mkfifo" /\ "parent" \notin waiting
      /\ Together /\ Waits /\ HeldOpen /\ InFifo1 /\ InFifo2 /\ Known
  BY DEF MkFifos, At, InTime, Parent
<1>2. /\ Parent' = "fork child2" /\ Child1' = Child1 /\ Child2' = Child2
      /\ scenario' = scenario /\ fifo' = fifo /\ waiting' = waiting
      /\ UNCHANGED localVars
  BY <1>1 DEF MkFifos, Undisturbed, Goto, FifosInv, Types, Procs, Children,
                Parent, Child1, Child2
<1>3. /\ CommandSent' = CommandSent /\ ArraySent' = ArraySent
      /\ SumWritten' = SumWritten
  BY <1>2 DEF CommandSent, ArraySent, SumWritten
<1>4. Together'
  BY <1>1, <1>2 DEF Together
<1>5. Waits'
  BY <1>1, <1>2 DEF Together, Waits
<1>6. HeldOpen'
  BY <1>1, <1>2 DEF Together, HeldOpen, Records
<1>7. InFifo1'
  BY <1>1, <1>2, <1>3 DEF Together, InFifo1
<1>8. InFifo2'
  BY <1>1, <1>2, <1>3, <1>4 DEF Together, InFifo2
<1>9. Known'
  BY <1>1, <1>2 DEF Together, Known, localVars
<1> QED BY <1>4, <1>5, <1>6, <1>7, <1>8, <1>9 DEF InTime

(* child2 is born.                                                         *)
LEMMA Child2Born ==
  ASSUME FifosInv, Undisturbed, InTime, ForkChild2 PROVE InTime'
<1>1. /\ Parent = "fork child2" /\ "parent" \notin waiting
      /\ Together /\ Waits /\ HeldOpen /\ InFifo1 /\ InFifo2 /\ Known
  BY DEF ForkChild2, At, InTime, Parent, Fork
<1>2. /\ Parent' = "open fifo2" /\ Child2' = "open" /\ Child1' = Child1
      /\ scenario' = scenario /\ fifo' = fifo /\ waiting' = waiting
      /\ UNCHANGED localVars
  BY <1>1 DEF ForkChild2, Undisturbed, Goto, FifosInv, Types, Procs, Children,
                Parent, Child1, Child2, Fork
<1>3. /\ CommandSent' = CommandSent /\ ArraySent' = ArraySent
      /\ SumWritten' = SumWritten
  BY <1>2 DEF CommandSent, ArraySent, SumWritten
<1>4. Together'
  BY <1>1, <1>2 DEF Together
<1>5. Waits'
  BY <1>1, <1>2 DEF Together, Waits
<1>6. HeldOpen'
  BY <1>1, <1>2 DEF Together, HeldOpen, Records
<1>7. InFifo1'
  BY <1>1, <1>2, <1>3 DEF Together, InFifo1
<1>8. InFifo2'
  BY <1>1, <1>2, <1>3, <1>4 DEF Together, InFifo2
<1>9. Known'
  BY <1>1, <1>2 DEF Together, Known, localVars
<1> QED BY <1>4, <1>5, <1>6, <1>7, <1>8, <1>9 DEF InTime

(* child1 is born.                                                         *)
LEMMA Child1Born ==
  ASSUME FifosInv, Undisturbed, InTime, ForkChild1 PROVE InTime'
<1>1. /\ Parent = "fork child1" /\ "parent" \notin waiting
      /\ Together /\ Waits /\ HeldOpen /\ InFifo1 /\ InFifo2 /\ Known
  BY DEF ForkChild1, At, InTime, Parent, Fork
<1>2. /\ Parent' = "open fifo1" /\ Child1' = "open" /\ Child2' = Child2
      /\ scenario' = scenario /\ fifo' = fifo /\ waiting' = waiting
      /\ UNCHANGED localVars
  BY <1>1 DEF ForkChild1, Undisturbed, Goto, FifosInv, Types, Procs, Children,
                Parent, Child1, Child2, Fork
<1>3. /\ CommandSent' = CommandSent /\ ArraySent' = ArraySent
      /\ SumWritten' = SumWritten
  BY <1>2 DEF CommandSent, ArraySent, SumWritten
<1>4. Together'
  BY <1>1, <1>2 DEF Together
<1>5. Waits'
  BY <1>1, <1>2 DEF Together, Waits
<1>6. HeldOpen'
  BY <1>1, <1>2 DEF Together, HeldOpen, Records
<1>7. InFifo1'
  BY <1>1, <1>2, <1>3 DEF Together, InFifo1
<1>8. InFifo2'
  BY <1>1, <1>2, <1>3, <1>4 DEF Together, InFifo2
<1>9. Known'
  BY <1>1, <1>2 DEF Together, Known, localVars
<1> QED BY <1>4, <1>5, <1>6, <1>7, <1>8, <1>9 DEF InTime

(* The parent has counted two: both have ended.                            *)
LEMMA BothEnded ==
  ASSUME FifosInv, Undisturbed, InTime, BothCounted PROVE InTime'
<1>1. /\ Parent = "loop" /\ "parent" \notin waiting
      /\ Together /\ Waits /\ HeldOpen /\ InFifo1 /\ InFifo2 /\ Known
  BY DEF BothCounted, At, InTime, Parent, Step
<1>2. /\ Parent' = "unlink" /\ Child1' = Child1 /\ Child2' = Child2
      /\ scenario' = scenario /\ fifo' = fifo /\ waiting' = waiting
      /\ UNCHANGED localVars
  BY <1>1 DEF BothCounted, Undisturbed, Goto, FifosInv, Types, Procs, Children,
                Parent, Child1, Child2, Step
<1>3. /\ CommandSent' = CommandSent /\ ArraySent' = ArraySent
      /\ SumWritten' = SumWritten
  BY <1>2 DEF CommandSent, ArraySent, SumWritten
<1>4. Together'
  <2>1. EndedChildren = Children
    <3>1. zombies \in SUBSET Children /\ EndedChildren \in SUBSET Children
      BY DEF FifosInv, Types, EndedChildren
    <3>2. /\ Cardinality(zombies) \in Nat
          /\ Cardinality(EndedChildren) \in Nat
          /\ Cardinality(EndedChildren) >= 2 => EndedChildren = Children
      BY <3>1, EndedFinite
    <3>3. counter = 2
      BY DEF BothCounted
    <3> QED BY <3>2, <3>3 DEF FifosInv, Counting
  <2>2. Child1 = "ended" /\ Child2 = "ended"
    BY <2>1 DEF EndedChildren, Children, Child1, Child2
  <2> QED BY <1>1, <1>2, <2>2 DEF Together
<1>5. Waits'
  BY <1>1, <1>2 DEF Together, Waits
<1>6. HeldOpen'
  BY <1>1, <1>2 DEF Together, HeldOpen, Records
<1>7. InFifo1'
  BY <1>1, <1>2, <1>3 DEF Together, InFifo1
<1>8. InFifo2'
  BY <1>1, <1>2, <1>3, <1>4 DEF Together, InFifo2
<1>9. Known'
  BY <1>1, <1>2 DEF Together, Known, localVars
<1> QED BY <1>4, <1>5, <1>6, <1>7, <1>8, <1>9 DEF InTime

(* When child2 wakes, child1 has sent its sum: else one is not idle.       *)
LEMMA SumAwaitsChild2 ==
  ASSUME FifosInv, Undisturbed, InTime, Child2Wakes PROVE InTime'
<1>1. /\ Child2 = "sleep" /\ "child2" \notin waiting
      /\ Together /\ Waits /\ HeldOpen /\ InFifo1 /\ InFifo2 /\ Known
  BY DEF Child2Wakes, At, InTime, Child2, Step
<1>2. /\ Child2' = "read sum" /\ Parent' = Parent /\ Child1' = Child1
      /\ scenario' = scenario /\ fifo' = fifo /\ waiting' = waiting
      /\ UNCHANGED localVars
  BY <1>1 DEF Child2Wakes, Undisturbed, Goto, FifosInv, Types, Procs, Children,
                Parent, Child1, Child2, Step
<1>3. /\ CommandSent' = CommandSent /\ ArraySent' = ArraySent
      /\ SumWritten' = SumWritten
  BY <1>2 DEF CommandSent, ArraySent, SumWritten
<1>4. Together'
  <2>1. Idle("parent") /\ Idle("child1")
    BY DEF Child2Wakes, Undisturbed
  <2>2. Child1 \in {"sleep", "ended"}
    BY <1>1, <2>1 DEF Idle, Together, Waits, Parent, Child1
  <2> QED BY <1>1, <1>2, <2>2 DEF Together
<1>5. Waits'
  BY <1>1, <1>2 DEF Together, Waits
<1>6. HeldOpen'
  BY <1>1, <1>2 DEF Together, HeldOpen, Records
<1>7. InFifo1'
  BY <1>1, <1>2, <1>3 DEF Together, InFifo1
<1>8. InFifo2'
  BY <1>1, <1>2, <1>3, <1>4 DEF Together, InFifo2
<1>9. Known'
  BY <1>1, <1>2 DEF Together, Known, localVars
<1> QED BY <1>4, <1>5, <1>6, <1>7, <1>8, <1>9 DEF InTime

(* child1 ends: child2 has fifo2 open, or nothing is in it.                *)
LEMMA Child1Over ==
  ASSUME FifosInv, Undisturbed, InTime, Child1Prints PROVE InTime'
<1>1. /\ Child1 = "sleep" /\ "child1" \notin waiting
      /\ Together /\ Waits /\ HeldOpen /\ InFifo1 /\ InFifo2 /\ Known
  BY DEF Child1Prints, At, InTime, Child1
<1>2. /\ Moves("child1", "sleep", "ended") /\ Records'
      /\ \A f \in Fifos :
           /\ fifo'[f].readers = fifo[f].readers \ {"child1"}
           /\ fifo'[f].writers = fifo[f].writers \ {"child1"}
           /\ fifo'[f].data =
                IF fifo'[f].readers \cup fifo'[f].writers = {} THEN <<>>
                ELSE fifo[f].data
      /\ waiting' = waiting \ {"child1"}
  <2>1. Records /\ "child1" \in Procs /\ pc["child1"] = "sleep"
        /\ At("child1", pc["child1"]) /\ End("child1")
    BY <1>1 DEF Child1Prints, HeldOpen, Procs, Children, At, Child1
  <2> QED BY <2>1, Leaves
<1>3. /\ Child1' = "ended" /\ Parent' = Parent /\ Child2' = Child2
      /\ scenario' = scenario
  BY <1>2 DEF Moves, Procs, Children, Parent, Child1, Child2
<1>4. /\ CommandSent' = CommandSent /\ ArraySent' = ArraySent
      /\ SumWritten' = SumWritten
  BY <1>3 DEF CommandSent, ArraySent, SumWritten
<1>5. "fifo1" \in Fifos /\ "fifo2" \in Fifos
  BY DEF Fifos
<1>6. Together'
  BY <1>1, <1>3 DEF Together
<1>7. Waits'
  BY <1>1, <1>2, <1>3 DEF Together, Waits
<1>8. HeldOpen'
  BY <1>1, <1>2, <1>3, <1>5 DEF Together, HeldOpen
<1>9. InFifo1'
  BY <1>1, <1>2, <1>3, <1>4, <1>5 DEF Together, HeldOpen, InFifo1
<1>10. InFifo2'
  BY <1>1, <1>2, <1>3, <1>4, <1>5 DEF Together, HeldOpen, InFifo2
<1>11. Known'
  BY <1>1, <1>3 DEF Child1Prints, Together, Known, localVars
<1> QED BY <1>6, <1>7, <1>8, <1>9, <1>10, <1>11 DEF InTime

(* child2 ends with the answer.                                            *)
LEMMA Child2Over ==
  ASSUME FifosInv, Undisturbed, InTime, Child2Prints PROVE InTime'
<1>1. /\ Child2 = "print" /\ "child2" \notin waiting
      /\ Together /\ Waits /\ HeldOpen /\ InFifo1 /\ InFifo2 /\ Known
  BY DEF Child2Prints, At, InTime, Child2
<1>2. /\ Moves("child2", "print", "ended") /\ Records'
      /\ \A f \in Fifos :
           /\ fifo'[f].readers = fifo[f].readers \ {"child2"}
           /\ fifo'[f].writers = fifo[f].writers \ {"child2"}
           /\ fifo'[f].data =
                IF fifo'[f].readers \cup fifo'[f].writers = {} THEN <<>>
                ELSE fifo[f].data
      /\ waiting' = waiting \ {"child2"}
  <2>1. Records /\ "child2" \in Procs /\ pc["child2"] = "print"
        /\ At("child2", pc["child2"]) /\ End("child2")
    BY <1>1 DEF Child2Prints, HeldOpen, Procs, Children, At, Child2
  <2> QED BY <2>1, Leaves
<1>3. /\ Child2' = "ended" /\ Parent' = Parent /\ Child1' = Child1
      /\ scenario' = scenario
  BY <1>2 DEF Moves, Procs, Children, Parent, Child1, Child2
<1>4. /\ CommandSent' = CommandSent /\ ArraySent' = ArraySent
      /\ SumWritten' = SumWritten
  BY <1>3 DEF CommandSent, ArraySent, SumWritten
<1>5. "fifo1" \in Fifos /\ "fifo2" \in Fifos
  BY DEF Fifos
<1>6. Together'
  BY <1>1, <1>3 DEF Together
<1>7. Waits'
  BY <1>1, <1>2, <1>3 DEF Together, Waits
<1>8. HeldOpen'
  BY <1>1, <1>2, <1>3, <1>5 DEF Together, HeldOpen
<1>9. InFifo1'
  BY <1>1, <1>2, <1>3, <1>4, <1>5 DEF Together, HeldOpen, InFifo1
<1>10. InFifo2'
  BY <1>1, <1>2, <1>3, <1>4, <1>5 DEF Together, HeldOpen, InFifo2
<1>11. Known'
  <2>1. /\ sumFromChild1 = Total(scenario.array)
        /\ result = Result(scenario.command, scenario.array)
    BY <1>1 DEF Known
  <2>2. final' = <<Answer(scenario)>>
    BY <2>1 DEF Child2Prints, Answer
  <2>3. UNCHANGED <<command, array, sum, result, sumFromChild1>>
    BY DEF Child2Prints
  <2> QED BY <1>1, <1>3, <2>2, <2>3 DEF Known
<1> QED BY <1>6, <1>7, <1>8, <1>9, <1>10, <1>11 DEF InTime

(* The parent ends last.                                                   *)
LEMMA ParentOver ==
  ASSUME FifosInv, Undisturbed, InTime, Unlink PROVE InTime'
<1>1. /\ Parent = "unlink" /\ "parent" \notin waiting
      /\ Together /\ Waits /\ HeldOpen /\ InFifo1 /\ InFifo2 /\ Known
  BY DEF Unlink, At, InTime, Parent
<1>2. /\ Moves("parent", "unlink", "ended") /\ Records'
      /\ \A f \in Fifos :
           /\ fifo'[f].readers = fifo[f].readers \ {"parent"}
           /\ fifo'[f].writers = fifo[f].writers \ {"parent"}
           /\ fifo'[f].data =
                IF fifo'[f].readers \cup fifo'[f].writers = {} THEN <<>>
                ELSE fifo[f].data
      /\ waiting' = waiting \ {"parent"}
  <2>1. Records /\ "parent" \in Procs /\ pc["parent"] = "unlink"
        /\ At("parent", pc["parent"]) /\ End("parent")
    BY <1>1 DEF Unlink, HeldOpen, Procs, Children, At, Parent
  <2> QED BY <2>1, Leaves
<1>3. /\ Parent' = "ended" /\ Child1' = Child1 /\ Child2' = Child2
      /\ scenario' = scenario
  BY <1>2 DEF Moves, Procs, Children, Parent, Child1, Child2
<1>4. /\ CommandSent' = CommandSent /\ ArraySent' = ArraySent
      /\ SumWritten' = SumWritten
  BY <1>3 DEF CommandSent, ArraySent, SumWritten
<1>5. "fifo1" \in Fifos /\ "fifo2" \in Fifos
  BY DEF Fifos
<1>6. Together'
  BY <1>1, <1>3 DEF Together
<1>7. Waits'
  BY <1>1, <1>2, <1>3 DEF Together, Waits
<1>8. HeldOpen'
  BY <1>1, <1>2, <1>3, <1>5 DEF Together, HeldOpen
<1>9. InFifo1'
  BY <1>1, <1>2, <1>3, <1>4, <1>5 DEF Together, HeldOpen, InFifo1
<1>10. InFifo2'
  BY <1>1, <1>2, <1>3, <1>4, <1>5 DEF Together, HeldOpen, InFifo2
<1>11. Known'
  BY <1>1, <1>3 DEF Unlink, Together, Known, localVars
<1> QED BY <1>6, <1>7, <1>8, <1>9, <1>10, <1>11 DEF InTime

LEMMA CalmInit == Init => Calm
<1> SUFFICES ASSUME Init PROVE InTime
  BY DEF Calm
<1>1. Parent = "mkfifo" /\ Child1 = "unborn" /\ Child2 = "unborn"
  BY DEF Init, Procs, Children, Parent, Child1, Child2
<1>2. /\ Records
      /\ \A f \in Fifos : /\ fifo[f].readers = {} /\ fifo[f].writers = {}
                          /\ fifo[f].data = <<>>
  BY DEF Init, Records
<1>3. "fifo1" \in Fifos /\ "fifo2" \in Fifos
  BY DEF Fifos
<1>4. Together /\ Waits /\ HeldOpen /\ InFifo1 /\ InFifo2
  BY <1>1, <1>2, <1>3
     DEF Init, Together, Waits, HeldOpen, InFifo1, InFifo2
<1>5. Known
  BY <1>1 DEF Init, Known
<1> QED BY <1>4, <1>5 DEF InTime

LEMMA ScenarioKept == [Next]_vars => scenario' = scenario
<1> SUFFICES ASSUME [Next]_vars PROVE scenario' = scenario
  OBVIOUS
<1>1. CASE UNCHANGED vars
  BY <1>1 DEF vars
<1>2. CASE ParentStep
  BY <1>2 DEF ParentStep, MkFifos, ForkChild2, ForkChild1, Fork,
     ParentOpensFifo2, ParentOpensFifo1, WriteCommand, WriteArray,
     WriteFifo1, ParentClosesFifo2, ParentClosesFifo1, BothCounted, Unlink,
     Open, Write, Close, End
<1>3. CASE Child1Step
  BY <1>3 DEF Child1Step, Child1OpensFifo1, Child1ReadsArray,
     Child1ClosesFifo1, Child1OpensFifo2, WriteSum, Child1ClosesFifo2,
     Child1Prints, Open, Write, Read, Close, End
<1>4. CASE Child2Step
  BY <1>4 DEF Child2Step, Child2OpensFifo2, ReadCommand, Child2ReadsArray,
     Child2Wakes, ReadSum, Child2ClosesFifo2, Child2Prints,
     Open, Read, Close, End
<1>5. CASE \/ SigchldHandler \/ Interrupt
           \/ \E q \in Procs : SigintHandler(q)
           \/ \E q \in Children : Kill(q)
  BY <1>5 DEF SigchldHandler, Interrupt, SigintHandler, Kill, End
<1> QED BY <1>1, <1>2, <1>3, <1>4, <1>5 DEF Next

LEMMA CalmStep == FifosInv /\ Calm /\ [Next]_vars => Calm'
<1> SUFFICES ASSUME FifosInv, Calm, [Next]_vars, Undisturbed' PROVE InTime'
  BY DEF Calm
<1>1. scenario' = scenario
  BY ScenarioKept
<1>2. Undisturbed /\ InTime
  BY <1>1 DEF Undisturbed, Calm
<1>3. CASE ParentStep
  BY <1>2, <1>3, NamesMade, Child2Born, Child1Born, ParentAtFifo2,
     CommandInFifo2, ArrayInFifo2, ParentOffFifo2, ParentAtFifo1,
     ArrayInFifo1, ParentOffFifo1, BothEnded, ParentOver
     DEF ParentStep
<1>4. CASE Child1Step
  BY <1>2, <1>4, Child1AtFifo1, ArrayToChild1, Child1OffFifo1, Child1AtFifo2,
     SumInFifo2, Child1OffFifo2, Child1Over
     DEF Child1Step
<1>5. CASE Child2Step
  BY <1>2, <1>5, Child2AtFifo2, CommandToChild2, ArrayToChild2,
     SumAwaitsChild2, SumToChild2, Child2OffFifo2, Child2Over
     DEF Child2Step
<1>6. CASE SigchldHandler \/ UNCHANGED vars
  BY <1>2, <1>6, Steady DEF SigchldHandler, vars, localVars
<1>7. CASE \/ Interrupt
           \/ \E q \in Procs : SigintHandler(q)
           \/ \E q \in Children : Kill(q)
  BY <1>2, <1>7, Undeterred DEF Undisturbed, Interrupt, SigintHandler, Kill
<1> QED BY <1>3, <1>4, <1>5, <1>6, <1>7 DEF Next

(* When nothing goes wrong, what child2 prints is what the children's      *)
(* arithmetic makes of the whole array and the command of the command      *)
(* line: neither child ever reads what was meant for the other, although   *)
(* the command, the array and the sum go through one FIFO.                 *)
THEOREM AnswerComputed ==
  Spec => [](Undisturbed /\ final # <<>> => final = <<Answer(scenario)>>)
<1>1. FifosInv /\ Calm =>
        (Undisturbed /\ final # <<>> => final = <<Answer(scenario)>>)
  BY DEF Calm, InTime, Known
<1>2. Init /\ [][Next]_vars => [](FifosInv /\ Calm)
  <2>1. Init => FifosInv /\ Calm
    BY InitNames, ScenariosAssumption, CalmInit
  <2> QED BY <2>1, NextNames, CalmStep, PTL
<1> QED BY <1>1, <1>2, PTL DEF Spec

-----------------------------------------------------------------------------
(* What a set of numbers that has 0 and, with each of its members, the     *)
(* next one, holds: the induction all recursions below rest on.            *)
LEMMA InductionNat ==
  ASSUME NEW T, 0 \in T, \A n \in Nat : n \in T => n + 1 \in T
  PROVE  Nat \subseteq T
<1> DEFINE Less == OpToRel(<, Nat)
           Out == Nat \ T
<1>1. IsWellFoundedOn(Less, Nat)
  BY NatLessThanWellFounded
<1>2. \A m, n \in Nat : m < n => <<m, n>> \in Less
  BY DEF OpToRel
<1> HIDE DEF Less
<1>3. ASSUME Out # {} PROVE FALSE
  <2>1. PICK x \in Out : \A y \in Out : ~(<<y, x>> \in Less)
    BY <1>1, <1>3, WFMin
  <2>2. x \in Nat \ {0}
    OBVIOUS
  <2>3. x - 1 \in Nat /\ x - 1 < x /\ (x - 1) + 1 = x
    BY <2>2
  <2>4. x - 1 \notin T
    BY <2>2, <2>3
  <2> QED BY <1>2, <2>1, <2>3, <2>4
<1> QED BY <1>3

(* A function that is defined by recursion up to last exists: h takes its  *)
(* first n steps.                                                          *)
Runs(h, n, S, first, step) ==
  /\ h \in [0 .. n -> S] /\ h[0] = first
  /\ \A i \in 1 .. n : h[i] = step[<<i, h[i - 1]>>]
LEMMA Recursion ==
  ASSUME NEW last \in Nat, NEW S, NEW first \in S,
         NEW step \in [(1 .. last) \X S -> S]
  PROVE  \E h : Runs(h, last, S, first, step)
<1> DEFINE R(h, n) == Runs(h, n, S, first, step)
           Some == {n \in Nat : n <= last => \E h : R(h, n)}
<1>1. 0 \in Some
  <2>1. R([i \in 0 .. 0 |-> first], 0)
    BY DEF Runs
  <2> HIDE DEF R
  <2> QED BY <2>1
<1>2. ASSUME NEW n \in Nat, n \in Some PROVE n + 1 \in Some
  <2> SUFFICES ASSUME n + 1 <= last PROVE \E h : R(h, n + 1)
    OBVIOUS
  <2>1. PICK h : R(h, n)
    BY <1>2
  <2> DEFINE k == [i \in 0 .. n + 1 |->
                     IF i = n + 1 THEN step[<<n + 1, h[n]>>] ELSE h[i]]
  <2>2. /\ h[n] \in S /\ h[0] = first /\ \A i \in 0 .. n : h[i] \in S
        /\ \A i \in 1 .. n : h[i] = step[<<i, h[i - 1]>>]
    BY <2>1 DEF Runs
  <2>3. step[<<n + 1, h[n]>>] \in S
    BY <2>2
  <2>4. k \in [0 .. n + 1 -> S]
    BY <2>2, <2>3
  <2>5. k[0] = first
    BY <2>2
  <2>6. ASSUME NEW i \in 1 .. n + 1 PROVE k[i] = step[<<i, k[i - 1]>>]
    <3>1. CASE i = n + 1
      <4>1. n + 1 \in 0 .. n + 1 /\ n \in 0 .. n + 1 /\ n # n + 1
        OBVIOUS
      <4>2. k[n + 1] = step[<<n + 1, h[n]>>] /\ k[n] = h[n]
        BY <4>1
      <4>3. (n + 1) - 1 = n
        OBVIOUS
      <4> QED BY <3>1, <4>2, <4>3
    <3>2. CASE i # n + 1
      <4>1. i \in 1 .. n /\ i - 1 \in 0 .. n
        BY <3>2
      <4>2. k[i] = h[i] /\ k[i - 1] = h[i - 1]
        BY <4>1
      <4> QED BY <2>2, <4>1, <4>2
    <3> QED BY <3>1, <3>2
  <2> HIDE DEF k
  <2>7. R(k, n + 1)
    BY <2>4, <2>5, <2>6 DEF Runs
  <2> HIDE DEF R
  <2> QED BY <2>7
<1> HIDE DEF Some
<1>3. last \in Some
  BY <1>1, <1>2, InductionNat
<1> QED BY <1>3 DEF Some


(* A number that fits in a long is what it was.                            *)
LEMMA LongFits ==
  /\ \A x \in 0 .. LongMax : Long(x) = x
  /\ \A x \in Int : Long(x) \in Int
<1>1. PICK M \in Nat \ {0} : M = 2 * (LongMax + 1)
  BY LongAssumption
<1>2. /\ \A y \in 0 .. M - 1 : y % M = y
      /\ \A y \in Int : y % M \in Int
  OBVIOUS
<1>3. ASSUME NEW x \in 0 .. LongMax PROVE Long(x) = x
  <2>1. PICK y \in 0 .. M - 1 : y = x + LongMax + 1
    BY <1>1, LongAssumption
  <2> QED BY <1>1, <1>2, <2>1, LongAssumption DEF Long
<1>4. ASSUME NEW x \in Int PROVE Long(x) \in Int
  <2>1. PICK y \in Int : y = x + LongMax + 1
    BY LongAssumption
  <2> QED BY <1>1, <1>2, <2>1, LongAssumption DEF Long
<1> QED BY <1>3, <1>4

LEMMA TimesNat == \A x, y \in Nat : x * y \in Nat /\ (y # 0 => x <= x * y)
<1> TAKE x, y \in Nat
<1>1. x * y \in Int /\ x * y >= 0
  OBVIOUS
<1>2. ASSUME y # 0 PROVE x <= x * y
  <2>1. y - 1 >= 0 /\ x * (y - 1) = x * y - x
    BY <1>2
  <2>2. x * (y - 1) >= 0
    BY <2>1
  <2> QED BY <2>1, <2>2
<1> QED BY <1>1, <1>2

(* The loops of the children go on as they are written.                    *)
LEMMA SumsRun ==
  ASSUME NEW a \in Seq(Nat)
  PROVE  /\ Sums(a)[0] = 0
         /\ \A i \in 0 .. Len(a) : Sums(a)[i] \in Nat
         /\ \A i \in 1 .. Len(a) :
              Sums(a)[i] = Sums(a)[i - 1] + a[i]
<1>1. PICK n \in Nat : n = Len(a)
  BY LenProperties
<1>2. \A i \in 1 .. n : a[i] \in Nat
  BY <1>1, ElementOfSeq
<1>3. ASSUME NEW y \in Nat, NEW i \in 1 .. n PROVE y + a[i] \in Nat
  <2>1. PICK z \in Nat : z = a[i]
    BY <1>2
  <2>2. y + z \in Nat
    OBVIOUS
  <2> QED BY <2>1, <2>2
<1> DEFINE step == [x \in (1 .. n) \X Nat |-> x[2] + a[x[1]]]
<1>4. step \in [(1 .. n) \X Nat -> Nat] /\ 0 \in Nat
  <2>1. ASSUME NEW x \in (1 .. n) \X Nat PROVE x[2] + a[x[1]] \in Nat
    <3>1. x[1] \in 1 .. n /\ x[2] \in Nat
      OBVIOUS
    <3> QED BY <1>3, <3>1, Zenon
  <2> QED BY <2>1
<1>5. PICK h : Runs(h, n, Nat, 0, step)
  <2> HIDE DEF step
  <2> QED BY <1>4, Recursion
<1>6. h = [i \in 0 .. n |-> IF i = 0 THEN 0 ELSE h[i - 1] + a[i]]
  <2>1. ASSUME NEW i \in 1 .. n PROVE h[i] = h[i - 1] + a[i]
    <3>1. i - 1 \in 0 .. n
      OBVIOUS
    <3>2. h[i - 1] \in Nat /\ h[i] = step[<<i, h[i - 1]>>]
      <4> HIDE DEF step
      <4> QED BY <1>5, <3>1 DEF Runs
    <3>3. <<i, h[i - 1]>> \in (1 .. n) \X Nat
      BY <3>2
    <3> QED BY <3>2, <3>3
  <2>2. h \in [0 .. n -> Nat] /\ h[0] = 0
    BY <1>5 DEF Runs
  <2> HIDE DEF step
  <2> QED BY <2>1, <2>2
<1> DEFINE f == Sums(a)
<1>7. f = [i \in 0 .. n |-> IF i = 0 THEN 0 ELSE f[i - 1] + a[i]]
  BY <1>1, <1>6 DEF Sums
<1> HIDE DEF f
<1>8. f[0] = 0 /\ \A i \in 1 .. n : f[i] = f[i - 1] + a[i]
  <2>1. 0 \in 0 .. n /\ \A i \in 1 .. n : i \in 0 .. n /\ i # 0
    OBVIOUS
  <2> QED BY <1>7, <2>1
<1>9. \A i \in 0 .. n : f[i] \in Nat
  <2> DEFINE So == {i \in Nat : i <= n => f[i] \in Nat}
  <2>1. 0 \in So
    BY <1>4, <1>8
  <2>2. ASSUME NEW i \in Nat, i \in So PROVE i + 1 \in So
    <3> SUFFICES ASSUME i + 1 <= n PROVE f[i + 1] \in Nat
      OBVIOUS
    <3>1. PICK j \in 1 .. n : j = i + 1 /\ j - 1 = i
      OBVIOUS
    <3>2. f[j] = f[i] + a[j] /\ f[i] \in Nat
      BY <1>8, <2>2, <3>1
    <3> QED BY <1>3, <3>1, <3>2
  <2> HIDE DEF So
  <2>3. Nat \subseteq So
    BY <2>1, <2>2, InductionNat
  <2> QED BY <2>3 DEF So
<1> QED BY <1>1, <1>8, <1>9 DEF f

LEMMA ProductsRun ==
  ASSUME NEW a \in Seq(Nat)
  PROVE  /\ Products(a)[0] = 1
         /\ \A i \in 0 .. Len(a) : Products(a)[i] \in Nat
         /\ \A i \in 1 .. Len(a) :
              Products(a)[i] = Products(a)[i - 1] * a[i]
<1>1. PICK n \in Nat : n = Len(a)
  BY LenProperties
<1>2. \A i \in 1 .. n : a[i] \in Nat
  BY <1>1, ElementOfSeq
<1>3. ASSUME NEW y \in Nat, NEW i \in 1 .. n PROVE y * a[i] \in Nat
  <2>1. PICK z \in Nat : z = a[i]
    BY <1>2
  <2>2. y * z \in Nat
    BY TimesNat
  <2> QED BY <2>1, <2>2
<1> DEFINE step == [x \in (1 .. n) \X Nat |-> x[2] * a[x[1]]]
<1>4. step \in [(1 .. n) \X Nat -> Nat] /\ 1 \in Nat
  <2>1. ASSUME NEW x \in (1 .. n) \X Nat PROVE x[2] * a[x[1]] \in Nat
    <3>1. x[1] \in 1 .. n /\ x[2] \in Nat
      OBVIOUS
    <3> QED BY <1>3, <3>1, Zenon
  <2> QED BY <2>1
<1>5. PICK h : Runs(h, n, Nat, 1, step)
  <2> HIDE DEF step
  <2> QED BY <1>4, Recursion
<1>6. h = [i \in 0 .. n |-> IF i = 0 THEN 1 ELSE h[i - 1] * a[i]]
  <2>1. ASSUME NEW i \in 1 .. n PROVE h[i] = h[i - 1] * a[i]
    <3>1. i - 1 \in 0 .. n
      OBVIOUS
    <3>2. h[i - 1] \in Nat /\ h[i] = step[<<i, h[i - 1]>>]
      <4> HIDE DEF step
      <4> QED BY <1>5, <3>1 DEF Runs
    <3>3. <<i, h[i - 1]>> \in (1 .. n) \X Nat
      BY <3>2
    <3> QED BY <3>2, <3>3
  <2>2. h \in [0 .. n -> Nat] /\ h[0] = 1
    BY <1>5 DEF Runs
  <2> HIDE DEF step
  <2> QED BY <2>1, <2>2
<1> DEFINE f == Products(a)
<1>7. f = [i \in 0 .. n |-> IF i = 0 THEN 1 ELSE f[i - 1] * a[i]]
  BY <1>1, <1>6 DEF Products
<1> HIDE DEF f
<1>8. f[0] = 1 /\ \A i \in 1 .. n : f[i] = f[i - 1] * a[i]
  <2>1. 0 \in 0 .. n /\ \A i \in 1 .. n : i \in 0 .. n /\ i # 0
    OBVIOUS
  <2> QED BY <1>7, <2>1
<1>9. \A i \in 0 .. n : f[i] \in Nat
  <2> DEFINE So == {i \in Nat : i <= n => f[i] \in Nat}
  <2>1. 0 \in So
    BY <1>4, <1>8
  <2>2. ASSUME NEW i \in Nat, i \in So PROVE i + 1 \in So
    <3> SUFFICES ASSUME i + 1 <= n PROVE f[i + 1] \in Nat
      OBVIOUS
    <3>1. PICK j \in 1 .. n : j = i + 1 /\ j - 1 = i
      OBVIOUS
    <3>2. f[j] = f[i] * a[j] /\ f[i] \in Nat
      BY <1>8, <2>2, <3>1
    <3> QED BY <1>3, <3>1, <3>2
  <2> HIDE DEF So
  <2>3. Nat \subseteq So
    BY <2>1, <2>2, InductionNat
  <2> QED BY <2>3 DEF So
<1> QED BY <1>1, <1>8, <1>9 DEF f

LEMMA LongProductsRun ==
  ASSUME NEW a \in Seq(Nat)
  PROVE  /\ LongProducts(a)[0] = 1
         /\ \A i \in 0 .. Len(a) : LongProducts(a)[i] \in Int
         /\ \A i \in 1 .. Len(a) :
              LongProducts(a)[i] = Long(LongProducts(a)[i - 1] * a[i])
<1>1. PICK n \in Nat : n = Len(a)
  BY LenProperties
<1>2. \A i \in 1 .. n : a[i] \in Nat
  BY <1>1, ElementOfSeq
<1>3. ASSUME NEW y \in Int, NEW i \in 1 .. n PROVE Long(y * a[i]) \in Int
  <2>1. PICK z \in Nat : z = a[i]
    BY <1>2
  <2>2. Long(y * z) \in Int
    BY LongFits
  <2> QED BY <2>1, <2>2
<1> DEFINE step == [x \in (1 .. n) \X Int |-> Long(x[2] * a[x[1]])]
<1>4. step \in [(1 .. n) \X Int -> Int] /\ 1 \in Int
  <2>1. ASSUME NEW x \in (1 .. n) \X Int PROVE Long(x[2] * a[x[1]]) \in Int
    <3>1. x[1] \in 1 .. n /\ x[2] \in Int
      OBVIOUS
    <3> QED BY <1>3, <3>1, Zenon
  <2> QED BY <2>1
<1>5. PICK h : Runs(h, n, Int, 1, step)
  <2> HIDE DEF step
  <2> QED BY <1>4, Recursion
<1>6. h = [i \in 0 .. n |-> IF i = 0 THEN 1 ELSE Long(h[i - 1] * a[i])]
  <2>1. ASSUME NEW i \in 1 .. n PROVE h[i] = Long(h[i - 1] * a[i])
    <3>1. i - 1 \in 0 .. n
      OBVIOUS
    <3>2. h[i - 1] \in Int /\ h[i] = step[<<i, h[i - 1]>>]
      <4> HIDE DEF step
      <4> QED BY <1>5, <3>1 DEF Runs
    <3>3. <<i, h[i - 1]>> \in (1 .. n) \X Int
      BY <3>2
    <3> QED BY <3>2, <3>3
  <2>2. h \in [0 .. n -> Int] /\ h[0] = 1
    BY <1>5 DEF Runs
  <2> HIDE DEF step
  <2> QED BY <2>1, <2>2
<1> DEFINE f == LongProducts(a)
<1>7. f = [i \in 0 .. n |-> IF i = 0 THEN 1 ELSE Long(f[i - 1] * a[i])]
  BY <1>1, <1>6 DEF LongProducts
<1> HIDE DEF f
<1>8. f[0] = 1 /\ \A i \in 1 .. n : f[i] = Long(f[i - 1] * a[i])
  <2>1. 0 \in 0 .. n /\ \A i \in 1 .. n : i \in 0 .. n /\ i # 0
    OBVIOUS
  <2> QED BY <1>7, <2>1
<1>9. \A i \in 0 .. n : f[i] \in Int
  <2> DEFINE So == {i \in Nat : i <= n => f[i] \in Int}
  <2>1. 0 \in So
    BY <1>4, <1>8
  <2>2. ASSUME NEW i \in Nat, i \in So PROVE i + 1 \in So
    <3> SUFFICES ASSUME i + 1 <= n PROVE f[i + 1] \in Int
      OBVIOUS
    <3>1. PICK j \in 1 .. n : j = i + 1 /\ j - 1 = i
      OBVIOUS
    <3>2. f[j] = Long(f[i] * a[j]) /\ f[i] \in Int
      BY <1>8, <2>2, <3>1
    <3> QED BY <1>3, <3>1, <3>2
  <2> HIDE DEF So
  <2>3. Nat \subseteq So
    BY <2>1, <2>2, InductionNat
  <2> QED BY <2>3 DEF So
<1> QED BY <1>1, <1>8, <1>9 DEF f

(* The sums and products of the numbers of an array are not negative; and  *)
(* a product that fits in a long is what child2 computes, whatever was too *)
(* large for one before a 0.                                               *)
LEMMA ProductFits ==
  ASSUME NEW a \in Seq(Nat), Products(a)[Len(a)] <= LongMax
  PROVE  LongProducts(a)[Len(a)] = Products(a)[Len(a)]
<1>1. PICK n \in Nat : n = Len(a)
  BY LenProperties
<1> DEFINE e == Products(a)
           r == LongProducts(a)
           So == {i \in Nat : i <= n /\ e[i] <= LongMax => r[i] = e[i]}
<1>2. /\ e[0] = 1 /\ \A i \in 0 .. n : e[i] \in Nat
      /\ \A i \in 1 .. n : e[i] = e[i - 1] * a[i]
  BY <1>1, ProductsRun
<1>3. /\ r[0] = 1 /\ \A i \in 0 .. n : r[i] \in Int
      /\ \A i \in 1 .. n : r[i] = Long(r[i - 1] * a[i])
  BY <1>1, LongProductsRun
<1>4. \A i \in 1 .. n : a[i] \in Nat
  BY <1>1, ElementOfSeq
<1> HIDE DEF e, r
<1>5. 0 \in So
  BY <1>2, <1>3
<1>6. ASSUME NEW i \in Nat, i \in So PROVE i + 1 \in So
  <2> SUFFICES ASSUME i + 1 <= n, e[i + 1] <= LongMax
               PROVE  r[i + 1] = e[i + 1]
    OBVIOUS
  <2>1. PICK j \in 1 .. n : j = i + 1 /\ j - 1 = i
    OBVIOUS
  <2>2. e[j] = e[i] * a[j] /\ r[j] = Long(r[i] * a[j])
    BY <1>2, <1>3, <2>1
  <2>3. e[i] \in Nat /\ e[j] \in Nat /\ r[i] \in Int /\ a[j] \in Nat
    BY <1>2, <1>3, <1>4, <2>1
  <2>4. r[i] * a[j] = e[j]
    <3>1. CASE a[j] = 0
      BY <2>2, <2>3, <3>1
    <3>2. CASE a[j] # 0
      <4>1. e[i] <= e[i] * a[j]
        <5>1. PICK z \in Nat : z = a[j] /\ z # 0
          BY <2>3, <3>2
        <5>2. PICK y \in Nat : y = e[i]
          BY <2>3
        <5>3. y <= y * z
          BY <5>1, TimesNat
        <5> QED BY <5>1, <5>2, <5>3
      <4>2. r[i] = e[i]
        BY <1>6, <2>1, <2>2, <2>3, <4>1, LongAssumption
      <4> QED BY <2>2, <4>2
    <3> QED BY <3>1, <3>2
  <2>5. e[j] \in 0 .. LongMax
    BY <2>1, <2>3, LongAssumption
  <2> QED BY <2>1, <2>2, <2>4, <2>5, LongFits
<1> HIDE DEF So
<1>7. n \in So
  BY <1>5, <1>6, InductionNat
<1> QED BY <1>1, <1>7 DEF So, e, r

(* The arithmetic of the children is exact when the answer fits in a long. *)
LEMMA AnswerExact ==
  ASSUME NEW s \in Scenarios, Exact(s) <= LongMax
  PROVE  Answer(s) = Exact(s)
<1> DEFINE a == s.array
<1>1. s.command \in {"sum", "multiply"} /\ a \in Seq(Nat) /\ a # <<>>
  <2>1. 0 .. 99 \subseteq Nat /\ a \in Seq(0 .. 99)
    BY ScenariosAssumption
  <2> HIDE DEF a
  <2>2. \A i \in 1 .. Len(a) : a[i] \in Nat
    BY <2>1, ElementOfSeq
  <2>3. a \in Seq(Nat)
    BY <2>1, <2>2, LenProperties, IsASeq
  <2> QED BY <2>3, ScenariosAssumption DEF a
<1>2. PICK n \in Nat : n = Len(a)
  BY <1>1, LenProperties
<1>3. PICK t \in Nat : t = Total(a)
  <2>1. n \in 0 .. n
    OBVIOUS
  <2>2. Sums(a)[n] \in Nat
    <3> HIDE DEF a
    <3> QED BY <1>1, <1>2, <2>1, SumsRun
  <2> QED BY <1>2, <2>2 DEF Total
<1>4. PICK e \in Nat : e = Products(a)[n]
  BY <1>1, <1>2, ProductsRun
<1> HIDE DEF a
<1>5. CASE s.command = "sum"
  <2>1. Exact(s) = t + t /\ Answer(s) = Long(t + t)
    BY <1>1, <1>3, <1>5 DEF Exact, Answer, Result, a
  <2> QED BY <2>1, LongFits, LongAssumption
<1>6. CASE s.command = "multiply"
  <2>1. Exact(s) = t + e
    BY <1>2, <1>3, <1>4, <1>6 DEF Exact, a
  <2>2. e <= LongMax
    BY <2>1, LongAssumption
  <2>3. LongProducts(a)[n] = e
    BY <1>1, <1>2, <1>4, <2>2, ProductFits
  <2>4. Answer(s) = Long(t + e)
    BY <1>1, <1>2, <1>3, <1>6, <2>3 DEF Answer, Result, a
  <2> QED BY <2>1, <2>4, LongFits, LongAssumption
<1> QED BY <1>1, <1>5, <1>6

(* That is the sum of the array plus the result of the command, for every  *)
(* array for which this fits in a long, as no product on the way to it is  *)
(* then too large but one that a later 0 makes good.                       *)
THEOREM RightAnswerHolds == Spec => []RightAnswer
<1>1. Spec => [](scenario \in Scenarios)
  <2>1. Init => scenario \in Scenarios
    BY DEF Init
  <2>2. scenario \in Scenarios /\ [Next]_vars => (scenario \in Scenarios)'
    BY ScenarioKept
  <2> QED BY <2>1, <2>2, PTL DEF Spec
<1>2. /\ scenario \in Scenarios
      /\ Undisturbed /\ final # <<>> => final = <<Answer(scenario)>>
      => RightAnswer
  BY AnswerExact DEF RightAnswer, Undisturbed
<1> QED BY <1>1, <1>2, AnswerComputed, PTL
=============================================================================
