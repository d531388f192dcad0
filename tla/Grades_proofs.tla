--------------------------- MODULE Grades_proofs ---------------------------
(***************************************************************************)
(* Proofs about Grades: that additions are kept (AddsKept), for all        *)
(* scenarios in which no entry is added twice or is in the file already    *)
(* (Distinct), as only then can one tell, of the file, which command an    *)
(* entry comes from; and that listings that are whole are right            *)
(* (ListedRight), for all scenarios.                                       *)
(*                                                                         *)
(* The invariant of the listings (ListInv).  What a process at a listing   *)
(* has collected is what it should have of the part of the file it has     *)
(* read (Collected), which only grows at its end, or shows that it is no   *)
(* longer whole; each listing that is printed is, if it is whole, right of *)
(* the file up to some entry (Listed).  bubbleSort and its passes are      *)
(* recursive functions: that they sort is by induction over sets of        *)
(* numbers (InductionNat) and over what has been computed (Recursion).     *)
(*                                                                         *)
(* The invariant of the additions (AddsInv).  An entry is in the hands of  *)
(* one process (Hands) until it is in the file, where every entry beyond   *)
(* the first ones comes from a command of its own (Kept); nothing is in    *)
(* neither place (NotLost).  While only additions are typed, the processes *)
(* that live wait for one another in the order of their births, all but    *)
(* the last one, which alone is at work (Chain), so that entries come to   *)
(* the file in the order in which they were typed (Order).                 *)
(***************************************************************************)
EXTENDS Grades, FiniteSetTheorems, SequenceTheorems, WellFoundedInduction,
        TLAPS

Holding == {"fork", "start", "work"}
Active == Holding \cup {"read"}
Living == Active \cup {"wait"}
Types ==
  /\ scenario \in Scenarios
  /\ pc \in [Procs -> Living \cup {"none", "spin", "ended"}]
  /\ job \in [Procs -> Commands \cup {NoJob}]
  /\ child \in [Procs -> Procs \cup {0}]
  /\ next \in 1 .. (Len(typed) + 1) /\ heads \subseteq 1 .. (next - 1)
  /\ exists \in BOOLEAN /\ file \in Seq(Entries)

Adding(p) == pc[p] \in Holding /\ IsAdd(job[p])
Before == Len(scenario.file)
Hands ==
  /\ \A p \in Procs : pc[p] \in Holding =>
       /\ job[p].op # "none" /\ (OnlyAdds => IsAdd(job[p]))
       /\ IsAdd(job[p]) => \E i \in heads : job[p] = typed[i]
  /\ \A p, q \in Procs : Adding(p) /\ Adding(q) /\ job[p] = job[q] => p = q
  /\ \A p \in Procs : Adding(p) =>
       \A k \in 1 .. Len(file) : file[k] # job[p].entry
Kept ==
  /\ Before <= Len(file)
  /\ \A k \in 1 .. Before : file[k] = scenario.file[k]
  /\ \A k \in 1 .. Len(file) :
       k > Before => \E i \in AddsRead : file[k] = Entry(i)
  /\ \A k, l \in 1 .. Len(file) :
       k > Before /\ l > Before /\ file[k] = file[l] => k = l
Reliable == scenario.exists /\ scenario.faults = {}
NotLost ==
  Reliable =>
    /\ exists
    /\ \A i \in AddsRead : \/ \E k \in 1 .. Len(file) : file[k] = Entry(i)
                           \/ \E p \in Procs : Adding(p) /\ job[p] = typed[i]

Chain ==
  /\ \A p, q \in Procs : p < q /\ pc[p] = "none" => pc[q] = "none"
  /\ \A p, q \in Procs :
       p < q /\ pc[p] \in Living /\ pc[q] \in Living =>
         /\ pc[p] = "wait" /\ child[p] \in Procs /\ child[p] <= q
         /\ pc[child[p]] \in Living
Order ==
  /\ \A i, j \in AddsRead : \A k, l \in 1 .. Len(file) :
       i < j /\ file[k] = Entry(i) /\ file[l] = Entry(j) => k < l
  /\ \A p \in Procs : Adding(p) =>
       \A i, j \in AddsRead : \A k \in 1 .. Len(file) :
         job[p] = typed[i] /\ file[k] = Entry(j) => j < i
InOrder == OnlyAdds => Chain /\ Order

AddsInv == Types /\ Hands /\ Kept /\ NotLost /\ InOrder

-----------------------------------------------------------------------------
(* What is typed.                                                          *)
LEMMA Typing ==
  ASSUME Types
  PROVE  /\ typed \in Seq(Commands) /\ Len(typed) \in Nat
         /\ DOMAIN typed = 1 .. Len(typed) /\ next \in Nat \ {0}
         /\ scenario.file \in Seq(Entries) /\ Before \in Nat
         /\ Len(file) \in Nat /\ DOMAIN file = 1 .. Len(file)
         /\ \A i \in 1 .. (next - 1) : i \in 1 .. Len(typed)
         /\ AddsRead \subseteq 1 .. (next - 1)
         /\ \A i : i \in AddsRead <=> i \in heads /\ IsAdd(typed[i])
<1>1. /\ typed \in Seq(Commands) /\ scenario.file \in Seq(Entries)
  BY ScenariosAssumption DEF Types, typed
<1>2. Len(typed) \in Nat /\ DOMAIN typed = 1 .. Len(typed)
  BY <1>1, LenProperties
<1>3. Before \in Nat /\ Len(file) \in Nat /\ DOMAIN file = 1 .. Len(file)
  BY <1>1, LenProperties DEF Types, Before
<1>4. next \in Nat \ {0} /\ \A i \in 1 .. (next - 1) : i \in 1 .. Len(typed)
  BY <1>2 DEF Types
<1> QED BY <1>1, <1>2, <1>3, <1>4 DEF AddsRead, Types

LEMMA AddedEntry ==
  ASSUME NEW cmd \in Commands, IsAdd(cmd)
  PROVE  cmd.entry \in Entries
BY DEF Commands, IsAdd

(* No two commands add the same entry, and none adds one of the first.     *)
LEMMA Distinguished ==
  ASSUME Distinct, Types
  PROVE  /\ \A i, j \in AddsRead : Entry(i) = Entry(j) => i = j
         /\ \A i \in AddsRead : \A k \in 1 .. Before :
              scenario.file[k] # Entry(i)
         /\ \A i, j \in 1 .. Len(typed) :
              IsAdd(typed[i]) /\ IsAdd(typed[j]) /\ Entry(i) = Entry(j)
                => i = j
BY Typing DEF Distinct, Types, typed, Entry, Before

(* What AddsInv says of the file is AddsKept.                              *)
LEMMA KeptIsAddsKept ==
  ASSUME Distinct, AddsInv
  PROVE  AddsKept
<1>1. Types
  BY DEF AddsInv
<1>2. \A e : \A k : k \in Places(e) <=> k \in 1 .. Len(file) /\ file[k] = e
  BY <1>1, Typing DEF Places
<1>3. IsPrefix(scenario.file, file)
  <2>1. Before \in Nat /\ Len(file) \in Nat /\ Before <= Len(file)
    BY <1>1, Typing DEF AddsInv, Kept
  <2>2. \A k \in 1 .. Before : file[k] = scenario.file[k]
    BY DEF AddsInv, Kept
  <2>3. SubSeq(scenario.file, 1, Before) = SubSeq(file, 1, Before)
    BY <2>1, <2>2
  <2> QED BY <2>1, <2>3 DEF IsPrefix, Before
<1>4. Len(file) <= Before + Cardinality(AddsRead)
  <2> DEFINE T == Before + 1 .. Len(file)
             f == [k \in T |-> CHOOSE i \in AddsRead : file[k] = Entry(i)]
  <2>1. /\ Before \in Nat /\ Len(file) \in Nat /\ Before <= Len(file)
        /\ AddsRead \subseteq 1 .. (next - 1) /\ next \in Nat \ {0}
    BY <1>1, Typing DEF AddsInv, Kept
  <2>2. \A k \in T : f[k] \in AddsRead /\ file[k] = Entry(f[k])
    BY <2>1 DEF AddsInv, Kept
  <2>3. \A k, l \in T : f[k] = f[l] => k = l
    <3> SUFFICES ASSUME NEW k \in T, NEW l \in T, f[k] = f[l] PROVE k = l
      OBVIOUS
    <3>1. file[k] = file[l]
      BY <2>2
    <3> QED BY <2>1, <3>1 DEF AddsInv, Kept
  <2>4. f \in Injection(T, AddsRead)
    BY <2>2, <2>3 DEF Injection, IsInjective
  <2>5. IsFiniteSet(AddsRead) /\ Cardinality(AddsRead) \in Nat
    <3>1. IsFiniteSet(1 .. (next - 1))
      BY <2>1, FS_Interval
    <3> QED BY <2>1, <3>1, FS_Subset, FS_CardinalityType
  <2>6. Cardinality(T) = Len(file) - Before
    <3>1. Before + 1 \in Int /\ Len(file) \in Int
      BY <2>1
    <3>2. Cardinality(T) =
            IF Before + 1 > Len(file) THEN 0 ELSE Len(file) - (Before + 1) + 1
      BY <3>1, FS_Interval
    <3> QED BY <2>1, <3>2
  <2> HIDE DEF T, f
  <2>7. Cardinality(T) <= Cardinality(AddsRead)
    BY <2>4, <2>5, FS_Injection
  <2> QED BY <2>1, <2>5, <2>6, <2>7
<1>5. ASSUME NEW i \in AddsRead
      PROVE  Cardinality(Places(Entry(i))) <= 1
  <2>1. \A k, l \in Places(Entry(i)) : k = l
    <3> SUFFICES ASSUME NEW k \in Places(Entry(i)), NEW l \in Places(Entry(i))
                 PROVE  k = l
      OBVIOUS
    <3>1. /\ k \in 1 .. Len(file) /\ l \in 1 .. Len(file)
          /\ file[k] = Entry(i) /\ file[l] = Entry(i)
      BY <1>2
    <3>2. Before \in Nat /\ Len(file) \in Nat
      BY <1>1, Typing
    <3>3. k > Before /\ l > Before
      <4>1. \A m \in 1 .. Before : file[m] # Entry(i)
        BY <1>1, Distinguished DEF AddsInv, Kept
      <4> QED BY <3>1, <3>2, <4>1
    <3> QED BY <3>1, <3>3 DEF AddsInv, Kept
  <2>2. CASE Places(Entry(i)) = {}
    BY <2>2, FS_EmptySet
  <2>3. CASE Places(Entry(i)) # {}
    <3>1. PICK k : k \in Places(Entry(i))
      BY <2>3
    <3>2. Places(Entry(i)) = {k}
      BY <2>1, <3>1
    <3> QED BY <3>2, FS_Singleton
  <2> QED BY <2>2, <2>3
<1>6. ASSUME NEW i \in AddsRead, scenario.exists, scenario.faults = {}
      PROVE  Places(Entry(i)) # {} \/ typed[i] \in InHand
  <2>1. CASE \E k \in 1 .. Len(file) : file[k] = Entry(i)
    BY <1>2, <2>1
  <2>2. ASSUME NEW p \in Procs, Adding(p), job[p] = typed[i]
        PROVE  typed[i] \in InHand
    BY <2>2 DEF Adding, Holding, InHand
  <2> QED BY <1>6, <2>1, <2>2 DEF AddsInv, NotLost, Reliable
<1>7. ASSUME OnlyAdds, NEW i \in AddsRead, NEW j \in AddsRead, i < j,
             NEW k \in Places(Entry(i)), NEW l \in Places(Entry(j))
      PROVE  k < l
  BY <1>2, <1>7 DEF AddsInv, InOrder, Order
<1> QED BY <1>3, <1>4, <1>5, <1>6, <1>7 DEF AddsKept, Before

-----------------------------------------------------------------------------
(* What is in the file or in somebody's hands has been read.               *)
LEMMA NotYet ==
  ASSUME Distinct, AddsInv,
         NEW i \in 1 .. Len(typed), i >= next, IsAdd(typed[i])
  PROVE  /\ \A k \in 1 .. Len(file) : file[k] # Entry(i)
         /\ \A q \in Procs : Adding(q) => job[q] # typed[i]
<1>1. Types /\ Kept /\ Hands
  BY DEF AddsInv
<1>2. \A j \in 1 .. Len(typed) :
        IsAdd(typed[j]) /\ Entry(i) = Entry(j) => i = j
  BY <1>1, Distinguished
<1>3. next \in Nat \ {0} /\ \A j \in 1 .. (next - 1) : j \in 1 .. Len(typed)
  BY <1>1, Typing
<1>4. ASSUME NEW k \in 1 .. Len(file), file[k] = Entry(i)
      PROVE  FALSE
  <2>1. CASE k > Before
    <3>1. PICK j \in AddsRead : file[k] = Entry(j)
      BY <1>1, <2>1 DEF Kept
    <3>2. j \in 1 .. (next - 1) /\ IsAdd(typed[j])
      BY <1>1, <3>1, Typing
    <3> QED BY <1>2, <1>3, <1>4, <3>1, <3>2
  <2>2. CASE ~(k > Before)
    <3>1. k \in 1 .. Before /\ file[k] = scenario.file[k]
      BY <1>1, <2>2, Typing DEF Kept
    <3>2. /\ scenario \in Scenarios /\ Len(typed) = Len(scenario.typed)
          /\ i \in 1 .. Len(scenario.typed) /\ IsAdd(scenario.typed[i])
      BY <1>1 DEF Types, typed
    <3> QED BY <1>4, <3>1, <3>2 DEF Distinct, Before, Entry, typed
  <2> QED BY <2>1, <2>2
<1>5. ASSUME NEW q \in Procs, Adding(q), job[q] = typed[i]
      PROVE  FALSE
  <2>1. PICK j \in heads : job[q] = typed[j]
    BY <1>1, <1>5 DEF Hands, Adding
  <2>2. IsAdd(typed[j]) /\ Entry(j) = Entry(i) /\ j \in 1 .. (next - 1)
    BY <1>1, <1>5, <2>1 DEF Entry, Types
  <2> QED BY <1>2, <1>3, <2>1, <2>2
<1> QED BY <1>4, <1>5

(* What the scenario and the commands read determine.                      *)
LEMMA SameCommands ==
  ASSUME UNCHANGED scenario
  PROVE  /\ typed' = typed /\ Before' = Before /\ (OnlyAdds' <=> OnlyAdds)
         /\ (Reliable' <=> Reliable)
         /\ \A i : Entry(i)' = Entry(i)
         /\ heads' = heads => AddsRead' = AddsRead
BY DEF typed, Before, OnlyAdds, Reliable, Entry, AddsRead

(* While only additions are typed, who holds a command adds its entry, and *)
(* whoever is at work is the last one born of those that live.             *)
LEMMA HoldersAdd ==
  ASSUME AddsInv, OnlyAdds, NEW p \in Procs, pc[p] \in Holding
  PROVE  Adding(p)
BY DEF AddsInv, Hands, Adding

LEMMA TopOfChain ==
  ASSUME Types, Chain, NEW p \in Procs,
         pc[p] \in Active \/ (pc[p] = "wait" /\ pc[child[p]] = "ended")
  PROVE  \A q \in Procs : pc[q] \in Living => q <= p
<1>1. ASSUME NEW q \in Procs, pc[q] \in Living, p < q
      PROVE  FALSE
  <2>1. pc[p] \in Living
    BY DEF Living, Active, Holding
  <2>2. pc[p] = "wait" /\ pc[child[p]] \in Living
    BY <1>1, <2>1 DEF Chain
  <2> QED BY <2>2 DEF Living, Active, Holding
<1> QED BY <1>1, SizesAssumption DEF Procs

-----------------------------------------------------------------------------
(* The steps of p that leave the file and the commands alone: p has none   *)
(* afterwards or keeps the one it has.                                     *)
Moves(p, there) ==
  /\ UNCHANGED <<scenario, next, heads, file>>
  /\ exists' \in BOOLEAN /\ (exists => exists')
  /\ pc[p] \in Active \/ (pc[p] = "wait" /\ pc[child[p]] = "ended")
  /\ pc' = [pc EXCEPT ![p] = there]
  /\ there \in Active \cup {"spin", "ended"}
  /\ \/ there \in Holding /\ pc[p] \in Holding /\ job' = job
     \/ /\ there \notin Holding /\ job' \in {job, [job EXCEPT ![p] = NoJob]}
        /\ Reliable => ~Adding(p)
  /\ child' \in {child, [child EXCEPT ![p] = 0]}

LEMMA MovesInChain ==
  ASSUME Types, Chain, NEW p \in Procs, NEW there, Moves(p, there)
  PROVE  Chain'
<1>1. \A q \in Procs : pc[q] \in Living => q <= p
  BY TopOfChain DEF Moves
<1>2. /\ pc'[p] = there /\ \A q \in Procs : q # p => pc'[q] = pc[q]
      /\ \A q \in Procs : q # p => child'[q] = child[q]
  BY DEF Types, Moves
<1>3. pc[p] # "none" /\ there # "none"
  BY DEF Moves, Active, Holding
<1>4. \A q, r \in Procs : q < r /\ pc'[q] = "none" => pc'[r] = "none"
  BY <1>2, <1>3 DEF Chain
<1>5. ASSUME NEW q \in Procs, NEW r \in Procs, q < r,
             pc'[q] \in Living, pc'[r] \in Living
      PROVE  /\ pc'[q] = "wait" /\ child'[q] \in Procs /\ child'[q] <= r
             /\ pc'[child'[q]] \in Living
  <2>1. pc[p] \in Living
    BY DEF Moves, Living
  <2>2. pc[q] \in Living /\ pc[r] \in Living
    BY <1>2, <1>5, <2>1
  <2>3. q # p /\ r <= p
    BY <1>1, <1>5, <2>2, SizesAssumption DEF Procs
  <2>4. /\ pc[q] = "wait" /\ child[q] \in Procs /\ child[q] <= r
        /\ pc[child[q]] \in Living
    BY <1>5, <2>2 DEF Chain
  <2>5. pc'[q] = "wait" /\ child'[q] = child[q]
    BY <1>2, <2>3, <2>4
  <2>6. pc'[child[q]] \in Living
    <3>1. CASE child[q] = p
      <4>1. r = p
        BY <2>3, <2>4, <3>1, SizesAssumption DEF Procs
      <4> QED BY <1>5, <3>1, <4>1
    <3>2. CASE child[q] # p
      BY <1>2, <2>4, <3>2
    <3> QED BY <3>1, <3>2
  <2> QED BY <2>4, <2>5, <2>6
<1> QED BY <1>4, <1>5 DEF Chain

LEMMA Moving ==
  ASSUME AddsInv, NEW p \in Procs, NEW there, Moves(p, there)
  PROVE  AddsInv'
<1>1. Types /\ Hands /\ Kept /\ NotLost /\ InOrder
  BY DEF AddsInv
<1>2. /\ typed' = typed /\ Before' = Before /\ (OnlyAdds' <=> OnlyAdds)
      /\ (Reliable' <=> Reliable) /\ \A i : Entry(i)' = Entry(i)
      /\ AddsRead' = AddsRead /\ file' = file /\ next' = next
      /\ scenario' = scenario /\ heads' = heads
  BY SameCommands DEF Moves
<1>3. /\ pc'[p] = there
      /\ \A q \in Procs : q # p => pc'[q] = pc[q] /\ job'[q] = job[q]
  BY <1>1 DEF Types, Moves
<1>4. \A q \in Procs :
        pc'[q] \in Holding => pc[q] \in Holding /\ job'[q] = job[q]
  BY <1>1, <1>3 DEF Types, Moves
<1>5. \A q \in Procs : Adding(q)' => Adding(q) /\ job'[q] = job[q]
  BY <1>4 DEF Adding
<1>6. Reliable => \A q \in Procs : Adding(q) => Adding(q)' /\ job'[q] = job[q]
  BY <1>1, <1>3 DEF Types, Moves, Adding
<1>7. Types'
  BY <1>1, <1>2 DEF Types, Moves, Living, Active
<1>8. Hands'
  BY <1>1, <1>2, <1>4, <1>5 DEF Hands
<1>9. Kept'
  BY <1>1, <1>2 DEF Kept
<1>10. NotLost'
  BY <1>1, <1>2, <1>6 DEF NotLost, Moves
<1>11. InOrder'
  <2>1. OnlyAdds => Chain'
    BY <1>1, MovesInChain DEF InOrder
  <2>2. OnlyAdds => Order'
    BY <1>1, <1>2, <1>5 DEF InOrder, Order
  <2> QED BY <1>2, <2>1, <2>2 DEF InOrder
<1> QED BY <1>7, <1>8, <1>9, <1>10, <1>11 DEF AddsInv

-----------------------------------------------------------------------------
(* A command is read: what it adds is not in the file or in hands yet.     *)
LEMMA Reading ==
  ASSUME Distinct, AddsInv, NEW p \in Procs, ReadCommand(p)
  PROVE  AddsInv'
<1>1. Types /\ Hands /\ Kept /\ NotLost /\ InOrder
  BY DEF AddsInv
<1>2. /\ typed' = typed /\ Before' = Before /\ (OnlyAdds' <=> OnlyAdds)
      /\ (Reliable' <=> Reliable) /\ \A i : Entry(i)' = Entry(i)
      /\ file' = file /\ exists' = exists
      /\ scenario' = scenario /\ child' = child
  BY SameCommands DEF ReadCommand, fileVars
<1>3. /\ next \in 1 .. Len(typed) /\ typed[next] \in Commands
      /\ Len(typed) \in Nat /\ DOMAIN typed = 1 .. Len(typed)
      /\ \A i \in 1 .. (next - 1) : i \in 1 .. Len(typed)
  <2>1. next \in 1 .. Len(typed)
    BY <1>1, Typing DEF ReadCommand
  <2> QED BY <1>1, <2>1, Typing, ElementOfSeq
<1> DEFINE cmd == typed[next]
<1>4. PICK lines \in 1 .. (Len(typed) - next + 1) :
         /\ scenario.input = "terminal" => lines = 1
         /\ next' = next + lines /\ heads' = heads \cup {next}
         /\ LET took == Understood(next, lines)
            IN  /\ Goto(p, CASE took.op \in {"exit", "eof"} -> "ended"
                             [] took.op = "blank" -> "read"
                             [] OTHER -> "fork")
                /\ job' = [job EXCEPT ![p] = IF pc'[p] = "fork" THEN took
                                             ELSE NoJob]
  BY DEF ReadCommand
<1>5. PICK took : took = Understood(next, lines)
  OBVIOUS
<1>6. /\ took \in Commands /\ (IsAdd(took) => took = cmd)
      /\ IsAdd(cmd) => took = cmd
      /\ OnlyAdds => took = cmd
  BY <1>3, <1>4, <1>5
    DEF Understood, WithoutArguments, Commands, IsAdd, OnlyAdds
<1>7. /\ pc[p] = "read"
      /\ pc'[p] \in {"ended", "read", "fork"}
      /\ pc'[p] = "fork" => took.op \notin {"exit", "eof", "blank"}
      /\ IsAdd(cmd) => pc'[p] = "fork"
      /\ job'[p] = IF pc'[p] = "fork" THEN took ELSE NoJob
      /\ \A q \in Procs : q # p => pc'[q] = pc[q] /\ job'[q] = job[q]
  BY <1>1, <1>4, <1>5, <1>6 DEF ReadCommand, Goto, Types, IsAdd
<1>8. \A i : i \in AddsRead' <=> i \in AddsRead \/ (i = next /\ IsAdd(cmd))
  BY <1>2, <1>4 DEF AddsRead
<1>9. IsAdd(cmd) => /\ \A k \in 1 .. Len(file) : file[k] # Entry(next)
                    /\ \A q \in Procs : Adding(q) => job[q] # cmd
  BY <1>3, NotYet
<1>10. /\ \A q \in Procs : q # p => (Adding(q)' <=> Adding(q))
       /\ Adding(p)' <=> IsAdd(cmd)
       /\ ~Adding(p)
       /\ Adding(p)' => job'[p] = cmd
  BY <1>7, <1>6 DEF Adding, Holding, IsAdd, NoJob
<1>11. Types'
  <2>1. /\ pc' \in [Procs -> Living \cup {"none", "spin", "ended"}]
        /\ job' \in [Procs -> Commands \cup {NoJob}]
    BY <1>1, <1>4, <1>5, <1>6
      DEF Types, Goto, Living, Active, Holding
  <2>2. next' \in 1 .. (Len(typed') + 1) /\ heads' \subseteq 1 .. (next' - 1)
    BY <1>1, <1>2, <1>3, <1>4 DEF Types
  <2> QED BY <1>1, <1>2, <2>1, <2>2 DEF Types
<1>12. Hands'
  <2>1. ASSUME NEW q \in Procs, pc'[q] \in Holding
        PROVE  /\ job'[q].op # "none" /\ (OnlyAdds => IsAdd(job'[q]))
               /\ IsAdd(job'[q]) => \E i \in heads' : job'[q] = typed[i]
    <3>1. CASE q = p
      <4>1. pc'[p] = "fork" /\ job'[p] = took
        BY <1>7, <2>1, <3>1 DEF Holding
      <4>2. took.op # "none"
        BY <1>6 DEF Commands
      <4>3. OnlyAdds => IsAdd(took)
        BY <1>3, <1>7, <1>6, <4>1 DEF OnlyAdds
      <4>4. next \in heads'
        BY <1>4
      <4> QED BY <1>6, <3>1, <4>1, <4>2, <4>3, <4>4
    <3>2. CASE q # p
      BY <1>1, <1>7, <1>4, <2>1, <3>2 DEF Hands
    <3> QED BY <3>1, <3>2
  <2>2. \A q, r \in Procs :
          Adding(q)' /\ Adding(r)' /\ job'[q] = job'[r] => q = r
    BY <1>1, <1>7, <1>9, <1>10 DEF Hands
  <2>3. \A q \in Procs : Adding(q)' =>
          \A k \in 1 .. Len(file) : file[k] # job'[q].entry
    BY <1>1, <1>7, <1>9, <1>10 DEF Hands, Entry
  <2> QED BY <1>2, <2>1, <2>2, <2>3 DEF Hands
<1>13. Kept'
  BY <1>1, <1>2, <1>8 DEF Kept
<1>14. NotLost'
  <2> SUFFICES ASSUME Reliable
               PROVE  \A i \in AddsRead' :
                        \/ \E k \in 1 .. Len(file) : file[k] = Entry(i)
                        \/ \E q \in Procs : Adding(q)' /\ job'[q] = typed[i]
    BY <1>1, <1>2 DEF NotLost
  <2> TAKE i \in AddsRead'
  <2>1. CASE i \in AddsRead
    BY <1>1, <1>7, <1>10, <2>1 DEF NotLost
  <2>2. CASE i = next /\ IsAdd(cmd)
    BY <1>10, <2>2
  <2> QED BY <1>8, <2>1, <2>2
<1>15. InOrder'
  <2> SUFFICES ASSUME OnlyAdds PROVE Chain' /\ Order'
    BY <1>2 DEF InOrder
  <2>1. Chain /\ Order
    BY <1>1 DEF InOrder
  <2>2. \A q \in Procs : pc[q] \in Living => q <= p
    BY <1>1, <1>7, <2>1, TopOfChain DEF Active
  <2>3. \A q \in Procs : ~Adding(q)
    <3> SUFFICES ASSUME NEW q \in Procs, Adding(q) PROVE FALSE
      OBVIOUS
    <3>1. pc[q] \in Living /\ pc[p] \in Living /\ pc[q] # "wait"
      BY <1>7 DEF Adding, Holding, Living, Active
    <3>2. q <= p /\ q # p
      BY <1>10, <2>2, <3>1
    <3> QED BY <2>1, <3>1, <3>2, SizesAssumption DEF Chain, Procs
  <2>4. Chain'
    <3>1. \A q, r \in Procs : q < r /\ pc'[q] = "none" => pc'[r] = "none"
      BY <1>7, <2>1 DEF Chain
    <3>2. ASSUME NEW q \in Procs, NEW r \in Procs, q < r,
                 pc'[q] \in Living, pc'[r] \in Living
          PROVE  /\ pc'[q] = "wait" /\ child[q] \in Procs /\ child[q] <= r
                 /\ pc'[child[q]] \in Living
      <4>1. pc[q] \in Living /\ pc[r] \in Living
        BY <1>7, <3>2 DEF Living, Active
      <4>2. q # p /\ r <= p
        BY <2>2, <3>2, <4>1, SizesAssumption DEF Procs
      <4>3. /\ pc[q] = "wait" /\ child[q] \in Procs /\ child[q] <= r
            /\ pc[child[q]] \in Living
        BY <2>1, <3>2, <4>1 DEF Chain
      <4>4. child[q] = p => r = p
        BY <4>2, <4>3, SizesAssumption DEF Procs
      <4> QED BY <1>7, <3>2, <4>2, <4>3, <4>4
    <3> QED BY <1>2, <3>1, <3>2 DEF Chain
  <2>5. \A i, j \in AddsRead' : \A k, l \in 1 .. Len(file) :
          i < j /\ file[k] = Entry(i) /\ file[l] = Entry(j) => k < l
    BY <1>8, <1>9, <2>1 DEF Order
  <2>6. ASSUME NEW q \in Procs, Adding(q)', NEW i \in AddsRead',
               NEW j \in AddsRead', NEW k \in 1 .. Len(file),
               job'[q] = typed[i], file[k] = Entry(j)
        PROVE  j < i
    <3>1. q = p /\ job'[q] = cmd /\ IsAdd(cmd)
      BY <1>10, <2>3, <2>6
    <3>2. i \in 1 .. Len(typed) /\ IsAdd(typed[i])
      BY <1>1, <1>3, <1>8, <2>6, Typing
    <3>3. i = next
      <4>1. Entry(i) = Entry(next)
        BY <2>6, <3>1 DEF Entry
      <4> QED BY <1>1, <1>3, <3>1, <3>2, <4>1, Distinguished
    <3>4. j \in AddsRead
      BY <1>8, <1>9, <2>6, <3>1
    <3> QED BY <1>1, <3>3, <3>4, Typing
  <2> QED BY <1>2, <2>4, <2>5, <2>6 DEF Order
<1> QED BY <1>11, <1>12, <1>13, <1>14, <1>15 DEF AddsInv

(* A child takes over the command of the process that forks it.            *)
LEMMA CommandTakenOver ==
  ASSUME AddsInv, NEW p \in Procs, Fork(p)
  PROVE  AddsInv'
<1>1. Types /\ Hands /\ Kept /\ NotLost /\ InOrder
  BY DEF AddsInv
<1>2. /\ typed' = typed /\ Before' = Before /\ (OnlyAdds' <=> OnlyAdds)
      /\ (Reliable' <=> Reliable) /\ \A i : Entry(i)' = Entry(i)
      /\ AddsRead' = AddsRead /\ file' = file /\ next' = next
      /\ heads' = heads /\ scenario' = scenario /\ exists' = exists
  BY SameCommands DEF Fork, fileVars, inputVars
<1>3. PICK q \in Procs :
        /\ pc[q] = "none" /\ \A r \in Procs : pc[r] = "none" => q <= r
        /\ LET waits == job[p].op = "addStudentGrade"
           IN  /\ pc' = [pc EXCEPT ![q] = "start",
                                   ![p] = IF waits THEN "wait" ELSE "read"]
               /\ child' = [child EXCEPT ![p] = IF waits THEN q ELSE 0]
        /\ job' = [job EXCEPT ![q] = job[p], ![p] = NoJob]
  BY DEF Fork
<1>4. pc[p] = "fork" /\ q # p
  BY <1>3 DEF Fork
<1>5. /\ pc'[q] = "start" /\ job'[q] = job[p] /\ job'[p] = NoJob
      /\ pc'[p] = IF IsAdd(job[p]) THEN "wait" ELSE "read"
      /\ child'[p] = IF IsAdd(job[p]) THEN q ELSE 0
      /\ \A r \in Procs :
           /\ r # p => child'[r] = child[r]
           /\ r \notin {p, q} => pc'[r] = pc[r] /\ job'[r] = job[r]
  BY <1>1, <1>3, <1>4 DEF Types, IsAdd
<1>6. /\ ~Adding(q) /\ ~Adding(p)' /\ (Adding(q)' <=> Adding(p))
      /\ \A r \in Procs : r \notin {p, q} => (Adding(r)' <=> Adding(r))
  <2>1. ~Adding(q)
    BY <1>3 DEF Adding, Holding
  <2>2. ~Adding(p)'
    BY <1>5 DEF Adding, Holding
  <2>3. Adding(q)' <=> Adding(p)
    BY <1>4, <1>5 DEF Adding, Holding
  <2>4. \A r \in Procs : r \notin {p, q} => (Adding(r)' <=> Adding(r))
    BY <1>5 DEF Adding
  <2> QED BY <2>1, <2>2, <2>3, <2>4
<1>7. Types'
  <2>1. /\ pc' \in [Procs -> Living \cup {"none", "spin", "ended"}]
        /\ job' \in [Procs -> Commands \cup {NoJob}]
        /\ child' \in [Procs -> Procs \cup {0}]
    BY <1>1, <1>3 DEF Types, Living, Active, Holding
  <2> QED BY <1>1, <1>2, <2>1 DEF Types
<1>8. Hands'
  <2>1. ASSUME NEW r \in Procs, pc'[r] \in Holding
        PROVE  /\ job'[r].op # "none" /\ (OnlyAdds => IsAdd(job'[r]))
               /\ IsAdd(job'[r]) => \E i \in heads : job'[r] = typed[i]
    <3>1. r # p
      BY <1>5, <2>1 DEF Holding
    <3>2. CASE r = q
      BY <1>1, <1>4, <1>5, <3>2 DEF Hands, Holding
    <3>3. CASE r # q
      BY <1>1, <1>5, <2>1, <3>1, <3>3 DEF Hands
    <3> QED BY <3>2, <3>3
  <2>2. \A r, s \in Procs :
          Adding(r)' /\ Adding(s)' /\ job'[r] = job'[s] => r = s
    BY <1>1, <1>4, <1>5, <1>6 DEF Hands
  <2>3. \A r \in Procs : Adding(r)' =>
          \A k \in 1 .. Len(file) : file[k] # job'[r].entry
    BY <1>1, <1>4, <1>5, <1>6 DEF Hands
  <2> QED BY <1>2, <2>1, <2>2, <2>3 DEF Hands
<1>9. Kept'
  BY <1>1, <1>2 DEF Kept
<1>10. NotLost'
  <2>1. \A i : (\E r \in Procs : Adding(r) /\ job[r] = typed[i])
                 => \E r \in Procs : Adding(r)' /\ job'[r] = typed[i]
    BY <1>4, <1>5, <1>6
  <2> QED BY <1>1, <1>2, <2>1 DEF NotLost
<1>11. InOrder'
  <2> SUFFICES ASSUME OnlyAdds PROVE Chain' /\ Order'
    BY <1>2 DEF InOrder
  <2>1. Chain /\ Order
    BY <1>1 DEF InOrder
  <2>2. \A r \in Procs : pc[r] \in Living => r <= p
    BY <1>1, <1>4, <2>1, TopOfChain DEF Active, Holding
  <2>3. IsAdd(job[p])
    BY <1>4, HoldersAdd DEF Adding, Holding
  <2>4. p < q /\ \A r \in Procs : r < q <=> pc[r] # "none"
    BY <1>3, <1>4, <2>1, SizesAssumption DEF Chain, Procs
  <2>5. \A r, s \in Procs : r < s /\ pc'[r] = "none" => pc'[s] = "none"
    <3>1. \A r \in Procs : pc'[r] = "none" => pc[r] = "none" /\ r # q
      BY <1>5
    <3>2. \A r \in Procs : pc[r] = "none" /\ r # q => pc'[r] = "none"
      <4> SUFFICES ASSUME NEW r \in Procs, pc[r] = "none", r # q
                   PROVE  pc'[r] = "none"
        OBVIOUS
      <4>1. r # p
        BY <1>4
      <4> QED BY <1>5, <4>1
    <3>3. ASSUME NEW r \in Procs, NEW s \in Procs, r < s, pc'[r] = "none"
          PROVE  pc'[s] = "none"
      <4>1. pc[r] = "none" /\ pc[s] = "none" /\ q <= r
        BY <1>3, <2>1, <3>1, <3>3 DEF Chain
      <4>2. s # q
        BY <3>3, <4>1, SizesAssumption DEF Procs
      <4> QED BY <3>2, <4>1, <4>2
    <3> QED BY <3>3
  <2>6. ASSUME NEW r \in Procs, NEW s \in Procs, r < s,
               pc'[r] \in Living, pc'[s] \in Living
        PROVE  /\ pc'[r] = "wait" /\ child'[r] \in Procs /\ child'[r] <= s
               /\ pc'[child'[r]] \in Living
    <3>1. "start" \in Living /\ "wait" \in Living /\ pc[p] \in Living
      BY <1>4 DEF Living, Active, Holding
    <3>2. pc[r] \in Living /\ r <= p
      <4>1. r # q
        <5>1. ASSUME r = q PROVE FALSE
          <6>1. s \notin {p, q} /\ pc[s] \in Living
            BY <1>5, <2>4, <2>6, <5>1, SizesAssumption DEF Procs
          <6> QED BY <2>2, <2>4, <2>6, <5>1, <6>1, SizesAssumption DEF Procs
        <5> QED BY <5>1
      <4>2. pc[r] \in Living
        BY <1>5, <2>6, <3>1, <4>1
      <4> QED BY <2>2, <4>2
    <3>3. CASE r = p
      <4>1. pc'[r] = "wait" /\ child'[r] = q
        BY <1>5, <2>3, <3>3
      <4>2. q <= s
        <5>1. CASE s = q
          BY <5>1, SizesAssumption DEF Procs
        <5>2. CASE s # q
          BY <1>5, <2>2, <2>6, <3>3, <5>2, SizesAssumption DEF Procs
        <5> QED BY <5>1, <5>2
      <4> QED BY <1>5, <3>1, <4>1, <4>2
    <3>4. CASE r # p
      <4>1. /\ pc[r] = "wait" /\ child[r] \in Procs /\ child[r] <= p
            /\ pc[child[r]] \in Living
        BY <2>1, <3>1, <3>2, <3>4, SizesAssumption DEF Chain, Procs
      <4>2. r # q /\ child[r] # q
        BY <1>3, <4>1 DEF Living, Active, Holding
      <4>3. pc'[r] = "wait" /\ child'[r] = child[r] /\ pc'[child[r]] \in Living
        BY <1>5, <2>3, <3>1, <3>4, <4>1, <4>2
      <4>4. child[r] <= s
        <5>1. CASE s = q
          BY <2>4, <4>1, <5>1, SizesAssumption DEF Procs
        <5>2. CASE s # q
          <6>1. pc[s] \in Living
            BY <1>5, <2>6, <3>1, <5>2
          <6> QED BY <2>1, <2>6, <3>2, <6>1 DEF Chain
        <5> QED BY <5>1, <5>2
      <4> QED BY <4>1, <4>3, <4>4
    <3> QED BY <3>3, <3>4
  <2>7. Order'
    BY <1>2, <1>4, <1>5, <1>6, <2>1 DEF Order
  <2> QED BY <2>5, <2>6, <2>7 DEF Chain
<1> QED BY <1>7, <1>8, <1>9, <1>10, <1>11 DEF AddsInv

(* An entry goes from the hands of p to the end of the file.               *)
LEMMA Adds ==
  ASSUME Distinct, AddsInv, NEW p \in Procs, AddStudentGrade(p)
  PROVE  AddsInv'
<1>1. Types /\ Hands /\ Kept /\ NotLost /\ InOrder
  BY DEF AddsInv
<1>2. /\ typed' = typed /\ Before' = Before /\ (OnlyAdds' <=> OnlyAdds)
      /\ (Reliable' <=> Reliable) /\ \A i : Entry(i)' = Entry(i)
      /\ AddsRead' = AddsRead /\ next' = next /\ heads' = heads
      /\ scenario' = scenario /\ exists' = exists /\ child' = child
  BY SameCommands DEF AddStudentGrade, inputVars
<1>3. /\ Adding(p) /\ pc[p] = "work"
      /\ pc'[p] = "read" /\ job'[p] = NoJob
      /\ \A q \in Procs : q # p => pc'[q] = pc[q] /\ job'[q] = job[q]
  BY <1>1 DEF AddStudentGrade, Loops, Goto, Types, Adding, Holding, IsAdd
<1>4. /\ ~Adding(p)' /\ ~(pc'[p] \in Holding)
      /\ \A q \in Procs : q # p => (Adding(q)' <=> Adding(q))
  <2>1. ~(pc'[p] \in Holding)
    BY <1>3 DEF Holding
  <2>2. \A q \in Procs : q # p => (Adding(q)' <=> Adding(q))
    BY <1>3 DEF Adding
  <2> QED BY <2>1, <2>2 DEF Adding
<1>5. PICK i \in AddsRead : job[p] = typed[i] /\ job[p].entry = Entry(i)
  <2>1. PICK i \in heads : job[p] = typed[i]
    BY <1>1, <1>3 DEF Hands, Adding
  <2>2. i \in AddsRead
    BY <1>1, <1>3, <2>1, Typing DEF Adding
  <2> QED BY <2>1, <2>2 DEF Entry
<1>6. /\ Len(file) \in Nat /\ Before \in Nat
      /\ file' \in Seq(Entries) /\ Len(file') = Len(file) + 1
      /\ file'[Len(file) + 1] = Entry(i)
      /\ \A k \in 1 .. Len(file) : file'[k] = file[k]
  <2>1. file \in Seq(Entries) /\ Entry(i) \in Entries
    <3>1. job[p] \in Commands
      BY <1>1, <1>3 DEF Types, Adding, IsAdd, NoJob
    <3> QED BY <1>1, <1>3, <1>5, <3>1, AddedEntry DEF Types, Adding
  <2>2. file' = Append(file, Entry(i))
    BY <1>5 DEF AddStudentGrade
  <2> QED BY <1>1, <2>1, <2>2, Typing, AppendProperties
<1>7. \A k \in 1 .. Len(file) : file[k] # Entry(i)
  BY <1>1, <1>3, <1>5 DEF Hands
<1>8. \A k \in 1 .. Len(file') : k \in 1 .. Len(file) \/ k = Len(file) + 1
  BY <1>6
<1>9. \A j \in AddsRead : Entry(j) = Entry(i) => j = i
  BY <1>1, Distinguished
<1>10. \A q \in Procs : Adding(q) /\ q # p =>
          job[q].entry # Entry(i) /\ job[q] # typed[i]
  <2> SUFFICES ASSUME NEW q \in Procs, Adding(q), q # p
               PROVE  job[q].entry # Entry(i) /\ job[q] # typed[i]
    OBVIOUS
  <2>1. job[q] # typed[i]
    BY <1>1, <1>3, <1>5 DEF Hands
  <2>2. PICK j \in heads : job[q] = typed[j]
    BY <1>1 DEF Hands, Adding
  <2>3. j \in AddsRead /\ job[q].entry = Entry(j)
    BY <1>1, <2>2, Typing DEF Adding, Entry
  <2> QED BY <1>9, <2>1, <2>2, <2>3
<1>11. Types'
  <2>1. /\ pc' \in [Procs -> Living \cup {"none", "spin", "ended"}]
        /\ job' \in [Procs -> Commands \cup {NoJob}]
    BY <1>1 DEF Types, AddStudentGrade, Loops, Goto, Living, Active
  <2> QED BY <1>1, <1>2, <1>6, <2>1 DEF Types
<1>12. Hands'
  <2>1. ASSUME NEW q \in Procs, pc'[q] \in Holding
        PROVE  /\ job'[q].op # "none" /\ (OnlyAdds => IsAdd(job'[q]))
               /\ IsAdd(job'[q]) => \E j \in heads : job'[q] = typed[j]
    BY <1>1, <1>3, <1>4, <2>1 DEF Hands
  <2>2. \A q, r \in Procs :
          Adding(q)' /\ Adding(r)' /\ job'[q] = job'[r] => q = r
    BY <1>1, <1>3, <1>4 DEF Hands
  <2>3. ASSUME NEW q \in Procs, Adding(q)', NEW k \in 1 .. Len(file')
        PROVE  file'[k] # job'[q].entry
    <3>1. q # p /\ Adding(q) /\ job'[q] = job[q]
      BY <1>3, <1>4, <2>3
    <3> QED BY <1>1, <1>6, <1>8, <1>10, <3>1 DEF Hands
  <2> QED BY <1>2, <2>1, <2>2, <2>3 DEF Hands
<1>13. Kept'
  <2>1. /\ Before <= Len(file')
        /\ \A k \in 1 .. Before : file'[k] = scenario.file[k]
    BY <1>1, <1>6 DEF Kept
  <2>2. ASSUME NEW k \in 1 .. Len(file'), k > Before
        PROVE  \E j \in AddsRead : file'[k] = Entry(j)
    BY <1>1, <1>5, <1>6, <1>8, <2>2 DEF Kept
  <2>3. ASSUME NEW k \in 1 .. Len(file'), NEW l \in 1 .. Len(file'),
               k > Before, l > Before, file'[k] = file'[l]
        PROVE  k = l
    BY <1>1, <1>6, <1>7, <1>8, <2>3 DEF Kept
  <2> QED BY <1>2, <2>1, <2>2, <2>3 DEF Kept
<1>14. NotLost'
  <2> SUFFICES ASSUME Reliable
               PROVE  /\ exists
                      /\ \A j \in AddsRead :
                           \/ \E k \in 1 .. Len(file') : file'[k] = Entry(j)
                           \/ \E q \in Procs : Adding(q)' /\ job'[q] = typed[j]
    BY <1>2 DEF NotLost
  <2>1. exists
    BY <1>1 DEF NotLost
  <2>2. ASSUME NEW j \in AddsRead
        PROVE  \/ \E k \in 1 .. Len(file') : file'[k] = Entry(j)
               \/ \E q \in Procs : Adding(q)' /\ job'[q] = typed[j]
    <3>1. ASSUME NEW k \in 1 .. Len(file), file[k] = Entry(j)
          PROVE  k \in 1 .. Len(file') /\ file'[k] = Entry(j)
      BY <1>6, <3>1
    <3>2. ASSUME Adding(p), job[p] = typed[j]
          PROVE  Len(file) + 1 \in 1 .. Len(file')
                 /\ file'[Len(file) + 1] = Entry(j)
      BY <1>5, <1>6, <3>2 DEF Entry
    <3>3. ASSUME NEW q \in Procs, Adding(q), q # p, job[q] = typed[j]
          PROVE  Adding(q)' /\ job'[q] = typed[j]
      BY <1>3, <1>4, <3>3
    <3> QED BY <1>1, <3>1, <3>2, <3>3 DEF NotLost
  <2> QED BY <2>1, <2>2
<1>15. InOrder'
  <2> SUFFICES ASSUME OnlyAdds PROVE Chain' /\ Order'
    BY <1>2 DEF InOrder
  <2>1. Chain /\ Order
    BY <1>1 DEF InOrder
  <2>2. \A q \in Procs : pc[q] \in Living => q <= p
    BY <1>1, <1>3, <2>1, TopOfChain DEF Active, Holding
  <2>3. pc[p] \in Living /\ "read" \in Living
    BY <1>3 DEF Living, Active, Holding
  <2>4. Chain'
    <3>1. \A q \in Procs : /\ pc'[q] = "none" <=> pc[q] = "none"
                           /\ pc'[q] \in Living <=> pc[q] \in Living
      BY <1>3, <2>3
    <3>2. \A q \in Procs : pc[q] = "wait" => pc'[q] = "wait"
      BY <1>3
    <3> QED BY <1>2, <2>1, <3>1, <3>2 DEF Chain
  <2>5. ASSUME NEW m \in AddsRead, NEW j \in AddsRead,
               NEW k \in 1 .. Len(file'), NEW l \in 1 .. Len(file'),
               m < j, file'[k] = Entry(m), file'[l] = Entry(j)
        PROVE  k < l
    <3>1. CASE l = Len(file) + 1
      <4>1. j = i
        BY <1>6, <1>9, <2>5, <3>1
      <4>2. m # i
        BY <1>1, <2>5, <4>1, Typing
      <4>3. k # Len(file) + 1
        BY <1>6, <1>9, <2>5, <4>2
      <4> QED BY <1>6, <1>8, <3>1, <4>3
    <3>2. CASE l \in 1 .. Len(file) /\ k = Len(file) + 1
      <4>1. m = i /\ file[l] = Entry(j)
        BY <1>6, <1>9, <2>5, <3>2
      <4>2. j < i
        BY <1>3, <1>5, <2>1, <3>2, <4>1 DEF Order
      <4> QED BY <1>1, <2>5, <4>1, <4>2, Typing
    <3>3. CASE l \in 1 .. Len(file) /\ k \in 1 .. Len(file)
      BY <1>6, <2>1, <2>5, <3>3 DEF Order
    <3> QED BY <1>8, <3>1, <3>2, <3>3
  <2>6. \A q \in Procs : ~Adding(q)'
    <3> SUFFICES ASSUME NEW q \in Procs, Adding(q)' PROVE FALSE
      OBVIOUS
    <3>1. q # p /\ pc[q] \in Living /\ pc[q] # "wait"
      BY <1>4 DEF Adding, Holding, Living, Active
    <3>2. q < p
      BY <2>2, <3>1, SizesAssumption DEF Procs
    <3> QED BY <2>1, <2>3, <3>1, <3>2 DEF Chain
  <2>7. Order'
    BY <1>2, <2>5, <2>6 DEF Order
  <2> QED BY <2>4, <2>7
<1> QED BY <1>11, <1>12, <1>13, <1>14, <1>15 DEF AddsInv

-----------------------------------------------------------------------------
LEMMA AddsStarts == Init => AddsInv
<1> SUFFICES ASSUME Init PROVE AddsInv
  OBVIOUS
<1>1. /\ scenario \in Scenarios /\ next = 1 /\ heads = {}
      /\ file = scenario.file
      /\ pc = [p \in Procs |-> IF p = 1 THEN "read" ELSE "none"]
      /\ job = [p \in Procs |-> NoJob] /\ child = [p \in Procs |-> 0]
      /\ exists = scenario.exists
  BY DEF Init
<1>2. Types
  <2>1. typed \in Seq(Commands) /\ file \in Seq(Entries) /\ exists \in BOOLEAN
    BY <1>1, ScenariosAssumption DEF typed
  <2>2. Len(typed) \in Nat
    BY <2>1, LenProperties
  <2> QED BY <1>1, <2>1, <2>2 DEF Types, Living, Active
<1>3. AddsRead = {} /\ \A p \in Procs : ~(pc[p] \in Holding)
  BY <1>1 DEF AddsRead, Holding
<1>4. Hands
  BY <1>3 DEF Hands, Adding
<1>5. Kept
  <2>1. Before \in Nat /\ Len(file) = Before
    BY <1>1, <1>2, Typing DEF Before
  <2> QED BY <1>1, <2>1 DEF Kept
<1>6. NotLost
  BY <1>1, <1>3 DEF NotLost, Reliable
<1>7. InOrder
  <2>1. Chain
    BY <1>1, SizesAssumption DEF Chain, Living, Active, Holding, Procs
  <2> QED BY <1>3, <2>1 DEF InOrder, Order, Adding
<1> QED BY <1>2, <1>4, <1>5, <1>6, <1>7 DEF AddsInv

LEMMA AddsContinues == Distinct /\ AddsInv /\ [Next]_vars => AddsInv'
<1> SUFFICES ASSUME Distinct, AddsInv, [Next]_vars PROVE AddsInv'
  OBVIOUS
<1>1. CASE UNCHANGED vars
  <2>1. /\ typed' = typed /\ Before' = Before /\ (OnlyAdds' <=> OnlyAdds)
        /\ (Reliable' <=> Reliable) /\ \A i : Entry(i)' = Entry(i)
        /\ AddsRead' = AddsRead
    BY <1>1, SameCommands DEF vars, inputVars
  <2>2. /\ pc' = pc /\ job' = job /\ child' = child /\ file' = file
        /\ next' = next /\ exists' = exists /\ scenario' = scenario
        /\ heads' = heads
    BY <1>1 DEF vars, fileVars, inputVars, readVars
  <2>3. \A p : Adding(p)' <=> Adding(p)
    BY <2>2 DEF Adding
  <2>4. Types' /\ Hands' /\ Kept'
    BY <2>1, <2>2, <2>3 DEF AddsInv, Types, Hands, Kept
  <2>5. NotLost'
    BY <2>1, <2>2, <2>3 DEF AddsInv, NotLost
  <2>6. InOrder'
    BY <2>1, <2>2, <2>3 DEF AddsInv, InOrder, Chain, Order
  <2> QED BY <2>4, <2>5, <2>6 DEF AddsInv
<1>2. ASSUME NEW p \in Procs, ProcStep(p) \/ ReadFails(p)
      PROVE  AddsInv'
  <2>1. /\ exists \in BOOLEAN /\ Types
        /\ pc[p] \in Holding => job[p].op # "none"
    <3>1. Types
      BY DEF AddsInv
    <3>2. pc[p] \in Holding => job[p].op # "none"
      BY DEF AddsInv, Hands
    <3> QED BY <3>1, <3>2 DEF Types
  <2>2. CASE ReadCommand(p)
    BY <2>2, Reading
  <2>3. CASE Fork(p)
    BY <2>3, CommandTakenOver
  <2>4. CASE AddStudentGrade(p)
    BY <2>4, Adds
  <2>5. CASE ReadEnd(p) \/ ReadFails(p)
    <3>1. Moves(p, "ended")
      BY <2>1, <2>5
        DEF ReadEnd, ReadFails, Goto, Moves, fileVars, inputVars, Active,
            Holding, Adding
    <3> QED BY <3>1, Moving
  <2>6. CASE ForkFails(p)
    <3>1. Moves(p, "read")
      BY <2>1, <2>6
        DEF ForkFails, Goto, Moves, fileVars, inputVars, Active, Holding,
            Reliable
    <3> QED BY <3>1, Moving
  <2>7. CASE Waitpid(p)
    <3>1. Moves(p, "read")
      BY <2>1, <2>7
        DEF Waitpid, Goto, Moves, fileVars, inputVars, Active, Holding, Adding
    <3> QED BY <3>1, Moving
  <2>8. CASE Open(p)
    <3>1. CASE exists
      <4>1. Moves(p, "work")
        BY <2>1, <2>8, <3>1
          DEF Open, Goto, Moves, fileVars, inputVars, Active, Holding
      <4> QED BY <4>1, Moving
    <3>2. CASE ~exists
      <4>1. Moves(p, "read")
        BY <2>1, <2>8, <3>2
          DEF Open, Loops, Goto, Moves, fileVars, inputVars, Active,
              Holding, AddsInv, NotLost
      <4> QED BY <4>1, Moving
    <3> QED BY <3>1, <3>2
  <2>9. CASE CreateFile(p)
    <3>1. Moves(p, "read")
      BY <2>1, <2>9
        DEF CreateFile, Loops, Goto, Moves, inputVars, Active, Holding, Adding,
            IsAdd
    <3> QED BY <3>1, Moving
  <2>10. CASE Usage(p)
    <3>1. Moves(p, "read")
      BY <2>1, <2>10
        DEF Usage, Loops, Goto, Moves, fileVars, inputVars, Active, Holding,
            Adding, IsAdd
    <3> QED BY <3>1, Moving
  <2>11. CASE ForkTester(p)
    <3>1. Moves(p, "spin")
      BY <2>1, <2>11
        DEF ForkTester, Goto, Moves, fileVars, inputVars, Active, Holding,
            Adding, IsAdd
    <3> QED BY <3>1, Moving
  <2>12. ASSUME NEW op \in Readings, Listing(p, op),
                UNCHANGED <<pc, job>> \/ Loops(p) \/ Crash(p)
         PROVE  AddsInv'
    <3>1. CASE Loops(p)
      <4>1. Moves(p, "read")
        BY <2>1, <2>12, <3>1
          DEF Listing, Loops, Goto, Moves, fileVars, inputVars, Active,
              Holding, Adding, IsAdd, Readings
      <4> QED BY <4>1, Moving
    <3>2. CASE UNCHANGED <<pc, job>>
      <4>1. Moves(p, "work")
        BY <2>1, <2>12, <3>2
          DEF Listing, Moves, fileVars, inputVars, Active, Holding, Types
      <4> QED BY <4>1, Moving
    <3>3. CASE Crash(p)
      <4>1. Moves(p, "ended")
        BY <2>1, <2>12, <3>3
          DEF Listing, Crash, Goto, Moves, fileVars, inputVars, Active,
              Holding, Adding, IsAdd, Readings
      <4> QED BY <4>1, Moving
    <3> QED BY <2>12, <3>1, <3>2, <3>3
  <2>13. \A more, lines : ReadOn(p, more, lines) => UNCHANGED <<pc, job>>
    BY DEF ReadOn
  <2>14. \A output : Complete(p, output) => Loops(p)
    BY DEF Complete
  <2>15. CASE ShowAll(p)
    <3>1. UNCHANGED <<pc, job>> \/ Loops(p) \/ Crash(p)
      BY <2>13, <2>14, <2>15 DEF ShowAll
    <3> QED BY <2>12, <2>15, <3>1 DEF ShowAll, Readings
  <2>16. CASE ListSome(p)
    <3>1. UNCHANGED <<pc, job>> \/ Loops(p) \/ Crash(p)
      BY <2>13, <2>14, <2>16 DEF ListSome
    <3> QED BY <2>12, <2>16, <3>1 DEF ListSome, Readings
  <2>17. CASE ListGrades(p)
    <3>1. UNCHANGED <<pc, job>> \/ Loops(p) \/ Crash(p)
      BY <2>13, <2>14, <2>17 DEF ListGrades
    <3> QED BY <2>12, <2>17, <3>1 DEF ListGrades, Readings
  <2>18. CASE SearchStudent(p)
    <3>1. UNCHANGED <<pc, job>> \/ Loops(p) \/ Crash(p)
      BY <2>13, <2>14, <2>18 DEF SearchStudent
    <3> QED BY <2>12, <2>18, <3>1 DEF SearchStudent, Readings
  <2>19. CASE SortAll(p)
    <3>1. UNCHANGED <<pc, job>> \/ Loops(p) \/ Crash(p)
      BY <2>13, <2>14, <2>19 DEF SortAll
    <3> QED BY <2>12, <2>19, <3>1 DEF SortAll, Readings
  <2> QED BY <1>2, <2>2, <2>3, <2>4, <2>5, <2>6, <2>7, <2>8, <2>9, <2>10,
             <2>11, <2>15, <2>16, <2>17, <2>18, <2>19 DEF ProcStep
<1> QED BY <1>1, <1>2 DEF Next

(* Whoever types what, and whichever processes read and add: the file      *)
(* keeps what it held, every addition that main understands is in it once, *)
(* none of these is lost if the file was there and every fork works, and   *)
(* they are in order if only additions are typed.  What a pipe brings in   *)
(* the same read as a command before it is not understood.                 *)
THEOREM AddsKeptHolds == ASSUME Distinct PROVE Spec => []AddsKept
<1>1. AddsInv => AddsKept
  BY KeptIsAddsKept
<1>2. AddsInv /\ [Next]_vars => AddsInv'
  BY AddsContinues
<1> QED BY <1>1, <1>2, AddsStarts, PTL DEF Spec
-----------------------------------------------------------------------------
(* What a set of numbers that has 0 and, with each of its members, the     *)
(* next one, holds: the induction all recursions below rest on.            *)
LEMMA InductionNat ==
  ASSUME NEW T, 0 \in T, \A n \in Nat : n \in T => n + 1 \in T
  PROVE  Nat \subseteq T
<1> DEFINE Less == OpToRel(<, Nat)
           Out == Nat \ T
<1>1. IsWellFoundedOn(Less, Nat)
  BY NatLessThanWellFounded
<1>2. \A m, n \in Nat : m < n => <<m, n>> \in Less
  BY DEF OpToRel
<1> HIDE DEF Less
<1>3. ASSUME Out # {} PROVE FALSE
  <2>1. PICK x \in Out : \A y \in Out : ~(<<y, x>> \in Less)
    BY <1>1, <1>3, WFMin
  <2>2. x \in Nat \ {0}
    OBVIOUS
  <2>3. x - 1 \in Nat /\ x - 1 < x /\ (x - 1) + 1 = x
    BY <2>2
  <2>4. x - 1 \notin T
    BY <2>2, <2>3
  <2> QED BY <1>2, <2>1, <2>3, <2>4
<1> QED BY <1>3

(* A function that is defined by recursion up to last exists: h takes its  *)
(* first n steps.                                                          *)
Runs(h, n, S, first, step) ==
  /\ h \in [0 .. n -> S] /\ h[0] = first
  /\ \A i \in 1 .. n : h[i] = step[<<i, h[i - 1]>>]
LEMMA Recursion ==
  ASSUME NEW last \in Nat, NEW S, NEW first \in S,
         NEW step \in [(1 .. last) \X S -> S]
  PROVE  \E h : Runs(h, last, S, first, step)
<1> DEFINE R(h, n) == Runs(h, n, S, first, step)
           Some == {n \in Nat : n <= last => \E h : R(h, n)}
<1>1. 0 \in Some
  <2>1. R([i \in 0 .. 0 |-> first], 0)
    BY DEF Runs
  <2> HIDE DEF R
  <2> QED BY <2>1
<1>2. ASSUME NEW n \in Nat, n \in Some PROVE n + 1 \in Some
  <2> SUFFICES ASSUME n + 1 <= last PROVE \E h : R(h, n + 1)
    OBVIOUS
  <2>1. PICK h : R(h, n)
    BY <1>2
  <2> DEFINE k == [i \in 0 .. n + 1 |->
                     IF i = n + 1 THEN step[<<n + 1, h[n]>>] ELSE h[i]]
  <2>2. /\ h[n] \in S /\ h[0] = first /\ \A i \in 0 .. n : h[i] \in S
        /\ \A i \in 1 .. n : h[i] = step[<<i, h[i - 1]>>]
    BY <2>1 DEF Runs
  <2>3. step[<<n + 1, h[n]>>] \in S
    BY <2>2
  <2>4. k \in [0 .. n + 1 -> S]
    BY <2>2, <2>3
  <2>5. k[0] = first
    BY <2>2
  <2>6. ASSUME NEW i \in 1 .. n + 1 PROVE k[i] = step[<<i, k[i - 1]>>]
    <3>1. CASE i = n + 1
      <4>1. n + 1 \in 0 .. n + 1 /\ n \in 0 .. n + 1 /\ n # n + 1
        OBVIOUS
      <4>2. k[n + 1] = step[<<n + 1, h[n]>>] /\ k[n] = h[n]
        BY <4>1
      <4>3. (n + 1) - 1 = n
        OBVIOUS
      <4> QED BY <3>1, <4>2, <4>3
    <3>2. CASE i # n + 1
      <4>1. i \in 1 .. n /\ i - 1 \in 0 .. n
        BY <3>2
      <4>2. k[i] = h[i] /\ k[i - 1] = h[i - 1]
        BY <4>1
      <4> QED BY <2>2, <4>1, <4>2
    <3> QED BY <3>1, <3>2
  <2> HIDE DEF k
  <2>7. R(k, n + 1)
    BY <2>4, <2>5, <2>6 DEF Runs
  <2> HIDE DEF R
  <2> QED BY <2>7
<1> HIDE DEF Some
<1>3. last \in Some
  BY <1>1, <1>2, InductionNat
<1> QED BY <1>3 DEF Some

-----------------------------------------------------------------------------
(* The sort.  An element of it, and what its comparison is: a preorder in  *)
(* which any two elements compare.                                         *)
Items == [name : Nat, grade : Nat, rest : {0, 1}]
LEMMA GreaterOrders ==
  ASSUME NEW a \in Items, NEW b \in Items, NEW c \in Items, NEW cmd
  PROVE  /\ Greater(a, b, cmd) => ~Greater(b, a, cmd)
         /\ ~Greater(a, b, cmd) /\ ~Greater(b, c, cmd) => ~Greater(a, c, cmd)
<1>1. \A x \in Items : /\ 2 * x.name + x.rest \in Int /\ x.grade \in Int
  BY DEF Items
<1>2. CASE cmd.by = "name"
  BY <1>1, <1>2 DEF Greater
<1>3. CASE cmd.by # "name"
  BY <1>1, <1>3 DEF Greater
<1> QED BY <1>2, <1>3

(* t has the elements of s, in another order.                              *)
Orders(n) == {f \in [1 .. n -> 1 .. n] :
                /\ \A i, j \in 1 .. n : f[i] = f[j] => i = j
                /\ \A k \in 1 .. n : \E i \in 1 .. n : f[i] = k}
Reordered(t, s, n) ==
  \E f \in Orders(n) : \A i \in 1 .. n : t[i] = s[f[i]]

LEMMA ReorderedSelf ==
  ASSUME NEW n \in Nat, NEW s PROVE Reordered(s, s, n)
<1>1. [i \in 1 .. n |-> i] \in Orders(n)
  BY DEF Orders
<1> QED BY <1>1 DEF Reordered

LEMMA ReorderedTwice ==
  ASSUME NEW n \in Nat, NEW s, NEW t, NEW u,
         Reordered(t, s, n), Reordered(u, t, n)
  PROVE  Reordered(u, s, n)
<1>1. PICK f \in Orders(n) : \A i \in 1 .. n : t[i] = s[f[i]]
  BY DEF Reordered
<1>2. PICK g \in Orders(n) : \A i \in 1 .. n : u[i] = t[g[i]]
  BY DEF Reordered
<1>3. /\ \A i \in 1 .. n : f[i] \in 1 .. n /\ g[i] \in 1 .. n
      /\ \A i, j \in 1 .. n : f[i] = f[j] => i = j
      /\ \A i, j \in 1 .. n : g[i] = g[j] => i = j
      /\ \A k \in 1 .. n : \E i \in 1 .. n : f[i] = k
      /\ \A k \in 1 .. n : \E i \in 1 .. n : g[i] = k
  BY DEF Orders
<1> DEFINE h == [i \in 1 .. n |-> f[g[i]]]
<1>4. h \in [1 .. n -> 1 .. n]
  BY <1>3
<1>5. \A i, j \in 1 .. n : h[i] = h[j] => i = j
  BY <1>3
<1>6. ASSUME NEW k \in 1 .. n PROVE \E i \in 1 .. n : h[i] = k
  <2>1. PICK j \in 1 .. n : f[j] = k
    BY <1>3
  <2>2. PICK i \in 1 .. n : g[i] = j
    BY <1>3
  <2> QED BY <2>1, <2>2
<1>7. \A i \in 1 .. n : u[i] = s[h[i]]
  BY <1>1, <1>2, <1>3
<1>8. h \in Orders(n)
  BY <1>4, <1>5, <1>6 DEF Orders
<1> QED BY <1>7, <1>8 DEF Reordered

(* An exchange, or none.                                                   *)
LEMMA ExchangeReorders ==
  ASSUME NEW n \in Nat, NEW s \in [1 .. n -> Items], NEW cmd,
         NEW j \in 1 .. n - 1
  PROVE  LET t == Exchanged(s, j, cmd)
         IN  /\ t \in [1 .. n -> Items] /\ Reordered(t, s, n)
             /\ ~Greater(t[j], t[j + 1], cmd)
             /\ \A k \in 1 .. n : k \notin {j, j + 1} => t[k] = s[k]
             /\ \/ t[j] = s[j] /\ t[j + 1] = s[j + 1]
                \/ t[j] = s[j + 1] /\ t[j + 1] = s[j]
<1> DEFINE t == Exchanged(s, j, cmd)
<1>1. j \in 1 .. n /\ j + 1 \in 1 .. n /\ j # j + 1
  OBVIOUS
<1>2. CASE Greater(s[j], s[j + 1], cmd)
  <2> DEFINE f == [i \in 1 .. n |-> IF i = j THEN j + 1
                                    ELSE IF i = j + 1 THEN j ELSE i]
  <2>1. t = [s EXCEPT ![j] = s[j + 1], ![j + 1] = s[j]]
    BY <1>2 DEF Exchanged
  <2> HIDE DEF t
  <2>2. /\ t \in [1 .. n -> Items] /\ t[j] = s[j + 1] /\ t[j + 1] = s[j]
        /\ \A k \in 1 .. n : k \notin {j, j + 1} => t[k] = s[k]
    BY <1>1, <2>1
  <2>3. f \in Orders(n)
    <3>1. f \in [1 .. n -> 1 .. n]
      BY <1>1
    <3>2. \A i, k \in 1 .. n : f[i] = f[k] => i = k
      BY <1>1
    <3>3. \A k \in 1 .. n : \E i \in 1 .. n : f[i] = k
      <4>1. f[j] = j + 1 /\ f[j + 1] = j
        BY <1>1
      <4>2. \A k \in 1 .. n : k # j /\ k # j + 1 => f[k] = k
        BY <1>1
      <4> QED BY <1>1, <4>1, <4>2
    <3> QED BY <3>1, <3>2, <3>3 DEF Orders
  <2>4. \A i \in 1 .. n : t[i] = s[f[i]]
    BY <1>1, <2>2
  <2>5. Reordered(t, s, n)
    BY <2>3, <2>4 DEF Reordered
  <2>6. s[j] \in Items /\ s[j + 1] \in Items
    BY <1>1
  <2>7. ~Greater(t[j], t[j + 1], cmd)
    BY <1>2, <2>2, <2>6, GreaterOrders
  <2> QED BY <2>2, <2>5, <2>7 DEF t
<1>3. CASE ~Greater(s[j], s[j + 1], cmd)
  <2>1. t = s
    BY <1>3 DEF Exchanged
  <2> HIDE DEF t
  <2> QED BY <1>3, <2>1, ReorderedSelf DEF t
<1> QED BY <1>2, <1>3

(* One pass, and the passes, go on as they are written.                    *)
LEMMA ComparedRuns ==
  ASSUME NEW s \in Seq(Items), Len(s) > 0, NEW cmd
  PROVE  /\ Compared(s, cmd)[0] = s
         /\ \A j \in 1 .. Len(s) - 1 :
              Compared(s, cmd)[j] = Exchanged(Compared(s, cmd)[j - 1], j, cmd)
         /\ \A j \in 0 .. Len(s) - 1 :
              Compared(s, cmd)[j] \in [1 .. Len(s) -> Items]
<1> DEFINE n == Len(s)
           S == [1 .. n -> Items]
           step == [x \in (1 .. n - 1) \X S |-> Exchanged(x[2], x[1], cmd)]
           last == n - 1
<1>1. n \in Nat \ {0} /\ s \in S /\ last \in Nat
  BY LenProperties
<1>2. step \in [(1 .. last) \X S -> S]
  <2>1. ASSUME NEW x \in (1 .. last) \X S
        PROVE  Exchanged(x[2], x[1], cmd) \in S
    <3>1. x[1] \in 1 .. n - 1 /\ x[2] \in [1 .. n -> Items]
      OBVIOUS
    <3> HIDE DEF n
    <3> QED BY <1>1, <3>1, ExchangeReorders
  <2> QED BY <2>1
<1>3. PICK h : Runs(h, last, S, s, step)
  <2> HIDE DEF step, S, last
  <2> QED BY <1>1, <1>2, Recursion
<1>4. h = [j \in 0 .. n - 1 |->
             IF j = 0 THEN s ELSE Exchanged(h[j - 1], j, cmd)]
  <2>1. ASSUME NEW j \in 1 .. last
        PROVE  h[j] = Exchanged(h[j - 1], j, cmd)
    <3>1. j - 1 \in 0 .. last
      BY <1>1
    <3>2. h[j - 1] \in S /\ h[j] = step[<<j, h[j - 1]>>]
      <4> HIDE DEF S, step, last
      <4> QED BY <1>3, <3>1 DEF Runs
    <3>3. <<j, h[j - 1]>> \in (1 .. last) \X S
      BY <3>2
    <3> QED BY <3>2, <3>3
  <2>2. h \in [0 .. n - 1 -> S] /\ h[0] = s
    BY <1>3 DEF Runs
  <2> HIDE DEF n, S, step
  <2> QED BY <1>1, <2>1, <2>2
<1>5. Compared(s, cmd) =
        [j \in 0 .. n - 1 |->
           IF j = 0 THEN s ELSE Exchanged(Compared(s, cmd)[j - 1], j, cmd)]
  BY <1>4 DEF Compared
<1>6. ASSUME NEW j \in 1 .. n - 1
      PROVE  Compared(s, cmd)[j] = Exchanged(Compared(s, cmd)[j - 1], j, cmd)
  <2> HIDE DEF n
  <2> QED BY <1>1, <1>5
<1>7. 0 \in 0 .. n - 1 /\ Compared(s, cmd)[0] = s
  <2>1. 0 \in 0 .. n - 1
    BY <1>1
  <2> HIDE DEF n
  <2> QED BY <1>5, <2>1
<1> DEFINE So == {j \in Nat : j <= n - 1 => Compared(s, cmd)[j] \in S}
<1>8. 0 \in So
  BY <1>1, <1>7
<1>9. ASSUME NEW j \in Nat, j \in So PROVE j + 1 \in So
  <2> SUFFICES ASSUME j + 1 <= n - 1 PROVE Compared(s, cmd)[j + 1] \in S
    OBVIOUS
  <2>1. Compared(s, cmd)[j] \in S
    BY <1>1, <1>9
  <2>2. j + 1 \in 1 .. n - 1 /\ (j + 1) - 1 = j
    BY <1>1
  <2>3. Compared(s, cmd)[j + 1] = Exchanged(Compared(s, cmd)[j], j + 1, cmd)
    BY <1>6, <2>2
  <2> HIDE DEF n
  <2> QED BY <1>1, <2>1, <2>2, <2>3, ExchangeReorders
<1>10. Nat \subseteq So
  <2> HIDE DEF So
  <2> QED BY <1>8, <1>9, InductionNat
<1> QED BY <1>1, <1>6, <1>7, <1>10

(* The greatest of what is compared goes to the end of it.                 *)
Settled(t, n, i, cmd) ==
  \A j, k \in 1 .. n : j < k /\ k > n - i => ~Greater(t[j], t[k], cmd)
LEMMA PassSettles ==
  ASSUME NEW s \in Seq(Items), NEW i \in 1 .. Len(s), NEW cmd,
         Settled(s, Len(s), i - 1, cmd)
  PROVE  LET t == Compared(s, cmd)[Len(s) - i]
         IN  /\ t \in [1 .. Len(s) -> Items] /\ Reordered(t, s, Len(s))
             /\ Settled(t, Len(s), i, cmd)
<1>1. PICK n \in Nat : n = Len(s)
  BY LenProperties
<1>2. s \in [1 .. n -> Items] /\ i \in 1 .. n
  BY <1>1, LenProperties
<1> DEFINE c(j) == Compared(s, cmd)[j]
           Done(j) == /\ c(j) \in [1 .. n -> Items] /\ Reordered(c(j), s, n)
                      /\ Settled(c(j), n, i - 1, cmd)
                      /\ \A l \in 1 .. j :
                           ~Greater(c(j)[l], c(j)[j + 1], cmd)
           So == {j \in Nat : j <= n - i => Done(j)}
<1>3. 0 \in So
  <2>1. c(0) = s
    BY <1>1, <1>2, ComparedRuns
  <2> QED BY <1>1, <1>2, <2>1, ReorderedSelf
<1>4. ASSUME NEW m \in Nat, m \in So PROVE m + 1 \in So
  <2> SUFFICES ASSUME m + 1 <= n - i PROVE Done(m + 1)
    OBVIOUS
  <2> DEFINE j == m + 1
             t == c(m)
             u == c(j)
  <2>1. j \in 1 .. n - 1 /\ j - 1 = m
    BY <1>2
  <2>2. u = Exchanged(t, j, cmd)
    <3>1. j \in 1 .. Len(s) - 1 /\ Len(s) > 0
      BY <1>1, <1>2, <2>1
    <3> HIDE DEF j
    <3>2. Compared(s, cmd)[j] = Exchanged(Compared(s, cmd)[j - 1], j, cmd)
      BY <3>1, ComparedRuns
    <3> QED BY <2>1, <3>2
  <2>3. Done(m)
    BY <1>2, <1>4
  <2>4. t \in [1 .. n -> Items] /\ Reordered(t, s, n)
        /\ Settled(t, n, i - 1, cmd)
        /\ \A l \in 1 .. m : ~Greater(t[l], t[j], cmd)
    BY <2>3
  <2> HIDE DEF t, u, Done
  <2>5. /\ u \in [1 .. n -> Items] /\ Reordered(u, t, n)
        /\ ~Greater(u[j], u[j + 1], cmd)
        /\ \A k \in 1 .. n : k \notin {j, j + 1} => u[k] = t[k]
        /\ \/ u[j] = t[j] /\ u[j + 1] = t[j + 1]
           \/ u[j] = t[j + 1] /\ u[j + 1] = t[j]
    BY <2>1, <2>2, <2>4, ExchangeReorders
  <2>6. Reordered(u, s, n)
    BY <2>4, <2>5, ReorderedTwice
  <2>7. Settled(u, n, i - 1, cmd)
    <3> SUFFICES ASSUME NEW a \in 1 .. n, NEW b \in 1 .. n,
                        a < b, b > n - (i - 1)
                 PROVE  ~Greater(u[a], u[b], cmd)
      BY DEF Settled
    <3>1. b > j + 1 /\ u[b] = t[b]
      BY <1>2, <2>1, <2>5
    <3>2. \E d \in 1 .. n : d < b /\ u[a] = t[d]
      <4>1. CASE a \notin {j, j + 1}
        BY <2>5, <4>1
      <4>2. CASE a \in {j, j + 1}
        <5>1. j \in 1 .. n /\ j + 1 \in 1 .. n /\ j < b /\ j + 1 < b
          BY <1>2, <2>1, <3>1
        <5> QED BY <2>5, <4>2, <5>1
      <4> QED BY <4>1, <4>2
    <3> QED BY <2>4, <3>1, <3>2 DEF Settled
  <2>8. ASSUME NEW l \in 1 .. j PROVE ~Greater(u[l], u[j + 1], cmd)
    <3>1. CASE l = j
      BY <2>5, <3>1
    <3>2. CASE l # j
      <4>1. l \in 1 .. m /\ l \in 1 .. n /\ j \in 1 .. n /\ j + 1 \in 1 .. n
        BY <1>2, <2>1, <3>2
      <4>2. u[l] = t[l]
        BY <2>5, <3>2, <4>1, <2>1
      <4>3. ~Greater(t[l], t[j], cmd)
        BY <2>4, <4>1
      <4>4. CASE u[j] = t[j] /\ u[j + 1] = t[j + 1]
        <5>1. t[l] \in Items /\ t[j] \in Items /\ t[j + 1] \in Items
          BY <2>4, <4>1
        <5>2. ~Greater(t[j], t[j + 1], cmd)
          BY <2>5, <4>4
        <5> QED BY <4>2, <4>3, <4>4, <5>1, <5>2, GreaterOrders
      <4>5. CASE u[j] = t[j + 1] /\ u[j + 1] = t[j]
        BY <4>2, <4>3, <4>5
      <4> QED BY <2>5, <4>4, <4>5
    <3> QED BY <3>1, <3>2
  <2> QED BY <2>5, <2>6, <2>7, <2>8 DEF Done, u
<1> HIDE DEF So
<1>5. n - i \in So /\ n - i \in Nat
  BY <1>2, <1>3, <1>4, InductionNat
<1>6. Done(n - i)
  BY <1>5 DEF So
<1> DEFINE t == c(n - i)
<1>7. /\ t \in [1 .. n -> Items] /\ Reordered(t, s, n)
      /\ Settled(t, n, i - 1, cmd)
      /\ \A l \in 1 .. n - i : ~Greater(t[l], t[(n - i) + 1], cmd)
  BY <1>6
<1> HIDE DEF t
<1>8. Settled(t, n, i, cmd)
  <2> SUFFICES ASSUME NEW a \in 1 .. n, NEW b \in 1 .. n, a < b, b > n - i
               PROVE  ~Greater(t[a], t[b], cmd)
    BY DEF Settled
  <2>1. CASE b > n - (i - 1)
    BY <1>7, <2>1 DEF Settled
  <2>2. CASE ~(b > n - (i - 1))
    <3>1. b = (n - i) + 1 /\ a \in 1 .. n - i
      BY <1>2, <2>2
    <3> QED BY <1>7, <3>1
  <2> QED BY <2>1, <2>2
<1> QED BY <1>1, <1>7, <1>8 DEF t

LEMMA PassesRun ==
  ASSUME NEW s \in Seq(Items), NEW cmd
  PROVE  /\ Passes(s, cmd)[0] = s
         /\ \A i \in 1 .. Len(s) :
              Passes(s, cmd)[i] =
                Compared(Passes(s, cmd)[i - 1], cmd)[Len(s) - i]
<1>1. PICK n \in Nat : n = Len(s)
  BY LenProperties
<1> DEFINE S == [1 .. n -> Items]
           step == [x \in (1 .. n) \X S |-> Compared(x[2], cmd)[n - x[1]]]
<1>2. s \in S
  BY <1>1, LenProperties
<1>3. step \in [(1 .. n) \X S -> S]
  <2>1. ASSUME NEW x \in (1 .. n) \X S
        PROVE  Compared(x[2], cmd)[n - x[1]] \in S
    <3>1. x[1] \in 1 .. n /\ x[2] \in S
      OBVIOUS
    <3>2. x[2] \in Seq(Items) /\ Len(x[2]) = n
      BY <3>1, IsASeq
    <3>3. n - x[1] \in 0 .. n - 1 /\ n > 0
      BY <3>1
    <3> QED BY <3>2, <3>3, ComparedRuns
  <2> QED BY <2>1
<1>4. PICK h : Runs(h, n, S, s, step)
  <2> HIDE DEF step, S
  <2> QED BY <1>2, <1>3, Recursion
<1>5. h = [i \in 0 .. n |->
             IF i = 0 THEN s ELSE Compared(h[i - 1], cmd)[n - i]]
  <2>1. ASSUME NEW i \in 1 .. n
        PROVE  h[i] = Compared(h[i - 1], cmd)[n - i]
    <3>1. i - 1 \in 0 .. n
      OBVIOUS
    <3>2. h[i - 1] \in S /\ h[i] = step[<<i, h[i - 1]>>]
      <4> HIDE DEF S, step
      <4> QED BY <1>4, <3>1 DEF Runs
    <3>3. <<i, h[i - 1]>> \in (1 .. n) \X S
      BY <3>2
    <3> QED BY <3>2, <3>3
  <2>2. h \in [0 .. n -> S] /\ h[0] = s
    BY <1>4 DEF Runs
  <2> HIDE DEF S, step
  <2> QED BY <2>1, <2>2
<1>6. Passes(s, cmd) =
        [i \in 0 .. n |->
           IF i = 0 THEN s ELSE Compared(Passes(s, cmd)[i - 1], cmd)[n - i]]
  BY <1>1, <1>5 DEF Passes
<1>7. 0 \in 0 .. n /\ \A i \in 1 .. n : i \in 0 .. n /\ i # 0
  OBVIOUS
<1> QED BY <1>1, <1>6, <1>7

(* bubbleSort sorts: for every array, and by name or grade, up or down, it *)
(* returns the same elements, each in one place, no one greater than its   *)
(* successor, after n passes each of which stops one element earlier.      *)
THEOREM BubbleSorts ==
  ASSUME NEW s \in Seq(Items), NEW cmd
  PROVE  LET t == BubbleSort(s, cmd)
         IN  /\ t \in Seq(Items) /\ Len(t) = Len(s)
             /\ Reordered(t, s, Len(s))
             /\ \A i \in 1 .. Len(s) - 1 : ~Greater(t[i], t[i + 1], cmd)
<1>1. PICK n \in Nat : n = Len(s)
  BY LenProperties
<1> DEFINE u(i) == Passes(s, cmd)[i]
           Done(i) == /\ u(i) \in [1 .. n -> Items] /\ Reordered(u(i), s, n)
                      /\ Settled(u(i), n, i, cmd)
           So == {i \in Nat : i <= n => Done(i)}
<1>2. 0 \in So
  <2>1. u(0) = s /\ s \in [1 .. n -> Items]
    BY <1>1, LenProperties, PassesRun
  <2>2. Settled(s, n, 0, cmd)
    BY DEF Settled
  <2> QED BY <2>1, <2>2, ReorderedSelf
<1>3. ASSUME NEW m \in Nat, m \in So PROVE m + 1 \in So
  <2> SUFFICES ASSUME m + 1 <= n PROVE Done(m + 1)
    OBVIOUS
  <2> DEFINE t == u(m)
  <2>1. /\ t \in [1 .. n -> Items] /\ Reordered(t, s, n)
        /\ Settled(t, n, m, cmd)
    BY <1>3
  <2>2. m + 1 \in 1 .. n /\ (m + 1) - 1 = m
    OBVIOUS
  <2>3. u(m + 1) = Compared(t, cmd)[n - (m + 1)]
    BY <1>1, <2>2, PassesRun
  <2> HIDE DEF t, u
  <2>4. t \in Seq(Items) /\ Len(t) = n
    BY <2>1, IsASeq
  <2>5. /\ u(m + 1) \in [1 .. n -> Items] /\ Reordered(u(m + 1), t, n)
        /\ Settled(u(m + 1), n, m + 1, cmd)
    <3>1. PICK i \in 1 .. Len(t) : i = m + 1
      BY <2>2, <2>4
    <3>2. Settled(t, Len(t), i - 1, cmd)
      BY <2>1, <2>2, <2>4, <3>1
    <3>3. LET v == Compared(t, cmd)[Len(t) - i]
          IN  /\ v \in [1 .. Len(t) -> Items] /\ Reordered(v, t, Len(t))
              /\ Settled(v, Len(t), i, cmd)
      BY <2>4, <3>1, <3>2, PassSettles
    <3> QED BY <2>3, <2>4, <3>1, <3>3
  <2> QED BY <2>1, <2>5, ReorderedTwice
<1> HIDE DEF So
<1>4. n \in So
  BY <1>2, <1>3, InductionNat
<1>5. Done(n)
  BY <1>4 DEF So
<1> DEFINE t == BubbleSort(s, cmd)
<1>6. t = u(n)
  BY <1>1 DEF BubbleSort
<1> HIDE DEF u, t
<1>7. t \in Seq(Items) /\ Len(t) = n
  BY <1>5, <1>6, IsASeq
<1>8. ASSUME NEW i \in 1 .. n - 1 PROVE ~Greater(t[i], t[i + 1], cmd)
  BY <1>5, <1>6 DEF Settled
<1> QED BY <1>1, <1>5, <1>6, <1>7, <1>8 DEF t

(* In another order, everything has as many places as before.              *)
LEMMA ReorderedPlaces ==
  ASSUME NEW n \in Nat, NEW s, NEW t, DOMAIN s = 1 .. n, DOMAIN t = 1 .. n,
         Reordered(t, s, n)
  PROVE  SamePlaces(t, s)
<1>1. PICK f \in Orders(n) : \A i \in 1 .. n : t[i] = s[f[i]]
  BY DEF Reordered
<1>2. /\ \A i \in 1 .. n : f[i] \in 1 .. n
      /\ \A i, j \in 1 .. n : f[i] = f[j] => i = j
      /\ \A k \in 1 .. n : \E i \in 1 .. n : f[i] = k
  BY DEF Orders
<1>3. ASSUME NEW e
      PROVE  Cardinality({k \in DOMAIN t : t[k] = e})
               = Cardinality({k \in DOMAIN s : s[k] = e})
  <2> DEFINE A == {k \in DOMAIN t : t[k] = e}
             B == {k \in DOMAIN s : s[k] = e}
             g == [k \in A |-> f[k]]
  <2>1. IsFiniteSet(A)
    <3>1. IsFiniteSet(1 .. n) /\ A \subseteq 1 .. n
      BY FS_Interval
    <3> QED BY <3>1, FS_Subset
  <2>2. g \in [A -> B]
    BY <1>1, <1>2
  <2>3. \A i, j \in A : g[i] = g[j] => i = j
    BY <1>2
  <2>4. ASSUME NEW k \in B PROVE \E i \in A : g[i] = k
    <3>1. k \in 1 .. n /\ s[k] = e
      OBVIOUS
    <3>2. PICK i \in 1 .. n : f[i] = k
      BY <1>2, <3>1
    <3>3. i \in A
      BY <1>1, <3>1, <3>2
    <3>4. g[i] = k
      BY <3>2, <3>3
    <3> QED BY <3>3, <3>4
  <2> HIDE DEF A, B, g
  <2>5. g \in Bijection(A, B)
    BY <2>2, <2>3, <2>4 DEF Bijection, Injection, Surjection, IsInjective
  <2>6. ExistsBijection(A, B)
    BY <2>5 DEF ExistsBijection
  <2> QED BY <2>1, <2>6, FS_Bijection DEF A, B
<1> QED BY <1>3 DEF SamePlaces

(* An element without what follows its name; the elements that are made of *)
(* entries are these.                                                      *)
Stripped(t) ==
  [i \in DOMAIN t |-> [name |-> t[i].name, grade |-> t[i].grade]]
LEMMA StrippedReordered ==
  ASSUME NEW s \in Seq(Items), NEW t \in Seq(Items), Len(t) = Len(s),
         Reordered(t, s, Len(s))
  PROVE  SamePlaces(Stripped(t), Stripped(s))
<1>1. PICK n \in Nat : n = Len(s) /\ DOMAIN s = 1 .. n /\ DOMAIN t = 1 .. n
  BY LenProperties
<1>2. PICK f \in Orders(n) : \A i \in 1 .. n : t[i] = s[f[i]]
  BY <1>1 DEF Reordered
<1>3. \A i \in 1 .. n : f[i] \in 1 .. n
  BY DEF Orders
<1>4. \A i \in 1 .. n : Stripped(t)[i] = Stripped(s)[f[i]]
  BY <1>1, <1>2, <1>3 DEF Stripped
<1>5. DOMAIN Stripped(s) = 1 .. n /\ DOMAIN Stripped(t) = 1 .. n
  BY <1>1 DEF Stripped
<1>6. Reordered(Stripped(t), Stripped(s), n)
  BY <1>4 DEF Reordered
<1> QED BY <1>5, <1>6, ReorderedPlaces

LEMMA ElementsStripped ==
  ASSUME NEW s \in Seq(Entries), NEW t \in Elements(s)
  PROVE  /\ t \in Seq(Items) /\ Len(t) = Len(s)
         /\ Stripped(t) = s
<1>1. PICK n \in Nat : n = Len(s) /\ s \in [1 .. n -> Entries]
  BY LenProperties
<1>2. PICK dirty \in SUBSET (1 .. n) :
        t = [i \in 1 .. n |-> [name |-> s[i].name, grade |-> s[i].grade,
                               rest |-> IF i \in dirty THEN 1 ELSE 0]]
  BY <1>1 DEF Elements
<1>3. t \in [1 .. n -> Items]
  BY <1>1, <1>2 DEF Items, Entries
<1>4. t \in Seq(Items) /\ Len(t) = n
  BY <1>3, IsASeq
<1>5. \A i \in 1 .. n :
        [name |-> t[i].name, grade |-> t[i].grade] = s[i]
  BY <1>1, <1>2 DEF Entries
<1>6. Stripped(t) = s
  BY <1>1, <1>3, <1>5 DEF Stripped
<1> QED BY <1>1, <1>4, <1>6

(* The entries that are sorted.                                            *)
LEMMA FirstSortableRuns ==
  ASSUME NEW s \in Seq(Entries)
  PROVE  LET f == FirstSortable(s)
         IN  /\ f[0] = <<>>
             /\ \A n \in 1 .. Len(s) :
                  f[n] = IF s[n].name \in LongNames THEN f[n - 1]
                         ELSE Append(f[n - 1], s[n])
             /\ \A n \in 0 .. Len(s) : f[n] \in Seq(Entries)
<1>1. PICK last \in Nat : last = Len(s) /\ s \in [1 .. last -> Entries]
  BY LenProperties
<1> DEFINE S == Seq(Entries)
           Takes(t, n) ==
             IF s[n].name \in LongNames THEN t ELSE Append(t, s[n])
           step == [x \in (1 .. last) \X S |-> Takes(x[2], x[1])]
<1>2. <<>> \in S
  OBVIOUS
<1>3. step \in [(1 .. last) \X S -> S]
  <2>1. ASSUME NEW x \in (1 .. last) \X S PROVE Takes(x[2], x[1]) \in S
    <3>1. x[1] \in 1 .. last /\ x[2] \in S /\ s[x[1]] \in Entries
      BY <1>1
    <3> QED BY <3>1, AppendProperties
  <2> QED BY <2>1
<1>4. PICK h : Runs(h, last, S, <<>>, step)
  <2> HIDE DEF step, S
  <2> QED BY <1>2, <1>3, Recursion
<1>5. ASSUME NEW n \in 1 .. last
      PROVE  h[n] = Takes(h[n - 1], n)
  <2>1. n - 1 \in 0 .. last
    OBVIOUS
  <2>2. h[n - 1] \in S /\ h[n] = step[<<n, h[n - 1]>>]
    <3> HIDE DEF S, step
    <3> QED BY <1>4, <2>1 DEF Runs
  <2>3. <<n, h[n - 1]>> \in (1 .. last) \X S
    BY <2>2
  <2> QED BY <2>2, <2>3
<1>6. h \in [0 .. last -> S] /\ h[0] = <<>>
  <2> HIDE DEF S, step
  <2> QED BY <1>4 DEF Runs
<1>7. h = [n \in 0 .. last |-> IF n = 0 THEN <<>> ELSE Takes(h[n - 1], n)]
  <2> HIDE DEF S, step, Takes
  <2> QED BY <1>5, <1>6
<1> DEFINE f == FirstSortable(s)
<1>8. f = [n \in 0 .. last |-> IF n = 0 THEN <<>> ELSE Takes(f[n - 1], n)]
  BY <1>1, <1>7 DEF FirstSortable
<1> HIDE DEF f
<1>9. 0 \in 0 .. last /\ \A n \in 1 .. last : n \in 0 .. last /\ n # 0
  OBVIOUS
<1>10. f[0] = <<>> /\ \A n \in 1 .. last : f[n] = Takes(f[n - 1], n)
  <2> HIDE DEF Takes
  <2> QED BY <1>8, <1>9
<1> DEFINE So == {n \in Nat : n <= last => f[n] \in S}
<1>11. 0 \in So
  BY <1>2, <1>10
<1>12. ASSUME NEW n \in Nat, n \in So PROVE n + 1 \in So
  <2> SUFFICES ASSUME n + 1 <= last PROVE f[n + 1] \in S
    OBVIOUS
  <2>1. f[n] \in S /\ n + 1 \in 1 .. last /\ (n + 1) - 1 = n
    BY <1>12
  <2>2. f[n + 1] = Takes(f[n], n + 1)
    BY <1>10, <2>1
  <2> QED BY <1>1, <2>1, <2>2, AppendProperties
<1>13. Nat \subseteq So
  <2> HIDE DEF So
  <2> QED BY <1>11, <1>12, InductionNat
<1> QED BY <1>1, <1>10, <1>13 DEF f

LEMMA AppendedLater ==
  \A s, t \in Seq(Entries), e \in Entries :
    Append(s \o t, e) = s \o Append(t, e)
<1> SUFFICES ASSUME NEW s \in Seq(Entries), NEW t \in Seq(Entries),
                    NEW e \in Entries
             PROVE  Append(s \o t, e) = s \o Append(t, e)
  OBVIOUS
<1>1. <<e>> \in Seq(Entries) /\ s \o t \in Seq(Entries)
  BY ConcatProperties
<1>2. Append(t, e) = t \o <<e>>
  BY AppendIsConcat
<1>3. Append(s \o t, e) = (s \o t) \o <<e>>
  BY <1>1, AppendIsConcat
<1>4. (s \o t) \o <<e>> = s \o (t \o <<e>>)
  BY <1>1, ConcatAssociative
<1> QED BY <1>2, <1>3, <1>4

LEMMA SortableMore ==
  ASSUME NEW s \in Seq(Entries), NEW t \in Seq(Entries)
  PROVE  /\ Sortable(s) \in Seq(Entries) /\ Sortable(t) \in Seq(Entries)
         /\ Sortable(s \o t) = Sortable(s) \o Sortable(t)
<1>1. PICK m \in Nat : m = Len(s)
  BY LenProperties
<1>2. PICK n \in Nat : n = Len(t)
  BY LenProperties
<1>3. /\ s \o t \in Seq(Entries) /\ Len(s \o t) = m + n
      /\ \A k \in 1 .. m : (s \o t)[k] = s[k]
      /\ \A k \in 1 .. n : (s \o t)[m + k] = t[k]
  BY <1>1, <1>2, ConcatProperties
<1> DEFINE f == FirstSortable(s)
           g == FirstSortable(t)
           h == FirstSortable(s \o t)
<1>4. /\ f[0] = <<>> /\ \A k \in 0 .. m : f[k] \in Seq(Entries)
      /\ \A k \in 1 .. m : f[k] = IF s[k].name \in LongNames THEN f[k - 1]
                                  ELSE Append(f[k - 1], s[k])
  BY <1>1, FirstSortableRuns
<1>5. /\ g[0] = <<>> /\ \A k \in 0 .. n : g[k] \in Seq(Entries)
      /\ \A k \in 1 .. n : g[k] = IF t[k].name \in LongNames THEN g[k - 1]
                                  ELSE Append(g[k - 1], t[k])
  BY <1>2, FirstSortableRuns
<1>6. /\ h[0] = <<>>
      /\ \A k \in 1 .. m + n :
           h[k] = IF (s \o t)[k].name \in LongNames THEN h[k - 1]
                  ELSE Append(h[k - 1], (s \o t)[k])
  BY <1>3, FirstSortableRuns
<1> HIDE DEF f, g, h
<1> DEFINE So == {k \in Nat : k <= m => h[k] = f[k]}
           Joined(k) == h[m + k] = f[m] \o g[k]
           Later == {k \in Nat : k <= n => Joined(k)}
<1>7. Nat \subseteq So
  <2>1. 0 \in So
    BY <1>4, <1>6
  <2>2. ASSUME NEW k \in Nat, k \in So PROVE k + 1 \in So
    <3> SUFFICES ASSUME k + 1 <= m PROVE h[k + 1] = f[k + 1]
      OBVIOUS
    <3>1. /\ h[k] = f[k] /\ k + 1 \in 1 .. m /\ k + 1 \in 1 .. m + n
          /\ (k + 1) - 1 = k
      BY <2>2
    <3>2. (s \o t)[k + 1] = s[k + 1]
      BY <1>3, <3>1
    <3>3. PICK j \in 1 .. m : j = k + 1
      BY <3>1
    <3>4. h[j] = f[j]
      BY <1>4, <1>6, <3>1, <3>2, <3>3
    <3> QED BY <3>3, <3>4
  <2> HIDE DEF So
  <2> QED BY <2>1, <2>2, InductionNat
<1>8. Joined(0)
  <2>1. h[m] = f[m] /\ m + 0 = m /\ f[m] \in Seq(Entries)
    BY <1>4, <1>7
  <2>2. f[m] \o <<>> = f[m]
    BY <2>1, ConcatEmptySeq
  <2> QED BY <1>5, <2>1, <2>2
<1>9. ASSUME NEW k \in Nat, k + 1 <= n, Joined(k) PROVE Joined(k + 1)
  <2>1. PICK j \in 1 .. n : j = k + 1 /\ j - 1 = k
    BY <1>9
  <2>2. PICK i \in 1 .. m + n : i = m + j /\ i - 1 = m + k
    BY <2>1
  <2>3. (s \o t)[i] = t[j] /\ t[j] \in Entries
    BY <1>2, <1>3, <2>2, ElementOfSeq
  <2>4. f[m] \in Seq(Entries) /\ g[k] \in Seq(Entries)
    BY <1>4, <1>5, <2>1
  <2>5. h[i] = IF t[j].name \in LongNames THEN h[m + k]
               ELSE Append(h[m + k], t[j])
    BY <1>6, <2>2, <2>3
  <2>6. g[j] = IF t[j].name \in LongNames THEN g[k] ELSE Append(g[k], t[j])
    BY <1>5, <2>1
  <2>7. Append(f[m] \o g[k], t[j]) = f[m] \o Append(g[k], t[j])
    BY <2>3, <2>4, AppendedLater, Zenon
  <2>8. h[m + k] = f[m] \o g[k]
    BY <1>9
  <2>9. h[i] = f[m] \o g[j]
    BY <2>5, <2>6, <2>7, <2>8
  <2> QED BY <2>1, <2>2, <2>9
<1>10. n \in Later
  <2> HIDE DEF Joined
  <2>1. 0 \in Later /\ \A k \in Nat : k \in Later => k + 1 \in Later
    BY <1>8, <1>9
  <2> HIDE DEF Later
  <2> QED BY <2>1, InductionNat
<1>11. Joined(n)
  <2> HIDE DEF Joined
  <2> QED BY <1>10
<1>12. h[m + n] = f[m] \o g[n] /\ f[m] \in Seq(Entries) /\ g[n] \in Seq(Entries)
  BY <1>4, <1>5, <1>11
<1> QED BY <1>1, <1>2, <1>3, <1>12 DEF Sortable, f, g, h

-----------------------------------------------------------------------------
(* The invariant of the listings.  Of the first n entries of s, out has    *)
(* those that are lines start .. end - 1, from 0.                          *)
Over(m, n) == IF m > n THEN m - n ELSE 0
From(start) == Over(start, 0)
Span(start, end, n) == Over(Least(end, n), From(start))
Taken(s, out, start, end, n) ==
  /\ out \in Seq(Entries) /\ Len(out) = Span(start, end, n)
  /\ \A k \in 1 .. Len(out) : out[k] = s[From(start) + k]

(* What a process has collected in out at the command cmd, when it has     *)
(* read n entries of the file s, which had at of them when it was opened.  *)
(* A page is said nothing of once a line was cut, and the first entries    *)
(* are followed by junk when the first read has not brought all of them.   *)
Reader(p) ==
  [cmd |-> job[p], at |-> base[p], n |-> offset[p], lines |-> lineCount[p],
   cut |-> cut[p], out |-> buf[p]]
Outputs == Entries \cup {Junk}
Start(cmd) == (cmd.page - 1) * cmd.num
End(cmd) == cmd.page * cmd.num
Collected(s, r) ==
  /\ r.at <= Len(s) /\ r.n <= Len(s)
  /\ r.cmd.op = "showAll" => Taken(s, r.out, 0, r.n, r.n)
  /\ r.cmd.op = "listSome" /\ r.cut = {} =>
       r.lines = r.n /\ Taken(s, r.out, Start(r.cmd), End(r.cmd), r.n)
  /\ r.cmd.op = "listGrades" =>
       \/ r.n = 0 /\ r.lines = 0 /\ r.out = <<>>
       \/ r.out \in Seq(Outputs) /\ Junk \in ToSet(r.out)
  /\ r.cmd.op = "sortAll" =>
       /\ r.out \in Seq(Items) /\ Len(r.out) < MaxElements
       /\ Stripped(r.out) = Sortable(SubSeq(s, 1, r.n))
Listed(r, s) ==
  Whole(r) =>
    \E n \in r.base .. Len(s) : Right(r.cmd, r.output, SubSeq(s, 1, n))
ListInv ==
  /\ Types /\ offset \in [Procs -> Nat] /\ base \in [Procs -> Nat]
  /\ lineCount \in [Procs -> Nat]
  /\ cut = [p \in Procs |-> cut[p]] /\ buf = [p \in Procs |-> buf[p]]
  /\ \A p \in Procs : pc[p] = "work" => Collected(file, Reader(p))
  /\ \A r \in printed : r.base \in Nat /\ Listed(r, file)

(* A part of a sequence.                                                   *)
LEMMA PartOfSeq ==
  ASSUME NEW S, NEW s \in Seq(S), NEW a \in Nat, NEW b \in Int, b <= Len(s),
         NEW m, m = a + 1, NEW t, t = SubSeq(s, m, b)
  PROVE  /\ t \in Seq(S) /\ (b > a => Len(t) = b - a)
         /\ b <= a => Len(t) = 0
         /\ \A k \in 1 .. Len(t) : t[k] = s[a + k]
<1>1. m \in Nat \ {0} /\ Len(s) \in Nat
  BY LenProperties
<1>2. \A i \in m .. b : s[i] \in S
  BY <1>1, ElementOfSeq
<1>3. /\ SubSeq(s, m, b) \in Seq(S)
      /\ Len(SubSeq(s, m, b)) = IF m <= b THEN b - m + 1 ELSE 0
      /\ \A i \in 1 .. b - m + 1 : SubSeq(s, m, b)[i] = s[m + i - 1]
  BY <1>1, <1>2, SubSeqProperties
<1>4. (b > a => Len(t) = b - a) /\ (b <= a => Len(t) = 0)
  BY <1>3
<1>5. \A k \in 1 .. Len(t) : k \in 1 .. b - m + 1 /\ m + k - 1 = a + k
  BY <1>1, <1>4
<1> QED BY <1>3, <1>4, <1>5

LEMMA SpanNat ==
  ASSUME NEW start \in Int, NEW end \in Int, NEW n \in Nat
  PROVE  From(start) \in Nat /\ Span(start, end, n) \in Nat
<1>1. PICK from \in Nat : from = From(start)
  BY DEF From, Over
<1>2. PICK last \in Int : last = Least(end, n)
  BY DEF Least
<1> QED BY <1>1, <1>2 DEF Span, Over

(* What the next read takes.                                               *)
LEMMA LinesAre ==
  ASSUME file \in Seq(Entries), NEW p, offset[p] \in Nat,
         offset[p] <= Len(file)
  PROVE  /\ Lines(p) \in Seq(Entries) /\ Len(Lines(p)) \in Nat
         /\ offset[p] + Len(Lines(p)) <= Len(file)
         /\ Lines(p) = <<>> <=> Len(Lines(p)) = 0
         /\ Len(Lines(p)) < Buffer => offset[p] + Len(Lines(p)) = Len(file)
         /\ \A k \in 1 .. Len(Lines(p)) : Lines(p)[k] = file[offset[p] + k]
<1> DEFINE last == Least(offset[p] + Buffer, Len(file))
<1>1. PICK m \in Nat : m = Len(file)
  BY LenProperties
<1>2. PICK o \in Nat : o = offset[p]
  OBVIOUS
<1>3. Buffer \in Nat \ {0}
  BY SizesAssumption
<1>4. /\ last \in Nat /\ o <= last /\ last <= m
      /\ last - o < Buffer => last = m
      /\ last = o => last = m
  BY <1>1, <1>2, <1>3 DEF Least
<1>5. Lines(p) = SubSeq(file, o + 1, last)
  BY <1>2 DEF Lines
<1> HIDE DEF last
<1>6. PICK l : l = Lines(p)
  OBVIOUS
<1>7. /\ l \in Seq(Entries) /\ Len(l) = Over(last, o)
      /\ \A k \in 1 .. Len(l) : l[k] = file[o + k]
  <2>1. PICK m1 : m1 = o + 1
    OBVIOUS
  <2>2. PICK b \in Int : b = last
    BY <1>4
  <2>3. l = SubSeq(file, m1, b) /\ b <= Len(file)
    BY <1>1, <1>4, <1>5, <1>6, <2>1, <2>2
  <2>4. /\ l \in Seq(Entries) /\ (b > o => Len(l) = b - o)
        /\ b <= o => Len(l) = 0
        /\ \A k \in 1 .. Len(l) : l[k] = file[o + k]
    BY ONLY file \in Seq(Entries), <2>1, <2>3, PartOfSeq
  <2> QED BY <1>4, <2>2, <2>4 DEF Over
<1>8. Len(l) = last - o
  BY <1>4, <1>7 DEF Over
<1>9. l = <<>> <=> Len(l) = 0
  BY <1>7, EmptySeq
<1> QED BY <1>1, <1>2, <1>4, <1>6, <1>7, <1>8, <1>9

LEMMA SpanGrows ==
  ASSUME NEW start \in Int, NEW end \in Int, NEW o \in Nat, NEW n \in Nat
  PROVE  /\ Span(start, end, o + n) - Span(start, end, o)
              = Over(Least(end - o, n), Over(start, o))
         /\ Least(end - o, n) > Over(start, o) =>
              From(start) + Span(start, end, o) = o + Over(start, o)
<1> DEFINE skipped == Over(start, o)
           last == Least(end - o, n)
<1>1. PICK x \in Int : x = Least(end, o)
  BY DEF Least
<1>2. PICK y \in Int : y = Least(end, o + n)
  BY DEF Least
<1>3. PICK f \in Nat : f = From(start)
  BY DEF From, Over
<1>4. /\ f = IF start > 0 THEN start ELSE 0
      /\ x = IF end < o THEN end ELSE o
      /\ y = IF end < o + n THEN end ELSE o + n
      /\ last = IF end - o < n THEN end - o ELSE n
  BY <1>1, <1>2, <1>3 DEF From, Least, Over
<1>5. PICK a \in Nat : a = Span(start, end, o)
  BY <1>1, <1>3 DEF Span, Over
<1>6. PICK b \in Nat : b = Span(start, end, o + n)
  BY <1>2, <1>3 DEF Span, Over
<1>7. /\ a = IF x > f THEN x - f ELSE 0
      /\ b = IF y > f THEN y - f ELSE 0
  BY <1>1, <1>2, <1>3, <1>5, <1>6 DEF Span, Over
<1>8. /\ b - a = Over(last, skipped)
      /\ last > skipped => f + a = o + skipped
  BY <1>4, <1>7 DEF Over
<1> QED BY <1>3, <1>5, <1>6, <1>8

(* The lines of a page that one more read brings, of those in the file.    *)
Part(p, start, end) ==
  SubSeq(Lines(p), Over(start, offset[p]) + 1,
         Least(end - offset[p], Len(Lines(p))))
LEMMA PageContinues ==
  ASSUME file \in Seq(Entries), NEW p, offset[p] \in Nat,
         offset[p] <= Len(file), NEW start \in Int, NEW end \in Int,
         NEW out, Taken(file, out, start, end, offset[p])
  PROVE  Taken(file, out \o Part(p, start, end), start, end,
               offset[p] + Len(Lines(p)))
<1>1. PICK o \in Nat : o = offset[p]
  OBVIOUS
<1>2. PICK l \in Seq(Entries) : l = Lines(p)
  BY LinesAre
<1>3. PICK n \in Nat : n = Len(l)
  BY LenProperties
<1>4. \A k \in 1 .. n : l[k] = file[o + k] /\ l[k] \in Entries
  BY <1>1, <1>2, <1>3, LinesAre, ElementOfSeq
<1> DEFINE from == From(start)
           taken == Span(start, end, o)
           more == Span(start, end, o + n) - taken
           skipped == Over(start, o)
           last == Least(end - o, n)
           g == SubSeq(l, skipped + 1, last)
<1>5. /\ more = Over(last, skipped)
      /\ last > skipped => from + taken = o + skipped
  BY SpanGrows
<1>6. from \in Nat /\ taken \in Nat
  BY SpanNat
<1>7. skipped \in Nat /\ last \in Int /\ last <= n
  BY DEF Over, Least
<1>8. Span(start, end, o + n) = taken + more
  <2>1. PICK m \in Nat : m = o + n
    OBVIOUS
  <2>2. Span(start, end, m) \in Nat
    BY SpanNat
  <2> QED BY <1>6, <2>1, <2>2
<1>9. g = Part(p, start, end)
  BY <1>1, <1>2, <1>3 DEF Part, Over
<1> HIDE DEF from, taken, more, skipped, last
<1>10. /\ g \in Seq(Entries) /\ Len(g) = Over(last, skipped)
       /\ \A k \in 1 .. Len(g) : g[k] = l[skipped + k]
  <2>1. PICK m : m = skipped + 1
    OBVIOUS
  <2>2. g = SubSeq(l, m, last) /\ last <= Len(l)
    BY <1>3, <1>7, <2>1
  <2> HIDE DEF g
  <2>3. /\ g \in Seq(Entries) /\ (last > skipped => Len(g) = last - skipped)
        /\ last <= skipped => Len(g) = 0
        /\ \A k \in 1 .. Len(g) : g[k] = l[skipped + k]
    BY <1>7, <2>1, <2>2, PartOfSeq
  <2> QED BY <1>7, <2>3 DEF Over
<1> HIDE DEF g
<1>11. more \in Nat /\ Len(g) = more /\ (more > 0 => last > skipped)
  BY <1>5, <1>7, <1>10 DEF Over
<1>12. ASSUME NEW k \in 1 .. more
       PROVE  g[k] = file[(from + taken) + k]
  <2>1. skipped + k \in 1 .. n /\ from + taken = o + skipped
    BY <1>5, <1>7, <1>11 DEF Over
  <2>2. g[k] = l[skipped + k]
    BY <1>11, <1>10
  <2>3. l[skipped + k] = file[o + (skipped + k)]
    BY <1>4, <2>1
  <2>4. o + (skipped + k) = (from + taken) + k
    BY <1>7, <1>11, <2>1
  <2> QED BY <2>2, <2>3, <2>4
<1>13. /\ out \in Seq(Entries) /\ Len(out) = taken
       /\ \A k \in 1 .. taken : out[k] = file[from + k]
  BY <1>1 DEF Taken, taken, from
<1>14. PICK w \in Seq(Entries) : w = out \o g
  BY <1>13, <1>10, ConcatProperties
<1>15. /\ Len(w) = taken + more
       /\ \A k \in 1 .. taken + more :
            w[k] = IF k <= taken THEN out[k] ELSE g[k - taken]
  <2>1. PICK v \in Seq(Entries) : v = out
    BY <1>13
  <2>2. PICK h \in Seq(Entries) : h = g
    BY <1>10
  <2>3. /\ Len(v \o h) = Len(v) + Len(h)
        /\ \A i \in 1 .. Len(v) + Len(h) :
             (v \o h)[i] = IF i <= Len(v) THEN v[i] ELSE h[i - Len(v)]
    BY ConcatProperties
  <2> QED BY <1>11, <1>13, <1>14, <2>1, <2>2, <2>3
<1>16. ASSUME NEW k \in 1 .. taken + more PROVE w[k] = file[from + k]
  <2>1. CASE k <= taken
    BY <1>6, <1>11, <1>13, <1>15, <2>1
  <2>2. CASE ~(k <= taken)
    <3>1. k - taken \in 1 .. more /\ (from + taken) + (k - taken) = from + k
      BY <1>6, <1>11, <2>2
    <3>2. w[k] = g[k - taken]
      BY <1>15, <2>2
    <3>3. g[k - taken] = file[(from + taken) + (k - taken)]
      BY <1>12, <3>1
    <3> QED BY <3>1, <3>2, <3>3
  <2> QED BY <2>1, <2>2
<1>17. Taken(file, w, start, end, o + n)
  BY <1>8, <1>15, <1>16 DEF Taken, from
<1> QED BY <1>1, <1>2, <1>3, <1>14, <1>17, <1>9

(* What has been taken, as a part of the file.                             *)
LEMMA TakenIs ==
  ASSUME file \in Seq(Entries), NEW start \in Nat, NEW end \in Int, NEW out,
         Taken(file, out, start, end, Len(file))
  PROVE  out = SubSeq(file, start + 1, Least(end, Len(file)))
<1>1. PICK m \in Nat : m = Len(file)
  BY LenProperties
<1> DEFINE last == Least(end, m)
<1>2. last \in Int /\ last <= m
  BY <1>1 DEF Least
<1>3. /\ out \in Seq(Entries)
      /\ Len(out) = Over(last, start)
      /\ \A k \in 1 .. Len(out) : out[k] = file[start + k]
  <2>1. From(start) = start
    BY DEF From, Over
  <2> QED BY <1>1, <2>1 DEF Taken, Span
<1> HIDE DEF last
<1>4. PICK t : t = SubSeq(file, start + 1, last)
  OBVIOUS
<1>5. /\ t \in Seq(Entries) /\ Len(t) = Over(last, start)
      /\ \A k \in 1 .. Len(t) : t[k] = file[start + k]
  <2>1. PICK m1 : m1 = start + 1
    OBVIOUS
  <2>2. t = SubSeq(file, m1, last) /\ last <= Len(file)
    BY <1>1, <1>2, <1>4, <2>1
  <2>3. /\ t \in Seq(Entries) /\ (last > start => Len(t) = last - start)
        /\ last <= start => Len(t) = 0
        /\ \A k \in 1 .. Len(t) : t[k] = file[start + k]
    BY <1>2, <2>1, <2>2, PartOfSeq
  <2> QED BY <1>2, <2>3 DEF Over
<1>6. out = t
  BY <1>3, <1>5, SeqEqual
<1> QED BY <1>1, <1>4, <1>6 DEF last

(* A command that lists a page.                                            *)
LEMMA ListSomeCommand ==
  ASSUME NEW cmd \in Commands \cup {NoJob}, cmd.op = "listSome"
  PROVE  cmd.num \in Int /\ cmd.page \in Int
<1>1. cmd \in Commands
  BY DEF NoJob
<1> QED BY <1>1 DEF Commands

(* What is taken of the first lines is what is taken of them when the      *)
(* file has grown.                                                         *)
LEMMA TakenKept ==
  ASSUME NEW s, NEW t, NEW n \in Nat, \A k \in 1 .. n : t[k] = s[k],
         NEW start \in Int, NEW end \in Int, NEW out,
         Taken(s, out, start, end, n)
  PROVE  Taken(t, out, start, end, n)
<1>1. PICK from \in Nat : from = From(start)
  BY SpanNat
<1>2. PICK m \in Nat : m = Span(start, end, n)
  BY SpanNat
<1>3. \A k \in 1 .. m : from + k \in 1 .. n
  BY <1>1, <1>2 DEF Span, Over, Least
<1>4. /\ out \in Seq(Entries) /\ Len(out) = m
      /\ \A k \in 1 .. m : out[k] = s[from + k]
  BY <1>1, <1>2 DEF Taken
<1>5. \A k \in 1 .. m : out[k] = t[from + k]
  BY <1>3, <1>4
<1> QED BY <1>1, <1>2, <1>4, <1>5 DEF Taken

(* A beginning of a sequence.                                              *)
LEMMA Beginning ==
  ASSUME NEW S, NEW s \in Seq(S), NEW n \in Nat, n <= Len(s)
  PROVE  /\ SubSeq(s, 1, n) \in Seq(S) /\ Len(SubSeq(s, 1, n)) = n
         /\ \A k \in 1 .. n : SubSeq(s, 1, n)[k] = s[k]
<1>1. \A i \in 1 .. n : s[i] \in S
  BY ElementOfSeq, LenProperties
<1>2. PICK t : t = SubSeq(s, 1, n)
  OBVIOUS
<1>3. /\ t \in Seq(S) /\ Len(t) = IF 1 <= n THEN n - 1 + 1 ELSE 0
      /\ \A i \in 1 .. n - 1 + 1 : t[i] = s[1 + i - 1]
  BY <1>1, <1>2, SubSeqProperties
<1>4. Len(t) = n /\ \A k \in 1 .. n : t[k] = s[k]
  BY <1>3
<1> QED BY <1>2, <1>3, <1>4

LEMMA BeginningKept ==
  ASSUME NEW S, NEW s \in Seq(S), NEW t \in Seq(S), NEW n \in Nat,
         n <= Len(s), n <= Len(t), \A k \in 1 .. n : t[k] = s[k]
  PROVE  SubSeq(t, 1, n) = SubSeq(s, 1, n)
<1>1. /\ SubSeq(s, 1, n) \in Seq(S) /\ Len(SubSeq(s, 1, n)) = n
      /\ \A k \in 1 .. n : SubSeq(s, 1, n)[k] = s[k]
  BY Beginning
<1>2. /\ SubSeq(t, 1, n) \in Seq(S) /\ Len(SubSeq(t, 1, n)) = n
      /\ \A k \in 1 .. n : SubSeq(t, 1, n)[k] = t[k]
  BY Beginning
<1>3. PICK u \in Seq(S) : /\ u = SubSeq(s, 1, n) /\ Len(u) = n
                          /\ \A k \in 1 .. n : u[k] = s[k]
  BY <1>1
<1>4. PICK v \in Seq(S) : /\ v = SubSeq(t, 1, n) /\ Len(v) = n
                          /\ \A k \in 1 .. n : v[k] = t[k]
  BY <1>2
<1>5. u = v
  BY <1>3, <1>4, SeqEqual
<1> QED BY <1>3, <1>4, <1>5

LEMMA CollectedKept ==
  ASSUME NEW s \in Seq(Entries), NEW t \in Seq(Entries), Len(s) <= Len(t),
         \A k \in 1 .. Len(s) : t[k] = s[k],
         NEW r, r.cmd \in Commands \cup {NoJob}, r.n \in Nat, r.at \in Nat,
         Collected(s, r)
  PROVE  Collected(t, r)
<1> DEFINE cmd == r.cmd
           out == r.out
           n == r.n
           at == r.at
<1>1. Len(s) \in Nat /\ Len(t) \in Nat /\ n <= Len(s) /\ at <= Len(s)
  BY LenProperties DEF Collected
<1>2. at <= Len(t) /\ n <= Len(t) /\ \A k \in 1 .. n : t[k] = s[k]
  BY <1>1
<1>3. ASSUME cmd.op = "showAll" PROVE Taken(t, out, 0, n, n)
  <2>1. PICK m \in Nat : m = n
    OBVIOUS
  <2>2. Taken(s, out, 0, m, m)
    BY <1>3, <2>1 DEF Collected
  <2>3. Taken(t, out, 0, m, m)
    BY <1>2, <2>1, <2>2, TakenKept
  <2> QED BY <2>1, <2>3
<1>4. ASSUME cmd.op = "listSome", r.cut = {}
      PROVE  Taken(t, out, Start(cmd), End(cmd), n)
  <2>1. cmd.num \in Int /\ cmd.page \in Int
    BY <1>4, ListSomeCommand
  <2>2. PICK start \in Int : start = Start(cmd)
    BY <2>1 DEF Start
  <2>3. PICK end \in Int : end = End(cmd)
    BY <2>1 DEF End
  <2>4. Taken(s, out, start, end, n)
    BY <1>4, <2>2, <2>3 DEF Collected
  <2>5. Taken(t, out, start, end, n)
    BY <1>2, <2>4, TakenKept
  <2> QED BY <2>2, <2>3, <2>5
<1>5. SubSeq(t, 1, n) = SubSeq(s, 1, n)
  BY <1>1, <1>2, BeginningKept
<1> QED BY <1>2, <1>3, <1>4, <1>5 DEF Collected

LEMMA ListedKept ==
  ASSUME NEW s \in Seq(Entries), NEW t \in Seq(Entries), Len(s) <= Len(t),
         \A k \in 1 .. Len(s) : t[k] = s[k],
         NEW r, r.base \in Nat, Listed(r, s)
  PROVE  Listed(r, t)
<1> SUFFICES ASSUME Whole(r)
             PROVE  \E n \in r.base .. Len(t) :
                      Right(r.cmd, r.output, SubSeq(t, 1, n))
  BY DEF Listed
<1>1. Len(s) \in Nat /\ Len(t) \in Nat
  BY LenProperties
<1>2. PICK n \in r.base .. Len(s) : Right(r.cmd, r.output, SubSeq(s, 1, n))
  BY DEF Listed
<1>3. /\ n \in Nat /\ n <= Len(s) /\ n <= Len(t) /\ n \in r.base .. Len(t)
      /\ \A k \in 1 .. n : t[k] = s[k]
  BY <1>1
<1>4. SubSeq(t, 1, n) = SubSeq(s, 1, n)
  BY <1>3, BeginningKept
<1> QED BY <1>2, <1>3, <1>4

LEMMA SamePart ==
  ASSUME NEW s, NEW out, NEW start, NEW end, NEW n, NEW end2, NEW n2,
         Taken(s, out, start, end, n), Least(end, n) = Least(end2, n2)
  PROVE  Taken(s, out, start, end2, n2)
BY DEF Taken, Span

(* showAll lists all there is when a read brings nothing.                  *)
LEMMA AllListed ==
  ASSUME file \in Seq(Entries), NEW p, offset[p] \in Nat,
         job[p].op = "showAll", Collected(file, Reader(p))
  PROVE  /\ Lines(p) = <<>> => Right(job[p], buf[p], file)
         /\ offset[p] + Len(Lines(p)) <= Len(file)
         /\ Taken(file, buf[p] \o Lines(p), 0, offset[p] + Len(Lines(p)),
                  offset[p] + Len(Lines(p)))
<1>1. PICK o \in Nat : o = offset[p]
  OBVIOUS
<1>2. PICK m \in Nat : m = Len(file)
  BY LenProperties
<1>3. o <= m /\ Taken(file, buf[p], 0, o, o)
  BY <1>1, <1>2 DEF Collected, Reader
<1>4. PICK l \in Seq(Entries) : l = Lines(p)
  BY <1>1, <1>2, <1>3, LinesAre
<1>5. PICK n \in Nat : n = Len(l)
  BY LenProperties
<1>6. /\ o + n <= m /\ (l = <<>> <=> n = 0) /\ (n < Buffer => o + n = m)
  BY <1>1, <1>2, <1>3, <1>4, <1>5, LinesAre
<1>7. ASSUME l = <<>> PROVE Right(job[p], buf[p], file)
  <2>1. o = m
    BY <1>6, <1>7, SizesAssumption
  <2>2. buf[p] = SubSeq(file, 0 + 1, Least(m, Len(file)))
    BY <1>2, <1>3, <2>1, TakenIs
  <2>3. buf[p] = SubSeq(file, 1, Len(file))
    BY <1>2, <2>2 DEF Least
  <2> QED BY <2>3, SubSeqFull DEF Right
<1>8. Taken(file, buf[p] \o l, 0, o + n, o + n)
  <2>1. Least(o, o) = Least(o + n, o)
    BY DEF Least
  <2>2. Taken(file, buf[p], 0, o + n, o)
    BY <1>3, <2>1, SamePart
  <2>3. PICK e \in Int : e = o + n
    OBVIOUS
  <2>4. Taken(file, buf[p] \o Part(p, 0, e), 0, e, o + n)
    BY <1>1, <1>2, <1>3, <1>4, <1>5, <2>2, <2>3, PageContinues
  <2>5. Part(p, 0, e) = l
    <3>1. Part(p, 0, e) = SubSeq(l, 1, n)
      <4>1. e - o = n /\ Least(n, n) = n /\ Over(0, o) + 1 = 1
        BY <2>3 DEF Least, Over
      <4> QED BY <1>1, <1>4, <1>5, <4>1 DEF Part
    <3> QED BY <1>5, <3>1, SubSeqFull
  <2> QED BY <2>3, <2>4, <2>5
<1> QED BY <1>1, <1>2, <1>4, <1>5, <1>6, <1>7, <1>8

(* listSome lists its page, of the file as it is, when the file or the     *)
(* page has come to its end and no line was cut.                           *)
LEMMA PageBounds ==
  ASSUME NEW page \in Int, NEW num \in Int,
         NEW start, start = (page - 1) * num, NEW end, end = page * num
  PROVE  /\ start \in Int /\ end \in Int
         /\ page >= 1 /\ num >= 1 => start >= 0
         /\ page < 1 \/ num < 1 => end <= start \/ end <= 0
<1>1. start \in Int /\ end \in Int /\ end = start + num
  OBVIOUS
<1>2. ASSUME page >= 1, num >= 1 PROVE start >= 0
  <2>1. PICK i \in Nat : i = page - 1
    BY <1>2
  <2>2. PICK j \in Nat : j = num
    BY <1>2
  <2> QED BY <2>1, <2>2
<1>3. ASSUME page < 1, num >= 1 PROVE end <= 0
  <2>1. PICK i \in Nat : i = 0 - page
    BY <1>3
  <2>2. PICK j \in Nat : j = num
    BY <1>3
  <2>3. i * j >= 0 /\ end = 0 - i * j
    BY <2>1, <2>2
  <2> QED BY <2>3
<1> QED BY <1>1, <1>2, <1>3

LEMMA SomeListed ==
  ASSUME Types, NEW p \in Procs, offset[p] \in Nat, cut[p] = {},
         job[p].op = "listSome", Collected(file, Reader(p))
  PROVE  LET start == (job[p].page - 1) * job[p].num
             end == job[p].page * job[p].num
             output == buf[p] \o Page(p, start, end)
         IN  /\ Lines(p) = <<>> \/ lineCount[p] + Len(Lines(p)) >= end =>
                  Right(job[p], output, file)
             /\ lineCount[p] = offset[p]
             /\ Taken(file, output, start, end, offset[p] + Len(Lines(p)))
<1>1. PICK o \in Nat : o = offset[p]
  OBVIOUS
<1>2. file \in Seq(Entries) /\ job[p] \in Commands \cup {NoJob}
  BY DEF Types
<1>3. PICK m \in Nat : m = Len(file)
  BY <1>2, LenProperties
<1>4. PICK num \in Int : num = job[p].num
  BY <1>2, ListSomeCommand
<1>5. PICK page \in Int : page = job[p].page
  BY <1>2, ListSomeCommand
<1> DEFINE start == (page - 1) * num
           end == page * num
           output == buf[p] \o Page(p, start, end)
<1>6. /\ start \in Int /\ end \in Int
      /\ page >= 1 /\ num >= 1 => start >= 0
      /\ page < 1 \/ num < 1 => end <= start \/ end <= 0
  BY PageBounds
<1>7. /\ start = Start(job[p]) /\ end = End(job[p])
      /\ start = (job[p].page - 1) * job[p].num
      /\ end = job[p].page * job[p].num
  BY <1>4, <1>5 DEF Start, End
<1> HIDE DEF start, end
<1>8. o <= m /\ lineCount[p] = o /\ Taken(file, buf[p], start, end, o)
  BY <1>1, <1>3, <1>7 DEF Collected, Reader
<1>9. PICK l \in Seq(Entries) : l = Lines(p)
  BY <1>1, <1>2, <1>3, <1>8, LinesAre
<1>10. PICK n \in Nat : n = Len(l)
  BY LenProperties
<1>11. /\ o + n <= m /\ (l = <<>> => o + n = m)
  BY <1>1, <1>2, <1>3, <1>8, <1>9, <1>10, LinesAre, SizesAssumption
<1>12. Taken(file, output, start, end, o + n)
  <2>1. Taken(file, buf[p] \o Part(p, start, end), start, end, o + n)
    BY <1>1, <1>2, <1>3, <1>6, <1>8, <1>9, <1>10, PageContinues
  <2>2. Seen(p) = l
    <3>1. Seen(p) = [i \in 1 .. n |-> l[i]]
      BY <1>9, <1>10 DEF Seen
    <3>2. l = [i \in 1 .. n |-> l[i]]
      BY <1>10, LenProperties
    <3> QED BY <3>1, <3>2
  <2>3. Page(p, start, end) = Part(p, start, end)
    BY <1>1, <1>8, <1>9, <2>2 DEF Page, Part, Over
  <2> QED BY <2>1, <2>3
<1> HIDE DEF output
<1>13. ASSUME l = <<>> \/ o + n >= end PROVE Right(job[p], output, file)
  <2>1. Least(end, o + n) = Least(end, m)
    BY <1>6, <1>11, <1>13 DEF Least
  <2>2. Taken(file, output, start, end, m)
    BY <1>12, <2>1, SamePart
  <2>3. CASE page < 1 \/ num < 1
    <3>1. Span(start, end, m) = 0
      <4>1. PICK from \in Nat : /\ from = From(start)
                                /\ from >= start
        BY <1>6 DEF From, Over
      <4>2. PICK last \in Int : last = Least(end, m) /\ last <= end
        BY <1>6 DEF Least
      <4>3. ~(last > from)
        BY <1>6, <2>3, <4>1, <4>2
      <4> QED BY <4>1, <4>2, <4>3 DEF Span, Over
    <3>2. output \in Seq(Entries) /\ Len(output) = 0
      BY <2>2, <3>1 DEF Taken
    <3>3. output = <<>>
      BY <3>2, EmptySeq
    <3> QED BY <1>4, <1>5, <2>3, <3>3 DEF Right
  <2>4. CASE ~(page < 1 \/ num < 1)
    <3>1. start \in Nat
      BY <1>6, <2>4
    <3>2. output = SubSeq(file, start + 1, Least(end, Len(file)))
      BY <1>2, <1>3, <1>6, <2>2, <3>1, TakenIs
    <3> QED BY <1>4, <1>5, <1>7, <2>4, <3>2 DEF Right
  <2> QED BY <2>3, <2>4
<1> QED BY <1>1, <1>7, <1>8, <1>9, <1>10, <1>12, <1>13 DEF output

(* Output with junk in it.                                                 *)
LEMMA JunkStays ==
  ASSUME NEW s \in Seq(Outputs), NEW t \in Seq(Outputs),
         Junk \in ToSet(s) \/ Junk \in ToSet(t)
  PROVE  s \o t \in Seq(Outputs) /\ Junk \in ToSet(s \o t)
<1>1. PICK m \in Nat : m = Len(s) /\ DOMAIN s = 1 .. m
  BY LenProperties
<1>2. PICK n \in Nat : n = Len(t) /\ DOMAIN t = 1 .. n
  BY LenProperties
<1>3. PICK u \in Seq(Outputs) :
        /\ u = s \o t /\ Len(u) = m + n
        /\ \A k \in 1 .. m + n : u[k] = IF k <= m THEN s[k] ELSE t[k - m]
  <2>1. /\ s \o t \in Seq(Outputs) /\ Len(s \o t) = Len(s) + Len(t)
        /\ \A k \in 1 .. Len(s) + Len(t) :
             (s \o t)[k] = IF k <= Len(s) THEN s[k] ELSE t[k - Len(s)]
    BY ConcatProperties
  <2> QED BY <1>1, <1>2, <2>1
<1>4. DOMAIN u = 1 .. m + n
  BY <1>3, LenProperties
<1>5. CASE Junk \in ToSet(s)
  <2>1. PICK k \in 1 .. m : Junk = s[k]
    BY <1>1, <1>5 DEF ToSet
  <2>2. k \in 1 .. m + n /\ u[k] = Junk
    BY <1>3, <2>1
  <2> QED BY <1>3, <1>4, <2>2 DEF ToSet
<1>6. CASE Junk \in ToSet(t)
  <2>1. PICK k \in 1 .. n : Junk = t[k]
    BY <1>2, <1>6 DEF ToSet
  <2>2. PICK j \in 1 .. m + n : j = m + k /\ j - m = k /\ ~(j <= m)
    OBVIOUS
  <2>3. u[j] = Junk
    BY <1>3, <2>1, <2>2
  <2> QED BY <1>3, <1>4, <2>3 DEF ToSet
<1> QED BY <1>5, <1>6

LEMMA OnlyJunk ==
  ASSUME NEW n \in Nat \ {0}
  PROVE  LET t == [i \in 1 .. n |-> Junk]
         IN  t \in Seq(Outputs) /\ Junk \in ToSet(t)
<1> DEFINE t == [i \in 1 .. n |-> Junk]
<1>1. t \in [1 .. n -> Outputs] /\ DOMAIN t = 1 .. n
  BY DEF Outputs
<1>2. t \in Seq(Outputs)
  BY <1>1, SeqDef
<1>3. 1 \in 1 .. n /\ t[1] = Junk
  OBVIOUS
<1> QED BY <1>1, <1>2, <1>3 DEF ToSet

(* listGrades lists the first entries of the file as it is, or there is    *)
(* junk in what it lists, and stays there.                                 *)
LEMMA FirstListed ==
  ASSUME file \in Seq(Entries), NEW p, offset[p] \in Nat,
         lineCount[p] \in Nat,
         job[p].op = "listGrades", Collected(file, Reader(p))
  PROVE  LET missing == First - lineCount[p] - Len(Lines(p))
             listed == SubSeq(Lines(p), 1, Least(First - lineCount[p],
                                                 Len(Lines(p))))
         IN  /\ Lines(p) = <<>> \/ missing <= 0 =>
                  \/ Right(job[p], buf[p] \o listed, file)
                  \/ Junk \in ToSet(buf[p] \o listed)
             /\ missing \in Int
             /\ \A n \in Nat \ {0} :
                  LET junk == [i \in 1 .. n |-> Junk]
                      output == buf[p] \o (listed \o junk)
                  IN  /\ output \in Seq(Outputs) /\ Junk \in ToSet(output)
                      /\ output = buf[p] \o listed \o junk
<1>1. PICK o \in Nat : o = offset[p]
  OBVIOUS
<1>2. PICK m \in Nat : m = Len(file)
  BY LenProperties
<1>3. o <= m
  BY <1>1, <1>2 DEF Collected, Reader
<1>4. PICK l \in Seq(Entries) : l = Lines(p)
  BY <1>1, <1>2, <1>3, LinesAre
<1>5. PICK n \in Nat : n = Len(l)
  BY LenProperties
<1>6. PICK c \in Nat : c = o + n
  OBVIOUS
<1>7. /\ c <= m /\ (l = <<>> <=> n = 0) /\ (n < Buffer => c = m)
  BY <1>1, <1>2, <1>3, <1>4, <1>5, <1>6, LinesAre
<1>8. First \in Nat \ {0} /\ Buffer \in Nat \ {0}
  BY SizesAssumption
<1>9. PICK d \in Nat : d = lineCount[p]
  OBVIOUS
<1>10. PICK last \in Int : last = Least(First - d, n) /\ last <= n
  <2>1. PICK left \in Int : left = First - d
    BY <1>8
  <2>2. Least(left, n) \in Int /\ Least(left, n) <= n
    BY DEF Least
  <2> QED BY <2>1, <2>2
<1>11. PICK listed \in Seq(Entries) : listed = SubSeq(l, 1, last)
  <2>1. PICK one \in Int : one = 1
    OBVIOUS
  <2>2. \A i \in one .. last : l[i] \in Entries
    BY <1>5, <1>10, <2>1, ElementOfSeq
  <2>3. SubSeq(l, one, last) \in Seq(Entries)
    BY <2>2, SubSeqProperties
  <2> QED BY <2>1, <2>3
<1>12. /\ buf[p] \in Seq(Outputs)
       /\ \/ Junk \in ToSet(buf[p])
          \/ o = 0 /\ d = 0 /\ buf[p] = <<>>
  <2>1. <<>> \in Seq(Outputs)
    BY LenProperties
  <2>2. PICK r : r = Reader(p)
    OBVIOUS
  <2>3. /\ r.cmd = job[p] /\ r.n = o /\ r.lines = d /\ r.out = buf[p]
        /\ Collected(file, r)
    BY <1>1, <1>9, <2>2 DEF Reader
  <2>4. r.cmd.op = "listGrades"
    BY <2>3
  <2> HIDE DEF Reader
  <2>5. \/ r.n = 0 /\ r.lines = 0 /\ r.out = <<>>
        \/ r.out \in Seq(Outputs) /\ Junk \in ToSet(r.out)
    BY ONLY <2>3, <2>4 DEF Collected
  <2> QED BY <2>1, <2>3, <2>5
<1>13. listed \in Seq(Outputs)
  <2>1. PICK one \in Int : one = 1
    OBVIOUS
  <2>2. \A i \in one .. last : l[i] \in Outputs
    BY <1>5, <1>10, <2>1, ElementOfSeq DEF Outputs
  <2>3. SubSeq(l, one, last) \in Seq(Outputs)
    BY <2>2, SubSeqProperties
  <2> QED BY <1>11, <2>1, <2>3
<1>14. ASSUME l = <<>> \/ First - d - n <= 0
       PROVE  \/ Right(job[p], buf[p] \o listed, file)
              \/ Junk \in ToSet(buf[p] \o listed)
  <2>1. CASE Junk \in ToSet(buf[p])
    BY <1>12, <1>13, <2>1, JunkStays
  <2>2. CASE o = 0 /\ d = 0 /\ buf[p] = <<>>
    <3>1. PICK e \in Seq(Entries) : e = <<>> /\ Len(e) = 0
      <4>1. <<>> \in Seq(Entries) /\ Len(<<>>) = 0
        BY LenProperties
      <4> QED BY <4>1
    <3>2. Taken(file, e, 0, First, 0)
      <4>1. Span(0, First, 0) = 0
        <5>1. Least(First, 0) = 0 /\ From(0) = 0
          BY <1>8 DEF Least, From, Over
        <5>2. Span(0, First, 0) = Over(0, 0)
          BY <5>1 DEF Span
        <5> QED BY <5>2 DEF Over
      <4>2. \A k \in 1 .. Len(e) : FALSE
        BY <3>1
      <4> QED BY <3>1, <4>1, <4>2 DEF Taken
    <3>3. Taken(file, <<>> \o Part(p, 0, First), 0, First, c)
      <4>1. PICK start \in Int : start = 0
        OBVIOUS
      <4>2. First \in Int /\ Taken(file, e, start, First, offset[p])
        BY <1>1, <1>8, <2>2, <3>2, <4>1
      <4>3. Taken(file, e \o Part(p, start, First), start, First,
                  offset[p] + Len(Lines(p)))
        BY ONLY file \in Seq(Entries), offset[p] \in Nat, <1>1, <1>2, <1>3,
                <4>2, PageContinues
      <4> QED BY <1>1, <1>4, <1>5, <1>6, <3>1, <4>1, <4>3
    <3>4. Part(p, 0, First) = listed
      <4>1. Over(0, 0) + 1 = 1 /\ First - 0 = First - d
        BY <1>8, <2>2 DEF Over
      <4> QED BY <1>1, <1>4, <1>5, <1>10, <1>11, <2>2, <4>1 DEF Part
    <3>5. Least(First, c) = Least(First, m)
      BY <1>6, <1>7, <1>8, <1>14, <2>2 DEF Least
    <3>6. Taken(file, <<>> \o listed, 0, First, Len(file))
      BY <1>2, <3>3, <3>4, <3>5, SamePart
    <3>7. <<>> \o listed = SubSeq(file, 1, Least(First, Len(file)))
      <4>1. PICK start \in Nat : start = 0
        OBVIOUS
      <4>2. First \in Int /\ Taken(file, <<>> \o listed, start, First,
                                   Len(file))
        BY <1>8, <3>6, <4>1
      <4>3. <<>> \o listed = SubSeq(file, start + 1, Least(First, Len(file)))
        BY ONLY file \in Seq(Entries), <4>2, TakenIs
      <4> QED BY <4>1, <4>3
    <3> QED BY <2>2, <3>7 DEF Right
  <2> QED BY <1>12, <2>1, <2>2
<1>15. ASSUME NEW k \in Nat \ {0}
       PROVE  LET junk == [i \in 1 .. k |-> Junk]
                  output == buf[p] \o (listed \o junk)
              IN  /\ output \in Seq(Outputs) /\ Junk \in ToSet(output)
                  /\ output = buf[p] \o listed \o junk
  <2>1. PICK junk \in Seq(Outputs) :
          junk = [i \in 1 .. k |-> Junk] /\ Junk \in ToSet(junk)
    BY OnlyJunk
  <2>2. listed \o junk \in Seq(Outputs) /\ Junk \in ToSet(listed \o junk)
    BY <1>13, <2>1, JunkStays
  <2>3. /\ buf[p] \o (listed \o junk) \in Seq(Outputs)
        /\ Junk \in ToSet(buf[p] \o (listed \o junk))
    BY <1>12, <2>2, JunkStays
  <2>4. (buf[p] \o listed) \o junk = buf[p] \o (listed \o junk)
    <3>1. PICK x \in Seq(Outputs) : x = buf[p]
      BY <1>12
    <3>2. (x \o listed) \o junk = x \o (listed \o junk)
      BY ONLY x \in Seq(Outputs), <1>13, junk \in Seq(Outputs),
              ConcatAssociative
    <3> QED BY <3>1, <3>2
  <2> QED BY <2>1, <2>3, <2>4
<1>16. First - d - n \in Int
  BY <1>8
<1>17. /\ First - lineCount[p] - Len(Lines(p)) = First - d - n
       /\ SubSeq(Lines(p), 1, Least(First - lineCount[p], Len(Lines(p))))
            = listed
  BY <1>4, <1>5, <1>9, <1>10, <1>11
<1> QED BY <1>4, <1>14, <1>15, <1>16, <1>17

(* searchStudent answers with an entry of the file.                        *)
LEMMA FoundListed ==
  ASSUME file \in Seq(Entries), NEW p, offset[p] \in Nat,
         job[p].op = "searchStudent", offset[p] <= Len(file)
  PROVE  /\ Right(job[p], <<>>, file)
         /\ \A e \in ToSet(Lines(p)) :
              e.name = job[p].name => Right(job[p], <<e>>, file)
<1>1. Right(job[p], <<>>, file)
  BY DEF Right
<1>2. ASSUME NEW e \in ToSet(Lines(p)), e.name = job[p].name
      PROVE  Right(job[p], <<e>>, file)
  <2>1. PICK l \in Seq(Entries) : l = Lines(p)
    BY LinesAre
  <2>2. PICK i \in 1 .. Len(l) : e = l[i]
    BY <1>2, <2>1, LenProperties DEF ToSet
  <2>3. e = file[offset[p] + i] /\ offset[p] + Len(l) <= Len(file)
    BY <2>1, <2>2, LinesAre
  <2>4. offset[p] + i \in 1 .. Len(file)
    BY <2>1, <2>2, <2>3, LenProperties
  <2>5. e \in ToSet(file)
    BY <2>3, <2>4, LenProperties DEF ToSet
  <2>6. <<e>>[1] = e
    OBVIOUS
  <2> QED BY <1>2, <2>5, <2>6 DEF Right
<1> QED BY <1>1, <1>2

(* What has been read so far and one more read.                            *)
LEMMA MoreRead ==
  ASSUME file \in Seq(Entries), NEW p, offset[p] \in Nat,
         offset[p] <= Len(file)
  PROVE  SubSeq(file, 1, offset[p] + Len(Lines(p)))
           = SubSeq(file, 1, offset[p]) \o Lines(p)
<1>1. PICK o \in Nat : o = offset[p]
  OBVIOUS
<1>2. PICK l \in Seq(Entries) : l = Lines(p)
  BY LinesAre
<1>3. PICK n \in Nat : n = Len(l)
  BY LenProperties
<1>4. PICK c \in Nat : c = o + n
  OBVIOUS
<1>5. c <= Len(file) /\ \A k \in 1 .. n : l[k] = file[o + k]
  BY <1>1, <1>2, <1>3, <1>4, LinesAre
<1>6. PICK s \in Seq(Entries) : /\ s = SubSeq(file, 1, o) /\ Len(s) = o
                                /\ \A k \in 1 .. o : s[k] = file[k]
  <2>1. /\ SubSeq(file, 1, o) \in Seq(Entries) /\ Len(SubSeq(file, 1, o)) = o
        /\ \A k \in 1 .. o : SubSeq(file, 1, o)[k] = file[k]
    BY <1>1, Beginning
  <2> QED BY <2>1
<1>7. PICK t \in Seq(Entries) : /\ t = SubSeq(file, 1, c) /\ Len(t) = c
                                /\ \A k \in 1 .. c : t[k] = file[k]
  <2>1. /\ SubSeq(file, 1, c) \in Seq(Entries) /\ Len(SubSeq(file, 1, c)) = c
        /\ \A k \in 1 .. c : SubSeq(file, 1, c)[k] = file[k]
    BY <1>5, Beginning
  <2> QED BY <2>1
<1>8. PICK w \in Seq(Entries) :
        /\ w = s \o l /\ Len(w) = o + n
        /\ \A k \in 1 .. o + n : w[k] = IF k <= o THEN s[k] ELSE l[k - o]
  <2>1. /\ s \o l \in Seq(Entries) /\ Len(s \o l) = Len(s) + Len(l)
        /\ \A k \in 1 .. Len(s) + Len(l) :
             (s \o l)[k] = IF k <= Len(s) THEN s[k] ELSE l[k - Len(s)]
    BY ConcatProperties
  <2>2. Len(s) = o /\ Len(l) = n
    BY <1>3, <1>6
  <2> QED BY <2>1, <2>2
<1>9. ASSUME NEW k \in 1 .. c PROVE w[k] = t[k]
  <2>1. CASE k <= o
    BY <1>4, <1>6, <1>7, <1>8, <2>1
  <2>2. CASE ~(k <= o)
    <3>1. k - o \in 1 .. n /\ o + (k - o) = k
      BY <1>4, <2>2
    <3>2. l[k - o] = file[o + (k - o)]
      BY <1>5, <3>1
    <3> QED BY <1>4, <1>7, <1>8, <2>2, <3>1, <3>2
  <2> QED BY <2>1, <2>2
<1>10. w = t
  BY <1>4, <1>7, <1>8, <1>9, SeqEqual
<1> QED BY <1>1, <1>2, <1>3, <1>4, <1>6, <1>7, <1>8, <1>10

(* Stripped elements.                                                      *)
LEMMA StrippedSeq ==
  ASSUME NEW s \in Seq(Items)
  PROVE  /\ Stripped(s) \in Seq(Entries) /\ Len(Stripped(s)) = Len(s)
         /\ \A k \in 1 .. Len(s) :
              Stripped(s)[k] = [name |-> s[k].name, grade |-> s[k].grade]
<1>1. PICK n \in Nat : n = Len(s) /\ DOMAIN s = 1 .. n
  BY LenProperties
<1>2. \A k \in 1 .. n : s[k] \in Items
  BY <1>1, ElementOfSeq
<1>3. Stripped(s) \in [1 .. n -> Entries]
  BY <1>1, <1>2 DEF Stripped, Items, Entries
<1>4. Stripped(s) \in Seq(Entries) /\ DOMAIN Stripped(s) = 1 .. n
  BY <1>3, SeqDef
<1>5. Len(Stripped(s)) = n
  BY <1>4, LenProperties
<1> QED BY <1>1, <1>4, <1>5 DEF Stripped

LEMMA StrippedConcat ==
  ASSUME NEW s \in Seq(Items), NEW t \in Seq(Items)
  PROVE  Stripped(s \o t) = Stripped(s) \o Stripped(t)
<1>1. PICK m \in Nat : m = Len(s)
  BY LenProperties
<1>2. PICK n \in Nat : n = Len(t)
  BY LenProperties
<1>3. PICK u \in Seq(Items) :
        /\ u = s \o t /\ Len(u) = m + n
        /\ \A k \in 1 .. m + n : u[k] = IF k <= m THEN s[k] ELSE t[k - m]
  <2>1. /\ s \o t \in Seq(Items) /\ Len(s \o t) = Len(s) + Len(t)
        /\ \A k \in 1 .. Len(s) + Len(t) :
             (s \o t)[k] = IF k <= Len(s) THEN s[k] ELSE t[k - Len(s)]
    BY ConcatProperties
  <2> QED BY <1>1, <1>2, <2>1
<1>4. PICK v \in Seq(Entries) : v = Stripped(s) /\ Len(v) = m
  BY <1>1, StrippedSeq
<1>5. PICK w \in Seq(Entries) : w = Stripped(t) /\ Len(w) = n
  BY <1>2, StrippedSeq
<1>6. PICK x \in Seq(Entries) :
        /\ x = v \o w /\ Len(x) = m + n
        /\ \A k \in 1 .. m + n : x[k] = IF k <= m THEN v[k] ELSE w[k - m]
  <2>1. /\ v \o w \in Seq(Entries) /\ Len(v \o w) = Len(v) + Len(w)
        /\ \A k \in 1 .. Len(v) + Len(w) :
             (v \o w)[k] = IF k <= Len(v) THEN v[k] ELSE w[k - Len(v)]
    BY ConcatProperties
  <2> QED BY <1>4, <1>5, <2>1
<1>7. PICK y \in Seq(Entries) :
        /\ y = Stripped(u) /\ Len(y) = m + n
        /\ \A k \in 1 .. m + n :
             y[k] = [name |-> u[k].name, grade |-> u[k].grade]
  <2>1. /\ Stripped(u) \in Seq(Entries) /\ Len(Stripped(u)) = Len(u)
        /\ \A k \in 1 .. Len(u) :
             Stripped(u)[k] = [name |-> u[k].name, grade |-> u[k].grade]
    BY StrippedSeq
  <2> QED BY <1>3, <2>1
<1>8. ASSUME NEW k \in 1 .. m + n PROVE y[k] = x[k]
  <2>1. CASE k <= m
    <3>1. k \in 1 .. m
      BY <2>1
    <3>2. u[k] = s[k] /\ x[k] = v[k]
      BY <1>3, <1>6, <2>1
    <3>3. v[k] = [name |-> s[k].name, grade |-> s[k].grade]
      BY <1>1, <1>4, <3>1, StrippedSeq
    <3> QED BY <1>7, <3>3, <3>2
  <2>2. CASE ~(k <= m)
    <3>1. PICK j \in 1 .. n : j = k - m
      BY <2>2
    <3>2. u[k] = t[j] /\ x[k] = w[j]
      BY <1>3, <1>6, <2>2, <3>1
    <3>3. w[j] = [name |-> t[j].name, grade |-> t[j].grade]
      BY <1>2, <1>5, <3>1, StrippedSeq
    <3> QED BY <1>7, <3>2, <3>3
  <2> QED BY <2>1, <2>2
<1>9. y = x
  BY <1>6, <1>7, <1>8, SeqEqual
<1> QED BY <1>3, <1>4, <1>5, <1>6, <1>7, <1>9

LEMMA StrippedBeginning ==
  ASSUME NEW s \in Seq(Items), NEW n \in Nat, n <= Len(s)
  PROVE  Stripped(SubSeq(s, 1, n)) = SubSeq(Stripped(s), 1, n)
<1>1. PICK t \in Seq(Items) : /\ t = SubSeq(s, 1, n) /\ Len(t) = n
                              /\ \A k \in 1 .. n : t[k] = s[k]
  <2>1. /\ SubSeq(s, 1, n) \in Seq(Items) /\ Len(SubSeq(s, 1, n)) = n
        /\ \A k \in 1 .. n : SubSeq(s, 1, n)[k] = s[k]
    BY Beginning
  <2> QED BY <2>1
<1>2. PICK u \in Seq(Entries) : u = Stripped(s) /\ Len(u) = Len(s)
  BY StrippedSeq
<1>3. PICK v \in Seq(Entries) : v = Stripped(t) /\ Len(v) = n
  BY <1>1, StrippedSeq
<1>4. PICK w \in Seq(Entries) : /\ w = SubSeq(u, 1, n) /\ Len(w) = n
                                /\ \A k \in 1 .. n : w[k] = u[k]
  <2>1. /\ SubSeq(u, 1, n) \in Seq(Entries) /\ Len(SubSeq(u, 1, n)) = n
        /\ \A k \in 1 .. n : SubSeq(u, 1, n)[k] = u[k]
    BY <1>2, Beginning
  <2> QED BY <2>1
<1>5. ASSUME NEW k \in 1 .. n PROVE v[k] = w[k]
  <2>1. k \in 1 .. Len(s) /\ k \in 1 .. Len(t)
    BY <1>1, LenProperties
  <2>2. v[k] = [name |-> t[k].name, grade |-> t[k].grade]
    BY <1>3, <2>1, StrippedSeq
  <2>3. u[k] = [name |-> s[k].name, grade |-> s[k].grade]
    BY <1>2, <2>1, StrippedSeq
  <2> QED BY <1>1, <1>4, <2>2, <2>3
<1>6. v = w
  BY <1>3, <1>4, <1>5, SeqEqual
<1> QED BY <1>1, <1>2, <1>3, <1>4, <1>6

(* sortAll sorts the first entries of the file as it is that it does not   *)
(* pass over.                                                              *)
LEMMA SortedListed ==
  ASSUME file \in Seq(Entries), NEW p, offset[p] \in Nat,
         job[p].op = "sortAll", Collected(file, Reader(p)),
         NEW more \in Elements(Sortable(Lines(p)))
  PROVE  LET elements == Shortened(buf[p] \o more, MaxElements)
         IN  /\ Lines(p) = <<>> \/ Len(elements) = MaxElements =>
                  Right(job[p], BubbleSort(elements, job[p]), file)
             /\ Len(elements) # MaxElements =>
                  /\ buf[p] \o more \in Seq(Items)
                  /\ Len(buf[p] \o more) < MaxElements
                  /\ Stripped(buf[p] \o more)
                       = Sortable(SubSeq(file, 1, offset[p] + Len(Lines(p))))
<1>1. PICK o \in Nat : o = offset[p]
  OBVIOUS
<1>2. PICK m \in Nat : m = Len(file)
  BY LenProperties
<1>3. PICK b \in Seq(Items) : /\ b = buf[p] /\ Len(b) < MaxElements
                              /\ Stripped(b) = Sortable(SubSeq(file, 1, o))
  BY <1>1 DEF Collected, Reader
<1>4. o <= m
  BY <1>1, <1>2 DEF Collected, Reader
<1>5. PICK l \in Seq(Entries) : l = Lines(p)
  BY <1>1, <1>2, <1>4, LinesAre
<1>6. PICK n \in Nat : n = Len(l)
  BY LenProperties
<1>7. PICK c \in Nat : c = o + n
  OBVIOUS
<1>8. c <= m /\ (l = <<>> => c = m)
  BY <1>1, <1>2, <1>4, <1>5, <1>6, <1>7, LinesAre, SizesAssumption
<1>9. MaxElements \in Nat \ {0}
  BY SizesAssumption
(* All that has been read.                                                 *)
<1>10. PICK s \in Seq(Entries) : s = SubSeq(file, 1, o)
  BY <1>1, <1>2, <1>4, Beginning
<1>11. PICK t \in Seq(Entries) : t = SubSeq(file, 1, c) /\ t = s \o l
  <2>1. SubSeq(file, 1, c) \in Seq(Entries)
    BY <1>2, <1>8, Beginning
  <2>2. SubSeq(file, 1, c) = s \o l
    BY <1>1, <1>2, <1>4, <1>5, <1>6, <1>7, <1>10, MoreRead
  <2> QED BY <2>1, <2>2
<1>12. /\ more \in Seq(Items) /\ Stripped(more) = Sortable(l)
  BY <1>5, SortableMore, ElementsStripped
<1>13. PICK all \in Seq(Items) : all = b \o more
  BY <1>12, ConcatProperties
<1>14. Stripped(all) = Sortable(t)
  <2>1. Stripped(all) = Stripped(b) \o Stripped(more)
    BY <1>12, <1>13, StrippedConcat
  <2>2. Sortable(t) = Sortable(s) \o Sortable(l)
    BY <1>11, SortableMore
  <2> QED BY <1>3, <1>10, <1>12, <2>1, <2>2
<1>15. PICK g \in Nat : g = Len(all)
  BY LenProperties
<1>16. PICK u \in Seq(Entries) : u = Stripped(all) /\ Len(u) = g
  BY <1>15, StrippedSeq
(* What is sorted.                                                         *)
<1>17. PICK k \in Nat : k = Least(MaxElements, g) /\ k <= g
  BY <1>9 DEF Least
<1>18. PICK e \in Seq(Items) :
         e = Shortened(all, MaxElements) /\ e = SubSeq(all, 1, k)
         /\ Len(e) = k
  BY <1>15, <1>17, Beginning DEF Shortened
<1>19. Stripped(e) = SubSeq(u, 1, k)
  BY <1>15, <1>16, <1>17, <1>18, StrippedBeginning
(* The whole file.                                                         *)
<1>20. PICK r \in Seq(Entries) : Sortable(file) = u \o r
  <2>1. PICK rest \in Seq(Entries) : file = t \o rest
    <3>1. /\ 1 \in 1 .. Len(file) + 1 /\ c \in 1 - 1 .. Len(file)
          /\ Len(file) \in c .. Len(file)
      BY <1>2, <1>8
    <3>2. SubSeq(file, 1, c) \o SubSeq(file, c + 1, Len(file))
            = SubSeq(file, 1, Len(file))
      BY <3>1, ConcatAdjacentSubSeq
    <3>3. SubSeq(file, c + 1, Len(file)) \in Seq(Entries)
      <4>1. PICK f : f = c + 1
        OBVIOUS
      <4>2. m <= Len(file)
        BY <1>2
      <4>3. SubSeq(file, f, m) \in Seq(Entries)
        BY <4>1, <4>2, PartOfSeq
      <4> QED BY <1>2, <4>1, <4>3
    <3> QED BY <1>11, <3>2, <3>3, SubSeqFull
  <2>2. Sortable(file) = Sortable(t) \o Sortable(rest)
    BY <2>1, SortableMore
  <2>3. Sortable(rest) \in Seq(Entries)
    BY SortableMore
  <2> QED BY <1>14, <1>16, <2>2, <2>3
<1>21. ASSUME l = <<>> \/ Len(e) = MaxElements
       PROVE  Right(job[p], BubbleSort(e, job[p]), file)
  <2>1. Shortened(Sortable(file), MaxElements) = Stripped(e)
    <3>1. CASE l = <<>>
      <4>1. t = file
        BY <1>2, <1>8, <1>11, <3>1, SubSeqFull
      <4>2. Sortable(file) = u
        BY <1>14, <1>16, <4>1
      <4> QED BY <1>16, <1>17, <1>19, <4>2 DEF Shortened
    <3>2. CASE Len(e) = MaxElements
      <4>1. PICK w \in Seq(Entries) :
              /\ w = u \o r /\ Len(w) >= g
              /\ \A i \in 1 .. g : w[i] = u[i]
        <5>1. /\ u \o r \in Seq(Entries) /\ Len(u \o r) = Len(u) + Len(r)
              /\ \A i \in 1 .. Len(u) + Len(r) :
                   (u \o r)[i] = IF i <= Len(u) THEN u[i] ELSE r[i - Len(u)]
          BY ConcatProperties
        <5>2. PICK j \in Nat : j = Len(r)
          BY LenProperties
        <5>3. /\ Len(u \o r) = g + j
              /\ \A i \in 1 .. g + j :
                   (u \o r)[i] = IF i <= g THEN u[i] ELSE r[i - g]
          BY <1>16, <5>1, <5>2
        <5>4. \A i \in 1 .. g : (u \o r)[i] = u[i]
          BY <5>3
        <5>5. Len(u \o r) >= g
          BY <5>3
        <5> QED BY <5>1, <5>4, <5>5
      <4>2. k = MaxElements
        BY <1>18, <3>2
      <4>3. Least(MaxElements, Len(w)) = k
        <5>1. PICK h \in Nat : h = Len(w)
          BY LenProperties
        <5> QED BY <1>9, <1>17, <4>1, <4>2, <5>1 DEF Least
      <4>4. SubSeq(w, 1, k) = SubSeq(u, 1, k)
        <5>1. /\ k <= Len(w) /\ k <= Len(u)
              /\ \A i \in 1 .. k : w[i] = u[i]
          BY <1>16, <1>17, <4>1, LenProperties
        <5> QED BY <5>1, BeginningKept
      <4> QED BY <1>19, <1>20, <4>1, <4>3, <4>4 DEF Shortened
    <3> QED BY <1>21, <3>1, <3>2
  <2>2. PICK x \in Seq(Items) :
          /\ x = BubbleSort(e, job[p]) /\ Len(x) = Len(e)
          /\ Reordered(x, e, Len(e))
          /\ \A i \in 1 .. Len(e) - 1 : ~Greater(x[i], x[i + 1], job[p])
    BY BubbleSorts
  <2>3. SamePlaces(Stripped(x), Shortened(Sortable(file), MaxElements))
    BY <2>1, <2>2, StrippedReordered
  <2>4. SamePlaces([i \in DOMAIN x |-> [name |-> x[i].name,
                                        grade |-> x[i].grade]],
                   Shortened(Sortable(file), MaxElements))
    BY <2>3 DEF Stripped
  <2>5. Right(job[p], x, file)
    BY <2>2, <2>4 DEF Right
  <2> QED BY <2>2, <2>5
<1>22. ASSUME Len(e) # MaxElements
       PROVE  Len(all) < MaxElements
  BY <1>9, <1>15, <1>17, <1>18, <1>22 DEF Least
<1> QED BY <1>1, <1>3, <1>5, <1>6, <1>7, <1>11, <1>13, <1>14, <1>18, <1>21,
           <1>22

-----------------------------------------------------------------------------
(* The types are kept whatever is typed: no entry need be distinct.        *)
LEMMA TypesContinue == Types /\ [Next]_vars => Types'
<1> SUFFICES ASSUME Types, [Next]_vars PROVE Types'
  OBVIOUS
<1>1. CASE UNCHANGED vars
  BY <1>1 DEF vars, fileVars, inputVars, Types, typed
<1>2. ASSUME NEW p \in Procs, ProcStep(p) \/ ReadFails(p)
      PROVE  Types'
  <2> USE DEF Types, Living, Active, Holding
  <2>1. typed \in Seq(Commands) /\ Len(typed) \in Nat /\ next \in Nat \ {0}
    BY Typing
  <2>2. scenario' = scenario => typed' = typed
    BY DEF typed
  <2>3. NoJob \in Commands \cup {NoJob}
    OBVIOUS
  <2>4. CASE ReadCommand(p)
    <3>1. PICK lines \in 1 .. (Len(typed) - next + 1) :
            /\ next' = next + lines /\ heads' = heads \cup {next}
            /\ LET cmd == Understood(next, lines)
               IN  /\ Goto(p, CASE cmd.op \in {"exit", "eof"} -> "ended"
                                [] cmd.op = "blank" -> "read"
                                [] OTHER -> "fork")
                   /\ job' = [job EXCEPT ![p] = IF pc'[p] = "fork" THEN cmd
                                                ELSE NoJob]
      BY <2>4 DEF ReadCommand
    <3>2. PICK cmd : cmd = Understood(next, lines)
      OBVIOUS
    <3>3. cmd \in Commands
      <4>1. typed[next] \in Commands
        BY <2>1, <2>4, ElementOfSeq DEF ReadCommand
      <4>2. [op |-> "invalid"] \in Commands
        BY DEF Commands
      <4> QED BY <3>2, <4>1, <4>2 DEF Understood
    <3>4. pc' \in [Procs -> Living \cup {"none", "spin", "ended"}]
      BY <3>1 DEF Goto
    <3>5. job' \in [Procs -> Commands \cup {NoJob}]
      BY <3>1, <3>2, <3>3
    <3>6. next' \in 1 .. (Len(typed) + 1) /\ heads' \subseteq 1 .. (next' - 1)
      BY <2>1, <2>4, <3>1 DEF ReadCommand
    <3> QED BY <2>2, <2>4, <3>4, <3>5, <3>6 DEF ReadCommand, fileVars
  <2>5. CASE ReadEnd(p) \/ ReadFails(p)
    BY <2>2, <2>5 DEF ReadEnd, ReadFails, Goto, fileVars, inputVars
  <2>6. CASE Fork(p)
    BY <2>2, <2>3, <2>6 DEF Fork, fileVars, inputVars
  <2>7. CASE ForkFails(p) \/ Waitpid(p)
    BY <2>2, <2>3, <2>7 DEF ForkFails, Waitpid, Goto, fileVars, inputVars
  <2>8. CASE Open(p)
    BY <2>2, <2>3, <2>8 DEF Open, Loops, Goto, fileVars, inputVars
  <2>9. CASE AddStudentGrade(p)
    <3>1. job[p].entry \in Entries
      <4>1. job[p] \in Commands \cup {NoJob} /\ IsAdd(job[p])
        BY <2>9 DEF AddStudentGrade, IsAdd
      <4>2. job[p] \in Commands
        BY <4>1 DEF NoJob, IsAdd
      <4> QED BY <4>1, <4>2, AddedEntry
    <3>2. file' \in Seq(Entries)
      BY <2>9, <3>1, AppendProperties DEF AddStudentGrade
    <3> QED BY <2>2, <2>3, <2>9, <3>2
          DEF AddStudentGrade, Loops, Goto, inputVars
  <2>10. CASE CreateFile(p) \/ Usage(p) \/ ForkTester(p)
    BY <2>2, <2>3, <2>10
      DEF CreateFile, Usage, ForkTester, Loops, Goto, fileVars, inputVars
  <2>11. ASSUME NEW op, Listing(p, op),
                UNCHANGED <<pc, job>> \/ Loops(p) \/ Crash(p)
         PROVE  Types'
    BY <2>2, <2>3, <2>11
      DEF Listing, Loops, Crash, Goto, fileVars, inputVars
  <2>12. \A more, lines : ReadOn(p, more, lines) => UNCHANGED <<pc, job>>
    BY DEF ReadOn
  <2>13. \A output : Complete(p, output) => Loops(p)
    BY DEF Complete
  <2>14. CASE ShowAll(p)
    BY <2>11, <2>12, <2>13, <2>14 DEF ShowAll
  <2>15. CASE ListSome(p)
    BY <2>11, <2>12, <2>13, <2>15 DEF ListSome
  <2>16. CASE ListGrades(p)
    BY <2>11, <2>12, <2>13, <2>16 DEF ListGrades
  <2>17. CASE SearchStudent(p)
    BY <2>11, <2>12, <2>13, <2>17 DEF SearchStudent
  <2>18. CASE SortAll(p)
    BY <2>11, <2>12, <2>13, <2>18 DEF SortAll
  <2> QED BY <1>2, <2>4, <2>5, <2>6, <2>7, <2>8, <2>9, <2>10, <2>14, <2>15,
             <2>16, <2>17, <2>18 DEF ProcStep
<1> QED BY <1>1, <1>2 DEF Next

(* A step of p, in which the file grows or stays.                          *)
LEMMA OthersKeep ==
  ASSUME ListInv, Types', NEW p \in Procs, Len(file) <= Len(file'),
         \A k \in 1 .. Len(file) : file'[k] = file[k],
         offset' \in [Procs -> Nat], base' \in [Procs -> Nat],
         lineCount' \in [Procs -> Nat],
         cut' = [q \in Procs |-> cut'[q]], buf' = [q \in Procs |-> buf'[q]],
         \A q \in Procs : q # p /\ pc'[q] = "work" =>
           pc[q] = "work" /\ Reader(q)' = Reader(q),
         pc'[p] = "work" => Collected(file', Reader(p)'),
         \A r \in printed' :
           r \in printed \/ (r.base \in Nat /\ Listed(r, file'))
  PROVE  ListInv'
<1>1. file \in Seq(Entries) /\ file' \in Seq(Entries)
  BY DEF ListInv, Types
<1>2. ASSUME NEW q \in Procs, pc'[q] = "work"
      PROVE  Collected(file', Reader(q)')
  <2>1. CASE q = p
    BY <1>2, <2>1
  <2>2. CASE q # p
    <3>1. PICK r : r = Reader(q)
      OBVIOUS
    <3>2. Collected(file, r)
      BY <1>2, <2>2, <3>1 DEF ListInv
    <3>3. r.cmd \in Commands \cup {NoJob} /\ r.n \in Nat /\ r.at \in Nat
      BY <3>1 DEF ListInv, Types, Reader
    <3>4. Collected(file', r)
      BY <1>1, <3>2, <3>3, CollectedKept
    <3> QED BY <1>2, <2>2, <3>1, <3>4
  <2> QED BY <2>1, <2>2
<1>3. ASSUME NEW r \in printed'
      PROVE  r.base \in Nat /\ Listed(r, file')
  <2>1. CASE r \in printed
    <3>1. r.base \in Nat /\ Listed(r, file)
      BY <2>1 DEF ListInv
    <3>2. Listed(r, file')
      BY <1>1, <3>1, ListedKept
    <3> QED BY <3>1, <3>2
  <2> QED BY <1>3, <2>1
<1> QED BY <1>2, <1>3 DEF ListInv

(* Nothing has been collected when the file has just been opened.          *)
LEMMA NothingCollected ==
  ASSUME NEW s \in Seq(Entries), NEW cmd \in Commands \cup {NoJob},
         NEW r, r.cmd = cmd, r.at = Len(s), r.n = 0, r.lines = 0,
         r.out = <<>>
  PROVE  Collected(s, r)
<1>1. Len(s) \in Nat /\ <<>> \in Seq(Entries) /\ <<>> \in Seq(Items)
      /\ Len(<<>>) = 0
  BY LenProperties
<1>2. First \in Nat \ {0} /\ MaxElements \in Nat \ {0}
  BY SizesAssumption
<1>3. \A start \in Int, end \in Int : Span(start, end, 0) = 0
  <2> SUFFICES ASSUME NEW start \in Int, NEW end \in Int
               PROVE  Span(start, end, 0) = 0
    OBVIOUS
  <2>1. PICK from \in Nat : from = From(start)
    BY SpanNat
  <2>2. PICK last \in Int : last = Least(end, 0) /\ last <= 0
    BY DEF Least
  <2>3. ~(last > from)
    BY <2>2
  <2> QED BY <2>1, <2>2, <2>3 DEF Span, Over
<1>4. \A start \in Int, end \in Int : Taken(s, <<>>, start, end, 0)
  BY <1>1, <1>3 DEF Taken
<1>5. ASSUME cmd.op = "listSome"
      PROVE  Taken(s, <<>>, Start(cmd), End(cmd), 0)
  <2>1. cmd.num \in Int /\ cmd.page \in Int
    BY <1>5, ListSomeCommand
  <2>2. Start(cmd) \in Int /\ End(cmd) \in Int
    BY <2>1 DEF Start, End
  <2> QED BY <1>4, <2>2
<1>6. Stripped(<<>>) = Sortable(SubSeq(s, 1, 0))
  <2>1. SubSeq(s, 1, 0) = <<>>
    BY SubSeqEmpty
  <2>2. Stripped(<<>>) = <<>>
    BY <1>1, StrippedSeq, EmptySeq
  <2>3. Sortable(<<>>) = <<>>
    BY <1>1, FirstSortableRuns DEF Sortable
  <2> QED BY <2>1, <2>2, <2>3
<1> QED BY <1>1, <1>2, <1>4, <1>5, <1>6 DEF Collected

(* Steps that leave the file alone and who reads it.                       *)
LEMMA ReadersKeep ==
  ASSUME ListInv, Types', UNCHANGED file, UNCHANGED readVars,
         \A q \in Procs : pc'[q] = "work" => pc[q] = "work" /\ job'[q] = job[q]
  PROVE  ListInv'
<1>1. \A q \in Procs :
        pc'[q] = "work" => pc[q] = "work" /\ Reader(q)' = Reader(q)
  BY DEF Reader, readVars
<1>2. \A q \in Procs : pc'[q] = "work" => Collected(file', Reader(q)')
  BY <1>1 DEF ListInv
<1> QED BY <1>2 DEF ListInv, readVars

(* One more read, and the end of a listing.                                *)
LEMMA ReadsOn ==
  ASSUME ListInv, Types', NEW p \in Procs, NEW op, Listing(p, op), NEW more,
         NEW lines \in Nat, ReadOn(p, more, lines),
         cut' = [q \in Procs |-> cut'[q]],
         \A q \in Procs : q # p => cut'[q] = cut[q],
         Collected(file, [cmd |-> job[p], at |-> base[p],
                          n |-> offset[p] + Len(Lines(p)),
                          lines |-> lineCount[p] + lines, cut |-> cut'[p],
                          out |-> buf[p] \o more])
  PROVE  ListInv'
<1>1. /\ file' = file /\ pc' = pc /\ job' = job /\ printed' = printed
      /\ base' = base /\ offset' = [offset EXCEPT ![p] = @ + Len(Lines(p))]
      /\ lineCount' = [lineCount EXCEPT ![p] = @ + lines]
      /\ buf' = [buf EXCEPT ![p] = @ \o more]
  BY DEF Listing, ReadOn, fileVars
<1>2. /\ file \in Seq(Entries) /\ offset \in [Procs -> Nat]
      /\ base \in [Procs -> Nat] /\ buf = [q \in Procs |-> buf[q]]
      /\ lineCount \in [Procs -> Nat]
  BY DEF ListInv, Types
<1>3. Len(Lines(p)) \in Nat
  <2>1. offset[p] \in Nat /\ offset[p] <= Len(file)
    BY <1>2 DEF ListInv, Listing, Collected, Reader
  <2> QED BY <1>2, <2>1, LinesAre
<1>4. Len(file) <= Len(file') /\ \A k \in 1 .. Len(file) : file'[k] = file[k]
  BY <1>1, <1>2, LenProperties
<1>5. /\ offset'[p] = offset[p] + Len(Lines(p)) /\ buf'[p] = buf[p] \o more
      /\ lineCount'[p] = lineCount[p] + lines
      /\ \A q \in Procs : q # p =>
           /\ offset'[q] = offset[q] /\ buf'[q] = buf[q]
           /\ lineCount'[q] = lineCount[q]
      /\ offset' \in [Procs -> Nat] /\ buf' = [q \in Procs |-> buf'[q]]
      /\ lineCount' \in [Procs -> Nat]
  <2>1. PICK i \in Nat : i = offset[p] + Len(Lines(p))
    BY <1>2, <1>3
  <2>2. PICK h : h = buf[p] \o more
    OBVIOUS
  <2>3. PICK c \in Nat : c = lineCount[p] + lines
    BY <1>2
  <2>4. /\ offset' = [offset EXCEPT ![p] = i]
        /\ buf' = [buf EXCEPT ![p] = h]
        /\ lineCount' = [lineCount EXCEPT ![p] = c]
    BY <1>1, <2>1, <2>2, <2>3
  <2>5. /\ offset'[p] = i /\ offset' \in [Procs -> Nat]
        /\ \A q \in Procs : q # p => offset'[q] = offset[q]
    BY <1>2, <2>4
  <2>6. /\ buf'[p] = h /\ buf' = [q \in Procs |-> buf'[q]]
        /\ \A q \in Procs : q # p => buf'[q] = buf[q]
    BY <1>2, <2>4
  <2>7. /\ lineCount'[p] = c /\ lineCount' \in [Procs -> Nat]
        /\ \A q \in Procs : q # p => lineCount'[q] = lineCount[q]
    BY <1>2, <2>4
  <2> QED BY <2>1, <2>2, <2>3, <2>5, <2>6, <2>7
<1>6. Collected(file', Reader(p)')
  BY <1>1, <1>5 DEF Reader
<1>7. \A q \in Procs : q # p => Reader(q)' = Reader(q)
  BY <1>1, <1>5 DEF Reader
<1> QED BY <1>1, <1>2, <1>4, <1>5, <1>6, <1>7, OthersKeep

(* A process that is done with the file.                                   *)
LEMMA Afterwards ==
  ASSUME ListInv, Types', NEW p \in Procs, UNCHANGED file, UNCHANGED base,
         Afresh(p), NEW there, Goto(p, there), there # "work",
         job' = [job EXCEPT ![p] = NoJob],
         \A r \in printed' :
           r \in printed \/ (r.base \in Nat /\ Listed(r, file))
  PROVE  ListInv'
<1>1. /\ file \in Seq(Entries) /\ offset \in [Procs -> Nat]
      /\ base \in [Procs -> Nat] /\ buf = [q \in Procs |-> buf[q]]
      /\ lineCount \in [Procs -> Nat] /\ cut = [q \in Procs |-> cut[q]]
      /\ pc \in [Procs -> Living \cup {"none", "spin", "ended"}]
      /\ job \in [Procs -> Commands \cup {NoJob}]
  BY DEF ListInv, Types
<1>2. Len(file) <= Len(file') /\ \A k \in 1 .. Len(file) : file'[k] = file[k]
  BY <1>1, LenProperties
<1>3. /\ offset' \in [Procs -> Nat] /\ lineCount' \in [Procs -> Nat]
      /\ cut' = [q \in Procs |-> cut'[q]] /\ buf' = [q \in Procs |-> buf'[q]]
  BY <1>1 DEF Afresh
<1>4. /\ pc'[p] = there
      /\ \A q \in Procs : q # p =>
           /\ pc'[q] = pc[q] /\ job'[q] = job[q]
           /\ offset'[q] = offset[q] /\ buf'[q] = buf[q]
           /\ lineCount'[q] = lineCount[q] /\ cut'[q] = cut[q]
  BY <1>1 DEF Afresh, Goto
<1>5. \A q \in Procs : q # p /\ pc'[q] = "work" =>
        pc[q] = "work" /\ Reader(q)' = Reader(q)
  BY <1>4 DEF Reader
<1> QED BY <1>1, <1>2, <1>3, <1>4, <1>5, OthersKeep

LEMMA Crashes ==
  ASSUME ListInv, Types', NEW p \in Procs, NEW op, Listing(p, op), Crash(p)
  PROVE  ListInv'
<1>1. /\ UNCHANGED file /\ UNCHANGED base /\ printed' = printed
      /\ Afresh(p) /\ Goto(p, "ended") /\ job' = [job EXCEPT ![p] = NoJob]
  BY DEF Listing, Crash, fileVars
<1> QED BY <1>1, Afterwards

LEMMA Completes ==
  ASSUME ListInv, Types', NEW p \in Procs, NEW op, Listing(p, op), NEW out,
         Complete(p, out),
         \/ Right(job[p], out, file)
         \/ cut[p] # {}
         \/ Junk \in ToSet(out)
  PROVE  ListInv'
<1>1. PICK r0 : r0 = [cmd |-> job[p], base |-> base[p], output |-> out,
                      whole |-> cut[p] = {}]
  OBVIOUS
<1>2. /\ UNCHANGED file /\ UNCHANGED base /\ printed' = printed \cup {r0}
      /\ Afresh(p) /\ Goto(p, "read") /\ job' = [job EXCEPT ![p] = NoJob]
  BY <1>1 DEF Listing, Complete, Loops, fileVars
<1>3. /\ file \in Seq(Entries) /\ Len(file) \in Nat
      /\ base[p] \in Nat /\ base[p] <= Len(file)
  BY LenProperties DEF ListInv, Types, Listing, Collected, Reader
<1>4. /\ r0.cmd = job[p] /\ r0.base = base[p] /\ r0.output = out
      /\ r0.whole <=> cut[p] = {}
  BY <1>1
<1>5. Listed(r0, file)
  <2> SUFFICES ASSUME Whole(r0)
               PROVE  \E n \in r0.base .. Len(file) :
                        Right(r0.cmd, r0.output, SubSeq(file, 1, n))
    BY DEF Listed
  <2>1. Right(job[p], out, file)
    BY <1>4 DEF Whole
  <2>2. SubSeq(file, 1, Len(file)) = file
    BY <1>3, SubSeqFull
  <2>3. Len(file) \in r0.base .. Len(file)
    BY <1>3, <1>4
  <2> QED BY <1>4, <2>1, <2>2, <2>3
<1>6. \A r \in printed' :
        r \in printed \/ (r.base \in Nat /\ Listed(r, file))
  BY <1>2, <1>3, <1>4, <1>5
<1> QED BY <1>2, <1>6, Afterwards

LEMMA ListStarts == Init => ListInv
<1> SUFFICES ASSUME Init PROVE ListInv
  OBVIOUS
<1>1. Types
  BY AddsStarts DEF AddsInv
<1>2. /\ offset \in [Procs -> Nat] /\ base \in [Procs -> Nat]
      /\ lineCount \in [Procs -> Nat] /\ cut = [p \in Procs |-> cut[p]]
      /\ buf = [p \in Procs |-> buf[p]] /\ printed = {}
      /\ \A p \in Procs : pc[p] # "work"
  BY DEF Init
<1> QED BY <1>1, <1>2 DEF ListInv

LEMMA ListContinues == ListInv /\ [Next]_vars => ListInv'
<1> SUFFICES ASSUME ListInv, [Next]_vars PROVE ListInv'
  OBVIOUS
<1>1. Types /\ Types'
  BY TypesContinue DEF ListInv
<1>2. /\ file \in Seq(Entries) /\ Len(file) \in Nat
      /\ offset \in [Procs -> Nat] /\ base \in [Procs -> Nat]
      /\ lineCount \in [Procs -> Nat] /\ cut = [p \in Procs |-> cut[p]]
      /\ buf = [p \in Procs |-> buf[p]]
      /\ pc \in [Procs -> Living \cup {"none", "spin", "ended"}]
      /\ job \in [Procs -> Commands \cup {NoJob}]
  BY <1>1, LenProperties DEF ListInv, Types
<1>3. CASE UNCHANGED vars
  BY <1>1, <1>3, ReadersKeep DEF vars, fileVars, readVars
<1>4. ASSUME NEW p \in Procs, ProcStep(p) \/ ReadFails(p)
      PROVE  ListInv'
  <2>1. CASE ReadCommand(p)
    <3>1. pc'[p] # "work" /\ UNCHANGED file /\ UNCHANGED readVars
      BY <1>2, <2>1 DEF ReadCommand, Goto, fileVars
    <3>2. \A q \in Procs : q # p => pc'[q] = pc[q] /\ job'[q] = job[q]
      BY <1>2, <2>1 DEF ReadCommand, Goto
    <3> QED BY <1>1, <3>1, <3>2, ReadersKeep
  <2>2. CASE ReadEnd(p) \/ ReadFails(p) \/ ForkFails(p) \/ Waitpid(p)
             \/ CreateFile(p) \/ Usage(p) \/ ForkTester(p)
    <3>1. /\ pc'[p] # "work" /\ UNCHANGED file /\ UNCHANGED readVars
          /\ \A q \in Procs : q # p => pc'[q] = pc[q] /\ job'[q] = job[q]
      BY <1>2, <2>2
        DEF ReadEnd, ReadFails, ForkFails, Waitpid, CreateFile, Usage,
            ForkTester, Loops, Goto, fileVars
    <3> QED BY <1>1, <3>1, ReadersKeep
  <2>3. CASE Fork(p)
    <3>1. UNCHANGED file /\ UNCHANGED readVars
      BY <2>3 DEF Fork, fileVars
    <3>2. \A q \in Procs :
            pc'[q] = "work" => pc[q] = "work" /\ job'[q] = job[q]
      BY <1>2, <2>3 DEF Fork
    <3> QED BY <1>1, <3>1, <3>2, ReadersKeep
  <2>4. CASE Open(p)
    <3>1. CASE exists
      <4>1. /\ file' = file /\ printed' = printed /\ Afresh(p)
            /\ base' = [base EXCEPT ![p] = Len(file)]
            /\ pc' = [pc EXCEPT ![p] = "work"] /\ job' = job
        BY <2>4, <3>1 DEF Open, Goto, fileVars
      <4>2. /\ base' \in [Procs -> Nat] /\ offset' \in [Procs -> Nat]
            /\ lineCount' \in [Procs -> Nat]
            /\ cut' = [q \in Procs |-> cut'[q]]
            /\ buf' = [q \in Procs |-> buf'[q]]
        BY <1>2, <4>1 DEF Afresh
      <4>3. \A q \in Procs : q # p =>
              /\ pc'[q] = pc[q] /\ offset'[q] = offset[q]
              /\ base'[q] = base[q] /\ lineCount'[q] = lineCount[q]
              /\ cut'[q] = cut[q] /\ buf'[q] = buf[q]
        BY <1>2, <4>1 DEF Afresh
      <4>4. /\ offset'[p] = 0 /\ base'[p] = Len(file) /\ lineCount'[p] = 0
            /\ cut'[p] = {} /\ buf'[p] = <<>>
        BY <1>2, <4>1 DEF Afresh
      <4>5. Collected(file', Reader(p)')
        <5>1. PICK r : r = Reader(p)'
          OBVIOUS
        <5>2. /\ r.cmd = job[p] /\ r.at = Len(file) /\ r.n = 0
              /\ r.lines = 0 /\ r.out = <<>>
          BY <4>1, <4>4, <5>1 DEF Reader
        <5>3. job[p] \in Commands \cup {NoJob}
          BY <1>2
        <5>4. Collected(file, r)
          BY <1>2, <5>2, <5>3, NothingCollected
        <5> QED BY <4>1, <5>1, <5>4
      <4>6. \A q \in Procs : q # p => Reader(q)' = Reader(q)
        BY <4>1, <4>3 DEF Reader
      <4>7. /\ Len(file) <= Len(file')
            /\ \A k \in 1 .. Len(file) : file'[k] = file[k]
        BY <1>2, <4>1
      <4>8. \A q \in Procs : q # p /\ pc'[q] = "work" =>
              pc[q] = "work" /\ Reader(q)' = Reader(q)
        BY <4>3, <4>6
      <4>9. \A r \in printed' : r \in printed
        BY <4>1
      <4> QED BY <1>1, <4>2, <4>5, <4>7, <4>8, <4>9, OthersKeep
    <3>2. CASE ~exists
      <4>1. /\ pc'[p] # "work" /\ UNCHANGED file /\ UNCHANGED readVars
            /\ \A q \in Procs : q # p => pc'[q] = pc[q] /\ job'[q] = job[q]
        BY <1>2, <2>4, <3>2 DEF Open, Loops, Goto, fileVars, readVars
      <4> QED BY <1>1, <4>1, ReadersKeep
    <3> QED BY <3>1, <3>2
  <2>5. CASE AddStudentGrade(p)
    <3>1. /\ UNCHANGED readVars /\ pc'[p] # "work"
          /\ \A q \in Procs : q # p => pc'[q] = pc[q] /\ job'[q] = job[q]
      BY <1>2, <2>5 DEF AddStudentGrade, Loops, Goto
    <3>2. /\ Len(file) <= Len(file')
          /\ \A k \in 1 .. Len(file) : file'[k] = file[k]
      <4>1. file' = Append(file, job[p].entry)
        BY <2>5 DEF AddStudentGrade
      <4>2. job[p].entry \in Entries
        <5>1. job[p] \in Commands \cup {NoJob} /\ IsAdd(job[p])
          BY <1>2, <2>5 DEF AddStudentGrade, IsAdd
        <5>2. job[p] \in Commands
          BY <5>1 DEF NoJob, IsAdd
        <5> QED BY <5>1, <5>2, AddedEntry
      <4>3. /\ Len(file') = Len(file) + 1
            /\ \A k \in 1 .. Len(file) : file'[k] = file[k]
        BY <1>2, <4>1, <4>2, AppendProperties
      <4> QED BY <1>2, <4>3
    <3>3. \A q \in Procs : q # p => Reader(q)' = Reader(q)
      BY <3>1 DEF Reader, readVars
    <3>4. /\ offset' = offset /\ base' = base /\ lineCount' = lineCount
          /\ cut' = cut /\ buf' = buf /\ printed' = printed
      BY <3>1 DEF readVars
    <3> QED BY <1>1, <1>2, <3>1, <3>2, <3>3, <3>4, OthersKeep
  <2>6. ASSUME pc[p] = "work"
        PROVE  /\ Collected(file, Reader(p)) /\ offset[p] \in Nat
               /\ base[p] \in Nat /\ lineCount[p] \in Nat
               /\ Reader(p).n = offset[p] /\ Reader(p).at = base[p]
               /\ offset[p] <= Len(file) /\ base[p] <= Len(file)
               /\ Lines(p) \in Seq(Entries) /\ Len(Lines(p)) \in Nat
               /\ offset[p] + Len(Lines(p)) <= Len(file)
               /\ Lines(p) = <<>> <=> Len(Lines(p)) = 0
    <3>1. Collected(file, Reader(p))
      BY <2>6 DEF ListInv
    <3>2. /\ offset[p] \in Nat /\ base[p] \in Nat /\ lineCount[p] \in Nat
          /\ Reader(p).n = offset[p] /\ Reader(p).at = base[p]
      BY <1>2 DEF Reader
    <3>3. offset[p] <= Len(file) /\ base[p] <= Len(file)
      BY <3>1, <3>2 DEF Collected
    <3> QED BY <1>2, <3>1, <3>2, <3>3, LinesAre
  <2>7. \A more : \A lines \in Nat :
          UNCHANGED cut /\ ReadOn(p, more, lines) =>
            /\ cut' = [q \in Procs |-> cut'[q]]
            /\ \A q \in Procs : cut'[q] = cut[q]
    BY <1>2
  <2>8. CASE ShowAll(p)
    <3>1. Listing(p, "showAll") /\ pc[p] = "work" /\ job[p].op = "showAll"
      BY <2>8 DEF ShowAll, Listing
    <3>2. /\ Lines(p) = <<>> => Right(job[p], buf[p], file)
          /\ offset[p] + Len(Lines(p)) <= Len(file)
          /\ Taken(file, buf[p] \o Lines(p), 0, offset[p] + Len(Lines(p)),
                   offset[p] + Len(Lines(p)))
      BY <1>2, <2>6, <3>1, AllListed
    <3>3. CASE Lines(p) = <<>>
      <4>1. Complete(p, buf[p])
        BY <2>8, <3>3 DEF ShowAll
      <4> QED BY <1>1, <3>1, <3>2, <3>3, <4>1, Completes
    <3>4. CASE Lines(p) # <<>>
      <4>1. ReadOn(p, Lines(p), 0) /\ UNCHANGED cut
        BY <2>8, <3>4 DEF ShowAll
      <4>2. ASSUME NEW r, r.cmd = job[p], r.at = base[p],
                   r.n = offset[p] + Len(Lines(p)), r.out = buf[p] \o Lines(p)
            PROVE  Collected(file, r)
        BY <2>6, <3>1, <3>2, <4>2 DEF Collected
      <4>3. Collected(file, [cmd |-> job[p], at |-> base[p],
                             n |-> offset[p] + Len(Lines(p)),
                             lines |-> lineCount[p] + 0, cut |-> cut'[p],
                             out |-> buf[p] \o Lines(p)])
        BY <4>2
      <4> QED BY <1>1, <2>7, <3>1, <4>1, <4>3, ReadsOn
    <3> QED BY <3>3, <3>4
  <2>9. CASE ListSome(p)
    <3> DEFINE start == (job[p].page - 1) * job[p].num
               end == job[p].page * job[p].num
               page == Page(p, start, end)
               after == lineCount[p] + Len(Lines(p))
               output == buf[p] \o page
    <3>1. Listing(p, "listSome") /\ pc[p] = "work" /\ job[p].op = "listSome"
      BY <2>9 DEF ListSome, Listing
    <3>2. cut[p] = {} =>
            /\ Lines(p) = <<>> \/ after >= end => Right(job[p], output, file)
            /\ lineCount[p] = offset[p]
            /\ Taken(file, output, start, end, offset[p] + Len(Lines(p)))
      BY <1>1, <2>6, <3>1, SomeListed
    <3>3. \/ /\ Lines(p) = <<>> \/ after > end \/ after = end
             /\ Complete(p, output)
          \/ ReadOn(p, page, Len(Lines(p))) /\ UNCHANGED cut
          \/ \E more : /\ ReadOn(p, more, Len(Lines(p)) + 1)
                        /\ cut' = [cut EXCEPT ![p] = @ \cup
                                     {offset[p] + Len(Lines(p)) + 1}]
      BY <2>9 DEF ListSome
    <3>4. end \in Int
      <4>1. job[p].num \in Int /\ job[p].page \in Int
        BY <1>2, <3>1, ListSomeCommand
      <4> QED BY <4>1
    <3>5. start = Start(job[p]) /\ end = End(job[p])
      BY DEF Start, End
    <3> HIDE DEF start, end, page
    <3>6. CASE /\ Lines(p) = <<>> \/ after > end \/ after = end
               /\ Complete(p, output)
      <4>1. Lines(p) = <<>> \/ after >= end
        BY <2>6, <3>1, <3>4, <3>6
      <4> HIDE DEF output
      <4> QED BY <1>1, <3>1, <3>2, <3>6, <4>1, Completes
    <3>7. CASE ReadOn(p, page, Len(Lines(p))) /\ UNCHANGED cut
      <4>1. ASSUME NEW r, r.cmd = job[p], r.at = base[p], r.cut = cut[p],
                   r.n = offset[p] + Len(Lines(p)),
                   r.lines = lineCount[p] + Len(Lines(p)), r.out = output
            PROVE  Collected(file, r)
        BY <2>6, <3>1, <3>2, <3>5, <4>1 DEF Collected
      <4>2. Collected(file, [cmd |-> job[p], at |-> base[p],
                             n |-> offset[p] + Len(Lines(p)),
                             lines |-> lineCount[p] + Len(Lines(p)),
                             cut |-> cut'[p], out |-> buf[p] \o page])
        BY <3>7, <4>1
      <4> QED BY <1>1, <2>6, <2>7, <3>1, <3>7, <4>2, ReadsOn
    <3>8. ASSUME NEW more, ReadOn(p, more, Len(Lines(p)) + 1),
                 cut' = [cut EXCEPT ![p] = @ \cup
                                     {offset[p] + Len(Lines(p)) + 1}]
          PROVE  ListInv'
      <4>1. PICK c : c = cut[p] \cup {offset[p] + Len(Lines(p)) + 1}
        OBVIOUS
      <4>2. /\ cut'[p] = c /\ c # {}
            /\ cut' = [q \in Procs |-> cut'[q]]
            /\ \A q \in Procs : q # p => cut'[q] = cut[q]
        BY <1>2, <3>8, <4>1
      <4>3. ASSUME NEW r, r.cmd = job[p], r.at = base[p], r.cut = c,
                   r.n = offset[p] + Len(Lines(p))
            PROVE  Collected(file, r)
        BY <2>6, <3>1, <4>2, <4>3 DEF Collected
      <4>4. PICK lines \in Nat : lines = Len(Lines(p)) + 1
        BY <2>6, <3>1
      <4>5. Collected(file, [cmd |-> job[p], at |-> base[p],
                             n |-> offset[p] + Len(Lines(p)),
                             lines |-> lineCount[p] + lines, cut |-> cut'[p],
                             out |-> buf[p] \o more])
        BY <4>2, <4>3
      <4> QED BY <1>1, <3>1, <3>8, <4>2, <4>4, <4>5, ReadsOn
    <3> QED BY <3>3, <3>6, <3>7, <3>8
  <2>10. CASE ListGrades(p)
    <3> DEFINE missing == First - lineCount[p] - Len(Lines(p))
               listed == SubSeq(Lines(p), 1, Least(First - lineCount[p],
                                                   Len(Lines(p))))
               Junks(n) == [i \in 1 .. n |-> Junk]
    <3>1. Listing(p, "listGrades") /\ pc[p] = "work"
          /\ job[p].op = "listGrades"
      BY <2>10 DEF ListGrades, Listing
    <3>2. /\ Lines(p) = <<>> \/ missing <= 0 =>
               \/ Right(job[p], buf[p] \o listed, file)
               \/ Junk \in ToSet(buf[p] \o listed)
          /\ missing \in Int
          /\ \A n \in Nat \ {0} :
               /\ buf[p] \o (listed \o Junks(n)) \in Seq(Outputs)
               /\ Junk \in ToSet(buf[p] \o (listed \o Junks(n)))
               /\ buf[p] \o (listed \o Junks(n))
                    = buf[p] \o listed \o Junks(n)
      BY <1>2, <2>6, <3>1, FirstListed
    <3>3. \/ /\ Lines(p) = <<>> \/ missing <= 0
             /\ Complete(p, buf[p] \o listed)
          \/ ~(missing <= 0) /\ Complete(p, buf[p] \o listed \o Junks(missing))
          \/ \E counted \in 0 .. (missing - 1), last \in {0, 1} :
               /\ counted + last > 0
               /\ ReadOn(p, listed \o Junks(counted + last),
                         Len(Lines(p)) + counted)
               /\ UNCHANGED cut
      BY <2>10 DEF ListGrades
    <3> HIDE DEF missing, listed, Junks
    <3>4. CASE /\ Lines(p) = <<>> \/ missing <= 0
               /\ Complete(p, buf[p] \o listed)
      BY <1>1, <3>1, <3>2, <3>4, Completes
    <3>5. CASE /\ ~(missing <= 0)
               /\ Complete(p, buf[p] \o listed \o Junks(missing))
      <4>1. missing \in Nat \ {0}
        BY <3>2, <3>5
      <4>2. Junk \in ToSet(buf[p] \o listed \o Junks(missing))
        BY <3>2, <4>1
      <4> QED BY <1>1, <3>1, <3>5, <4>2, Completes
    <3>6. ASSUME NEW counted \in 0 .. (missing - 1), NEW last \in {0, 1},
                 counted + last > 0,
                 ReadOn(p, listed \o Junks(counted + last),
                        Len(Lines(p)) + counted),
                 UNCHANGED cut
          PROVE  ListInv'
      <4>1. PICK n \in Nat \ {0} : n = counted + last
        BY <3>2, <3>6
      <4>2. PICK lines \in Nat : lines = Len(Lines(p)) + counted
        BY <2>6, <3>1, <3>2
      <4>3. PICK more : more = listed \o Junks(n)
        OBVIOUS
      <4>4. buf[p] \o more \in Seq(Outputs) /\ Junk \in ToSet(buf[p] \o more)
        BY <3>2, <4>3
      <4>5. ASSUME NEW r, r.cmd = job[p], r.at = base[p],
                   r.out = buf[p] \o more, r.n = offset[p] + Len(Lines(p))
            PROVE  Collected(file, r)
        BY <2>6, <3>1, <4>4, <4>5 DEF Collected
      <4>6. Collected(file, [cmd |-> job[p], at |-> base[p],
                             n |-> offset[p] + Len(Lines(p)),
                             lines |-> lineCount[p] + lines, cut |-> cut'[p],
                             out |-> buf[p] \o more])
        BY <4>5
      <4>7. ReadOn(p, more, lines)
        BY <3>6, <4>1, <4>2, <4>3
      <4> QED BY <1>1, <2>7, <3>1, <3>6, <4>6, <4>7, ReadsOn
    <3> QED BY <3>3, <3>4, <3>5, <3>6
  <2>11. \A op : Listing(p, op) /\ Complete(p, <<Junk>>) => ListInv'
    <3>1. Junk \in ToSet(<<Junk>>)
      <4>1. 1 \in DOMAIN <<Junk>> /\ <<Junk>>[1] = Junk
        OBVIOUS
      <4> QED BY <4>1 DEF ToSet
    <3> QED BY <1>1, <3>1, Completes
  <2>12. CASE SearchStudent(p)
    <3>1. Listing(p, "searchStudent") /\ pc[p] = "work"
          /\ job[p].op = "searchStudent"
      BY <2>12 DEF SearchStudent, Listing
    <3>2. /\ Right(job[p], <<>>, file)
          /\ \A e \in ToSet(Lines(p)) :
               e.name = job[p].name => Right(job[p], <<e>>, file)
      BY <1>2, <2>6, <3>1, FoundListed
    <3>3. CASE \E e \in ToSet(Lines(p)) :
                 e.name = job[p].name /\ Complete(p, <<e>>)
      BY <1>1, <3>1, <3>2, <3>3, Completes
    <3>4. CASE Complete(p, <<>>)
      BY <1>1, <3>1, <3>2, <3>4, Completes
    <3>5. CASE ReadOn(p, <<>>, 0) /\ UNCHANGED cut
      <4>1. ASSUME NEW r, r.cmd = job[p], r.at = base[p],
                   r.n = offset[p] + Len(Lines(p))
            PROVE  Collected(file, r)
        BY <2>6, <3>1, <4>1 DEF Collected
      <4>2. Collected(file, [cmd |-> job[p], at |-> base[p],
                             n |-> offset[p] + Len(Lines(p)),
                             lines |-> lineCount[p] + 0, cut |-> cut'[p],
                             out |-> buf[p] \o <<>>])
        BY <4>1
      <4> QED BY <1>1, <2>7, <3>1, <3>5, <4>2, ReadsOn
    <3>6. CASE Crash(p) \/ Complete(p, <<Junk>>)
      BY <1>1, <2>11, <3>1, <3>6, Crashes
    <3> QED BY <2>12, <3>3, <3>4, <3>5, <3>6 DEF SearchStudent
  <2>13. CASE SortAll(p)
    <3>1. Listing(p, "sortAll") /\ pc[p] = "work" /\ job[p].op = "sortAll"
      BY <2>13 DEF SortAll, Listing
    <3>2. PICK more \in Elements(Sortable(Lines(p))) :
            LET elements == Shortened(buf[p] \o more, MaxElements)
            IN  IF Lines(p) = <<>> \/ Len(elements) = MaxElements
                THEN Complete(p, BubbleSort(elements, job[p]))
                ELSE \/ ReadOn(p, more, 0) /\ UNCHANGED cut
                     \/ GoesOn(p) /\ (Crash(p) \/ Complete(p, <<Junk>>))
      BY <2>13 DEF SortAll
    <3> DEFINE elements == Shortened(buf[p] \o more, MaxElements)
               ends == Lines(p) = <<>> \/ Len(elements) = MaxElements
    <3>3. /\ ends => Right(job[p], BubbleSort(elements, job[p]), file)
          /\ ~ends =>
               /\ buf[p] \o more \in Seq(Items)
               /\ Len(buf[p] \o more) < MaxElements
               /\ Stripped(buf[p] \o more)
                    = Sortable(SubSeq(file, 1, offset[p] + Len(Lines(p))))
      BY <1>2, <2>6, <3>1, SortedListed
    <3>4. \/ ends /\ Complete(p, BubbleSort(elements, job[p]))
          \/ ~ends /\ ReadOn(p, more, 0) /\ UNCHANGED cut
          \/ Crash(p) \/ Complete(p, <<Junk>>)
      BY <3>2
    <3> HIDE DEF elements, ends
    <3>5. CASE ends /\ Complete(p, BubbleSort(elements, job[p]))
      BY <1>1, <3>1, <3>3, <3>5, Completes
    <3>6. CASE ~ends /\ ReadOn(p, more, 0) /\ UNCHANGED cut
      <4>1. ASSUME NEW r, r.cmd = job[p], r.at = base[p],
                   r.out = buf[p] \o more, r.n = offset[p] + Len(Lines(p))
            PROVE  Collected(file, r)
        BY <2>6, <3>1, <3>3, <3>6, <4>1 DEF Collected
      <4>2. Collected(file, [cmd |-> job[p], at |-> base[p],
                             n |-> offset[p] + Len(Lines(p)),
                             lines |-> lineCount[p] + 0, cut |-> cut'[p],
                             out |-> buf[p] \o more])
        BY <4>1
      <4> QED BY <1>1, <2>7, <3>1, <3>6, <4>2, ReadsOn
    <3>7. CASE Crash(p) \/ Complete(p, <<Junk>>)
      BY <1>1, <2>11, <3>1, <3>7, Crashes
    <3> QED BY <3>4, <3>5, <3>6, <3>7
  <2> QED BY <1>4, <2>1, <2>2, <2>3, <2>4, <2>5, <2>8, <2>9, <2>10, <2>12,
             <2>13 DEF ProcStep
<1> QED BY <1>3, <1>4 DEF Next

(* Whatever is typed, and whoever adds between two reads of a listing:     *)
(* what is listed, all of it, a page or sorted, is what it should be of    *)
(* the file as it was at some moment after the command had opened it,      *)
(* whatever bytes follow a name in bubbleSort's unterminated copies, if it *)
(* is whole: no line was cut for a page, and nothing was taken for an      *)
(* entry that had not been read, or had been read to the wrong place.      *)
THEOREM ListedRightHolds == Spec => []ListedRight
<1>1. ListInv => ListedRight
  BY DEF ListInv, Listed, ListedRight
<1>2. ListInv /\ [Next]_vars => ListInv'
  BY ListContinues
<1> QED BY <1>1, <1>2, ListStarts, PTL DEF Spec
=============================================================================
