-------------------------- MODULE MWCpBarrier_proofs --------------------------
(* Proofs about HW5, for every number of workers.                           *)
EXTENDS MWCpBarrier, MWCp_proofs, FiniteSetTheorems

(* HW5 takes no step that HW4 could not take, or takes one beside it.       *)
LEMMA Step5IsStep == [Next5]_vars5 => [Next]_vars
BY DEF Next5, vars5, ManagerStep5, WorkerStep5, Report5, HandlerStep5,
       HandlerExit5, Next, HandlerStep, Arrive, Pass

(* HW5 is HW4 with steps of the barrier beside it, by the way MWCpBarrier   *)
(* is composed: what is proved of HW4 can be used for HW5.                  *)
LEMMA ComposedOfHW4 == Spec5 => Spec
<1>1. Init5 => Init
  BY DEF Init5
<1> QED BY <1>1, Step5IsStep, PTL DEF Spec5, Spec

(* In particular its state is well formed.                                  *)
LEMMA TypeCorrect5 == Spec5 => []TypeOK
BY ComposedOfHW4, TypeCorrect

(* Everything proved of HW4's threads, buffer, descriptors and counters is   *)
(* true of HW5, where they meet at the barrier before they return.          *)
THEOREM SafetyOfHW4Holds ==
  Spec5 => [](/\ OnePlace /\ DescriptorsOwned /\ ContentInOrder
              /\ DrainedBeforeLeaving /\ NoWakeupLost /\ NoDescriptorLeak
              /\ SomebodyAwake /\ StatisticsExact)
BY ComposedOfHW4, OnePlaceHolds, DescriptorsOwnedHolds,
   ContentInOrderHolds, DrainedHolds, NoWakeupLostHolds,
   SomebodyAwakeHolds, NoDescriptorLeakHolds, StatisticsExactHolds, PTL

(* HW5 implements the job pool too.                                         *)
THEOREM ImplementsPool5Holds == Spec5 => ImplementsPool
BY ComposedOfHW4, ImplementsPoolHolds

(* A manager or worker that has ended stays ended.                          *)
LEMMA EndedStays ==
  ASSUME TypeOK, Operation, NEW t \in Party, pc[t] = "ended"
  PROVE  pc'[t] = "ended"
<1> USE ThreadsDistinct DEF At, Holds, Runs, Goto, Party, Threads
<1>0. /\ pc \in [Threads -> Labels] /\ t \in Threads /\ t # Handler
  BY DEF TypeOK, ControlOK
<1>1. CASE \/ \E u \in Threads : Lock(u)
           \/ OpenDir \/ OpenDirFails \/ (\E e \in Entries : ReadEntry(e))
           \/ OpenSrc \/ OpenDest \/ MakeFifo \/ PushWait \/ Push
           \/ CountDir \/ CloseDir \/ SetDone
  BY <1>1, <1>0
     DEF Lock, OpenDir, OpenDirFails, Return, ReadEntry, OpenSrc, OpenDest,
         MakeFifo, Skip, PushWait, Push, CountDir, CloseDir, SetDone
<1>2. ASSUME NEW w \in Workers,
             \/ TakeWait(w) \/ Leave(w) \/ Take(w) \/ Read(w) \/ ReadEnds(w)
             \/ Write(w) \/ WriteFails(w) \/ AddBytes(w) \/ AddRegular(w)
             \/ CloseJob(w) \/ AddFifo(w) \/ PrintCopied(w)
      PROVE  pc'[t] = "ended"
  BY <1>2, <1>0
     DEF TakeWait, Leave, Take, Read, ReadEnds, Write, WriteFails, AddBytes,
         AddRegular, CloseJob, AddFifo, PrintCopied
<1>3. CASE \/ Report \/ (\E u \in SigThreads : Sigint(u)) \/ HandlerSetDone
           \/ HandlerCloseAll \/ HandlerExit \/ SpuriousWakeup
           \/ UNCHANGED vars
  BY <1>3, <1>0
     DEF Report, Sigint, HandlerSetDone, HandlerCloseAll, HandlerExit,
         SpuriousWakeup, vars
<1> QED BY <1>1, <1>2, <1>3 DEF Operation

(* As many threads as the barrier waits for are all of them.                *)
LEMMA FullBarrier ==
  ASSUME NEW S \in SUBSET Party, Cardinality(S) >= BarrierCount
  PROVE  S = Party
<1>1. /\ IsFiniteSet(Party)
      /\ Cardinality(Party) = Cardinality(Workers) + 1
  BY WorkersFinite, ThreadsDistinct, FS_AddElement DEF Party
<1>2. /\ IsFiniteSet(S) /\ Cardinality(S) <= Cardinality(Party)
      /\ Cardinality(S) = Cardinality(Party) => S = Party
  BY <1>1, FS_Subset
<1>3. Cardinality(S) \in Nat /\ Cardinality(Workers) \in Nat
  BY <1>2, WorkersFinite, FS_CardinalityType
<1> QED BY <1>1, <1>2, <1>3 DEF BarrierCount

BarrierInv == TypeOK5 /\ NobodyLeavesEarly

LEMMA BarrierPreserved ==
  ASSUME TypeOK, BarrierInv, [Next5]_vars5
  PROVE  BarrierInv'
<1> USE DEF BarrierInv, TypeOK5, NobodyLeavesEarly
<1>0. \A t \in Party : pc[t] = "ended" => pc'[t] = "ended"
  BY Step5IsStep, NextIsOperation, EndedStays
<1>1. CASE UNCHANGED barrierVars
  BY <1>0, <1>1 DEF barrierVars
<1>2. ASSUME NEW t \in Party, Arrive(t) PROVE BarrierInv'
  BY <1>0, <1>2 DEF Arrive, At
<1>3. ASSUME NEW t \in Party, Pass(t) PROVE BarrierInv'
  <2>1. arrived = Party
    BY <1>3, FullBarrier DEF Pass
  <2> QED BY <1>0, <1>3, <2>1 DEF Pass
<1> QED
  BY <1>1, <1>2, <1>3
     DEF Next5, vars5, ManagerStep5, WorkerStep5, Report5, HandlerStep5,
         HandlerExit5, Party

(* No thread returns from the barrier while another still walks or copies.  *)
THEOREM NobodyLeavesEarlyHolds == Spec5 => []NobodyLeavesEarly
<1>1. Init5 => BarrierInv
  BY DEF Init5, BarrierInv, TypeOK5, NobodyLeavesEarly
<1>2. TypeOK /\ BarrierInv /\ [Next5]_vars5 => BarrierInv'
  BY BarrierPreserved
<1>3. BarrierInv => NobodyLeavesEarly
  BY DEF BarrierInv
<1> QED BY <1>1, <1>2, <1>3, TypeCorrect5, PTL DEF Spec5
=============================================================================
