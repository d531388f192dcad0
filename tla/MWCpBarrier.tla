----------------------------- MODULE MWCpBarrier -----------------------------
(***************************************************************************)
(* HW5: the copier of HW4 whose manager and workers meet at a barrier of   *)
(* numberOfWorkers + 1 before they return.  main destroys the barrier      *)
(* after its joins, SIGINTHandler before exit.                             *)
(***************************************************************************)
EXTENDS MWCp

VARIABLES arrived,   \* threads that called pthread_barrier_wait
          released   \* threads whose pthread_barrier_wait returned

barrierVars == <<arrived, released>>
vars5 == <<vars, barrierVars>>

Party == Workers \cup {Manager}

Init5 == Init /\ arrived = {} /\ released = {}

-----------------------------------------------------------------------------
(* pthread_barrier_wait of glibc, with the count main initialised it to. *)
Arrive(t) ==
  /\ At(t, "ended") /\ t \notin arrived
  /\ arrived' = arrived \cup {t}
  /\ UNCHANGED <<vars, released>>

(* Mutants: the manager, or main as well, is miscounted. *)
WorkersOnly == Cardinality(Workers)
WithMain == Cardinality(Workers) + 2
BarrierCount == Cardinality(Workers) + 1

Pass(t) ==
  /\ At(t, "ended") /\ t \in arrived \ released
  /\ Cardinality(arrived) >= BarrierCount
  /\ released' = released \cup {t}
  /\ UNCHANGED <<vars, arrived>>

(* pthread_barrier_destroy of glibc returns once every thread that arrived *)
(* has been released.                                                      *)
Destroyable == arrived = released

ManagerStep5 ==
  \/ ManagerStep /\ UNCHANGED barrierVars
  \/ Arrive(Manager) \/ Pass(Manager)

WorkerStep5(w) ==
  \/ WorkerStep(w) /\ UNCHANGED barrierVars
  \/ Arrive(w) \/ Pass(w)

Report5 == released = Party /\ Report /\ Destroyable /\ UNCHANGED barrierVars

(* pthread_barrier_destroy, then exit(EXIT_FAILURE). *)
HandlerExit5 == Destroyable /\ HandlerExit /\ UNCHANGED barrierVars

HandlerStep5 ==
  \/ (Lock(Handler) \/ HandlerSetDone \/ HandlerCloseAll)
     /\ UNCHANGED barrierVars
  \/ HandlerExit5

Next5 ==
  \/ ManagerStep5 \/ (\E w \in Workers : WorkerStep5(w))
  \/ Report5 \/ HandlerStep5
  \/ ((\E t \in SigThreads : Sigint(t)) \/ SpuriousWakeup \/ Gone)
     /\ UNCHANGED barrierVars

Spec5 == Init5 /\ [][Next5]_vars5

FairSpec5 ==
  /\ Spec5
  /\ WF_vars5(ManagerStep5) /\ WF_vars5(Report5) /\ WF_vars5(HandlerStep5)
  /\ \A w \in Workers : WF_vars5(WorkerStep5(w))

-----------------------------------------------------------------------------
(* The barrier lets through threads that arrived, and they arrive when     *)
(* their work is over.                                                     *)
TypeOK5 ==
  /\ arrived \subseteq Party /\ released \subseteq arrived
  /\ \A t \in arrived : pc[t] = "ended"

(* "Wait for all worker threads to reach this point": no thread gets past  *)
(* the barrier while another one still walks, copies, or has not yet       *)
(* decided to stop.                                                        *)
NobodyLeavesEarly == released # {} => \A t \in Party : pc[t] = "ended"
=============================================================================
