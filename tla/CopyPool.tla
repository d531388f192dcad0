------------------------------ MODULE CopyPool ------------------------------
(***************************************************************************)
(* What the directory copiers of HW4 and HW5 promise, without threads,     *)
(* buffer, descriptors or locks: the life of every entry of the tree.      *)
(***************************************************************************)
EXTENDS Naturals, FiniteSets

CONSTANTS Entries, Root, Parent,  \* the source tree
          Capacity,               \* entries that may be queued
          Consumers               \* entries that may be copied at a time

VARIABLES phase,    \* phase[e]: where entry e is
          outcome   \* "running", "reported" or "killed"

In(p) == {e \in Entries : phase[e] = p}

Init ==
  /\ phase = [e \in Entries \cup {Root} |->
                IF e = Root THEN "passed" ELSE "waiting"]
  /\ outcome = "running"

Become(e, p) == phase' = [phase EXCEPT ![e] = p] /\ UNCHANGED outcome

(* An entry is looked at only once its directory was entered. *)
Reachable(e) == phase[e] = "waiting" /\ phase[Parent[e]] = "passed"

Pass(e) == Reachable(e) /\ Become(e, "passed")

SkipEntry(e) == Reachable(e) /\ Become(e, "skipped")

(* A directory that turns out unreadable, with everything below it. *)
SkipDir(d) == phase[d] = "passed" /\ Become(d, "skipped")

Enqueue(e) ==
  Reachable(e) /\ Cardinality(In("queued")) < Capacity /\ Become(e, "queued")

Dequeue(e) ==
  /\ phase[e] = "queued" /\ Cardinality(In("taken")) < Consumers
  /\ Become(e, "taken")

Copied(e) == phase[e] = "taken" /\ Become(e, "copied")

(* The success report waits for every entry that can be reached. *)
Report ==
  /\ In("queued") \cup In("taken") = {}
  /\ \A e \in Entries : ~Reachable(e)
  /\ outcome' = "reported" /\ UNCHANGED phase

Killed == outcome' = "killed" /\ UNCHANGED phase

Next ==
  /\ outcome = "running"
  /\ \/ \E e \in Entries : Pass(e) \/ SkipEntry(e) \/ Enqueue(e)
                           \/ Dequeue(e) \/ Copied(e)
     \/ \E d \in Entries \cup {Root} : SkipDir(d)
     \/ Report \/ Killed

Spec == Init /\ [][Next]_<<phase, outcome>>
=============================================================================
