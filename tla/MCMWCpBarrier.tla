---------------------------- MODULE MCMWCpBarrier ----------------------------
(* Source trees for TLC's runs of MWCpBarrier. *)
EXTENDS MWCpBarrier, TLC

CONSTANTS reg1, reg2, reg3, fifo1, dir1, sock1, w1, w2

MCKind == [e \in Entries |-> CASE e \in {reg1, reg2, reg3} -> "regular"
                               [] e = fifo1 -> "fifo"
                               [] e = dir1 -> "dir"
                               [] OTHER -> "other"]
MCParent == [e \in Entries |-> IF e \in {reg2, fifo1} /\ dir1 \in Entries
                               THEN dir1 ELSE Root]
OneBlock == [e \in Entries |-> 1]
=============================================================================
