----------------------------- MODULE MCRequests -----------------------------
(* Clients and scenarios of TLC's run of Requests. *)
EXTENDS Requests, TLC

CONSTANTS c1, c2

Scenario(queued, typed, most, others, patient, faults) ==
  [queued |-> queued, patient |-> patient, faults |-> faults,
   typed |-> [c \in Clients |-> IF c = c1 THEN typed ELSE {"LIST"}],
   most |-> [c \in Clients |-> IF c = c1 THEN most ELSE others]]

(* Two sessions at the server's files, and what makes them give up there. *)
Contention ==
  Scenario({}, Kinds, 1, 1, TRUE,
           {"missing", "unreadable", "unwritable", "endless", "tar"})
(* Three commands of one client; when it quits, the other is admitted. *)
Sequence ==
  Scenario({c2}, {"HELP", "LIST", "READFROM", "UPLOAD", "QUIT"}, 3, 1, TRUE,
           {"missing", "unwritable"})
(* A user that types ahead of the session. *)
Hasty == Scenario({c2}, Kinds, 2, 0, FALSE, {})
(* ^C at every point of every command. *)
Interrupted == Scenario({c2}, Kinds, 1, 1, TRUE, {"sigint"})
(* A child that goes on as a second session, until ^C. *)
SecondSession == Scenario({c2}, {"ARCHSERVER"}, 2, 1, TRUE, {"tar", "sigint"})
(* The end of the server, with a client admitted in the middle of it. *)
Ended ==
  Scenario({c2}, Kinds, 1, 1, TRUE, {"fork", "log", "shutdown", "eintr"})

(* A user that waits for the session's read between its two commands. *)
ListThenDownload == Scenario({c2}, {"LIST", "DOWNLOAD"}, 2, 0, TRUE, {})

MCScenarios ==
  {Contention, Sequence, Hasty, Interrupted, SecondSession, Ended}
ListScenarios == {ListThenDownload}
=============================================================================
