------------------------------ MODULE MCGrades ------------------------------
(* Instances of Grades for TLC: additions among themselves, a file that is *)
(* created, read and added to by processes that nobody waits for, the ends *)
(* of a page and of a buffer, files shorter and longer than a buffer,      *)
(* sorting, and a fork that fails.                                         *)
EXTENDS Grades

E(n, g) == [name |-> n, grade |-> g]
Add(n, g) == [op |-> "addStudentGrade", entry |-> E(n, g)]
Some(n, p) == [op |-> "listSome", num |-> n, page |-> p]
Sort(b, o) == [op |-> "sortAll", by |-> b, order |-> o]
Search(n) == [op |-> "searchStudent", name |-> n]
Cmd(op) == [op |-> op]
Exit == Cmd("exit")
Scenario(f, cmds, input) ==
  [exists |-> TRUE, file |-> f, typed |-> cmds, input |-> input,
   faults |-> {}]
Three == <<E(2, 7), E(9, 5), E(1, 9)>>
Two == SubSeq(Three, 1, 2)
Six == Three \o <<E(3, 4), E(5, 5), E(6, 3)>>

Alone == {
  Scenario(<<>>, <<Add(1, 5), Add(2, 4), Exit, Cmd("blank"), Add(3, 6),
                   Exit, Exit, Cmd("eof")>>, "terminal"),
  Scenario(Three, <<Add(4, 5), Add(7, 6), Add(8, 4)>>, "pipe")}
Listings == {Cmd("showAll"), Cmd("listGrades"), Some(2, 1), Some(2, 2),
             Some(1, 0), Search(2), Search(4)}
Mixed ==
  {Scenario(Three, <<c, Add(4, 8), d, Add(2, 1)>>, "pipe") :
     c \in Listings, d \in {Cmd("showAll"), Cmd("gtuStudentGrades")}}
Sorted ==
  {Scenario(Three, <<c, Add(4, 8), Add(2, 1)>>, "pipe") :
     c \in {Sort(b, o) : b \in {"name", "grade"}, o \in {"asc", "dsc"}}}
(* Files of fewer lines than are listed first, and of several buffers. *)
Short == {Scenario(Two, <<Cmd("listGrades"), Add(4, 8), Add(7, 1)>>, "pipe")}
Long ==
  {Scenario(Six, <<c, Add(4, 8)>>, "pipe") :
     c \in {Cmd("showAll"), Cmd("listGrades"), Some(2, 2), Some(2, 3),
            Some(3, 1), Search(5), Search(7), Sort("grade", "asc")}}
Created ==
  {[Scenario(<<>>, <<Cmd("gtuStudentGrades"), Add(4, 8), Cmd("listGrades"),
                     Exit, Exit>>, i) EXCEPT !.exists = FALSE] :
     i \in {"pipe", "terminal"}}
Others == {
  [Scenario(Three, <<Cmd("showAll"), Add(4, 8), Exit, Cmd("blank"),
                     Add(5, 5)>>, "pipe") EXCEPT !.faults = {"fork"}],
  Scenario(Three, <<Cmd("forkTester"), Cmd("invalid"), Cmd("usage"), Exit,
                    Exit, Exit, Cmd("eof")>>, "terminal")}
MCScenarios ==
  Alone \cup Mixed \cup Sorted \cup Short \cup Long \cup Created
    \cup Others
(* As AddsKept presupposes. *)
ASSUME MCDistinct == Distinct
=============================================================================
