------------------------------- MODULE Grades -------------------------------
(***************************************************************************)
(* HW1: gtuStudentGrades, a shell for a file of student grades.  main reads *)
(* a command and forks a child for it.  The child executes the command and *)
(* then, as nothing ends it, goes on in main's loop as one more reader of  *)
(* the same input; the parent goes on reading at once, but for             *)
(* addStudentGrade, whose child it waits for until that ends.              *)
(*                                                                         *)
(* The file is a sequence of entries.  One read takes up to Buffer of      *)
(* them and, when the file goes on, may take the beginning of one more.    *)
(* What a command then makes of bytes it has not read, or has read to the  *)
(* wrong place, is Junk, or the end of the process.  A name is a number:   *)
(* it has no space, it is no beginning of another one, and with its grade  *)
(* it fills the 7 or 8 characters in which sortAll looks for the space,    *)
(* or, in LongNames, has all of these.                                     *)
(***************************************************************************)
EXTENDS Integers, FiniteSets, SequencesExt

CONSTANTS
  Scenarios,   \* see ScenariosAssumption
  MaxProcs,    \* processes: a command forks once
  Buffer,      \* entries one read takes
  First,       \* entries listGrades lists
  MaxElements, \* entries sortAll sorts
  LongNames    \* names too long for sortAll

Entries == [name : Nat, grade : Nat]
Readings == {"showAll", "listGrades", "listSome", "sortAll", "searchStudent"}
Commands ==
  [op : {"addStudentGrade"}, entry : Entries]
  \cup [op : {"listSome"}, num : Int, page : Int]
  \cup [op : {"sortAll"}, by : {"name", "grade"}, order : {"asc", "dsc"}]
  \cup [op : {"searchStudent"}, name : Nat]
  \cup [op : {"showAll", "listGrades", "gtuStudentGrades", "usage", "blank",
              "forkTester", "invalid", "exit", "eof"}]
FaultKinds == {"fork"}

(* The file at the start, if there is one; the commands that are typed,    *)
(* one on a line, and whether they come from a terminal or a pipe.  "eof"  *)
(* is a ^D, "blank" an empty line, and "invalid" a word that is no command.*)
ASSUME ScenariosAssumption ==
  \A s \in Scenarios :
    /\ s.exists \in BOOLEAN /\ s.file \in Seq(Entries)
    /\ s.typed \in Seq(Commands) /\ Len(s.typed) < MaxProcs
    /\ s.input \in {"terminal", "pipe"} /\ s.faults \subseteq FaultKinds
    /\ s.input = "pipe" =>
         \A i \in 1 .. Len(s.typed) : s.typed[i].op # "eof"
ASSUME SizesAssumption ==
  /\ {MaxProcs, Buffer, First, MaxElements} \subseteq Nat \ {0}
  /\ First <= Buffer /\ LongNames \subseteq Nat

VARIABLES
  scenario,  \* chosen from Scenarios, and kept
  pc,        \* pc[p]: what process p does next; 1 is the first
  job,       \* job[p]: the command it is at
  child,     \* child[p]: the one it waits for
  next,      \* the command that is read next
  heads,     \* the commands that were read as the first of their read
  exists, file,   \* the file of grades
  offset,    \* offset[p]: its position in the file, in lines begun
  lineCount, \* lineCount[p]: lines listGrades or listSome has counted
  cut,       \* cut[p]: lines of the file listSome has taken in two reads
  buf,       \* buf[p]: what it has collected: printed, or to be sorted
  base,      \* base[p]: entries in the file when p opened it
  printed    \* listings that are complete

fileVars == <<exists, file>>
inputVars == <<next, heads>>
readVars == <<offset, lineCount, cut, buf, base, printed>>
vars == <<scenario, pc, job, child, inputVars, fileVars, readVars>>

typed == scenario.typed
Procs == 1 .. MaxProcs
NoJob == [op |-> "none"]
Junk == [name |-> -1, grade |-> -1]  \* a line that is no entry of the file
Goto(p, there) == pc' = [pc EXCEPT ![p] = there]

-----------------------------------------------------------------------------
Init ==
  /\ scenario \in Scenarios
  /\ pc = [p \in Procs |-> IF p = 1 THEN "read" ELSE "none"]
  /\ job = [p \in Procs |-> NoJob] /\ child = [p \in Procs |-> 0]
  /\ next = 1 /\ heads = {}
  /\ exists = scenario.exists /\ file = scenario.file
  /\ offset = [p \in Procs |-> 0] /\ base = [p \in Procs |-> 0]
  /\ lineCount = [p \in Procs |-> 0] /\ cut = [p \in Procs |-> {}]
  /\ buf = [p \in Procs |-> <<>>] /\ printed = {}

(* What is made of several lines that one read has taken: the first of     *)
(* them, the others are lost.  Where no space or quote ends its word, the  *)
(* word goes on in the next line and is none the program knows, but for    *)
(* "exit" with an empty line.                                              *)
WithoutArguments == {"usage", "blank", "forkTester", "invalid", "exit"}
Understood(first, lines) ==
  LET cmd == typed[first]
  IN  IF \/ lines = 1 \/ cmd.op \notin WithoutArguments
         \/ cmd.op = "exit" /\ lines = 2 /\ typed[first + 1].op = "blank"
      THEN cmd ELSE [op |-> "invalid"]
(* Whoever reads first gets a line, or from a pipe what there is.  "exit"  *)
(* and ^D end that process only, an empty line is answered by itself.      *)
ReadCommand(p) ==
  /\ pc[p] = "read" /\ next <= Len(typed)
  /\ \E lines \in 1 .. (Len(typed) - next + 1) :
       /\ scenario.input = "terminal" => lines = 1
       /\ next' = next + lines /\ heads' = heads \cup {next}
       /\ LET cmd == Understood(next, lines)
          IN  /\ Goto(p, CASE cmd.op \in {"exit", "eof"} -> "ended"
                           [] cmd.op = "blank" -> "read"
                           [] OTHER -> "fork")
              /\ job' = [job EXCEPT ![p] = IF pc'[p] = "fork" THEN cmd
                                           ELSE NoJob]
  /\ UNCHANGED <<scenario, child, fileVars, readVars>>

(* The end of a pipe is there for every reader.                            *)
ReadEnd(p) ==
  /\ pc[p] = "read" /\ scenario.input = "pipe" /\ next > Len(typed)
  /\ Goto(p, "ended")
  /\ UNCHANGED <<scenario, job, child, inputVars, fileVars, readVars>>

(* When the first process has ended, the shell has the terminal back: who  *)
(* waits in read may still get a line, who comes to it later is refused.   *)
ReadFails(p) ==
  /\ pc[p] = "read" /\ scenario.input = "terminal" /\ pc[1] = "ended"
  /\ Goto(p, "ended")
  /\ UNCHANGED <<scenario, job, child, inputVars, fileVars, readVars>>

(* Mutant: every command is waited for. *)
ForkWaits(p) ==
  /\ pc[p] = "fork"
  /\ \E q \in Procs :
       /\ pc[q] = "none" /\ \A r \in Procs : pc[r] = "none" => q <= r
       /\ pc' = [pc EXCEPT ![q] = "start", ![p] = "wait"]
       /\ child' = [child EXCEPT ![p] = q]
       /\ job' = [job EXCEPT ![q] = job[p], ![p] = NoJob]
  /\ UNCHANGED <<scenario, inputVars, fileVars, readVars>>
Fork(p) ==
  /\ pc[p] = "fork"
  /\ \E q \in Procs :
       /\ pc[q] = "none" /\ \A r \in Procs : pc[r] = "none" => q <= r
       /\ LET waits == job[p].op = "addStudentGrade"
          IN  /\ pc' = [pc EXCEPT ![q] = "start",
                                  ![p] = IF waits THEN "wait" ELSE "read"]
              /\ child' = [child EXCEPT ![p] = IF waits THEN q ELSE 0]
       /\ job' = [job EXCEPT ![q] = job[p], ![p] = NoJob]
  /\ UNCHANGED <<scenario, inputVars, fileVars, readVars>>
ForkFails(p) ==
  /\ pc[p] = "fork" /\ "fork" \in scenario.faults
  /\ Goto(p, "read") /\ job' = [job EXCEPT ![p] = NoJob]
  /\ UNCHANGED <<scenario, child, inputVars, fileVars, readVars>>
Waitpid(p) ==
  /\ pc[p] = "wait" /\ pc[child[p]] = "ended"
  /\ Goto(p, "read") /\ child' = [child EXCEPT ![p] = 0]
  /\ UNCHANGED <<scenario, job, inputVars, fileVars, readVars>>

-----------------------------------------------------------------------------
(* The child p has executed its command, and reads the next one.           *)
Loops(p) ==
  /\ Goto(p, "read") /\ job' = [job EXCEPT ![p] = NoJob]

Afresh(p) ==
  /\ offset' = [offset EXCEPT ![p] = 0]
  /\ lineCount' = [lineCount EXCEPT ![p] = 0]
  /\ cut' = [cut EXCEPT ![p] = {}] /\ buf' = [buf EXCEPT ![p] = <<>>]
(* open without O_CREAT, in each of the operations on the file.            *)
Open(p) ==
  /\ pc[p] = "start" /\ job[p].op \in Readings \cup {"addStudentGrade"}
  /\ IF exists
     THEN /\ Goto(p, "work") /\ UNCHANGED job
          /\ base' = [base EXCEPT ![p] = Len(file)] /\ Afresh(p)
     ELSE Loops(p) /\ UNCHANGED <<base, offset, lineCount, cut, buf>>
  /\ UNCHANGED <<scenario, child, inputVars, fileVars, printed>>

(* Mutant: the file is opened without O_APPEND. *)
AddAtOffset(p) ==
  LET at == base[p] + 1
      size == IF at > Len(file) THEN at ELSE Len(file)
  IN  /\ pc[p] = "work" /\ job[p].op = "addStudentGrade"
      /\ file' = [i \in 1 .. size |-> IF i = at THEN job[p].entry ELSE file[i]]
      /\ Loops(p) /\ UNCHANGED <<scenario, child, inputVars, exists, readVars>>
(* One write to a file opened with O_APPEND.                               *)
AddStudentGrade(p) ==
  /\ pc[p] = "work" /\ job[p].op = "addStudentGrade"
  /\ file' = Append(file, job[p].entry) /\ Loops(p)
  /\ UNCHANGED <<scenario, child, inputVars, exists, readVars>>

(* gtuStudentGrades "file": O_CREAT | O_EXCL                               *)
CreateFile(p) ==
  /\ pc[p] = "start" /\ job[p].op = "gtuStudentGrades"
  /\ exists' = TRUE /\ Loops(p)
  /\ UNCHANGED <<scenario, child, inputVars, file, readVars>>

Usage(p) ==
  /\ pc[p] = "start" /\ job[p].op \in {"usage", "invalid"} /\ Loops(p)
  /\ UNCHANGED <<scenario, child, inputVars, fileVars, readVars>>
ForkTester(p) ==
  /\ pc[p] = "start" /\ job[p].op = "forkTester" /\ Goto(p, "spin")
  /\ UNCHANGED <<scenario, job, child, inputVars, fileVars, readVars>>

Least(m, n) == IF m < n THEN m ELSE n
(* What the next read of p takes in whole lines, and whether it may take   *)
(* the beginning of one more.                                              *)
Lines(p) ==
  SubSeq(file, offset[p] + 1, Least(offset[p] + Buffer, Len(file)))
GoesOn(p) == offset[p] + Len(Lines(p)) < Len(file)
ReadOn(p, more, lines) ==
  /\ buf' = [buf EXCEPT ![p] = @ \o more]
  /\ offset' = [offset EXCEPT ![p] = @ + Len(Lines(p))]
  /\ lineCount' = [lineCount EXCEPT ![p] = @ + lines]
  /\ UNCHANGED <<pc, job, printed>>
Complete(p, output) ==
  /\ printed' = printed \cup {[cmd |-> job[p], base |-> base[p],
                               output |-> output, whole |-> cut[p] = {}]}
  /\ Afresh(p) /\ Loops(p)
Crash(p) ==
  /\ Goto(p, "ended") /\ job' = [job EXCEPT ![p] = NoJob]
  /\ Afresh(p) /\ UNCHANGED printed
Listing(p, op) ==
  /\ pc[p] = "work" /\ job[p].op = op
  /\ UNCHANGED <<scenario, child, inputVars, fileVars, base>>

ShowAll(p) ==
  /\ Listing(p, "showAll")
  /\ IF Lines(p) = <<>> THEN Complete(p, buf[p])
     ELSE ReadOn(p, Lines(p), 0) /\ UNCHANGED cut

(* The lines as listSome sees them: the rest of one that was cut is a line.*)
Seen(p) ==
  [i \in 1 .. Len(Lines(p)) |->
     IF offset[p] + i \in cut[p] THEN Junk ELSE Lines(p)[i]]
(* Mutant: lines are counted anew in every buffer. *)
PageOfBuffer(p, start, end) ==
  LET skipped == IF start > 0 THEN start ELSE 0
  IN  SubSeq(Seen(p), skipped + 1, Least(end, Len(Lines(p))))
(* Those of them that are lines start .. end - 1 of all it sees, from 0.   *)
Page(p, start, end) ==
  LET skipped == IF start > lineCount[p] THEN start - lineCount[p] ELSE 0
  IN  SubSeq(Seen(p), skipped + 1, Least(end - lineCount[p], Len(Lines(p))))
(* Left at the first line after the page.  The beginning of a line at the  *)
(* end of the buffer is a line, too: the page is then too short by one.    *)
ListSome(p) ==
  /\ Listing(p, "listSome")
  /\ LET start == (job[p].page - 1) * job[p].num
         end == job[p].page * job[p].num
         page == Page(p, start, end)
         after == lineCount[p] + Len(Lines(p))
     IN  \/ /\ Lines(p) = <<>> \/ after > end \/ (after = end /\ GoesOn(p))
            /\ Complete(p, buf[p] \o page)
         \/ /\ Lines(p) # <<>> /\ after <= end
            /\ ReadOn(p, page, Len(Lines(p))) /\ UNCHANGED cut
         \/ /\ GoesOn(p) /\ after < end
            /\ ReadOn(p, IF after >= start THEN Append(page, Junk) ELSE page,
                      Len(Lines(p)) + 1)
            /\ cut' = [cut EXCEPT ![p] = @ \cup
                                    {offset[p] + Len(Lines(p)) + 1}]

(* Left at the First-th line.  As bytesRead is not reduced by the newlines, *)
(* a buffer with fewer is followed by as many bytes that were never read:  *)
(* the lines they make are listed, and those that end in a newline counted.*)
ListGrades(p) ==
  /\ Listing(p, "listGrades")
  /\ LET missing == First - lineCount[p] - Len(Lines(p))
         listed == SubSeq(Lines(p), 1, Least(First - lineCount[p],
                                             Len(Lines(p))))
     IN  IF Lines(p) = <<>> \/ missing <= 0
         THEN Complete(p, buf[p] \o listed)
         ELSE \/ Complete(p, buf[p] \o listed \o [i \in 1..missing |-> Junk])
              \/ \E counted \in 0..(missing - 1), last \in {0, 1} :
                   /\ counted + last > 0
                   /\ ReadOn(p, listed \o [i \in 1..counted+last |-> Junk],
                             Len(Lines(p)) + counted)
                   /\ UNCHANGED cut

(* The first entry of that name whose grade is found.  newName is not      *)
(* terminated when it is compared: a name that is there may be missed.  A  *)
(* second read is stored after the rest of the first, of which a short one *)
(* has none, but looked through from its own length downwards: lines are   *)
(* missed, what was in memory is taken for lines, or strtok finds none.    *)
SearchStudent(p) ==
  /\ Listing(p, "searchStudent")
  /\ \/ \E e \in ToSet(Lines(p)) : e.name = job[p].name /\ Complete(p, <<e>>)
     \/ IF Lines(p) = <<>> THEN Complete(p, <<>>)
        ELSE ReadOn(p, <<>>, 0) /\ UNCHANGED cut
     \/ /\ offset[p] > 0 /\ Lines(p) # <<>>
        /\ Crash(p) \/ Complete(p, <<Junk>>)

(* bubbleSort: n passes, each of which compares neighbours.                *)
Greater(a, b, cmd) ==
  LET x == IF cmd.by = "name" THEN 2 * a.name + a.rest ELSE a.grade
      y == IF cmd.by = "name" THEN 2 * b.name + b.rest ELSE b.grade
  IN  IF cmd.order = "asc" THEN x > y ELSE y > x
Exchanged(s, j, cmd) ==
  IF Greater(s[j], s[j + 1], cmd)
  THEN [s EXCEPT ![j] = s[j + 1], ![j + 1] = s[j]]
  ELSE s
Compared(s, cmd) ==
  LET after[j \in 0 .. Len(s) - 1] ==
        IF j = 0 THEN s ELSE Exchanged(after[j - 1], j, cmd)
  IN  after
Passes(s, cmd) ==
  LET after[i \in 0 .. Len(s)] ==
        IF i = 0 THEN s ELSE Compared(after[i - 1], cmd)[Len(s) - i]
  IN  after
BubbleSort(elements, cmd) == Passes(elements, cmd)[Len(elements)]

(* Entries with a name of 8 characters or more are passed over: the space  *)
(* after it is looked for in sizeof(line) bytes.                           *)
FirstSortable(s) ==
  LET those[n \in 0 .. Len(s)] ==
        IF n = 0 THEN <<>>
        ELSE IF s[n].name \in LongNames THEN those[n - 1]
             ELSE Append(those[n - 1], s[n])
  IN  those
Sortable(s) == FirstSortable(s)[Len(s)]
(* strncpy does not terminate the name it copies: an element's name is the *)
(* entry's, with what was on the stack after it or without.                *)
Elements(s) ==
  {[i \in DOMAIN s |-> [name |-> s[i].name, grade |-> s[i].grade,
                        rest |-> IF i \in dirty THEN 1 ELSE 0]] :
     dirty \in SUBSET DOMAIN s}
Shortened(s, n) == SubSeq(s, 1, Least(n, Len(s)))
(* A line that is cut is carried to the next read, but not counted in      *)
(* bytesRead, and carry is never reset: entries are lost or garbled, or    *)
(* strtok finds none.                                                      *)
SortAll(p) ==
  /\ Listing(p, "sortAll")
  /\ \E more \in Elements(Sortable(Lines(p))) :
       LET elements == Shortened(buf[p] \o more, MaxElements)
       IN  IF Lines(p) = <<>> \/ Len(elements) = MaxElements
           THEN Complete(p, BubbleSort(elements, job[p]))
           ELSE \/ ReadOn(p, more, 0) /\ UNCHANGED cut
                \/ GoesOn(p) /\ (Crash(p) \/ Complete(p, <<Junk>>))

-----------------------------------------------------------------------------
ProcStep(p) ==
  \/ ReadCommand(p) \/ ReadEnd(p)
  \/ Fork(p) \/ ForkFails(p) \/ Waitpid(p)
  \/ Open(p) \/ AddStudentGrade(p) \/ CreateFile(p)
  \/ Usage(p) \/ ForkTester(p)
  \/ ShowAll(p) \/ ListSome(p) \/ ListGrades(p) \/ SearchStudent(p)
  \/ SortAll(p)
Next == \E p \in Procs : ProcStep(p) \/ ReadFails(p)

Spec == Init /\ [][Next]_vars
(* The scheduler lets every process run.                                   *)
FairSpec == Spec /\ \A p \in Procs : WF_vars(ProcStep(p))

-----------------------------------------------------------------------------
(* One can tell, of the file, which command an entry comes from: none is   *)
(* added twice or is there from the start.                                 *)
IsAdd(cmd) == cmd.op = "addStudentGrade"
Distinct ==
  \A s \in Scenarios : \A i \in 1 .. Len(s.typed) :
    IsAdd(s.typed[i]) =>
      /\ \A k \in 1 .. Len(s.file) : s.file[k] # s.typed[i].entry
      /\ \A j \in 1 .. Len(s.typed) :
           IsAdd(s.typed[j]) /\ s.typed[j].entry = s.typed[i].entry => i = j

(* However many processes read commands and add at the same time, the file *)
(* keeps what it held, and each entry that was added is in it once, if the *)
(* file was there; it is written or still in somebody's hands.  While only *)
(* additions are typed, they are there in the order in which they were     *)
(* typed: the one that waits for its child, and the child that takes over, *)
(* never read at the same time.  This is said of the additions that main   *)
(* understands; one that comes from a pipe in the same read as a command   *)
(* before it is lost, and in neither place.                                *)
Entry(i) == typed[i].entry
AddsRead == {i \in heads : IsAdd(typed[i])}
InHand == {job[p] : p \in {q \in Procs : pc[q] \in {"fork", "start", "work"}}}
OnlyAdds ==
  \A i \in DOMAIN typed :
    \/ IsAdd(typed[i])
    \/ scenario.input = "terminal" /\ typed[i].op \in {"blank", "exit", "eof"}
Places(e) == {k \in DOMAIN file : file[k] = e}
AddsKept ==
  /\ IsPrefix(scenario.file, file)
  /\ Len(file) <= Len(scenario.file) + Cardinality(AddsRead)
  /\ \A i \in AddsRead :
       /\ Cardinality(Places(Entry(i))) <= 1
       /\ scenario.exists /\ scenario.faults = {} =>
            Places(Entry(i)) # {} \/ typed[i] \in InHand
  /\ OnlyAdds =>
       \A i, j \in AddsRead :
         i < j => \A k \in Places(Entry(i)), l \in Places(Entry(j)) : k < l

(* Whatever a command lists, page by page or sorted, and whoever adds      *)
(* between two of its reads, is what it should be of the file as it was    *)
(* at some moment after the command had opened it.  What is sorted is in   *)
(* order as it is stored, and has the entries' names up to what follows    *)
(* them.  This is said of listings that are whole: a page until a line was *)
(* cut, the first entries when the first read brings that many, sorted     *)
(* entries and the answer to a search until a read has gone to the wrong   *)
(* place.  showAll's are always whole.                                     *)
SamePlaces(s, t) ==
  \A e \in ToSet(s) \cup ToSet(t) :
    Cardinality({k \in DOMAIN s : s[k] = e})
      = Cardinality({k \in DOMAIN t : t[k] = e})
Right(cmd, out, s) ==
  CASE cmd.op = "showAll" -> out = s
    [] cmd.op = "listGrades" -> out = SubSeq(s, 1, Least(First, Len(s)))
    [] cmd.op = "listSome" ->
         IF cmd.page < 1 \/ cmd.num < 1 THEN out = <<>>
         ELSE out = SubSeq(s, (cmd.page - 1) * cmd.num + 1,
                           Least(cmd.page * cmd.num, Len(s)))
    [] cmd.op = "searchStudent" ->
         out # <<>> => out[1] \in ToSet(s) /\ out[1].name = cmd.name
    [] cmd.op = "sortAll" ->
         /\ SamePlaces([i \in DOMAIN out |-> [name |-> out[i].name,
                                              grade |-> out[i].grade]],
                       Shortened(Sortable(s), MaxElements))
         /\ \A i \in 1 .. Len(out) - 1 : ~Greater(out[i], out[i + 1], cmd)
Whole(r) == r.whole /\ Junk \notin ToSet(r.output)
ListedRight ==
  \A r \in printed : Whole(r) =>
    \E n \in r.base .. Len(file) : Right(r.cmd, r.output, SubSeq(file, 1, n))

(* What the comments in the source say of two of the listings, and the     *)
(* code does not keep: listGrades writes "the first 5 entries to the       *)
(* console", and listSome keeps the last part of the buffer for the next,  *)
(* so that a page has whole entries.                                       *)
OnlyEntries(op) ==
  \A r \in printed : r.cmd.op = op => Junk \notin ToSet(r.output)
FirstAreEntries == OnlyEntries("listGrades")
PagesAreEntries == OnlyEntries("listSome")

(* The program comes to an end, but for children of forkTester, when its   *)
(* input does, or when somebody types "exit" or ^D once for the first      *)
(* process and once more for every command that has forked: each ends the  *)
(* process that happens to read it.                                        *)
Ending == {i \in DOMAIN typed : typed[i].op \in {"exit", "eof"}}
Forking == {i \in DOMAIN typed : typed[i].op \notin {"exit", "eof", "blank"}}
EveryoneEnds ==
  scenario.input = "pipe" \/ Cardinality(Ending) > Cardinality(Forking) =>
    <>(\A p \in Procs : pc[p] \in {"none", "ended", "spin"})
=============================================================================
