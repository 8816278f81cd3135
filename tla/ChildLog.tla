------------------------------ MODULE ChildLog ------------------------------
(***************************************************************************)
(* How the plugin runs setupRoot, unsetupRoot and extern_setup             *)
(* (forkAndExecvLogToSlurm in shifterSpank.c): the child writes lines into *)
(* two pipes, the parent reads a line of the one and a line of the other   *)
(* in turn, until one of them ends, and then waits for the child.          *)
(***************************************************************************)
EXTENDS Naturals, Sequences, FiniteSets

CONSTANTS
  Programs,   \* what a child writes: sequences of "out" and "err"
  Room        \* lines that a pipe holds

ASSUME ChildLogAssumption == Programs \subseteq Seq({"out", "err"}) /\ Room \in Nat \ {0}

VARIABLES
  program, written,   \* the child's lines, and how many it has written
  status,             \* of the child: Running, or how it ended, 0, 1 or 15
  pipe,               \* lines in the pipes
  ended,              \* the streams that the parent has closed
  reader,             \* where it is: "out", "err", "wait", "over"
  logged,             \* lines it has logged, by stream
  reported            \* what the caller gets, and Running before that

chvars == <<program, written, status, pipe, ended, reader, logged, reported>>

Streams == {"out", "err"}
Running == 16
Zero == [s \in Streams |-> 0]

ChildLogStart(p) ==
  /\ program = p /\ written = 0 /\ status = Running
  /\ pipe = Zero /\ ended = {} /\ reader = "out" /\ logged = Zero /\ reported = Running

ChildLogInit == \E p \in Programs : ChildLogStart(p)

Runs == status = Running
-----------------------------------------------------------------------------
\* The child blocks in a write to a pipe that is full.
Blocked == Runs /\ written < Len(program) /\ pipe[program[written + 1]] = Room

Write1 ==
  /\ Runs /\ written < Len(program) /\ ~Blocked
  /\ written' = written + 1
  /\ pipe' = [pipe EXCEPT ![program[written + 1]] = @ + 1]
  /\ UNCHANGED <<program, status, ended, reader, logged, reported>>

\* It exits at its end, or is killed.
ChildEnds ==
  /\ Runs
  /\ \/ written = Len(program) /\ status' \in {0, 1}
     \/ status' = 15
  /\ UNCHANGED <<program, written, pipe, ended, reader, logged, reported>>

\* getline of the stream: a line, or its end.  The other is next, and the
\* loop is left before stdout when one of them has ended.
ReadLine(s) ==
  /\ reader = s
  /\ \/ pipe[s] > 0 /\ pipe' = [pipe EXCEPT ![s] = @ - 1]
        /\ logged' = [logged EXCEPT ![s] = @ + 1] /\ UNCHANGED ended
     \/ pipe[s] = 0 /\ ~Runs /\ ended' = ended \cup {s} /\ UNCHANGED <<pipe, logged>>
  /\ reader' = IF s = "out" THEN "err" ELSE IF ended' = {} THEN "out" ELSE "wait"
  /\ UNCHANGED <<program, written, status, reported>>

\* Mistake: a child that was killed has no exit status and passes.
ResultOfExit == IF status = 1 THEN 1 ELSE 0

\* waitpid: any status but 0 is an error.
Result == IF status = 0 THEN 0 ELSE 1

WaitChild ==
  /\ reader = "wait" /\ ~Runs
  /\ reader' = "over" /\ reported' = Result
  /\ UNCHANGED <<program, written, status, pipe, ended, logged>>

ChildLogNext == Write1 \/ ChildEnds \/ (\E s \in Streams : ReadLine(s)) \/ WaitChild
-----------------------------------------------------------------------------
Count(s, n) == Cardinality({k \in 1 .. n : program[k] = s})

\* The parent waits for a line of one stream while the child waits for room
\* in the other.
Deadlocked == Blocked /\ reader \in Streams /\ pipe[reader] = 0

Other(s) == IF s = "out" THEN "err" ELSE "out"

\* Parent and child wait for each other only when the child has written more
\* to one stream than to the other, by more than a pipe holds.  A child that
\* did not exit with 0 is never taken for one that did.  Of what it wrote to
\* one stream there are logged as many lines as it wrote to the other, and
\* one more: nothing is missing of the stream with less.
ChildHeard ==
  /\ Deadlocked => \E n \in 1 .. Len(program), s \in Streams :
                     Count(s, n) > Count(Other(s), n) + Room
  /\ reader = "over" =>
       /\ reported = 0 <=> status = 0
       /\ \A s \in Streams :
            LET all == Count(s, written)
                some == Count(Other(s), written) + 1
            IN  logged[s] = IF all < some THEN all ELSE some

\* All that the child wrote is logged.
AllHeard == reader = "over" => \A s \in Streams : logged[s] = Count(s, written)
=============================================================================
