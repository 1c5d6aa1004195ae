----------------------------- MODULE CountEncode -----------------------------
(***************************************************************************)
(* exams/2/fork: count sends the lengths of the pieces of a file through a *)
(* pipe to its child, which becomes encode and prints them to a second     *)
(* file.  A file is the sequence of the positions at which its lines end,  *)
(* newlines included; the character l + '0' that stands for a length l is  *)
(* different for every l up to 19, so a count is its length.               *)
(***************************************************************************)
EXTENDS Integers, Sequences

CONSTANTS
  Inputs,    \* the files
  MaxPiece,  \* 19 in the code: fgets() with a buffer of 20
  Capacity,  \* the pipe, in counts
  Failures,  \* may fork(), fopen() and execl() fail?
  Mortal     \* may the child be killed?

\* The i-th position of a sequence of positions.
At(positions, i) == IF i = 0 THEN 0 ELSE positions[i]

IsFile(positions) ==
  /\ positions \in Seq(Nat)
  /\ \A i \in DOMAIN positions : positions[i] > At(positions, i - 1)

ASSUME PiecesAssumption ==
  /\ \A positions \in Inputs : IsFile(positions)
  /\ MaxPiece \in Nat \ {0}
  /\ Capacity \in Nat \ {0}
  /\ Failures \in BOOLEAN
  /\ Mortal \in BOOLEAN

VARIABLES
  input,   \* history: the file
  file,    \* the lines of it that are left
  read,    \* history: the positions in the file after each piece
  filew,   \* counts in the stream buffer of count
  pipe,    \* counts in the pipe
  printed, \* counts in the stream buffer of encode
  output,  \* the second file
  parent,  \* what count does next
  child    \* what its child does next

countVars == <<input, file, read, filew, pipe, printed, output, parent, child>>

Offset == At(read, Len(read))

CountInit ==
  /\ input \in Inputs /\ file = input
  /\ read = <<>> /\ filew = <<>> /\ pipe = <<>> /\ printed = <<>> /\ output = <<>>
  /\ parent = "fork" /\ child = "none"

ParentGone == parent \in {"ended", "killed"}

ChildGone == child \in {"none", "done", "crashed", "unconverted", "killed"}

-----------------------------------------------------------------------------
\* A fork() that fails returns -1, which the code takes for a child.
Fork ==
  /\ parent = "fork"
  /\ parent' = "open"
  /\ \/ child' = "open"
     \/ Failures /\ UNCHANGED child
  /\ UNCHANGED <<input, file, read, filew, pipe, printed, output>>

\* fgets() with a missing file ends the process.
OpenInput ==
  /\ parent = "open"
  /\ parent' \in {"read"} \cup IF Failures THEN {"killed"} ELSE {}
  /\ UNCHANGED <<input, file, read, filew, pipe, printed, output, child>>

\* Mutant: the rest of a long line is dropped.
CountFirstPiece ==
  /\ parent = "read" /\ file # <<>>
  /\ file' = Tail(file) /\ read' = Append(read, Head(file))
  /\ LET l == Head(file) - Offset
     IN  filew' = Append(filew, IF l <= MaxPiece THEN l ELSE MaxPiece)
  /\ UNCHANGED <<input, pipe, printed, output, parent, child>>

\* fgets(), strlen() and fprintf(): the rest of a line, or 19 characters of it.
CountPiece ==
  /\ parent = "read" /\ file # <<>>
  /\ LET rest == Head(file) - Offset
         l == IF rest <= MaxPiece THEN rest ELSE MaxPiece
     IN  /\ file' = IF rest <= MaxPiece THEN Tail(file) ELSE file
         /\ read' = Append(read, Offset + l)
         /\ filew' = Append(filew, l)
  /\ UNCHANGED <<input, pipe, printed, output, parent, child>>

\* The stream writes at fclose() at the latest; SIGPIPE ends a process that
\* writes when nobody can read.
WriteCount ==
  /\ parent = "read" /\ filew # <<>>
  /\ IF ChildGone
     THEN parent' = "killed" /\ UNCHANGED <<filew, pipe>>
     ELSE /\ Len(pipe) < Capacity
          /\ pipe' = Append(pipe, Head(filew))
          /\ filew' = Tail(filew)
          /\ UNCHANGED parent
  /\ UNCHANGED <<input, file, read, printed, output, child>>

CloseFiles ==
  /\ parent = "read" /\ file = <<>> /\ filew = <<>>
  /\ parent' = "wait"
  /\ UNCHANGED <<input, file, read, filew, pipe, printed, output, child>>

\* wait() returns at once if there is no child; its status is not used.
Wait ==
  /\ parent = "wait" /\ ChildGone
  /\ parent' = "ended"
  /\ UNCHANGED <<input, file, read, filew, pipe, printed, output, child>>

-----------------------------------------------------------------------------
\* close(), dup2(), fopen(): fileno() of a missing file ends the process.
OpenOutput ==
  /\ child = "open"
  /\ child' \in {"exec"} \cup IF Failures THEN {"crashed"} ELSE {}
  /\ UNCHANGED <<input, file, read, filew, pipe, printed, output, parent>>

\* An execl() that fails returns, and the child ends as if all were well.
Exec ==
  /\ child = "exec"
  /\ child' \in {"encode"} \cup IF Failures THEN {"unconverted"} ELSE {}
  /\ UNCHANGED <<input, file, read, filew, pipe, printed, output, parent>>

Encode ==
  /\ child = "encode" /\ pipe # <<>>
  /\ printed' = Append(printed, Head(pipe))
  /\ pipe' = Tail(pipe)
  /\ UNCHANGED <<input, file, read, filew, output, parent, child>>

\* Mutant: the parent closes its stream after wait().
EndOfInputLate ==
  /\ child = "encode" /\ pipe = <<>>
  /\ ParentGone
  /\ output' = printed
  /\ child' = "done"
  /\ UNCHANGED <<input, file, read, filew, pipe, printed, parent>>

\* The end of the input needs every write end of the pipe closed: that of
\* the parent, which fclose() or its end closes, and the copy of the child.
EndOfInput ==
  /\ child = "encode" /\ pipe = <<>>
  /\ parent = "wait" \/ ParentGone
  /\ output' = printed
  /\ child' = "done"
  /\ UNCHANGED <<input, file, read, filew, pipe, printed, parent>>

\* The output so far may have been written.
KillChild ==
  /\ Mortal /\ ~ChildGone
  /\ output' \in {output, printed}
  /\ child' = "killed"
  /\ UNCHANGED <<input, file, read, filew, pipe, printed, parent>>

ParentStep == Fork \/ OpenInput \/ CountPiece \/ WriteCount \/ CloseFiles \/ Wait

ChildStep == OpenOutput \/ Exec \/ Encode \/ EndOfInput

CountNext == ParentStep \/ ChildStep \/ KillChild

CountSpec == CountInit /\ [][CountNext]_countVars

CountFairSpec == CountSpec /\ WF_countVars(ParentStep) /\ WF_countVars(ChildStep)

-----------------------------------------------------------------------------
Ends(positions) == {positions[i] : i \in DOMAIN positions}

(***************************************************************************)
(* If count ends with success and its child ran encode to the end, the     *)
(* output counts every character once: it ends a piece at each newline,    *)
(* and elsewhere only because the buffer is full.                          *)
(***************************************************************************)
CountsComplete ==
  parent = "ended" /\ child = "done" =>
    /\ Len(output) = Len(read)
    /\ \A i \in DOMAIN output :
         /\ output[i] \in 1 .. MaxPiece
         /\ read[i] = At(read, i - 1) + output[i]
         /\ output[i] < MaxPiece => read[i] \in Ends(input)
    /\ Offset = At(input, Len(input))
    /\ Ends(input) \subseteq Ends(read)

(***************************************************************************)
(* Both processes end, whatever fails: nobody waits for input that cannot  *)
(* come, because every process closes the end of the pipe it does not use. *)
(***************************************************************************)
BothEnd == parent # "fork" ~> ParentGone /\ ChildGone

=============================================================================
