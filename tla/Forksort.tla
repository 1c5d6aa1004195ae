------------------------------ MODULE Forksort ------------------------------
(***************************************************************************)
(* forksort sorts lines by handing each half of them to a copy of itself.  *)
(* A process is named by its path from the root: child 1 or child 2 of     *)
(* child 1 or 2 ...  It reads a number and that many lines from its stdin, *)
(* feeds, awaits and collects its first child and then its second one, and *)
(* merges what they printed.  Parent and child are joined by two pipes of  *)
(* bounded capacity.  A line is a number here: strcmp() orders lines.      *)
(***************************************************************************)
EXTENDS Integers, Sequences, FiniteSets

CONSTANTS
  Inputs,     \* what the user types: sequences, the first item is the number
  Depth,      \* length of the longest path
  Capacity,   \* lines that a pipe holds
  Mortal,     \* may processes be killed?
  ForkFails   \* may fork() fail?

ASSUME ConstantsAssumption ==
  /\ Inputs \subseteq Seq(Int)
  /\ Depth \in Nat
  /\ Capacity \in Nat \ {0}
  /\ Mortal \in BOOLEAN
  /\ ForkFails \in BOOLEAN

\* The tree is deep enough for the inputs: at most most[d] lines reach a
\* process at depth d, and one at the longest path has no need of children.
DeepEnough(most) ==
  /\ most \in [0 .. Depth -> Nat]
  /\ \A in \in Inputs : in # <<>> => in[1] <= most[0]
  /\ \A d \in 1 .. Depth : most[d] >= most[d - 1] - most[d - 1] \div 2
  /\ most[Depth] <= 1

VARIABLES
  pc,       \* what each process does next
  n,        \* num_of_elements
  strings,  \* the lines it has read
  sub,      \* sub_strings1 and sub_strings2; merging takes lines away
  sent,     \* lines written to the child that is being fed
  stdin,    \* lines in the pipe, or file, from which it reads
  stdout,   \* lines in the pipe, or file, to which it prints
  input     \* history: what the user typed

vars == <<pc, n, strings, sub, sent, stdin, stdout, input>>

Child == {1, 2}

Procs == UNION {[1 .. d -> Child] : d \in 0 .. Depth}

Root == <<>>

Parent(p) == SubSeq(p, 1, Len(p) - 1)

ChildOf(p, k) == Append(p, k)

Ended == {"ok", "failed"}

\* Phases in which the write end of the stdin of child k is open.
Feeding(k) == IF k = 1 THEN {"count1", "feed1"} ELSE {"count2", "feed2"}

Fork(k)    == IF k = 1 THEN "fork1" ELSE "fork2"
Count(k)   == IF k = 1 THEN "count1" ELSE "count2"
Feed(k)    == IF k = 1 THEN "feed1" ELSE "feed2"
Wait(k)    == IF k = 1 THEN "wait1" ELSE "wait2"
Collect(k) == IF k = 1 THEN "collect1" ELSE "collect2"
After(k)   == IF k = 1 THEN "fork2" ELSE "merge"

Labels == {"unborn", "number", "read", "print", "merge"} \cup Ended
          \cup UNION {{Fork(k), Count(k), Feed(k), Wait(k), Collect(k)} : k \in Child}

\* Mutant: the second half is as long as the first one.
SizeHalved(p, k) == n[p] \div 2

\* The half of child k: its size, and the number of lines before it.
Size(p, k)   == IF k = 1 THEN n[p] \div 2 ELSE n[p] - n[p] \div 2
Offset(p, k) == IF k = 1 THEN 0 ELSE n[p] \div 2

Init ==
  /\ input \in Inputs
  /\ pc = [p \in Procs |-> IF p = Root THEN "number" ELSE "unborn"]
  /\ n = [p \in Procs |-> 0]
  /\ strings = [p \in Procs |-> <<>>]
  /\ sub = [p \in Procs |-> [k \in Child |-> <<>>]]
  /\ sent = [p \in Procs |-> 0]
  /\ stdin = [p \in Procs |-> IF p = Root THEN input ELSE <<>>]
  /\ stdout = [p \in Procs |-> <<>>]

-----------------------------------------------------------------------------
At(p, label) == pc[p] = label

Goto(p, label) == pc' = [pc EXCEPT ![p] = label]

\* bail_out(EXIT_FAILURE), or the end by SIGPIPE.
Fail(p) == Goto(p, "failed")

\* fgets() has nothing to return and never will.
EndOfFile(p) ==
  stdin[p] = <<>> /\ (p # Root => pc[Parent(p)] \notin Feeding(p[Len(p)]))

\* The number of lines comes first.
ReadNumber(p) ==
  /\ At(p, "number")
  /\ \/ EndOfFile(p) /\ Fail(p) /\ UNCHANGED <<n, stdin>>
     \/ /\ stdin[p] # <<>>
        /\ stdin' = [stdin EXCEPT ![p] = Tail(@)]
        /\ n' = [n EXCEPT ![p] = Head(stdin[p])]
        /\ IF n'[p] < 1 THEN Fail(p) ELSE Goto(p, "read")
  /\ UNCHANGED <<strings, sub, sent, stdout, input>>

\* Mutant: one line too many is read.
ReadLineMore(p) ==
  /\ At(p, "read")
  /\ \/ EndOfFile(p) /\ Fail(p) /\ UNCHANGED <<strings, stdin>>
     \/ /\ stdin[p] # <<>>
        /\ stdin' = [stdin EXCEPT ![p] = Tail(@)]
        /\ strings' = [strings EXCEPT ![p] = Append(@, Head(stdin[p]))]
        /\ Goto(p, IF Len(strings'[p]) <= n[p] THEN "read"
                   ELSE IF n[p] = 1 THEN "print" ELSE "fork1")
  /\ UNCHANGED <<n, sub, sent, stdout, input>>

\* Then the lines; a single one is printed, more of them are split.
ReadLine(p) ==
  /\ At(p, "read")
  /\ \/ EndOfFile(p) /\ Fail(p) /\ UNCHANGED <<strings, stdin>>
     \/ /\ stdin[p] # <<>>
        /\ stdin' = [stdin EXCEPT ![p] = Tail(@)]
        /\ strings' = [strings EXCEPT ![p] = Append(@, Head(stdin[p]))]
        /\ Goto(p, IF Len(strings'[p]) < n[p] THEN "read"
                   ELSE IF n[p] = 1 THEN "print" ELSE "fork1")
  /\ UNCHANGED <<n, sub, sent, stdout, input>>

\* forked_child: pipes, fork, and in the child dup2 and execlp.
ForkChild(p, k) ==
  /\ At(p, Fork(k))
  /\ \/ pc' = [pc EXCEPT ![p] = Count(k), ![ChildOf(p, k)] = "number"]
     \/ ForkFails /\ Fail(p)
  /\ sent' = [sent EXCEPT ![p] = 0]
  /\ UNCHANGED <<n, strings, sub, stdin, stdout, input>>

\* write() to the stdin of child k: it blocks on a full pipe, and SIGPIPE
\* ends a process that writes to a child that is gone.
Write(p, k, line) ==
  LET c == ChildOf(p, k)
  IN  /\ pc[c] \notin Ended
      /\ Len(stdin[c]) < Capacity
      /\ stdin' = [stdin EXCEPT ![c] = Append(@, line)]

Broken(p, k) == pc[ChildOf(p, k)] \in Ended /\ Fail(p)

SendCount(p, k) ==
  /\ At(p, Count(k))
  /\ \/ Write(p, k, Size(p, k)) /\ Goto(p, Feed(k))
     \/ Broken(p, k) /\ UNCHANGED stdin
  /\ UNCHANGED <<n, strings, sub, sent, stdout, input>>

\* The half is written line by line, then the pipe is closed.
SendLine(p, k) ==
  /\ At(p, Feed(k))
  /\ \/ /\ sent[p] < Size(p, k)
        /\ Write(p, k, strings[p][Offset(p, k) + sent[p] + 1])
        /\ sent' = [sent EXCEPT ![p] = @ + 1]
        /\ UNCHANGED pc
     \/ /\ sent[p] < Size(p, k)
        /\ Broken(p, k)
        /\ UNCHANGED <<stdin, sent>>
     \/ /\ sent[p] = Size(p, k)
        /\ Goto(p, Wait(k))
        /\ UNCHANGED <<stdin, sent>>
  /\ UNCHANGED <<n, strings, sub, stdout, input>>

\* Mutant: only a child that succeeded is taken for one that has ended.
AwaitSuccess(p, k) ==
  /\ At(p, Wait(k))
  /\ pc[ChildOf(p, k)] = "ok"
  /\ Goto(p, Collect(k))
  /\ UNCHANGED <<n, strings, sub, sent, stdin, stdout, input>>

\* wait() returns when the child has ended; its status is not looked at.
Await(p, k) ==
  /\ At(p, Wait(k))
  /\ pc[ChildOf(p, k)] \in Ended
  /\ Goto(p, Collect(k))
  /\ UNCHANGED <<n, strings, sub, sent, stdin, stdout, input>>

\* fgets() from the stdout of the child, which has ended.
CollectLine(p, k) ==
  /\ At(p, Collect(k))
  /\ LET c == ChildOf(p, k)
     IN  \/ stdout[c] = <<>> /\ Fail(p) /\ UNCHANGED <<sub, stdout>>
         \/ /\ stdout[c] # <<>>
            /\ stdout' = [stdout EXCEPT ![c] = Tail(@)]
            /\ sub' = [sub EXCEPT ![p][k] = Append(@, Head(stdout[c]))]
            /\ Goto(p, IF Len(sub'[p][k]) < Size(p, k) THEN Collect(k) ELSE After(k))
  /\ UNCHANGED <<n, strings, sent, stdin, input>>

\* fprintf(stdout): the stdout of the root is not a pipe of this program.
Emit(p, line) ==
  /\ p # Root => /\ pc[Parent(p)] \notin Ended
                 /\ Len(stdout[p]) < Capacity
  /\ stdout' = [stdout EXCEPT ![p] = Append(@, line)]

ReaderGone(p) == p # Root /\ pc[Parent(p)] \in Ended

\* A single line is its own sorted sequence.
PrintSingle(p) ==
  /\ At(p, "print")
  /\ \/ Emit(p, strings[p][1]) /\ Goto(p, "ok")
     \/ ReaderGone(p) /\ Fail(p) /\ UNCHANGED stdout
  /\ UNCHANGED <<n, strings, sub, sent, stdin, input>>

\* Mutant: the comparison is the wrong way round.
SourceReversed(p) ==
  IF sub[p][2] = <<>> \/ (sub[p][1] # <<>> /\ Head(sub[p][1]) > Head(sub[p][2]))
  THEN 1 ELSE 2

\* merge_sort: which half the next line comes from.
Source(p) ==
  IF sub[p][2] = <<>> \/ (sub[p][1] # <<>> /\ Head(sub[p][1]) < Head(sub[p][2]))
  THEN 1 ELSE 2

Merge(p) ==
  /\ At(p, "merge")
  /\ \/ /\ sub[p] # [k \in Child |-> <<>>]
        /\ Emit(p, Head(sub[p][Source(p)]))
        /\ sub' = [sub EXCEPT ![p][Source(p)] = Tail(@)]
        /\ UNCHANGED pc
     \/ /\ sub[p] # [k \in Child |-> <<>>]
        /\ ReaderGone(p) /\ Fail(p)
        /\ UNCHANGED <<sub, stdout>>
     \/ /\ sub[p] = [k \in Child |-> <<>>]
        /\ Goto(p, "ok")
        /\ UNCHANGED <<sub, stdout>>
  /\ UNCHANGED <<n, strings, sent, stdin, input>>

Kill(p) ==
  /\ Mortal
  /\ pc[p] \notin Ended \cup {"unborn"}
  /\ Fail(p)
  /\ UNCHANGED <<n, strings, sub, sent, stdin, stdout, input>>

ProcNext(p) ==
  \/ ReadNumber(p) \/ ReadLine(p) \/ PrintSingle(p) \/ Merge(p)
  \/ \E k \in Child :
       \/ ForkChild(p, k) \/ SendCount(p, k) \/ SendLine(p, k)
       \/ Await(p, k) \/ CollectLine(p, k)

Next == \E p \in Procs : ProcNext(p) \/ Kill(p)

Spec == Init /\ [][Next]_vars

\* The kernel schedules every process that can run.
FairSpec == Spec /\ \A p \in Procs : WF_vars(ProcNext(p))

-----------------------------------------------------------------------------
TypeOK ==
  /\ pc \in [Procs -> Labels]
  /\ n \in [Procs -> Int]
  /\ strings \in [Procs -> Seq(Int)]
  /\ sub \in [Procs -> [Child -> Seq(Int)]]
  /\ sent \in [Procs -> Nat]
  /\ stdin \in [Procs -> Seq(Int)]
  /\ stdout \in [Procs -> Seq(Int)]
  /\ input \in Seq(Int)
  /\ \A p \in Procs : pc[p] # "failed" =>   \* the arrays are that long
       /\ Len(strings[p]) <= n[p]
       /\ \A k \in Child : sent[p] <= n[p] /\ Len(sub[p][k]) <= Size(p, k)

\* The lines that the user asked to have sorted, if there are that many.
Asked == SubSeq(input, 2, input[1] + 1)

\* The i-th line of s is the i-th smallest of t, for every i.
SortedPrefix(s, t) ==
  \A i \in 1 .. Len(s) :
    /\ Cardinality({j \in 1 .. Len(t) : t[j] < s[i]}) < i
    /\ Cardinality({j \in 1 .. Len(t) : t[j] <= s[i]}) >= i

(***************************************************************************)
(* Whatever processes fail or are killed, what the user sees is the        *)
(* beginning of the sorted lines, never a line that is out of place.       *)
(***************************************************************************)
OutputIsPrefix == stdout[Root] # <<>> => SortedPrefix(stdout[Root], Asked)

(***************************************************************************)
(* The exit status of the children is ignored, and yet the program only    *)
(* succeeds if every line has come back, and leaves no process behind.     *)
(***************************************************************************)
SuccessIsComplete ==
  pc[Root] = "ok" =>
    /\ Len(stdout[Root]) = input[1]
    /\ \A p \in Procs : pc[p] \in Ended \cup {"unborn"}
    /\ \A p \in Procs \ {Root} : stdout[p] = <<>>

\* Every process that was started ends, whatever happens to the others.
EverybodyEnds == <>[](\A p \in Procs : pc[p] \in Ended \cup {"unborn"})

=============================================================================
