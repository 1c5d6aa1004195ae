------------------------------ MODULE ListTool ------------------------------
(***************************************************************************)
(* exams/1/ex1/listtool.c as a function from its arguments to what it      *)
(* prints and does to the list.  The list itself is made by an object file *)
(* and is a sequence here; -1 stands for an option that was not given.     *)
(***************************************************************************)
EXTENDS Integers, SequencesExt

\* An option is <<"s">>, <<"a", n>> or <<"?">>.  usage() does not return.
HandleOption(opts, o) ==
  IF opts.usage THEN opts
  ELSE CASE o[1] = "s" -> IF opts.s # -1 THEN [opts EXCEPT !.usage = TRUE]
                                         ELSE [opts EXCEPT !.s = 1]
         [] o[1] = "a" -> IF opts.a # -1 THEN [opts EXCEPT !.usage = TRUE]
                                         ELSE [opts EXCEPT !.a = o[2]]
         [] OTHER      -> [opts EXCEPT !.usage = TRUE]

ParseOptions(args) ==
  FoldLeft(HandleOption, [s |-> -1, a |-> -1, usage |-> FALSE], args)

PrintsUsage(opts, strings) ==
  \/ opts.usage
  \/ opts.s # -1 /\ opts.a # -1
  \/ opts.s = -1 /\ opts.a = -1
  \/ strings = <<>>

Search(list, value) ==
  [i \in DOMAIN list |-> IF list[i] = value THEN "yes" ELSE "no"]

\* Mutant: the walk leaves the loop before it remembers the element.
LastVisitedEarly(list, n) ==
  FoldLeft(LAMBDA w, k : IF w.stop \/ w.i = n THEN [w EXCEPT !.stop = TRUE]
                         ELSE [last |-> k, i |-> w.i + 1, stop |-> FALSE],
           [last |-> 1, i |-> 0, stop |-> FALSE],
           [k \in DOMAIN list |-> k]).last

\* The walk remembers each element and stops at the one with number n.
LastVisited(list, n) ==
  FoldLeft(LAMBDA w, k : IF w.stop THEN w
                         ELSE [last |-> k, i |-> w.i + 1, stop |-> w.i = n],
           [last |-> 1, i |-> 0, stop |-> FALSE],
           [k \in DOMAIN list |-> k]).last

InsertAfter(list, last, value) ==
  SubSeq(list, 1, last) \o <<value>> \o SubSeq(list, last + 1, Len(list))

\* main(): the first of the strings that are left is the one looked for or
\* inserted.
ListToolRun(args, strings, list) ==
  LET opts == ParseOptions(args)
  IN  IF PrintsUsage(opts, strings)
      THEN [exit |-> "failure", printed |-> <<>>, list |-> list]
      ELSE [exit    |-> "success",
            printed |-> IF opts.s # -1 THEN Search(list, strings[1]) ELSE <<>>,
            list    |-> IF opts.a # -1
                        THEN InsertAfter(list, LastVisited(list, opts.a), strings[1])
                        ELSE list]

=============================================================================
