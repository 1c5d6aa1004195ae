------------------------------- MODULE Expand -------------------------------
(***************************************************************************)
(* exercises/1/a/myexpand: tabs are replaced with spaces.  A character is  *)
(* Tab, Newline, Space or anything else; a file is a sequence of           *)
(* characters or, if it cannot be opened, MissingFile.                     *)
(***************************************************************************)
EXTENDS Integers, SequencesExt

Tab == "tab"
Newline == "nl"
Space == "sp"
MissingFile == <<"missing">>

\* Arguments of -t that are no number: letters, and the empty string, which
\* contains only digits but leaves the default.
NotDigits == -1
NoDigits == -2

Spaces(n) == [i \in 1 .. n |-> Space]

\* Mutant: a tab in a column that is a tab stop is lost.
SpacesToStopShort(x, t) == (t - (x % t)) % t

SpacesToStop(x, t) == t * ((x \div t) + 1) - x

\* One round of the loop: x is the column as the program counts it, which
\* grows by one with a tab, too; x / 0 ends the process.
Copy(t, w, c) ==
  CASE w.crashed    -> w
    [] c = Newline  -> [w EXCEPT !.out = Append(@, c), !.x = 0]
    [] c = Tab      -> IF t = 0 THEN [w EXCEPT !.crashed = TRUE]
                       ELSE [w EXCEPT !.out = @ \o Spaces(SpacesToStop(w.x, t)),
                                      !.x = @ + 1]
    [] OTHER        -> [w EXCEPT !.out = Append(@, c), !.x = @ + 1]

ReplaceTabs(t, w, file) ==
  IF file = MissingFile \/ w.crashed THEN w
  ELSE FoldLeft(LAMBDA v, c : Copy(t, v, c), [w EXCEPT !.x = 0], file)

\* -t may be given once.
UsageError(tabstops) == Len(tabstops) > 1 \/ NotDigits \in ToSet(tabstops)

TabstopOf(tabstops) ==
  IF tabstops = <<>> \/ tabstops = <<NoDigits>> THEN 8 ELSE tabstops[1]

ExpandRun(tabstops, files, stdin) ==
  LET start == [out |-> <<>>, x |-> 0, crashed |-> FALSE]
      t == TabstopOf(tabstops)
  IN  IF UsageError(tabstops) THEN [exit |-> "failure", out |-> <<>>]
      ELSE LET w == FoldLeft(LAMBDA v, f : ReplaceTabs(t, v, f), start,
                             IF files = <<>> THEN <<stdin>> ELSE files)
           IN  [exit |-> IF w.crashed THEN "crash" ELSE "success", out |-> w.out]

=============================================================================
