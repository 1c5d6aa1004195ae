----------------------------- MODULE Palindrome -----------------------------
(***************************************************************************)
(* exercises/1/a/ispalindrom: the lines of the standard input are filtered *)
(* into a word, which is compared with its reverse.  Letters come in two   *)
(* cases; any other character but a space stands for those the filter      *)
(* drops.                                                                  *)
(***************************************************************************)
EXTENDS Integers, SequencesExt

CONSTANT MAX_LENGTH  \* 40 in the code

MIN_LENGTH == 2

Blank == "sp"
EndOfLine == "nl"
Upper == {"A", "B"}
Alnum == {"a", "b"} \cup Upper
ToLower(c) == IF c = "A" THEN "a" ELSE IF c = "B" THEN "b" ELSE c

\* parse_args(): a word of the command line is the sequence of the options
\* in it, an empty one if it is no option.
CountOption(words, o) == Len(SelectSeq(FlattenSeq(words), LAMBDA x : x = o))

ArgumentError(words) ==
  LET s == CountOption(words, "s")
      i == CountOption(words, "i")
  IN  s > 1 \/ i > 1 \/ 1 + Len(words) - i - s > 1

IsPalindrome(word) ==
  \A i \in DOMAIN word : word[i] = word[Len(word) + 1 - i]

\* What a character adds to the word, if there is room.
Keep(opt_s, opt_i, word, c) ==
  IF Len(word) >= MAX_LENGTH THEN word
  ELSE CASE c = Blank /\ ~opt_s -> Append(word, c)
         [] c \in Alnum         -> Append(word, IF opt_i THEN ToLower(c) ELSE c)
         [] OTHER               -> word

\* Mutant: the length test is off by one.
VerdictUnbounded(word) ==
  CASE Len(word) > MAX_LENGTH -> "too long"
    [] Len(word) < MIN_LENGTH -> "too short"
    [] OTHER -> IF IsPalindrome(word) THEN "palindrome" ELSE "no palindrome"

\* A word of MAX_LENGTH characters may have lost some, and counts as too long.
Verdict(word) ==
  CASE Len(word) >= MAX_LENGTH -> "too long"
    [] Len(word) < MIN_LENGTH  -> "too short"
    [] OTHER -> IF IsPalindrome(word) THEN "palindrome" ELSE "no palindrome"

ReadCharacter(opt_s, opt_i, w, c) ==
  IF c = EndOfLine
  THEN [word |-> <<>>, said |-> Append(w.said, Verdict(w.word))]
  ELSE [w EXCEPT !.word = Keep(opt_s, opt_i, @, c)]

\* The end of the input ends a line, also an empty one.
PalindromeRun(words, stdin) ==
  LET opt_s == CountOption(words, "s") > 0
      opt_i == CountOption(words, "i") > 0
  IN  IF ArgumentError(words) THEN <<>>
      ELSE FoldLeft(LAMBDA w, c : ReadCharacter(opt_s, opt_i, w, c),
                    [word |-> <<>>, said |-> <<>>],
                    Append(stdin, EndOfLine)).said

=============================================================================
