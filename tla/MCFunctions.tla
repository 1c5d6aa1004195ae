---------------------------- MODULE MCFunctions ----------------------------
(***************************************************************************)
(* The functions of the sequential programs, and of the others where they  *)
(* compute, against definitions that do not follow the code.  A state is   *)
(* one sample: arguments for one of the functions.  (The properties of the *)
(* boards are in BattleshipsRule, those of the score in MastermindRule.)   *)
(***************************************************************************)
EXTENDS BattleshipsRule, MastermindRule, ListTool, Expand, Palindrome

CONSTANT MCSecrets

UpTo(n, S) == UNION {[1 .. k -> S] : k \in 0 .. n}

-----------------------------------------------------------------------------
\* Secrets with one, two, three and five different colours.
FiveSlotSecrets ==
  {[j \in Slots |-> s[j + 1]] :
     s \in {<<7, 7, 7, 7, 7>>, <<2, 0, 2, 0, 2>>, <<3, 3, 5, 6, 3>>,
           <<0, 1, 2, 3, 4>>}}

-----------------------------------------------------------------------------
ListOptions == {<<"s">>, <<"?">>} \cup {<<"a", n>> : n \in {-2, -1, 0, 1, 2, 5}}

ListSamples ==
  [of : {"list"}, args : UpTo(3, ListOptions),
   strings : {<<>>, <<"ss">>, <<"ss", "osue">>},
   list : {<<"head">>, <<"head", "osue", "ss">>}]

(***************************************************************************)
(* The synopsis of the list tool (listtool.c:142-147): "-s and -a are only *)
(* allowed once", "one of them has to be given", "<string> is mandatory".  *)
(* The tool should run exactly if its arguments are of that form; see      *)
(* SomeTextHolds in MCPrograms.                                            *)
(***************************************************************************)
Conforming(args, strings) ==
  Len(args) = 1 /\ args[1] # <<"?">> /\ strings # <<>>

SynopsisHolds(args, strings) ==
  (ListToolRun(args, strings, <<"head">>).exit = "success") = Conforming(args, strings)

(***************************************************************************)
(* When the list tool runs, it does what it was asked for (listtool.c:148- *)
(* 167): -s says for each element whether it is the string, -a puts the    *)
(* string behind the element with that number, or behind the last one if   *)
(* there is none.  It runs for every element number, from 0, and when it   *)
(* does not run, the list stays as it is.                                  *)
(***************************************************************************)
ListUpdated ==
  Of("list") =>
    LET args == sample.args
        list == sample.list
        r == ListToolRun(args, sample.strings, list)
        searches == <<"s">> \in ToSet(args)
    IN  /\ Conforming(args, sample.strings) /\ (searches \/ args[1][2] >= 0) =>
             r.exit = "success"
        /\ r.exit = "failure" => r.list = list /\ r.printed = <<>>
        /\ r.exit = "success" /\ searches =>
             /\ r.list = list /\ Len(r.printed) = Len(list)
             /\ \A i \in DOMAIN list : r.printed[i] = "yes" <=> list[i] = sample.strings[1]
        /\ r.exit = "success" /\ ~searches =>
             LET n == Last(args)[2]
                 at == IF n \in 0 .. Len(list) - 1 THEN n + 2 ELSE Len(list) + 1
             IN  r.list[at] = sample.strings[1] /\ RemoveAt(r.list, at) = list

-----------------------------------------------------------------------------
ExpandSamples ==
  LET texts == UpTo(5, {"c", Space, Tab, Newline})
      tabstops == {<<n>> : n \in 0 .. 3}
  IN  [of : {"expand"}, tabstops : tabstops, files : {<<>>}, stdin : texts]
      \cup [of : {"expand"},
            tabstops : {<<>>, <<2>>, <<NoDigits>>, <<NotDigits>>, <<2, 3>>},
            files : UpTo(2, {MissingFile} \cup UpTo(2, {"c", Tab})), stdin : {<<Tab>>}]

LastLine(s) ==
  SubSeq(s, SelectLastInSeq(s, LAMBDA c : c = Newline) + 1, Len(s))

\* The columns that the last line of the output takes up after k characters.
Expanded(t, text, k) ==
  Len(LastLine(ExpandRun(<<t>>, <<SubSeq(text, 1, k)>>, <<>>).out))

\* A tab should end at a tab stop, every one of a line, as with "the unix command
\* expand" that the program simplifies (myexpand.c:4); see SomeTextHolds.
ExpandsTabs(t, text) ==
  \A k \in DOMAIN text : text[k] = Tab => Expanded(t, text, k) % t = 0

(***************************************************************************)
(* Nothing but blanks is changed, in a text without tabs nothing, and each *)
(* tab becomes 1 to t blanks; each file starts in column 0, wherever the   *)
(* output stands, and one that is missing does not stop the others; only a *)
(* tab stop of 0 or a usage error can keep the program from its end.  (To  *)
(* which of them a tab expands is what ExpandsTabs is about.)              *)
(***************************************************************************)
TextKept ==
  Of("expand") =>
    LET t == TabstopOf(sample.tabstops)
        Out(s) == ExpandRun(sample.tabstops, <<s>>, <<>>).out
        text == sample.stdin
        r == ExpandRun(sample.tabstops, sample.files, text)
        Read(f) == IF f = MissingFile THEN <<>> ELSE f
        all == IF sample.files = <<>> THEN text
               ELSE FlattenSeq([i \in DOMAIN sample.files |-> Read(sample.files[i])])
    IN  /\ r.exit = "failure" <=> UsageError(sample.tabstops)
        /\ r.exit # "failure" /\ t > 0 => r.exit = "success"
        /\ r.exit = "success" =>
             /\ SelectSeq(r.out, LAMBDA c : c # Space)
                  = SelectSeq(all, LAMBDA c : c \notin {Space, Tab})
             /\ Tab \notin ToSet(all) => r.out = all
             /\ sample.files # <<>> =>
                  r.out = FlattenSeq([i \in DOMAIN sample.files |-> Out(Read(sample.files[i]))])
        /\ sample.files = <<>> /\ r.exit = "success" =>
             \A k \in DOMAIN text :
               text[k] = Tab => Expanded(t, text, k) - Expanded(t, text, k - 1) \in 1 .. t

-----------------------------------------------------------------------------
PalindromeSamples ==
  [of : {"palindrome"},
   words : {<<>>, <<<<"s">>>>, <<<<"s", "i">>>>, <<<<"i">>, <<"s">>>>, <<<<"s", "s">>>>,
            <<<<"i">>, <<>>>>, <<<<"s", "i">>, <<>>>>},
   stdin : UpTo(5, {"a", "A", Blank, "-", EndOfLine})]

\* The lines of a text, as sequences of characters.
Lines(s) ==
  LET breaks == {i \in DOMAIN s : s[i] = EndOfLine} \cup {0, Len(s) + 1}
      ends == SetToSortSeq(breaks, <)
  IN  [k \in 1 .. Len(ends) - 1 |-> SubSeq(s, ends[k] + 1, ends[k + 1] - 1)]

\* What the program keeps of a line: its letters, in one case with -i, and its
\* blanks unless -s is given.
Given(o, words) == o \in ToSet(FlattenSeq(words))

Kept(words, line) ==
  SelectSeq(line, LAMBDA c : c \in Alnum \cup IF Given("s", words) THEN {} ELSE {Blank})

Folded(words, line) ==
  [i \in DOMAIN Kept(words, line) |->
     IF Given("i", words) THEN ToLower(Kept(words, line)[i]) ELSE Kept(words, line)[i]]

\* "Eingabe zu lang, max 40 Zeichen!" (ispalindrom.c:119): a line should be too
\* long only if more than MAX_LENGTH characters of it count; see SomeTextHolds.
MaximumAllowed(words, line) ==
  "too long" \in ToSet(PalindromeRun(words, line)) => Len(Kept(words, line)) > MAX_LENGTH

(***************************************************************************)
(* Every line gets one verdict: too short if there are less than           *)
(* MIN_LENGTH characters to compare, too long if there are more than fit   *)
(* into the buffer and never if there are less, and otherwise whether they *)
(* read the same backwards, of the whole line and of no other one.  (What  *)
(* MaximumAllowed is about, a line that just fills the buffer, is open.)   *)
(***************************************************************************)
VerdictIsTrue ==
  Of("palindrome") /\ ~ArgumentError(sample.words) =>
    LET lines == Lines(sample.stdin)
        said == PalindromeRun(sample.words, sample.stdin)
        Size(k) == Len(Kept(sample.words, lines[k]))
        Symmetric(k) ==
          LET word == Folded(sample.words, lines[k]) IN word = Reverse(word)
    IN  /\ Len(said) = Len(lines)
        /\ \A k \in DOMAIN lines :
             /\ said[k] = "too short" <=> Size(k) < MIN_LENGTH
             /\ Size(k) > MAX_LENGTH => said[k] = "too long"
             /\ said[k] = "too long" => Size(k) >= MAX_LENGTH
             /\ said[k] = "palindrome" => Symmetric(k)
             /\ said[k] = "no palindrome" => ~Symmetric(k)

-----------------------------------------------------------------------------
\* Init picks one of these sets, Next a sample in it.
SampleSets ==
  <<[of : {"board"}, trio : Trios], ListSamples, ExpandSamples, PalindromeSamples>>
  \o SetToSeq({[of : {"score"}, number : RandomNumbers, secret : {s}] : s \in MCSecrets})

Start == sample \in [of : {"none"}, from : DOMAIN SampleSets]

Pick == Of("none") /\ sample' \in SampleSets[sample.from]

=============================================================================
