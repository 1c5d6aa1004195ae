--------------------------- MODULE MastermindRule ---------------------------
(***************************************************************************)
(* What the functions of MastermindScore promise, for a sample: a value    *)
(* number of rand() % 32768 and a secret.                                  *)
(***************************************************************************)
EXTENDS MastermindScore, Samples

ScoreSamples == [of : {"score"}, number : RandomNumbers, secret : Secrets]

PegsOf(f, c) == Cardinality({j \in Slots : f[j] = c})

\* The pegs of each colour that two sequences have in common, numbered.
InCommon(f, g) ==
  {p \in Colors \X (1 .. SLOTS) : p[2] <= PegsOf(f, p[1]) /\ p[2] <= PegsOf(g, p[1])}

(***************************************************************************)
(* Red and white together count, colour by colour, the pegs that guess and *)
(* secret have in common (the rule of the game, which says nothing of the  *)
(* order in which compute_answer marks slots).                             *)
(***************************************************************************)
ScoreIsRule ==
  Of("score") =>
    LET g == GuessOf(sample.number)
        s == sample.secret
    IN  Red(g, s) + White(g, s) = Cardinality(InCommon(g, s))

(***************************************************************************)
(* What the client sends passes the parity check of the server, and a word *)
(* with any single bit flipped does not.                                   *)
(***************************************************************************)
ParityDetects ==
  Of("score") =>
    LET word == GenerateRandomNumber(sample.number)
        Flip(i) == IF Bit(word, i) = 1 THEN word - 2 ^ i ELSE word + 2 ^ i
    IN  /\ ~ParityError(word)
        /\ \A i \in (0 .. SLOTS * SHIFT_WIDTH - 1) \cup {15} : ParityError(Flip(i))

(***************************************************************************)
(* The fields of the response do not run into each other: red and the      *)
(* error bits come out as they were put in, also in the last round.        *)
(***************************************************************************)
ResponseDecodes ==
  Of("score") =>
    \A req \in {GenerateRandomNumber(sample.number), sample.number} :
    \A lost \in {0, GAME_LOST} :
      LET response == Answer(req, sample.secret) + lost
      IN  /\ RedOf(response) = Red(GuessOf(req), sample.secret)
          /\ ParityErr(response) <=> ParityError(req)
          /\ GameLost(response) <=> lost # 0
          /\ response < 256

=============================================================================
