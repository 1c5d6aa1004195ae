--------------------------- MODULE MastermindScore ---------------------------
(***************************************************************************)
(* The two messages of mastermind.  A request is a 16 bit word: three bits *)
(* for the colour of each slot and the parity of those bits in bit 15.     *)
(* A response is a byte: three bits for red, three for white, and a bit    *)
(* for each of the two errors.                                             *)
(***************************************************************************)
EXTENDS Integers, FiniteSets

CONSTANT SLOTS   \* 5 in the code; three bits per slot, and bit 15 is taken

ASSUME SlotsAssumption == SLOTS \in 1 .. 5

COLORS == 8

SHIFT_WIDTH == 3

\* Mutant: the bit of the other error.
ParityErrTwice == 128

\* 1 << PARITY_ERR_BIT and 1 << GAME_LOST_ERR_BIT.
PARITY_ERR == 64
GAME_LOST  == 128

\* Bit 15 of a request.
PARITY == 32768

\* rand() % 32768 with five slots.
RandomNumbers == 0 .. COLORS ^ SLOTS - 1

MaxWord == 65535

Word == 0 .. MaxWord

Slots == 0 .. SLOTS - 1

Colors == 0 .. COLORS - 1

Secrets == [Slots -> Colors]

Bit(n, i) == (n \div 2 ^ i) % 2

\* Exclusive or of the bits of n at the given positions.
Parity(n, positions) == Cardinality({i \in positions : Bit(n, i) = 1}) % 2

\* Mutant: the client leaves the highest bit of the guess out of the parity.
ClientParityShort(n) == Parity(n, 0 .. SLOTS * SHIFT_WIDTH - 2)

\* The client's loop goes through the bits of the guess one by one.
ClientParity(n) == Parity(n, 0 .. SLOTS * SHIFT_WIDTH - 1)

\* generate_random_number, for a value of rand().
GenerateRandomNumber(n) == n + PARITY * ClientParity(n)

\* The guess of a word: the server shifts it right by three bits each time.
GuessOf(req) == [j \in Slots |-> (req \div 2 ^ (SHIFT_WIDTH * j)) % COLORS]

\* The server takes the parity of each colour, and of those parities.
ServerParity(req) ==
  Cardinality({j \in Slots : Parity(GuessOf(req)[j], 0 .. 2) = 1}) % 2

ParityError(req) == req \div PARITY # ServerParity(req)

Red(guess, secret) == Cardinality({j \in Slots : guess[j] = secret[j]})

\* Mutant: pegs that scored red still count as available colours.
WhiteGreedy(guess, secret) ==
  Cardinality({j \in Slots :
    /\ guess[j] # secret[j]
    /\ Cardinality({k \in Slots : k < j /\ guess[k] # secret[k] /\ guess[k] = guess[j]})
         < Cardinality({k \in Slots : secret[k] = guess[j]})})

(***************************************************************************)
(* colors_left[c] starts as the number of pegs of colour c that are not    *)
(* red, and every slot that is not red takes one of its colour from left   *)
(* to right: it is white if the slots before it have left one.             *)
(***************************************************************************)
White(guess, secret) ==
  LET NotRed == {j \in Slots : guess[j] # secret[j]}
      ColorsLeft(c) == Cardinality({k \in NotRed : secret[k] = c})
      Before(j) == {k \in NotRed : k < j /\ guess[k] = guess[j]}
  IN  Cardinality({j \in NotRed : Cardinality(Before(j)) < ColorsLeft(guess[j])})

\* The byte that compute_answer leaves in the buffer.
Answer(req, secret) ==
  Red(GuessOf(req), secret) + 8 * White(GuessOf(req), secret)
    + IF ParityError(req) THEN PARITY_ERR ELSE 0

\* What compute_answer returns.
CorrectGuesses(req, secret) ==
  IF ParityError(req) THEN -1 ELSE Red(GuessOf(req), secret)

\* What the client, and the server after sending, read from the byte.
ParityErr(response) == (response \div PARITY_ERR) % 2 = 1
GameLost(response)  == (response \div GAME_LOST) % 2 = 1
RedOf(response)     == response % 8

=============================================================================
