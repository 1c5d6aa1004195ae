----------------------------- MODULE Mastermind -----------------------------
(***************************************************************************)
(* A game of mastermind: a server and one client, which guesses at random, *)
(* over a TCP connection.  A program counter names the call that a process *)
(* is about to make; the connection is a sequence of bytes each way, and   *)
(* recv() may return fewer bytes than were sent.                           *)
(***************************************************************************)
EXTENDS MastermindScore, Sequences

CONSTANTS
  MAX_TRIES,   \* 35 in the code
  SecretArgs,  \* the <secret-sequence> arguments, as sequences of letters
  Ports,       \* the port arguments, of the server and of the client
  Draws,       \* values of rand() % 32768
  Flips,       \* {0}: only client.c connects; {0, 1}: also one whose words
               \* may have the wrong parity
  Interrupts,  \* may SIGINT or SIGTERM reach the server?
  ClientMortal \* may the client be killed?

ASSUME GameAssumption ==
  /\ MAX_TRIES \in Nat \ {0}
  /\ Ports \subseteq Int
  /\ Draws \subseteq RandomNumbers
  /\ Flips \subseteq {0, 1}
  /\ Interrupts \in BOOLEAN
  /\ ClientMortal \in BOOLEAN

VARIABLES
  mpc, round, ret, quit,   \* server (the master): program counter, locals of
                           \* main, flag
  secret, request, buffer, \* server: options.secret, bytes read, byte to send
  correct,                 \* server: correct_guesses
  serverPort, sexit,       \* server: options.portno, exit code
  cpc, cround, word, response, cexit,  \* client
  connected,               \* has connect() of the client succeeded?
  toServer, toClient       \* bytes under way

serverVars == <<mpc, round, ret, quit, secret, request, buffer, correct,
                serverPort, sexit>>
clientVars == <<cpc, cround, word, response, cexit>>
network    == <<connected, toServer, toClient>>
gameVars   == <<serverVars, clientVars, network>>

Running == -1     \* the process has not ended yet
Signalled == 128  \* the process was killed

EXIT_SUCCESS         == 0
EXIT_FAILURE         == 1
EXIT_PARITY_ERROR    == 2
EXIT_GAME_LOST       == 3
EXIT_MULTIPLE_ERRORS == 4

\* The letters of the colours, in the order of their numbers.
Letters == <<"b", "d", "g", "o", "r", "s", "v", "w">>

ColorOf(letter) == CHOOSE c \in Colors : Letters[c + 1] = letter

ValidPort(port) == port \in 1 .. 65535

ValidSecret(arg) ==
  Len(arg) = SLOTS /\ \A j \in 1 .. SLOTS : \E c \in Colors : arg[j] = Letters[c + 1]

GameInit ==
  /\ mpc = "start" /\ round = 1 /\ ret = EXIT_SUCCESS /\ quit = FALSE
  /\ secret = [j \in Slots |-> 0] /\ request = <<>> /\ buffer = 0
  /\ correct = 0 /\ serverPort = 0 /\ sexit = Running
  /\ cpc = "start" /\ cround = 1 /\ word = 0 /\ response = 0 /\ cexit = Running
  /\ connected = FALSE /\ toServer = <<>> /\ toClient = <<>>

-----------------------------------------------------------------------------
(***************************************************************************)
(* The server.                                                             *)
(***************************************************************************)
ServerExit(code) == mpc' = "done" /\ sexit' = code

\* parse_args, then socket, bind and listen.
ParseArgs ==
  /\ mpc = "start"
  /\ \E port \in Ports, arg \in SecretArgs :
       IF ValidPort(port) /\ ValidSecret(arg)
       THEN /\ mpc' = "accept"
            /\ serverPort' = port
            /\ secret' = [j \in Slots |-> ColorOf(arg[j + 1])]
            /\ UNCHANGED sexit
       ELSE ServerExit(EXIT_FAILURE) /\ UNCHANGED <<serverPort, secret>>
  /\ UNCHANGED <<round, ret, quit, request, buffer, correct, clientVars, network>>

Accept ==
  /\ mpc = "accept" /\ connected
  /\ mpc' = "loop"
  /\ UNCHANGED <<round, ret, quit, secret, request, buffer, correct, serverPort,
                 sexit, clientVars, network>>

\* The head of the for loop.
Loop ==
  /\ mpc = "loop"
  /\ IF round <= MAX_TRIES /\ ~quit
     THEN mpc' = "recv" /\ UNCHANGED sexit
     ELSE ServerExit(ret)
  /\ request' = <<>>
  /\ UNCHANGED <<round, ret, quit, secret, buffer, correct, serverPort,
                 clientVars, network>>

\* Mutant: one recv() is taken to return the whole word.
ReadOnce ==
  /\ mpc = "recv" /\ toServer # <<>>
  /\ \E n \in 1 .. Len(toServer) :
       /\ request' = IF n = 2 THEN toServer ELSE <<toServer[1], 0>>
       /\ toServer' = SubSeq(toServer, n + 1, Len(toServer))
  /\ mpc' = "answer"
  /\ UNCHANGED <<round, ret, quit, secret, buffer, correct, serverPort, sexit,
                 clientVars, connected, toClient>>

\* read_from_client: recv() until both bytes are there.
ReadFromClient ==
  /\ mpc = "recv" /\ toServer # <<>>
  /\ \E n \in 1 .. Len(toServer) :
       /\ Len(request) + n <= 2
       /\ request' = request \o SubSeq(toServer, 1, n)
       /\ toServer' = SubSeq(toServer, n + 1, Len(toServer))
  /\ mpc' = IF Len(request') = 2 THEN "answer" ELSE "recv"
  /\ UNCHANGED <<round, ret, quit, secret, buffer, correct, serverPort, sexit,
                 clientVars, connected, toClient>>

\* The client is gone: recv() returns 0 or an error.
ReceiveNothing ==
  /\ mpc = "recv" /\ toServer = <<>> /\ cpc = "done"
  /\ ServerExit(IF quit THEN ret ELSE EXIT_FAILURE)
  /\ UNCHANGED <<round, ret, quit, secret, request, buffer, correct, serverPort,
                 clientVars, network>>

Request == 256 * request[2] + request[1]

\* Mutant: the game is never lost.
ComputeAnswerEndless ==
  /\ mpc = "answer"
  /\ correct' = CorrectGuesses(Request, secret)
  /\ buffer' = Answer(Request, secret)
  /\ mpc' = "send"
  /\ UNCHANGED <<round, ret, quit, secret, request, serverPort, sexit,
                 clientVars, network>>

\* Mutant: the game is lost one round too early.
ComputeAnswerEarly ==
  /\ mpc = "answer"
  /\ correct' = CorrectGuesses(Request, secret)
  /\ buffer' = Answer(Request, secret)
       + IF round = MAX_TRIES - 1 /\ correct' # SLOTS THEN GAME_LOST ELSE 0
  /\ mpc' = "send"
  /\ UNCHANGED <<round, ret, quit, secret, request, serverPort, sexit,
                 clientVars, network>>

\* compute_answer, and the error bit of a last round that is not won.
ComputeAnswer ==
  /\ mpc = "answer"
  /\ correct' = CorrectGuesses(Request, secret)
  /\ buffer' = Answer(Request, secret)
       + IF round = MAX_TRIES /\ correct' # SLOTS THEN GAME_LOST ELSE 0
  /\ mpc' = "send"
  /\ UNCHANGED <<round, ret, quit, secret, request, serverPort, sexit,
                 clientVars, network>>

\* send(); it can fail only if the client is gone.
SendAnswer ==
  /\ mpc = "send"
  /\ \/ mpc' = "judge" /\ toClient' = Append(toClient, buffer) /\ UNCHANGED sexit
     \/ /\ cpc = "done"
        /\ ServerExit(IF quit THEN ret ELSE EXIT_FAILURE)
        /\ UNCHANGED toClient
  /\ UNCHANGED <<round, ret, quit, secret, request, buffer, correct, serverPort,
                 clientVars, connected, toServer>>

\* Mutant: a lost game overrides a parity error.
JudgeLost ==
  /\ mpc = "judge"
  /\ ret' = IF GameLost(buffer) THEN EXIT_GAME_LOST
            ELSE IF ParityErr(buffer) THEN EXIT_PARITY_ERROR ELSE ret
  /\ IF GameLost(buffer) \/ ParityErr(buffer) \/ correct = SLOTS
     THEN ServerExit(ret') /\ UNCHANGED round
     ELSE mpc' = "loop" /\ round' = round + 1 /\ UNCHANGED sexit
  /\ UNCHANGED <<quit, secret, request, buffer, correct, serverPort, clientVars,
                 network>>

\* What the answer means for the server: an error, a game won, a next round.
Judge ==
  /\ mpc = "judge"
  /\ LET afterParity == IF ParityErr(buffer) THEN EXIT_PARITY_ERROR ELSE ret
     IN  ret' = IF ~GameLost(buffer) THEN afterParity
                ELSE IF afterParity = EXIT_PARITY_ERROR THEN EXIT_MULTIPLE_ERRORS
                ELSE EXIT_GAME_LOST
  /\ IF GameLost(buffer) \/ ParityErr(buffer) \/ correct = SLOTS
     THEN ServerExit(ret') /\ UNCHANGED round
     ELSE mpc' = "loop" /\ round' = round + 1 /\ UNCHANGED sexit
  /\ UNCHANGED <<quit, secret, request, buffer, correct, serverPort, clientVars,
                 network>>

(***************************************************************************)
(* The handler sets quit.  A call that blocks is interrupted: accept makes *)
(* the server bail out, recv leave the loop.  A signal that arrives before *)
(* the call blocks only sets the flag.                                     *)
(***************************************************************************)
HandleSignal ==
  /\ Interrupts
  /\ mpc \notin {"start", "done"}
  /\ quit' = TRUE
  /\ \/ UNCHANGED <<mpc, sexit>>
     \/ mpc = "accept" /\ ~connected /\ ServerExit(EXIT_FAILURE)
     \/ mpc = "recv" /\ toServer = <<>> /\ ServerExit(ret)
  /\ UNCHANGED <<round, ret, secret, request, buffer, correct, serverPort,
                 clientVars, network>>

ServerNext ==
  \/ ParseArgs \/ Accept \/ Loop \/ ReadFromClient \/ ReceiveNothing
  \/ ComputeAnswer \/ SendAnswer \/ Judge

-----------------------------------------------------------------------------
(***************************************************************************)
(* The client.                                                             *)
(***************************************************************************)
ClientExit(code) == cpc' = "done" /\ cexit' = code

\* parse_args and connect_to_server.
ConnectToServer ==
  /\ cpc = "start" /\ mpc # "start"
  /\ \E port \in Ports :
       IF ValidPort(port) /\ mpc # "done" /\ port = serverPort
       THEN cpc' = "send" /\ connected' = TRUE /\ UNCHANGED cexit
       ELSE ClientExit(EXIT_FAILURE) /\ UNCHANGED connected
  /\ UNCHANGED <<serverVars, cround, word, response, toServer, toClient>>

\* The low byte of the word goes first.
SendGuess ==
  /\ cpc = "send"
  /\ \E n \in Draws, flip \in Flips :
       word' = (GenerateRandomNumber(n) + flip * PARITY) % 65536
  /\ toServer' = IF mpc = "done" THEN toServer
                 ELSE toServer \o <<word' % 256, word' \div 256>>
  /\ cpc' = "recv"
  /\ UNCHANGED <<serverVars, cround, response, cexit, connected, toClient>>

ReceiveResponse ==
  /\ cpc = "recv" /\ toClient # <<>>
  /\ response' = Head(toClient)
  /\ toClient' = Tail(toClient)
  /\ cpc' = "check"
  /\ UNCHANGED <<serverVars, cround, word, cexit, connected, toServer>>

\* The server has closed the connection.
ConnectionLost ==
  /\ cpc = "recv" /\ toClient = <<>> /\ mpc = "done"
  /\ ClientExit(EXIT_FAILURE)
  /\ UNCHANGED <<serverVars, cround, word, response, network>>

\* The error bits, the winning guess, the next round.
Check ==
  /\ cpc = "check"
  /\ LET code == CASE ParityErr(response) /\ GameLost(response) -> EXIT_MULTIPLE_ERRORS
                   [] ParityErr(response) /\ ~GameLost(response) -> EXIT_PARITY_ERROR
                   [] ~ParityErr(response) /\ GameLost(response) -> EXIT_GAME_LOST
                   [] OTHER -> IF RedOf(response) = SLOTS THEN EXIT_SUCCESS ELSE Running
     IN  IF code = Running
         THEN cpc' = "send" /\ cround' = cround + 1 /\ UNCHANGED cexit
         ELSE ClientExit(code) /\ UNCHANGED cround
  /\ UNCHANGED <<serverVars, word, response, network>>

KillClient ==
  /\ ClientMortal
  /\ cpc \notin {"start", "done"}
  /\ ClientExit(Signalled)
  /\ UNCHANGED <<serverVars, cround, word, response, network>>

ClientNext ==
  ConnectToServer \/ SendGuess \/ ReceiveResponse \/ ConnectionLost \/ Check

GameNext == ServerNext \/ HandleSignal \/ ClientNext \/ KillClient

GameSpec == GameInit /\ [][GameNext]_gameVars

\* Neither process waits for a user once it has been started.
FairGameSpec == GameSpec /\ WF_gameVars(ServerNext) /\ WF_gameVars(ClientNext)

-----------------------------------------------------------------------------
Byte == 0 .. 256 - 1

ExitCodes == {EXIT_SUCCESS, EXIT_FAILURE, EXIT_PARITY_ERROR, EXIT_GAME_LOST,
              EXIT_MULTIPLE_ERRORS}

GameTypeOK ==
  /\ mpc \in {"start", "accept", "loop", "recv", "answer", "send", "judge", "done"}
  /\ round \in 1 .. MAX_TRIES + 1
  /\ ret \in ExitCodes
  /\ quit \in BOOLEAN
  /\ secret \in Secrets
  /\ request \in Seq(Byte) /\ Len(request) <= 2
  /\ buffer \in Byte
  /\ correct \in -1 .. SLOTS
  /\ serverPort \in Int
  /\ sexit \in ExitCodes \cup {Running}
  /\ cpc \in {"start", "send", "recv", "check", "done"}
  /\ cround \in Nat
  /\ word \in Word /\ response \in Byte
  /\ cexit \in ExitCodes \cup {Running, Signalled}
  /\ connected \in BOOLEAN
  /\ toServer \in Seq(Byte) /\ toClient \in Seq(Byte)

Outcomes == ExitCodes \ {EXIT_FAILURE}

(***************************************************************************)
(* Both programs document the same exit codes: when the client ends with   *)
(* an outcome of the game, the server ends with the same one, whatever     *)
(* signal reached it in between, and both have counted the same rounds.    *)
(***************************************************************************)
SameOutcome ==
  cexit \in Outcomes => /\ mpc \in {"judge", "done"}
                        /\ mpc = "done" => sexit = cexit
                        /\ cround = round

(***************************************************************************)
(* The client gives up only for the reason it reports: it won with the     *)
(* secret, sent a word of wrong parity, or has used up its MAX_TRIES.      *)
(***************************************************************************)
OutcomeJustified ==
  /\ cexit = EXIT_SUCCESS => GuessOf(word) = secret /\ ~ParityError(word)
  /\ cexit \in {EXIT_PARITY_ERROR, EXIT_MULTIPLE_ERRORS} <=>
       cexit \in Outcomes /\ ParityError(word)
  /\ cexit \in {EXIT_GAME_LOST, EXIT_MULTIPLE_ERRORS} => cround = MAX_TRIES

(***************************************************************************)
(* The byte the client reads answers the word it sent last.                *)
(***************************************************************************)
AnswersInStep ==
  cpc = "check" => response % GAME_LOST = Answer(word, secret)

(***************************************************************************)
(* Once a client has connected both processes end, also if the signal came *)
(* between the test of quit and recv(), or the other one is gone; and with *)
(* neither signal nor kill they end with the same outcome of the game.     *)
(***************************************************************************)
GameEnds ==
  connected ~> /\ mpc = "done" /\ cpc = "done"
               /\ quit \/ cexit = Signalled \/ (sexit \in Outcomes /\ cexit = sexit)

=============================================================================
