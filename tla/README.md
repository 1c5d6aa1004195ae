# Verification of the OSUE-WS2015 programs

The repository holds the solutions of an operating systems course: small C
programs whose difficulty lies in processes, semaphores, shared memory, pipes
and sockets. This directory holds TLA+ models of them, the TLC configurations
that check the models on small instances, and TLAPS proofs.

    tlc -config bs_game.cfg MCBattleships.tla     # one run
    tlapm BattleshipsProofs.tla                   # the proofs of a module

`PROJECT.json` lists components, runs, mutants (plausible bugs that each
property must notice), the source lines behind every definition, findings,
hazards and theorems.

## 1. Inventory

Paths are relative to `src/`.

| component | source | state | operations | interaction |
|---|---|---|---|---|
| battleships board | `exercises/3/battleships/src/battleships-server.c` 194-241 | two 4x4 boards | clear, place a ship, hit a cell | used by the server between semaphore operations |
| battleships game | `battleships-server.c`, `battleships-client.c` | two shared segments, five named semaphores, locals of `play()` | join, place, guess, answer, give up, lose, terminate | one server and any number of clients block on semaphores; the critical sections carry no lock of their own |
| battleships objects | `allocate_resources`, `wait_for_players_to_join`, `free_resources` of the server, `allocate_resources` of the client | names in `/dev/shm` and what they lead to | create, reset, open, join, unlink | servers one after the other, each with several games; clients that open the names one by one |
| mastermind messages | `exercises/1/b/mastermind/{server,client}.c` | a 16 bit request, an 8 bit response | parity, score, error bits | the two programs encode and decode apart |
| mastermind game | the same | rounds, exit codes, a `quit` flag | receive, answer, judge; send, check | one TCP connection, partial reads, signals |
| forksort | `exercises/2/forksort/src/forksort.c` | arrays of lines per process | read, fork, feed, wait, collect, merge | a tree of processes joined by pipes |
| synchronization (exam) | `exams/2/synchronization` | one segment, three semaphores | queue, write, sort, read, terminate | one server, any number of clients |
| fork (exam) | `exams/2/fork` | two stream buffers and a pipe | count, encode | parent and child |
| ex2 client (exam) | `exams/1/ex2/client.c` | options, a socket | parse, connect, fall back, send, receive | a main and a backup server (a binary) |
| list tool (exam) | `exams/1/ex1/listtool.c` | options, a linked list | search, insert | an object file builds and checks the list |
| ispalindrom | `exercises/1/a/ispalindrom` | a word of 40 characters | read, filter, compare | none |
| myexpand | `exercises/1/a/myexpand` | a column | expand tabs | none |

What makes each of them correct, and what is hard:

* **battleships** - exclusion of the critical sections, whoever the semaphores
  wake and also while the server is terminated; alternation; agreement
  between the hits a client marks and the board of the server; one winner, for
  the right reason; no lost wake-up. Hard because a single turn circulates
  through two semaphores, `s4`/`s5` form a handshake whose last part is skipped
  after a give-up, and EINTR is handled differently at each wait.
* **mastermind** - both programs end with the same documented exit code, for the
  reason it stands for; a word torn by `recv` is never scored; scoring follows
  the rule of the game; parity catches single bit errors.
* **forksort** - the output is the sorted input or a beginning of it; success
  means that all lines came back; nobody hangs.
* **battleships objects** - a game never starts in a segment with the response
  or the flags of an earlier one, although `allocate_resources` clears only the
  flags and opens what it finds; a server that was killed must not lock out more
  than the next one; players and server use the same segments.
* **synchronization** - the server and a client, or two clients, are never in
  the segment together, whoever dies in it or could not open a semaphore; a
  client reads sorted numbers; the queue moves on.
* **fork** - encode sees the end of its input and prints every count, although
  the write end of the pipe has three copies.
* **ex2 client** - the message goes to the backup server only after the main one
  has refused, and never to both.
* the sequential programs - column and length arithmetic at its limits
  (`myexpand`, `ispalindrom`), option handling (`listtool`).

## 2. Modules

| module | models | status |
|---|---|---|
| `BattleshipsBoard` | `place_ship_on_board` on boards as sets of busy cells | done |
| `BattleshipsRule` | which ships can be placed, and how (`ShipsAreLines`) | done |
| `Battleships` | one game: server, clients, semaphores, shared memory | done |
| `BattleshipsInvariant` | `Handshake`: where the token of `s4`/`s5` is in each phase of a game | done |
| `BattleshipsOrder` | `InOrder`: where two clients are in each phase, and who has waited longer, until one overtakes the other | done |
| `BattleshipsGame` | the abstract game: seats, alternating shots, a winner or a quitter, a true outcome for everyone | done |
| `BattleshipsRefinement` | the state of the abstract game in terms of the programs (`PlaysTheGame`), and what that takes (`Accounted`) | done |
| `BattleshipsProofs`, `BattleshipsRefinementProofs` | theorems, see 5 | done |
| `MastermindScore` | the two messages, scoring, parity | done |
| `MastermindRule` | what these functions promise: the rule of the game, detected bit errors, fields that do not overlap | done |
| `Samples` | the variable `sample`, which holds the arguments of a function that is checked | done |
| `Mastermind`, `MastermindProofs` | the two processes and their connection; theorems, see 5 | done |
| `Forksort`, `ForksortProofs` | the process tree, the pipes, the merge; theorems, see 5 | done |
| `BattleshipsLifecycle` | the names, who makes, opens and unlinks what, over several games and servers | done |
| `BattleshipsLifecycleProofs` | theorems, see 5 | done |
| `Synchronization`, `SynchronizationProofs` | the exam server and its clients; theorems, see 5 | done |
| `CountEncode`, `CountEncodeProofs` | the exam programs `count` and `encode`; a theorem, see 5 | done |
| `BackupClient`, `BackupClientProofs` | the exam client with a backup server; a theorem, see 5 | done |
| `ListTool`, `Expand`, `Palindrome` | the sequential programs as functions | done |
| `MCFunctions` | all functions of the project on samples of their arguments, with reference definitions | done |
| `MCPrograms` | the small programs side by side: it extends `MCFunctions`, `Mastermind`, `Synchronization`, `BackupClient` and `CountEncode` | done |
| other `MC...` | the finite instances of the module after the prefix | done |

### Battleships

The variables are the values of the five semaphores, the two shared segments
(`registration`; `guess`, `give_up_flag`, `response`,
`server_terminated_flag`), the boards and the locals of `play()`, and a program
counter for the server (`spc`) and for each client (`pc`). A counter names the
call that comes next; each semaphore operation is one step and each access to
shared memory another, so that two processes can be seen inside one critical
section. `sem_wait(s3)` may return in any client that is about to call it or is
blocked in it: POSIX promises no order without a realtime policy, and even a
semaphore that serves its waiters in order knows nothing of a client that has
posted `s1` or `s2` and not come to its `sem_wait` yet.

The game is meant to be played in turns, and turns can be lost in this way
(`bs_alternate`); if it is the turn in which the second ship has to be placed,
server and clients end up waiting for each other. What does the program promise, then? The
history `ahead` records, for each client that has handed its turn on, who did so
earlier and still waits for `s3`; `overtaken` collects the clients that another
one was served before although they had waited longer, by that reckoning.
`Orderly` says that there is none so far. The invariants of the game itself
(`ShotsInTurn` to `Accounted`) and the refinement claim what they say up to the
first overtaking, in every behaviour of the program, and `OrderlySpec` consists
of the behaviours in which it never comes. No step depends on the histories:
`Spec` is the program, in any order. `writer`, `shooter`, `owner` and `ship` are
history, too.

Server: `WaitJoin` and `UnlinkJoin` are `wait_for_players_to_join`;
`OpenPlacing`, `WaitPlacement`, `Place` are the registration;
`WaitGuess`, `Answer`, `PostAnswer`, `Walkover`/`NoWalkover`, `WaitAck`,
`Verdict`, `PassTurn` are one iteration of `play()`. `Interrupt` is a signal
that ends a blocked `sem_wait` with EINTR and `WakeClients` the posts of those
EINTR branches that have any. An interrupt of a wait whose semaphore has been
posted meanwhile is allowed too: the signal can arrive just before the post.

Client: `Allocate`, `Join`, `TakeTurn`, `PlaceCheck`, `WritePlacement`,
`PostPlacement`, `WaitAction`, `TurnCheck`, `Input`, `WriteGuess`,
`WriteGiveUp`, `PostAction`, `AnswerCheck`, `ReadAnswer`, `EndTurn`, `Leaving`
follow `main` of the client from top to bottom. `Kill` ends a client anywhere,
because it installs no signal handler. Input that the client asks for again,
printing and colours are left out; any placement and any shot that passes its
checks may be typed.

The modules build on each other: `Battleships` extends `BattleshipsBoard`, the
invariants extend `Battleships`, and `BattleshipsRefinement` is an
`INSTANCE BattleshipsGame WITH` a mapping of its seven variables:
`PlaysTheGame` says that each step is one of the abstract game or changes none
of these variables, unless somebody has been overtaken. A client takes
its seat when the server places its ship; a shot is under way from the moment it
is in shared memory until the server has evaluated it; `Answer` resolves it;
writing `give_up_flag` ends the game at once, and from then on the boards of the
abstract game are empty, because the server evaluates the last shot a second
time before it looks at the flag (`battleships-server.c` 388-414) and nobody can
tell. A client leaves the abstract game when it exits. The opponent of one that
gave up may hear "walkover" or, if that second evaluation was a third hit,
"lost": the abstract game allows both, and `bs_walkover` is about the second.

### Mastermind

`mpc` and `cpc` are the program counters. The connection is a sequence of bytes
each way; `ReadFromClient` takes any number of bytes that are there, as `recv` does.
`HandleSignal` is the handler that sets `quit`; it also ends a blocking call, unless
it comes before the call blocks. `sexit` and `cexit` are the exit codes.
`MastermindScore` computes with numbers what the code does with shifts;
`White` is the closed form of the loop over `colors_left`; `ScoreIsRule` compares
it with the pegs that guess and secret have in common (`InCommon`), which knows
nothing of the order of slots.

### Forksort

A process is named by its path from the root of the process tree. Pipes hold
`Capacity` lines; a line is a number, since the program only compares lines.
`ForkChild`, `SendCount`, `SendLine`, `Await`, `CollectLine` are
`forked_child1` and `forked_child2`, which differ in the half they handle;
`Merge` is one iteration of `merge_sort`. `fork` may fail and processes may be
killed; a write to a process that has ended ends the writer by SIGPIPE.

### Battleships: the objects

`BattleshipsLifecycle` looks at what `Battleships` takes for granted. A name
leads to an object, which is a number; `made` counts the objects a name has had.
Processes keep the object they opened (`held`, `cheld`) whatever becomes of the
name. `OpenSegment`, `ResetFlags`, `CreateSemaphore`, `Check` are
`allocate_resources` of the server in its order: `shm_open` with `O_CREAT` takes
what is there, `sem_open` with `O_EXCL` does not, the results are looked at
together at the end. `Leave` is `bail_out`, whose `exit` runs `free_resources`
(`Free`, one name per step, segments first); `Free` from the loop leads to the
next `NewGame`. `Play` is a whole game: all that stays of it is that the
segment has a response (`over`) and perhaps a flag (`flagged`). `Interrupt` and
`Kill` end a server with and without its atexit handler. `OpenOne` and
`PostJoin` are the client until it joins.

### Synchronization

`names` are the semaphores that exist, `segment` the one that the name leads to:
it is 2 once the server has unlinked it, since a client opens it with `O_CREAT`.
The server is `MapNumbers`, `CreateSemaphore`, `WaitClients`, `Sort`,
`PostServer`, and after a signal `UnlinkNumbers` and `UnlinkSemaphore`; the
client is `OpenNumbers`, `OpenSemaphore`, `TakeQueue`, `Write`, `PostClients`,
`WaitServer`, `Read`, `PostQueue`. The results of `mmap` and of the client's
`sem_open` are not checked by the code: `Mapping` and `Crash` say what follows.
`names` is read one name at a time, so a client can find `sem_queue` and not
`sem_clients`. A segment holds the first numbers (`zero`), a client's
(`unsorted`) or the server's (`sorted`).

### The other small programs

`CountEncode` is a pair of processes: a stream buffer on either side of a pipe,
`fgets` pieces of at most `MaxPiece` characters, the end of input only when no
process holds the write end any more. A file is the sequence of the positions at
which its lines end, since only lengths matter; `read` is history, the positions
that the pieces have reached. `Failures` covers `fork`, `fopen` and `execl`,
whose results the code does not check; `Mortal` a killed child.
`BackupClient` consumes its options one per step, as `getopt` does, then
connects, falls back and exchanges. `ListTool`, `Expand` and `Palindrome` are
functions of the command line and the input; the mode of each option, the order
of the checks and the exit are the code's, the texts are left out.

## 3. Runs

| run | instance | checks |
|---|---|---|
| `bs_any_order` | two clients, any wake-up order, signals, both clients may be killed | `TypeOK`, `CriticalSections`, `OneTurn`, `Handshake`, `ActionExclusive`, `OneWinner` |
| `bs_game` | two clients, nobody is overtaken, users who answer (`OrderlySpec`) | `ShotsInTurn`, `FoundMatchesBoard`, `WonMeansSunk`, `InOrder`, `Accounted`, `PlaysTheGame`; `RegistrationCompletes`, `TurnComes`, `GameEnds` |
| `bs_alternate` | any wake-up order | finding: turns need not alternate |
| `bs_walkover` | any wake-up order | finding: a player can be told it lost because the opponent gave up, also if nobody was overtaken |
| `bs_terminated` | nobody is overtaken, signals | finding: the posts that announce the end of the server reach one client at most |
| `fs_sort` | every order of three and four lines, wrong counts, failures, kills | `TypeOK`, `OutputIsPrefix`, `SuccessIsComplete`, `EverybodyEnds` |
| `fs_pipe` | five lines, pipes of two | finding: wait before read deadlocks |
| `bs_lifecycle` | three servers one after the other, three games in all, two clients, kills and interrupts anywhere | `TypeOK`, `FreshStart`, `FailsOnlyAfterKill` |
| `bs_between_games` | two servers, two games, one client, no kills, all seven names | finding: a client between two games plays in a segment nobody else sees |
| `small_programs` | see below | `ShipsAreLines`, `ScoreIsRule`, `ParityDetects`, `ResponseDecodes`, `ListUpdated`, `TextKept`, `VerdictIsTrue`; `GameTypeOK`, `SameOutcome`, `OutcomeJustified`, `AnswersInStep`, `GameEnds`; `SegmentExclusive`, `ReadsSorted`, `Served`; `CountsComplete`, `BothEnd`; `OneServer` |
| `sync_mmap` | one client, `mmap` fails | finding: the server ends at its first access, the client waits for ever |
| `small_texts` | the exam client with two servers; samples of options, tabs and words | findings: a main server that goes away after the connection is not noticed, and the backup server not tried; `-a -1` counts as no option; the second tab of a line misses the tab stop; the longest word allowed is refused |

The first six properties of `bs_game` speak of the time before the first
overtaking, and `Spec` and `OrderlySpec` allow the same steps until then: so
they are checked, without loss, on the behaviours in which it does not come,
together with the liveness properties, which need that. With `FairSpec` in
`bs_game.cfg` TLC shows that registration need not end (section 4).

`small_programs` asks five questions at once, because none needs many states:
`Init` chooses one program and the others never take a step, so every behaviour
is one of that program alone. The functions are sampled one state per argument:
all 560 sets of three cells with all placements one beyond the limits; all 32768
guesses of five slots with four kinds of secret; lists of options and texts for
`listtool`, `myexpand` and `ispalindrom`. `Mastermind` runs with five slots,
three rounds, arguments that are refused, words of wrong parity, signals and a
killed client; `Synchronization` with two clients, signals, kills and either
outcome of `mmap`; `CountEncode` with files of up to four lines of one to seven
characters, failures and kills; `BackupClient` with up to four options and every
combination of servers that listen.

`small_texts` refutes four sentences of the sources at once. `SomeTextHolds` says
that at least one of them is true of the state: `SynopsisHolds`, `ExpandsTabs`,
`MaximumAllowed` (of three samples) and `BackupTried`. TLC comes to a state in
which none is, which is a counterexample to each of the four.

`CHECK_DEADLOCK FALSE` appears where the programs stop: a game that has ended
has no next state, and after a kill or a signal the survivors may be blocked for
ever, which is what the liveness properties and findings are about.

**Bounds.** Two clients are the players the game is made for. The shots are the
cells of one ship and a miss, enough for a third hit, repeated hits and an
answer of each kind. `s3` never exceeds one before the server announces its end,
so a larger instance adds no competition for it that two clients do not show;
the theorems of `BattleshipsProofs` hold for any number of clients. Apart from
their types, no property of `bs_any_order` looks at `ahead` and `overtaken`,
which its `VIEW` leaves out of the state. Five slots are those of the code;
three rounds reach every error bit, the last round and a repeated one, and the
four draws score a win, four red, two white and nothing. Four lines give a tree
of depth two with an even and an odd split; pipes of two lines are the smallest
that hold the halves of four, and the next larger input shows the deadlock. The
lifecycle has four names instead of seven (`Last = 4`: both segments, `SEM_1`,
which goes before the game, and one of the four that are treated alike after
it); the theorems hold for any `Last` from 4. Three servers and three games
(`Games` counts the calls of `allocate_resources`) are enough for one to be
killed, the next to fail over what it left, and the third one to start again.
Two clients of `Synchronization` are one inside and one in the queue; each
passes once, and its theorems hold for any number. `MAX_LENGTH` is 4 instead of
40 and `MaxPiece` 3 instead of 19: texts of up to five characters reach one
below, at and above the limit, and lines of up to seven are cut into three
pieces. The option lists go up to three, and to four where the mode comes first,
so that a valid command line with a repeated option is among them.

**Fairness.** For the battleships game: the scheduler runs every process that
can run: weak fairness of the server's and of each client's steps, as one
disjunction each, because a process is sequential. It includes that users answer
prompts, which the program needs and cannot enforce; no fairness is assumed for
signals, kills or a particular input. That alone does not bring a client its
turn, nor the registration to its end, since the other client may be served
instead. `OrderlySpec` adds that nobody is overtaken. No scheduler guarantees
that; it is the case in which users are slow and both clients have long been
blocked when the next turn is posted, and it is what the program needs in order
to work. The fairness conditions of `OrderlySpec` are those of `FairSpec`, of
the actions without the restriction, and `NoDeadlock` (section 5) shows that the
restriction never stops the game: there is always a step that overtakes nobody.
A client of `Synchronization` passes each semaphore once, so weak fairness of
every process is enough whatever the order of wake-ups: the clients ahead of it
are finitely many. `Served` holds unless the server is gone or a client has died
with the queue semaphore, which the code cannot repair. `BothEnd` (once `count`
has forked, both processes come to an end) assumes that `count` and `encode`
each run when they can. The lifecycle has no liveness property: it may stop
wherever a server waits for players.

## 4. Findings

The violation runs show disagreements between the code and what it says of
itself; `PROJECT.json` quotes the lines. In short: `sem_post(s3)` hands the turn
to any client, which the comment "occur alternately" does not survive, and if
that happens between the two placements, server and clients wait for each other:
the first player fires and waits for the answer in `s4`, the server for a
placement in `s2`, the second player for `s3`;
the server evaluates the last shot again when a player gives up, before it looks
at the flag; EINTR in the server wakes one client at most, and at two of the
waits none; forksort reaps a child before it reads from it, so halves
larger than a pipe hang; a client that opens the old segment before the server
frees it and the new semaphores after the next allocation joins a game it cannot
see; the exam server passes the permission `0600` to `mmap` as flags, which
fails, and ends at its first access while a client waits; the `ex2` client does
not notice that a `send` or `recv` failed and leaves the backup server alone; the
list tool takes `-a -1` for an option that was not given; `myexpand` advances
its column by one for a tab, so that only the first tab of a line is right;
`ispalindrom` refuses words of exactly 40 characters.

The passing properties of these programs say what holds nevertheless, and leave
out what the findings are about: `ListUpdated` what the list tool does when it
runs, `TextKept` that `myexpand` changes nothing but blanks, `VerdictIsTrue` that
every line gets the right verdict except that one of exactly `MAX_LENGTH`
characters may be called too long, `OneServer` that connections go to the backup
server only after the main one refused, and that the client fails exactly if
its arguments are wrong or every server refused. A placement that does not fit
is dropped in silence (`battleships-server.c` 228-239; `Accounted` and
`PlaysTheGame` cover a player without ship). A third client that has
opened `SEM_1` in time enters the game and stops it: no run, since two players
are the documented use.

## 5. Proofs

34 theorems in eight modules; `PROJECT.json` lists them with the property of a
run that each one states.

`BattleshipsProofs` proves about `Battleships`, for any set of clients, any
placements and shots, any wake-up order, with and without signals and kills:

* `TypeCorrect`: `Spec => []TypeOK`;
* `OneTurnAlways`: `Spec => []OneTurn`;
* `Exclusion`: `Spec => []CriticalSections`;
* `HandshakeAlways`: `Spec => []Handshake`;
* `ServerExclusion`: `Spec => []ActionExclusive`;
* `OneWinnerAlways`: `Spec => []OneWinner`.

The only assumption is `ConstantsAssumption` of the module. `CriticalSections`
is not inductive: whether a client may enter depends on where the turn is.
`OneTurn` says where it can be: in `s2`, in `s3`, with the server that took it
from `s2`, or with one client. After `server_terminated_flag` is set the
server posts `s3` and `s4` regardless of the turn; then only the clients that
have passed their last look at the flag count (`Admitted`), and there is at most
one. `OneTurnStep` shows that every action keeps it, one step per action;
`Exclusion` follows from `OneTurn` and the types at once.

`ActionExclusive` relates the server to a client, and `OneTurn` does not say
where the server is while a client has the turn. `Handshake` does: for each
phase of `play()` it says whether the token of `game_action_data` is in `s4`, in
`s5`, with the server or with the client of the turn, and at which places of its
loop that client then is. A killed client takes its token with it, which is why
the invariant says where the client of the turn is if there is one, never that
there is one. After a give-up the server does not wait for the acknowledgement
and `s4` may exceed one; then exclusion holds for another reason, namely that
every client left waits for a turn that does not come before the end
(`GivenUp`).

`OneWinner` is about the end of a game, which the clients read one after the
other. `Coronation` goes through the stages. While the server plays, "WON" and
the end of `playing` go together with a third hit, "WALKOVER" with a give-up, and
when the turn is passed on after the end the response is no longer "WON"
(`Announced`); whoever has read "WON" is one the server still waits for, or has
handed its turn back (`WonInPlay`). Once the server has left `play()`, the one
turn left goes to the client that is told the opposite (`OneTold`,
`TurnHandedBack`). After the announcement of a termination no client has been
told anything (`NoneTold`), and a server that died without it has left nobody a
turn with which to hear of a walkover (`NoTurnAfterDeath`). The step rests on
`OneTurn` and `Handshake`.

The same module proves, for placements of any integers,

* `RuleOfTheBoard`: `ShipsAreLines` for every three cells, and that no placement
  outside the numbers that `small_programs` tries (`Asked`) marks anything.

`ShipEnds` says what a placement asks for, `OneWay` that two placements that ask
for the same cells are the same, `MarksLine` and `LineIsMarked` that ships and
three cells in line are the same thing.

`BattleshipsRefinementProofs` assumes `TwoPlayers`: two clients, none of them
killed. `s3` serves them in any order, and signals are allowed. What is proved
holds until one client overtakes the other one (`Orderly`).

* `OrderAlways`: `Spec => []InOrder`;
* `TurnsAlternate`: `Spec => []ShotsInTurn`.

After an overtaking `TurnRespected` is false (`bs_alternate`), so the proof has
to use who has waited longer: `InOrder` says in each phase which client is the
mover, that the other one waits for its turn, and who is ahead of whom when `s3`
is posted. The registration decides the first mover: the server reads who placed
first, and that client began to wait after the one that has yet to place.

Under the same assumption it proves what follows from that order about the boards:

* `AccountedAlways`: `Spec => []Accounted`;
* `MarksAgree`: `Spec => []FoundMatchesBoard`;
* `WinnersSank`: `Spec => []WonMeansSunk`;

and, with `~Signals` in addition,

* `Refinement`: `Spec => PlaysTheGame`;
* `OrderlyRefinement`: `Spec /\ []Orderly => Game!Spec`.

`Accounted` adds to `InOrder` that `hits[i]` is the number of cells the ship of
the opponent has lost (`Tally`), so that three hits and no cell left are the
same (`SunkTally`, with the theorems on finite sets of the library), and that
`playing`, `response` and the place of the mover agree with the counters. It
claims so until a signal ends the server (`Uninterrupted`), because a signal
takes the server out of the phase that the clients are still in. A ship that
was dropped at its placement has no cell, is never hit, and its owner cannot
lose by hits: `Tally` and the abstract game both keep that case. `GameStep` then
maps each action to one of the abstract game or to no change.

`MarksAgree` needs the cells between the two programs: after the server has
taken a cell from the ship and before the client has marked it, the cell is due
(`Due`), and marked and due cells together are what the ship has lost (`Marked`).
For `WinnersSank` a client that is about to read "WON" has all cells of the ship
but that of its last shot (`AboutToWin`). Neither stops when a signal ends the
server: a client may read its answer after that.

* `NoDeadlock`: `Spec => []NeverStuck`: until a client overtakes the other one
  or a signal ends the server, one of the three can take a step that overtakes
  nobody, unless all three have ended.

After an overtaking it is false: the client that has placed its ship, if it is
served again before the second one, fires a shot and waits for an answer, while
the server waits for a placement, and nobody moves. `OneTurn` and `Handshake`
bound from above what is in the semaphores, and a deadlock is about what is
missing. `NothingLost` bounds it from below: every `sem_post(s1)` is still to be
counted (`JoinsCounted`), the turn is somewhere (`TurnKept`), it does not come
back to the server before there is an action to evaluate (`TurnPlayed`), `s4` is
free for the one who has to be told how the game ended (`AnswerFree`), and the
last player can take the last turn (`LastTurn`). `QueueOrder` says that of the
clients that wait for `s3` one has waited longest. `SomeoneMoves` then goes
through the waits of the server.

`MastermindProofs` is about any number of slots that fits into a word
(`SlotsAssumption`), any number of rounds and any arguments and draws, with words
of wrong parity, signals and a killed client:

* `TypeCorrect`: `GameSpec => []GameTypeOK`;
* `InStep`: `GameSpec => []AnswersInStep`;
* `SameExit`: `GameSpec => []SameOutcome`;
* `Justified`: `GameSpec => []OutcomeJustified`.

The invariant is `Exchange`. Before the connection nothing is under way
(`Unconnected`), and exit codes belong to processes that are done (`Progress`).
Then the place of the client says where the round is. While it sends, the server
has come to its round or will by the judgement it is about to make (`Ready`).
While it waits, the bytes of its word are in the connection, or partly read
(`Asked`), or the reply is on its way (`Answered`), so that a word torn by `recv`
belongs to one round. While it checks, the server has judged that same reply or
is about to, and a server that is done has the exit code that follows from it
(`OutcomeOf`). A client that has ended with an outcome has that code too
(`Finished`). The two programs compute it from the reply in their own ways:
`ReplyDecodes` shows that red, white and the two error bits do not run into each
other in a byte, `ReplyGoesOn` and `ReplyOutcome` that both draw the same
conclusion from them. `AllRed` says that only the secret itself scores red in
every slot.

Three more theorems of the module:

* `RuleOfTheGame`: `ScoreIsRule` for every word and every secret;
* `ResponsesDecode`: `ResponseDecodes` likewise;
* `NoDeadlock`: `GameSpec => []NeverStuck`: server and client are never both blocked
  in `recv` or `accept` once they are connected.

For the score, a colour has as many white slots as the smaller number of slots
that are not red in guess and secret: going through the slots from left to right,
one more slot of a colour is white as long as the secret has one left. Summing up
over colours is a step from colour to colour (`ByColor`), since a sum defined by
recursion could not be used in a proof. For the deadlock, `Progress` adds
that the server leaves `recv` with two bytes; so if both wait, half a word is
under way, and there is nothing it could be half of.

`ForksortProofs` is about any input, any capacity of pipes, failing forks and
killed processes:

* `TypeCorrect`: `Spec => []TypeOK`;
* `Complete`: `Spec => []SuccessIsComplete`;
* `Sorted`: `Spec => []OutputIsPrefix`.

Each assumes `DeepEnough(most)` for some `most`: the process tree of the model,
which the program does not bound, is deep enough that the longest path never
forks. `MCForksort` has the assumption `TreeAssumption`, so that TLC confirms
the hypothesis for the instances of the runs. The invariant has three parts.

* `Shape`: where the lines of a process are. What a child has read and what is
  in its pipe are a beginning of the half its parent owes it (`Link`), the root
  reads what the user typed (`Typed`), and sizes, counters and program counter
  agree within a process (`Local`). `Fits` carries `DeepEnough` down the tree.
* `Counting`: a process prints only when its children are done, and one that
  succeeds has printed as many lines as it was told to expect (`Counted`); in the
  tree of a child that its parent is not busy with, nobody runs and no pipe holds
  a line (`Still`).
* `Ranking`: the output of a process is sorted although none of them ever sees
  its neighbours. Every printed line has its rank among the lines of its
  process (`Ranked`: the i-th line printed has fewer than i lines below it and
  at least i lines up to it), and so have the lines that came back from a child
  among the half it was given; no line left in a half comes before one that is
  already merged (`Halves`). `Merge` keeps it because ranks in two halves add up
  (`Halving`, `NextLine`, `MergeHalves`). Ranks are cardinalities of sets of
  positions, not a recursive definition of a sorted sequence, so no induction
  over the input is needed.

* `NoDeadlock`: `Spec => []NeverStuck`: as long as a process runs, some process
  can move, failing forks and killed processes included.

This assumes in addition that `most[d] <= Capacity`: no child is sent more lines
than its pipe holds. `fs_pipe` shows what happens otherwise, since the parent
waits for its child before it reads what the child writes. The proof looks at a
running process that is as deep in the tree as any (`Deepest`): it does not wait
for a child, what it prints fits (`PrintsFreely`), and if it waits for input, its
parent is in the phase in which it writes and can (`ParentWrites`, `OnePhase`).

`BackupClientProofs` is about command lines of any length and any servers:

* `OneServerAlways`: `BackupSpec => []OneServer`.

The only assumption, `ArgumentsAssumption`, says that an option is one of the
five forms `getopt` can return. `OneServer` is meant in
both directions: a client that fails although its command line conforms was
refused by every server it was given, and one that succeeds by at least one of
them not. `Parsed`
relates `mode` and the ports to the options the loop has seen
(`NextOption`, `OptionStep`), so that what passes the check after the loop
conforms to the synopsis and names exactly the ports the client tries
(`AcceptedConforms`), and what fails earlier has an option twice, a port out of
range or an unknown option (`GivenTwice`, `PortNumbers`). `Reached` follows the
connection attempts.

`BattleshipsLifecycleProofs` is about any number of servers, clients, games and
semaphores:

* `TypeCorrect`: `Spec => []TypeOK`, with overlapping servers, too;
* `FreshStartAlways`: `Spec => []FreshStart`, assuming `OneByOne`;
* `FailsOnlyAfterKillAlways`: `Spec => []FailsOnlyAfterKill`, assuming `OneByOne`.

`OneByOne` says that a server is started only when none runs; with two at a time
the atexit handler of the second one unlinks the names of the first, and both
properties fail. `FreshStart` is not inductive: a server opens a segment with an
old response long before it finds out. `FreshInv` says what saves it. A name
leads to a segment of an ended game only together with the last semaphore
(`Guarded`), because `free_resources` unlinks the segments first; and a server
that has such a segment and has made the last semaphore itself cannot be, since
`O_EXCL` would have refused it (`Clean`, phase by phase). `SweptInv` says how far
a server has come: which semaphores it has made while nothing was in its way,
and which it has unlinked. Only one server is alive in either (`Alone`), so the
step of a server leaves the facts of all others alone (`Frame`, `AloneStep`).

`SynchronizationProofs` is about any number of clients, with signals, killed
clients and any outcome of `mmap`, from `ConstantsAssumption` alone:

* `SegmentExclusion`: `Spec => []SegmentExclusive`;
* `AnswersSorted`: `Spec => []ReadsSorted`.

Their invariant `SyncInv` has `Queue` (one client inside, whose place in
`sem_queue` is taken for good if it dies), `Request` (the one request there can
be is in `sem_clients`, with the server or in `sem_server`, and its client waits
or is dead) and `Answered` (a client that made the segment anew gets no answer,
because the server is on its way out; whoever gets one looks at sorted numbers).

* `NoDeadlock`: `Spec => []NeverStuck`: as long as the server and the client that
  has the queue are alive, some process can move if there are clients at all.

`Kept` is what `SyncInv` leaves open: the place in `sem_queue` is with a client
inside, and a request that is waited for is still somewhere.

`CountEncodeProofs` is about any file, any size of the buffer and of the pipe,
any failure and a killed child, from `PiecesAssumption` alone:

* `CountsCompleteAlways`: `CountSpec => []CountsComplete`.

The queues between the two processes carry the lengths of the pieces in the order
in which they were read, without a gap (`Carries`, `Queues`); each piece fits the
buffer and only a newline cuts it short (`Fits`); what is left of the file is
what the pieces have not reached (`Remains`); and `Stages` says what has to be
empty when a process has come to its end. Positions instead of lines make the sum
of the lengths the last position, so that no induction over the file is needed.

The four theorems named `NoDeadlock` are the part of the liveness properties
(`GameEnds`, `EverybodyEnds`, `Served`) that can be proved: a state in which
nobody can move would violate them under any fairness. What a process waits for
is spelled out in `ServerWaits`, `ClientWaits` and `Waits`, as `ENABLED` is out of
the prover's reach; on the instances of the runs TLC finds them equal to the
negation of `ENABLED`.

Only model-checked: everything under fairness, since liveness is out of the
prover's reach (`RegistrationCompletes`, `TurnComes` and `GameEnds` of
Battleships, `GameEnds` of Mastermind, `EverybodyEnds`, `Served`, `BothEnd`), and
four properties of functions. `ParityDetects` speaks of powers of two, of which the
provers know nothing but the name; with the five slots of the code the run goes
through all words there are. `ListUpdated`, `TextKept` and `VerdictIsTrue`
are about folds over arguments and texts, so that their proofs would be
inductions over data; they are compared with definitions that do not follow the
code, on all samples up to a length.

## 6. Not modelled

* Servers that overlap, in the runs: with `Overlap = TRUE` the lifecycle has the
  actions, and `FreshStart` and `FailsOnlyAfterKill` fail. No document
  says that two servers may run.
* A server of the exam `synchronization` that is started a second time; it ends
  on the names the first one left or has not unlinked yet.
* A game inside the lifecycle and the lifecycle inside a game: their product is
  out of TLC's reach. `Battleships` starts with its objects in place, and
  `Play` is one step of `BattleshipsLifecycle`.
* The contents of lines in forksort: lines longer than its buffer, lines without
  newline and lines with percent signs, the beginning of a line that a child of
  forksort has written when it is killed, and a `wait` that fails with `ECHILD`;
  likewise a signal that reaches mastermind before `accept` blocks when no client
  ever comes. The hazards list gives the lines.
* Numbers that overflow `sscanf` or `strtol` beyond what the programs check, and
  the missing terminator when `ispalindrom` prints its input.
* The servers of `ex2` and the list functions of `ex1`, which are there only as a
  binary and an object file: modelled as external where the sources use them.
* In `count`: a `pipe` that fails, and the child's own copy of the write end of the
  pipe, which its first call closes.
* A way out of a lock-out: `Served` excuses a server that has ended and a
  client that ended while it held `sem_queue`, after which the others wait for
  ever; likewise the clients of a battleships game in which one was killed.
* Formatting, colours, logging, the text of prompts, memory allocation.
* Build files, course text and binaries have no behaviour to model.

## 7. Plan

What the plan has left:

1. The refinement of `BattleshipsGame` with signals: the abstract game needs an
   action for a shot that is abandoned because the server was interrupted.
2. `VerdictIsTrue` and `TextKept` for texts of any length, with the two filters
   as state machines that read a character per step.
