------------------------ MODULE BattleshipsLifecycle ------------------------
(***************************************************************************)
(* The named objects of battleships: two shared memory segments and five   *)
(* semaphores, which a server makes before each game and unlinks after it, *)
(* and which a client opens one by one.  An object is a number, counted    *)
(* per name; a process keeps using the object it has opened whatever       *)
(* becomes of the name.  What happens in a game is left to Battleships.    *)
(***************************************************************************)
EXTENDS Integers

CONSTANTS
  Servers,  \* server processes, each started at most once
  Clients,
  Games,    \* how often resources are allocated: a bound
  Kills,    \* may servers be killed by a signal they do not handle?
  Overlap,  \* may a server be started while another one runs?
  Last      \* the last name: 7 in the code, any number from 4 here

ASSUME ConstantsAssumption ==
  /\ Last \in Nat /\ Last >= 4
  /\ Games \in Nat
  /\ Kills \in BOOLEAN
  /\ Overlap \in BOOLEAN

VARIABLES
  names,    \* the object behind each name
  made,     \* how many objects each name has had
  phase,    \* what each server does next
  at,       \* the name it creates or unlinks next
  held,     \* the objects it has opened
  cphase,   \* what each client does next
  cat,      \* the name it opens next
  cheld,    \* the objects it has opened
  joins,    \* the value of each SEM_1
  over,     \* segments in which a game has come to its end
  flagged,  \* segments with give_up_flag or server_terminated_flag set
  games,    \* allocations so far
  lastEnd   \* history: was a server killed since everything was freed?

serverVars == <<phase, at, held, games, lastEnd>>
clientVars == <<cphase, cat, cheld>>
vars == <<names, made, serverVars, clientVars, joins, over, flagged>>

\* SHM_REGISTRATION, SHM_GAME_ACTION, SEM_1 (Join) and the other semaphores,
\* in the order in which they are made, opened and unlinked.
Action == 2
Segments == {1, Action}
Join == 3
Semaphores == 3 .. Last
Names == 1 .. Last
Positions == 1 .. Last + 1

Rounds == 1 .. Games

\* No object, MAP_FAILED or SEM_FAILED.
Missing == 0

Nothing == [n \in Names |-> Missing]

\* In free_resources(), called from the loop or by exit().
Freeing == {"free", "exit"}

Alive(s) == phase[s] \notin {"new", "ended", "killed"}

Init ==
  /\ names = Nothing
  /\ made = [n \in Names |-> 0]
  /\ phase = [s \in Servers |-> "new"]
  /\ at = [s \in Servers |-> 1]
  /\ held = [s \in Servers |-> Nothing]
  /\ cphase = [c \in Clients |-> "open"]
  /\ cat = [c \in Clients |-> 1]
  /\ cheld = [c \in Clients |-> Nothing]
  /\ joins = [o \in Rounds |-> 0]
  /\ over = {} /\ flagged = {}
  /\ games = 0
  /\ lastEnd = "freed"

-----------------------------------------------------------------------------
\* O_CREAT: the object behind a name, which is made if there is none.
OpenOrCreate(n) == IF names[n] = Missing THEN made[n] + 1 ELSE names[n]

Make(n) ==
  /\ names' = [names EXCEPT ![n] = OpenOrCreate(n)]
  /\ made' = [made EXCEPT ![n] = IF names[n] = Missing THEN @ + 1 ELSE @]

Goto(s, label, n) ==
  /\ phase' = [phase EXCEPT ![s] = label]
  /\ at' = [at EXCEPT ![s] = n]

\* bail_out(): exit() runs free_resources() as the atexit handler.
Leave(s) == Goto(s, "exit", 1)

\* The server is started, or comes back to the head of its loop.
NewGame(s) ==
  /\ phase[s] \in {"new", "next"}
  /\ phase[s] = "new" => Overlap \/ \A t \in Servers : ~Alive(t)
  /\ games < Games
  /\ games' = games + 1
  /\ Goto(s, "segments", 1)
  /\ UNCHANGED <<names, made, held, lastEnd, clientVars, joins, over, flagged>>

\* shm_open(), which may fail.
OpenSegment(s) ==
  /\ phase[s] = "segments"
  /\ LET n == at[s]
     IN  /\ \/ /\ Make(n)
               /\ held' = [held EXCEPT ![s][n] = OpenOrCreate(n)]
            \/ /\ held' = [held EXCEPT ![s][n] = Missing]
               /\ UNCHANGED <<names, made>>
         /\ IF n = Action THEN Goto(s, "reset", n) ELSE Goto(s, "segments", Action)
  /\ UNCHANGED <<games, lastEnd, clientVars, joins, over, flagged>>

\* The flags are cleared, the response is not; ftruncate(), mmap() and
\* close() may fail before that.
ResetFlags(s) ==
  /\ phase[s] = "reset"
  /\ \/ /\ \A n \in Segments : held[s][n] # Missing
        /\ flagged' = flagged \ {held[s][Action]}
        /\ Goto(s, "semaphores", Join)
     \/ Leave(s) /\ UNCHANGED flagged
  /\ UNCHANGED <<names, made, held, games, lastEnd, clientVars, joins, over>>

\* Mutant: sem_open() without O_EXCL takes what a killed server has left.
CreateSemaphoreShared(s) ==
  /\ phase[s] = "semaphores"
  /\ LET n == at[s]
     IN  /\ Make(n)
         /\ held' = [held EXCEPT ![s][n] = OpenOrCreate(n)]
         /\ IF n = Last THEN Goto(s, "check", n) ELSE Goto(s, "semaphores", n + 1)
  /\ UNCHANGED <<games, lastEnd, clientVars, joins, over, flagged>>

\* sem_open() with O_CREAT | O_EXCL fails if the name exists.
CreateSemaphore(s) ==
  /\ phase[s] = "semaphores"
  /\ LET n == at[s]
     IN  /\ IF names[n] = Missing
            THEN /\ Make(n)
                 /\ held' = [held EXCEPT ![s][n] = OpenOrCreate(n)]
            ELSE /\ held' = [held EXCEPT ![s][n] = Missing]
                 /\ UNCHANGED <<names, made>>
         /\ IF n = Last THEN Goto(s, "check", n) ELSE Goto(s, "semaphores", n + 1)
  /\ UNCHANGED <<games, lastEnd, clientVars, joins, over, flagged>>

\* The five results are looked at together.
Failed(s) == \E n \in Semaphores : held[s][n] = Missing

Check(s) ==
  /\ phase[s] = "check"
  /\ IF Failed(s) THEN Leave(s) ELSE Goto(s, "join1", at[s])
  /\ UNCHANGED <<names, made, held, games, lastEnd, clientVars, joins, over, flagged>>

\* Mutant: the result of sem_wait(s1) is not looked at.
WaitJoinFailing(s) ==
  /\ phase[s] \in {"join1", "join2"}
  /\ joins' = [joins EXCEPT ![held[s][Join]] = @ - 1]
  /\ Goto(s, IF phase[s] = "join1" THEN "join2" ELSE "unlink", at[s])
  /\ UNCHANGED <<names, made, held, games, lastEnd, clientVars, over, flagged>>

\* sem_wait(s1), twice.
WaitJoin(s) ==
  /\ phase[s] \in {"join1", "join2"}
  /\ joins[held[s][Join]] > 0
  /\ joins' = [joins EXCEPT ![held[s][Join]] = @ - 1]
  /\ Goto(s, IF phase[s] = "join1" THEN "join2" ELSE "unlink", at[s])
  /\ UNCHANGED <<names, made, held, games, lastEnd, clientVars, over, flagged>>

\* Nobody else can join; sem_unlink() fails if the name is gone.
UnlinkJoin(s) ==
  /\ phase[s] = "unlink"
  /\ IF names[Join] = Missing
     THEN Leave(s) /\ UNCHANGED names
     ELSE /\ names' = [names EXCEPT ![Join] = Missing]
          /\ Goto(s, "game", at[s])
  /\ UNCHANGED <<made, held, games, lastEnd, clientVars, joins, over, flagged>>

\* Placing the ships and play(): the response stays in the segment, and so
\* does give_up_flag.
Play(s) ==
  /\ phase[s] = "game"
  /\ over' = over \cup {held[s][Action]}
  /\ flagged' \in {flagged, flagged \cup {held[s][Action]}}
  /\ Goto(s, "free", 1)
  /\ UNCHANGED <<names, made, held, games, lastEnd, clientVars, joins>>

\* A signal ends a wait with EINTR; some waits announce it.
Interrupt(s) ==
  /\ phase[s] \in {"join1", "join2", "game"}
  /\ \/ phase[s] # "join2" /\ UNCHANGED flagged
     \/ phase[s] # "join1" /\ flagged' = flagged \cup {held[s][Action]}
  /\ Leave(s)
  /\ UNCHANGED <<names, made, held, games, lastEnd, clientVars, joins, over>>

\* Mutant: SEM_5 is forgotten.
FreeForgets(s) ==
  /\ phase[s] \in Freeing
  /\ names' = [names EXCEPT ![at[s]] = Missing]
  /\ IF at[s] = Last - 1
     THEN /\ Goto(s, IF phase[s] = "exit" THEN "ended" ELSE "next", 1)
          /\ held' = [held EXCEPT ![s] = Nothing]
          /\ lastEnd' = "freed"
     ELSE Goto(s, phase[s], at[s] + 1) /\ UNCHANGED <<held, lastEnd>>
  /\ UNCHANGED <<made, games, clientVars, joins, over, flagged>>

\* free_resources(): the segments first.
Free(s) ==
  /\ phase[s] \in Freeing
  /\ names' = [names EXCEPT ![at[s]] = Missing]
  /\ IF at[s] = Last
     THEN /\ Goto(s, IF phase[s] = "exit" THEN "ended" ELSE "next", 1)
          /\ held' = [held EXCEPT ![s] = Nothing]
          /\ lastEnd' = "freed"
     ELSE Goto(s, phase[s], at[s] + 1) /\ UNCHANGED <<held, lastEnd>>
  /\ UNCHANGED <<made, games, clientVars, joins, over, flagged>>

Kill(s) ==
  /\ Kills /\ Alive(s)
  /\ Goto(s, "killed", 1)
  /\ held' = [held EXCEPT ![s] = Nothing]
  /\ lastEnd' = "killed"
  /\ UNCHANGED <<names, made, games, clientVars, joins, over, flagged>>

-----------------------------------------------------------------------------
\* A client makes segments that are missing, and only opens semaphores.
OpenOne(c) ==
  /\ cphase[c] = "open" /\ cat[c] \in Names
  /\ LET n == cat[c]
     IN  IF n \in Segments
         THEN Make(n) /\ cheld' = [cheld EXCEPT ![c][n] = OpenOrCreate(n)]
         ELSE /\ cheld' = [cheld EXCEPT ![c][n] = names[n]]
              /\ UNCHANGED <<names, made>>
  /\ cat' = [cat EXCEPT ![c] = @ + 1]
  /\ UNCHANGED <<serverVars, cphase, joins, over, flagged>>

\* It gives up if a semaphore is missing and joins with sem_post(s1) if not.
PostJoin(c) ==
  /\ cphase[c] = "open" /\ cat[c] \notin Names
  /\ IF \E n \in Semaphores : cheld[c][n] = Missing
     THEN /\ cphase' = [cphase EXCEPT ![c] = "failed"]
          /\ cheld' = [cheld EXCEPT ![c] = Nothing]
          /\ UNCHANGED joins
     ELSE /\ cphase' = [cphase EXCEPT ![c] = "joined"]
          /\ joins' = [joins EXCEPT ![cheld[c][Join]] = @ + 1]
          /\ UNCHANGED cheld
  /\ UNCHANGED <<names, made, serverVars, cat, over, flagged>>

ServerStep(s) ==
  \/ NewGame(s) \/ OpenSegment(s) \/ ResetFlags(s) \/ CreateSemaphore(s)
  \/ Check(s) \/ WaitJoin(s) \/ UnlinkJoin(s) \/ Play(s) \/ Interrupt(s)
  \/ Free(s) \/ Kill(s)

ClientStep(c) == OpenOne(c) \/ PostJoin(c)

Next == (\E s \in Servers : ServerStep(s)) \/ (\E c \in Clients : ClientStep(c))

Spec == Init /\ [][Next]_vars

-----------------------------------------------------------------------------
Phases == {"new", "segments", "reset", "semaphores", "check", "join1", "join2",
           "unlink", "game", "free", "exit", "next", "ended", "killed"}

ServersOK ==
  /\ phase \in [Servers -> Phases]
  /\ at \in [Servers -> Names]
  /\ held \in [Servers -> [Names -> Nat]]

ClientsOK ==
  /\ cphase \in [Clients -> {"open", "joined", "failed"}]
  /\ cat \in [Clients -> Positions]
  /\ cheld \in [Clients -> [Names -> Nat]]

ObjectsOK ==
  /\ names \in [Names -> Nat] /\ made \in [Names -> Nat]
  /\ joins \in [Rounds -> Nat]
  /\ over \subseteq Nat /\ flagged \subseteq Nat
  /\ games \in Nat
  /\ lastEnd \in {"freed", "killed"}

TypeOK == ServersOK /\ ClientsOK /\ ObjectsOK

(***************************************************************************)
(* A server that waits for its players, or lets them begin, has a segment  *)
(* in which no earlier game has ended and no flag is set: the first client *)
(* to look would take the old response for its own.  allocate_resources()  *)
(* does not clear the response and does not make the segment anew; that    *)
(* this cannot happen rests on the order of free_resources() and on O_EXCL.*)
(***************************************************************************)
FreshStart ==
  \A s \in Servers :
    phase[s] \in {"join1", "join2", "unlink", "game"} =>
      held[s][Action] \notin over \cup flagged

(***************************************************************************)
(* A server finds semaphores in its way only after another one has been    *)
(* killed, and the failed start removes them: of two starts in a row the   *)
(* second one succeeds.                                                    *)
(***************************************************************************)
FailsOnlyAfterKill ==
  \A s \in Servers : phase[s] = "check" /\ Failed(s) => lastEnd = "killed"

(***************************************************************************)
(* A client that has joined the game a server waits for, or plays, looks   *)
(* at the segment of that game (battleships-client.c:82: "used by the      *)
(* client and the server for the game action").                            *)
(***************************************************************************)
PlayersShareSegments ==
  \A s \in Servers, c \in Clients :
    (/\ phase[s] \in {"join1", "join2", "unlink", "game"}
     /\ cphase[c] = "joined"
     /\ cheld[c][Join] = held[s][Join])
      => cheld[c][Action] = held[s][Action]

=============================================================================
