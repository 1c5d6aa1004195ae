--------------------------- MODULE Synchronization ---------------------------
(***************************************************************************)
(* exams/2/synchronization: clients that queue for a server which sorts    *)
(* the numbers in a shared segment.  The server is started once, with none *)
(* of the names in place; a client may be started at any time, also before *)
(* the server has made its semaphores or while it unlinks them.            *)
(***************************************************************************)
EXTENDS Naturals

CONSTANTS
  Clients,
  Mapping,  \* the outcomes of the server's mmap(), which is not checked
  Signals,  \* may the server get SIGINT or SIGTERM?
  Kills     \* may clients be killed?

ASSUME ConstantsAssumption ==
  /\ Mapping \subseteq BOOLEAN
  /\ Signals \in BOOLEAN /\ Kills \in BOOLEAN

VARIABLES
  names,    \* the names of semaphores that exist
  sems,     \* the values of the semaphores
  segment,  \* the segment that SHM_NUMBERS leads to or would be made for it
  numbers,  \* what each segment holds
  spc,      \* what the server does next
  mapped,   \* did its mmap() succeed?
  pc,       \* what each client does next
  mine,     \* the segment a client has mapped
  has,      \* the semaphores it has opened
  answer,   \* what it has read
  inside    \* history: clients that took sem_queue and have not posted it

server == <<spc, mapped>>
client == <<pc, mine, has, answer, inside>>
vars == <<names, sems, segment, numbers, server, client>>

\* In the order in which they are made, opened and unlinked.
Sems == {"sem_clients", "sem_server", "sem_queue"}

Rank == [sem_clients |-> 1, sem_server |-> 2, sem_queue |-> 3]

Initial == [sem_clients |-> 0, sem_server |-> 0, sem_queue |-> 1]

After(s, last) ==
  CASE s = "sem_clients" -> "sem_server"
    [] s = "sem_server"  -> "sem_queue"
    [] s = "sem_queue"   -> last

Init ==
  /\ names = {}
  /\ sems = Initial
  /\ segment = 1
  /\ numbers = [g \in 1 .. 2 |-> "zero"]
  /\ spc = "shm" /\ mapped = FALSE
  /\ pc = [c \in Clients |-> "shm"]
  /\ mine = [c \in Clients |-> 1]
  /\ has = [c \in Clients |-> {}]
  /\ answer = [c \in Clients |-> "none"]
  /\ inside = {}

-----------------------------------------------------------------------------
\* shm_open(), ftruncate() and mmap(), whose flags are the permission.
MapNumbers ==
  /\ spc = "shm"
  /\ mapped' \in Mapping
  /\ spc' = "sem_clients"
  /\ UNCHANGED <<names, sems, segment, numbers, client>>

\* sem_open() with O_CREAT | O_EXCL.
CreateSemaphore ==
  /\ spc \in Sems
  /\ names' = names \cup {spc}
  /\ spc' = After(spc, "wait")
  /\ UNCHANGED <<sems, segment, numbers, mapped, client>>

\* Mutant: the answer is announced before it is there.
WaitClientsEarly ==
  /\ spc = "wait"
  /\ sems["sem_clients"] > 0
  /\ sems' = [sems EXCEPT !["sem_clients"] = @ - 1, !["sem_server"] = @ + 1]
  /\ spc' = "sort"
  /\ UNCHANGED <<names, segment, numbers, mapped, client>>

WaitClients ==
  /\ spc = "wait"
  /\ sems["sem_clients"] > 0
  /\ sems' = [sems EXCEPT !["sem_clients"] = @ - 1]
  /\ spc' = "sort"
  /\ UNCHANGED <<names, segment, numbers, mapped, client>>

\* The first access to a segment that is not there ends the server, without
\* its atexit handler.
Sort ==
  /\ spc = "sort"
  /\ IF mapped
     THEN /\ numbers' = [numbers EXCEPT ![1] = "sorted"]
          /\ spc' = "post"
     ELSE /\ spc' = "crashed"
          /\ UNCHANGED numbers
  /\ UNCHANGED <<names, sems, segment, mapped, client>>

PostServer ==
  /\ spc = "post"
  /\ sems' = [sems EXCEPT !["sem_server"] = @ + 1]
  /\ spc' = "wait"
  /\ UNCHANGED <<names, segment, numbers, mapped, client>>

\* handle_signal() calls exit(), which calls terminate().
Signal ==
  /\ Signals
  /\ spc \notin {"unlink_shm", "unlink", "ended", "crashed"}
  /\ spc' = "unlink_shm"
  /\ UNCHANGED <<names, sems, segment, numbers, mapped, client>>

UnlinkNumbers ==
  /\ spc = "unlink_shm"
  /\ segment' = 2
  /\ spc' = "unlink"
  /\ UNCHANGED <<names, sems, numbers, mapped, client>>

UnlinkSemaphore ==
  /\ spc = "unlink"
  /\ \/ /\ names = {}
        /\ spc' = "ended"
        /\ UNCHANGED names
     \/ \E s \in names :
          /\ \A t \in names : Rank[s] <= Rank[t]
          /\ names' = names \ {s}
          /\ UNCHANGED spc
  /\ UNCHANGED <<sems, segment, numbers, mapped, client>>

ServerStep ==
  \/ MapNumbers \/ CreateSemaphore \/ WaitClients \/ Sort \/ PostServer
  \/ UnlinkNumbers \/ UnlinkSemaphore

-----------------------------------------------------------------------------
OpenNumbers(c) ==
  /\ pc[c] = "shm"
  /\ mine' = [mine EXCEPT ![c] = segment]
  /\ pc' = [pc EXCEPT ![c] = "sem_clients"]
  /\ UNCHANGED <<names, sems, segment, numbers, server, has, answer, inside>>

\* sem_open() without O_CREAT; its result is not checked.
OpenSemaphore(c) ==
  /\ pc[c] \in Sems
  /\ has' = [has EXCEPT ![c] = @ \cup (names \cap {pc[c]})]
  /\ pc' = [pc EXCEPT ![c] = After(@, "take")]
  /\ UNCHANGED <<names, sems, segment, numbers, server, mine, answer, inside>>

\* The client uses a semaphore it could not open.
Uses(c) ==
  CASE pc[c] \in {"take", "leave"} -> "sem_queue"
    [] pc[c] = "hand"  -> "sem_clients"
    [] pc[c] = "await" -> "sem_server"
    [] OTHER -> "none"

Crash(c) ==
  /\ Uses(c) \in Sems \ has[c]
  /\ pc' = [pc EXCEPT ![c] = "crashed"]
  /\ UNCHANGED <<names, sems, segment, numbers, server, mine, has, answer, inside>>

TakeQueue(c) ==
  /\ pc[c] = "take" /\ "sem_queue" \in has[c]
  /\ sems["sem_queue"] > 0
  /\ sems' = [sems EXCEPT !["sem_queue"] = @ - 1]
  /\ inside' = inside \cup {c}
  /\ pc' = [pc EXCEPT ![c] = "write"]
  /\ UNCHANGED <<names, segment, numbers, server, mine, has, answer>>

Write(c) ==
  /\ pc[c] = "write"
  /\ numbers' = [numbers EXCEPT ![mine[c]] = "unsorted"]
  /\ pc' = [pc EXCEPT ![c] = "hand"]
  /\ UNCHANGED <<names, sems, segment, server, mine, has, answer, inside>>

\* Mutant: sem_queue is posted with sem_clients, before the answer is read.
PostClientsAndQueue(c) ==
  /\ pc[c] = "hand" /\ "sem_clients" \in has[c]
  /\ sems' = [sems EXCEPT !["sem_clients"] = @ + 1, !["sem_queue"] = @ + 1]
  /\ pc' = [pc EXCEPT ![c] = "await"]
  /\ UNCHANGED <<names, segment, numbers, server, mine, has, answer, inside>>

PostClients(c) ==
  /\ pc[c] = "hand" /\ "sem_clients" \in has[c]
  /\ sems' = [sems EXCEPT !["sem_clients"] = @ + 1]
  /\ pc' = [pc EXCEPT ![c] = "await"]
  /\ UNCHANGED <<names, segment, numbers, server, mine, has, answer, inside>>

WaitServer(c) ==
  /\ pc[c] = "await" /\ "sem_server" \in has[c]
  /\ sems["sem_server"] > 0
  /\ sems' = [sems EXCEPT !["sem_server"] = @ - 1]
  /\ pc' = [pc EXCEPT ![c] = "read"]
  /\ UNCHANGED <<names, segment, numbers, server, mine, has, answer, inside>>

Read(c) ==
  /\ pc[c] = "read"
  /\ answer' = [answer EXCEPT ![c] = numbers[mine[c]]]
  /\ pc' = [pc EXCEPT ![c] = "leave"]
  /\ UNCHANGED <<names, sems, segment, numbers, server, mine, has, inside>>

\* Mutant: the last post is missing.
LeaveSilently(c) ==
  /\ pc[c] = "leave" /\ "sem_queue" \in has[c]
  /\ inside' = inside \ {c}
  /\ pc' = [pc EXCEPT ![c] = "ended"]
  /\ UNCHANGED <<names, sems, segment, numbers, server, mine, has, answer>>

PostQueue(c) ==
  /\ pc[c] = "leave" /\ "sem_queue" \in has[c]
  /\ sems' = [sems EXCEPT !["sem_queue"] = @ + 1]
  /\ inside' = inside \ {c}
  /\ pc' = [pc EXCEPT ![c] = "ended"]
  /\ UNCHANGED <<names, segment, numbers, server, mine, has, answer>>

Gone(c) == pc[c] \in {"ended", "crashed", "killed"}

\* There is no signal handler.
Kill(c) ==
  /\ Kills /\ ~Gone(c)
  /\ pc' = [pc EXCEPT ![c] = "killed"]
  /\ UNCHANGED <<names, sems, segment, numbers, server, mine, has, answer, inside>>

ClientStep(c) ==
  \/ OpenNumbers(c) \/ OpenSemaphore(c) \/ Crash(c) \/ TakeQueue(c) \/ Write(c)
  \/ PostClients(c) \/ WaitServer(c) \/ Read(c) \/ PostQueue(c)

Next == ServerStep \/ Signal \/ \E c \in Clients : ClientStep(c) \/ Kill(c)

Spec == Init /\ [][Next]_vars

\* Each process runs when it can; a client passes each semaphore once, so no
\* wake-up order is assumed.
FairSpec ==
  /\ Spec
  /\ WF_vars(ServerStep)
  /\ \A c \in Clients : WF_vars(ClientStep(c))

-----------------------------------------------------------------------------
ServerLabels == {"shm", "wait", "sort", "post", "unlink_shm", "unlink", "ended",
                 "crashed"} \cup Sems

ClientLabels == {"shm", "take", "write", "hand", "await", "read", "leave", "ended",
                 "crashed", "killed"} \cup Sems

TypeOK ==
  /\ names \subseteq Sems
  /\ sems \in [Sems -> Nat]
  /\ segment \in 1 .. 2
  /\ numbers \in [1 .. 2 -> {"zero", "unsorted", "sorted"}]
  /\ spc \in ServerLabels /\ mapped \in BOOLEAN
  /\ pc \in [Clients -> ClientLabels]
  /\ mine \in [Clients -> 1 .. 2]
  /\ has \in [Clients -> SUBSET Sems]
  /\ answer \in [Clients -> {"none", "zero", "unsorted", "sorted"}]
  /\ inside \subseteq Clients

(***************************************************************************)
(* The "critical section" comments of server.c:69 and client.c:53, 65: the *)
(* server is not in the segment together with a client, nor two clients,   *)
(* whoever was killed or ended over a semaphore it could not open.         *)
(***************************************************************************)
Accessing(c) == pc[c] \in {"write", "hand", "read", "leave"}

SegmentExclusive ==
  /\ \A c, d \in Clients : Accessing(c) /\ Accessing(d) => c = d
  /\ \A c \in Clients : Accessing(c) => spc \notin {"sort", "post"}

(***************************************************************************)
(* What a client reads is the sorted numbers (client.c:63), also when the  *)
(* server unlinks its objects and a client makes the segment anew.         *)
(***************************************************************************)
ReadsSorted == \A c \in Clients : answer[c] \in {"none", "sorted"}

(***************************************************************************)
(* A client that has opened all semaphores ends, unless the server is gone *)
(* or another client has gone with sem_queue in its hands.                 *)
(***************************************************************************)
ServerGone == spc \in {"unlink_shm", "unlink", "ended", "crashed"}

Served ==
  \A c \in Clients :
    (pc[c] = "take" /\ has[c] = Sems) ~>
      Gone(c) \/ ServerGone \/ \E d \in inside : Gone(d)

(***************************************************************************)
(* client.c:63 "wait for the server to sort": it comes to an end.          *)
(***************************************************************************)
SortingComes == \A c \in Clients : pc[c] = "await" ~> pc[c] # "await"

=============================================================================
