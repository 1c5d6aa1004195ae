----------------------- MODULE SynchronizationProofs -----------------------
(***************************************************************************)
(* Proofs about Synchronization for any number of clients, with signals,   *)
(* killed clients and any outcome of mmap().                               *)
(***************************************************************************)
EXTENDS Synchronization, TLAPS

\* What a client that has taken sem_queue may be doing after it posted
\* sem_clients and before it reads.
Waiting == {"await", "crashed", "killed"}

InsideLabels == {"write", "hand", "await", "read", "leave"}

\* A request is with sem_clients, with the server or with sem_server.
Pending ==
  \/ sems["sem_clients"] > 0
  \/ spc \in {"sort", "post"}
  \/ sems["sem_server"] > 0

\* sem_queue lets one client in.
Queue ==
  /\ sems["sem_queue"] <= 1
  /\ sems["sem_queue"] > 0 => inside = {}
  /\ \A c, d \in inside : c = d
  /\ \A c \in Clients : pc[c] \in InsideLabels => c \in inside

\* The one request there can be belongs to the client inside.
Request ==
  /\ sems["sem_clients"] <= 1 /\ sems["sem_server"] <= 1
  /\ sems["sem_clients"] > 0 => sems["sem_server"] = 0 /\ spc \notin {"sort", "post"}
  /\ sems["sem_server"] > 0 => spc \notin {"sort", "post"}
  /\ Pending => inside # {} /\ \A c \in inside : pc[c] \in Waiting

\* A client that looks at a segment made anew has no answer coming.
Answered ==
  /\ segment = 2 => spc \in {"unlink", "ended"}
  /\ \A c \in Clients : mine[c] = 2 => segment = 2
  /\ \A c \in inside : mine[c] = 2 => sems["sem_server"] = 0
  /\ spc = "post" \/ sems["sem_server"] > 0 => numbers[1] = "sorted"
  /\ \A c \in Clients : pc[c] = "read" => numbers[mine[c]] = "sorted"

SyncInv == TypeOK /\ Queue /\ Request /\ Answered /\ ReadsSorted

-----------------------------------------------------------------------------
LEMMA InitInv == Init => SyncInv
<1>. SUFFICES ASSUME Init PROVE SyncInv
  OBVIOUS
<1>1. /\ sems \in [Sems -> Nat]
      /\ sems["sem_clients"] = 0 /\ sems["sem_server"] = 0 /\ sems["sem_queue"] = 1
  BY DEF Init, Initial, Sems
<1>2. numbers \in [1 .. 2 -> {"zero", "unsorted", "sorted"}]
  BY DEF Init
<1>3. TypeOK
  <2>1. names \subseteq Sems /\ segment \in 1 .. 2 /\ inside \subseteq Clients
    BY DEF Init
  <2>2. spc \in ServerLabels /\ mapped \in BOOLEAN
    BY DEF Init, ServerLabels
  <2>3. pc \in [Clients -> ClientLabels]
    BY DEF Init, ClientLabels
  <2>4. mine \in [Clients -> 1 .. 2] /\ has \in [Clients -> SUBSET Sems]
    BY DEF Init
  <2>5. answer \in [Clients -> {"none", "zero", "unsorted", "sorted"}]
    BY DEF Init
  <2>. QED
    BY <1>1, <1>2, <2>1, <2>2, <2>3, <2>4, <2>5 DEF TypeOK
<1>4. Queue /\ Request
  BY <1>1 DEF Init, Queue, Request, Pending, InsideLabels
<1>5. Answered /\ ReadsSorted
  BY <1>1 DEF Init, Answered, ReadsSorted
<1>. QED
  BY <1>3, <1>4, <1>5 DEF SyncInv

\* Every action keeps the invariant.
LEMMA StepInv == SyncInv /\ [Next]_vars => SyncInv'
<1>. SUFFICES ASSUME SyncInv, [Next]_vars PROVE SyncInv'
  OBVIOUS
<1>. USE DEF SyncInv, TypeOK, Queue, Request, Answered, ReadsSorted, Pending,
             Waiting, InsideLabels, Sems, server, client
<1>1. CASE MapNumbers
  BY <1>1, ConstantsAssumption DEF MapNumbers, ServerLabels
<1>2. CASE CreateSemaphore BY <1>2 DEF CreateSemaphore, After, ServerLabels
<1>3. CASE WaitClients     BY <1>3 DEF WaitClients, ServerLabels
<1>4. CASE Sort            BY <1>4 DEF Sort, ServerLabels
<1>5. CASE PostServer      BY <1>5 DEF PostServer, ServerLabels
<1>6. CASE UnlinkNumbers   BY <1>6 DEF UnlinkNumbers, ServerLabels
<1>7. CASE UnlinkSemaphore BY <1>7 DEF UnlinkSemaphore, ServerLabels
<1>8. CASE Signal          BY <1>8 DEF Signal, ServerLabels
<1>9. ASSUME NEW c \in Clients, ClientStep(c) \/ Kill(c) PROVE SyncInv'
  <2>1. CASE OpenNumbers(c)   BY <2>1 DEF OpenNumbers, ClientLabels
  <2>2. CASE OpenSemaphore(c) BY <2>2 DEF OpenSemaphore, After, ClientLabels
  <2>3. CASE Crash(c)         BY <2>3 DEF Crash, Uses, ClientLabels
  <2>4. CASE TakeQueue(c)     BY <2>4 DEF TakeQueue, ClientLabels
  <2>5. CASE Write(c)         BY <2>5 DEF Write, ClientLabels
  <2>6. CASE PostClients(c)   BY <2>6 DEF PostClients, ClientLabels
  <2>7. CASE WaitServer(c)    BY <2>7 DEF WaitServer, ClientLabels
  <2>8. CASE Read(c)          BY <2>8 DEF Read, ClientLabels
  <2>9. CASE PostQueue(c)     BY <2>9 DEF PostQueue, ClientLabels
  <2>10. CASE Kill(c)         BY <2>10 DEF Kill, Gone, ClientLabels
  <2>. QED
    BY <1>9, <2>1, <2>2, <2>3, <2>4, <2>5, <2>6, <2>7, <2>8, <2>9, <2>10
       DEF ClientStep
<1>10. CASE UNCHANGED vars
  BY <1>10 DEF vars
<1>. QED
  BY <1>1, <1>2, <1>3, <1>4, <1>5, <1>6, <1>7, <1>8, <1>9, <1>10
     DEF Next, ServerStep

(***************************************************************************)
(* Whatever happens to the clients and the server, the numbers in the      *)
(* segment are never touched by two processes at a time.                   *)
(***************************************************************************)
THEOREM SegmentExclusion == Spec => []SegmentExclusive
<1>1. SyncInv => SegmentExclusive
  BY DEF SyncInv, SegmentExclusive, Accessing, Queue, Request, Pending,
         Waiting, InsideLabels
<1>. QED
  BY InitInv, StepInv, <1>1, PTL DEF Spec

\* What a client has read is what the server has sorted.
THEOREM AnswersSorted == Spec => []ReadsSorted
<1>1. SyncInv => ReadsSorted
  BY DEF SyncInv
<1>. QED
  BY InitInv, StepInv, <1>1, PTL DEF Spec

-----------------------------------------------------------------------------
(***************************************************************************)
(* Deadlock.                                                               *)
(***************************************************************************)
\* A semaphore keeps the process from going on.
ServerWaits == spc = "wait" /\ sems["sem_clients"] = 0

ClientWaits(c) ==
  \/ pc[c] = "take"  /\ "sem_queue" \in has[c]  /\ sems["sem_queue"] = 0
  \/ pc[c] = "await" /\ "sem_server" \in has[c] /\ sems["sem_server"] = 0

\* Unless the server or the client inside is gone, somebody can go on as
\* long as there are clients.
NeverStuck ==
  \/ ServerGone \/ \E d \in inside : Gone(d)
  \/ (\E c \in Clients : ~ Gone(c)) =>
       ~ ServerWaits \/ \E c \in Clients : ~ Gone(c) /\ ~ ClientWaits(c)

\* The turn in the queue and the request of the client inside are not lost.
Kept ==
  /\ sems["sem_queue"] = 0 => inside # {}
  /\ \A c \in inside : pc[c] \in InsideLabels \/ Gone(c)
  /\ \A c \in Clients : pc[c] = "await" => Pending \/ ServerGone

LEMMA InitKept == Init => Kept
<1>. SUFFICES ASSUME Init PROVE Kept
  OBVIOUS
<1>1. sems["sem_queue"] = 1 /\ inside = {} /\ \A c \in Clients : pc[c] # "await"
  BY DEF Init, Initial
<1>. QED
  BY <1>1 DEF Kept

LEMMA StepKept == SyncInv /\ Kept /\ [Next]_vars => Kept'
<1>. SUFFICES ASSUME SyncInv, Kept, [Next]_vars PROVE Kept'
  OBVIOUS
<1>. USE DEF SyncInv, TypeOK, Queue, Request, Kept, Pending, Waiting, InsideLabels,
             Gone, ServerGone, Sems, server, client
<1>1. CASE MapNumbers      BY <1>1 DEF MapNumbers
<1>2. CASE CreateSemaphore BY <1>2 DEF CreateSemaphore, After
<1>3. CASE WaitClients     BY <1>3 DEF WaitClients
<1>4. CASE Sort            BY <1>4 DEF Sort
<1>5. CASE PostServer      BY <1>5 DEF PostServer
<1>6. CASE UnlinkNumbers   BY <1>6 DEF UnlinkNumbers
<1>7. CASE UnlinkSemaphore BY <1>7 DEF UnlinkSemaphore
<1>8. CASE Signal          BY <1>8 DEF Signal
<1>9. ASSUME NEW c \in Clients, ClientStep(c) \/ Kill(c) PROVE Kept'
  <2>1. CASE OpenNumbers(c)   BY <2>1 DEF OpenNumbers
  <2>2. CASE OpenSemaphore(c) BY <2>2 DEF OpenSemaphore, After
  <2>3. CASE Crash(c)         BY <2>3 DEF Crash, Uses
  <2>4. CASE TakeQueue(c)     BY <2>4 DEF TakeQueue
  <2>5. CASE Write(c)         BY <2>5 DEF Write
  <2>6. CASE PostClients(c)   BY <2>6 DEF PostClients
  <2>7. CASE WaitServer(c)    BY <2>7 DEF WaitServer
  <2>8. CASE Read(c)          BY <2>8 DEF Read
  <2>9. CASE PostQueue(c)     BY <2>9 DEF PostQueue
  <2>10. CASE Kill(c)         BY <2>10 DEF Kill
  <2>. QED
    BY <1>9, <2>1, <2>2, <2>3, <2>4, <2>5, <2>6, <2>7, <2>8, <2>9, <2>10
       DEF ClientStep
<1>10. CASE UNCHANGED vars
  BY <1>10 DEF vars
<1>. QED
  BY <1>1, <1>2, <1>3, <1>4, <1>5, <1>6, <1>7, <1>8, <1>9, <1>10
     DEF Next, ServerStep

(***************************************************************************)
(* The clients and the server never all wait for a semaphore: the only     *)
(* ways to get stuck are a server that is gone and a client that is gone   *)
(* with sem_queue in its hands (client.c:53-70).                           *)
(***************************************************************************)
THEOREM NoDeadlock == Spec => []NeverStuck
<1>1. ASSUME SyncInv, Kept, ~ ServerGone, \A d \in inside : ~ Gone(d), ServerWaits,
             NEW c \in Clients, ~ Gone(c)
      PROVE  \E d \in Clients : ~ Gone(d) /\ ~ ClientWaits(d)
  <2>1. CASE ~ ClientWaits(c)
    BY <1>1, <2>1
  <2>2. CASE pc[c] = "take" /\ sems["sem_queue"] = 0
    <3>1. PICK d \in inside : pc[d] \in InsideLabels /\ ~ Gone(d)
      BY <1>1, <2>2 DEF Kept
    <3>2. d \in Clients
      BY <1>1 DEF SyncInv, TypeOK
    <3>3. ~ ClientWaits(d)
      BY <1>1, <3>1, <3>2
         DEF ClientWaits, InsideLabels, Kept, Pending, SyncInv, TypeOK, ServerWaits, Sems
    <3>. QED
      BY <3>1, <3>2, <3>3
  <2>3. CASE pc[c] = "await" /\ sems["sem_server"] = 0
    BY <1>1, <2>3 DEF Kept, Pending, SyncInv, TypeOK, ServerWaits, Sems
  <2>. QED
    BY <2>1, <2>2, <2>3 DEF ClientWaits
<1>2. SyncInv /\ Kept => NeverStuck
  BY <1>1 DEF NeverStuck
<1>3. Spec => [](SyncInv /\ Kept)
  BY InitInv, StepInv, InitKept, StepKept, PTL DEF Spec
<1>. QED
  BY <1>2, <1>3, PTL

=============================================================================
