--------------------- MODULE BattleshipsLifecycleProofs ---------------------
(***************************************************************************)
(* Proofs about BattleshipsLifecycle, for any number of servers, clients,  *)
(* games and semaphores, as long as servers do not overlap.                *)
(***************************************************************************)
EXTENDS BattleshipsLifecycle, TLAPS

\* One server at a time.
OneByOne == ~Overlap

Alone == \A s, t \in Servers : Alive(s) /\ Alive(t) => s = t

\* Objects are numbered in the order in which they are made.
Numbered ==
  /\ \A n \in Names : names[n] <= made[n]
  /\ \A s \in Servers : held[s][Action] <= made[Action]
  /\ \A o \in over : 0 < o /\ o <= made[Action]

\* A name leads to a segment of an old game only if the last semaphore is
\* there too, which then stops the next server.
Guarded == names[Action] \in over => names[Last] # Missing

\* What the server s knows of its segment, and of the last semaphore.
Clean(s) ==
  LET h == held[s]
  IN  /\ phase[s] = "segments" => at[s] \in Segments
      /\ phase[s] = "reset" => (h[Action] \in over => names[Last] # Missing)
      /\ phase[s] = "semaphores" =>
           /\ at[s] \in Semaphores
           /\ h[Action] # Missing /\ h[Action] \notin flagged
           /\ h[Action] \in over => names[Last] # Missing
      /\ phase[s] = "check" =>
           /\ h[Action] # Missing /\ h[Action] \notin flagged
           /\ h[Action] \in over => h[Last] = Missing
           /\ h[Last] # Missing => names[Last] # Missing
      /\ phase[s] \in {"join1", "join2", "unlink", "game"} =>
           /\ h[Action] # Missing /\ h[Action] \notin over \cup flagged
           /\ names[Last] # Missing
      /\ phase[s] \in Freeing /\ at[s] > Action => names[Action] \notin over

FreshInv == Alone /\ Numbered /\ Guarded /\ \A s \in Servers : Clean(s)

\* Nothing is left of a server that was not killed.
Swept(s) ==
  /\ phase[s] = "segments" => at[s] \in Segments
  /\ phase[s] \in {"segments", "reset"} /\ lastEnd = "freed" =>
       \A n \in Semaphores : names[n] = Missing
  /\ phase[s] = "semaphores" =>
       /\ at[s] \in Semaphores
       /\ lastEnd = "freed" => \A n \in Semaphores :
            IF n < at[s] THEN held[s][n] # Missing ELSE names[n] = Missing
  /\ phase[s] = "check" /\ lastEnd = "freed" => ~Failed(s)
  /\ phase[s] = "next" => \A n \in Semaphores : names[n] = Missing
  /\ phase[s] \in Freeing => \A n \in Semaphores : n < at[s] => names[n] = Missing

SweptInv ==
  /\ Alone
  /\ \A s \in Servers : Swept(s)
  /\ lastEnd = "freed" /\ (\A s \in Servers : ~Alive(s)) =>
       \A n \in Semaphores : names[n] = Missing

-----------------------------------------------------------------------------
LEMMA NameFacts ==
  /\ 1 \in Names /\ Action \in Names /\ Join \in Names /\ Last \in Names
  /\ Segments \subseteq Names /\ Semaphores \subseteq Names
  /\ Nothing \in [Names -> Nat] /\ Missing \in Nat
BY ConstantsAssumption
   DEF Names, Action, Join, Segments, Semaphores, Nothing, Missing

LEMMA NextName ==
  ASSUME NEW n \in Names
  PROVE  n + 1 \in Positions /\ (n # Last => n + 1 \in Names)
BY ConstantsAssumption DEF Names, Positions

LEMMA GotoType ==
  ASSUME ServersOK, NEW s \in Servers, NEW label \in Phases, NEW n \in Names,
         Goto(s, label, n)
  PROVE  phase' \in [Servers -> Phases] /\ at' \in [Servers -> Names]
BY DEF ServersOK, Goto

LEMMA MakeType ==
  ASSUME names \in [Names -> Nat], made \in [Names -> Nat], NEW n \in Names
  PROVE  /\ OpenOrCreate(n) \in Nat
         /\ Make(n) => names' \in [Names -> Nat] /\ made' \in [Names -> Nat]
BY DEF Make, OpenOrCreate

LEMMA HoldType ==
  ASSUME ServersOK, NEW s \in Servers, NEW n \in Names
  PROVE  /\ held[s][n] \in Nat
         /\ \A o \in Nat :
              [held EXCEPT ![s][n] = o] \in [Servers -> [Names -> Nat]]
BY DEF ServersOK

\* Every variable keeps its type.
THEOREM TypeCorrect == Spec => []TypeOK
<1>1. Init => TypeOK
  BY ConstantsAssumption, NameFacts
     DEF Init, TypeOK, ServersOK, ClientsOK, ObjectsOK, Phases, Positions
<1>2. TypeOK /\ [Next]_vars => TypeOK'
  <2>. SUFFICES ASSUME TypeOK, [Next]_vars PROVE TypeOK'
    OBVIOUS
  <2>. USE DEF TypeOK
  <2>1. ASSUME NEW s \in Servers, ServerStep(s) PROVE TypeOK'
    <3>1. CASE NewGame(s)
      <4>1. ServersOK'
        BY <3>1, GotoType, NameFacts DEF NewGame, clientVars, ServersOK, Phases
      <4>2. ClientsOK' BY <3>1 DEF NewGame, clientVars, ClientsOK
      <4>3. ObjectsOK' BY <3>1 DEF NewGame, clientVars, ObjectsOK
      <4>. QED BY <4>1, <4>2, <4>3
    <3>2. CASE OpenSegment(s)
      <4>1. ServersOK'
        <5>1. /\ at[s] \in Names /\ Missing \in Nat
              /\ OpenOrCreate(at[s]) \in Nat
          BY NameFacts, MakeType DEF ServersOK, ObjectsOK
        <5>2. held' \in [Servers -> [Names -> Nat]]
          BY <3>2, <5>1, HoldType DEF OpenSegment
        <5>3. phase' \in [Servers -> Phases] /\ at' \in [Servers -> Names]
          BY <3>2, <5>1, GotoType, NameFacts DEF OpenSegment, Phases
        <5>. QED BY <5>2, <5>3 DEF ServersOK
      <4>2. ClientsOK' BY <3>2 DEF OpenSegment, clientVars, ClientsOK
      <4>3. ObjectsOK'
        BY <3>2, MakeType, NameFacts
           DEF OpenSegment, clientVars, ObjectsOK, ServersOK
      <4>. QED BY <4>1, <4>2, <4>3
    <3>3. CASE ResetFlags(s)
      <4>1. ServersOK'
        BY <3>3, GotoType, NameFacts
           DEF ResetFlags, Leave, clientVars, ServersOK, Phases
      <4>2. ClientsOK' BY <3>3 DEF ResetFlags, Leave, clientVars, ClientsOK
      <4>3. ObjectsOK' BY <3>3 DEF ResetFlags, Leave, clientVars, ObjectsOK
      <4>. QED BY <4>1, <4>2, <4>3
    <3>4. CASE CreateSemaphore(s)
      <4>1. ServersOK'
        <5>1. /\ at[s] \in Names /\ Missing \in Nat
              /\ OpenOrCreate(at[s]) \in Nat
          BY NameFacts, MakeType DEF ServersOK, ObjectsOK
        <5>2. held' \in [Servers -> [Names -> Nat]]
          BY <3>4, <5>1, HoldType DEF CreateSemaphore
        <5>3. phase' \in [Servers -> Phases] /\ at' \in [Servers -> Names]
          <6>1. at[s] # Last => at[s] + 1 \in Names
            BY <5>1, NextName
          <6>. QED
            BY <3>4, <5>1, <6>1, GotoType, NameFacts DEF CreateSemaphore, Phases
        <5>. QED BY <5>2, <5>3 DEF ServersOK
      <4>2. ClientsOK' BY <3>4 DEF CreateSemaphore, clientVars, ClientsOK
      <4>3. ObjectsOK'
        BY <3>4, MakeType DEF CreateSemaphore, clientVars, ObjectsOK, ServersOK
      <4>. QED BY <4>1, <4>2, <4>3
    <3>5. CASE Check(s)
      <4>1. ServersOK'
        BY <3>5, GotoType, NameFacts
           DEF Check, Leave, clientVars, ServersOK, Phases
      <4>2. ClientsOK' BY <3>5 DEF Check, Leave, clientVars, ClientsOK
      <4>3. ObjectsOK' BY <3>5 DEF Check, Leave, clientVars, ObjectsOK
      <4>. QED BY <4>1, <4>2, <4>3
    <3>6. CASE WaitJoin(s)
      <4>1. ServersOK'
        BY <3>6, GotoType DEF WaitJoin, clientVars, ServersOK, Phases
      <4>2. ClientsOK' BY <3>6 DEF WaitJoin, clientVars, ClientsOK
      <4>3. ObjectsOK'
        <5>. DEFINE j == held[s][Join]
        <5>1. joins' \in [Rounds -> Nat]
          <6>1. joins' = [joins EXCEPT ![j] = joins[j] - 1]
            BY <3>6 DEF WaitJoin
          <6>2. j \in Rounds => joins[j] - 1 \in Nat
            BY <3>6 DEF ObjectsOK, WaitJoin
          <6>3. joins \in [Rounds -> Nat]
            BY DEF ObjectsOK
          <6>. HIDE DEF j
          <6>. QED BY <6>1, <6>2, <6>3
        <5>. QED BY <3>6, <5>1 DEF WaitJoin, ObjectsOK
      <4>. QED BY <4>1, <4>2, <4>3
    <3>7. CASE UnlinkJoin(s)
      <4>1. ServersOK'
        BY <3>7, GotoType, NameFacts
           DEF UnlinkJoin, Leave, clientVars, ServersOK, Phases
      <4>2. ClientsOK' BY <3>7 DEF UnlinkJoin, Leave, clientVars, ClientsOK
      <4>3. ObjectsOK'
        BY <3>7, NameFacts DEF UnlinkJoin, Leave, clientVars, ObjectsOK
      <4>. QED BY <4>1, <4>2, <4>3
    <3>8. CASE Play(s)
      <4>1. ServersOK'
        BY <3>8, GotoType, NameFacts DEF Play, clientVars, ServersOK, Phases
      <4>2. ClientsOK' BY <3>8 DEF Play, clientVars, ClientsOK
      <4>3. ObjectsOK'
        BY <3>8, NameFacts, HoldType DEF Play, clientVars, ObjectsOK
      <4>. QED BY <4>1, <4>2, <4>3
    <3>9. CASE Interrupt(s)
      <4>1. ServersOK'
        BY <3>9, GotoType, NameFacts
           DEF Interrupt, Leave, clientVars, ServersOK, Phases
      <4>2. ClientsOK' BY <3>9 DEF Interrupt, Leave, clientVars, ClientsOK
      <4>3. ObjectsOK'
        BY <3>9, NameFacts, HoldType DEF Interrupt, Leave, clientVars, ObjectsOK
      <4>. QED BY <4>1, <4>2, <4>3
    <3>10. CASE Free(s)
      <4>1. ServersOK'
        BY <3>10, GotoType, NameFacts, NextName
           DEF Free, clientVars, ServersOK, Phases, Freeing
      <4>2. ClientsOK' BY <3>10 DEF Free, clientVars, ClientsOK
      <4>3. ObjectsOK' BY <3>10, NameFacts DEF Free, clientVars, ObjectsOK
      <4>. QED BY <4>1, <4>2, <4>3
    <3>11. CASE Kill(s)
      <4>1. ServersOK'
        BY <3>11, GotoType, NameFacts DEF Kill, clientVars, ServersOK, Phases
      <4>2. ClientsOK' BY <3>11 DEF Kill, clientVars, ClientsOK
      <4>3. ObjectsOK' BY <3>11 DEF Kill, clientVars, ObjectsOK
      <4>. QED BY <4>1, <4>2, <4>3
    <3>. QED
      BY <2>1, <3>1, <3>2, <3>3, <3>4, <3>5, <3>6, <3>7, <3>8,
         <3>9, <3>10, <3>11 DEF ServerStep
  <2>2. ASSUME NEW c \in Clients, ClientStep(c) PROVE TypeOK'
    <3>1. CASE OpenOne(c)
      <4>1. ServersOK' BY <3>1 DEF OpenOne, serverVars, ServersOK
      <4>2. ClientsOK'
        <5>1. /\ cat[c] \in Names /\ cat[c] + 1 \in Positions
              /\ OpenOrCreate(cat[c]) \in Nat /\ names[cat[c]] \in Nat
          BY <3>1, MakeType, NextName DEF OpenOne, ClientsOK, ObjectsOK
        <5>2. PICK o \in Nat : cheld' = [cheld EXCEPT ![c][cat[c]] = o]
          BY <3>1, <5>1 DEF OpenOne
        <5>3. cheld' \in [Clients -> [Names -> Nat]]
          BY <5>1, <5>2 DEF ClientsOK
        <5>. QED BY <3>1, <5>1, <5>3 DEF OpenOne, ClientsOK
      <4>3. ObjectsOK' BY <3>1, MakeType DEF OpenOne, serverVars, ObjectsOK
      <4>. QED BY <4>1, <4>2, <4>3
    <3>2. CASE PostJoin(c)
      <4>1. ServersOK' BY <3>2 DEF PostJoin, serverVars, ServersOK
      <4>2. ClientsOK' BY <3>2, NameFacts DEF PostJoin, serverVars, ClientsOK
      <4>3. ObjectsOK' BY <3>2 DEF PostJoin, serverVars, ObjectsOK
      <4>. QED BY <4>1, <4>2, <4>3
    <3>. QED BY <2>2, <3>1, <3>2 DEF ClientStep
  <2>3. CASE UNCHANGED vars
    BY <2>3 DEF vars, serverVars, clientVars, ServersOK, ClientsOK, ObjectsOK
  <2>. QED BY <2>1, <2>2, <2>3 DEF Next
<1>. QED
  BY <1>1, <1>2, PTL DEF Spec

-----------------------------------------------------------------------------
LEMMA Places ==
  /\ Action \in Nat /\ Action \in Names /\ Last \in Names /\ Join \in Names
  /\ Join \in Semaphores /\ Last \in Semaphores
  /\ 1 \in Segments /\ Action \in Segments
  /\ Action # Last /\ Join # Last /\ Join # Action /\ ~(1 > Action)
  /\ \A n \in Semaphores : n \in Names /\ n # Action
  /\ \A n \in Semaphores : n # Last => n + 1 \in Semaphores
  /\ \A n \in Segments : n \in Names /\ n # Last /\ n \notin Semaphores
  /\ \A n \in Names : n \in Nat /\ (n + 1 > Action => n = Action \/ n > Action)
  /\ Last > Action
BY ConstantsAssumption DEF Action, Join, Names, Semaphores, Segments

LEMMA Order ==
  ASSUME NEW k \in Names, NEW n \in Semaphores
  PROVE  /\ ~(k < k)
         /\ n <= k <=> n < k \/ n = k
         /\ n < k + 1 <=> n <= k
BY DEF Semaphores, Names, Join

LEMMA GotoValue ==
  ASSUME TypeOK, NEW s \in Servers, NEW label, NEW n, Goto(s, label, n)
  PROVE  /\ phase'[s] = label /\ at'[s] = n
         /\ \A t \in Servers : t # s => phase'[t] = phase[t] /\ at'[t] = at[t]
BY DEF Goto, TypeOK, ServersOK

LEMMA Values ==
  ASSUME TypeOK
  PROVE  /\ \A n \in Names : names[n] \in Nat /\ made[n] \in Nat
         /\ \A s \in Servers : /\ at[s] \in Names
                               /\ \A n \in Names : held[s][n] \in Nat
BY DEF TypeOK, ServersOK, ObjectsOK

LEMMA MakeValue ==
  ASSUME TypeOK, NEW n \in Names, Make(n)
  PROVE  /\ names'[n] = OpenOrCreate(n)
         /\ made'[n] = IF names[n] = Missing THEN made[n] + 1 ELSE made[n]
         /\ \A m \in Names : m # n => names'[m] = names[m] /\ made'[m] = made[m]
BY DEF TypeOK, ObjectsOK, Make

LEMMA UnlinkJoinLeads ==
  ASSUME TypeOK, NEW s \in Servers, UnlinkJoin(s)
  PROVE  phase'[s] = "game" \/ (phase'[s] = "exit" /\ at'[s] = 1)
<1>1. CASE Goto(s, "game", at[s])
  BY <1>1, GotoValue
<1>2. CASE Goto(s, "exit", 1)
  BY <1>2, GotoValue
<1>. QED
  BY <1>1, <1>2 DEF UnlinkJoin, Leave

\* A step of a server leaves the other ones alone.
LEMMA Frame ==
  ASSUME TypeOK, NEW s \in Servers, ServerStep(s)
  PROVE  \A t \in Servers : t # s =>
           phase'[t] = phase[t] /\ at'[t] = at[t] /\ held'[t] = held[t]
<1>1. ASSUME NEW label, NEW n, Goto(s, label, n)
      PROVE  \A t \in Servers : t # s => phase'[t] = phase[t] /\ at'[t] = at[t]
  BY <1>1, GotoValue
<1>2. \A t \in Servers : t # s => phase'[t] = phase[t] /\ at'[t] = at[t]
  <2>1. CASE NewGame(s)         BY <2>1, <1>1 DEF NewGame
  <2>2. CASE OpenSegment(s)     BY <2>2, <1>1 DEF OpenSegment
  <2>3. CASE ResetFlags(s)      BY <2>3, <1>1 DEF ResetFlags, Leave
  <2>4. CASE CreateSemaphore(s) BY <2>4, <1>1 DEF CreateSemaphore
  <2>5. CASE Check(s)           BY <2>5, <1>1 DEF Check, Leave
  <2>6. CASE WaitJoin(s)        BY <2>6, <1>1 DEF WaitJoin
  <2>7. CASE UnlinkJoin(s)      BY <2>7, <1>1 DEF UnlinkJoin, Leave
  <2>8. CASE Play(s)            BY <2>8, <1>1 DEF Play
  <2>9. CASE Interrupt(s)       BY <2>9, <1>1 DEF Interrupt, Leave
  <2>10. CASE Free(s)           BY <2>10, <1>1 DEF Free
  <2>11. CASE Kill(s)           BY <2>11, <1>1 DEF Kill
  <2>. QED
    BY <2>1, <2>2, <2>3, <2>4, <2>5, <2>6, <2>7, <2>8, <2>9, <2>10, <2>11
       DEF ServerStep
<1>3. held \in [Servers -> [Names -> Nat]]
  BY DEF TypeOK, ServersOK
<1>4. \A t \in Servers : t # s => held'[t] = held[t]
  <2>1. CASE UNCHANGED held BY <2>1
  <2>2. CASE OpenSegment(s)     BY <2>2, <1>3 DEF OpenSegment
  <2>3. CASE CreateSemaphore(s) BY <2>3, <1>3 DEF CreateSemaphore
  <2>4. CASE Free(s)            BY <2>4, <1>3 DEF Free
  <2>5. CASE Kill(s)            BY <2>5, <1>3 DEF Kill
  <2>. QED
    BY <2>1, <2>2, <2>3, <2>4, <2>5
       DEF ServerStep, NewGame, ResetFlags, Check, WaitJoin, UnlinkJoin, Play, Interrupt
<1>. QED
  BY <1>2, <1>4

\* No server takes a step while another one is alive.
LEMMA AloneStep ==
  ASSUME OneByOne, TypeOK, Alone, NEW s \in Servers, ServerStep(s)
  PROVE  /\ \A t \in Servers : t # s => ~Alive(t)
         /\ Alone'
<1>1. \A t \in Servers : t # s => ~Alive(t)
  <2>1. CASE Alive(s)
    BY <2>1 DEF Alone
  <2>2. CASE ~Alive(s)
    <3>1. phase[s] \in {"new", "ended", "killed"}
      BY <2>2 DEF Alive
    <3>2. NewGame(s)
      BY <3>1, <2>2
         DEF ServerStep, NewGame, OpenSegment, ResetFlags, CreateSemaphore, Check,
             WaitJoin, UnlinkJoin, Play, Interrupt, Free, Freeing, Kill
    <3>. QED
      BY <3>1, <3>2 DEF NewGame, OneByOne
  <2>. QED BY <2>1, <2>2
<1>2. \A t \in Servers : t # s => ~Alive(t)'
  BY <1>1, Frame DEF Alive
<1>. QED
  BY <1>1, <1>2 DEF Alone

LEMMA FreshServerStep ==
  ASSUME OneByOne, TypeOK, FreshInv, NEW s \in Servers, ServerStep(s)
  PROVE  Numbered' /\ Guarded' /\ Clean(s)'
<1>. USE Places, Values
<1>0. /\ Numbered /\ Guarded /\ Clean(s)
      /\ \A t \in Servers : t # s => held'[t] = held[t]
      /\ at[s] \in Names
  BY Frame DEF FreshInv
<1>1. CASE NewGame(s)
  <2>1. phase'[s] = "segments" /\ at'[s] = 1
    BY <1>1, GotoValue DEF NewGame
  <2>2. Numbered' /\ Guarded'
    BY <1>0, <1>1 DEF NewGame, clientVars, Numbered, Guarded
  <2>3. Clean(s)'
    BY <2>1 DEF Clean, Freeing
  <2>. QED BY <2>2, <2>3
<1>2. CASE OpenSegment(s)
  <2>1. at[s] \in Segments
    BY <1>0, <1>2 DEF Clean, OpenSegment
  <2>2. PICK o \in Nat :
          /\ held' = [held EXCEPT ![s][at[s]] = o]
          /\ \/ o = OpenOrCreate(at[s]) /\ Make(at[s])
             \/ o = Missing /\ UNCHANGED <<names, made>>
    BY <1>0, <1>2, MakeType, NameFacts DEF OpenSegment, TypeOK, ObjectsOK
  <2>3. names'[Last] = names[Last]
    BY <2>1, <2>2, MakeValue
  <2>4. /\ \A n \in Names : made[n] <= made'[n] /\ names'[n] <= made'[n]
        /\ names'[Action] = names[Action] \/ names'[Action] = made[Action] + 1
    BY <1>0, <2>2, MakeValue DEF Numbered, OpenOrCreate, Missing
  <2>5. /\ at[s] = Action => held'[s][Action] = o
        /\ at[s] # Action => held'[s][Action] = held[s][Action]
    BY <1>0, <2>2 DEF TypeOK, ServersOK
  <2>6. at[s] = Action => o <= made'[Action]
    BY <2>2, <2>4, MakeValue, NameFacts DEF Missing
  <2>7. over' = over /\ names'[Action] \in Nat /\ made'[Action] \in Nat
    BY <1>2, <2>2, MakeValue, MakeType DEF OpenSegment, TypeOK, ObjectsOK
  <2>8. Numbered'
    <3>1. \A t \in Servers : held'[t][Action] <= made'[Action]
      BY <1>0, <2>4, <2>5, <2>6, <2>7 DEF Numbered
    <3>2. \A x \in over' : 0 < x /\ x <= made'[Action]
      <4>1. over \subseteq Nat BY DEF TypeOK, ObjectsOK
      <4>. QED BY <1>0, <2>4, <2>7, <4>1 DEF Numbered
    <3>. QED BY <2>4, <3>1, <3>2 DEF Numbered
  <2>9. made[Action] + 1 \notin over /\ 0 \notin over
    BY <1>0 DEF Numbered
  <2>10. Guarded'
    BY <1>0, <2>3, <2>4, <2>7, <2>9 DEF Guarded
  <2>11. CASE at[s] = Action
    <3>1. phase'[s] = "reset"
      BY <1>2, <2>11, GotoValue DEF OpenSegment
    <3>2. held'[s][Action] \in over' => names'[Last] # Missing
      BY <1>0, <2>2, <2>3, <2>5, <2>7, <2>9, <2>11
         DEF Guarded, OpenOrCreate, Missing
    <3>3. Clean(s)'
      BY <3>1, <3>2 DEF Clean, Freeing
    <3>. QED BY <2>8, <2>10, <3>3
  <2>12. CASE at[s] # Action
    <3>1. phase'[s] = "segments" /\ at'[s] = Action
      BY <1>2, <2>12, GotoValue DEF OpenSegment
    <3>2. Clean(s)'
      BY <3>1 DEF Clean, Freeing
    <3>. QED BY <2>8, <2>10, <3>2
  <2>. QED BY <2>11, <2>12
<1>3. CASE ResetFlags(s)
  <2>1. Numbered' /\ Guarded'
    BY <1>0, <1>3 DEF ResetFlags, Leave, Numbered, Guarded
  <2>2. UNCHANGED <<names, held, over>>
    BY <1>3 DEF ResetFlags
  <2>3. CASE Leave(s)
    <3>1. phase'[s] = "exit" /\ at'[s] = 1
      BY <2>3, GotoValue DEF Leave
    <3>. QED BY <2>1, <3>1 DEF Clean, Freeing
  <2>4. CASE /\ held[s][Action] # Missing
             /\ flagged' = flagged \ {held[s][Action]}
             /\ Goto(s, "semaphores", Join)
    <3>1. phase'[s] = "semaphores" /\ at'[s] = Join
      BY <2>4, GotoValue
    <3>2. held[s][Action] \in over => names[Last] # Missing
      BY <1>0, <1>3 DEF Clean, ResetFlags
    <3>3. held'[s][Action] \notin flagged'
      BY <2>2, <2>4
    <3>4. Clean(s)'
      BY <2>2, <2>4, <3>1, <3>2, <3>3 DEF Clean, Freeing
    <3>. QED BY <2>1, <3>4
  <2>. QED BY <1>3, <2>3, <2>4 DEF ResetFlags
<1>4. CASE CreateSemaphore(s)
  <2>1. /\ at[s] \in Semaphores
        /\ held[s][Action] # Missing /\ held[s][Action] \notin flagged
        /\ held[s][Action] \in over => names[Last] # Missing
    BY <1>0, <1>4 DEF Clean, CreateSemaphore
  <2>2. PICK o \in Nat :
          /\ held' = [held EXCEPT ![s][at[s]] = o]
          /\ \/ names[at[s]] = Missing /\ o = OpenOrCreate(at[s]) /\ Make(at[s])
             \/ /\ names[at[s]] # Missing /\ o = Missing
                /\ UNCHANGED <<names, made>>
    BY <1>0, <1>4, MakeType, NameFacts DEF CreateSemaphore, TypeOK, ObjectsOK
  <2>3. at[s] \in Names /\ at[s] # Action
    BY <2>1
  <2>4. /\ names'[Action] = names[Action] /\ made'[Action] = made[Action]
        /\ \A t \in Servers : held'[t][Action] = held[t][Action]
        /\ held'[s][at[s]] = o
        /\ UNCHANGED <<over, flagged>>
    <3>1. names'[Action] = names[Action] /\ made'[Action] = made[Action]
      BY <2>2, <2>3, MakeValue
    <3>2. /\ held'[s][Action] = held[s][Action]
          /\ held'[s][at[s]] = o
      BY <2>2, <2>3 DEF TypeOK, ServersOK
    <3>3. \A t \in Servers : held'[t][Action] = held[t][Action]
      BY <1>0, <3>2
    <3>4. UNCHANGED <<over, flagged>>
      BY <1>4 DEF CreateSemaphore
    <3>. QED BY <3>1, <3>2, <3>3, <3>4
  <2>5. \A n \in Names : names'[n] <= made'[n]
    BY <1>0, <2>2, MakeValue DEF Numbered, OpenOrCreate, Missing
  <2>6. Numbered'
    BY <1>0, <2>4, <2>5 DEF Numbered
  <2>7. names[Last] # Missing => names'[Last] # Missing
    BY <2>2, <2>3, MakeValue
  <2>8. Guarded'
    BY <1>0, <2>4, <2>7 DEF Guarded
  <2>9. CASE at[s] = Last
    <3>1. phase'[s] = "check"
      BY <1>4, <2>9, GotoValue DEF CreateSemaphore
    <3>2. held[s][Action] \in over => o = Missing
      BY <2>1, <2>2, <2>9
    <3>3. o # Missing => names'[Last] # Missing
      BY <2>2, <2>3, <2>9, MakeValue
    <3>4. Clean(s)'
      BY <2>1, <2>4, <2>9, <3>1, <3>2, <3>3 DEF Clean, Freeing
    <3>. QED BY <2>6, <2>8, <3>4
  <2>10. CASE at[s] # Last
    <3>1. phase'[s] = "semaphores" /\ at'[s] = at[s] + 1
      BY <1>4, <2>10, GotoValue DEF CreateSemaphore
    <3>2. at[s] + 1 \in Semaphores
      BY <2>1, <2>10
    <3>3. Clean(s)'
      BY <2>1, <2>4, <2>7, <3>1, <3>2 DEF Clean, Freeing
    <3>. QED BY <2>6, <2>8, <3>3
  <2>. QED BY <2>9, <2>10
<1>5. CASE Check(s)
  <2>1. UNCHANGED <<names, made, held, over, flagged>>
    BY <1>5 DEF Check
  <2>2. Numbered' /\ Guarded'
    BY <1>0, <2>1 DEF Numbered, Guarded
  <2>3. CASE Failed(s)
    <3>1. phase'[s] = "exit" /\ at'[s] = 1
      BY <1>5, <2>3, GotoValue DEF Check, Leave
    <3>. QED BY <2>2, <3>1 DEF Clean, Freeing
  <2>4. CASE ~Failed(s)
    <3>1. phase'[s] = "join1"
      BY <1>5, <2>4, GotoValue DEF Check
    <3>2. held[s][Last] # Missing
      BY <2>4 DEF Failed
    <3>3. /\ held[s][Action] # Missing /\ held[s][Action] \notin over \cup flagged
          /\ names[Last] # Missing
      BY <1>0, <1>5, <3>2 DEF Clean, Check
    <3>4. Clean(s)'
      BY <2>1, <3>1, <3>3 DEF Clean, Freeing
    <3>. QED BY <2>2, <3>4
  <2>. QED BY <2>3, <2>4
<1>6. CASE WaitJoin(s)
  <2>1. UNCHANGED <<names, made, held, over, flagged>>
    BY <1>6 DEF WaitJoin
  <2>2. Numbered' /\ Guarded'
    BY <1>0, <2>1 DEF Numbered, Guarded
  <2>3. phase'[s] \in {"join2", "unlink"}
    BY <1>6, GotoValue DEF WaitJoin
  <2>4. /\ held[s][Action] # Missing /\ held[s][Action] \notin over \cup flagged
        /\ names[Last] # Missing
    BY <1>0, <1>6 DEF Clean, WaitJoin
  <2>5. Clean(s)'
    BY <2>1, <2>3, <2>4 DEF Clean, Freeing
  <2>. QED BY <2>2, <2>5
<1>7. CASE UnlinkJoin(s)
  <2>1. UNCHANGED <<made, held, over, flagged>>
    BY <1>7 DEF UnlinkJoin
  <2>2. /\ names'[Action] = names[Action] /\ names'[Last] = names[Last]
        /\ \A n \in Names : names'[n] <= made[n]
    BY <1>0, <1>7 DEF UnlinkJoin, TypeOK, ObjectsOK, Numbered, Missing
  <2>3. Numbered' /\ Guarded'
    BY <1>0, <2>1, <2>2 DEF Numbered, Guarded
  <2>4. phase'[s] = "game" \/ (phase'[s] = "exit" /\ at'[s] = 1)
    BY <1>7, UnlinkJoinLeads
  <2>5. /\ held[s][Action] # Missing /\ held[s][Action] \notin over \cup flagged
        /\ names[Last] # Missing
    BY <1>0, <1>7 DEF Clean, UnlinkJoin
  <2>6. Clean(s)'
    BY <2>1, <2>2, <2>4, <2>5 DEF Clean, Freeing
  <2>. QED BY <2>3, <2>6
<1>8. CASE Play(s)
  <2>1. UNCHANGED <<names, made, held>> /\ over' = over \cup {held[s][Action]}
    BY <1>8 DEF Play
  <2>2. phase'[s] = "free" /\ at'[s] = 1
    BY <1>8, GotoValue DEF Play
  <2>3. held[s][Action] # Missing /\ names[Last] # Missing
    BY <1>0, <1>8 DEF Clean, Play
  <2>4. Guarded'
    BY <2>1, <2>3 DEF Guarded
  <2>5. Numbered'
    BY <1>0, <2>1, <2>3 DEF Numbered, Missing
  <2>6. Clean(s)'
    BY <2>2 DEF Clean, Freeing
  <2>. QED BY <2>4, <2>5, <2>6
<1>9. CASE Interrupt(s)
  <2>1. UNCHANGED <<names, made, held, over>>
    BY <1>9 DEF Interrupt
  <2>2. phase'[s] = "exit" /\ at'[s] = 1
    BY <1>9, GotoValue DEF Interrupt, Leave
  <2>3. Numbered' /\ Guarded'
    BY <1>0, <2>1 DEF Numbered, Guarded
  <2>4. Clean(s)'
    BY <2>2 DEF Clean, Freeing
  <2>. QED BY <2>3, <2>4
<1>10. CASE Free(s)
  <2>1. /\ UNCHANGED <<made, over>>
        /\ names' = [names EXCEPT ![at[s]] = Missing]
    BY <1>10 DEF Free
  <2>2. /\ names'[at[s]] = Missing
        /\ \A n \in Names : n # at[s] => names'[n] = names[n]
    BY <1>0, <2>1 DEF TypeOK, ObjectsOK
  <2>3. \A t \in Servers : held'[t][Action] <= made[Action]
    <3>1. held'[s] = held[s] \/ held'[s] = Nothing
      BY <1>10 DEF Free, TypeOK, ServersOK
    <3>2. Nothing[Action] <= made[Action]
      BY DEF Nothing, Missing
    <3>. QED BY <1>0, <3>1, <3>2 DEF Numbered
  <2>4. Numbered'
    BY <1>0, <2>1, <2>2, <2>3 DEF Numbered, Missing
  <2>5. Missing \notin over
    BY <1>0 DEF Numbered, Missing
  <2>6. at[s] > Action => names[Action] \notin over
    BY <1>0, <1>10 DEF Clean, Free
  <2>7. CASE at[s] = Last
    <3>1. phase'[s] \in {"ended", "next"}
      BY <1>10, <2>7, GotoValue DEF Free
    <3>2. Guarded'
      BY <2>1, <2>2, <2>6, <2>7 DEF Guarded
    <3>3. Clean(s)'
      BY <3>1 DEF Clean, Freeing
    <3>. QED BY <2>4, <3>2, <3>3
  <2>8. CASE at[s] # Last
    <3>1. phase'[s] \in Freeing /\ at'[s] = at[s] + 1
      BY <1>10, <2>8, GotoValue DEF Free
    <3>2. Guarded'
      BY <1>0, <2>1, <2>2, <2>5, <2>8 DEF Guarded
    <3>3. at[s] + 1 > Action => names'[Action] \notin over
      BY <1>0, <2>2, <2>5, <2>6
    <3>4. Clean(s)'
      BY <2>1, <3>1, <3>3 DEF Clean, Freeing
    <3>. QED BY <2>4, <3>2, <3>4
  <2>. QED BY <2>7, <2>8
<1>11. CASE Kill(s)
  <2>1. UNCHANGED <<names, made, over>>
    BY <1>11 DEF Kill
  <2>2. phase'[s] = "killed"
    BY <1>11, GotoValue DEF Kill
  <2>3. \A t \in Servers : held'[t][Action] <= made[Action]
    <3>1. held'[s] = Nothing
      BY <1>11 DEF Kill, TypeOK, ServersOK
    <3>2. Nothing[Action] <= made[Action]
      BY DEF Nothing, Missing
    <3>. QED BY <1>0, <3>1, <3>2 DEF Numbered
  <2>4. Numbered' /\ Guarded'
    BY <1>0, <2>1, <2>3 DEF Numbered, Guarded
  <2>5. Clean(s)'
    BY <2>2 DEF Clean, Freeing
  <2>. QED BY <2>4, <2>5
<1>. QED
  BY <1>1, <1>2, <1>3, <1>4, <1>5, <1>6, <1>7, <1>8, <1>9, <1>10, <1>11
     DEF ServerStep

\* A client makes segments, and opens semaphores.
LEMMA FreshClientStep ==
  ASSUME TypeOK, FreshInv, NEW c \in Clients, ClientStep(c)
  PROVE  FreshInv'
<1>. USE Places, Values
<1>0. Numbered /\ Guarded
  BY DEF FreshInv
<1>1. UNCHANGED <<phase, at, held, over, flagged>>
  BY DEF ClientStep, OpenOne, PostJoin, serverVars
<1>2. Alone'
  BY <1>1 DEF FreshInv, Alone, Alive
<1>3. /\ names'[Last] = names[Last]
      /\ names'[Action] = names[Action] \/ names'[Action] = made[Action] + 1
      /\ \A n \in Names : made[n] <= made'[n] /\ names'[n] <= made'[n]
      /\ made'[Action] \in Nat
  <2>1. CASE UNCHANGED <<names, made>>
    BY <1>0, <2>1 DEF Numbered
  <2>2. CASE cat[c] \in Segments /\ Make(cat[c])
    <3>1. PICK n \in Segments : n = cat[c] /\ Make(n)
      BY <2>2
    <3>2. n \in Names /\ n # Last
      OBVIOUS
    <3>3. names'[n] = OpenOrCreate(n)
      BY <3>1, <3>2, MakeValue
    <3>4. made'[n] = IF names[n] = Missing THEN made[n] + 1 ELSE made[n]
      BY <3>1, <3>2, MakeValue
    <3>5. \A m \in Names : m # n => names'[m] = names[m] /\ made'[m] = made[m]
      BY <3>1, <3>2, MakeValue
    <3>6. names[n] \in Nat /\ made[n] \in Nat /\ names[n] <= made[n]
      BY <1>0, <3>2 DEF Numbered
    <3>7. /\ made[n] <= made'[n] /\ names'[n] <= made'[n] /\ made'[n] \in Nat
          /\ names'[n] = names[n] \/ names'[n] = made[n] + 1
      BY <3>3, <3>4, <3>6 DEF OpenOrCreate, Missing
    <3>8. \A m \in Names : made[m] <= made'[m] /\ names'[m] <= made'[m]
      BY <1>0, <3>5, <3>7 DEF Numbered
    <3>. QED BY <3>2, <3>5, <3>7, <3>8
  <2>. QED BY <2>1, <2>2 DEF ClientStep, OpenOne, PostJoin
<1>4. made[Action] + 1 \notin over
  BY <1>0 DEF Numbered
<1>5. Guarded'
  BY <1>0, <1>1, <1>3, <1>4 DEF Guarded
<1>6. Numbered'
  <2>1. over \subseteq Nat
    BY DEF TypeOK, ObjectsOK
  <2>. QED BY <1>0, <1>1, <1>3, <2>1 DEF Numbered
<1>7. ASSUME NEW t \in Servers
      PROVE  Clean(t)'
  <2>1. Clean(t)
    BY DEF FreshInv
  <2>. QED BY <1>1, <1>3, <1>4, <2>1 DEF Clean
<1>. QED
  BY <1>2, <1>5, <1>6, <1>7 DEF FreshInv

LEMMA FreshStep ==
  ASSUME OneByOne, TypeOK, FreshInv, [Next]_vars
  PROVE  FreshInv'
<1>1. ASSUME NEW s \in Servers, ServerStep(s)
      PROVE  FreshInv'
  <2>1. (\A t \in Servers : t # s => ~Alive(t)') /\ Alone'
    BY <1>1, AloneStep, Frame DEF FreshInv, Alive
  <2>2. \A t \in Servers : ~Alive(t)' => Clean(t)'
    BY DEF Alive, Clean, Freeing
  <2>3. Numbered' /\ Guarded' /\ Clean(s)'
    BY <1>1, FreshServerStep
  <2>. QED BY <2>1, <2>2, <2>3 DEF FreshInv
<1>2. ASSUME NEW c \in Clients, ClientStep(c)
      PROVE  FreshInv'
  BY <1>2, FreshClientStep
<1>3. CASE UNCHANGED vars
  BY <1>3 DEF vars, serverVars, clientVars, FreshInv, Alone, Alive, Numbered,
              Guarded, Clean, Freeing
<1>. QED
  BY <1>1, <1>2, <1>3 DEF Next

(***************************************************************************)
(* As long as servers do not overlap, no game starts in a segment in which *)
(* an earlier one has ended or a flag is set, whoever was killed where.    *)
(***************************************************************************)
THEOREM FreshStartAlways == ASSUME OneByOne PROVE Spec => []FreshStart
<1>1. Init => FreshInv
  <2>. SUFFICES ASSUME Init PROVE FreshInv
    OBVIOUS
  <2>1. Alone /\ \A s \in Servers : Clean(s)
    BY DEF Init, Alone, Alive, Clean, Freeing
  <2>2. Numbered /\ Guarded
    BY Places DEF Init, Numbered, Guarded, Nothing, Missing
  <2>. QED BY <2>1, <2>2 DEF FreshInv
<1>2. TypeOK /\ FreshInv /\ [Next]_vars => FreshInv'
  BY FreshStep
<1>3. FreshInv => FreshStart
  BY DEF FreshInv, Clean, FreshStart
<1>. QED
  BY <1>1, <1>2, <1>3, TypeCorrect, PTL DEF Spec

\* What a step of the server leaves behind.
LEMMA SweptServerStep ==
  ASSUME OneByOne, TypeOK, SweptInv, NEW s \in Servers, ServerStep(s)
  PROVE  /\ Swept(s)'
         /\ lastEnd' = "freed" /\ ~Alive(s)' =>
              \A n \in Semaphores : names'[n] = Missing
<1>. USE Places, Values
<1>0. Swept(s) /\ at[s] \in Names
  BY DEF SweptInv
<1>1. CASE NewGame(s)
  <2>1. phase'[s] = "segments" /\ at'[s] = 1 /\ UNCHANGED <<names, lastEnd>>
    BY <1>1, GotoValue DEF NewGame
  <2>2. lastEnd = "freed" => \A n \in Semaphores : names[n] = Missing
    <3>1. CASE phase[s] = "next"
      BY <1>0, <3>1 DEF Swept
    <3>2. CASE phase[s] = "new"
      BY <1>1, <3>2 DEF NewGame, OneByOne, SweptInv
    <3>. QED BY <1>1, <3>1, <3>2 DEF NewGame
  <2>3. lastEnd' = "freed" => \A n \in Semaphores : names'[n] = Missing
    BY <2>1, <2>2
  <2>. QED BY <2>1, <2>3 DEF Swept, Alive, Freeing
<1>2. CASE OpenSegment(s)
  <2>1. at[s] \in Segments
    BY <1>0, <1>2 DEF Swept, OpenSegment
  <2>2. \A n \in Semaphores : names'[n] = names[n]
    <3>1. CASE Make(at[s])
      BY <2>1, <3>1, MakeValue
    <3>2. CASE UNCHANGED names
      BY <3>2
    <3>. QED BY <1>2, <3>1, <3>2 DEF OpenSegment
  <2>3. lastEnd' = lastEnd
    BY <1>2 DEF OpenSegment
  <2>4. CASE at[s] = Action
    <3>1. phase'[s] = "reset"
      BY <1>2, <2>4, GotoValue DEF OpenSegment
    <3>. QED BY <1>0, <1>2, <2>2, <2>3, <3>1 DEF Swept, OpenSegment, Alive, Freeing
  <2>5. CASE at[s] # Action
    <3>1. phase'[s] = "segments" /\ at'[s] = Action
      BY <1>2, <2>5, GotoValue DEF OpenSegment
    <3>. QED BY <1>0, <1>2, <2>2, <2>3, <3>1 DEF Swept, OpenSegment, Alive, Freeing
  <2>. QED BY <2>4, <2>5
<1>3. CASE ResetFlags(s)
  <2>1. UNCHANGED <<names, held, lastEnd>>
    BY <1>3 DEF ResetFlags
  <2>2. \/ phase'[s] = "exit" /\ at'[s] = 1
        \/ phase'[s] = "semaphores" /\ at'[s] = Join
    <3>1. Goto(s, "semaphores", Join) \/ Goto(s, "exit", 1)
      BY <1>3 DEF ResetFlags, Leave
    <3>2. CASE Goto(s, "semaphores", Join)
      BY <3>2, GotoValue
    <3>3. CASE Goto(s, "exit", 1)
      BY <3>3, GotoValue
    <3>. QED BY <3>1, <3>2, <3>3
  <2>3. lastEnd = "freed" => \A n \in Semaphores : names[n] = Missing
    BY <1>0, <1>3 DEF Swept, ResetFlags
  <2>4. \A n \in Semaphores : ~(n < Join) /\ ~(n < 1)
    BY DEF Semaphores, Join
  <2>. QED BY <2>1, <2>2, <2>3, <2>4 DEF Swept, Alive, Freeing
<1>4. CASE CreateSemaphore(s)
  <2>1. /\ at[s] \in Semaphores
        /\ lastEnd = "freed" => \A n \in Semaphores :
             IF n < at[s] THEN held[s][n] # Missing ELSE names[n] = Missing
    BY <1>0, <1>4 DEF Swept, CreateSemaphore
  <2>2. lastEnd' = lastEnd
    BY <1>4 DEF CreateSemaphore
  <2>3. ASSUME lastEnd = "freed"
        PROVE  \A n \in Semaphores :
                 IF n <= at[s] THEN held'[s][n] # Missing ELSE names'[n] = Missing
    <3>1. names[at[s]] = Missing
      <4>1. ~(at[s] < at[s])
        BY <1>0, <2>1, Order
      <4>. QED BY <2>1, <2>3, <4>1
    <3>2. /\ Make(at[s])
          /\ held' = [held EXCEPT ![s][at[s]] = made[at[s]] + 1]
      BY <1>4, <3>1 DEF CreateSemaphore, OpenOrCreate
    <3>3. /\ held'[s][at[s]] = made[at[s]] + 1
          /\ \A n \in Names : n # at[s] => held'[s][n] = held[s][n]
      BY <1>0, <3>2 DEF TypeOK, ServersOK
    <3>4. \A n \in Names : n # at[s] => names'[n] = names[n]
      BY <1>0, <3>2, MakeValue
    <3>5. made[at[s]] + 1 # Missing
      <4>1. made[at[s]] \in Nat
        BY <1>0
      <4>. QED BY <4>1 DEF Missing
    <3>6. ASSUME NEW n \in Semaphores
          PROVE  IF n <= at[s] THEN held'[s][n] # Missing ELSE names'[n] = Missing
      <4>1. n <= at[s] <=> n < at[s] \/ n = at[s]
        BY <1>0, Order
      <4>2. CASE n = at[s]
        BY <3>3, <3>5, <4>1, <4>2
      <4>3. CASE n # at[s]
        <5>1. held'[s][n] = held[s][n] /\ names'[n] = names[n]
          BY <3>3, <3>4, <4>3
        <5>2. IF n < at[s] THEN held[s][n] # Missing ELSE names[n] = Missing
          BY <2>1, <2>3
        <5>. QED BY <4>1, <4>3, <5>1, <5>2
      <4>. QED BY <4>2, <4>3
    <3>. QED BY <3>6
  <2>4. CASE at[s] = Last
    <3>1. phase'[s] = "check"
      BY <1>4, <2>4, GotoValue DEF CreateSemaphore
    <3>2. \A n \in Semaphores : n <= Last
      BY DEF Semaphores
    <3>3. lastEnd = "freed" => ~Failed(s)'
      BY <2>3, <2>4, <3>2 DEF Failed
    <3>. QED BY <2>2, <3>1, <3>3 DEF Swept, Alive, Freeing
  <2>5. CASE at[s] # Last
    <3>1. phase'[s] = "semaphores" /\ at'[s] = at[s] + 1
      BY <1>4, <2>5, GotoValue DEF CreateSemaphore
    <3>2. at[s] + 1 \in Semaphores
      BY <2>1, <2>5
    <3>3. \A n \in Semaphores : n < at[s] + 1 <=> n <= at[s]
      BY <1>0, Order
    <3>4. lastEnd = "freed" => \A n \in Semaphores :
            IF n < at[s] + 1 THEN held'[s][n] # Missing ELSE names'[n] = Missing
      BY <2>3, <3>3
    <3>. QED BY <2>2, <3>1, <3>2, <3>4 DEF Swept, Alive, Freeing
  <2>. QED BY <2>4, <2>5
<1>5. CASE Check(s)
  <2>1. CASE Failed(s)
    <3>1. phase'[s] = "exit" /\ at'[s] = 1
      BY <1>5, <2>1, GotoValue DEF Check, Leave
    <3>2. \A n \in Semaphores : ~(n < 1)
      BY DEF Semaphores
    <3>. QED BY <3>1, <3>2 DEF Swept, Alive, Freeing
  <2>2. CASE ~Failed(s)
    <3>1. phase'[s] = "join1"
      BY <1>5, <2>2, GotoValue DEF Check
    <3>. QED BY <3>1 DEF Swept, Alive, Freeing
  <2>. QED BY <2>1, <2>2
<1>6. CASE WaitJoin(s)
  <2>1. phase'[s] \in {"join2", "unlink"}
    BY <1>6, GotoValue DEF WaitJoin
  <2>. QED BY <2>1 DEF Swept, Alive, Freeing
<1>7. CASE UnlinkJoin(s)
  <2>1. phase'[s] = "game" \/ (phase'[s] = "exit" /\ at'[s] = 1)
    BY <1>7, UnlinkJoinLeads
  <2>2. \A n \in Semaphores : ~(n < 1)
    BY DEF Semaphores, Join
  <2>. QED BY <2>1, <2>2 DEF Swept, Alive, Freeing
<1>8. CASE Play(s) \/ Interrupt(s)
  <2>1. Goto(s, "free", 1) \/ Goto(s, "exit", 1)
    BY <1>8 DEF Play, Interrupt, Leave
  <2>2. phase'[s] \in {"free", "exit"} /\ at'[s] = 1
    <3>1. CASE Goto(s, "free", 1)
      BY <3>1, GotoValue
    <3>2. CASE Goto(s, "exit", 1)
      BY <3>2, GotoValue
    <3>. QED BY <2>1, <3>1, <3>2
  <2>3. \A n \in Semaphores : ~(n < 1)
    BY DEF Semaphores
  <2>. QED BY <2>2, <2>3 DEF Swept, Alive, Freeing
<1>9. CASE Free(s)
  <2>1. \A n \in Semaphores : n < at[s] => names[n] = Missing
    BY <1>0, <1>9 DEF Swept, Free
  <2>2. names' = [names EXCEPT ![at[s]] = Missing]
    BY <1>9 DEF Free
  <2>3. \A n \in Semaphores : n <= at[s] => names'[n] = Missing
    <3>1. /\ names'[at[s]] = Missing
          /\ \A n \in Names : n # at[s] => names'[n] = names[n]
      BY <1>0, <2>2 DEF TypeOK, ObjectsOK
    <3>2. ASSUME NEW n \in Semaphores, n <= at[s]
          PROVE  names'[n] = Missing
      <4>1. n < at[s] \/ n = at[s]
        BY <1>0, <3>2, Order
      <4>. QED BY <2>1, <3>1, <4>1
    <3>. QED BY <3>2
  <2>4. CASE at[s] = Last
    <3>1. phase'[s] \in {"ended", "next"}
      BY <1>9, <2>4, GotoValue DEF Free
    <3>2. \A n \in Semaphores : n <= Last
      BY DEF Semaphores
    <3>3. \A n \in Semaphores : names'[n] = Missing
      BY <2>3, <2>4, <3>2
    <3>. QED BY <3>1, <3>3 DEF Swept, Freeing
  <2>5. CASE at[s] # Last
    <3>1. phase'[s] \in Freeing /\ at'[s] = at[s] + 1
      BY <1>9, <2>5, GotoValue DEF Free
    <3>2. \A n \in Semaphores : n < at[s] + 1 => n <= at[s]
      BY <1>0, Order
    <3>3. \A n \in Semaphores : n < at'[s] => names'[n] = Missing
      BY <2>3, <3>1, <3>2
    <3>. QED BY <3>1, <3>3 DEF Swept, Alive, Freeing
  <2>. QED BY <2>4, <2>5
<1>10. CASE Kill(s)
  <2>1. phase'[s] = "killed" /\ lastEnd' = "killed"
    BY <1>10, GotoValue DEF Kill
  <2>. QED BY <2>1 DEF Swept, Freeing
<1>. QED
  BY <1>1, <1>2, <1>3, <1>4, <1>5, <1>6, <1>7, <1>8, <1>9, <1>10 DEF ServerStep

\* A client makes no semaphore.
LEMMA SweptClientStep ==
  ASSUME TypeOK, SweptInv, NEW c \in Clients, ClientStep(c)
  PROVE  SweptInv'
<1>1. UNCHANGED <<phase, at, held, lastEnd>>
  BY DEF ClientStep, OpenOne, PostJoin, serverVars
<1>2. \A n \in Semaphores : names'[n] = names[n]
  <2>1. CASE UNCHANGED names
    BY <2>1
  <2>2. CASE cat[c] \in Segments /\ Make(cat[c])
    BY <2>2, MakeValue, Places
  <2>. QED BY <2>1, <2>2 DEF ClientStep, OpenOne, PostJoin
<1>3. Alone'
  BY <1>1 DEF SweptInv, Alone, Alive
<1>4. ASSUME NEW t \in Servers
      PROVE  Swept(t)'
  <2>1. Swept(t) /\ (Failed(t)' <=> Failed(t))
    BY <1>1 DEF SweptInv, Failed
  <2>. QED BY <1>1, <1>2, <2>1 DEF Swept
<1>. QED
  BY <1>1, <1>2, <1>3, <1>4 DEF SweptInv, Alive

LEMMA SweptStep ==
  ASSUME OneByOne, TypeOK, SweptInv, [Next]_vars
  PROVE  SweptInv'
<1>1. ASSUME NEW s \in Servers, ServerStep(s)
      PROVE  SweptInv'
  <2>1. (\A t \in Servers : t # s => ~Alive(t)') /\ Alone'
    BY <1>1, AloneStep, Frame DEF SweptInv, Alive
  <2>2. \A t \in Servers : ~Alive(t)' /\ phase'[t] # "next" => Swept(t)'
    BY DEF Alive, Swept, Freeing
  <2>3. \A t \in Servers : ~Alive(t)' => phase'[t] # "next"
    BY DEF Alive
  <2>4. /\ Swept(s)'
        /\ lastEnd' = "freed" /\ ~Alive(s)' =>
             \A n \in Semaphores : names'[n] = Missing
    BY <1>1, SweptServerStep
  <2>. QED BY <2>1, <2>2, <2>3, <2>4 DEF SweptInv
<1>2. ASSUME NEW c \in Clients, ClientStep(c)
      PROVE  SweptInv'
  BY <1>2, SweptClientStep
<1>3. CASE UNCHANGED vars
  BY <1>3 DEF vars, serverVars, SweptInv, Alone, Alive, Swept, Failed, Freeing
<1>. QED
  BY <1>1, <1>2, <1>3 DEF Next

(***************************************************************************)
(* As long as servers do not overlap, a start fails over semaphores that   *)
(* exist only if a server was killed since everything was freed: a failed  *)
(* start frees what is left, so the next one succeeds.                     *)
(***************************************************************************)
THEOREM FailsOnlyAfterKillAlways ==
  ASSUME OneByOne PROVE Spec => []FailsOnlyAfterKill
<1>1. Init => SweptInv
  BY DEF Init, SweptInv, Alone, Alive, Swept, Freeing, Nothing, Names, Semaphores, Missing
<1>2. TypeOK /\ SweptInv /\ [Next]_vars => SweptInv'
  BY SweptStep
<1>3. TypeOK /\ SweptInv => FailsOnlyAfterKill
  BY DEF SweptInv, Swept, FailsOnlyAfterKill, ObjectsOK, TypeOK
<1>. QED
  BY <1>1, <1>2, <1>3, TypeCorrect, PTL DEF Spec

=============================================================================
