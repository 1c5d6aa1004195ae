------------------------- MODULE BackupClientProofs -------------------------
(***************************************************************************)
(* Proofs about BackupClient, for any set of option lists of any length    *)
(* and any servers that listen or stop.                                    *)
(***************************************************************************)
EXTENDS BackupClient, SequenceTheorems, FiniteSetTheorems, TLAPS

ModeNames == {"r", "s"}

\* The places of the options that the loop has seen.
Handled == 1 .. Len(args) - Len(todo)

Given(names) == {i \in Handled : args[i][1] \in names}

Listed ==
  /\ args \in Seq(AnyOption) /\ todo \in Seq(AnyOption)
  /\ extra \in Nat
  /\ Len(todo) <= Len(args)
  /\ \A j \in 1 .. Len(todo) : todo[j] = args[Len(args) - Len(todo) + j]

ModeParsed ==
  \/ mode = "mode_unset" /\ Given(ModeNames) = {}
  \/ mode \in {"mode_request", "mode_shutdown"} /\ \E i \in Handled : Given(ModeNames) = {i}

\* Zero stands for an option that was not given.
PortParsed(port, name) ==
  \/ port = 0 /\ Given({name}) = {}
  \/ /\ port \in 1 .. MaxPort
     /\ \E i \in Handled : Given({name}) = {i} /\ args[i] = <<name, port>>

\* What the loop has made of the options it has seen, unless it gave up.
Parsed ==
  /\ ModeParsed
  /\ PortParsed(server_port, "p")
  /\ PortParsed(backup_port, "b")
  /\ Given({"?"}) = {}

Connected == {"send", "recv", "success"}

\* Who was asked, who refused, and what was sent to whom.
Reached ==
  /\ step \in {"options", "connect", "backup", "failure"} \cup Connected
  /\ step \notin {"options", "failure"} =>
       todo = <<>> /\ mode # "mode_unset" /\ server_port # 0 /\ extra = 0
  /\ step \in {"options", "connect"} => refused = {}
  /\ step = "backup" => refused = {server_port} /\ backup_port # 0
  /\ refused \cap up = {}
  /\ step \in Connected =>
       /\ peer = server_port \/ (peer = backup_port /\ server_port \in refused)
       /\ peer \notin refused /\ peer # 0
  /\ got \subseteq {<<peer, mode>>}
  /\ step \notin {"recv", "success"} => got = {}
  /\ step = "recv" => mode = "mode_request"
  /\ reply => step = "success" /\ mode = "mode_request" /\ got # {}
  /\ step = "failure" => (Conforms => PortsOf(args) = refused)

ClientInv == Listed /\ Reached /\ (step # "failure" => Parsed)

-----------------------------------------------------------------------------
\* The forms of an option.
LEMMA OptionForms ==
  ASSUME NEW o \in AnyOption
  PROVE  \/ o \in {<<"r">>, <<"s">>, <<"?">>} /\ Len(o) = 1
         \/ \E name \in {"p", "b"} : \E n \in Int : o = <<name, n>> /\ Len(o) = 2
BY DEF AnyOption

\* parse_port_number() lets port numbers pass and turns all others into 0.
LEMMA PortNumbers ==
  ASSUME NEW n \in Int
  PROVE  /\ n \in 1 .. MaxPort => ParsePort(n) = n /\ ParsePort(n) # 0
         /\ n \notin 1 .. MaxPort => ParsePort(n) = 0
<1>1. MaxPort \in Nat
  BY DEF MaxPort
<1>. QED
  BY <1>1 DEF ParsePort

\* Two options of a kind that may be given once.
LEMMA GivenTwice ==
  ASSUME Listed, NEW names, NEW i \in DOMAIN args, NEW j \in DOMAIN args,
         i # j, args[i][1] \in names, args[j][1] \in names
  PROVE  Count(names) \in Nat /\ Count(names) > 1
<1>. DEFINE All == {k \in DOMAIN args : args[k][1] \in names}
<1>1. IsFiniteSet(DOMAIN args)
  BY FS_Interval, LenProperties DEF Listed
<1>2. IsFiniteSet(All)
  BY <1>1, FS_Subset
<1>3. Cardinality(All) \in Nat
  BY <1>2, FS_CardinalityType
<1>4. Cardinality(All) # 0 /\ Cardinality(All) # 1
  BY <1>2, FS_EmptySet, FS_Singleton
<1>. QED
  BY <1>3, <1>4 DEF Count

\* What the loop sees next.
LEMMA NextOption ==
  ASSUME Listed, todo # <<>>, todo' = Tail(todo), UNCHANGED <<args, extra>>
  PROVE  \E h \in DOMAIN args :
           /\ Head(todo) = args[h] /\ args[h] \in AnyOption
           /\ h \notin Handled
           /\ Handled' = Handled \cup {h}
           /\ Handled \subseteq DOMAIN args
           /\ \A names : Given(names)' =
                IF args[h][1] \in names THEN Given(names) \cup {h} ELSE Given(names)
           /\ Listed'
<1>. DEFINE a == Len(args)
            t == Len(todo)
            h == a - t + 1
<1>1. /\ a \in Nat /\ DOMAIN args = 1 .. a /\ \A i \in 1 .. a : args[i] \in AnyOption
      /\ t \in Nat /\ t <= a
  BY LenProperties DEF Listed
<1>2. /\ Head(todo) = todo[1] /\ Tail(todo) \in Seq(AnyOption) /\ Len(Tail(todo)) = t - 1
      /\ \A i \in 1 .. Len(Tail(todo)) : Tail(todo)[i] = todo[i + 1]
      /\ t # 0
  BY HeadTailProperties, EmptySeq DEF Listed
<1>3. \A j \in 1 .. t : todo[j] = args[a - t + j]
  BY DEF Listed
<1>4. Len(todo') = t - 1 /\ Len(args') = a
  BY <1>2
<1>5. Handled = 1 .. a - t /\ Handled' = 1 .. a - (t - 1)
  BY <1>4 DEF Handled
<1>. HIDE DEF a, t
<1>6. h \in 1 .. a /\ h \notin 1 .. a - t /\ 1 .. a - (t - 1) = (1 .. a - t) \cup {h}
  BY ONLY <1>1, <1>2 DEF h
<1>7. 1 \in 1 .. t
  BY ONLY <1>1, <1>2
<1>8. Head(todo) = args[h]
  BY <1>2, <1>3, <1>7
<1>9. Listed'
  <2>1. t - 1 <= a
    BY ONLY <1>1
  <2>2. ASSUME NEW j \in 1 .. t - 1
        PROVE  Tail(todo)[j] = args[a - (t - 1) + j]
    <3>1. j + 1 \in 1 .. t /\ a - t + (j + 1) = a - (t - 1) + j
      BY ONLY <1>1, <2>2
    <3>. QED
      BY <1>2, <1>3, <3>1, <2>2
  <2>. QED
    BY <1>2, <1>4, <2>1, <2>2 DEF Listed
<1>10. ASSUME NEW names
       PROVE  Given(names)' =
                IF args[h][1] \in names THEN Given(names) \cup {h} ELSE Given(names)
  BY <1>5, <1>6 DEF Given
<1>11. Handled \subseteq DOMAIN args
  BY ONLY <1>1, <1>2, <1>5
<1>. QED
  BY <1>1, <1>5, <1>6, <1>8, <1>9, <1>10, <1>11

(***************************************************************************)
(* A command line that the client accepts conforms to the synopsis, and it *)
(* knows the ports of it.                                                  *)
(***************************************************************************)
LEMMA AcceptedConforms ==
  ASSUME Listed, Parsed, todo = <<>>, mode # "mode_unset", server_port # 0, extra = 0
  PROVE  /\ Conforms
         /\ PortsOf(args) = {server_port, backup_port} \ {0}
         /\ <<"p", server_port>> \in {args[i] : i \in DOMAIN args}
<1>1. Handled = DOMAIN args
  BY LenProperties, EmptySeq DEF Handled, Listed
<1>2. \A names : Count(names) = Cardinality(Given(names))
  BY <1>1 DEF Count, Given
<1>3. PICK m \in Handled : Given(ModeNames) = {m}
  BY DEF Parsed, ModeParsed
<1>4. PICK p \in Handled : Given({"p"}) = {p} /\ args[p] = <<"p", server_port>>
  BY DEF Parsed, PortParsed
<1>5. server_port \in 1 .. MaxPort /\ (backup_port = 0 \/ backup_port \in 1 .. MaxPort)
  BY DEF Parsed, PortParsed
<1>6. Count({"r", "s"}) = 1 /\ Count({"p"}) = 1
  BY <1>2, <1>3, <1>4, FS_Singleton DEF ModeNames
<1>7. Count({"b"}) <= 1
  <2>1. Given({"b"}) = {} \/ \E b : Given({"b"}) = {b}
    BY DEF Parsed, PortParsed
  <2>2. Count({"b"}) = 0 \/ Count({"b"}) = 1
    BY <1>2, <2>1, FS_Singleton, FS_EmptySet
  <2>. QED
    BY <2>2
<1>8. Count({"?"}) = 0
  BY <1>2, FS_EmptySet DEF Parsed
<1>9. \A i \in DOMAIN args : args[i] \in AnyOption
  BY LenProperties DEF Listed
<1>10. ASSUME NEW i \in DOMAIN args, Len(args[i]) = 2
       PROVE  \/ i = p /\ args[i][2] = server_port
              \/ args[i][2] = backup_port /\ backup_port # 0
  <2>1. PICK name \in {"p", "b"}, n \in Int : args[i] = <<name, n>>
    BY <1>9, <1>10, OptionForms
  <2>2. CASE name = "p"
    BY <1>1, <1>4, <2>1, <2>2 DEF Given
  <2>3. CASE name = "b"
    <3>1. i \in Given({"b"})
      BY <1>1, <2>1, <2>3 DEF Given
    <3>. QED
      BY <3>1, <2>1 DEF Parsed, PortParsed
  <2>. QED
    BY <2>1, <2>2, <2>3
<1>11. p \in DOMAIN args /\ Len(args[p]) = 2 /\ args[p][2] = server_port
  BY <1>1, <1>4
<1>12. ASSUME backup_port # 0
       PROVE  \E b \in DOMAIN args : Len(args[b]) = 2 /\ args[b][2] = backup_port
  <2>1. PICK b \in Handled : args[b] = <<"b", backup_port>>
    BY <1>12 DEF Parsed, PortParsed
  <2>. QED
    BY <1>1, <2>1
<1>13. PortsOf(args) = {server_port, backup_port} \ {0}
  BY <1>5, <1>10, <1>11, <1>12 DEF PortsOf
<1>14. PortsOf(args) \subseteq 1 .. MaxPort
  BY <1>5, <1>13
<1>. QED
  BY <1>1, <1>4, <1>6, <1>7, <1>8, <1>13, <1>14 DEF Conforms

-----------------------------------------------------------------------------
\* One more option: it is taken in, or the command line is wrong.
LEMMA OptionStep ==
  ASSUME ClientInv, Option
  PROVE  ClientInv'
<1>. DEFINE o == Head(todo)
<1>1. step = "options" /\ todo # <<>> /\ todo' = Tail(todo)
      /\ UNCHANGED <<args, extra, peer, up, got, refused, reply>>
  BY DEF Option
<1>2. Listed /\ Parsed /\ Reached
  BY <1>1 DEF ClientInv
<1>3. PICK h \in DOMAIN args :
        /\ o = args[h] /\ args[h] \in AnyOption
        /\ h \notin Handled
        /\ Handled' = Handled \cup {h}
        /\ Handled \subseteq DOMAIN args
        /\ \A names : Given(names)' =
             IF args[h][1] \in names THEN Given(names) \cup {h} ELSE Given(names)
        /\ Listed'
  BY <1>1, <1>2, NextOption
<1>4. ASSUME NEW names, NEW i \in Given(names), args[h][1] \in names
      PROVE  Count(names) \in Nat /\ Count(names) > 1
  BY <1>2, <1>3, <1>4, GivenTwice DEF Given
<1>5. ASSUME Len(args[h]) = 2, ParsePort(args[h][2]) = 0, args[h][2] \in Int
      PROVE  ~Conforms
  <2>1. args[h][2] \in PortsOf(args)
    BY <1>5 DEF PortsOf
  <2>2. args[h][2] \notin 1 .. MaxPort
    BY <1>5, PortNumbers
  <2>. QED
    BY <2>1, <2>2 DEF Conforms
<1>6. Conforms' = Conforms /\ PortsOf(args)' = PortsOf(args)
  BY <1>1 DEF Conforms, Count, PortsOf
<1>7. ASSUME Usage, ~Conforms PROVE ClientInv'
  BY <1>1, <1>2, <1>3, <1>6, <1>7
     DEF ClientInv, Reached, Usage, options, Connected
<1>8. ASSUME step' = step, Parsed', mode = "mode_unset" \/ mode' = mode
      PROVE  ClientInv'
  BY <1>1, <1>2, <1>3, <1>8
     DEF ClientInv, Reached, Connected
<1>9. \A names : \A i \in Given(names) : i \in Handled'
  BY <1>3 DEF Given
<1>10. CASE o[1] \in ModeNames
  <2>1. PICK m \in {"mode_request", "mode_shutdown"} : SetMode(m)
    BY <1>10, <1>3, OptionForms DEF Option, ModeNames
  <2>2. CASE mode # "mode_unset"
    <3>1. ~Conforms
      BY <1>2, <1>3, <1>4, <1>10, <2>2 DEF Parsed, ModeParsed, Conforms, ModeNames
    <3>. QED
      BY <1>7, <2>1, <2>2, <3>1 DEF SetMode
  <2>3. CASE mode = "mode_unset"
    <3>1. mode' = m /\ UNCHANGED <<server_port, backup_port, step>>
      BY <2>1, <2>3 DEF SetMode
    <3>2. ModeParsed'
      BY <1>2, <1>3, <1>10, <2>3, <3>1 DEF Parsed, ModeParsed
    <3>3. PortParsed(server_port, "p")' /\ PortParsed(backup_port, "b")' /\ Given({"?"})' = {}
      BY <1>1, <1>2, <1>3, <1>10, <3>1 DEF Parsed, PortParsed, ModeNames
    <3>. QED
      BY <1>8, <2>3, <3>1, <3>2, <3>3 DEF Parsed
  <2>. QED
    BY <2>2, <2>3
<1>11. CASE o[1] = "p"
  <2>1. PICK n \in Int : o = <<"p", n>> /\ Len(o) = 2
    BY <1>3, <1>11, OptionForms
  <2>2. SetServerPort(n)
    BY <1>11, <2>1 DEF Option
  <2>3. CASE server_port > 0 \/ ParsePort(n) = 0
    <3>1. ASSUME server_port > 0 PROVE ~Conforms
      BY <1>2, <1>3, <1>4, <1>11, <3>1 DEF Parsed, PortParsed, Conforms
    <3>2. ASSUME ParsePort(n) = 0 PROVE ~Conforms
      BY <1>3, <1>5, <2>1, <3>2
    <3>. QED
      BY <1>7, <2>2, <2>3, <3>1, <3>2 DEF SetServerPort
  <2>4. CASE ~(server_port > 0 \/ ParsePort(n) = 0)
    <3>1. server_port' = ParsePort(n) /\ UNCHANGED <<mode, backup_port, step>>
      BY <2>2, <2>4 DEF SetServerPort
    <3>2. ParsePort(n) = n /\ n \in 1 .. MaxPort
      BY <2>4, PortNumbers
    <3>3. Given({"p"}) = {}
      BY <1>2, <2>4 DEF Parsed, PortParsed
    <3>4. Given({"p"})' = {h}
      BY <1>3, <1>11, <3>3
    <3>5. PortParsed(server_port, "p")'
      BY <1>1, <1>3, <2>1, <3>1, <3>2, <3>4 DEF PortParsed
    <3>6. ModeParsed' /\ PortParsed(backup_port, "b")' /\ Given({"?"})' = {}
      BY <1>1, <1>2, <1>3, <1>11, <3>1 DEF Parsed, ModeParsed, PortParsed, ModeNames
    <3>. QED
      BY <1>8, <3>1, <3>5, <3>6 DEF Parsed
  <2>. QED
    BY <2>3, <2>4
<1>12. CASE o[1] = "b"
  <2>1. PICK n \in Int : o = <<"b", n>> /\ Len(o) = 2
    BY <1>3, <1>12, OptionForms
  <2>2. SetBackupPort(n)
    BY <1>12, <2>1 DEF Option
  <2>3. CASE backup_port > 0 \/ ParsePort(n) = 0
    <3>1. ASSUME backup_port > 0 PROVE ~Conforms
      BY <1>2, <1>3, <1>4, <1>12, <3>1 DEF Parsed, PortParsed, Conforms
    <3>2. ASSUME ParsePort(n) = 0 PROVE ~Conforms
      BY <1>3, <1>5, <2>1, <3>2
    <3>. QED
      BY <1>7, <2>2, <2>3, <3>1, <3>2 DEF SetBackupPort
  <2>4. CASE ~(backup_port > 0 \/ ParsePort(n) = 0)
    <3>1. backup_port' = ParsePort(n) /\ UNCHANGED <<mode, server_port, step>>
      BY <2>2, <2>4 DEF SetBackupPort
    <3>2. ParsePort(n) = n /\ n \in 1 .. MaxPort
      BY <2>4, PortNumbers
    <3>3. Given({"b"}) = {}
      BY <1>2, <2>4 DEF Parsed, PortParsed
    <3>4. Given({"b"})' = {h}
      BY <1>3, <1>12, <3>3
    <3>5. PortParsed(backup_port, "b")'
      BY <1>1, <1>3, <2>1, <3>1, <3>2, <3>4 DEF PortParsed
    <3>6. ModeParsed' /\ PortParsed(server_port, "p")' /\ Given({"?"})' = {}
      BY <1>1, <1>2, <1>3, <1>12, <3>1 DEF Parsed, ModeParsed, PortParsed, ModeNames
    <3>. QED
      BY <1>8, <3>1, <3>5, <3>6 DEF Parsed
  <2>. QED
    BY <2>3, <2>4
<1>13. CASE o = <<"?">>
  <2>1. Usage
    BY <1>13 DEF Option
  <2>2. h \in {i \in DOMAIN args : args[i][1] \in {"?"}}
    BY <1>3, <1>13
  <2>3. IsFiniteSet({i \in DOMAIN args : args[i][1] \in {"?"}})
    BY <1>2, FS_Interval, FS_Subset, LenProperties DEF Listed
  <2>4. ~Conforms
    BY <2>2, <2>3, FS_EmptySet DEF Conforms, Count
  <2>. QED
    BY <1>7, <2>1, <2>4
<1>. QED
  BY <1>3, <1>10, <1>11, <1>12, <1>13, OptionForms DEF ModeNames

(***************************************************************************)
(* The check after the loop lets exactly the conforming command lines      *)
(* pass; the connections go to the ports they name.                        *)
(***************************************************************************)
LEMMA ClientStep ==
  ASSUME ClientInv, [BackupNext]_backupVars
  PROVE  ClientInv'
<1>1. CASE Option
  BY <1>1, OptionStep
<1>2. ASSUME UNCHANGED <<args, extra, todo, options>>
      PROVE  /\ Listed' = Listed /\ Parsed' = Parsed /\ Conforms' = Conforms
             /\ PortsOf(args)' = PortsOf(args)
  BY <1>2 DEF options, Listed, Parsed, Conforms, Count, PortsOf, ModeParsed, PortParsed,
     Given, Handled
<1>3. ASSUME step \notin {"options", "failure"}
      PROVE  Conforms /\ PortsOf(args) = {server_port, backup_port} \ {0}
  BY <1>3, AcceptedConforms DEF ClientInv, Reached
<1>4. CASE CheckOptions
  <2>1. /\ step = "options" /\ todo = <<>> /\ Listed /\ Parsed /\ Reached
        /\ UNCHANGED <<args, extra, todo, options, peer, up, got, refused, reply>>
    BY <1>4 DEF CheckOptions, ClientInv
  <2>2. ASSUME mode = "mode_unset" \/ server_port = 0 \/ extra > 0
        PROVE  ~Conforms
    <3>1. Handled = DOMAIN args
      BY <2>1, LenProperties, EmptySeq DEF Handled, Listed
    <3>2. \A names : Count(names) = Cardinality(Given(names))
      BY <3>1 DEF Count, Given
    <3>3. CASE mode = "mode_unset"
      <4>1. Count(ModeNames) = 0
        BY <2>1, <3>2, <3>3, FS_EmptySet DEF Parsed, ModeParsed
      <4>. QED
        BY <4>1 DEF Conforms, ModeNames
    <3>4. CASE server_port = 0
      <4>1. Count({"p"}) = 0
        BY <2>1, <3>2, <3>4, FS_EmptySet DEF Parsed, PortParsed
      <4>. QED
        BY <4>1 DEF Conforms
    <3>5. CASE extra > 0
      BY <3>5 DEF Conforms
    <3>. QED
      BY <2>2, <3>3, <3>4, <3>5
  <2>3. ASSUME ~(mode = "mode_unset" \/ server_port = 0 \/ extra > 0)
        PROVE  mode # "mode_unset" /\ server_port # 0 /\ extra = 0
    BY <2>1, <2>3 DEF Listed
  <2>. QED
    BY <1>2, <1>4, <2>1, <2>2, <2>3
       DEF CheckOptions, ClientInv, Reached, Connected, options
<1>5. CASE ConnectMain
  BY <1>2, <1>3, <1>5 DEF ConnectMain, Connect, ClientInv, Reached, Connected, options
<1>6. CASE ConnectBackup
  BY <1>2, <1>3, <1>6 DEF ConnectBackup, Connect, ClientInv, Reached, Connected, options
<1>7. CASE Send
  BY <1>2, <1>7 DEF Send, ClientInv, Reached, Connected, options
<1>8. CASE Receive
  BY <1>2, <1>8 DEF Receive, ClientInv, Reached, Connected, options
<1>9. CASE Stop
  BY <1>2, <1>9 DEF Stop, ClientInv, Reached, Connected, options
<1>10. CASE UNCHANGED backupVars
  BY <1>2, <1>10 DEF backupVars, ClientInv, Reached, Connected, options
<1>. QED
  BY <1>1, <1>4, <1>5, <1>6, <1>7, <1>8, <1>9, <1>10 DEF BackupNext

\* The invariant holds of a client that was started with options in any order.
LEMMA ClientInit ==
  ASSUME BackupInit
  PROVE  ClientInv
<1>1. args \in Seq(AnyOption) /\ Len(args) \in Nat /\ todo = args /\ extra \in Nat
  BY ArgumentsAssumption, LenProperties DEF BackupInit
<1>2. Len(args) - Len(todo) = 0 /\ Len(todo) <= Len(args)
  BY <1>1
<1>3. \A j \in 1 .. Len(todo) : todo[j] = args[Len(args) - Len(todo) + j]
  BY <1>1, <1>2
<1>4. Handled = {}
  BY <1>2 DEF Handled
<1>. QED
  BY <1>1, <1>2, <1>3, <1>4
     DEF BackupInit, ClientInv, Listed, Reached, Parsed, ModeParsed, PortParsed, Given, Connected

(***************************************************************************)
(* A message reaches at most one server, the backup server only after the  *)
(* main one refused, and nobody if the client fails, which it does if its  *)
(* command line is wrong or all the servers it was given refuse, and only  *)
(* then.                                                                   *)
(***************************************************************************)
THEOREM OneServerAlways == BackupSpec => []OneServer
<1>1. BackupInit => ClientInv
  BY ClientInit
<1>2. ClientInv /\ [BackupNext]_backupVars => ClientInv'
  BY ClientStep
<1>3. ClientInv => OneServer
  <2>. SUFFICES ASSUME ClientInv PROVE OneServer
    OBVIOUS
  <2>1. ASSUME step \notin {"options", "failure"}
        PROVE  /\ Conforms /\ <<"p", server_port>> \in {args[i] : i \in DOMAIN args}
               /\ PortsOf(args) = {server_port, backup_port} \ {0}
    BY <2>1, AcceptedConforms DEF ClientInv, Reached
  <2>2. got # {} => step \in {"recv", "success"}
    BY DEF ClientInv, Reached
  <2>3. \A a \in got : a = <<peer, mode>> /\ a[1] = peer /\ a[2] = mode
    BY DEF ClientInv, Reached
  <2>4. \A a \in got : <<"p", a[1]>> \notin {args[i] : i \in DOMAIN args} => server_port \in refused
    BY <2>1, <2>2, <2>3 DEF ClientInv, Reached, Connected
  <2>5. step = "success" => ~(PortsOf(args) \subseteq refused)
    BY <2>1 DEF ClientInv, Reached, Connected
  <2>. QED
    BY <2>1, <2>2, <2>3, <2>4, <2>5 DEF OneServer, ClientInv, Reached
<1>. QED
  BY <1>1, <1>2, <1>3, PTL DEF BackupSpec

=============================================================================
