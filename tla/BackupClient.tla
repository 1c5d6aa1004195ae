---------------------------- MODULE BackupClient ----------------------------
(***************************************************************************)
(* exams/1/ex2/client.c: the options of the client, the attempt to reach   *)
(* the server or else the backup server, and the exchange.  Both servers   *)
(* are external: they listen or not, and may stop at any time.             *)
(***************************************************************************)
EXTENDS Integers, Sequences, FiniteSets

CONSTANTS
  Arguments,  \* the option lists the client is started with
  Extras      \* numbers of arguments that are no options

\* An option is <<"r">>, <<"s">>, <<"?">>, <<"p", n>> or <<"b", n>>, where a
\* text that is no number counts as NotANumber.
NotANumber == -1

MaxPort == 65535

AnyOption == {<<"r">>, <<"s">>, <<"?">>} \cup {"p", "b"} \X Int

ASSUME ArgumentsAssumption == Arguments \subseteq Seq(AnyOption) /\ Extras \subseteq Nat

VARIABLES
  args,    \* history: the option list
  extra,   \* history: argc - optind after the options
  todo,    \* options not handled yet
  mode, server_port, backup_port,
  step,    \* what the client does next
  peer,    \* the port it is connected to, 0 if none
  up,      \* the ports on which a server listens
  got,     \* history: ports and the messages that reached a server there
  refused, \* history: ports that refused a connection
  reply    \* was a reply printed?

options == <<mode, server_port, backup_port>>
\* These have names of their own for the modules that extend several programs.
backupVars == <<args, extra, todo, options, step, peer, up, got, refused, reply>>

PortsOf(list) == {o[2] : o \in {list[i] : i \in {j \in DOMAIN list : Len(list[j]) = 2}}}

BackupInit ==
  /\ args \in Arguments /\ extra \in Extras
  /\ todo = args
  /\ mode = "mode_unset" /\ server_port = 0 /\ backup_port = 0
  /\ step = "options"
  /\ peer = 0
  /\ up \in SUBSET PortsOf(args)
  /\ got = {} /\ refused = {} /\ reply = FALSE

-----------------------------------------------------------------------------
\* parse_port_number(): 0 stands for failure.
ParsePort(n) == IF n <= 0 \/ n > MaxPort THEN 0 ELSE n

\* usage() does not return.
Usage == step' = "failure" /\ UNCHANGED options

SetMode(m) ==
  IF mode # "mode_unset" THEN Usage
  ELSE mode' = m /\ UNCHANGED <<server_port, backup_port, step>>

SetServerPort(n) ==
  IF server_port > 0 \/ ParsePort(n) = 0 THEN Usage
  ELSE server_port' = ParsePort(n) /\ UNCHANGED <<mode, backup_port, step>>

SetBackupPort(n) ==
  IF backup_port > 0 \/ ParsePort(n) = 0 THEN Usage
  ELSE backup_port' = ParsePort(n) /\ UNCHANGED <<mode, server_port, step>>

Option ==
  /\ step = "options" /\ todo # <<>>
  /\ todo' = Tail(todo)
  /\ LET o == Head(todo)
     IN  CASE o[1] = "r" -> SetMode("mode_request")
           [] o[1] = "s" -> SetMode("mode_shutdown")
           [] o[1] = "p" -> SetServerPort(o[2])
           [] o[1] = "b" -> SetBackupPort(o[2])
           [] OTHER      -> Usage
  /\ UNCHANGED <<args, extra, peer, up, got, refused, reply>>

CheckOptions ==
  /\ step = "options" /\ todo = <<>>
  /\ step' = IF mode = "mode_unset" \/ server_port = 0 \/ extra > 0
             THEN "failure" ELSE "connect"
  /\ UNCHANGED <<args, extra, todo, options, peer, up, got, refused, reply>>

Connect(port, otherwise) ==
  IF port \in up
  THEN peer' = port /\ step' = "send" /\ UNCHANGED refused
  ELSE refused' = refused \cup {port} /\ step' = otherwise /\ UNCHANGED peer

ConnectMain ==
  /\ step = "connect"
  /\ Connect(server_port, IF backup_port # 0 THEN "backup" ELSE "failure")
  /\ UNCHANGED <<args, extra, todo, options, up, got, reply>>

\* The same socket is used again.
ConnectBackup ==
  /\ step = "backup"
  /\ Connect(backup_port, "failure")
  /\ UNCHANGED <<args, extra, todo, options, up, got, reply>>

\* Mutant: the backup server gets the message too.
SendBoth ==
  /\ step = "send"
  /\ got' = got \cup ({peer, backup_port} \cap up) \X {mode}
  /\ step' = IF mode = "mode_request" THEN "recv" ELSE "success"
  /\ UNCHANGED <<args, extra, todo, options, peer, up, refused, reply>>

\* The result is not looked at: a server that has stopped gets nothing.
Send ==
  /\ step = "send"
  /\ got' = got \cup ({peer} \cap up) \X {mode}
  /\ step' = IF mode = "mode_request" THEN "recv" ELSE "success"
  /\ UNCHANGED <<args, extra, todo, options, peer, up, refused, reply>>

\* The reply, or nothing if the server has stopped.
Receive ==
  /\ step = "recv"
  /\ \/ <<peer, mode>> \in got /\ reply' = TRUE
     \/ peer \notin up /\ UNCHANGED reply
  /\ step' = "success"
  /\ UNCHANGED <<args, extra, todo, options, peer, up, got, refused>>

Stop ==
  /\ \E port \in up : up' = up \ {port}
  /\ UNCHANGED <<args, extra, todo, options, step, peer, got, refused, reply>>

BackupNext ==
  Option \/ CheckOptions \/ ConnectMain \/ ConnectBackup \/ Send \/ Receive \/ Stop

BackupSpec == BackupInit /\ [][BackupNext]_backupVars

-----------------------------------------------------------------------------
Ended == step \in {"failure", "success"}

\* What the synopsis allows: one of -r and -s, -p once, -b at most once,
\* port numbers, nothing else.
Count(names) == Cardinality({i \in DOMAIN args : args[i][1] \in names})

Conforms ==
  /\ Count({"r", "s"}) = 1 /\ Count({"p"}) = 1 /\ Count({"b"}) <= 1 /\ Count({"?"}) = 0
  /\ PortsOf(args) \subseteq 1 .. MaxPort
  /\ extra = 0

(***************************************************************************)
(* A message reaches at most one of the servers, and the backup server     *)
(* only after the main one refused (client.c:9); a client that fails has   *)
(* reached neither, and it fails exactly if its arguments are wrong or     *)
(* every server it was given refused: one that succeeds was given a server *)
(* that did not refuse (test.sh lines 60-89).                              *)
(***************************************************************************)
OneServer ==
  /\ \A a, b \in got : a = b
  /\ \A a \in got :
       /\ <<"p", a[1]>> \notin {args[i] : i \in DOMAIN args} => server_port \in refused
       /\ a[2] = mode
  /\ step = "failure" => got = {} /\ (Conforms => PortsOf(args) = refused)
  /\ step = "success" => Conforms /\ ~(PortsOf(args) \subseteq refused)
  /\ reply => mode = "mode_request" /\ got # {}

(***************************************************************************)
(* A client that was given a backup server and succeeds has reached the    *)
(* main one or has turned to the backup server (client.c:8: "If            *)
(* communication with the main server fails, the client tries to send the  *)
(* message to the backup server.").                                        *)
(***************************************************************************)
BackupTried ==
  step = "success" /\ backup_port # 0 => got # {} \/ peer = backup_port

=============================================================================
