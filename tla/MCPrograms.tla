----------------------------- MODULE MCPrograms -----------------------------
(***************************************************************************)
(* The small programs of the repository side by side.  Init chooses one of *)
(* them, the others stay as they are: the behaviours are those of each     *)
(* program by itself.                                                      *)
(***************************************************************************)
EXTENDS MCFunctions, Mastermind, Synchronization, BackupClient, CountEncode

VARIABLE program

all == <<program, sample, gameVars, vars, countVars, backupVars>>

\* Mastermind: arguments that are refused, and guesses that score five red, four
\* red, two white and nothing (the digits are the colours, first slot last).
MCSecretArgs == {<<"d", "g", "d", "d", "d">>, <<"x", "g", "d", "d", "d">>, <<"d">>}

MCPorts == {1280, 1281, 0, 65536}

MCDraws == {\o11121, \o11111, \o77712, \o77777}

\* Lines of 1 to 7 characters.
MCInputs == {<<>>, <<1, 4>>, <<4>>, <<7, 9>>, <<2, 3, 9, 10>>}

\* Lists of up to three options, and those of four that begin with a mode.
MCArguments ==
  LET some == {<<"r">>, <<"s">>, <<"?">>, <<"p", 65535>>, <<"p", 65536>>,
               <<"p", NotANumber>>, <<"b", 7>>, <<"b", 0>>, <<"b", 65535>>}
  IN  UpTo(3, some) \cup {<<<<"s">>>> \o a : a \in [1 .. 3 -> some]}

MCInit ==
  /\ program \in {"functions", "mastermind", "synchronization", "fork", "client"}
  /\ IF program = "functions" THEN Start ELSE sample = [of |-> "idle"]
  /\ GameInit /\ Init
  /\ CountInit /\ (program # "fork" => input = <<>>)
  /\ IF program = "client" THEN BackupInit
     ELSE /\ args = <<>> /\ extra = 0 /\ todo = <<>>
          /\ mode = "mode_unset" /\ server_port = 0 /\ backup_port = 0
          /\ step = "options" /\ peer = 0 /\ up = {}
          /\ got = {} /\ refused = {} /\ reply = FALSE

GameOnly ==
  program = "mastermind" /\ UNCHANGED <<program, sample, vars, countVars, backupVars>>
SyncOnly ==
  program = "synchronization" /\ UNCHANGED <<program, sample, gameVars, countVars, backupVars>>
ForkOnly ==
  program = "fork" /\ UNCHANGED <<program, sample, gameVars, vars, backupVars>>
BackupOnly ==
  program = "client" /\ UNCHANGED <<program, sample, gameVars, vars, countVars>>

MCNext ==
  \/ Pick /\ UNCHANGED <<program, gameVars, vars, countVars, backupVars>>
  \/ GameOnly /\ GameNext
  \/ SyncOnly /\ Next
  \/ ForkOnly /\ CountNext
  \/ BackupOnly /\ BackupNext

\* The fairness of each program, see there.
MCSpec ==
  /\ MCInit /\ [][MCNext]_all
  /\ WF_all(GameOnly /\ ServerNext) /\ WF_all(GameOnly /\ ClientNext)
  /\ WF_all(SyncOnly /\ ServerStep)
  /\ \A c \in Clients : WF_all(SyncOnly /\ ClientStep(c))
  /\ WF_all(ForkOnly /\ ParentStep) /\ WF_all(ForkOnly /\ ChildStep)

-----------------------------------------------------------------------------
(***************************************************************************)
(* What the sources of four programs say of them, and they do not do.  The *)
(* exam client runs, with a main and a backup server; beside it there is a *)
(* sample for each of the others.                                          *)
(***************************************************************************)
MCTwoServers == {<<<<m>>, <<"p", 65535>>, <<"b", 7>>>> : m \in {"r", "s"}}

TextSamples ==
  [of : {"texts"}, args : UpTo(2, ListOptions), tabs : UpTo(2, {"c", Tab}),
   line : UpTo(MAX_LENGTH, {"a"})]

TextsInit ==
  /\ program = "client" /\ sample \in TextSamples
  /\ GameInit /\ Init /\ CountInit /\ input = <<>> /\ BackupInit

TextsSpec == TextsInit /\ [][MCNext]_all

(***************************************************************************)
(* At least one of these is true: the list tool runs exactly if its        *)
(* arguments conform to its synopsis; myexpand expands a tab to a tab stop *)
(* like "the unix command expand"; ispalindrom takes words of "max 40      *)
(* Zeichen"; "if communication with the main server fails, the client      *)
(* tries to send the message to the backup server".                        *)
(***************************************************************************)
SomeTextHolds ==
  Of("texts") =>
    \/ SynopsisHolds(sample.args, <<"ss">>)
    \/ ExpandsTabs(2, sample.tabs)
    \/ MaximumAllowed(<<>>, sample.line)
    \/ BackupTried

=============================================================================
