------------------------------ MODULE MCStartup ------------------------------
(***************************************************************************)
(* TLC instance of the programs written in C and C++: the Windows and the  *)
(* Linux runner of the Flutter client and the C server.  They share        *)
(* nothing, so a behaviour is one of one of them.                          *)
(***************************************************************************)
EXTENDS WindowsRunnerProperties, FiniteSets

VARIABLES
  program,
  l_pc, l_argv, screen, dart_entrypoint_arguments, frees, disposals, shown,
  exit_status,
  c_pc, c_argv, addr, socketfd, error

linuxVars == <<l_pc, l_argv, screen, dart_entrypoint_arguments, frees, disposals,
               shown, exit_status>>
cVars     == <<c_pc, c_argv, addr, socketfd, error>>
allVars   == <<program, vars, linuxVars, cVars>>

(***************************************************************************)
(* Windows: no arguments; one with characters of every length and an empty *)
(* one; one that is not UTF-16.                                            *)
(***************************************************************************)
Exe == <<"ascii">>
WindowsLines ==
  {<<Exe>>, <<Exe, <<"latin", "high", "low">>, << >> >>, <<Exe, Exe, <<"low">> >>}

LinuxLines == {<<"p">>, <<"p", "-x">>, <<"p", "-x", "p">>}

(***************************************************************************)
(* The C server: every address of up to MaxLength + 1 characters, behind   *)
(* run and behind another word, with a port and without; too few and too   *)
(* many arguments, or none at all; a program whose name is too long.       *)
(***************************************************************************)
CMaxLength == 7
Addresses == UNION {[1 .. n -> {"1", ".", "n"}] : n \in 0 .. CMaxLength + 1}
Word  == <<"n">>
Port  == <<"1", "1">>
Long  == [i \in 1 .. CMaxLength + 1 |-> "n"]
RunWord == <<"r", "u", "n">>
CLines ==
  {<< >>, <<Word>>, <<Word, Word>>, <<Word, RunWord>>, <<Long, RunWord>>,
   <<Word, RunWord, Port, Port, Port>>, <<Word, Word, <<"1">>, Port>>}
  \cup {<<Word, RunWord, a>> : a \in Addresses}
  \cup {<<Word, RunWord, a, Port>> : a \in Addresses}

L == INSTANCE LinuxRunner WITH
       pc <- l_pc, argv <- l_argv, CommandLines <- LinuxLines, Disposals <- 2
C == INSTANCE CServer WITH
       pc <- c_pc, argv <- c_argv, CommandLines <- CLines,
       Digits <- {"1"}, Others <- {"r", "u", "n"},
       MaxLength <- CMaxLength, MaxFd <- 2

ASSUME StartupAssumption == L!LinuxAssumption /\ C!CAssumption

(***************************************************************************)
(* A program that is not the one that runs is in one of its initial states.*)
(***************************************************************************)
MCInit ==
  /\ program \in {"windows", "linux", "c"}
  /\ Init /\ L!Init /\ C!Init
  /\ program # "windows" => argv = << >> /\ sys.brightness = "missing"
  /\ program # "linux" => l_argv = <<"p">> /\ screen = "wayland"
  /\ program # "c" => c_argv = <<Word>>

MCNext ==
  \/ program = "windows" /\ Next /\ UNCHANGED <<program, linuxVars, cVars>>
  \/ program = "linux" /\ L!Next /\ UNCHANGED <<program, vars, cVars>>
  \/ program = "c" /\ C!Next /\ UNCHANGED <<program, vars, linuxVars>>

MCSpec == MCInit /\ [][MCNext]_allVars /\ (program = "windows" => Fairness)

\* The types of all three.
AllTypeOK == TypeOK /\ L!TypeOK /\ C!TypeOK

\* The view of the Linux runner gets the arguments: LinuxRunner!ViewGetsArguments.
LinuxArguments == L!ViewGetsArguments

\* The Linux runner frees them once: LinuxRunner!FreedOnce.
LinuxFreedOnce == L!FreedOnce

\* The C server goes on with its address unset only if it has no arguments at
\* all: CServer!AddressIsSet.
CAddressIsSet == C!AddressIsSet

\* The C server refuses no valid command line: CServer!ValidIsAccepted.
CValidIsAccepted == C!ValidIsAccepted
=============================================================================
