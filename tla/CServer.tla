------------------------------- MODULE CServer -------------------------------
(***************************************************************************)
(* The C server (server_c): it checks its arguments, says that it has      *)
(* started, makes a socket and loops.  A string is a sequence of           *)
(* characters; MaxLength is the 100 of the code.                           *)
(***************************************************************************)
EXTENDS Integers, Sequences, FiniteSets

CONSTANTS
  CommandLines,   \* the argument vectors: the program's name first, or empty
  Digits,         \* '0' to '9'
  Others,         \* the other characters, '.' excepted
  MaxLength,
  MaxFd           \* bound: the largest file descriptor

Chars   == Digits \cup Others \cup {"."}
Strings == Seq(Chars)
Run     == <<"r", "u", "n">>
DefaultIp == <<"127.0.0.1">>
DefaultPort == <<"9090">>
Garbage == <<"?">>               \* what malloc left there

\* What a module that instantiates this one assumes of the constants.
CAssumption ==
  /\ Digits \cap Others = {} /\ "." \notin Digits \cup Others
  /\ {"r", "u", "n"} \subseteq Others /\ "?" \notin Chars
  /\ CommandLines \subseteq Seq(Strings)
  /\ MaxLength \in Nat /\ MaxFd \in Nat

VARIABLES
  pc,
  argv,
  addr,       \* *paddr: ip_adress and port
  socketfd,
  error       \* what handle_error printed

vars == <<pc, argv, addr, socketfd, error>>

Init ==
  /\ pc = "init"
  /\ argv \in CommandLines
  /\ addr = [ip_adress |-> Garbage, port |-> Garbage]
  /\ socketfd = -1
  /\ error = "none"

check_digit(c) == c \in Digits

Dots(ip) == {i \in DOMAIN ip : ip[i] = "."}

verify_ip_form_all(ip) ==                    \* a slip: '.' is no digit either
  /\ Cardinality(Dots(ip)) = 3
  /\ \A i \in DOMAIN ip : check_digit(ip[i])

verify_ip_form(ip) ==
  /\ Cardinality(Dots(ip)) = 3
  /\ \A i \in DOMAIN ip \ Dots(ip) : check_digit(ip[i])

(***************************************************************************)
(* handle_error, then exit(0) whatever the error.                          *)
(***************************************************************************)
Fail(message) ==
  /\ error' = message
  /\ pc' = "exited"
  /\ UNCHANGED <<argv, addr, socketfd>>

(***************************************************************************)
(* check_args: the lengths of all arguments, the program's name included,  *)
(* then their number, then the command, then the address.                  *)
(***************************************************************************)
NoneTooLong == \A i \in DOMAIN argv : Len(argv[i]) <= MaxLength
argc == Len(argv)
Checking == pc = "init" /\ NoneTooLong

CommandTooLong ==
  /\ pc = "init" /\ ~NoneTooLong
  /\ Fail("command to long.")

TooManyArguments == Checking /\ argc > 4 /\ Fail("Too many arguments.")
NoCommand        == Checking /\ argc = 1 /\ Fail("Select a command")

InvalidCommand ==
  /\ Checking /\ argc \in 2 .. 4 /\ argv[2] # Run
  /\ Fail("Invalid command")

InvalidIp ==
  /\ Checking /\ argc \in 3 .. 4 /\ argv[2] = Run /\ ~verify_ip_form(argv[3])
  /\ Fail("Invalid ip")

Start(ip, port) ==
  /\ addr' = [ip_adress |-> ip, port |-> port]
  /\ pc' = "socket"
  /\ UNCHANGED <<argv, socketfd, error>>

RunDefault ==
  /\ Checking /\ argc = 2 /\ argv[2] = Run
  /\ Start(DefaultIp, DefaultPort)

RunOnIpNoPort ==                              \* a slip: no port assigned
  /\ Checking /\ argc = 3 /\ argv[2] = Run /\ verify_ip_form(argv[3])
  /\ Start(argv[3], Garbage)

RunOnIp ==
  /\ Checking /\ argc = 3 /\ argv[2] = Run /\ verify_ip_form(argv[3])
  /\ Start(argv[3], DefaultPort)

RunOnIpAndPort ==
  /\ Checking /\ argc = 4 /\ argv[2] = Run /\ verify_ip_form(argv[3])
  /\ Start(argv[3], argv[4])

(***************************************************************************)
(* argc = 0, which exec allows, has no branch: check_args returns with the *)
(* two pointers as malloc left them.  init reads them to print them, which *)
(* is undefined: it prints something and goes on, or the program crashes.  *)
(***************************************************************************)
NoArguments ==
  /\ Checking /\ argc = 0
  /\ pc' \in {"socket", "crashed"}
  /\ UNCHANGED <<argv, addr, socketfd, error>>

(***************************************************************************)
(* main: a descriptor 0 counts as the failure, -1 does not.  The address   *)
(* is never bound; the loop that follows does nothing for ever.            *)
(***************************************************************************)
MakeSocket ==
  /\ pc = "socket"
  /\ \E fd \in -1 .. MaxFd :
       /\ socketfd' = fd
       /\ pc' = IF fd = 0 THEN "exited" ELSE "listening"
       /\ error' = IF fd = 0 THEN "Socket failed." ELSE error
  /\ UNCHANGED <<argv, addr>>

Next ==
  \/ CommandTooLong \/ TooManyArguments \/ NoCommand \/ InvalidCommand
  \/ InvalidIp \/ RunDefault \/ RunOnIp \/ RunOnIpAndPort \/ NoArguments
  \/ MakeSocket

Spec == Init /\ [][Next]_vars
-----------------------------------------------------------------------------
(***************************************************************************)
(* Properties.  A valid command line is the one the messages ask for: run, *)
(* then an address of four numbers of at most three digits between three   *)
(* dots, then a port.                                                      *)
(***************************************************************************)
DottedQuad(ip) ==
  \E p, q, r \in DOMAIN ip :
    /\ p < q /\ q < r
    /\ \A i \in DOMAIN ip : IF i \in {p, q, r} THEN ip[i] = "." ELSE ip[i] \in Digits
    /\ \A n \in {p - 1, q - p - 1, r - q - 1, Len(ip) - r} : n \in 1 .. 3

ValidCommand ==
  /\ \A i \in DOMAIN argv : Len(argv[i]) <= MaxLength
  /\ Len(argv) \in 2 .. 4 /\ argv[2] = Run
  /\ Len(argv) > 2 => DottedQuad(argv[3])

\* Every variable keeps its type.
TypeOK ==
  /\ pc \in {"init", "socket", "listening", "exited", "crashed"}
  /\ argv \in CommandLines
  /\ DOMAIN addr = {"ip_adress", "port"}
  /\ socketfd \in -1 .. MaxFd
  /\ error \in {"none", "command to long.", "Too many arguments.",
                "Select a command", "Invalid command", "Invalid ip",
                "Socket failed."}

\* Every branch of check_args ends the program or sets both fields of the
\* allocated address, which init then prints.  Only an empty argument vector
\* gets past all branches: then, and only then, a field is unset or the
\* program crashes.
AddressIsSet ==
  pc \in {"socket", "listening", "crashed"} =>
    IF argc = 0
    THEN addr.ip_adress = Garbage /\ addr.port = Garbage
    ELSE addr.ip_adress # Garbage /\ addr.port # Garbage /\ pc # "crashed"

\* A valid command line is never refused: if the program ends on one, then
\* because of the socket, and it prints why whenever it ends.
ValidIsAccepted ==
  pc = "exited" =>
    /\ error # "none"
    /\ ValidCommand => error = "Socket failed."
=============================================================================
