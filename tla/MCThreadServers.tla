--------------------------- MODULE MCThreadServers ---------------------------
(***************************************************************************)
(* TLC instance of the two servers with threads and lists without locks,   *)
(* the Kotlin and the Python one, with two clients.  They share nothing,   *)
(* so a behaviour is one of one of them.  The Kotlin server has two kinds: *)
(* with two clients, whose threads meet at the list, and with one client   *)
(* and Ctrl+C.  Only the latter has all that a peer and a send thread do.  *)
(***************************************************************************)
EXTENDS KotlinServer, Sequences

CONSTANTS c1, c2

VARIABLES
  program,
  p_peer, p_open, main, p_handler, at, p_clients, nicknames, shouldClose,
  overlapped

TwoClients == {c1, c2}

P == INSTANCE PythonServer WITH
       peer <- p_peer, open <- p_open, handler <- p_handler, clients <- p_clients

ASSUME PythonServerAssumption == P!PythonAssumption

pythonVars == <<p_peer, p_open, main, p_handler, at, p_clients, nicknames,
                shouldClose, overlapped>>
allVars == <<program, vars, pythonVars>>

MCInit ==
  /\ program \in {"kotlin clients", "kotlin interrupt", "python"}
  /\ Init /\ P!Init

(* With two clients the send threads find nothing to write, the first      *)
(* client's loop ends with its peer, the second's with a wrong packet.     *)
TwoMeet ==
  /\ stalled' = {} /\ \A c \in Clients : sender'[c] # "write"
  /\ peer'[c2] # "gone"
  /\ handler[c1] = "loop" /\ peer[c1] = "up" => handler'[c1] # "close"

MCNext ==
  /\ \/ /\ program = "kotlin clients"
        /\ Next /\ TwoMeet /\ UNCHANGED <<signal, pythonVars>>
     \/ /\ program = "kotlin interrupt"
        /\ Next /\ UNCHANGED <<peer[c2], pythonVars>>
     \/ /\ program = "python"
        /\ P!Next /\ UNCHANGED vars
  /\ UNCHANGED program

MCSpec == MCInit /\ [][MCNext]_allVars /\ Fairness /\ P!Fairness

\* The types of both.
ThreadTypes == TypeOK /\ P!TypeOK

\* The Python server pairs nicknames with clients: PythonServer!NicknamesPair.
PythonNicknamesPair == P!NicknamesPair

\* After Ctrl+C the Python server's handlers of lost peers end:
\* PythonServer!CloseEnds.
PythonCloseEnds == P!CloseEnds
=============================================================================
