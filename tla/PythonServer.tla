----------------------------- MODULE PythonServer -----------------------------
(***************************************************************************)
(* The Python server (server_python/server.py): the main thread accepts a  *)
(* client, waits for its nickname and broadcasts that it joined; a handler *)
(* thread per client broadcasts what it receives and, at an exception,     *)
(* takes the client off two lists, clients and nicknames.  A list's method *)
(* is one step, the interpreter's lock sees to that; between two of them   *)
(* other threads run.                                                      *)
(*                                                                         *)
(* A nickname is named by the client it is of.  Peers read what they are   *)
(* sent, so that a send returns or raises; Ctrl+C is modelled while the    *)
(* main thread is in receive.                                              *)
(***************************************************************************)
EXTENDS Naturals, Sequences, SequencesExt

CONSTANTS Clients, None

\* What a module that instantiates this one assumes of the constants.
PythonAssumption == None \notin Clients

VARIABLES
  peer,         \* the other end: "off", "up" or "gone"
  open,         \* the sockets not closed here
  main,         \* receive: where it is, the client, its broadcast's position
  handler,      \* handle: where it is
  at,           \* its index in a list
  clients,
  nicknames,
  shouldClose,
  overlapped    \* history: two handlers removed their clients at once

vars == <<peer, open, main, handler, at, clients, nicknames, shouldClose,
          overlapped>>
netVars  == <<peer, open>>
listVars == <<clients, nicknames>>
flagVars == <<shouldClose, overlapped>>

Init ==
  /\ peer = [c \in Clients |-> "off"] /\ open = {}
  /\ main = [pc |-> "accept", client |-> None, at |-> 0]
  /\ handler = [c \in Clients |-> "off"] /\ at = [c \in Clients |-> 0]
  /\ clients = << >> /\ nicknames = << >>
  /\ shouldClose = FALSE /\ overlapped = FALSE

-----------------------------------------------------------------------------
(***************************************************************************)
(* A send: to a socket closed here it raises, to a peer that has gone it   *)
(* may; otherwise it returns.                                              *)
(***************************************************************************)
MayReturn(c) == c \in open
MayRaise(c)  == c \notin open \/ peer[c] = "gone"

(***************************************************************************)
(* receive, on the main thread.  Nothing catches an exception: the thread  *)
(* ends, those of the clients go on.                                       *)
(***************************************************************************)
MainGoto(step) ==
  main' = [main EXCEPT !.pc = step, !.at = 0]
MainEnds ==
  /\ MainGoto("dead")
  /\ UNCHANGED <<netVars, handler, at, listVars, flagVars>>

Accept(c) ==
  /\ main.pc = "accept" /\ peer[c] = "off"
  /\ peer' = [peer EXCEPT ![c] = "up"]
  /\ open' = open \cup {c}
  /\ main' = [pc |-> "nickname", client |-> c, at |-> 0]
  /\ UNCHANGED <<handler, at, listVars, flagVars>>

ReceiveNickname ==
  /\ main.pc = "nickname"
  /\ MainGoto("append_nickname")
  /\ UNCHANGED <<netVars, handler, at, listVars, flagVars>>

NicknameRaises == main.pc = "nickname" /\ MainEnds   \* reset, or not UTF-8

AppendNickname ==
  /\ main.pc = "append_nickname"
  /\ nicknames' = Append(nicknames, main.client)
  /\ MainGoto("append_client")
  /\ UNCHANGED <<netVars, handler, at, clients, flagVars>>

AppendClient ==
  /\ main.pc = "append_client"
  /\ clients' = Append(clients, main.client)
  /\ MainGoto("each")
  /\ UNCHANGED <<netVars, handler, at, nicknames, flagVars>>

MainSends ==
  /\ main.pc = "each" /\ main.at < Len(clients)
  /\ MayReturn(clients[main.at + 1])
  /\ main' = [main EXCEPT !.at = @ + 1]
  /\ UNCHANGED <<netVars, handler, at, listVars, flagVars>>

MainSendRaises ==
  /\ main.pc = "each" /\ main.at < Len(clients)
  /\ MayRaise(clients[main.at + 1])
  /\ MainEnds

StartThread ==
  /\ main.pc = "each" /\ main.at >= Len(clients)
  /\ handler' = [handler EXCEPT ![main.client] = "loop"]
  /\ main' = [pc |-> "accept", client |-> None, at |-> 0]
  /\ UNCHANGED <<netVars, at, listVars, flagVars>>

(***************************************************************************)
(* Ctrl+C: dispose runs on the main thread, wherever that is, and ends it. *)
(***************************************************************************)
Dispose ==
  /\ main.pc \notin {"dead", "exited"}
  /\ shouldClose' = TRUE
  /\ MainGoto("exited")
  /\ UNCHANGED <<netVars, handler, at, listVars, overlapped>>

-----------------------------------------------------------------------------
(***************************************************************************)
(* handle: loop, receive, print the nickname, broadcast.  A peer that has  *)
(* shut its end gives an empty message again and again.                    *)
(***************************************************************************)
Goto(c, step) == handler' = [handler EXCEPT ![c] = step]

LoopEndsNever == FALSE                             \* a slip: while True
LoopEnds      == shouldClose

Loop(c) ==
  /\ handler[c] = "loop"
  /\ Goto(c, IF LoopEnds THEN "done" ELSE "recv")
  /\ UNCHANGED <<netVars, main, at, listVars, flagVars>>

Receive(c) ==
  /\ handler[c] = "recv"
  /\ Goto(c, "find")
  /\ UNCHANGED <<netVars, main, at, listVars, flagVars>>

ReceiveRaises(c) ==
  /\ handler[c] = "recv" /\ peer[c] = "gone"
  /\ Goto(c, "index")
  /\ UNCHANGED <<netVars, main, at, listVars, flagVars>>

IndexOf(c) == CHOOSE i \in DOMAIN clients : clients[i] = c

Find(c) ==
  /\ handler[c] = "find"
  /\ at' = [at EXCEPT ![c] = IndexOf(c)]
  /\ Goto(c, "print")
  /\ UNCHANGED <<netVars, main, listVars, flagVars>>

PrintNickname(c) ==
  /\ handler[c] = "print"
  /\ at' = [at EXCEPT ![c] = 0]
  /\ Goto(c, IF at[c] \in DOMAIN nicknames THEN "each" ELSE "index")
  /\ UNCHANGED <<netVars, main, listVars, flagVars>>

Sends(c) ==
  /\ handler[c] = "each" /\ at[c] < Len(clients)
  /\ MayReturn(clients[at[c] + 1])
  /\ at' = [at EXCEPT ![c] = @ + 1]
  /\ UNCHANGED <<netVars, main, handler, listVars, flagVars>>

SendRaises(c) ==
  /\ handler[c] = "each" /\ at[c] < Len(clients)
  /\ MayRaise(clients[at[c] + 1])
  /\ at' = [at EXCEPT ![c] = 0]
  /\ Goto(c, "index")
  /\ UNCHANGED <<netVars, main, listVars, flagVars>>

BroadcastEnds(c) ==
  /\ handler[c] = "each" /\ at[c] >= Len(clients)
  /\ at' = [at EXCEPT ![c] = 0]
  /\ Goto(c, "loop")
  /\ UNCHANGED <<netVars, main, listVars, flagVars>>

(***************************************************************************)
(* The except clause.  An index that is too large by now is an exception   *)
(* that nothing catches.                                                   *)
(***************************************************************************)
Removing(c) == handler[c] \in {"close", "pop", "remove"}

Index(c) ==
  /\ handler[c] = "index"
  /\ at' = [at EXCEPT ![c] = IndexOf(c)]
  /\ overlapped' = (overlapped \/ \E d \in Clients : Removing(d))
  /\ Goto(c, "close")
  /\ UNCHANGED <<netVars, main, listVars, shouldClose>>

Close(c) ==
  /\ handler[c] = "close"
  /\ open' = open \ {c}
  /\ Goto(c, "pop")
  /\ UNCHANGED <<peer, main, at, listVars, flagVars>>

PoppedLast(i) == Front(nicknames)                  \* a slip: pop()
Popped(i) == RemoveAt(nicknames, i)

Pop(c) ==
  /\ handler[c] = "pop" /\ at[c] \in DOMAIN nicknames
  /\ nicknames' = Popped(at[c])
  /\ at' = [at EXCEPT ![c] = 0]
  /\ Goto(c, "remove")
  /\ UNCHANGED <<netVars, main, clients, flagVars>>

PopRaises(c) ==
  /\ handler[c] = "pop" /\ at[c] \notin DOMAIN nicknames
  /\ at' = [at EXCEPT ![c] = 0]
  /\ Goto(c, "dead")
  /\ UNCHANGED <<netVars, main, listVars, flagVars>>

Removed(c) == RemoveAt(clients, IndexOf(c))

RemoveClient(c) ==
  /\ handler[c] = "remove"
  /\ clients' = Removed(c)
  /\ Goto(c, "done")
  /\ UNCHANGED <<netVars, main, at, nicknames, flagVars>>

Go(c) ==
  /\ peer[c] = "up"
  /\ peer' = [peer EXCEPT ![c] = "gone"]
  /\ UNCHANGED <<open, main, handler, at, listVars, flagVars>>

Main ==
  \/ AppendNickname \/ AppendClient \/ MainSends \/ MainSendRaises \/ StartThread

Handle(c) ==
  \/ Loop(c) \/ ReceiveRaises(c) \/ (peer[c] = "gone" /\ Receive(c))
  \/ Find(c) \/ PrintNickname(c) \/ Sends(c) \/ SendRaises(c) \/ BroadcastEnds(c)
  \/ Index(c) \/ Close(c) \/ Pop(c) \/ PopRaises(c) \/ RemoveClient(c)

Next ==
  \/ Main \/ ReceiveNickname \/ NicknameRaises \/ Dispose
  \/ \E c \in Clients : Accept(c) \/ Go(c) \/ Receive(c) \/ Handle(c)

(***************************************************************************)
(* Threads run; what peers send, and when, is up to them.                  *)
(***************************************************************************)
Fairness == WF_vars(Main) /\ \A c \in Clients : WF_vars(Handle(c))

Spec == Init /\ [][Next]_vars /\ Fairness
-----------------------------------------------------------------------------
MainThread == [pc: {"accept", "nickname", "append_nickname", "append_client",
                    "each", "dead", "exited"},
               client: Clients \cup {None}, at: Nat]
Handler    == {"off", "loop", "recv", "find", "print", "each", "index", "close",
               "pop", "remove", "done", "dead"}

\* Every variable keeps its type.
TypeOK ==
  /\ peer \in [Clients -> {"off", "up", "gone"}] /\ open \in SUBSET Clients
  /\ main \in MainThread
  /\ handler \in [Clients -> Handler]
  /\ at \in [Clients -> Nat]
  /\ clients \in Seq(Clients) /\ nicknames \in Seq(Clients)
  /\ shouldClose \in BOOLEAN /\ overlapped \in BOOLEAN

\* What nicknames holds besides those listed is at most the newcomer's.
Beside(listed) == /\ IsPrefix(listed, nicknames)
                  /\ Len(nicknames) <= Len(listed) + 1

\* As long as no two removals overlap, every client has its own nickname at
\* its place, whatever joins and messages come in between (server.py:40-43,
\* 53-54); the client being taken off has lost its own already.
NicknamesPair ==
  ~overlapped =>
    /\ (\A c \in Clients : handler[c] # "remove") => Beside(clients)
    /\ \A c \in Clients : handler[c] = "remove" => Beside(Removed(c))

\* After Ctrl+C the handler of a peer that has gone ends, the one that keeps
\* broadcasting empty messages (server.py:33) included.
CloseEnds ==
  \A c \in Clients :
    (shouldClose /\ peer[c] = "gone") ~> handler[c] \in {"off", "done", "dead"}
=============================================================================
