------------------------ MODULE RustServerProperties ------------------------
(***************************************************************************)
(* What the Rust server is expected to do: it is a ChatRoom, whatever its  *)
(* tasks and locks do, and with peers that keep reading it gets every      *)
(* message to everybody.                                                   *)
(***************************************************************************)
EXTENDS RustServer

(***************************************************************************)
(* The shape of every state component.                                     *)
(***************************************************************************)
Shapes ==
  /\ server   \in {"running", "stopped", "failed"}
  /\ net      \in [Clients -> Net]
  /\ stalled  \in SUBSET Clients
  /\ pc       \in [Clients -> Handler]
  /\ clients  \in Seq(Clients)
  /\ messages \in Seq(Message)
  /\ waiting  \in Seq(Clients)
  /\ kind     \in [Clients -> Kinds]
  /\ posts    \in [Clients -> Nat]
  /\ at       \in [Clients -> Nat \ {0}]
  /\ queue    \in [Clients -> Seq(Message)]
  /\ sender   \in [Clients -> Sender]
  /\ locked   \in SUBSET Clients
  /\ outgoing \in [Clients -> Seq(Message)]
  /\ sent     \in [Clients -> Seq(Message)]

(***************************************************************************)
(* Every state component has its shape, and the place a broadcast has come *)
(* to is one of the list or just past its end, though others add to the    *)
(* list and take from it: it never counts further than there are clients.  *)
(***************************************************************************)
TypeOK == Shapes /\ \A c \in Clients : at[c] <= Len(clients) + 1

-----------------------------------------------------------------------------
(***************************************************************************)
(* The chat room this server is.  A client has been given what was sent to *)
(* it, what its send task holds and what is queued for it; a broadcast is  *)
(* a post from the moment it has the read lock.                            *)
(***************************************************************************)
Stream(c)  == sent[c] \o outgoing[c] \o queue[c]
Pushing(c) == pc[c] = "push"
Ahead(c)   == IF Pushing(c) THEN {clients[i] : i \in at[c] .. Len(clients)}
                            ELSE {}

Room == INSTANCE ChatRoom WITH
  members <- Range(clients),
  history <- messages,
  view    <- [c \in Clients |-> Stream(c)],
  count   <- [c \in Clients |-> IF Pushing(c) THEN posts[c] + 1 ELSE posts[c]],
  posting <- [c \in Clients |-> IF Pushing(c) THEN <<Msg(c)>> ELSE << >>],
  due     <- [c \in Clients |-> Ahead(c)]

(***************************************************************************)
(* The tasks together do nothing a chat room would not do: no history is   *)
(* handed over and no entry removed in the middle of a broadcast, nothing  *)
(* is queued twice, dropped or swapped between broadcast and the sockets.  *)
(***************************************************************************)
ImplementsChatRoom == Room!RoomSpec

(***************************************************************************)
(* A client of the list has, sent or still on the way to it, every message *)
(* of everybody but those whose broadcast has not come to it yet: the copy *)
(* of the history and the live broadcasts leave no gap between them.       *)
(***************************************************************************)
MembersMissNothing == Room!MembersMissNothing /\ Room!HistoryComplete

(***************************************************************************)
(* No client is sent a message twice, or two messages of one author in     *)
(* another order than they were received in, and the history agrees.       *)
(***************************************************************************)
AuthorOrder == Room!AuthorOrder

(***************************************************************************)
(* A client is in the list exactly while its handler serves it, from its   *)
(* registration to its removal: nobody served is dropped, nobody gone is   *)
(* left behind.  It needs connections with addresses of their own.         *)
(***************************************************************************)
Served(c) == /\ pc[c] \in {"broadcast", "push", "receive", "remove"}
             /\ kind[c] # "left"

ListedIffServed == \A c \in Clients : c \in Range(clients) <=> Served(c)

(***************************************************************************)
(* Of that, what a user would miss: a client still connected and served is *)
(* in the list, so that it is sent what the others say.                    *)
(***************************************************************************)
ConnectedIsListed ==
  \A c \in Clients : Served(c) /\ net[c] = "open" => c \in Range(clients)

(***************************************************************************)
(* In the history "joined" comes first and nothing follows "left" among    *)
(* the messages of one connection.                                         *)
(***************************************************************************)
JoinedFirstLeftLast ==
  \A i, j \in DOMAIN messages :
    i < j /\ messages[i].who = messages[j].who =>
      messages[i].kind # "left" /\ messages[j].kind # "joined"

(***************************************************************************)
(* Nobody waits in a circle.  A handler that wants the list's lock is      *)
(* queued for it, and a broadcast holds it or the first in the queue may   *)
(* have it.  A broadcast that waits for the lock of a client's queue waits *)
(* for a send task that is alive, holds that lock and is about to let go   *)
(* of it: it ends its sleep or its write, or it is in a write to a peer    *)
(* that has stopped reading.                                               *)
(***************************************************************************)
AtLock(c)  == pc[c] \in {"register", "broadcast", "remove"}
Granted(c) == IF pc[c] = "broadcast" THEN ReadGranted(c) ELSE WriteGranted(c)

LetsGo(d)   == CanWake(d) \/ CanSend(d) \/ CanFail(d)
Blocking(d) == sender[d] = "sending" /\ d \in stalled

WaitsEndAtAPeer ==
  \A c \in Clients :
    /\ AtLock(c) => /\ c \in Range(waiting)
                    /\ \E h \in Clients : Pushing(h) \/ (AtLock(h) /\ Granted(h))
    /\ Pushing(c) /\ ~AllReached(c) =>
         LET d == clients[at[c]] IN QueueFree(d) \/ LetsGo(d) \/ Blocking(d)

(***************************************************************************)
(* The accept loop ends only when it is told to.                           *)
(***************************************************************************)
StopsOnlyOnRequest == server # "failed"

-----------------------------------------------------------------------------
(***************************************************************************)
(* tokio runs every task that can go on.  The lock of a queue is fair, so  *)
(* a push that finds it free again and again gets it, though the send task *)
(* keeps taking it too.  Room in a socket's buffer is not lost until the   *)
(* send task uses it.  Nobody is obliged to send anything, to read, to end *)
(* a connection or to press Ctrl+C.                                        *)
(***************************************************************************)
HandlerStep(c) ==
  /\ server = "running"
  /\ \/ Accept(c) \/ Register(c) \/ AcquireRead(c) \/ EndBroadcast(c)
     \/ RemoveClient(c)
     \/ InputEnded(c) /\ (LoginRefused(c) \/ ReceiveOther(c))

SenderStep(c) ==
  /\ server = "running"
  /\ \/ TakeMessage(c) \/ SendDone(c) \/ SendFails(c) \/ Nap(c) \/ Wake(c)

TaskFairness(c) ==
  /\ WF_vars(HandlerStep(c))
  /\ SF_vars(server = "running" /\ PushNext(c))
  /\ WF_vars(SenderStep(c))
  /\ SF_vars(server = "running" /\ SendDone(c))
  /\ WF_vars(server = "running" /\ Cancel(c))

FairSpec == Spec /\ \A c \in Clients : TaskFairness(c)

(***************************************************************************)
(* Peers that always come back to reading.                                 *)
(***************************************************************************)
ReadingSpec ==
  FairSpec /\ \A c \in MayStall : WF_vars(server = "running" /\ Resume(c))

(***************************************************************************)
(* Every broadcast that has begun comes to its end, into every queue and   *)
(* into the history.                                                       *)
(***************************************************************************)
BroadcastCompletes ==
  \A c \in Clients : pc[c] = "push" ~> pc[c] # "push" \/ server # "running"

(***************************************************************************)
(* A client whose connection ends is taken off the list.                   *)
(***************************************************************************)
GoneIsRemoved ==
  \A c \in Clients :
    net[c] \in {"eof", "reset"} /\ c \in Range(clients)
      ~> c \notin Range(clients) \/ server # "running"

(***************************************************************************)
(* What is queued for a client is written to its socket: a member that     *)
(* gets no further messages has got them all, unless its send task is over *)
(* (a failed write, or the abort once it is gone).                         *)
(***************************************************************************)
QueuedIsSent ==
  \A c \in Clients :
    Stream(c) # sent[c]
      ~> Stream(c) = sent[c] \/ sender[c] = "ended" \/ server # "running"
=============================================================================
