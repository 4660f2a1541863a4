----------------------------- MODULE RustServer -----------------------------
(***************************************************************************)
(* The Rust server (server_rust/src/server/server.rs) at the grain of its  *)
(* tokio tasks: the accept loop, and for every connection a handler task   *)
(* and, once it has joined, a send task.  The tasks share the list of      *)
(* clients and the history, each behind a tokio RwLock, and every client's *)
(* queue of outgoing messages, behind a lock of its own.                   *)
(*                                                                         *)
(* A step is what a task does between two awaits at which it may really    *)
(* wait.  Code without such an await is one step: an uncontended lock is   *)
(* taken and released inside it.                                           *)
(***************************************************************************)
EXTENDS Naturals, Sequences, SequencesExt, DataPacket

CONSTANTS
  Clients,    \* connections; each is made at most once
  Addrs,      \* peer addresses (IP and port)
  AddrOf,     \* the peer address of each connection
  MayStall,   \* the connections whose peer may stop reading
  MayEnd,     \* how each peer may end its connection: a subset of Endings
  MaxTexts    \* bound: how many texts each connection may post

(***************************************************************************)
(* A peer shuts its side, breaks the connection, or sends a line the       *)
(* server takes for the end: one that does not parse or is out of place.   *)
(***************************************************************************)
Endings == {"eof", "reset", "bad line"}

ASSUME AddrAssumption  == AddrOf \in [Clients -> Addrs]
ASSUME StallAssumption == MayStall \subseteq Clients
ASSUME EndAssumption   == MayEnd \in [Clients -> SUBSET Endings]
ASSUME TextAssumption  == MaxTexts \in [Clients -> Nat]

VARIABLES
  server,     \* the accept loop: "running", "stopped" by Ctrl+C, or "failed"
  net,        \* net[c]: what c's peer has done to the connection
  stalled,    \* the peers that read nothing, their socket buffers full
  pc,         \* pc[c]: where c's handler is
  clients,    \* the list of joined clients
  messages,   \* the history
  waiting,    \* the handlers queued, first come first served, on clients' lock
  kind,       \* kind[c]: the sort of message c's handler broadcasts (next)
  posts,      \* posts[c]: how many broadcasts c's handler has finished
  at,         \* at[c]: the place in clients c's broadcast has come to
  queue,      \* queue[c]: the messages waiting for c's send task
  sender,     \* sender[c]: where c's send task is
  locked,     \* the clients whose queue's lock is held by their send task
  outgoing,   \* outgoing[c]: the message that task took and has yet to send
  sent        \* sent[c]: the messages written to c's socket, in order

netVars  == <<server, net, stalled>>
listVars == <<clients, messages>>
postVars == <<kind, posts, at>>
taskVars == <<pc, postVars>>
sendVars == <<sender, locked, outgoing, sent>>
vars     == <<netVars, taskVars, listVars, waiting, queue, sendVars>>

Net     == {"idle", "open", "eof", "reset"}
Handler == {"idle", "backlog", "login", "register", "broadcast", "push",
            "receive", "remove", "done"}
Sender  == {"off", "ready", "sending", "sleeping", "ended"}
Kinds   == {"joined", "text", "left"}

(***************************************************************************)
(* A message is known by its author and its number among the author's; the *)
(* number stands for the uuid the code gives it.                           *)
(***************************************************************************)
Message == [who : Clients, n : Nat, kind : Kinds]
Msg(c)  == [who |-> c, n |-> posts[c], kind |-> kind[c]]

Init ==
  /\ server   = "running"
  /\ net      = [c \in Clients |-> "idle"]
  /\ stalled  = {}
  /\ pc       = [c \in Clients |-> "idle"]
  /\ clients  = << >>
  /\ messages = << >>
  /\ waiting  = << >>
  /\ kind     = [c \in Clients |-> "joined"]
  /\ posts    = [c \in Clients |-> 0]
  /\ at       = [c \in Clients |-> 1]
  /\ queue    = [c \in Clients |-> << >>]
  /\ sender   = [c \in Clients |-> "off"]
  /\ locked   = {}
  /\ outgoing = [c \in Clients |-> << >>]
  /\ sent     = [c \in Clients |-> << >>]

(***************************************************************************)
(* tokio's RwLock on clients is fair: requests are granted in the order    *)
(* they were made, a reader beside other readers, a writer alone.  Writers *)
(* ("register", "remove") hold it for one step; readers hold it through    *)
(* the pushes of a broadcast.                                              *)
(***************************************************************************)
Readers         == {c \in Clients : pc[c] = "push"}
ReadGranted(c)  == waiting # << >> /\ Head(waiting) = c

\* A slip: the list written to beside the broadcasts that read it.
WriteGrantedAsRead(c) == ReadGranted(c)
WriteGranted(c) == ReadGranted(c) /\ Readers = {}

-----------------------------------------------------------------------------
(***************************************************************************)
(* The peers.  They are not under src/server_rust and do what TCP lets     *)
(* them: connect, shut their side, reset, stop and resume reading.         *)
(***************************************************************************)
Held(c) ==   \* the server has not closed its side
  /\ pc[c] # "idle"
  /\ pc[c] = "done" => sender[c] \notin {"off", "ended"}

Connect(c) ==
  /\ net[c] = "idle"
  /\ \A d \in Clients : AddrOf[d] = AddrOf[c] => ~Held(d) \/ net[d] = "reset"
  /\ net' = [net EXCEPT ![c] = "open"]
  /\ pc'  = [pc EXCEPT ![c] = "backlog"]
  /\ UNCHANGED <<server, stalled, postVars, listVars, waiting, queue,
                 sendVars>>

PeerShuts(c) ==
  /\ "eof" \in MayEnd[c]
  /\ Held(c)
  /\ net[c] = "open"
  /\ net' = [net EXCEPT ![c] = "eof"]
  /\ UNCHANGED <<server, stalled, taskVars, listVars, waiting, queue,
                 sendVars>>

PeerResets(c) ==
  /\ "reset" \in MayEnd[c]
  /\ Held(c)
  /\ net[c] \in {"open", "eof"}
  /\ net' = [net EXCEPT ![c] = "reset"]
  /\ stalled' = stalled \ {c}
  /\ UNCHANGED <<server, taskVars, listVars, waiting, queue, sendVars>>

Stall(c) ==
  /\ c \in MayStall \ stalled
  /\ net[c] \in {"open", "eof"}
  /\ stalled' = stalled \cup {c}
  /\ UNCHANGED <<server, net, taskVars, listVars, waiting, queue, sendVars>>

Resume(c) ==
  /\ c \in stalled
  /\ stalled' = stalled \ {c}
  /\ UNCHANGED <<server, net, taskVars, listVars, waiting, queue, sendVars>>

-----------------------------------------------------------------------------
(***************************************************************************)
(* run and accept_client.  A connection reset while it waits in the        *)
(* backlog is either an error of accept, which is logged, or is accepted   *)
(* and fails in Client::new, whose error `?` carries out of run: the       *)
(* program ends.  So it does on Ctrl+C.  Dropping the runtime drops every  *)
(* task, so nothing moves in a server that is not running.                 *)
(***************************************************************************)
AcceptClient(c) ==
  /\ pc[c] = "backlog"
  /\ net[c] # "reset"
  /\ pc' = [pc EXCEPT ![c] = "login"]
  /\ UNCHANGED <<netVars, postVars, listVars, waiting, queue, sendVars>>

AcceptFails(c) ==
  /\ pc[c] = "backlog"
  /\ net[c] = "reset"
  /\ pc' = [pc EXCEPT ![c] = "done"]
  /\ UNCHANGED <<netVars, postVars, listVars, waiting, queue, sendVars>>

ClientSetupFails(c) ==
  /\ pc[c] = "backlog"
  /\ net[c] = "reset"
  /\ pc' = [pc EXCEPT ![c] = "done"]
  /\ server' = "failed"
  /\ UNCHANGED <<net, stalled, postVars, listVars, waiting, queue, sendVars>>

CtrlC ==
  /\ server' = "stopped"
  /\ UNCHANGED <<net, stalled, taskVars, listVars, waiting, queue, sendVars>>

-----------------------------------------------------------------------------
(***************************************************************************)
(* handle_client up to the receive loop.  A line may have been sent before *)
(* the peer shut or reset its side, so lines are received in any state of  *)
(* the connection.                                                         *)
(***************************************************************************)
InputEnded(c) == net[c] \in {"eof", "reset"}

LoginAccepted(c, p) ==
  /\ pc[c] = "login"
  /\ PacketAssert(p) /\ p.type = "LOGIN" /\ p.loginName # "absent"
  /\ pc' = [pc EXCEPT ![c] = "register"]
  /\ waiting' = Append(waiting, c)
  /\ UNCHANGED <<netVars, postVars, listVars, queue, sendVars>>

(***************************************************************************)
(* Any other first line, one that does not parse included, and the end of  *)
(* the input end the handler; the connection is dropped with it.           *)
(***************************************************************************)
LoginRefused(c) ==
  /\ pc[c] = "login"
  /\ InputEnded(c) \/ "bad line" \in MayEnd[c]
  /\ pc' = [pc EXCEPT ![c] = "done"]
  /\ UNCHANGED <<netVars, postVars, listVars, waiting, queue, sendVars>>

(***************************************************************************)
(* After its write the handler drops the guard and asks for the read lock  *)
(* of its next broadcast.                                                  *)
(***************************************************************************)
RequeuedHolding(c) == Append(waiting, c)   \* a slip: the guard not dropped
Requeued(c)        == Append(Tail(waiting), c)

(***************************************************************************)
(* Under the write lock the client joins the list and is given a copy of   *)
(* the history.  Its own lock is freed on the way to the next await, the   *)
(* read lock of the "joined" broadcast.                                    *)
(***************************************************************************)
Register(c) ==
  /\ pc[c] = "register"
  /\ WriteGranted(c)
  /\ clients' = Append(clients, c)
  /\ queue' = [queue EXCEPT ![c] = @ \o messages]
  /\ pc' = [pc EXCEPT ![c] = "broadcast"]
  /\ waiting' = Requeued(c)
  /\ UNCHANGED <<netVars, postVars, messages, sendVars>>

-----------------------------------------------------------------------------
(***************************************************************************)
(* broadcast: under the read lock the message is pushed onto the queue of  *)
(* every client of the list in turn, then onto the history.  A push waits  *)
(* while the client's send task holds the queue's lock, which it does      *)
(* while it writes to the socket and while it sleeps.                      *)
(***************************************************************************)
AcquireRead(c) ==
  /\ pc[c] = "broadcast"
  /\ ReadGranted(c)
  /\ pc' = [pc EXCEPT ![c] = "push"]
  /\ waiting' = Tail(waiting)
  /\ UNCHANGED <<netVars, postVars, listVars, queue, sendVars>>

QueueFree(d) == d \notin locked

PushNext(c) ==
  /\ pc[c] = "push"
  /\ at[c] <= Len(clients)
  /\ QueueFree(clients[at[c]])
  /\ queue' = [queue EXCEPT ![clients[at[c]]] = Append(@, Msg(c))]
  /\ at' = [at EXCEPT ![c] = @ + 1]
  /\ UNCHANGED <<netVars, pc, kind, posts, listVars, waiting, sendVars>>

(***************************************************************************)
(* The end of a broadcast, and what its caller does next: after "joined"   *)
(* it spawns the send task and enters the receive loop, after a text it    *)
(* goes on receiving, after "left" it returns.                             *)
(***************************************************************************)
AllReachedButOne(c) == at[c] >= Len(clients)   \* a slip: one client too few
AllReached(c)       == at[c] > Len(clients)

AfterAnyBroadcast(c) == "receive"              \* a slip: "left" goes on too
AfterBroadcast(c) == IF kind[c] = "left" THEN "done" ELSE "receive"

SenderForgotten(c)      == sender[c]           \* a slip: no send task
SenderAfterBroadcast(c) == IF kind[c] = "joined" THEN "ready" ELSE sender[c]

EndBroadcast(c) ==
  /\ pc[c] = "push"
  /\ AllReached(c)
  /\ messages' = Append(messages, Msg(c))
  /\ at' = [at EXCEPT ![c] = 1]
  /\ posts' = [posts EXCEPT ![c] = @ + 1]
  /\ pc' = [pc EXCEPT ![c] = AfterBroadcast(c)]
  /\ sender' = [sender EXCEPT ![c] = SenderAfterBroadcast(c)]
  /\ UNCHANGED <<netVars, kind, clients, waiting, queue, locked, outgoing,
                 sent>>

-----------------------------------------------------------------------------
(***************************************************************************)
(* The receive loop.  A message that passes the checks is broadcast.  Had  *)
(* the checks passed a MESSAGE packet without a message, `?` would return  *)
(* from the handler and leave the client in the list.                      *)
(***************************************************************************)
ReceiveMessage(c, p) ==
  /\ pc[c] = "receive"
  /\ PacketAssert(p) /\ p.type = "MESSAGE"
  /\ posts[c] <= MaxTexts[c]
  /\ IF p.message = "absent"
     THEN /\ pc' = [pc EXCEPT ![c] = "done"]
          /\ UNCHANGED <<kind, waiting>>
     ELSE /\ pc' = [pc EXCEPT ![c] = "broadcast"]
          /\ kind' = [kind EXCEPT ![c] = "text"]
          /\ waiting' = Append(waiting, c)
  /\ UNCHANGED <<netVars, posts, at, listVars, queue, sendVars>>

(***************************************************************************)
(* Any other line and the end of the input break the loop; the handler     *)
(* asks for the write lock.                                                *)
(***************************************************************************)
ReceiveOtherReturns(c) ==   \* a slip: `?` where the code breaks
  /\ pc[c] = "receive"
  /\ InputEnded(c) \/ "bad line" \in MayEnd[c]
  /\ pc' = [pc EXCEPT ![c] = "done"]
  /\ UNCHANGED <<netVars, postVars, listVars, waiting, queue, sendVars>>

ReceiveOther(c) ==
  /\ pc[c] = "receive"
  /\ InputEnded(c) \/ "bad line" \in MayEnd[c]
  /\ pc' = [pc EXCEPT ![c] = "remove"]
  /\ waiting' = Append(waiting, c)
  /\ UNCHANGED <<netVars, postVars, listVars, queue, sendVars>>

(***************************************************************************)
(* Under the write lock the first entry of the list with the address of    *)
(* this connection is removed.  Then the send task is told to abort (it is *)
(* at its next await, see Cancel) and the "left" broadcast begins.         *)
(***************************************************************************)
WithoutAddrAfterFirst(s, a) ==   \* a slip: the search starts at index 1
  IF s = << >> THEN s
  ELSE <<Head(s)>> \o RemoveFirstMatch(Tail(s), LAMBDA d : AddrOf[d] = a)
WithoutAddr(s, a) == RemoveFirstMatch(s, LAMBDA d : AddrOf[d] = a)

RemoveClient(c) ==
  /\ pc[c] = "remove"
  /\ WriteGranted(c)
  /\ clients' = WithoutAddr(clients, AddrOf[c])
  /\ kind' = [kind EXCEPT ![c] = "left"]
  /\ pc' = [pc EXCEPT ![c] = "broadcast"]
  /\ waiting' = Requeued(c)
  /\ UNCHANGED <<netVars, posts, at, messages, queue, sendVars>>

-----------------------------------------------------------------------------
(***************************************************************************)
(* The send task: it takes the queue's lock anew in every turn and keeps   *)
(* it while it writes one message to the socket or, the queue being empty, *)
(* while it sleeps 100 ms.  The guard is dropped at the end of the turn,   *)
(* and with the task itself.                                               *)
(***************************************************************************)
TakeMessageByCopy(c) ==   \* a slip: front() for pop_front()
  /\ sender[c] = "ready"
  /\ queue[c] # << >> /\ QueueFree(c)
  /\ outgoing' = [outgoing EXCEPT ![c] = <<Head(queue[c])>>]
  /\ locked' = locked \cup {c}
  /\ sender' = [sender EXCEPT ![c] = "sending"]
  /\ UNCHANGED <<netVars, taskVars, listVars, waiting, queue, sent>>

TakeMessage(c) ==
  /\ sender[c] = "ready"
  /\ queue[c] # << >> /\ QueueFree(c)
  /\ outgoing' = [outgoing EXCEPT ![c] = <<Head(queue[c])>>]
  /\ queue' = [queue EXCEPT ![c] = Tail(@)]
  /\ locked' = locked \cup {c}
  /\ sender' = [sender EXCEPT ![c] = "sending"]
  /\ UNCHANGED <<netVars, taskVars, listVars, waiting, sent>>

Nap(c) ==
  /\ sender[c] = "ready"
  /\ queue[c] = << >> /\ QueueFree(c)
  /\ locked' = locked \cup {c}
  /\ sender' = [sender EXCEPT ![c] = "sleeping"]
  /\ UNCHANGED <<netVars, taskVars, listVars, waiting, queue, outgoing, sent>>

(* A slip: the guard assigned anew, the old one dropped after the await.   *)
LockedByTurns(c)   == locked
LockedAfterTurn(c) == locked \ {c}

CanSend(c) == /\ sender[c] = "sending"
              /\ net[c] \in {"open", "eof"}
              /\ c \notin stalled

SendDone(c) ==
  /\ CanSend(c)
  /\ sent' = [sent EXCEPT ![c] = @ \o outgoing[c]]
  /\ outgoing' = [outgoing EXCEPT ![c] = << >>]
  /\ locked' = LockedAfterTurn(c)
  /\ sender' = [sender EXCEPT ![c] = "ready"]
  /\ UNCHANGED <<netVars, taskVars, listVars, waiting, queue>>

(* A slip: sleeping, the lock held, until there is a message.              *)
CanWakeOnMessage(c) == sender[c] = "sleeping" /\ queue[c] # << >>
CanWake(c)          == sender[c] = "sleeping"

Wake(c) ==
  /\ CanWake(c)
  /\ locked' = LockedAfterTurn(c)
  /\ sender' = [sender EXCEPT ![c] = "ready"]
  /\ UNCHANGED <<netVars, taskVars, listVars, waiting, queue, outgoing, sent>>

(***************************************************************************)
(* A failed write ends the task.  The message it took is lost, and the     *)
(* client stays in the list until its handler sees the connection end.     *)
(***************************************************************************)
CanFail(c) == sender[c] = "sending" /\ net[c] = "reset"

SendFails(c) ==
  /\ CanFail(c)
  /\ locked' = locked \ {c}
  /\ sender' = [sender EXCEPT ![c] = "ended"]
  /\ UNCHANGED <<netVars, taskVars, listVars, waiting, queue, outgoing, sent>>

(***************************************************************************)
(* The abort asked for by RemoveClient takes effect: the task is dropped   *)
(* where it stands, with the message it was writing and the lock it held.  *)
(***************************************************************************)
Cancel(c) ==
  /\ kind[c] = "left"
  /\ sender[c] \in {"ready", "sending", "sleeping"}
  /\ locked' = locked \ {c}
  /\ sender' = [sender EXCEPT ![c] = "ended"]
  /\ UNCHANGED <<netVars, taskVars, listVars, waiting, queue, outgoing, sent>>

-----------------------------------------------------------------------------
Peer(c)     == \/ Connect(c) \/ PeerShuts(c) \/ PeerResets(c)
               \/ Stall(c) \/ Resume(c)
Accept(c)   == AcceptClient(c) \/ AcceptFails(c) \/ ClientSetupFails(c)
Login(c)    == LoginRefused(c) \/ \E p \in Packets : LoginAccepted(c, p)
Broadcast(c) == AcquireRead(c) \/ PushNext(c) \/ EndBroadcast(c)
Receive(c)  == ReceiveOther(c) \/ \E p \in Packets : ReceiveMessage(c, p)
Send(c)     == \/ TakeMessage(c) \/ SendDone(c) \/ SendFails(c)
               \/ Nap(c) \/ Wake(c) \/ Cancel(c)

Next ==
  /\ server = "running"
  /\ \/ CtrlC
     \/ \E c \in Clients : \/ Peer(c) \/ Accept(c) \/ Login(c) \/ Register(c)
                           \/ Broadcast(c) \/ Receive(c) \/ RemoveClient(c)
                           \/ Send(c)

Spec == Init /\ [][Next]_vars
=============================================================================
