----------------------------- MODULE KotlinServer -----------------------------
(***************************************************************************)
(* The Kotlin server (server_kotlin, classes/Server.kt): the accept loop,  *)
(* a handler thread and a send thread per client, and the signal thread    *)
(* that stops the server.  They share lists and take no lock.  add and     *)
(* remove of the list of clients, a java.util.ArrayList, go step by step:  *)
(* every read and every write they make of its modCount, its size, its     *)
(* array and an element is one.  System.arraycopy is one step, and so are  *)
(* an iterator's hasNext and next together.                                *)
(*                                                                         *)
(* What the history and the queues of messages hold is not kept: others    *)
(* add to a queue while it is polled, so a poll may find a message or not. *)
(* One read of the socket is one packet, as in the code.                   *)
(***************************************************************************)
EXTENDS Integers, FiniteSets

CONSTANTS
  Clients,     \* connections
  MayStall,    \* those whose peer may stop reading
  Interrupts,  \* whether Ctrl+C may be pressed
  None         \* Java's null in a list

ASSUME KotlinAssumption ==
  /\ IsFiniteSet(Clients) /\ None \notin Clients
  /\ Cardinality(Clients) <= 10        \* the capacity an ArrayList grows to first
  /\ MayStall \subseteq Clients /\ Interrupts \in BOOLEAN

VARIABLES
  peer,        \* the other end: "off", "up" or "gone"
  stalled,     \* the peers that do not read
  open,        \* the sockets not closed here
  handler,     \* handleClient: where it is
  pos,         \* its locals: what an operation read of the list; see Position
  clients,     \* the ArrayList: which array it has, size, modCount
  arrays,      \* arrays[c]: the array that c's handler made by growing the list
  sender,      \* the send thread: where it is
  signal,      \* the signal thread: where it is, its iterator
  server       \* "running" or, after exitProcess, "exited"

netVars  == <<peer, stalled, open>>
listVars == <<clients, arrays>>
restVars == <<sender, signal, server>>
vars     == <<netVars, handler, pos, listVars, restVars>>

N     == Cardinality(Clients)
Slots == 0 .. N - 1
Empty == [i \in Slots |-> None]
Nowhere == [at |-> 0, size |-> 0, array |-> None, mod |-> 0, after |-> "none"]

(* A new list has the empty array, of no length: clients.array is None.    *)
Init ==
  /\ peer    = [c \in Clients |-> "off"]
  /\ stalled = {}
  /\ open    = {}
  /\ handler = [c \in Clients |-> "off"]
  /\ pos     = [c \in Clients |-> Nowhere]
  /\ clients = [array |-> None, size |-> 0, mod |-> 0]
  /\ arrays  = [c \in Clients |-> Empty]
  /\ sender  = [c \in Clients |-> "off"]
  /\ signal  = [pc |-> "off", at |-> 0, mod |-> 0]
  /\ server  = "running"

Running == server = "running"
At(c, step)   == Running /\ handler[c] = step
Goto(c, step) == handler' = [handler EXCEPT ![c] = step]
Forget(c)     == pos' = [pos EXCEPT ![c] = Nowhere]

-----------------------------------------------------------------------------
(***************************************************************************)
(* modCount++, in add and in remove: a read and a write.                   *)
(***************************************************************************)
ReadMod(c, step, next) ==
  /\ At(c, step)
  /\ pos' = [pos EXCEPT ![c].mod = clients.mod]
  /\ Goto(c, next)
  /\ UNCHANGED <<netVars, listVars, restVars>>

WriteMod(c, step, next) ==
  /\ At(c, step)
  /\ clients' = [clients EXCEPT !.mod = pos[c].mod + 1]
  /\ pos' = [pos EXCEPT ![c].mod = 0]
  /\ Goto(c, next)
  /\ UNCHANGED <<netVars, arrays, restVars>>

(***************************************************************************)
(* An iterator's hasNext and next: at the end, at an element, or an        *)
(* exception, for a list that was changed or a null where a client is      *)
(* expected.                                                               *)
(***************************************************************************)
Element(it) == arrays[clients.array][it.at]
AtEnd(it)   == it.at = clients.size
Throws(it)  == /\ ~AtEnd(it)
               /\ \/ it.mod # clients.mod
                  \/ it.at > clients.size
                  \/ it.at < clients.size /\ Element(it) = None

-----------------------------------------------------------------------------
(***************************************************************************)
(* startServer: accept and a thread for the connection, whose peer may by  *)
(* then have gone.                                                         *)
(***************************************************************************)
Accept(c) ==
  /\ At(c, "off")
  /\ peer' = [peer EXCEPT ![c] = "up"]
  /\ open' = open \cup {c}
  /\ Goto(c, "first")
  /\ UNCHANGED <<stalled, pos, listVars, restVars>>

(***************************************************************************)
(* handleClient up to the joined broadcast.  An exception here is not      *)
(* caught: the thread ends and the socket stays open.                      *)
(***************************************************************************)
Login(c) ==
  /\ At(c, "first") /\ peer[c] = "up"
  /\ Goto(c, "add")
  /\ UNCHANGED <<netVars, pos, listVars, restVars>>

NoLogin(c) ==
  /\ At(c, "first") /\ peer[c] = "up"
  /\ open' = open \ {c}
  /\ Goto(c, "done")
  /\ UNCHANGED <<peer, stalled, pos, listVars, restVars>>

FirstThrows(c) ==
  /\ At(c, "first")
  /\ Goto(c, "dead")
  /\ UNCHANGED <<netVars, pos, listVars, restVars>>

(***************************************************************************)
(* clients.add: after modCount the array is read, then the size; then the  *)
(* element is stored, then the size.  The empty array has no place for it. *)
(* With the size read 0 the list grows: what it has by now is copied to a  *)
(* new array, which then becomes the list's; with any other the store      *)
(* throws, as it does at a negative index.                                 *)
(***************************************************************************)
AddReadsMod(c)  == ReadMod(c, "add", "add mod")
AddWritesMod(c) == WriteMod(c, "add mod", "add array")

AddReadsArray(c) ==
  /\ At(c, "add array")
  /\ pos' = [pos EXCEPT ![c].array = clients.array]
  /\ Goto(c, "add size")
  /\ UNCHANGED <<netVars, listVars, restVars>>

AddReadsSize(c) ==
  /\ At(c, "add size")
  /\ pos' = [pos EXCEPT ![c].size = clients.size]
  /\ Goto(c, "add store")
  /\ UNCHANGED <<netVars, listVars, restVars>>

Grows(c)  == pos[c].array = None /\ pos[c].size = 0
Stores(c) == pos[c].array # None /\ pos[c].size >= 0

AddCopies(c) ==
  /\ At(c, "add store") /\ Grows(c)
  /\ arrays' = [arrays EXCEPT ![c] = IF clients.array = None THEN Empty
                                     ELSE arrays[clients.array]]
  /\ Goto(c, "add grown")
  /\ UNCHANGED <<netVars, pos, clients, restVars>>

AddGrows(c) ==
  /\ At(c, "add grown")
  /\ clients' = [clients EXCEPT !.array = c]
  /\ pos' = [pos EXCEPT ![c].array = c]
  /\ Goto(c, "add store")
  /\ UNCHANGED <<netVars, arrays, restVars>>

AddStores(c) ==
  /\ At(c, "add store") /\ Stores(c)
  /\ arrays' = [arrays EXCEPT ![pos[c].array][pos[c].size] = c]
  /\ Goto(c, "add end")
  /\ UNCHANGED <<netVars, pos, clients, restVars>>

AddThrows(c) ==
  /\ At(c, "add store") /\ ~Grows(c) /\ ~Stores(c)
  /\ Goto(c, "dead") /\ Forget(c)
  /\ UNCHANGED <<netVars, listVars, restVars>>

AddWritesSize(c) ==
  /\ At(c, "add end")
  /\ clients' = [clients EXCEPT !.size = pos[c].size + 1]
  /\ Goto(c, "copy") /\ Forget(c)
  /\ UNCHANGED <<netVars, arrays, restVars>>

(***************************************************************************)
(* broadcast: the message is added to the history, an ArrayList too, which *)
(* may throw if it grows for another thread's message meanwhile; then to   *)
(* the queue of each client.  "after" says where the call returns to; only *)
(* the loop catches an exception, and then ends.                           *)
(***************************************************************************)
AfterBroadcast(after) ==
  CASE after = "joined" -> "start"
    [] after = "loop"   -> "loop"
    [] after = "left"   -> "done"

AfterUncaught(after)  == "dead"                    \* a slip: no catch
AfterException(after) == IF after = "loop" THEN "close" ELSE "dead"

OtherBroadcast(c) == \E d \in Clients \ {c} : handler[d] = "each"

Post(c, after) ==
  \/ /\ pos' = [pos EXCEPT ![c] = [Nowhere EXCEPT !.mod   = clients.mod,
                                                 !.after = after]]
     /\ Goto(c, "each")
  \/ /\ OtherBroadcast(c)
     /\ Goto(c, AfterException(after)) /\ Forget(c)

CanAddAtOnce(d) == d \notin stalled     \* a slip: writes to the socket here
CanAdd(d) == TRUE

BroadcastNext(c) ==
  /\ At(c, "each") /\ ~AtEnd(pos[c]) /\ ~Throws(pos[c])
  /\ CanAdd(Element(pos[c]))
  /\ pos' = [pos EXCEPT ![c].at = @ + 1]
  /\ UNCHANGED <<netVars, handler, listVars, restVars>>

BroadcastReturns(c) ==
  /\ At(c, "each") /\ AtEnd(pos[c])
  /\ Goto(c, AfterBroadcast(pos[c].after))
  /\ Forget(c)
  /\ UNCHANGED <<netVars, listVars, restVars>>

BroadcastThrows(c) ==
  /\ At(c, "each") /\ Throws(pos[c])
  /\ Goto(c, AfterException(pos[c].after))
  /\ Forget(c)
  /\ UNCHANGED <<netVars, listVars, restVars>>

(***************************************************************************)
(* After add the history is added to the client's own queue, which may     *)
(* throw too while another thread broadcasts: LinkedList.addAll goes back  *)
(* from a last node it read before.                                        *)
(***************************************************************************)
CopyHistory(c) ==
  /\ At(c, "copy")
  /\ Post(c, "joined")
  /\ UNCHANGED <<netVars, listVars, restVars>>

StartSender(c) ==
  /\ At(c, "start")
  /\ sender' = [sender EXCEPT ![c] = "poll"]
  /\ Goto(c, "loop")
  /\ UNCHANGED <<netVars, pos, listVars, signal, server>>

(***************************************************************************)
(* The loop: a packet with a message is broadcast; anything else, an end   *)
(* of the stream or a socket closed by stop, ends the loop.                *)
(***************************************************************************)
AfterLoginAgain(c) == "add"               \* a slip: a second login joins again
AfterBad(c)        == "close"

ReceiveMessage(c) ==
  /\ At(c, "loop") /\ peer[c] = "up" /\ c \in open
  /\ Post(c, "loop")
  /\ UNCHANGED <<netVars, listVars, restVars>>

ReceiveBad(c) ==
  /\ At(c, "loop") /\ peer[c] = "up"
  /\ Goto(c, AfterBad(c))
  /\ UNCHANGED <<netVars, pos, listVars, restVars>>

ReceiveNothing(c) ==
  /\ At(c, "loop") /\ (peer[c] = "gone" \/ c \notin open)
  /\ Goto(c, "close")
  /\ UNCHANGED <<netVars, pos, listVars, restVars>>

Close(c) ==
  /\ At(c, "close")
  /\ open' = open \ {c}
  /\ Goto(c, "find")
  /\ UNCHANGED <<peer, stalled, pos, listVars, restVars>>

(***************************************************************************)
(* clients.remove: the array and the size are read and the client looked   *)
(* for, element by element.  Then, after modCount, the size is read anew;  *)
(* what comes behind the client is shifted, the size stored, and the last  *)
(* place cleared, which throws if it is before the first.                  *)
(***************************************************************************)
RemoveReadsArray(c) ==
  /\ At(c, "find")
  /\ pos' = [pos EXCEPT ![c].array = clients.array]
  /\ Goto(c, "find size")
  /\ UNCHANGED <<netVars, listVars, restVars>>

RemoveReadsSize(c) ==
  /\ At(c, "find size")
  /\ pos' = [pos EXCEPT ![c].size = clients.size]
  /\ Goto(c, "scan")
  /\ UNCHANGED <<netVars, listVars, restVars>>

Scanned(c) == arrays[pos[c].array][pos[c].at]

RemoveScans(c) ==
  /\ At(c, "scan") /\ pos[c].at < pos[c].size /\ Scanned(c) # c
  /\ pos' = [pos EXCEPT ![c].at = @ + 1]
  /\ UNCHANGED <<netVars, handler, listVars, restVars>>

RemoveFinds(c) ==
  /\ At(c, "scan") /\ pos[c].at < pos[c].size /\ Scanned(c) = c
  /\ Goto(c, "remove")
  /\ UNCHANGED <<netVars, pos, listVars, restVars>>

RemoveFindsNot(c) ==
  /\ At(c, "scan") /\ pos[c].at >= pos[c].size
  /\ Goto(c, "left") /\ Forget(c)
  /\ UNCHANGED <<netVars, listVars, restVars>>

RemoveReadsMod(c)  == ReadMod(c, "remove", "remove mod")
RemoveWritesMod(c) == WriteMod(c, "remove mod", "remove size")

RemoveCounts(c) ==
  /\ At(c, "remove size")
  /\ pos' = [pos EXCEPT ![c].size = clients.size - 1]
  /\ Goto(c, IF clients.size - 1 > pos[c].at THEN "shift" ELSE "remove end")
  /\ UNCHANGED <<netVars, listVars, restVars>>

Shifted(array, from, to) ==
  [i \in Slots |-> IF i \in from .. to - 1 THEN array[i + 1] ELSE array[i]]

RemoveShifts(c) ==
  /\ At(c, "shift")
  /\ arrays' = [arrays EXCEPT ![pos[c].array] = Shifted(@, pos[c].at, pos[c].size)]
  /\ Goto(c, "remove end")
  /\ UNCHANGED <<netVars, pos, clients, restVars>>

RemoveWritesSize(c) ==
  /\ At(c, "remove end")
  /\ clients' = [clients EXCEPT !.size = pos[c].size]
  /\ Goto(c, "clear")
  /\ UNCHANGED <<netVars, pos, arrays, restVars>>

RemoveClears(c) ==
  /\ At(c, "clear") /\ pos[c].size >= 0
  /\ arrays' = [arrays EXCEPT ![pos[c].array][pos[c].size] = None]
  /\ Goto(c, "left") /\ Forget(c)
  /\ UNCHANGED <<netVars, clients, restVars>>

RemoveThrows(c) ==
  /\ At(c, "clear") /\ pos[c].size < 0
  /\ Goto(c, "dead") /\ Forget(c)
  /\ UNCHANGED <<netVars, listVars, restVars>>

Left(c) ==
  /\ At(c, "left")
  /\ Post(c, "left")
  /\ UNCHANGED <<netVars, listVars, restVars>>

-----------------------------------------------------------------------------
(***************************************************************************)
(* The send thread polls and writes until the socket is closed.  A write   *)
(* to a peer that does not read waits; closing the socket, or the peer's   *)
(* end, makes it throw, which ends the thread.                             *)
(***************************************************************************)
Sending(c, step) == Running /\ sender[c] = step
SenderGoto(c, step) == /\ sender' = [sender EXCEPT ![c] = step]
                       /\ UNCHANGED <<netVars, handler, pos, listVars, signal, server>>

ClosedNever(c) == FALSE            \* a slip: isConnected stays true
Closed(c)      == c \notin open

Poll(c) == Sending(c, "poll") /\ ~Closed(c) /\ SenderGoto(c, "write")

SenderEnds(c) == Sending(c, "poll") /\ Closed(c) /\ SenderGoto(c, "off")

Write(c) ==
  /\ Sending(c, "write") /\ c \in open /\ peer[c] = "up" /\ c \notin stalled
  /\ SenderGoto(c, "poll")

WriteThrows(c) ==
  /\ Sending(c, "write") /\ (c \notin open \/ peer[c] = "gone")
  /\ SenderGoto(c, "off")

-----------------------------------------------------------------------------
(***************************************************************************)
(* Ctrl+C: stop closes the clients' sockets one by one, then the server's, *)
(* and the process exits.  An exception ends the signal thread instead, and *)
(* Ctrl+C may be pressed again.                                            *)
(***************************************************************************)
Signals(step) == Running /\ signal.pc = step

Interrupt ==
  /\ Interrupts /\ Signals("off")
  /\ signal' = [pc |-> "each", at |-> 0, mod |-> clients.mod]
  /\ UNCHANGED <<netVars, handler, pos, listVars, sender, server>>

StopNext ==
  /\ Signals("each") /\ ~AtEnd(signal) /\ ~Throws(signal)
  /\ open' = open \ {Element(signal)}
  /\ signal' = [signal EXCEPT !.at = @ + 1]
  /\ UNCHANGED <<peer, stalled, handler, pos, listVars, sender, server>>

StopThrows ==
  /\ Signals("each") /\ Throws(signal)
  /\ signal' = [pc |-> "off", at |-> 0, mod |-> 0]
  /\ UNCHANGED <<netVars, handler, pos, listVars, sender, server>>

StopExits ==
  /\ Signals("each") /\ AtEnd(signal)
  /\ server' = "exited"
  /\ UNCHANGED <<netVars, handler, pos, listVars, sender, signal>>

-----------------------------------------------------------------------------
(***************************************************************************)
(* The peers: each may stop reading and may go, at the latest where a read *)
(* or a write here can tell; once the socket is closed none can.           *)
(***************************************************************************)
Stall(c) ==
  /\ Running /\ peer[c] = "up" /\ c \in open \cap MayStall
  /\ sender[c] # "off"
  /\ stalled' = stalled \cup {c}
  /\ UNCHANGED <<peer, open, handler, pos, listVars, restVars>>

Go(c) ==
  /\ Running /\ peer[c] = "up" /\ c \in open
  /\ handler[c] \in {"first", "loop"} \/ sender[c] # "off"
  /\ peer' = [peer EXCEPT ![c] = "gone"]
  /\ UNCHANGED <<stalled, open, handler, pos, listVars, restVars>>

Peers == \E c \in Clients :
  Accept(c) \/ Stall(c) \/ Go(c)
    \/ Login(c) \/ NoLogin(c) \/ ReceiveMessage(c) \/ ReceiveBad(c)

Add(c) ==
  \/ AddReadsMod(c) \/ AddWritesMod(c) \/ AddReadsArray(c) \/ AddReadsSize(c)
  \/ AddCopies(c) \/ AddGrows(c) \/ AddStores(c) \/ AddThrows(c)
  \/ AddWritesSize(c)

Remove(c) ==
  \/ RemoveReadsArray(c) \/ RemoveReadsSize(c) \/ RemoveScans(c)
  \/ RemoveFinds(c) \/ RemoveFindsNot(c) \/ RemoveReadsMod(c)
  \/ RemoveWritesMod(c) \/ RemoveCounts(c) \/ RemoveShifts(c)
  \/ RemoveWritesSize(c) \/ RemoveClears(c) \/ RemoveThrows(c)

Broadcast(c) ==
  BroadcastNext(c) \/ BroadcastReturns(c) \/ BroadcastThrows(c)

Handle(c) ==
  \/ FirstThrows(c) \/ Add(c) \/ CopyHistory(c) \/ Broadcast(c)
  \/ StartSender(c) \/ ReceiveNothing(c) \/ Close(c) \/ Remove(c) \/ Left(c)

Send(c) == SenderEnds(c) \/ Write(c) \/ WriteThrows(c)

Stop == StopNext \/ StopThrows \/ StopExits

Next == Peers \/ Interrupt \/ Stop \/ \E c \in Clients : Handle(c) \/ Poll(c) \/ Send(c)

(***************************************************************************)
(* Every thread runs; what a peer sends, and when, is up to the peer, and  *)
(* so is whether a poll finds a message.                                   *)
(***************************************************************************)
Fairness ==
  WF_vars(Stop) /\ \A c \in Clients : WF_vars(Handle(c)) /\ WF_vars(Send(c))

Spec == Init /\ [][Next]_vars /\ Fairness
-----------------------------------------------------------------------------
Exited == server = "exited"

Adding   == {"add", "add mod", "add array", "add size", "add store", "add grown",
             "add end"}
Removing == {"find", "find size", "scan", "remove", "remove mod", "remove size",
             "shift", "remove end", "clear"}
Handler  == Adding \cup Removing \cup
            {"off", "first", "copy", "each", "start", "loop", "close",
             "left", "done", "dead"}
Position == [at: Nat, size: Int, array: Clients \cup {None}, mod: Nat,
             after: {"none", "joined", "loop", "left"}]

List     == [array: Clients \cup {None}, size: Int, mod: Nat]

Shapes ==
  /\ peer \in [Clients -> {"off", "up", "gone"}]
  /\ stalled \in SUBSET MayStall /\ open \in SUBSET Clients
  /\ handler \in [Clients -> Handler] /\ pos \in [Clients -> Position]
  /\ clients \in List
  /\ arrays \in [Clients -> [Slots -> Clients \cup {None}]]
  /\ sender \in [Clients -> {"off", "poll", "write"}]
  /\ signal \in [pc: {"off", "each"}, at: Nat, mod: Nat]
  /\ server \in {"running", "exited"}

\* Every variable keeps its type, and the list of clients, which threads
\* change at the same time, a size it can have: no more than the clients, and
\* below 0, where threads found themselves in a list whose size counts fewer,
\* never by all that remove.
TypeOK == Shapes /\ clients.size \in {0} \cup (1 - N .. N)

\* A broadcast ends, whoever stops reading, joins or leaves meanwhile: no
\* thread waits for a peer or for another thread.
BroadcastEnds ==
  \A c \in Clients : (handler[c] = "each") ~> (handler[c] # "each" \/ Exited)

Served(c) ==
  handler[c] = "loop" \/ (handler[c] = "each" /\ pos[c].after = "loop")

\* When the peer of a served client goes, also in a broadcast that throws, the
\* socket is closed and the handler ends, whatever the other threads do to the
\* list it is broadcast to and removed from.
GoneIsClosed ==
  \A c \in Clients :
    (Served(c) /\ peer[c] = "gone")
      ~> ((c \notin open /\ handler[c] \in {"done", "dead"}) \/ Exited)

\* A client's send thread ends when its socket is closed, also when it waits
\* in a write to a peer that does not read.
SenderStops ==
  \A c \in Clients :
    (sender[c] # "off" /\ c \notin open) ~> (sender[c] = "off" \/ Exited)

\* Ctrl+C ends the server, the clients' sockets closed: README.md:64-66.
InterruptEnds == (signal.pc = "each") ~> Exited
=============================================================================
