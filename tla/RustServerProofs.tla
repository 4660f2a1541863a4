-------------------------- MODULE RustServerProofs --------------------------
(***************************************************************************)
(* For any connections, addresses, peers and numbers of texts: the Rust    *)
(* server is type correct, its properties hold, and it implements the chat *)
(* room.                                                                   *)
(***************************************************************************)
EXTENDS RustServerProperties, SequenceTheorems, WellFoundedInduction, TLAPS

USE DEF Net, Handler, Sender, Kinds
USE DEF netVars, listVars, postVars, taskVars, sendVars

LEMMA MsgType ==
  ASSUME Shapes, NEW c \in Clients
  PROVE  Msg(c) \in Message
BY DEF Shapes, Msg, Message

LEMMA InitShapes == Init => Shapes
BY EmptySeq DEF Init, Shapes

(***************************************************************************)
(* The entry RemoveClient removes leaves a list of clients.                *)
(***************************************************************************)
LEMMA RemovalType ==
  ASSUME NEW s \in Seq(Clients), NEW i \in DOMAIN s
  PROVE  RemoveAt(s, i) \in Seq(Clients)
<1>1. Len(s) \in Nat /\ i \in 1 .. Len(s)
  BY LenProperties
<1>2. \A j \in 1 .. Len(s) : s[j] \in Clients
  BY ElementOfSeq
<1>3. SubSeq(s, 1, i - 1) \in Seq(Clients) /\ SubSeq(s, i + 1, Len(s)) \in Seq(Clients)
  BY <1>1, <1>2, SubSeqProperties
<1> QED
  BY <1>3, ConcatProperties DEF RemoveAt

(***************************************************************************)
(* A non-empty set of natural numbers has a least element.                 *)
(***************************************************************************)
LEMMA MinOfNats ==
  ASSUME NEW I, I \subseteq Nat, I # {}
  PROVE  Min(I) \in I
<1>1. PICK x \in I : \A y \in I : ~(<<y, x>> \in OpToRel(<, Nat))
  BY NatLessThanWellFounded, WFMin
<1>2. ASSUME NEW y \in I
      PROVE  x <= y
  <2> SUFFICES ASSUME y < x PROVE FALSE
    OBVIOUS
  <2>1. <<y, x>> \in Nat \X Nat /\ <<y, x>>[1] < <<y, x>>[2]
    OBVIOUS
  <2>2. <<y, x>> \in OpToRel(<, Nat)
    BY <2>1, Zenon DEF OpToRel
  <2> QED
    BY <1>1, <2>2
<1> QED
  BY <1>2 DEF Min

(***************************************************************************)
(* WithoutAddr takes out one entry with the address, or nothing when there *)
(* is none.                                                                *)
(***************************************************************************)
LEMMA Removal ==
  ASSUME NEW s \in Seq(Clients), NEW a
  PROVE  \/ /\ WithoutAddr(s, a) = s
            /\ \A i \in DOMAIN s : AddrOf[s[i]] # a
         \/ \E i \in DOMAIN s : /\ WithoutAddr(s, a) = RemoveAt(s, i)
                                /\ AddrOf[s[i]] = a
<1> DEFINE I == {i \in 1 .. Len(s) : AddrOf[s[i]] = a}
<1>0. DOMAIN s = 1 .. Len(s) /\ Len(s) \in Nat
  BY LenProperties
<1>1. CASE I = {}
  BY <1>0, <1>1 DEF WithoutAddr, RemoveFirstMatch
<1>2. CASE I # {}
  <2>1. Min(I) \in I
    <3>1. I \subseteq Nat
      BY <1>0
    <3> HIDE DEF I
    <3> QED
      BY <1>2, <3>1, MinOfNats
  <2>2. WithoutAddr(s, a) = RemoveAt(s, Min(I))
    BY <1>2 DEF WithoutAddr, RemoveFirstMatch, SelectInSeq
  <2> QED
    BY <1>0, <2>1, <2>2
<1> QED
  BY <1>1, <1>2

(***************************************************************************)
(* Every step keeps the types.                                             *)
(***************************************************************************)
LEMMA StepShapes == Shapes /\ [Next]_vars => Shapes'
<1> SUFFICES ASSUME Shapes, [Next]_vars PROVE Shapes'
  OBVIOUS
<1>1. CASE UNCHANGED vars
  BY <1>1 DEF vars, Shapes
<1>2. CASE CtrlC
  BY <1>2 DEF CtrlC, Shapes
<1>3. ASSUME NEW c \in Clients, Peer(c) PROVE Shapes'
  <2>1. CASE Connect(c)
    BY <2>1 DEF Connect, Shapes
  <2>2. CASE PeerShuts(c)
    BY <2>2 DEF PeerShuts, Shapes
  <2>3. CASE PeerResets(c)
    BY <2>3 DEF PeerResets, Shapes
  <2>4. CASE Stall(c)
    BY <2>4 DEF Stall, Shapes
  <2>5. CASE Resume(c)
    BY <2>5 DEF Resume, Shapes
  <2> QED
    BY <1>3, <2>1, <2>2, <2>3, <2>4, <2>5 DEF Peer
<1>4. ASSUME NEW c \in Clients, Accept(c) PROVE Shapes'
  BY <1>4 DEF Accept, AcceptClient, AcceptFails, ClientSetupFails, Shapes
<1>5. ASSUME NEW c \in Clients, Login(c) PROVE Shapes'
  <2>1. CASE LoginRefused(c)
    BY <2>1 DEF LoginRefused, Shapes
  <2>2. ASSUME NEW p \in Packets, LoginAccepted(c, p) PROVE Shapes'
    BY <2>2, AppendProperties DEF LoginAccepted, Shapes
  <2> QED
    BY <1>5, <2>1, <2>2 DEF Login
<1>6. ASSUME NEW c \in Clients, Register(c) PROVE Shapes'
  <2>1. Append(clients, c) \in Seq(Clients)
    BY AppendProperties DEF Shapes
  <2>2. Append(Tail(waiting), c) \in Seq(Clients)
    BY <1>6, HeadTailProperties, AppendProperties
       DEF Register, WriteGranted, ReadGranted, Shapes
  <2>3. queue[c] \o messages \in Seq(Message)
    BY ConcatProperties DEF Shapes
  <2> QED
    BY <1>6, <2>1, <2>2, <2>3 DEF Register, Requeued, Shapes
<1>7. ASSUME NEW c \in Clients, Broadcast(c) PROVE Shapes'
  <2>1. CASE AcquireRead(c)
    BY <2>1, HeadTailProperties DEF AcquireRead, ReadGranted, Shapes
  <2>2. CASE PushNext(c)
    <3>1. clients[at[c]] \in Clients
      BY <2>2, ElementOfSeq DEF PushNext, Shapes
    <3>2. Append(queue[clients[at[c]]], Msg(c)) \in Seq(Message)
      BY <3>1, MsgType, AppendProperties DEF Shapes
    <3>3. queue' \in [Clients -> Seq(Message)]
      BY <2>2, <3>2 DEF PushNext, Shapes
    <3>4. at' \in [Clients -> Nat \ {0}]
      <4>1. at[c] + 1 \in Nat \ {0}
        BY DEF Shapes
      <4> QED
        BY <2>2, <4>1 DEF PushNext, Shapes
    <3> QED
      BY <2>2, <3>3, <3>4 DEF PushNext, Shapes
  <2>3. CASE EndBroadcast(c)
    <3>1. Append(messages, Msg(c)) \in Seq(Message)
      BY MsgType, AppendProperties DEF Shapes
    <3>2. AfterBroadcast(c) \in Handler /\ SenderAfterBroadcast(c) \in Sender
      BY DEF AfterBroadcast, SenderAfterBroadcast, Handler, Sender, Shapes
    <3>3. posts' \in [Clients -> Nat] /\ at' \in [Clients -> Nat \ {0}]
      BY <2>3 DEF EndBroadcast, Shapes
    <3>4. pc' \in [Clients -> Handler] /\ sender' \in [Clients -> Sender]
      BY <2>3, <3>2 DEF EndBroadcast, Shapes
    <3>5. /\ messages' = Append(messages, Msg(c))
          /\ UNCHANGED <<server, net, stalled, clients, waiting>>
          /\ UNCHANGED <<kind, queue, locked, outgoing, sent>>
      BY <2>3 DEF EndBroadcast
    <3> QED
      BY <3>1, <3>3, <3>4, <3>5 DEF Shapes
  <2> QED
    BY <1>7, <2>1, <2>2, <2>3 DEF Broadcast
<1>8. ASSUME NEW c \in Clients, Receive(c) PROVE Shapes'
  <2>1. Append(waiting, c) \in Seq(Clients)
    BY AppendProperties DEF Shapes
  <2>2. CASE ReceiveOther(c)
    BY <2>1, <2>2 DEF ReceiveOther, Shapes
  <2>3. ASSUME NEW p \in Packets, ReceiveMessage(c, p) PROVE Shapes'
    <3>1. pc' \in [Clients -> Handler] /\ kind' \in [Clients -> Kinds]
      <4>1. pc \in [Clients -> Handler] /\ kind \in [Clients -> Kinds]
        BY DEF Shapes
      <4>2. {"done", "broadcast"} \subseteq Handler /\ "text" \in Kinds
        BY DEF Handler, Kinds
      <4>3. \/ pc' = [pc EXCEPT ![c] = "done"] /\ UNCHANGED kind
            \/ /\ pc' = [pc EXCEPT ![c] = "broadcast"]
               /\ kind' = [kind EXCEPT ![c] = "text"]
        BY <2>3 DEF ReceiveMessage
      <4> QED
        BY <4>1, <4>2, <4>3
    <3>2. waiting' \in Seq(Clients)
      BY <2>1, <2>3 DEF ReceiveMessage, Shapes
    <3>3. /\ UNCHANGED <<server, net, stalled, clients, messages>>
          /\ UNCHANGED <<posts, at, queue, sender, locked, outgoing, sent>>
      BY <2>3 DEF ReceiveMessage
    <3> QED
      BY <3>1, <3>2, <3>3 DEF Shapes
  <2> QED
    BY <1>8, <2>2, <2>3 DEF Receive
<1>9. ASSUME NEW c \in Clients, RemoveClient(c) PROVE Shapes'
  <2>1. clients' \in Seq(Clients)
    <3>1. clients \in Seq(Clients) /\ clients' = WithoutAddr(clients, AddrOf[c])
      BY <1>9 DEF RemoveClient, Shapes
    <3>2. \/ clients' = clients
          \/ \E i \in DOMAIN clients : clients' = RemoveAt(clients, i)
      BY <3>1, Removal
    <3> QED
      BY <3>1, <3>2, RemovalType
  <2>2. Append(Tail(waiting), c) \in Seq(Clients)
    BY <1>9, HeadTailProperties, AppendProperties
       DEF RemoveClient, WriteGranted, ReadGranted, Shapes
  <2> QED
    BY <1>9, <2>1, <2>2 DEF RemoveClient, Requeued, Shapes
<1>10. ASSUME NEW c \in Clients, Send(c) PROVE Shapes'
  <2>1. CASE TakeMessage(c)
    <3>1. <<Head(queue[c])>> \in Seq(Message) /\ Tail(queue[c]) \in Seq(Message)
      BY <2>1, HeadTailProperties DEF TakeMessage, Shapes
    <3> QED
      BY <2>1, <3>1 DEF TakeMessage, Shapes
  <2>2. CASE SendDone(c)
    <3>1. sent[c] \o outgoing[c] \in Seq(Message)
      BY ConcatProperties DEF Shapes
    <3> QED
      BY <2>2, <3>1, EmptySeq DEF SendDone, LockedAfterTurn, Shapes
  <2>3. CASE SendFails(c) \/ Nap(c) \/ Wake(c) \/ Cancel(c)
    BY <2>3 DEF SendFails, Nap, Wake, Cancel, LockedAfterTurn, Shapes
  <2> QED
    BY <1>10, <2>1, <2>2, <2>3 DEF Send
<1> QED
  BY <1>1, <1>2, <1>3, <1>4, <1>5, <1>6, <1>7, <1>8, <1>9, <1>10 DEF Next

-----------------------------------------------------------------------------
(***************************************************************************)
(* Why the server is a chat room.  No entry is twice in the list, so a     *)
(* broadcast pushes once to each; a handler that has not registered has    *)
(* nothing queued or sent, so the history is the beginning of its stream;  *)
(* a broadcast begins at the start of the list; a send task that is not    *)
(* sending holds no message, so that taking one loses none.                *)
(***************************************************************************)
Unjoined == {"idle", "backlog", "login", "register"}

NoTwice(s) == \A i, j \in DOMAIN s : s[i] = s[j] => i = j

ClientInv(c) ==
  /\ net[c] = "idle" => pc[c] = "idle"
  /\ pc[c] \in Unjoined => /\ c \notin Range(clients)
                           /\ kind[c] = "joined"
                           /\ sender[c] = "off"
                           /\ queue[c] = << >> /\ sent[c] = << >>
  /\ kind[c] = "joined" /\ pc[c] \in {"broadcast", "push"} => sender[c] = "off"
  /\ pc[c] \in {"receive", "remove"} => kind[c] # "left"
  /\ pc[c] # "push" => at[c] = 1
  /\ sender[c] \in {"off", "ready", "sleeping"} => outgoing[c] = << >>

ServerInv == /\ Shapes
             /\ NoTwice(clients)
             /\ \A c \in Clients : ClientInv(c)

(***************************************************************************)
(* What appending to and removing from the list do to its entries.         *)
(***************************************************************************)
LEMMA ListAppend ==
  ASSUME NEW s \in Seq(Clients), NEW c \in Clients
  PROVE  /\ Range(Append(s, c)) = Range(s) \cup {c}
         /\ NoTwice(s) /\ c \notin Range(s) => NoTwice(Append(s, c))
<1> DEFINE t == Append(s, c)
<1>1. /\ Len(s) \in Nat
      /\ DOMAIN s = 1 .. Len(s)
      /\ DOMAIN t = 1 .. Len(s) + 1
      /\ \A i \in 1 .. Len(s) : t[i] = s[i]
      /\ t[Len(s) + 1] = c
  BY AppendProperties, LenProperties
<1>2. DOMAIN t = DOMAIN s \cup {Len(s) + 1} /\ Len(s) + 1 \notin DOMAIN s
  BY <1>1
<1> HIDE DEF t
<1>3. Range(t) = Range(s) \cup {c}
  BY <1>1, <1>2 DEF Range
<1>4. ASSUME NoTwice(s), c \notin Range(s) PROVE NoTwice(t)
  BY <1>1, <1>2, <1>4 DEF NoTwice, Range
<1> QED
  BY <1>3, <1>4 DEF t

LEMMA ListRemove ==
  ASSUME NEW s \in Seq(Clients), NoTwice(s), NEW k \in DOMAIN s
  PROVE  /\ Range(RemoveAt(s, k)) = Range(s) \ {s[k]}
         /\ NoTwice(RemoveAt(s, k))
<1> DEFINE t == RemoveAt(s, k)
           u == SubSeq(s, 1, k - 1)
           v == SubSeq(s, k + 1, Len(s))
<1>1. Len(s) \in Nat /\ DOMAIN s = 1 .. Len(s) /\ k \in 1 .. Len(s)
  BY LenProperties
<1>2. \A i \in 1 .. Len(s) : s[i] \in Clients
  BY ElementOfSeq
<1>3. /\ u \in Seq(Clients) /\ Len(u) = k - 1
      /\ \A i \in 1 .. k - 1 : u[i] = s[i]
  <2>1. \A i \in 1 .. k - 1 : s[i] \in Clients
    BY <1>1, <1>2
  <2>2. \A i \in 1 .. (k - 1) - 1 + 1 : u[i] = s[1 + i - 1]
    BY <1>1, <2>1, SubSeqProperties
  <2> QED
    BY <1>1, <2>1, <2>2, SubSeqProperties
<1>4. /\ v \in Seq(Clients) /\ Len(v) = Len(s) - k
      /\ \A i \in 1 .. Len(s) - k : v[i] = s[k + i]
  <2>1. \A i \in k + 1 .. Len(s) : s[i] \in Clients
    BY <1>1, <1>2
  <2>2. /\ v \in Seq(Clients)
        /\ Len(v) = IF k + 1 <= Len(s) THEN Len(s) - (k + 1) + 1 ELSE 0
        /\ \A i \in 1 .. Len(s) - (k + 1) + 1 : v[i] = s[(k + 1) + i - 1]
    BY <1>1, <2>1, SubSeqProperties
  <2> HIDE DEF v
  <2>3. Len(v) = Len(s) - k
    BY <1>1, <2>2
  <2>4. ASSUME NEW i \in 1 .. Len(s) - k PROVE v[i] = s[k + i]
    <3>1. i \in 1 .. Len(s) - (k + 1) + 1 /\ (k + 1) + i - 1 = k + i
      BY <1>1
    <3> QED
      BY <2>2, <3>1
  <2> QED
    BY <2>2, <2>3, <2>4
<1> HIDE DEF u, v
<1>5. /\ t \in Seq(Clients) /\ Len(t) = Len(s) - 1
      /\ \A i \in 1 .. Len(s) - 1 : t[i] = IF i < k THEN s[i] ELSE s[i + 1]
  <2>1. t = u \o v
    BY DEF RemoveAt, u, v
  <2>2. /\ u \o v \in Seq(Clients) /\ Len(u \o v) = Len(u) + Len(v)
        /\ \A i \in 1 .. Len(u) + Len(v) :
             (u \o v)[i] = IF i <= Len(u) THEN u[i] ELSE v[i - Len(u)]
    BY <1>3, <1>4, ConcatProperties
  <2>3. Len(u) + Len(v) = Len(s) - 1
    BY <1>1, <1>3, <1>4
  <2>4. ASSUME NEW i \in 1 .. Len(s) - 1
        PROVE  t[i] = IF i < k THEN s[i] ELSE s[i + 1]
    <3>1. t[i] = IF i <= Len(u) THEN u[i] ELSE v[i - Len(u)]
      BY <2>1, <2>2, <2>3
    <3>2. CASE i < k
      BY <1>1, <1>3, <3>1, <3>2
    <3>3. CASE i >= k
      <4>1. i - (k - 1) \in 1 .. Len(s) - k /\ k + (i - (k - 1)) = i + 1
        BY <1>1, <3>3
      <4> QED
        <5>1. t[i] = v[i - (k - 1)]
          BY <1>1, <1>3, <3>1, <3>3
        <5>2. v[i - (k - 1)] = s[k + (i - (k - 1))]
          BY <1>4, <4>1
        <5> QED
          BY <1>1, <3>3, <4>1, <5>1, <5>2
    <3> QED
      BY <1>1, <3>2, <3>3
  <2> QED
    BY <2>1, <2>2, <2>3, <2>4
<1>6. DOMAIN t = 1 .. Len(s) - 1
  BY <1>5, LenProperties
<1> HIDE DEF t
<1> DEFINE f(i) == IF i < k THEN i ELSE i + 1
<1>11. \A i \in DOMAIN t : f(i) \in DOMAIN s \ {k} /\ t[i] = s[f(i)]
  BY <1>1, <1>5, <1>6
<1>12. \A i, j \in DOMAIN t : f(i) = f(j) => i = j
  BY <1>1, <1>6
<1> HIDE DEF f
<1>7. NoTwice(t)
  BY <1>11, <1>12 DEF NoTwice
<1>8. \A x : x \in Range(t) => x \in Range(s) \ {s[k]}
  BY <1>11 DEF NoTwice, Range
<1>9. ASSUME NEW i \in DOMAIN s, i # k
      PROVE  s[i] \in Range(t)
  <2>1. CASE i < k
    BY <1>1, <1>5, <1>6, <2>1 DEF Range
  <2>2. CASE i > k
    <3>1. i - 1 \in DOMAIN t /\ t[i - 1] = s[i]
      BY <1>1, <1>5, <1>6, <2>2
    <3> QED
      BY <3>1 DEF Range
  <2> QED
    BY <1>1, <1>9, <2>1, <2>2
<1>10. Range(t) = Range(s) \ {s[k]}
  BY <1>8, <1>9 DEF Range
<1> QED
  BY <1>7, <1>10 DEF t

LEMMA InitInv == Init => ServerInv
<1> SUFFICES ASSUME Init PROVE ServerInv
  OBVIOUS
<1>1. Range(<< >>) = {}
  BY DEF Range
<1> QED
  BY <1>1, InitShapes DEF Init, ServerInv, NoTwice, ClientInv, Unjoined

(***************************************************************************)
(* A step that leaves what ClientInv(d) is about as it was keeps it.       *)
(***************************************************************************)
Same(d) ==
  /\ net'[d] = net[d] /\ pc'[d] = pc[d] /\ kind'[d] = kind[d] /\ at'[d] = at[d]
  /\ sender'[d] = sender[d] /\ outgoing'[d] = outgoing[d] /\ sent'[d] = sent[d]
  /\ pc[d] \in Unjoined => /\ queue'[d] = queue[d]
                           /\ d \in Range(clients)' => d \in Range(clients)

LEMMA Others ==
  ASSUME NEW c \in Clients, \A d \in Clients : ClientInv(d),
         \A d \in Clients \ {c} : Same(d), ClientInv(c)'
  PROVE  \A d \in Clients : ClientInv(d)'
<1>1. ASSUME NEW d \in Clients \ {c} PROVE ClientInv(d)'
  <2>1. ClientInv(d) /\ Same(d)
    OBVIOUS
  <2> QED
    BY <2>1 DEF ClientInv, Same
<1> QED
  BY <1>1

(***************************************************************************)
(* Every step keeps the invariant.                                         *)
(***************************************************************************)
LEMMA StepInv == ServerInv /\ [Next]_vars => ServerInv'
<1> SUFFICES ASSUME ServerInv, [Next]_vars PROVE ServerInv'
  OBVIOUS
<1>0. Shapes /\ Shapes' /\ NoTwice(clients) /\ \A c \in Clients : ClientInv(c)
  BY StepShapes DEF ServerInv
<1> SUFFICES NoTwice(clients)' /\ \A d \in Clients : ClientInv(d)'
  BY <1>0 DEF ServerInv
<1>1. CASE UNCHANGED vars
  BY <1>0, <1>1 DEF vars, NoTwice, ClientInv
<1>2. CASE CtrlC
  BY <1>0, <1>2 DEF CtrlC, NoTwice, ClientInv
<1>3. ASSUME NEW c \in Clients, Peer(c)
      PROVE  \A d \in Clients : ClientInv(d)'
  <2>1. CASE Connect(c)
    <3>1. \A d \in Clients \ {c} : Same(d)
      BY <1>0, <2>1 DEF Connect, Shapes, Same
    <3>2. ClientInv(c)'
      BY <1>0, <2>1 DEF Connect, Shapes, ClientInv, Unjoined
    <3> QED
      BY <1>0, <3>1, <3>2, Others
  <2>2. CASE PeerShuts(c)
    <3>1. \A d \in Clients \ {c} : Same(d)
      BY <1>0, <2>2 DEF PeerShuts, Shapes, Same
    <3>2. ClientInv(c)'
      BY <1>0, <2>2 DEF PeerShuts, Shapes, ClientInv, Held
    <3> QED
      BY <1>0, <3>1, <3>2, Others
  <2>3. CASE PeerResets(c)
    <3>1. \A d \in Clients \ {c} : Same(d)
      BY <1>0, <2>3 DEF PeerResets, Shapes, Same
    <3>2. ClientInv(c)'
      BY <1>0, <2>3 DEF PeerResets, Shapes, ClientInv, Held
    <3> QED
      BY <1>0, <3>1, <3>2, Others
  <2>4. CASE Stall(c)
    <3>1. \A d \in Clients \ {c} : Same(d)
      BY <1>0, <2>4 DEF Stall, Shapes, Same
    <3>2. ClientInv(c)'
      BY <1>0, <2>4 DEF Stall, Shapes, ClientInv
    <3> QED
      BY <1>0, <3>1, <3>2, Others
  <2>5. CASE Resume(c)
    <3>1. \A d \in Clients \ {c} : Same(d)
      BY <1>0, <2>5 DEF Resume, Shapes, Same
    <3>2. ClientInv(c)'
      BY <1>0, <2>5 DEF Resume, Shapes, ClientInv
    <3> QED
      BY <1>0, <3>1, <3>2, Others
  <2> QED
    BY <1>3, <2>1, <2>2, <2>3, <2>4, <2>5 DEF Peer
<1>4. ASSUME NEW c \in Clients, Accept(c)
      PROVE  \A d \in Clients : ClientInv(d)'
  <2>1. CASE AcceptClient(c)
    <3>1. \A d \in Clients \ {c} : Same(d)
      BY <1>0, <2>1 DEF AcceptClient, Shapes, Same
    <3>2. ClientInv(c)'
      BY <1>0, <2>1 DEF AcceptClient, Shapes, ClientInv, Unjoined
    <3> QED
      BY <1>0, <3>1, <3>2, Others
  <2>2. CASE AcceptFails(c)
    <3>1. \A d \in Clients \ {c} : Same(d)
      BY <1>0, <2>2 DEF AcceptFails, Shapes, Same
    <3>2. ClientInv(c)'
      BY <1>0, <2>2 DEF AcceptFails, Shapes, ClientInv, Unjoined
    <3> QED
      BY <1>0, <3>1, <3>2, Others
  <2>3. CASE ClientSetupFails(c)
    <3>1. \A d \in Clients \ {c} : Same(d)
      BY <1>0, <2>3 DEF ClientSetupFails, Shapes, Same
    <3>2. ClientInv(c)'
      BY <1>0, <2>3 DEF ClientSetupFails, Shapes, ClientInv, Unjoined
    <3> QED
      BY <1>0, <3>1, <3>2, Others
  <2> QED
    BY <1>4, <2>1, <2>2, <2>3 DEF Accept
<1>5. ASSUME NEW c \in Clients, Login(c)
      PROVE  \A d \in Clients : ClientInv(d)'
  <2>1. CASE LoginRefused(c)
    <3>1. \A d \in Clients \ {c} : Same(d)
      BY <1>0, <2>1 DEF LoginRefused, Shapes, Same
    <3>2. ClientInv(c)'
      BY <1>0, <2>1 DEF LoginRefused, Shapes, ClientInv, Unjoined
    <3> QED
      BY <1>0, <3>1, <3>2, Others
  <2>2. ASSUME NEW p \in Packets, LoginAccepted(c, p) PROVE \A d \in Clients : ClientInv(d)'
    <3>1. \A d \in Clients \ {c} : Same(d)
      BY <1>0, <2>2 DEF LoginAccepted, Shapes, Same
    <3>2. ClientInv(c)'
      BY <1>0, <2>2 DEF LoginAccepted, Shapes, ClientInv, Unjoined
    <3> QED
      BY <1>0, <3>1, <3>2, Others
  <2> QED
    BY <1>5, <2>1, <2>2 DEF Login
<1>6. ASSUME NEW c \in Clients, Register(c)
      PROVE  NoTwice(clients)' /\ \A d \in Clients : ClientInv(d)'
  <2>1. /\ clients \in Seq(Clients) /\ clients' = Append(clients, c)
        /\ c \notin Range(clients)
    BY <1>0, <1>6 DEF Register, Shapes, ClientInv, Unjoined
  <2>2. NoTwice(clients') /\ Range(clients') = Range(clients) \cup {c}
    BY <1>0, <2>1, ListAppend
  <2>3. \A d \in Clients \ {c} : Same(d)
    BY <1>0, <1>6, <2>2 DEF Register, Shapes, Same
  <2>4. ClientInv(c)'
    <3>1. pc'[c] = "broadcast" /\ UNCHANGED <<net, kind, at, sender, outgoing>>
      BY <1>0, <1>6 DEF Register, Shapes
    <3>2. kind[c] = "joined" /\ sender[c] = "off" /\ at[c] = 1 /\ net[c] # "idle"
          /\ outgoing[c] = << >>
      BY <1>0, <1>6 DEF Register, ClientInv, Unjoined
    <3> QED
      BY <3>1, <3>2 DEF ClientInv, Unjoined
  <2> QED
    BY <1>0, <2>2, <2>3, <2>4, Others
<1>7. ASSUME NEW c \in Clients, Broadcast(c)
      PROVE  \A d \in Clients : ClientInv(d)'
  <2>1. CASE AcquireRead(c)
    <3>1. \A d \in Clients \ {c} : Same(d)
      BY <1>0, <2>1 DEF AcquireRead, Shapes, Same
    <3>2. ClientInv(c)'
      <4>1. /\ pc'[c] = "push"
            /\ UNCHANGED <<net, kind, at, sender, outgoing>>
        BY <1>0, <2>1 DEF AcquireRead, Shapes
      <4> QED
        BY <1>0, <2>1, <4>1 DEF AcquireRead, ClientInv, Unjoined
    <3> QED
      BY <1>0, <3>1, <3>2, Others
  <2>2. CASE PushNext(c)
    <3>1. clients[at[c]] \in Range(clients)
      <4>1. at[c] \in 1 .. Len(clients) /\ clients \in Seq(Clients)
        BY <1>0, <2>2, LenProperties DEF PushNext, Shapes
      <4>2. at[c] \in DOMAIN clients
        BY <4>1, LenProperties
      <4> QED
        BY <4>2 DEF Range
    <3>2. \A d \in Clients : pc[d] \in Unjoined => queue'[d] = queue[d]
      BY <1>0, <2>2, <3>1 DEF PushNext, Shapes, ClientInv
    <3>3. \A d \in Clients \ {c} : Same(d)
      BY <1>0, <2>2, <3>2 DEF PushNext, Shapes, Same
    <3>4. ClientInv(c)'
      BY <1>0, <2>2 DEF PushNext, Shapes, ClientInv, Unjoined
    <3> QED
      BY <1>0, <3>3, <3>4, Others
  <2>3. CASE EndBroadcast(c)
    <3>1. \A d \in Clients \ {c} : Same(d)
      BY <1>0, <2>3 DEF EndBroadcast, AllReached, AfterBroadcast,
                      SenderAfterBroadcast, Shapes, Same
    <3>2. ClientInv(c)'
      BY <1>0, <2>3 DEF EndBroadcast, AllReached, AfterBroadcast,
                      SenderAfterBroadcast, Shapes, ClientInv, Unjoined
    <3> QED
      BY <1>0, <3>1, <3>2, Others
  <2> QED
    BY <1>7, <2>1, <2>2, <2>3 DEF Broadcast
<1>8. ASSUME NEW c \in Clients, Receive(c)
      PROVE  \A d \in Clients : ClientInv(d)'
  <2>1. CASE ReceiveOther(c)
    <3>1. \A d \in Clients \ {c} : Same(d)
      BY <1>0, <2>1 DEF ReceiveOther, Shapes, Same
    <3>2. ClientInv(c)'
      <4>1. /\ net'[c] = net[c] /\ at'[c] = at[c] /\ sender'[c] = sender[c]
            /\ outgoing'[c] = outgoing[c]
            /\ pc[c] = "receive" /\ pc'[c] = "remove"
            /\ kind'[c] = kind[c]
        BY <1>0, <2>1 DEF ReceiveOther, Shapes
      <4> QED
        BY <1>0, <4>1 DEF ClientInv, Unjoined
    <3> QED
      BY <1>0, <3>1, <3>2, Others
  <2>2. ASSUME NEW p \in Packets, ReceiveMessage(c, p) PROVE \A d \in Clients : ClientInv(d)'
    <3>1. \A d \in Clients \ {c} : Same(d)
      <4>1. pc \in [Clients -> Handler] /\ kind \in [Clients -> Kinds]
        BY <1>0 DEF Shapes
      <4>2. \A d \in Clients \ {c} : pc'[d] = pc[d] /\ kind'[d] = kind[d]
        BY <2>2, <4>1 DEF ReceiveMessage
      <4>3. UNCHANGED <<net, at, sender, outgoing, sent, queue, clients>>
        BY <2>2 DEF ReceiveMessage
      <4> QED
        BY <4>2, <4>3 DEF Same
    <3>2. ClientInv(c)'
      <4>1. /\ net'[c] = net[c] /\ at'[c] = at[c] /\ sender'[c] = sender[c]
            /\ outgoing'[c] = outgoing[c]
            /\ pc[c] = "receive" /\ pc'[c] \in {"done", "broadcast"}
            /\ pc'[c] = "broadcast" => kind'[c] = "text"
        BY <1>0, <2>2 DEF ReceiveMessage, Shapes
      <4> QED
        BY <1>0, <4>1 DEF ClientInv, Unjoined
    <3> QED
      BY <1>0, <3>1, <3>2, Others
  <2> QED
    BY <1>8, <2>1, <2>2 DEF Receive
<1>9. ASSUME NEW c \in Clients, RemoveClient(c)
      PROVE  NoTwice(clients)' /\ \A d \in Clients : ClientInv(d)'
  <2>1. clients \in Seq(Clients) /\ clients' = WithoutAddr(clients, AddrOf[c])
    BY <1>0, <1>9 DEF RemoveClient, Shapes
  <2>2. \/ clients' = clients
        \/ \E i \in DOMAIN clients : clients' = RemoveAt(clients, i)
    BY <2>1, Removal
  <2>3. NoTwice(clients') /\ Range(clients') \subseteq Range(clients)
    BY <1>0, <2>1, <2>2, ListRemove
  <2>4. \A d \in Clients \ {c} : Same(d)
    BY <1>0, <1>9, <2>3 DEF RemoveClient, Shapes, Same
  <2>5. ClientInv(c)'
    <3>1. /\ net'[c] = net[c] /\ at'[c] = at[c] /\ sender'[c] = sender[c]
          /\ outgoing'[c] = outgoing[c]
          /\ pc[c] = "remove" /\ pc'[c] = "broadcast"
          /\ kind'[c] = "left"
      BY <1>0, <1>9 DEF RemoveClient, Shapes
    <3> QED
      BY <1>0, <3>1 DEF ClientInv, Unjoined
  <2> QED
    BY <1>0, <2>3, <2>4, <2>5, Others
<1>10. ASSUME NEW c \in Clients, Send(c)
      PROVE  \A d \in Clients : ClientInv(d)'
  <2>1. CASE TakeMessage(c)
    <3>1. \A d \in Clients \ {c} : Same(d)
      BY <1>0, <2>1 DEF TakeMessage, Shapes, Same
    <3>2. ClientInv(c)'
      BY <1>0, <2>1 DEF TakeMessage, Shapes, ClientInv, Unjoined
    <3> QED
      BY <1>0, <3>1, <3>2, Others
  <2>2. CASE SendDone(c)
    <3>1. \A d \in Clients \ {c} : Same(d)
      BY <1>0, <2>2 DEF SendDone, Shapes, Same
    <3>2. ClientInv(c)'
      BY <1>0, <2>2 DEF SendDone, CanSend, Shapes, ClientInv, Unjoined
    <3> QED
      BY <1>0, <3>1, <3>2, Others
  <2>3. CASE SendFails(c)
    <3>1. \A d \in Clients \ {c} : Same(d)
      BY <1>0, <2>3 DEF SendFails, Shapes, Same
    <3>2. ClientInv(c)'
      BY <1>0, <2>3 DEF SendFails, CanFail, Shapes, ClientInv, Unjoined
    <3> QED
      BY <1>0, <3>1, <3>2, Others
  <2>4. CASE Nap(c)
    <3>1. \A d \in Clients \ {c} : Same(d)
      BY <1>0, <2>4 DEF Nap, Shapes, Same
    <3>2. ClientInv(c)'
      BY <1>0, <2>4 DEF Nap, Shapes, ClientInv, Unjoined
    <3> QED
      BY <1>0, <3>1, <3>2, Others
  <2>5. CASE Wake(c)
    <3>1. \A d \in Clients \ {c} : Same(d)
      BY <1>0, <2>5 DEF Wake, Shapes, Same
    <3>2. ClientInv(c)'
      BY <1>0, <2>5 DEF Wake, CanWake, Shapes, ClientInv, Unjoined
    <3> QED
      BY <1>0, <3>1, <3>2, Others
  <2>6. CASE Cancel(c)
    <3>1. \A d \in Clients \ {c} : Same(d)
      BY <1>0, <2>6 DEF Cancel, Shapes, Same
    <3>2. ClientInv(c)'
      BY <1>0, <2>6 DEF Cancel, Shapes, ClientInv, Unjoined
    <3> QED
      BY <1>0, <3>1, <3>2, Others
  <2> QED
    BY <1>10, <2>1, <2>2, <2>3, <2>4, <2>5, <2>6 DEF Send
<1>11. ASSUME NEW c \in Clients, Peer(c) \/ Accept(c) \/ Login(c) \/ Broadcast(c)
                                 \/ Receive(c) \/ Send(c)
       PROVE  clients' = clients
  BY <1>11 DEF Peer, Connect, PeerShuts, PeerResets, Stall, Resume, Accept,
       AcceptClient, AcceptFails, ClientSetupFails, Login, LoginRefused,
       LoginAccepted, Broadcast, AcquireRead, PushNext, EndBroadcast, AllReached,
       AfterBroadcast, SenderAfterBroadcast, Receive,
       ReceiveOther, ReceiveMessage, Send, TakeMessage, SendDone, SendFails,
       Nap, Wake, Cancel
<1>12. ASSUME NEW c \in Clients, Peer(c) \/ Accept(c) \/ Login(c) \/ Broadcast(c)
                                 \/ Receive(c) \/ Send(c)
       PROVE  NoTwice(clients)'
  BY <1>0, <1>11, <1>12 DEF NoTwice
<1> QED
  BY <1>1, <1>2, <1>3, <1>4, <1>5, <1>6, <1>7, <1>8, <1>9, <1>10, <1>12 DEF Next

(***************************************************************************)
(* Nothing but the shape of its types and lists is asked of the server.    *)
(***************************************************************************)
THEOREM ServerInvariant == Spec => []ServerInv
BY InitInv, StepInv, PTL DEF Spec

(***************************************************************************)
(* No broadcast is further than just past the end of the list.  Only a     *)
(* push goes on, and it does so inside the list; an entry is removed only  *)
(* while no broadcast reads the list, and then all are at its start.       *)
(***************************************************************************)
InTheList == \A c \in Clients : at[c] <= Len(clients) + 1

LEMMA StepInTheList == ServerInv /\ ServerInv' /\ InTheList /\ [Next]_vars => InTheList'
<1> SUFFICES ASSUME ServerInv, ServerInv', InTheList, [Next]_vars PROVE InTheList'
  OBVIOUS
<1>0. /\ clients \in Seq(Clients) /\ clients' \in Seq(Clients)
      /\ at \in [Clients -> Nat \ {0}] /\ \A c \in Clients : ClientInv(c)
      /\ Len(clients) \in Nat /\ Len(clients') \in Nat
  <2>1. /\ clients \in Seq(Clients) /\ clients' \in Seq(Clients)
        /\ at \in [Clients -> Nat \ {0}] /\ \A c \in Clients : ClientInv(c)
    BY DEF ServerInv, Shapes
  <2> QED
    BY <2>1, LenProperties
<1>1. ASSUME UNCHANGED <<clients, at>> PROVE InTheList'
  BY <1>1 DEF InTheList
<1>2. CASE UNCHANGED vars \/ CtrlC
  BY <1>1, <1>2 DEF vars, CtrlC
<1>3. ASSUME NEW c \in Clients, Peer(c) \/ Accept(c) \/ Login(c) \/ AcquireRead(c)
                                \/ Receive(c) \/ Send(c)
      PROVE  UNCHANGED <<clients, at>>
  BY <1>3 DEF Peer, Connect, PeerShuts, PeerResets, Stall, Resume, Accept,
       AcceptClient, AcceptFails, ClientSetupFails, Login, LoginRefused,
       LoginAccepted, AcquireRead, Receive, ReceiveOther, ReceiveMessage, Send,
       TakeMessage, SendDone, SendFails, Nap, Wake, Cancel
<1>4. ASSUME NEW c \in Clients, Register(c) PROVE InTheList'
  <2>1. at' = at /\ clients' = Append(clients, c) /\ clients \in Seq(Clients)
    BY <1>0, <1>4 DEF Register
  <2>2. Len(clients') = Len(clients) + 1
    BY <2>1, AppendProperties
  <2>3. ASSUME NEW d \in Clients PROVE at'[d] <= Len(clients') + 1
    <3>1. at[d] \in Nat /\ at[d] <= Len(clients) + 1 /\ at'[d] = at[d]
      BY <1>0, <2>1 DEF InTheList
    <3> QED
      BY <1>0, <2>2, <3>1
  <2> QED
    BY <2>3 DEF InTheList
<1>5. ASSUME NEW c \in Clients, PushNext(c) \/ EndBroadcast(c) PROVE InTheList'
  <2>1. /\ clients' = clients
        /\ \/ at' = [at EXCEPT ![c] = @ + 1] /\ at[c] <= Len(clients)
           \/ at' = [at EXCEPT ![c] = 1]
    BY <1>5 DEF PushNext, EndBroadcast
  <2>2. ASSUME NEW d \in Clients PROVE at'[d] <= Len(clients) + 1
    <3>1. at[d] \in Nat /\ at[d] <= Len(clients) + 1
      BY <1>0 DEF InTheList
    <3>2. CASE at' = [at EXCEPT ![c] = @ + 1] /\ at[c] <= Len(clients)
      <4>1. CASE d = c
        BY <1>0, <3>1, <3>2, <4>1
      <4>2. CASE d # c
        BY <1>0, <3>1, <3>2, <4>2
      <4> QED
        BY <4>1, <4>2
    <3>3. CASE at' = [at EXCEPT ![c] = 1]
      <4>1. CASE d = c
        BY <1>0, <3>1, <3>3, <4>1
      <4>2. CASE d # c
        BY <1>0, <3>1, <3>3, <4>2
      <4> QED
        BY <4>1, <4>2
    <3> QED
      BY <2>1, <3>2, <3>3
  <2> QED
    BY <2>1, <2>2 DEF InTheList
<1>6. ASSUME NEW c \in Clients, RemoveClient(c) PROVE InTheList'
  <2>1. at' = at /\ Readers = {}
    BY <1>6 DEF RemoveClient, WriteGranted
  <2>2. \A d \in Clients : at[d] = 1
    BY <1>0, <2>1 DEF Readers, ClientInv
  <2> QED
    BY <1>0, <2>1, <2>2 DEF InTheList
<1> QED
  BY <1>1, <1>2, <1>3, <1>4, <1>5, <1>6 DEF Next, Broadcast

(***************************************************************************)
(* The server is type correct, whatever its clients do, and a broadcast    *)
(* never counts past the end of the list.                                  *)
(***************************************************************************)
THEOREM TypeCorrect == Spec => []TypeOK
<1>1. Init => InTheList
  BY DEF Init, InTheList
<1>2. ServerInv /\ ServerInv' /\ InTheList /\ [Next]_vars => InTheList'
  BY StepInTheList
<1>3. ServerInv /\ InTheList => TypeOK
  BY DEF ServerInv, InTheList, TypeOK
<1> QED
  BY <1>1, <1>2, <1>3, ServerInvariant, PTL DEF Spec

-----------------------------------------------------------------------------
(***************************************************************************)
(* With addresses of their own, connections are listed exactly while their *)
(* handlers serve them.                                                    *)
(***************************************************************************)
OwnAddresses == \A c, d \in Clients : AddrOf[c] = AddrOf[d] => c = d

LEMMA OwnRemoval ==
  ASSUME OwnAddresses, ServerInv, NEW c \in Clients
  PROVE  Range(WithoutAddr(clients, AddrOf[c])) = Range(clients) \ {c}
<1>1. clients \in Seq(Clients) /\ NoTwice(clients)
  BY DEF ServerInv, Shapes
<1>2. \A i \in DOMAIN clients : clients[i] \in Clients
  BY <1>1, LenProperties, ElementOfSeq
<1>3. CASE /\ WithoutAddr(clients, AddrOf[c]) = clients
           /\ \A i \in DOMAIN clients : AddrOf[clients[i]] # AddrOf[c]
  BY <1>3 DEF Range
<1>4. ASSUME NEW i \in DOMAIN clients,
             WithoutAddr(clients, AddrOf[c]) = RemoveAt(clients, i),
             AddrOf[clients[i]] = AddrOf[c]
      PROVE  Range(WithoutAddr(clients, AddrOf[c])) = Range(clients) \ {c}
  <2>1. clients[i] = c
    BY <1>2, <1>4 DEF OwnAddresses
  <2> QED
    BY <1>1, <1>4, <2>1, ListRemove
<1> QED
  BY <1>1, <1>3, <1>4, Removal

(***************************************************************************)
(* A step that is not a registration or a removal leaves the list alone    *)
(* and neither begins nor ends anyone's service.                           *)
(***************************************************************************)
LEMMA StepListed ==
  OwnAddresses /\ ServerInv /\ ListedIffServed /\ [Next]_vars
    => ListedIffServed'
<1> SUFFICES ASSUME OwnAddresses, ServerInv, ListedIffServed, [Next]_vars
             PROVE  ListedIffServed'
  OBVIOUS
<1>0. Shapes /\ \A c \in Clients : ClientInv(c)
  BY DEF ServerInv
<1> DEFINE Kept == /\ clients' = clients
                   /\ \A d \in Clients : Served(d)' = Served(d)
<1>1. Kept => ListedIffServed'
  BY DEF ListedIffServed
<1>2. CASE UNCHANGED vars
  BY <1>1, <1>2 DEF vars, Served
<1>3. CASE CtrlC
  BY <1>1, <1>3 DEF CtrlC, Served
<1>4. ASSUME NEW c \in Clients, Peer(c) PROVE Kept
  <2>1. CASE Connect(c)
    BY <1>0, <2>1 DEF Connect, Served, Shapes, ClientInv
  <2> QED
    BY <1>4, <2>1 DEF Peer, PeerShuts, PeerResets, Stall, Resume, Served
<1>5. ASSUME NEW c \in Clients, Accept(c) PROVE Kept
  <2>1. pc \in [Clients -> Handler]
    BY <1>0 DEF Shapes
  <2>2. /\ UNCHANGED <<clients, kind>> /\ pc[c] = "backlog"
        /\ \/ pc' = [pc EXCEPT ![c] = "login"]
           \/ pc' = [pc EXCEPT ![c] = "done"]
    BY <1>5 DEF Accept, AcceptClient, AcceptFails, ClientSetupFails
  <2> QED
    BY <2>1, <2>2 DEF Served
<1>6. ASSUME NEW c \in Clients, Login(c) PROVE Kept
  <2>1. pc \in [Clients -> Handler]
    BY <1>0 DEF Shapes
  <2>2. /\ UNCHANGED <<clients, kind>> /\ pc[c] = "login"
        /\ \/ pc' = [pc EXCEPT ![c] = "register"]
           \/ pc' = [pc EXCEPT ![c] = "done"]
    BY <1>6 DEF Login, LoginAccepted, LoginRefused
  <2> QED
    BY <2>1, <2>2 DEF Served
<1>7. ASSUME NEW c \in Clients, Register(c) PROVE ListedIffServed'
  <2>1. Range(clients') = Range(clients) \cup {c}
    BY <1>0, <1>7, ListAppend DEF Register, Shapes
  <2>2. Served(c)'
    BY <1>0, <1>7 DEF Register, Served, Shapes, ClientInv, Unjoined
  <2>3. \A d \in Clients \ {c} : Served(d)' = Served(d)
    BY <1>0, <1>7 DEF Register, Served, Shapes
  <2> QED
    BY <2>1, <2>2, <2>3 DEF ListedIffServed
<1>8. ASSUME NEW c \in Clients, Broadcast(c) PROVE Kept
  <2>1. CASE AcquireRead(c)
    BY <1>0, <2>1 DEF AcquireRead, Served, Shapes
  <2>2. CASE PushNext(c)
    BY <1>0, <2>2 DEF PushNext, Served, Shapes
  <2>3. CASE EndBroadcast(c)
    BY <1>0, <2>3 DEF EndBroadcast, AllReached, AfterBroadcast,
                   SenderAfterBroadcast, Served, Shapes
  <2> QED
    BY <1>8, <2>1, <2>2, <2>3 DEF Broadcast
<1>9. ASSUME NEW c \in Clients, Receive(c) PROVE Kept
  <2>1. CASE ReceiveOther(c)
    BY <1>0, <2>1 DEF ReceiveOther, Served, Shapes
  <2>2. ASSUME NEW p \in Packets, ReceiveMessage(c, p) PROVE Kept
    <3>1. p.message # "absent"
      BY <2>2 DEF ReceiveMessage, PacketAssert
    <3>2. /\ pc[c] = "receive" /\ kind[c] # "left" /\ clients' = clients
          /\ pc' = [pc EXCEPT ![c] = "broadcast"]
          /\ kind' = [kind EXCEPT ![c] = "text"]
      BY <1>0, <2>2, <3>1 DEF ReceiveMessage, ClientInv
    <3> QED
      BY <1>0, <3>2 DEF Served, Shapes
  <2> QED
    BY <1>9, <2>1, <2>2 DEF Receive
<1>10. ASSUME NEW c \in Clients, RemoveClient(c) PROVE ListedIffServed'
  <2>1. Range(clients') = Range(clients) \ {c}
    BY <1>10, OwnRemoval DEF RemoveClient
  <2>2. ~Served(c)'
    BY <1>0, <1>10 DEF RemoveClient, Served, Shapes
  <2>3. \A d \in Clients \ {c} : Served(d)' = Served(d)
    BY <1>0, <1>10 DEF RemoveClient, Served, Shapes
  <2> QED
    BY <2>1, <2>2, <2>3 DEF ListedIffServed
<1>11. ASSUME NEW c \in Clients, Send(c) PROVE Kept
  BY <1>11 DEF Send, TakeMessage, SendDone, SendFails, Nap, Wake, Cancel, Served
<1> QED
  BY <1>1, <1>2, <1>3, <1>4, <1>5, <1>6, <1>7, <1>8, <1>9, <1>10, <1>11 DEF Next

(***************************************************************************)
(* handle_client: with an address of its own, a connection is in the list  *)
(* of clients exactly while its handler serves it.                         *)
(***************************************************************************)
THEOREM ListedExactlyWhileServed ==
  ASSUME OwnAddresses
  PROVE  Spec => []ListedIffServed
<1>1. Init => ListedIffServed
  BY DEF Init, ListedIffServed, Served, Range
<1>2. ServerInv /\ ListedIffServed /\ [Next]_vars => ListedIffServed'
  BY StepListed
<1> QED
  BY <1>1, <1>2, ServerInvariant, PTL DEF Spec

(***************************************************************************)
(* Of that, what a user would miss (the run "reuse" shows what happens to  *)
(* connections that share an address).                                     *)
(***************************************************************************)
THEOREM ConnectedIsListedIfOwn ==
  ASSUME OwnAddresses
  PROVE  Spec => []ConnectedIsListed
<1>1. ListedIffServed => ConnectedIsListed
  BY DEF ListedIffServed, ConnectedIsListed
<1> QED
  BY <1>1, ListedExactlyWhileServed, PTL

-----------------------------------------------------------------------------
(***************************************************************************)
(* Why "joined" comes first and "left" last.  A handler that has yet to    *)
(* finish its "joined" broadcast has nothing in the history, and one whose *)
(* "left" is there has returned.                                           *)
(***************************************************************************)
Unheard(c) == \/ pc[c] \in Unjoined
              \/ kind[c] = "joined" /\ pc[c] \in {"broadcast", "push"}

HistoryInv ==
  \A i \in DOMAIN messages :
    /\ ~Unheard(messages[i].who)
    /\ messages[i].kind = "left" => pc[messages[i].who] = "done"

(***************************************************************************)
(* No handler becomes unheard again, and none goes on once it is done.     *)
(***************************************************************************)
LEMMA StepHeard ==
  ASSUME ServerInv, [Next]_vars, NEW d \in Clients
  PROVE  /\ Unheard(d)' => Unheard(d)
         /\ pc[d] = "done" => pc'[d] = "done"
<1>0. Shapes /\ \A c \in Clients : ClientInv(c)
  BY DEF ServerInv
<1> USE DEF Unheard, Unjoined
<1>1. CASE UNCHANGED vars
  BY <1>1 DEF vars
<1>2. CASE CtrlC
  BY <1>2 DEF CtrlC
<1>3. ASSUME NEW c \in Clients, Peer(c)
      PROVE  (Unheard(d)' => Unheard(d)) /\ (pc[d] = "done" => pc'[d] = "done")
  <2>1. CASE Connect(c)
    BY <1>0, <2>1 DEF Connect, Shapes, ClientInv
  <2> QED
    BY <1>3, <2>1 DEF Peer, PeerShuts, PeerResets, Stall, Resume
<1>4. ASSUME NEW c \in Clients, Accept(c) \/ Login(c) \/ Register(c)
      PROVE  (Unheard(d)' => Unheard(d)) /\ (pc[d] = "done" => pc'[d] = "done")
  <2>1. pc \in [Clients -> Handler] /\ (pc[c] = "register" => kind[c] = "joined")
    BY <1>0 DEF Shapes, ClientInv
  <2>2. /\ UNCHANGED kind
        /\ \/ pc[c] = "backlog" /\ pc' = [pc EXCEPT ![c] = "login"]
           \/ pc[c] = "login" /\ pc' = [pc EXCEPT ![c] = "register"]
           \/ pc[c] \in {"backlog", "login"} /\ pc' = [pc EXCEPT ![c] = "done"]
           \/ pc[c] = "register" /\ pc' = [pc EXCEPT ![c] = "broadcast"]
    BY <1>4 DEF Accept, AcceptClient, AcceptFails, ClientSetupFails, Login,
       LoginRefused, LoginAccepted, Register
  <2> QED
    BY <2>1, <2>2
<1>5. ASSUME NEW c \in Clients, Broadcast(c)
      PROVE  (Unheard(d)' => Unheard(d)) /\ (pc[d] = "done" => pc'[d] = "done")
  <2>1. pc \in [Clients -> Handler]
    BY <1>0 DEF Shapes
  <2>2. /\ UNCHANGED kind
        /\ \/ pc[c] = "broadcast" /\ pc' = [pc EXCEPT ![c] = "push"]
           \/ UNCHANGED pc
           \/ pc[c] = "push" /\ pc' = [pc EXCEPT ![c] = AfterBroadcast(c)]
    BY <1>5 DEF Broadcast, AcquireRead, PushNext, EndBroadcast
  <2>3. AfterBroadcast(c) \in {"done", "receive"}
    BY DEF AfterBroadcast
  <2> QED
    BY <2>1, <2>2, <2>3
<1>6. ASSUME NEW c \in Clients, Receive(c) \/ RemoveClient(c)
      PROVE  (Unheard(d)' => Unheard(d)) /\ (pc[d] = "done" => pc'[d] = "done")
  <2>1. CASE ReceiveOther(c)
    BY <1>0, <2>1 DEF ReceiveOther, Shapes
  <2>2. ASSUME NEW p \in Packets, ReceiveMessage(c, p)
        PROVE  (Unheard(d)' => Unheard(d)) /\ (pc[d] = "done" => pc'[d] = "done")
    BY <1>0, <2>2 DEF ReceiveMessage, Shapes
  <2>3. CASE RemoveClient(c)
    BY <1>0, <2>3 DEF RemoveClient, Shapes
  <2> QED
    BY <1>6, <2>1, <2>2, <2>3 DEF Receive
<1>7. ASSUME NEW c \in Clients, Send(c)
      PROVE  (Unheard(d)' => Unheard(d)) /\ (pc[d] = "done" => pc'[d] = "done")
  BY <1>7 DEF Send, TakeMessage, SendDone, SendFails, Nap, Wake, Cancel
<1> QED
  BY <1>1, <1>2, <1>3, <1>4, <1>5, <1>6, <1>7 DEF Next

(***************************************************************************)
(* The history changes only where a broadcast ends.                        *)
(***************************************************************************)
LEMMA StepHistory ==
  ASSUME [Next]_vars
  PROVE  \/ messages' = messages
         \/ \E c \in Clients : EndBroadcast(c)
<1>1. CASE UNCHANGED vars \/ CtrlC
  BY <1>1 DEF vars, CtrlC
<1>2. CASE \E c \in Clients : Peer(c) \/ Accept(c)
  BY <1>2 DEF Peer, Connect, PeerShuts, PeerResets, Stall, Resume, Accept,
       AcceptClient, AcceptFails, ClientSetupFails
<1>3. CASE \E c \in Clients : Login(c) \/ Register(c) \/ Broadcast(c)
  BY <1>3 DEF Login, LoginRefused, LoginAccepted, Register, Broadcast, AcquireRead,
       PushNext
<1>4. CASE \E c \in Clients : Receive(c) \/ RemoveClient(c) \/ Send(c)
  BY <1>4 DEF Receive, ReceiveOther, ReceiveMessage, RemoveClient, Send, TakeMessage,
       SendDone, SendFails, Nap, Wake, Cancel
<1> QED
  BY <1>1, <1>2, <1>3, <1>4 DEF Next

LEMMA StepOrder ==
  ServerInv /\ HistoryInv /\ JoinedFirstLeftLast /\ [Next]_vars
    => HistoryInv' /\ JoinedFirstLeftLast'
<1> SUFFICES ASSUME ServerInv, HistoryInv, JoinedFirstLeftLast, [Next]_vars
             PROVE  HistoryInv' /\ JoinedFirstLeftLast'
  OBVIOUS
<1>0. Shapes /\ \A c \in Clients : ClientInv(c)
  BY DEF ServerInv
<1>1. messages \in Seq(Message) /\ Len(messages) \in Nat
      /\ DOMAIN messages = 1 .. Len(messages)
  BY <1>0, LenProperties DEF Shapes
<1>2. \A i \in DOMAIN messages : messages[i].who \in Clients
  <2>1. \A i \in DOMAIN messages : messages[i] \in Message
    BY <1>1, ElementOfSeq
  <2> QED
    BY <2>1 DEF Message
<1>3. CASE messages' = messages
  BY <1>2, <1>3, StepHeard DEF HistoryInv, JoinedFirstLeftLast
<1>4. ASSUME NEW c \in Clients, EndBroadcast(c)
      PROVE  HistoryInv' /\ JoinedFirstLeftLast'
  <2>1. /\ DOMAIN messages' = 1 .. Len(messages) + 1
        /\ \A i \in DOMAIN messages : messages'[i] = messages[i]
        /\ messages'[Len(messages) + 1] = Msg(c)
    BY <1>0, <1>1, <1>4, MsgType, AppendProperties, LenProperties DEF EndBroadcast
  <2>2. Msg(c).who = c /\ Msg(c).kind = kind[c]
    BY DEF Msg
  <2>3. /\ pc[c] = "push"
        /\ pc'[c] = IF kind[c] = "left" THEN "done" ELSE "receive"
    BY <1>0, <1>4 DEF EndBroadcast, AfterBroadcast, Shapes
  <2>4. HistoryInv'
    <3>1. SUFFICES ASSUME NEW i \in DOMAIN messages'
                   PROVE  \E d \in Clients :
                            /\ d = messages'[i].who /\ ~Unheard(d)'
                            /\ messages'[i].kind = "left" => pc'[d] = "done"
      BY DEF HistoryInv, Unheard
    <3>2. CASE i \in DOMAIN messages
      BY <1>2, <2>1, <3>2, StepHeard DEF HistoryInv
    <3>3. CASE i = Len(messages) + 1
      BY <2>1, <2>2, <2>3, <3>3 DEF Unheard, Unjoined
    <3> QED
      BY <1>1, <2>1, <3>1, <3>2, <3>3
  <2>5. ASSUME NEW i \in DOMAIN messages, messages[i].who = c
        PROVE  messages[i].kind # "left" /\ kind[c] # "joined"
    BY <2>3, <2>5 DEF HistoryInv, Unheard
  <2>6. JoinedFirstLeftLast'
    <3>1. SUFFICES ASSUME NEW i \in DOMAIN messages', NEW j \in DOMAIN messages',
                          i < j, messages'[i].who = messages'[j].who
                   PROVE  messages'[i].kind # "left" /\ messages'[j].kind # "joined"
      BY DEF JoinedFirstLeftLast
    <3>2. i \in DOMAIN messages
      BY <1>1, <2>1, <3>1
    <3>3. CASE j \in DOMAIN messages
      BY <2>1, <3>1, <3>2, <3>3 DEF JoinedFirstLeftLast
    <3>4. CASE j = Len(messages) + 1
      BY <2>1, <2>2, <2>5, <3>1, <3>2, <3>4
    <3> QED
      BY <1>1, <2>1, <3>3, <3>4
  <2> QED
    BY <2>4, <2>6
<1> QED
  BY <1>3, <1>4, StepHistory

(***************************************************************************)
(* run and handle_client: in the history "joined" comes first and nothing  *)
(* follows "left" among the messages of one connection.                    *)
(***************************************************************************)
THEOREM JoinedThenLeft == Spec => []JoinedFirstLeftLast
<1>1. Init => HistoryInv /\ JoinedFirstLeftLast
  BY DEF Init, HistoryInv, JoinedFirstLeftLast
<1>2. ServerInv /\ HistoryInv /\ JoinedFirstLeftLast /\ [Next]_vars
        => HistoryInv' /\ JoinedFirstLeftLast'
  BY StepOrder
<1> QED
  BY <1>1, <1>2, ServerInvariant, PTL DEF Spec

-----------------------------------------------------------------------------
(***************************************************************************)
(* Why nobody waits in a circle.  The lock's queue holds the handlers that *)
(* wait for it, each once, and no others.                                  *)
(***************************************************************************)
LockInv ==
  /\ NoTwice(waiting)
  /\ \A c \in Clients : AtLock(c) <=> c \in Range(waiting)

LEMMA ListTail ==
  ASSUME NEW s \in Seq(Clients), s # << >>, NoTwice(s)
  PROVE  /\ Tail(s) \in Seq(Clients) /\ NoTwice(Tail(s))
         /\ Head(s) \in Range(s)
         /\ Range(Tail(s)) = Range(s) \ {Head(s)}
<1> DEFINE t == Tail(s)
           h == Head(s)
<1>1. /\ Len(s) \in Nat /\ Len(s) >= 1 /\ DOMAIN s = 1 .. Len(s)
      /\ h = s[1]
  BY LenProperties, EmptySeq
<1>2. /\ t \in Seq(Clients) /\ Len(t) = Len(s) - 1
      /\ \A i \in 1 .. Len(t) : t[i] = s[i + 1]
  BY HeadTailProperties
<1>3. DOMAIN t = 1 .. Len(s) - 1
  BY <1>2, LenProperties
<1> HIDE DEF t, h
<1>4. \A i \in DOMAIN t : i + 1 \in DOMAIN s /\ i + 1 # 1 /\ t[i] = s[i + 1]
  BY <1>1, <1>2, <1>3
<1>5. NoTwice(t)
  <2> SUFFICES ASSUME NEW i \in DOMAIN t, NEW j \in DOMAIN t, t[i] = t[j]
               PROVE  i = j
    BY DEF NoTwice
  <2>1. i + 1 = j + 1
    BY <1>4 DEF NoTwice
  <2> QED
    BY <1>3, <2>1
<1>6. 1 \in DOMAIN s
  BY <1>1
<1>7. h \in Range(s)
  BY <1>1, <1>6 DEF Range
<1>8. ASSUME NEW x \in Range(t) PROVE x \in Range(s) \ {h}
  <2>1. PICK i \in DOMAIN t : x = t[i]
    BY DEF Range
  <2>2. x = s[i + 1] /\ i + 1 \in DOMAIN s /\ i + 1 # 1
    BY <1>4, <2>1
  <2> QED
    BY <1>1, <1>6, <2>2 DEF Range, NoTwice
<1>9. ASSUME NEW x \in Range(s) \ {h} PROVE x \in Range(t)
  <2>1. PICK i \in DOMAIN s : x = s[i]
    BY DEF Range
  <2>2. i - 1 \in DOMAIN t /\ (i - 1) + 1 = i
    BY <1>1, <1>3, <2>1
  <2> QED
    BY <1>4, <2>1, <2>2 DEF Range
<1> QED
  BY <1>2, <1>5, <1>7, <1>8, <1>9 DEF t, h

(***************************************************************************)
(* What a step does to the lock's queue and to who waits: nothing, or a    *)
(* handler asks for the lock, or the first gets it, and may ask again.     *)
(***************************************************************************)
NoneAsks == waiting' = waiting /\ \A d \in Clients : AtLock(d)' <=> AtLock(d)

Asks(c) ==
  /\ ~AtLock(c)
  /\ waiting' = Append(waiting, c)
  /\ \A d \in Clients : AtLock(d)' <=> (AtLock(d) \/ d = c)

GetsIt(c) ==
  /\ waiting # << >> /\ Head(waiting) = c
  /\ waiting' = Tail(waiting)
  /\ \A d \in Clients : AtLock(d)' <=> (AtLock(d) /\ d # c)

AsksAgain(c) ==
  /\ waiting # << >> /\ Head(waiting) = c
  /\ waiting' = Append(Tail(waiting), c)
  /\ \A d \in Clients : AtLock(d)' <=> AtLock(d)

LEMMA StepQueue ==
  ASSUME ServerInv, [Next]_vars
  PROVE  NoneAsks \/ \E c \in Clients : Asks(c) \/ GetsIt(c) \/ AsksAgain(c)
<1>0. pc \in [Clients -> Handler] /\ \A c \in Clients : net[c] = "idle" => pc[c] = "idle"
  BY DEF ServerInv, Shapes, ClientInv
<1>1. CASE UNCHANGED vars \/ CtrlC
  BY <1>1 DEF vars, CtrlC, AtLock, NoneAsks
<1>2. ASSUME NEW c \in Clients, Peer(c) PROVE NoneAsks
  <2>1. CASE Connect(c)
    <3>1. pc[c] = "idle" /\ pc' = [pc EXCEPT ![c] = "backlog"] /\ waiting' = waiting
      BY <1>0, <2>1 DEF Connect
    <3> QED
      BY <1>0, <3>1 DEF AtLock, NoneAsks
  <2>2. CASE PeerShuts(c) \/ PeerResets(c) \/ Stall(c) \/ Resume(c)
    BY <2>2 DEF PeerShuts, PeerResets, Stall, Resume, AtLock, NoneAsks
  <2> QED
    BY <1>2, <2>1, <2>2 DEF Peer
<1>3. ASSUME NEW c \in Clients, Accept(c) \/ LoginRefused(c) PROVE NoneAsks
  <2>1. /\ waiting' = waiting /\ pc[c] \in {"backlog", "login"}
        /\ \/ pc' = [pc EXCEPT ![c] = "done"]
           \/ pc' = [pc EXCEPT ![c] = "login"]
    BY <1>3 DEF Accept, AcceptClient, AcceptFails, ClientSetupFails, LoginRefused
  <2> QED
    BY <1>0, <2>1 DEF AtLock, NoneAsks
<1>4. ASSUME NEW c \in Clients, NEW p \in Packets, LoginAccepted(c, p) PROVE Asks(c)
  <2>1. /\ waiting' = Append(waiting, c) /\ pc[c] = "login"
        /\ pc' = [pc EXCEPT ![c] = "register"]
    BY <1>4 DEF LoginAccepted
  <2> QED
    BY <1>0, <2>1 DEF AtLock, Asks
<1>5. ASSUME NEW c \in Clients, Register(c) \/ RemoveClient(c) PROVE AsksAgain(c)
  <2>1. /\ waiting # << >> /\ Head(waiting) = c
        /\ waiting' = Append(Tail(waiting), c) /\ pc[c] \in {"register", "remove"}
        /\ pc' = [pc EXCEPT ![c] = "broadcast"]
    BY <1>5 DEF Register, RemoveClient, Requeued, WriteGranted, ReadGranted
  <2> QED
    BY <1>0, <2>1 DEF AtLock, AsksAgain
<1>6. ASSUME NEW c \in Clients, AcquireRead(c) PROVE GetsIt(c)
  <2>1. /\ waiting # << >> /\ Head(waiting) = c
        /\ waiting' = Tail(waiting) /\ pc[c] = "broadcast"
        /\ pc' = [pc EXCEPT ![c] = "push"]
    BY <1>6 DEF AcquireRead, ReadGranted
  <2> QED
    BY <1>0, <2>1 DEF AtLock, GetsIt
<1>7. ASSUME NEW c \in Clients, PushNext(c) \/ EndBroadcast(c) PROVE NoneAsks
  <2>1. CASE PushNext(c)
    BY <2>1 DEF PushNext, AtLock, NoneAsks
  <2>2. CASE EndBroadcast(c)
    <3>1. /\ waiting' = waiting /\ pc[c] = "push"
          /\ pc' = [pc EXCEPT ![c] = AfterBroadcast(c)]
          /\ AfterBroadcast(c) \in {"done", "receive"}
      BY <2>2 DEF EndBroadcast, AfterBroadcast
    <3> QED
      BY <1>0, <3>1 DEF AtLock, NoneAsks
  <2> QED
    BY <1>7, <2>1, <2>2
<1>8. ASSUME NEW c \in Clients, NEW p \in Packets, ReceiveMessage(c, p)
      PROVE  Asks(c) \/ NoneAsks
  <2>1. /\ pc[c] = "receive"
        /\ \/ pc' = [pc EXCEPT ![c] = "done"] /\ waiting' = waiting
           \/ pc' = [pc EXCEPT ![c] = "broadcast"] /\ waiting' = Append(waiting, c)
    BY <1>8 DEF ReceiveMessage
  <2> QED
    BY <1>0, <2>1 DEF AtLock, Asks, NoneAsks
<1>9. ASSUME NEW c \in Clients, ReceiveOther(c) PROVE Asks(c)
  <2>1. /\ waiting' = Append(waiting, c) /\ pc[c] = "receive"
        /\ pc' = [pc EXCEPT ![c] = "remove"]
    BY <1>9 DEF ReceiveOther
  <2> QED
    BY <1>0, <2>1 DEF AtLock, Asks
<1>10. ASSUME NEW c \in Clients, Send(c) PROVE NoneAsks
  BY <1>10 DEF Send, TakeMessage, SendDone, SendFails, Nap, Wake, Cancel, AtLock, NoneAsks
<1> QED
  BY <1>1, <1>2, <1>3, <1>4, <1>5, <1>6, <1>7, <1>8, <1>9, <1>10
     DEF Next, Login, Broadcast, Receive

LEMMA StepLock == ServerInv /\ LockInv /\ [Next]_vars => LockInv'
<1> SUFFICES ASSUME ServerInv, LockInv, [Next]_vars PROVE LockInv'
  OBVIOUS
<1>0. waiting \in Seq(Clients)
  BY DEF ServerInv, Shapes
<1>1. CASE NoneAsks
  BY <1>1 DEF NoneAsks, LockInv, NoTwice
<1>2. ASSUME NEW c \in Clients, Asks(c) PROVE LockInv'
  <2>1. c \notin Range(waiting) /\ NoTwice(waiting)
    BY <1>2 DEF Asks, LockInv
  <2>2. /\ Range(Append(waiting, c)) = Range(waiting) \cup {c}
        /\ NoTwice(Append(waiting, c))
    BY <1>0, <2>1, ListAppend
  <2>3. Range(waiting') = Range(waiting) \cup {c} /\ NoTwice(waiting')
    BY <1>2, <2>2 DEF Asks
  <2>4. \A d \in Clients : AtLock(d)' <=> d \in Range(waiting')
    BY <1>2, <2>3 DEF Asks, LockInv
  <2> QED
    BY <2>3, <2>4 DEF LockInv, NoTwice
<1>3. ASSUME NEW c \in Clients, GetsIt(c) PROVE LockInv'
  <2>1. /\ NoTwice(Tail(waiting))
        /\ Range(Tail(waiting)) = Range(waiting) \ {Head(waiting)}
    BY <1>0, <1>3, ListTail DEF GetsIt, LockInv
  <2>2. Range(waiting') = Range(waiting) \ {c} /\ NoTwice(waiting')
    BY <1>3, <2>1 DEF GetsIt
  <2>3. \A d \in Clients : AtLock(d)' <=> d \in Range(waiting')
    BY <1>3, <2>2 DEF GetsIt, LockInv
  <2> QED
    BY <2>2, <2>3 DEF LockInv, NoTwice
<1>4. ASSUME NEW c \in Clients, AsksAgain(c) PROVE LockInv'
  <2> DEFINE t == Tail(waiting)
  <2>1. /\ t \in Seq(Clients) /\ NoTwice(t) /\ c \in Range(waiting)
        /\ Range(t) = Range(waiting) \ {c}
    BY <1>0, <1>4, ListTail DEF AsksAgain, LockInv
  <2>2. waiting' = Append(t, c)
    BY <1>4 DEF AsksAgain
  <2> HIDE DEF t
  <2>3. Range(Append(t, c)) = Range(t) \cup {c} /\ NoTwice(Append(t, c))
    BY <2>1, ListAppend
  <2>4. Range(waiting') = Range(waiting) /\ NoTwice(waiting')
    BY <2>1, <2>2, <2>3
  <2>5. \A d \in Clients : AtLock(d)' <=> d \in Range(waiting')
    BY <1>4, <2>4 DEF AsksAgain, LockInv
  <2> QED
    BY <2>4, <2>5 DEF LockInv, NoTwice
<1> QED
  BY <1>1, <1>2, <1>3, <1>4, StepQueue

(***************************************************************************)
(* The lock of a queue is held by its send task while that task writes or  *)
(* sleeps, and at no other time: whichever way a turn or the task ends,    *)
(* the lock is free.                                                       *)
(***************************************************************************)
HeldByTask == \A c \in Clients : c \in locked <=> sender[c] \in {"sending", "sleeping"}

LEMMA StepHeldByTask == ServerInv /\ HeldByTask /\ [Next]_vars => HeldByTask'
<1> SUFFICES ASSUME ServerInv, HeldByTask, [Next]_vars PROVE HeldByTask'
  OBVIOUS
<1>0. /\ sender \in [Clients -> Sender] /\ locked \subseteq Clients
      /\ \A c \in Clients : ClientInv(c)
  BY DEF ServerInv, Shapes
<1>1. ASSUME UNCHANGED <<sender, locked>> PROVE HeldByTask'
  BY <1>1 DEF HeldByTask
<1>2. CASE UNCHANGED vars \/ CtrlC
  BY <1>1, <1>2 DEF vars, CtrlC
<1>3. ASSUME NEW c \in Clients, Peer(c) \/ Accept(c) \/ Login(c) \/ Register(c)
                                \/ Receive(c) \/ RemoveClient(c)
      PROVE  UNCHANGED <<sender, locked>>
  BY <1>3 DEF Peer, Connect, PeerShuts, PeerResets, Stall, Resume, Accept,
       AcceptClient, AcceptFails, ClientSetupFails, Login, LoginRefused,
       LoginAccepted, Register, Receive, ReceiveOther, ReceiveMessage,
       RemoveClient
<1>4. ASSUME NEW c \in Clients, AcquireRead(c) \/ PushNext(c)
      PROVE  UNCHANGED <<sender, locked>>
  BY <1>4 DEF AcquireRead, PushNext
<1>5. ASSUME NEW c \in Clients, EndBroadcast(c) PROVE HeldByTask'
  <2>1. /\ sender' = [sender EXCEPT ![c] = SenderAfterBroadcast(c)]
        /\ locked' = locked /\ pc[c] = "push"
    BY <1>5 DEF EndBroadcast
  <2>2. CASE kind[c] = "joined"
    <3>1. sender[c] = "off" /\ SenderAfterBroadcast(c) = "ready"
      BY <1>0, <2>1, <2>2 DEF ClientInv, SenderAfterBroadcast
    <3> QED
      BY <1>0, <2>1, <3>1 DEF HeldByTask
  <2>3. CASE kind[c] # "joined"
    BY <1>0, <2>1, <2>3 DEF HeldByTask, SenderAfterBroadcast
  <2> QED
    BY <2>2, <2>3
<1>6. ASSUME NEW c \in Clients, TakeMessage(c) \/ Nap(c) PROVE HeldByTask'
  <2>1. /\ locked' = locked \cup {c}
        /\ \/ sender' = [sender EXCEPT ![c] = "sending"]
           \/ sender' = [sender EXCEPT ![c] = "sleeping"]
    BY <1>6 DEF TakeMessage, Nap
  <2> QED
    BY <1>0, <2>1 DEF HeldByTask
<1>7. ASSUME NEW c \in Clients, SendDone(c) \/ SendFails(c) \/ Wake(c) \/ Cancel(c)
      PROVE  HeldByTask'
  <2>1. /\ locked' = locked \ {c}
        /\ \/ sender' = [sender EXCEPT ![c] = "ready"]
           \/ sender' = [sender EXCEPT ![c] = "ended"]
    BY <1>7 DEF SendDone, SendFails, Wake, Cancel, LockedAfterTurn
  <2> QED
    BY <1>0, <2>1 DEF HeldByTask
<1> QED
  BY <1>1, <1>2, <1>3, <1>4, <1>5, <1>6, <1>7 DEF Next, Broadcast, Send

(***************************************************************************)
(* The first in the queue waits for no one but the broadcasts, and a send  *)
(* task that holds a queue's lock is at work, with a connection.           *)
(***************************************************************************)
LEMMA LockHasAWay == ServerInv /\ LockInv /\ HeldByTask => WaitsEndAtAPeer
<1> SUFFICES ASSUME ServerInv, LockInv, HeldByTask, NEW c \in Clients
             PROVE  /\ AtLock(c) =>
                         /\ c \in Range(waiting)
                         /\ \E h \in Clients : Pushing(h) \/ (AtLock(h) /\ Granted(h))
                    /\ Pushing(c) /\ ~AllReached(c) =>
                         LET d == clients[at[c]]
                         IN  QueueFree(d) \/ LetsGo(d) \/ Blocking(d)
  BY DEF WaitsEndAtAPeer
<1>0. Shapes /\ \A d \in Clients : ClientInv(d)
  BY DEF ServerInv
<1>1. ASSUME AtLock(c)
      PROVE  /\ c \in Range(waiting)
             /\ \E h \in Clients : Pushing(h) \/ (AtLock(h) /\ Granted(h))
  <2>1. c \in Range(waiting)
    BY <1>1 DEF LockInv
  <2>2. waiting # << >>
    <3>1. Range(<< >>) = {}
      BY DEF Range
    <3> QED
      BY <2>1, <3>1
  <2>3. Head(waiting) \in Range(waiting) /\ Head(waiting) \in Clients
    <3>1. waiting \in Seq(Clients) /\ NoTwice(waiting)
      BY <1>0 DEF Shapes, LockInv
    <3> QED
      BY <2>2, <3>1, ListTail, HeadTailProperties
  <2>4. AtLock(Head(waiting))
    BY <2>3 DEF LockInv
  <2>5. CASE Readers = {}
    <3>1. Granted(Head(waiting))
      BY <2>2, <2>5 DEF Granted, WriteGranted, ReadGranted
    <3> QED
      BY <2>1, <2>3, <2>4, <3>1
  <2>6. CASE Readers # {}
    <3>1. \E h \in Clients : Pushing(h)
      BY <2>6 DEF Readers, Pushing
    <3> QED
      BY <2>1, <3>1
  <2> QED
    BY <2>5, <2>6
<1>2. ASSUME Pushing(c), ~AllReached(c), NEW d, d = clients[at[c]]
      PROVE  QueueFree(d) \/ LetsGo(d) \/ Blocking(d)
  <2>1. d \in Clients
    <3>1. at[c] \in Nat \ {0} /\ clients \in Seq(Clients) /\ Len(clients) \in Nat
      BY <1>0, LenProperties DEF Shapes
    <3>2. at[c] \in 1 .. Len(clients)
      BY <1>2, <3>1 DEF AllReached
    <3> QED
      BY <1>2, <3>1, <3>2, ElementOfSeq
  <2>2. net[d] \in Net
    BY <1>0, <2>1 DEF Shapes
  <2>3. net[d] = "idle" => sender[d] = "off"
    BY <1>0, <2>1 DEF ClientInv, Unjoined
  <2>4. d \in locked => sender[d] \in {"sending", "sleeping"}
    BY <2>1 DEF HeldByTask
  <2> QED
    BY <2>2, <2>3, <2>4
       DEF QueueFree, LetsGo, CanWake, CanSend, CanFail, Blocking, Net
<1> QED
  BY <1>1, <1>2

(***************************************************************************)
(* broadcast, the send task and the writers of the list: however many      *)
(* there are, none waits for another that waits for it.  Only a peer that  *)
(* has stopped reading can hold them up.                                   *)
(***************************************************************************)
THEOREM NobodyWaitsInACircle == Spec => []WaitsEndAtAPeer
<1>1. Init => LockInv
  <2>1. Range(<< >>) = {}
    BY DEF Range
  <2> QED
    BY <2>1 DEF Init, LockInv, NoTwice, AtLock
<1>2. ServerInv /\ LockInv /\ [Next]_vars => LockInv'
  BY StepLock
<1>3. Init => HeldByTask
  BY DEF Init, HeldByTask
<1>4. ServerInv /\ HeldByTask /\ [Next]_vars => HeldByTask'
  BY StepHeldByTask
<1>5. ServerInv /\ LockInv /\ HeldByTask => WaitsEndAtAPeer
  BY LockHasAWay
<1> QED
  BY <1>1, <1>2, <1>3, <1>4, <1>5, ServerInvariant, PTL DEF Spec

-----------------------------------------------------------------------------
(***************************************************************************)
(* The Rust server implements the chat room, for any connections, peers    *)
(* and numbers of texts, and so keeps the chat room's promises.            *)
(***************************************************************************)
RoomProofs == INSTANCE ChatRoomProofs WITH
  members <- Range(clients),
  history <- messages,
  view    <- [c \in Clients |-> Stream(c)],
  count   <- [c \in Clients |-> IF Pushing(c) THEN posts[c] + 1 ELSE posts[c]],
  posting <- [c \in Clients |-> IF Pushing(c) THEN <<Msg(c)>> ELSE << >>],
  due     <- [c \in Clients |-> Ahead(c)]

(***************************************************************************)
(* A step that leaves the list, the history, the streams and the           *)
(* broadcasts on their way as they were is a stuttering step of the room.  *)
(***************************************************************************)
LEMMA Stutter ==
  ASSUME clients' = clients, messages' = messages, posts' = posts,
         \A c \in Clients : Stream(c)' = Stream(c),
         \A c \in Clients : Pushing(c)' <=> Pushing(c),
         \A c \in Clients : Pushing(c) => kind'[c] = kind[c] /\ at'[c] = at[c]
  PROVE  UNCHANGED Room!roomVars
<1>1. \A c \in Clients : Ahead(c)' = Ahead(c)
  BY DEF Ahead
<1>2. \A c \in Clients : Pushing(c) => Msg(c)' = Msg(c)
  BY DEF Msg
<1>3. Range(clients)' = Range(clients)
  OBVIOUS
<1>4. [c \in Clients |-> Stream(c)]' = [c \in Clients |-> Stream(c)]
  OBVIOUS
<1>5. [c \in Clients |-> Ahead(c)]' = [c \in Clients |-> Ahead(c)]
  BY <1>1
<1>6. [c \in Clients |-> IF Pushing(c) THEN posts[c] + 1 ELSE posts[c]]'
        = [c \in Clients |-> IF Pushing(c) THEN posts[c] + 1 ELSE posts[c]]
  OBVIOUS
<1>7. [c \in Clients |-> IF Pushing(c) THEN <<Msg(c)>> ELSE << >>]'
        = [c \in Clients |-> IF Pushing(c) THEN <<Msg(c)>> ELSE << >>]
  BY <1>2
<1> QED
  BY <1>3, <1>4, <1>5, <1>6, <1>7 DEF Room!roomVars

LEMMA InitRoom == Init => Room!RoomInit
<1> SUFFICES ASSUME Init PROVE Room!RoomInit
  OBVIOUS
<1>1. Range(<< >>) = {} /\ << >> \o << >> \o << >> = << >>
  BY DEF Range
<1>2. \A c \in Clients : Stream(c) = << >> /\ ~Pushing(c) /\ Ahead(c) = {}
  BY <1>1 DEF Init, Stream, Pushing, Ahead
<1> QED
  BY <1>1, <1>2 DEF Init, Room!RoomInit

-----------------------------------------------------------------------------
(***************************************************************************)
(* Streams: sending moves a message along them, pushing appends to them.   *)
(***************************************************************************)
LEMMA HeadThenTail ==
  ASSUME NEW q \in Seq(Message), q # << >>
  PROVE  q = <<Head(q)>> \o Tail(q)
<1> DEFINE h == <<Head(q)>>
           r == Tail(q)
<1>1. /\ Len(q) \in Nat \ {0}
      /\ r \in Seq(Message) /\ Len(r) = Len(q) - 1
      /\ \A i \in 1 .. Len(q) - 1 : r[i] = q[i + 1]
  BY HeadTailProperties, LenProperties, EmptySeq
<1>2. h \in Seq(Message) /\ Len(h) = 1 /\ h[1] = q[1]
  BY HeadTailProperties
<1> HIDE DEF h, r
<1>3. /\ h \o r \in Seq(Message) /\ Len(h \o r) = 1 + (Len(q) - 1)
      /\ \A i \in 1 .. 1 + (Len(q) - 1) :
           (h \o r)[i] = IF i <= 1 THEN h[i] ELSE r[i - 1]
  <2>1. /\ h \o r \in Seq(Message)
        /\ Len(h \o r) = Len(h) + Len(r)
        /\ \A i \in 1 .. Len(h) + Len(r) :
             (h \o r)[i] = IF i <= Len(h) THEN h[i] ELSE r[i - Len(h)]
    BY <1>1, <1>2, ConcatProperties, Zenon
  <2> QED
    BY <1>1, <1>2, <2>1, Zenon
<1>4. 1 + (Len(q) - 1) = Len(q)
  BY <1>1
<1>5. ASSUME NEW i \in 1 .. Len(q)
      PROVE  (h \o r)[i] = q[i]
  <2>1. CASE i <= 1
    BY <1>2, <1>3, <1>4, <2>1
  <2>2. CASE i > 1
    <3>1. i - 1 \in 1 .. Len(q) - 1 /\ (i - 1) + 1 = i /\ ~(i <= 1)
      BY <1>1, <2>2
    <3> QED
      BY <1>1, <1>3, <1>4, <3>1
  <2>3. i <= 1 \/ i > 1
    BY <1>1
  <2> QED
    BY <2>1, <2>2, <2>3
<1>6. h \o r = q
  BY <1>3, <1>4, <1>5, SeqEqual
<1> QED
  BY <1>6 DEF h, r

LEMMA StreamTaken ==
  ASSUME NEW s \in Seq(Message), NEW q \in Seq(Message), q # << >>
  PROVE  (s \o <<Head(q)>>) \o Tail(q) = (s \o << >>) \o q
<1>1. <<Head(q)>> \in Seq(Message) /\ Tail(q) \in Seq(Message)
  BY HeadTailProperties
<1>2. (s \o <<Head(q)>>) \o Tail(q) = s \o (<<Head(q)>> \o Tail(q))
  BY <1>1, ConcatAssociative
<1> QED
  BY <1>2, HeadThenTail, ConcatEmptySeq

LEMMA StreamSent ==
  ASSUME NEW s \in Seq(Message), NEW o \in Seq(Message), NEW q \in Seq(Message)
  PROVE  ((s \o o) \o << >>) \o q = (s \o o) \o q
BY ConcatProperties, ConcatEmptySeq

LEMMA StreamPushed ==
  ASSUME NEW s \in Seq(Message), NEW q \in Seq(Message), NEW m \in Message
  PROVE  s \o Append(q, m) = Append(s \o q, m)
<1>1. Append(q, m) = q \o <<m>> /\ <<m>> \in Seq(Message) /\ s \o q \in Seq(Message)
  BY AppendIsConcat, ConcatProperties
<1>2. Append(s \o q, m) = (s \o q) \o <<m>>
  BY <1>1, AppendIsConcat
<1> QED
  BY <1>1, <1>2, ConcatAssociative

-----------------------------------------------------------------------------
(***************************************************************************)
(* The steps the room sees.  Registering is entering, for nothing was      *)
(* queued or sent before; the write lock makes the room quiet.             *)
(***************************************************************************)
LEMMA RegisterEnters ==
  ASSUME ServerInv, NEW c \in Clients, Register(c)
  PROVE  Room!Enter(c)
<1>1. /\ Shapes /\ ClientInv(c) /\ pc[c] = "register" /\ Readers = {}
      /\ clients' = Append(clients, c) /\ messages' = messages
      /\ queue' = [queue EXCEPT ![c] = @ \o messages]
      /\ pc' = [pc EXCEPT ![c] = "broadcast"]
      /\ kind' = kind /\ posts' = posts /\ at' = at
      /\ sent' = sent /\ outgoing' = outgoing
  BY DEF ServerInv, Register, WriteGranted
<1>2. \A d \in Clients : ~Pushing(d) /\ ~Pushing(d)'
  BY <1>1 DEF Readers, Pushing, Shapes
<1>3. \A d \in Clients : Ahead(d) = {} /\ Ahead(d)' = {}
  BY <1>2 DEF Ahead
<1>4. c \notin Range(clients) /\ Range(clients') = Range(clients) \cup {c}
  BY <1>1, ListAppend DEF ClientInv, Unjoined, Shapes
<1>5. sent[c] = << >> /\ outgoing[c] = << >> /\ queue[c] = << >>
  BY <1>1 DEF ClientInv, Unjoined
<1>6. Stream(c) = << >> /\ Stream(c)' = messages
  <2>1. messages \in Seq(Message) /\ << >> \in Seq(Message)
    BY <1>1 DEF Shapes
  <2>2. << >> \o messages = messages /\ << >> \o << >> = << >>
    BY <2>1, ConcatEmptySeq
  <2>3. queue'[c] = messages
    BY <1>1, <1>5, <2>2 DEF Shapes
  <2> QED
    BY <1>1, <1>5, <2>2, <2>3 DEF Stream
<1>7. \A d \in Clients \ {c} : Stream(d)' = Stream(d)
  BY <1>1 DEF Stream, Shapes
<1>8. [d \in Clients |-> Stream(d)]'
        = [[d \in Clients |-> Stream(d)] EXCEPT ![c] = messages]
  BY <1>6, <1>7
<1>9. Room!Quiet
  BY <1>2 DEF Room!Quiet
<1> QED
  BY <1>1, <1>2, <1>3, <1>4, <1>6, <1>8, <1>9 DEF Room!Enter

(***************************************************************************)
(* A removal is somebody's leaving, or nothing when no address matches.    *)
(***************************************************************************)
LEMMA RemovalLeaves ==
  ASSUME ServerInv, NEW c \in Clients, RemoveClient(c)
  PROVE  \/ \E d \in Clients : Room!Leave(d)
         \/ UNCHANGED Room!roomVars
<1>1. /\ Shapes /\ NoTwice(clients) /\ pc[c] = "remove" /\ Readers = {}
      /\ clients' = WithoutAddr(clients, AddrOf[c]) /\ messages' = messages
      /\ pc' = [pc EXCEPT ![c] = "broadcast"]
      /\ posts' = posts /\ at' = at /\ queue' = queue
      /\ sent' = sent /\ outgoing' = outgoing
  BY DEF ServerInv, RemoveClient, WriteGranted
<1>2. \A d \in Clients : ~Pushing(d) /\ ~Pushing(d)'
  BY <1>1 DEF Readers, Pushing, Shapes
<1>3. \A d \in Clients : Ahead(d) = {} /\ Ahead(d)' = {}
  BY <1>2 DEF Ahead
<1>4. \A d \in Clients : Stream(d)' = Stream(d)
  BY <1>1 DEF Stream
<1>5. CASE clients' = clients
  <2>1. /\ \A d \in Clients : Pushing(d)' <=> Pushing(d)
        /\ \A d \in Clients : Pushing(d) => kind'[d] = kind[d] /\ at'[d] = at[d]
    BY <1>2
  <2> QED
    BY <1>1, <1>4, <1>5, <2>1, Stutter
<1>6. ASSUME NEW i \in DOMAIN clients, clients' = RemoveAt(clients, i)
      PROVE  \E d \in Clients : Room!Leave(d)
  <2>1. clients \in Seq(Clients) /\ clients[i] \in Clients
    BY <1>1, LenProperties, ElementOfSeq DEF Shapes
  <2>2. Range(clients') = Range(clients) \ {clients[i]}
    BY <1>1, <1>6, <2>1, ListRemove
  <2>3. clients[i] \in Range(clients)
    BY DEF Range
  <2>4. Room!Quiet
    BY <1>2 DEF Room!Quiet
  <2>5. Room!Leave(clients[i])
    BY <1>1, <1>2, <1>3, <1>4, <2>2, <2>3, <2>4 DEF Room!Leave
  <2> QED
    BY <2>1, <2>5
<1>7. \/ clients' = clients
      \/ \E i \in DOMAIN clients : clients' = RemoveAt(clients, i)
  BY <1>1, Removal DEF Shapes
<1> QED
  BY <1>5, <1>6, <1>7

(***************************************************************************)
(* The read lock begins a post: everyone in the list is still to come.     *)
(***************************************************************************)
LEMMA AcquireBegins ==
  ASSUME ServerInv, NEW c \in Clients, AcquireRead(c),
         NEW k \in Kinds, k = kind[c]
  PROVE  Room!BeginPost(c, k)
<1>1. /\ Shapes /\ ClientInv(c) /\ pc[c] = "broadcast"
      /\ clients' = clients /\ messages' = messages
      /\ pc' = [pc EXCEPT ![c] = "push"]
      /\ kind' = kind /\ posts' = posts /\ at' = at /\ queue' = queue
      /\ sent' = sent /\ outgoing' = outgoing
  BY DEF ServerInv, AcquireRead
<1>2. ~Pushing(c) /\ Pushing(c)' /\ at[c] = 1
  BY <1>1 DEF Pushing, Shapes, ClientInv
<1>3. \A d \in Clients \ {c} : Pushing(d)' = Pushing(d)
  BY <1>1 DEF Pushing, Shapes
<1>4. Ahead(c)' = Range(clients)
  <2>1. clients \in Seq(Clients) /\ DOMAIN clients = 1 .. Len(clients)
    BY <1>1, LenProperties DEF Shapes
  <2> QED
    BY <1>1, <1>2, <2>1 DEF Ahead, Range
<1>5. \A d \in Clients \ {c} : Ahead(d)' = Ahead(d)
  BY <1>1, <1>3 DEF Ahead
<1>6. \A d \in Clients : Stream(d)' = Stream(d) /\ Msg(d)' = Msg(d)
  BY <1>1 DEF Stream, Msg
<1> DEFINE count   == [d \in Clients |-> IF Pushing(d) THEN posts[d] + 1 ELSE posts[d]]
           posting == [d \in Clients |-> IF Pushing(d) THEN <<Msg(d)>> ELSE << >>]
           due     == [d \in Clients |-> Ahead(d)]
<1>7. count' = [count EXCEPT ![c] = @ + 1]
  BY <1>1, <1>2, <1>3
<1>8. posting' = [posting EXCEPT
                   ![c] = <<[who |-> c, n |-> count[c], kind |-> k]>>]
  <2>1. Msg(c) = [who |-> c, n |-> count[c], kind |-> k]
    BY <1>2 DEF Msg
  <2> HIDE DEF count
  <2> QED
    BY <1>2, <1>3, <1>6, <2>1
<1>9. due' = [due EXCEPT ![c] = Range(clients)]
  BY <1>4, <1>5
<1>10. posting[c] = << >>
  BY <1>2
<1>11. Range(clients)' = Range(clients)
       /\ [d \in Clients |-> Stream(d)]' = [d \in Clients |-> Stream(d)]
  BY <1>1, <1>6
<1> QED
  BY <1>1, <1>7, <1>8, <1>9, <1>10, <1>11 DEF Room!BeginPost

(***************************************************************************)
(* A push delivers to the client it has come to: once, for no entry is     *)
(* twice in the list.                                                      *)
(***************************************************************************)
LEMMA PushDelivers ==
  ASSUME ServerInv, NEW c \in Clients, PushNext(c),
         NEW d \in Clients, d = clients[at[c]]
  PROVE  Room!Deliver(c, d)
<1> DEFINE m == Msg(c)
<1>1. /\ Shapes /\ NoTwice(clients) /\ pc[c] = "push"
      /\ at[c] <= Len(clients)
      /\ clients' = clients /\ messages' = messages
      /\ queue' = [queue EXCEPT ![d] = Append(@, m)]
      /\ at' = [at EXCEPT ![c] = @ + 1]
      /\ pc' = pc /\ kind' = kind /\ posts' = posts
      /\ sent' = sent /\ outgoing' = outgoing
  BY DEF ServerInv, PushNext
<1>2. /\ clients \in Seq(Clients) /\ Len(clients) \in Nat
      /\ DOMAIN clients = 1 .. Len(clients)
      /\ at[c] \in 1 .. Len(clients)
  BY <1>1, LenProperties DEF Shapes
<1>3. d \in Ahead(c)
  <2>1. at[c] \in at[c] .. Len(clients)
    BY <1>2
  <2> QED
    BY <1>1, <2>1 DEF Ahead, Pushing
<1>4. Ahead(c)' = Ahead(c) \ {d}
  <2>1. at'[c] = at[c] + 1 /\ pc[c] = "push" /\ pc'[c] = "push"
    BY <1>1 DEF Shapes
  <2>2. Ahead(c) = {clients[i] : i \in at[c] .. Len(clients)}
    BY <2>1 DEF Ahead, Pushing
  <2>3. Ahead(c)' = {clients[i] : i \in at[c] + 1 .. Len(clients)}
    BY <1>1, <2>1 DEF Ahead, Pushing
  <2>4. at[c] .. Len(clients) = {at[c]} \cup (at[c] + 1 .. Len(clients))
    BY <1>2
  <2>5. \A i \in at[c] + 1 .. Len(clients) : i \in DOMAIN clients /\ i # at[c]
    BY <1>2
  <2>6. \A i \in at[c] + 1 .. Len(clients) : clients[i] # d
    BY <1>1, <1>2, <2>5 DEF NoTwice
  <2> QED
    BY <2>2, <2>3, <2>4, <2>6
<1>5. \A a \in Clients \ {c} : Ahead(a)' = Ahead(a)
  BY <1>1 DEF Ahead, Pushing, Shapes
<1>6. \A a \in Clients : Pushing(a)' = Pushing(a) /\ Msg(a)' = Msg(a)
  BY <1>1 DEF Pushing, Msg
<1>7. m \in Message
  BY <1>1, MsgType
<1> HIDE DEF m
<1>8. Stream(d)' = Append(Stream(d), m)
  <2>1. /\ queue[d] \in Seq(Message) /\ sent[d] \o outgoing[d] \in Seq(Message)
        /\ queue'[d] = Append(queue[d], m)
    BY <1>1, <1>3, ConcatProperties DEF Shapes
  <2>2. Stream(d)' = (sent[d] \o outgoing[d]) \o Append(queue[d], m)
    BY <1>1, <2>1 DEF Stream
  <2>3. (sent[d] \o outgoing[d]) \o Append(queue[d], m)
          = Append((sent[d] \o outgoing[d]) \o queue[d], m)
    BY <1>7, <2>1, StreamPushed
  <2> QED
    BY <2>2, <2>3 DEF Stream
<1>9. \A e \in Clients \ {d} : Stream(e)' = Stream(e)
  BY <1>1, <1>3 DEF Stream, Shapes
<1> DEFINE view    == [a \in Clients |-> Stream(a)]
           count   == [a \in Clients |-> IF Pushing(a) THEN posts[a] + 1 ELSE posts[a]]
           posting == [a \in Clients |-> IF Pushing(a) THEN <<Msg(a)>> ELSE << >>]
           due     == [a \in Clients |-> Ahead(a)]
<1>10. posting[c] = <<m>> /\ posting[c] # << >> /\ Head(posting[c]) = m
  BY <1>1 DEF Pushing, m
<1>11. view' = [view EXCEPT ![d] = Append(@, m)]
  BY <1>3, <1>8, <1>9
<1>12. due' = [due EXCEPT ![c] = @ \ {d}] /\ d \in due[c]
  BY <1>3, <1>4, <1>5
<1>13. count' = count /\ posting' = posting
  BY <1>1, <1>6
<1>14. Range(clients)' = Range(clients) /\ messages' = messages
  BY <1>1
<1> QED
  BY <1>10, <1>11, <1>12, <1>13, <1>14 DEF Room!Deliver

(***************************************************************************)
(* The end of a broadcast is the end of the post.                          *)
(***************************************************************************)
LEMMA EndBroadcastEnds ==
  ASSUME ServerInv, NEW c \in Clients, EndBroadcast(c)
  PROVE  Room!EndPost(c)
<1>1. /\ Shapes /\ pc[c] = "push" /\ at[c] > Len(clients)
      /\ clients' = clients /\ messages' = Append(messages, Msg(c))
      /\ posts' = [posts EXCEPT ![c] = @ + 1]
      /\ pc' = [pc EXCEPT ![c] = IF kind[c] = "left" THEN "done" ELSE "receive"]
      /\ at' = [at EXCEPT ![c] = 1]
      /\ kind' = kind /\ queue' = queue /\ sent' = sent /\ outgoing' = outgoing
  BY DEF ServerInv, EndBroadcast, AllReached, AfterBroadcast
<1>2. Pushing(c) /\ ~Pushing(c)' /\ posts'[c] = posts[c] + 1
  BY <1>1 DEF Pushing, Shapes
<1>3. \A d \in Clients \ {c} : /\ Pushing(d)' = Pushing(d)
                               /\ posts'[d] = posts[d] /\ at'[d] = at[d]
  BY <1>1 DEF Pushing, Shapes
<1>4. Ahead(c) = {} /\ Ahead(c)' = {}
  <2>1. Len(clients) \in Nat /\ at[c] \in Nat
    BY <1>1, LenProperties DEF Shapes
  <2>2. at[c] .. Len(clients) = {}
    BY <1>1, <2>1
  <2> QED
    BY <1>2, <2>2 DEF Ahead
<1>5. \A d \in Clients \ {c} : Ahead(d)' = Ahead(d) /\ Msg(d)' = Msg(d)
  BY <1>1, <1>3 DEF Ahead, Msg
<1>6. \A d \in Clients : Stream(d)' = Stream(d)
  BY <1>1 DEF Stream
<1> DEFINE view    == [a \in Clients |-> Stream(a)]
           count   == [a \in Clients |-> IF Pushing(a) THEN posts[a] + 1 ELSE posts[a]]
           posting == [a \in Clients |-> IF Pushing(a) THEN <<Msg(a)>> ELSE << >>]
           due     == [a \in Clients |-> Ahead(a)]
<1>7. posting[c] = <<Msg(c)>> /\ posting[c] # << >> /\ Head(posting[c]) = Msg(c)
  BY <1>2
<1>8. posting' = [posting EXCEPT ![c] = << >>]
  BY <1>2, <1>3, <1>5
<1>9. count' = count
  BY <1>2, <1>3
<1>10. due' = due /\ due[c] = {} /\ view' = view
  BY <1>4, <1>5, <1>6
<1>11. Range(clients)' = Range(clients)
  BY <1>1
<1> QED
  BY <1>1, <1>7, <1>8, <1>9, <1>10, <1>11 DEF Room!EndPost

-----------------------------------------------------------------------------
(***************************************************************************)
(* No other step changes anything the room sees.                           *)
(***************************************************************************)
Unseen(c) == \/ Peer(c) \/ Accept(c) \/ Login(c) \/ Receive(c) \/ Send(c)

LEMMA SendKeepsStreams ==
  ASSUME ServerInv, NEW c \in Clients, Send(c)
  PROVE  \A d \in Clients : Stream(d)' = Stream(d)
<1>1. Shapes /\ \A d \in Clients : ClientInv(d)
  BY DEF ServerInv
<1>2. CASE TakeMessage(c)
  <2>1. /\ queue[c] # << >> /\ outgoing[c] = << >>
        /\ sent[c] \in Seq(Message) /\ queue[c] \in Seq(Message)
    BY <1>1, <1>2 DEF TakeMessage, ClientInv, Shapes
  <2>2. /\ outgoing'[c] = <<Head(queue[c])>> /\ queue'[c] = Tail(queue[c])
        /\ sent' = sent
    BY <1>1, <1>2 DEF TakeMessage, Shapes
  <2>3. \A d \in Clients \ {c} : outgoing'[d] = outgoing[d] /\ queue'[d] = queue[d]
    BY <1>1, <1>2 DEF TakeMessage, Shapes
  <2>4. Stream(c)' = Stream(c)
    BY <2>1, <2>2, StreamTaken DEF Stream
  <2> QED
    BY <2>2, <2>3, <2>4 DEF Stream
<1>3. CASE SendDone(c)
  <2>1. /\ sent'[c] = sent[c] \o outgoing[c] /\ outgoing'[c] = << >>
        /\ queue' = queue
        /\ sent[c] \in Seq(Message) /\ outgoing[c] \in Seq(Message)
        /\ queue[c] \in Seq(Message)
    BY <1>1, <1>3 DEF SendDone, Shapes
  <2>2. \A d \in Clients \ {c} : sent'[d] = sent[d] /\ outgoing'[d] = outgoing[d]
    BY <1>1, <1>3 DEF SendDone, Shapes
  <2>3. Stream(c)' = Stream(c)
    BY <2>1, StreamSent DEF Stream
  <2> QED
    BY <2>1, <2>2, <2>3 DEF Stream
<1>4. CASE SendFails(c) \/ Nap(c) \/ Wake(c) \/ Cancel(c)
  BY <1>4 DEF SendFails, Nap, Wake, Cancel, Stream
<1> QED
  BY <1>2, <1>3, <1>4 DEF Send

LEMMA UnseenStutters ==
  ASSUME ServerInv, NEW c \in Clients, Unseen(c)
  PROVE  UNCHANGED Room!roomVars
<1>1. Shapes /\ \A d \in Clients : ClientInv(d)
  BY DEF ServerInv
<1>2. clients' = clients /\ messages' = messages /\ posts' = posts /\ at' = at
  BY DEF Unseen, Peer, Connect, PeerShuts, PeerResets, Stall, Resume, Accept,
       AcceptClient, AcceptFails, ClientSetupFails, Login, LoginRefused,
       LoginAccepted, Receive, ReceiveOther, ReceiveMessage, Send, TakeMessage,
       SendDone, SendFails, Nap, Wake, Cancel
<1>3. \A d \in Clients : Stream(d)' = Stream(d)
  <2>1. CASE Send(c)
    BY <2>1, SendKeepsStreams
  <2>2. CASE ~Send(c)
    BY <2>2 DEF Unseen, Peer, Connect, PeerShuts, PeerResets, Stall, Resume,
       Accept, AcceptClient, AcceptFails, ClientSetupFails, Login, LoginRefused,
       LoginAccepted, Receive, ReceiveOther, ReceiveMessage, Stream
  <2> QED
    BY <2>1, <2>2
<1>4. /\ \A d \in Clients : Pushing(d)' <=> Pushing(d)
      /\ \A d \in Clients : Pushing(d) => kind'[d] = kind[d] /\ at'[d] = at[d]
  <2>1. CASE Connect(c)
    BY <1>1, <2>1 DEF Connect, Pushing, Shapes, ClientInv
  <2>2. CASE PeerShuts(c) \/ PeerResets(c) \/ Stall(c) \/ Resume(c) \/ Send(c)
    BY <2>2 DEF PeerShuts, PeerResets, Stall, Resume, Send, TakeMessage,
       SendDone, SendFails, Nap, Wake, Cancel, Pushing
  <2>3. CASE Accept(c)
    BY <1>1, <2>3 DEF Accept, AcceptClient, AcceptFails, ClientSetupFails,
                      Pushing, Shapes
  <2>4. CASE Login(c)
    BY <1>1, <2>4 DEF Login, LoginAccepted, LoginRefused, Pushing, Shapes
  <2>5. CASE ReceiveOther(c)
    BY <1>1, <2>5 DEF ReceiveOther, Pushing, Shapes
  <2>6. ASSUME NEW p \in Packets, ReceiveMessage(c, p)
        PROVE  /\ \A d \in Clients : Pushing(d)' <=> Pushing(d)
               /\ \A d \in Clients : Pushing(d) => kind'[d] = kind[d] /\ at'[d] = at[d]
    BY <1>1, <2>6 DEF ReceiveMessage, Pushing, Shapes
  <2> QED
    BY <2>1, <2>2, <2>3, <2>4, <2>5, <2>6 DEF Unseen, Peer, Receive
<1> QED
  BY <1>2, <1>3, <1>4, Stutter

LEMMA StepSimulates ==
  ServerInv /\ [Next]_vars => [Room!RoomNext]_(Room!roomVars)
<1> SUFFICES ASSUME ServerInv, [Next]_vars
             PROVE  Room!RoomNext \/ UNCHANGED Room!roomVars
  OBVIOUS
<1>1. CASE UNCHANGED vars
  BY <1>1, Stutter DEF vars, Stream, Pushing
<1>2. CASE CtrlC
  BY <1>2, Stutter DEF CtrlC, Stream, Pushing
<1>3. ASSUME NEW c \in Clients, Unseen(c)
      PROVE  UNCHANGED Room!roomVars
  BY <1>3, UnseenStutters
<1>4. ASSUME NEW c \in Clients, Register(c) PROVE Room!RoomNext
  BY <1>4, RegisterEnters DEF Room!RoomNext
<1>5. ASSUME NEW c \in Clients, RemoveClient(c)
      PROVE  Room!RoomNext \/ UNCHANGED Room!roomVars
  BY <1>5, RemovalLeaves DEF Room!RoomNext
<1>6. ASSUME NEW c \in Clients, Broadcast(c) PROVE Room!RoomNext
  <2>1. CASE AcquireRead(c)
    <3>1. PICK k \in Kinds : k = kind[c]
      BY DEF ServerInv, Shapes
    <3>2. Room!BeginPost(c, k)
      BY <2>1, <3>1, AcquireBegins
    <3> QED
      BY <3>2 DEF Room!RoomNext
  <2>2. CASE PushNext(c)
    <3>1. clients[at[c]] \in Clients
      <4>1. clients \in Seq(Clients) /\ at[c] \in 1 .. Len(clients)
        BY <2>2, LenProperties DEF PushNext, ServerInv, Shapes
      <4> QED
        BY <4>1, ElementOfSeq
    <3>2. PICK d \in Clients : d = clients[at[c]]
      BY <3>1
    <3>3. Room!Deliver(c, d)
      BY <2>2, <3>2, PushDelivers
    <3> QED
      BY <3>3 DEF Room!RoomNext
  <2>3. CASE EndBroadcast(c)
    BY <2>3, EndBroadcastEnds DEF Room!RoomNext
  <2> QED
    BY <1>6, <2>1, <2>2, <2>3 DEF Broadcast
<1> QED
  BY <1>1, <1>2, <1>3, <1>4, <1>5, <1>6 DEF Next, Unseen

(***************************************************************************)
(* The tasks, locks and queues of the Rust server do nothing a chat room   *)
(* would not do.                                                           *)
(***************************************************************************)
THEOREM ServerImplementsChatRoom == Spec => ImplementsChatRoom
<1>1. ImplementsChatRoom <=> Room!RoomInit /\ [][Room!RoomNext]_(Room!roomVars)
  BY DEF ImplementsChatRoom, Room!RoomSpec
<1> QED
  BY <1>1, InitRoom, StepSimulates, ServerInvariant, PTL DEF Spec

-----------------------------------------------------------------------------
(***************************************************************************)
(* The two instances of ChatRoom are one: what is proved of the room holds *)
(* of the room this server is.                                             *)
(***************************************************************************)
LEMMA SameInit == Room!RoomInit => RoomProofs!RoomInit
BY DEF Room!RoomInit, RoomProofs!RoomInit

LEMMA SameVars == UNCHANGED Room!roomVars => UNCHANGED RoomProofs!roomVars
BY DEF Room!roomVars, RoomProofs!roomVars

LEMMA SameNext == Room!RoomNext => RoomProofs!RoomNext
<1>1. ASSUME NEW c \in Clients, Room!Enter(c) PROVE RoomProofs!Enter(c)
  BY <1>1 DEF Room!Enter, Room!Quiet, RoomProofs!Enter, RoomProofs!Quiet
<1>2. ASSUME NEW c \in Clients, Room!Leave(c) PROVE RoomProofs!Leave(c)
  BY <1>2 DEF Room!Leave, Room!Quiet, RoomProofs!Leave, RoomProofs!Quiet
<1>3. ASSUME NEW a \in Clients, NEW k \in Kinds, Room!BeginPost(a, k)
      PROVE  RoomProofs!BeginPost(a, k)
  BY <1>3 DEF Room!BeginPost, RoomProofs!BeginPost
<1>4. ASSUME NEW a \in Clients, NEW c \in Clients, Room!Deliver(a, c)
      PROVE  RoomProofs!Deliver(a, c)
  BY <1>4 DEF Room!Deliver, RoomProofs!Deliver
<1>5. ASSUME NEW a \in Clients, Room!EndPost(a) PROVE RoomProofs!EndPost(a)
  BY <1>5 DEF Room!EndPost, RoomProofs!EndPost
<1> QED
  BY <1>1, <1>2, <1>3, <1>4, <1>5, Zenon DEF Room!RoomNext, RoomProofs!RoomNext

LEMMA SamePromises ==
  RoomProofs!RoomInv => MembersMissNothing /\ AuthorOrder
<1>1. RoomProofs!MembersMissNothing => Room!MembersMissNothing
  BY DEF RoomProofs!MembersMissNothing, RoomProofs!PostsOf, RoomProofs!Given,
         Room!MembersMissNothing, Room!PostsOf, Room!Given
<1>2. RoomProofs!HistoryComplete => Room!HistoryComplete
  BY DEF RoomProofs!HistoryComplete, RoomProofs!PostsOf, RoomProofs!Finished,
         Room!HistoryComplete, Room!PostsOf, Room!Finished
<1>3. RoomProofs!AuthorOrder => Room!AuthorOrder
  BY DEF RoomProofs!AuthorOrder, RoomProofs!InAuthorOrder,
         Room!AuthorOrder, Room!InAuthorOrder
<1> QED
  BY <1>1, <1>2, <1>3
     DEF RoomProofs!RoomInv, MembersMissNothing, AuthorOrder

LEMMA RoomOfServer == Spec => []RoomProofs!RoomInv
<1>1. Init => RoomProofs!RoomInv
  BY InitRoom, SameInit, RoomProofs!RoomInitInv
<1>2. ServerInv /\ RoomProofs!RoomInv /\ [Next]_vars => RoomProofs!RoomInv'
  <2> SUFFICES ASSUME ServerInv, RoomProofs!RoomInv, [Next]_vars
               PROVE  RoomProofs!RoomInv'
    OBVIOUS
  <2>1. RoomProofs!RoomNext \/ UNCHANGED RoomProofs!roomVars
    BY StepSimulates, SameNext, SameVars
  <2> QED
    BY <2>1, RoomProofs!RoomStepInv
<1> QED
  BY <1>1, <1>2, ServerInvariant, PTL DEF Spec

(***************************************************************************)
(* So a listed client misses no message of anybody, history included.      *)
(***************************************************************************)
THEOREM NothingIsMissed == Spec => []MembersMissNothing
BY RoomOfServer, SamePromises, PTL

(***************************************************************************)
(* And no client is sent a message twice, or an author's out of order.     *)
(***************************************************************************)
THEOREM NothingIsSwapped == Spec => []AuthorOrder
BY RoomOfServer, SamePromises, PTL
=============================================================================
