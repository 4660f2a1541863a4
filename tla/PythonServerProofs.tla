------------------------- MODULE PythonServerProofs -------------------------
(***************************************************************************)
(* For any number of clients: the Python server keeps its types, and, as   *)
(* long as no two removals overlap, pairs nicknames with clients.          *)
(***************************************************************************)
EXTENDS PythonServer, SequenceTheorems, TLAPS

USE DEF netVars, listVars, flagVars

(***************************************************************************)
(* What removing an entry leaves.                                          *)
(***************************************************************************)
LEMMA RemoveAtProperties ==
  ASSUME NEW S, NEW s \in Seq(S), NEW k \in DOMAIN s
  PROVE  /\ RemoveAt(s, k) \in Seq(S)
         /\ Len(RemoveAt(s, k)) = Len(s) - 1
         /\ \A i \in 1 .. Len(s) - 1 :
              RemoveAt(s, k)[i] = IF i < k THEN s[i] ELSE s[i + 1]
<1> DEFINE u == SubSeq(s, 1, k - 1)
           v == SubSeq(s, k + 1, Len(s))
<1>1. Len(s) \in Nat /\ k \in 1 .. Len(s) /\ \A i \in 1 .. Len(s) : s[i] \in S
  BY LenProperties, ElementOfSeq
<1>2. /\ u \in Seq(S) /\ Len(u) = k - 1
      /\ \A i \in 1 .. k - 1 : u[i] = s[i]
  <2>1. \A i \in 1 .. k - 1 : s[i] \in S
    BY <1>1
  <2>2. \A i \in 1 .. (k - 1) - 1 + 1 : u[i] = s[1 + i - 1]
    BY <1>1, <2>1, SubSeqProperties
  <2> QED
    BY <1>1, <2>1, <2>2, SubSeqProperties
<1>3. /\ v \in Seq(S) /\ Len(v) = Len(s) - k
      /\ \A i \in 1 .. Len(s) - k : v[i] = s[k + i]
  <2>1. \A i \in k + 1 .. Len(s) : s[i] \in S
    BY <1>1
  <2>2. /\ v \in Seq(S)
        /\ Len(v) = IF k + 1 <= Len(s) THEN Len(s) - (k + 1) + 1 ELSE 0
        /\ \A i \in 1 .. Len(s) - (k + 1) + 1 : v[i] = s[(k + 1) + i - 1]
    BY <1>1, <2>1, SubSeqProperties
  <2> QED
    BY <1>1, <2>2
<1>4. RemoveAt(s, k) = u \o v
  BY DEF RemoveAt
<1> HIDE DEF u, v
<1>5. /\ u \o v \in Seq(S) /\ Len(u \o v) = Len(s) - 1
      /\ \A i \in 1 .. Len(s) - 1 :
           (u \o v)[i] = IF i <= k - 1 THEN u[i] ELSE v[i - (k - 1)]
  <2>1. Len(u) + Len(v) = Len(s) - 1
    BY <1>1, <1>2, <1>3
  <2>2. /\ u \o v \in Seq(S) /\ Len(u \o v) = Len(u) + Len(v)
        /\ \A i \in 1 .. Len(u) + Len(v) :
             (u \o v)[i] = IF i <= Len(u) THEN u[i] ELSE v[i - Len(u)]
    BY <1>2, <1>3, ConcatProperties
  <2> QED
    BY <1>2, <2>1, <2>2
<1>6. ASSUME NEW i \in 1 .. Len(s) - 1
      PROVE  (u \o v)[i] = IF i < k THEN s[i] ELSE s[i + 1]
  <2>1. CASE i < k
    BY <1>1, <1>2, <1>5, <2>1
  <2>2. CASE i >= k
    <3>1. i - (k - 1) \in 1 .. Len(s) - k /\ k + (i - (k - 1)) = i + 1
      BY <1>1, <2>2
    <3>2. (u \o v)[i] = v[i - (k - 1)]
      BY <1>1, <1>5, <2>2
    <3>3. v[i - (k - 1)] = s[k + (i - (k - 1))]
      BY <1>3, <3>1
    <3>4. s[k + (i - (k - 1))] = s[i + 1] /\ ~(i < k)
      BY <1>1, <2>2, <3>1
    <3> QED
      BY <3>2, <3>3, <3>4
  <2>3. i < k \/ i >= k
    BY <1>1
  <2> QED
    BY <2>1, <2>2, <2>3
<1> QED
  BY <1>4, <1>5, <1>6

(***************************************************************************)
(* Removing an entry does not touch one appended behind it.                *)
(***************************************************************************)
LEMMA RemoveBeforeLast ==
  ASSUME NEW S, NEW s \in Seq(S), NEW k \in DOMAIN s, NEW x \in S
  PROVE  RemoveAt(Append(s, x), k) = Append(RemoveAt(s, k), x)
<1> DEFINE t == RemoveAt(Append(s, x), k)
           r == RemoveAt(s, k)
<1>1. Len(s) \in Nat /\ k \in 1 .. Len(s)
  BY LenProperties
<1>2. /\ Append(s, x) \in Seq(S) /\ Len(Append(s, x)) = Len(s) + 1
      /\ \A i \in 1 .. Len(s) : Append(s, x)[i] = s[i]
      /\ Append(s, x)[Len(s) + 1] = x
      /\ k \in DOMAIN Append(s, x)
  BY <1>1, AppendProperties, LenProperties
<1>3. /\ t \in Seq(S) /\ Len(t) = Len(s)
      /\ \A i \in 1 .. Len(s) :
           t[i] = IF i < k THEN Append(s, x)[i] ELSE Append(s, x)[i + 1]
  <2>1. Len(Append(s, x)) - 1 = Len(s)
    BY <1>1, <1>2
  <2> QED
    BY <1>2, <2>1, RemoveAtProperties
<1>4. /\ r \in Seq(S) /\ Len(r) = Len(s) - 1
      /\ \A i \in 1 .. Len(s) - 1 : r[i] = IF i < k THEN s[i] ELSE s[i + 1]
  BY RemoveAtProperties
<1> HIDE DEF t, r
<1>5. /\ Append(r, x) \in Seq(S) /\ Len(Append(r, x)) = Len(s)
      /\ \A i \in 1 .. Len(s) - 1 : Append(r, x)[i] = r[i]
      /\ Append(r, x)[Len(s)] = x
  <2>1. Len(r) + 1 = Len(s)
    BY <1>1, <1>4
  <2> QED
    BY <1>4, <2>1, AppendProperties
<1>6. ASSUME NEW i \in 1 .. Len(s) PROVE t[i] = Append(r, x)[i]
  <2>1. CASE i < k
    BY <1>1, <1>2, <1>3, <1>4, <1>5, <2>1
  <2>2. CASE i >= k /\ i < Len(s)
    BY <1>1, <1>2, <1>3, <1>4, <1>5, <2>2
  <2>3. CASE i = Len(s)
    BY <1>1, <1>2, <1>3, <1>5, <2>3
  <2>4. CASE i # Len(s)
    <3>1. i < Len(s) /\ (i < k \/ i >= k)
      BY <1>1, <2>4
    <3> QED
      BY <2>1, <2>2, <3>1
  <2> QED
    BY <2>3, <2>4
<1>7. t = Append(r, x)
  BY <1>3, <1>5, <1>6, SeqEqual
<1> QED
  BY <1>7 DEF t, r

(***************************************************************************)
(* A sequence stands at the beginning of itself and of itself and one      *)
(* entry more.                                                             *)
(***************************************************************************)
LEMMA PrefixOfAppend ==
  ASSUME NEW S, NEW s \in Seq(S), NEW x \in S
  PROVE  /\ IsPrefix(s, s) /\ IsPrefix(s, Append(s, x))
         /\ Len(s) <= Len(s) + 1 /\ Len(Append(s, x)) = Len(s) + 1
<1> DEFINE n == Len(s)
           t == Append(s, x)
<1>1. n \in Nat /\ \A i \in 1 .. n : s[i] \in S
  BY LenProperties, ElementOfSeq
<1>2. /\ t \in Seq(S) /\ Len(t) = n + 1
      /\ \A i \in 1 .. n : t[i] = s[i]
  BY AppendProperties
<1> HIDE DEF t
<1>3. /\ SubSeq(t, 1, n) \in Seq(S) /\ Len(SubSeq(t, 1, n)) = n
      /\ \A i \in 1 .. n : SubSeq(t, 1, n)[i] = s[i]
  <2>1. \A i \in 1 .. n : t[i] \in S
    BY <1>1, <1>2
  <2>2. \A i \in 1 .. n - 1 + 1 : SubSeq(t, 1, n)[i] = t[1 + i - 1]
    BY <1>1, <2>1, SubSeqProperties
  <2>3. SubSeq(t, 1, n) \in Seq(S) /\ Len(SubSeq(t, 1, n)) = n
    BY <1>1, <2>1, SubSeqProperties
  <2> QED
    BY <1>1, <1>2, <2>2, <2>3
<1>4. SubSeq(t, 1, n) = s
  BY <1>3, SeqEqual
<1>5. SubSeq(s, 1, n) = s
  BY SubSeqFull
<1>6. n <= n /\ n <= n + 1
  BY <1>1
<1> HIDE DEF n
<1>7. IsPrefix(s, s) /\ IsPrefix(s, t)
  BY <1>2, <1>4, <1>5, <1>6 DEF IsPrefix, n
<1> QED
  BY <1>2, <1>6, <1>7 DEF n, t

-----------------------------------------------------------------------------
(***************************************************************************)
(* The lists hold no client twice and every client with a running handler, *)
(* so that index and remove find it; the newcomer the main thread is busy  *)
(* with has no handler and is in the list from append_client on.           *)
(***************************************************************************)
NoTwice(s) == \A i, j \in DOMAIN s : s[i] = s[j] => i = j

Running == {"loop", "recv", "find", "print", "each", "index", "close", "pop",
            "remove"}

ClientInv(c) ==
  /\ peer[c] = "off" => handler[c] = "off" /\ c \notin Range(clients)
  /\ handler[c] \in Running => c \in Range(clients)

MainInv ==
  main.pc \in {"nickname", "append_nickname", "append_client", "each"} =>
    /\ main.client \in Clients
    /\ peer[main.client] # "off" /\ handler[main.client] = "off"
    /\ main.client \in Range(clients) <=> main.pc = "each"

ListInv == TypeOK /\ NoTwice(clients) /\ MainInv /\ \A c \in Clients : ClientInv(c)

(***************************************************************************)
(* While no two removals overlap: the one that removes has looked up its   *)
(* own place, and nicknames holds the same clients in the same order, the  *)
(* removed one left out between its pop and its remove, and the newcomer   *)
(* between its two appends; Ctrl+C may end the main thread between these.  *)
(***************************************************************************)
InStep(listed) ==
  \/ main.pc # "append_client" /\ nicknames = listed
  \/ /\ main.pc \in {"append_client", "exited"} /\ main.client \in Clients
     /\ nicknames = Append(listed, main.client)

Alone  == \A c, d \in Clients : Removing(c) /\ Removing(d) => c = d
Placed == \A c \in Clients : handler[c] \in {"close", "pop"} => at[c] = IndexOf(c)
Pairs  == /\ (\A c \in Clients : handler[c] # "remove") => InStep(clients)
          /\ \A c \in Clients : handler[c] = "remove" => InStep(Removed(c))

PairInv == ListInv /\ (~overlapped => Alone /\ Placed /\ Pairs)

(***************************************************************************)
(* What appending to and removing from the list do to its entries.         *)
(***************************************************************************)
LEMMA ListAppend ==
  ASSUME NEW s \in Seq(Clients), NEW c \in Clients
  PROVE  /\ Range(Append(s, c)) = Range(s) \cup {c}
         /\ NoTwice(s) /\ c \notin Range(s) => NoTwice(Append(s, c))
<1> DEFINE t == Append(s, c)
<1>1. /\ Len(s) \in Nat
      /\ DOMAIN s = 1 .. Len(s)
      /\ DOMAIN t = 1 .. Len(s) + 1
      /\ \A i \in 1 .. Len(s) : t[i] = s[i]
      /\ t[Len(s) + 1] = c
  BY AppendProperties, LenProperties
<1>2. DOMAIN t = DOMAIN s \cup {Len(s) + 1} /\ Len(s) + 1 \notin DOMAIN s
  BY <1>1
<1> HIDE DEF t
<1>3. Range(t) = Range(s) \cup {c}
  BY <1>1, <1>2 DEF Range
<1>4. ASSUME NoTwice(s), c \notin Range(s) PROVE NoTwice(t)
  BY <1>1, <1>2, <1>4 DEF NoTwice, Range
<1> QED
  BY <1>3, <1>4 DEF t

LEMMA ListRemove ==
  ASSUME NEW s \in Seq(Clients), NoTwice(s), NEW k \in DOMAIN s
  PROVE  /\ Range(RemoveAt(s, k)) = Range(s) \ {s[k]}
         /\ NoTwice(RemoveAt(s, k))
<1> DEFINE t == RemoveAt(s, k)
           f(i) == IF i < k THEN i ELSE i + 1
<1>1. Len(s) \in Nat /\ DOMAIN s = 1 .. Len(s) /\ k \in 1 .. Len(s)
  BY LenProperties
<1>2. /\ DOMAIN t = 1 .. Len(s) - 1
      /\ \A i \in 1 .. Len(s) - 1 : t[i] = IF i < k THEN s[i] ELSE s[i + 1]
  BY RemoveAtProperties, LenProperties
<1> HIDE DEF t
<1>3. \A i \in DOMAIN t : f(i) \in DOMAIN s \ {k} /\ t[i] = s[f(i)]
  BY <1>1, <1>2
<1>4. \A i, j \in DOMAIN t : f(i) = f(j) => i = j
  BY <1>1, <1>2
<1>5. \A j \in DOMAIN s \ {k} : \E i \in DOMAIN t : f(i) = j
  <2> SUFFICES ASSUME NEW j \in DOMAIN s \ {k} PROVE \E i \in DOMAIN t : f(i) = j
    OBVIOUS
  <2>1. CASE j < k
    BY <1>1, <1>2, <2>1
  <2>2. CASE j > k
    <3>1. j - 1 \in DOMAIN t /\ f(j - 1) = j
      BY <1>1, <1>2, <2>2
    <3> QED
      BY <3>1
  <2> QED
    BY <1>1, <2>1, <2>2
<1> HIDE DEF f
<1>6. NoTwice(t)
  BY <1>3, <1>4 DEF NoTwice
<1>7. Range(t) = Range(s) \ {s[k]}
  BY <1>3, <1>5 DEF NoTwice, Range
<1> QED
  BY <1>6, <1>7 DEF t

(***************************************************************************)
(* index finds a client that is in the list.                               *)
(***************************************************************************)
LEMMA IndexFinds ==
  ASSUME TypeOK, NEW c \in Clients, c \in Range(clients)
  PROVE  /\ IndexOf(c) \in DOMAIN clients /\ IndexOf(c) \in Nat
         /\ clients[IndexOf(c)] = c
<1>1. \E i \in DOMAIN clients : clients[i] = c
  BY DEF Range
<1>2. IndexOf(c) \in DOMAIN clients /\ clients[IndexOf(c)] = c
  BY <1>1 DEF IndexOf
<1>3. DOMAIN clients = 1 .. Len(clients) /\ Len(clients) \in Nat
  BY LenProperties DEF TypeOK
<1> QED
  BY <1>2, <1>3

(***************************************************************************)
(* Every step keeps the types.                                             *)
(***************************************************************************)
LEMMA InitList == Init => ListInv
<1>1. Range(<< >>) = {}
  BY DEF Range
<1>2. Init => TypeOK
  <2> SUFFICES ASSUME Init PROVE TypeOK
    OBVIOUS
  <2>1. main \in MainThread
    BY DEF Init, MainThread
  <2> QED
    BY <2>1, EmptySeq DEF Init, Handler, TypeOK
<1>3. Init => NoTwice(clients) /\ MainInv
  BY DEF Init, NoTwice, MainInv
<1>4. Init => \A c \in Clients : ClientInv(c)
  BY <1>1 DEF Init, ClientInv, Running
<1> QED
  BY <1>2, <1>3, <1>4 DEF ListInv

LEMMA MainType ==
  ASSUME ListInv, [Next]_vars
  PROVE  main' \in MainThread
<1>0. main \in MainThread /\ MainInv
  BY DEF ListInv, TypeOK
<1> USE DEF MainThread, MainGoto
<1>1. CASE main' = main
  BY <1>0, <1>1
<1>2. ASSUME NEW step \in {"append_nickname", "append_client", "each", "dead", "exited"},
             MainGoto(step)
      PROVE  main' \in MainThread
  BY <1>0, <1>2
<1>3. CASE MainSends
  BY <1>0, <1>3 DEF MainSends
<1>4. CASE StartThread
  BY <1>4 DEF StartThread
<1>5. ASSUME NEW c \in Clients, Accept(c)
      PROVE  main' \in MainThread
  BY <1>5 DEF Accept
<1> HIDE DEF MainThread, MainGoto
<1>6. \/ main' = main
      \/ \E step \in {"append_nickname", "append_client", "each", "dead", "exited"} :
           MainGoto(step)
      \/ MainSends \/ StartThread \/ \E c \in Clients : Accept(c)
  BY DEF vars, Next, Main, Handle, ReceiveNickname, NicknameRaises, MainEnds,
         Dispose, AppendNickname, AppendClient, MainSendRaises, Go, Loop, Receive,
         ReceiveRaises, Find, PrintNickname, Sends, SendRaises, BroadcastEnds,
         Index, Close, Pop, PopRaises, RemoveClient
<1> QED
  BY <1>1, <1>2, <1>3, <1>4, <1>5, <1>6

LEMMA StepType ==
  ASSUME ListInv, [Next]_vars
  PROVE  TypeOK'
<1>0. /\ TypeOK /\ MainInv /\ \A c \in Clients : ClientInv(c)
      /\ main' \in MainThread
  BY MainType DEF ListInv
<1> USE DEF TypeOK, Handler, Goto
<1>1. CASE UNCHANGED vars
  BY <1>0, <1>1 DEF vars
<1>2. CASE ReceiveNickname \/ NicknameRaises \/ Dispose
  BY <1>0, <1>2 DEF ReceiveNickname, NicknameRaises, MainEnds, Dispose
<1>3. CASE AppendNickname \/ AppendClient
  <2>1. CASE AppendNickname
    <3>1. Append(nicknames, main.client) \in Seq(Clients)
      BY <1>0, <2>1, AppendProperties DEF AppendNickname, MainInv
    <3> QED
      BY <1>0, <2>1, <3>1 DEF AppendNickname
  <2>2. CASE AppendClient
    <3>1. Append(clients, main.client) \in Seq(Clients)
      BY <1>0, <2>2, AppendProperties DEF AppendClient, MainInv
    <3> QED
      BY <1>0, <2>2, <3>1 DEF AppendClient
  <2> QED
    BY <1>3, <2>1, <2>2
<1>4. CASE MainSends \/ MainSendRaises \/ StartThread
  BY <1>0, <1>4 DEF MainSends, MainSendRaises, MainEnds, StartThread, MainInv
<1>5. ASSUME NEW c \in Clients, Accept(c) \/ Go(c) PROVE TypeOK'
  BY <1>0, <1>5 DEF Accept, Go
<1>6. ASSUME NEW c \in Clients,
             Loop(c) \/ Receive(c) \/ ReceiveRaises(c) \/ PrintNickname(c)
      PROVE  TypeOK'
  <2>1. CASE Loop(c) \/ Receive(c) \/ ReceiveRaises(c)
    BY <1>0, <2>1 DEF Loop, LoopEnds, Receive, ReceiveRaises
  <2>2. CASE PrintNickname(c)
    BY <1>0, <2>2 DEF PrintNickname
  <2> QED
    BY <1>6, <2>1, <2>2
<1>7. ASSUME NEW c \in Clients, Sends(c) \/ SendRaises(c) \/ BroadcastEnds(c)
      PROVE  TypeOK'
  <2>1. CASE Sends(c)
    BY <1>0, <2>1 DEF Sends
  <2>2. CASE SendRaises(c)
    BY <1>0, <2>2 DEF SendRaises
  <2>3. CASE BroadcastEnds(c)
    BY <1>0, <2>3 DEF BroadcastEnds
  <2> QED
    BY <1>7, <2>1, <2>2, <2>3
<1>8. ASSUME NEW c \in Clients, Find(c) \/ Index(c) PROVE TypeOK'
  <2>1. IndexOf(c) \in Nat
    BY <1>0, <1>8, IndexFinds DEF Find, Index, ClientInv, Running
  <2> QED
    BY <1>0, <1>8, <2>1 DEF Find, Index
<1>9. ASSUME NEW c \in Clients, Close(c) \/ PopRaises(c) PROVE TypeOK'
  <2>1. CASE Close(c)
    BY <1>0, <2>1 DEF Close
  <2>2. CASE PopRaises(c)
    BY <1>0, <2>2 DEF PopRaises
  <2> QED
    BY <1>9, <2>1, <2>2
<1>10. ASSUME NEW c \in Clients, Pop(c) PROVE TypeOK'
  BY <1>0, <1>10, RemoveAtProperties DEF Pop, Popped
<1>11. ASSUME NEW c \in Clients, RemoveClient(c) PROVE TypeOK'
  <2>1. IndexOf(c) \in DOMAIN clients
    BY <1>0, <1>11, IndexFinds DEF RemoveClient, ClientInv, Running
  <2> QED
    BY <1>0, <1>11, <2>1, RemoveAtProperties DEF RemoveClient, Removed
<1> QED
  BY <1>1, <1>2, <1>3, <1>4, <1>5, <1>6, <1>7, <1>8, <1>9, <1>10, <1>11
     DEF Next, Main, Handle

(***************************************************************************)
(* A handler that runs does so for a listed client, and apart from its     *)
(* removal it touches neither the list nor the main thread.                *)
(***************************************************************************)
Moves(c) ==
  /\ handler[c] \in Running
  /\ \E step \in Handler : handler' = [handler EXCEPT ![c] = step]
  /\ UNCHANGED <<peer, main, clients>>

LEMMA HandlerMoves ==
  ASSUME TypeOK, NEW c \in Clients, Receive(c) \/ Handle(c)
  PROVE  Moves(c) \/ RemoveClient(c)
<1> USE DEF Moves, Running, Handler, Goto
<1>1. CASE Loop(c) \/ Receive(c) \/ ReceiveRaises(c) \/ Find(c) \/ PrintNickname(c)
  BY <1>1 DEF Loop, Receive, ReceiveRaises, Find, PrintNickname
<1>2. CASE Sends(c)
  <2>1. handler' = [handler EXCEPT ![c] = "each"]
    BY <1>2 DEF Sends, TypeOK
  <2> QED
    BY <1>2, <2>1 DEF Sends
<1>3. CASE SendRaises(c) \/ BroadcastEnds(c) \/ Index(c) \/ Close(c)
  BY <1>3 DEF SendRaises, BroadcastEnds, Index, Close
<1>4. CASE Pop(c) \/ PopRaises(c)
  BY <1>4 DEF Pop, PopRaises
<1> QED
  BY <1>1, <1>2, <1>3, <1>4 DEF Handle

LEMMA StepList ==
  ASSUME ListInv, [Next]_vars
  PROVE  ListInv'
<1>0. TypeOK /\ NoTwice(clients) /\ MainInv /\ \A d \in Clients : ClientInv(d)
  BY DEF ListInv
<1>T. /\ main \in MainThread /\ handler \in [Clients -> Handler]
      /\ peer \in [Clients -> {"off", "up", "gone"}]
  BY <1>0 DEF TypeOK
<1> SUFFICES NoTwice(clients)' /\ MainInv' /\ \A d \in Clients : ClientInv(d)'
  BY StepType DEF ListInv
<1>1. CASE UNCHANGED vars
  BY <1>0, <1>1 DEF vars, NoTwice, MainInv, ClientInv
<1>2. CASE NicknameRaises \/ MainSendRaises \/ Dispose
  <2>1. /\ main'.pc \in {"dead", "exited"}
        /\ UNCHANGED <<peer, handler, clients>>
    BY <1>2, <1>T DEF NicknameRaises, MainSendRaises, Dispose, MainEnds, MainGoto,
                      MainThread
  <2> QED
    BY <1>0, <2>1 DEF NoTwice, MainInv, ClientInv
<1>3. CASE ReceiveNickname \/ AppendNickname \/ MainSends
  <2>1. /\ main.pc \in {"nickname", "append_nickname", "each"}
        /\ main'.client = main.client
        /\ main'.pc \in {"append_nickname", "append_client", "each"}
        /\ main.pc = "each" <=> main'.pc = "each"
        /\ UNCHANGED <<peer, handler, clients>>
    BY <1>3, <1>T DEF ReceiveNickname, AppendNickname, MainSends, MainGoto, MainThread
  <2> QED
    BY <1>0, <2>1 DEF NoTwice, MainInv, ClientInv
<1>4. CASE AppendClient
  <2>1. /\ main.pc = "append_client"
        /\ main'.pc = "each" /\ main'.client = main.client
        /\ UNCHANGED <<peer, handler>>
        /\ clients' = Append(clients, main.client)
    BY <1>4, <1>T DEF AppendClient, MainGoto, MainThread
  <2>2. main.client \in Clients /\ main.client \notin Range(clients)
    BY <1>0, <2>1 DEF MainInv
  <2>3. NoTwice(clients') /\ Range(clients') = Range(clients) \cup {main.client}
    BY <1>0, <2>1, <2>2, ListAppend DEF TypeOK
  <2>4. NoTwice(clients)'
    BY <2>3 DEF NoTwice
  <2> QED
    BY <1>0, <2>1, <2>3, <2>4 DEF MainInv, ClientInv
<1>5. CASE StartThread
  <2>1. /\ main.pc = "each" /\ main'.pc = "accept"
        /\ handler' = [handler EXCEPT ![main.client] = "loop"]
        /\ UNCHANGED <<peer, clients>>
    BY <1>5 DEF StartThread
  <2> QED
    BY <1>0, <1>T, <2>1 DEF NoTwice, MainInv, ClientInv, Running
<1>6. ASSUME NEW c \in Clients, Accept(c)
      PROVE  NoTwice(clients)' /\ MainInv' /\ \A d \in Clients : ClientInv(d)'
  <2>1. /\ peer[c] = "off" /\ peer' = [peer EXCEPT ![c] = "up"]
        /\ main'.pc = "nickname" /\ main'.client = c
        /\ UNCHANGED <<handler, clients>>
    BY <1>6 DEF Accept
  <2> QED
    BY <1>0, <1>T, <2>1 DEF NoTwice, MainInv, ClientInv
<1>7. ASSUME NEW c \in Clients, Go(c)
      PROVE  NoTwice(clients)' /\ MainInv' /\ \A d \in Clients : ClientInv(d)'
  BY <1>0, <1>T, <1>7 DEF Go, NoTwice, MainInv, ClientInv
<1>8. ASSUME NEW c \in Clients, Moves(c)
      PROVE  NoTwice(clients)' /\ MainInv' /\ \A d \in Clients : ClientInv(d)'
  BY <1>0, <1>T, <1>8 DEF Moves, NoTwice, MainInv, ClientInv, Running
<1>9. ASSUME NEW c \in Clients, RemoveClient(c)
      PROVE  NoTwice(clients)' /\ MainInv' /\ \A d \in Clients : ClientInv(d)'
  <2>1. /\ handler[c] = "remove" /\ handler' = [handler EXCEPT ![c] = "done"]
        /\ clients' = RemoveAt(clients, IndexOf(c))
        /\ UNCHANGED <<peer, main>>
    BY <1>9 DEF RemoveClient, Removed, Goto
  <2>2. c \in Range(clients)
    BY <1>0, <2>1 DEF ClientInv, Running
  <2>3. IndexOf(c) \in DOMAIN clients /\ clients[IndexOf(c)] = c
    BY <1>0, <2>2, IndexFinds
  <2>4. NoTwice(clients') /\ Range(clients') = Range(clients) \ {c}
    BY <1>0, <2>1, <2>3, ListRemove DEF TypeOK
  <2>5. NoTwice(clients)'
    BY <2>4 DEF NoTwice
  <2> QED
    BY <1>0, <1>T, <2>1, <2>2, <2>4, <2>5 DEF MainInv, ClientInv, Running
<1> QED
  BY <1>0, <1>1, <1>2, <1>3, <1>4, <1>5, <1>6, <1>7, <1>8, <1>9, HandlerMoves
     DEF Next, Main

(***************************************************************************)
(* For any number of clients the list of the Python server has nobody      *)
(* twice and holds everybody whose handler is running, up to the removal   *)
(* (server.py:40-44, 53-54).                                               *)
(***************************************************************************)
THEOREM PythonLists == Spec => []ListInv
BY InitList, StepList, PTL DEF Spec

(***************************************************************************)
(* For any number of clients every variable of the Python server keeps its *)
(* type; in particular list.index finds the client it is asked for.        *)
(***************************************************************************)
THEOREM PythonTypes == Spec => []TypeOK
BY PythonLists, PTL DEF ListInv

-----------------------------------------------------------------------------
(***************************************************************************)
(* Appending to the list moves nobody's place.                             *)
(***************************************************************************)
LEMMA PlaceStays ==
  ASSUME TypeOK, NoTwice(clients), NEW m \in Clients, m \notin Range(clients),
         clients' = Append(clients, m), NEW c \in Clients, c \in Range(clients)
  PROVE  IndexOf(c)' = IndexOf(c)
<1> DEFINE i == IndexOf(c)
<1>1. i \in DOMAIN clients /\ clients[i] = c
  BY IndexFinds
<1> HIDE DEF i
<1>2. i \in DOMAIN clients' /\ clients'[i] = c
  BY <1>1, AppendProperties, LenProperties DEF TypeOK
<1>3. NoTwice(clients')
  BY ListAppend DEF TypeOK
<1>4. IndexOf(c)' \in DOMAIN clients' /\ clients'[IndexOf(c)'] = c
  BY <1>2 DEF IndexOf
<1>5. IndexOf(c)' = i
  BY <1>2, <1>3, <1>4 DEF NoTwice
<1> QED
  BY <1>5 DEF i

(***************************************************************************)
(* A step that removes nothing and keeps the lists as they are to each     *)
(* other.                                                                  *)
(***************************************************************************)
Quiet ==
  /\ clients' = clients
  /\ \A d \in Clients : \/ handler'[d] = handler[d] /\ at'[d] = at[d]
                        \/ ~Removing(d) /\ ~Removing(d)'
  /\ \A s : InStep(s) => InStep(s)'

LEMMA QuietPairs ==
  ASSUME Alone, Placed, Pairs, Quiet
  PROVE  Alone' /\ Placed' /\ Pairs'
<1>1. \A d \in Clients :
        /\ Removing(d)' = Removing(d)
        /\ Removing(d) => handler'[d] = handler[d] /\ at'[d] = at[d]
        /\ IndexOf(d)' = IndexOf(d) /\ Removed(d)' = Removed(d)
  BY DEF Quiet, Removing, IndexOf, Removed
<1>2. Alone' /\ Placed'
  BY <1>1 DEF Alone, Placed, Removing
<1>3. Pairs'
  BY <1>1 DEF Quiet, Pairs, Removing
<1> QED
  BY <1>2, <1>3

LEMMA StepPairs ==
  ASSUME PairInv, [Next]_vars, ~overlapped'
  PROVE  Alone' /\ Placed' /\ Pairs'
<1>0. /\ TypeOK /\ NoTwice(clients) /\ MainInv /\ \A d \in Clients : ClientInv(d)
  BY DEF PairInv, ListInv
<1>T. /\ main \in MainThread /\ handler \in [Clients -> Handler]
      /\ at \in [Clients -> Nat]
  BY <1>0 DEF TypeOK
<1>O. ~overlapped
  BY <1>0 DEF vars, Next, Main, Handle, ReceiveNickname, NicknameRaises, MainEnds,
         Dispose, AppendNickname, AppendClient, MainSends, MainSendRaises,
         StartThread, Accept, Go, Loop, Receive, ReceiveRaises, Find,
         PrintNickname, Sends, SendRaises, BroadcastEnds, Index, Close, Pop,
         PopRaises, RemoveClient
<1>I. Alone /\ Placed /\ Pairs
  BY <1>O DEF PairInv
(*************************************************************************)
(* The main thread, the lists as they are.                               *)
(*************************************************************************)
<1>1. ASSUME Quiet PROVE Alone' /\ Placed' /\ Pairs'
  BY <1>1, <1>I, QuietPairs
<1>2. CASE UNCHANGED vars
  BY <1>1, <1>2 DEF vars, Quiet, InStep
<1>3. CASE ReceiveNickname \/ NicknameRaises \/ MainSends \/ MainSendRaises \/ Dispose
  <2>1. /\ UNCHANGED <<handler, at, clients, nicknames>>
        /\ main'.client = main.client
        /\ main.pc = "append_client" => main'.pc = "exited"
        /\ main.pc # "exited" /\ main'.pc # "append_client"
    BY <1>3, <1>T DEF ReceiveNickname, NicknameRaises, MainSends, MainSendRaises,
                      Dispose, MainEnds, MainGoto, MainThread
  <2> QED
    BY <1>1, <2>1 DEF Quiet, InStep
<1>4. CASE StartThread
  <2>1. /\ main.client \in Clients /\ handler[main.client] = "off"
        /\ handler' = [handler EXCEPT ![main.client] = "loop"]
        /\ main.pc = "each" /\ main'.pc = "accept"
        /\ UNCHANGED <<at, clients, nicknames>>
    BY <1>0, <1>4 DEF StartThread, MainInv
  <2> QED
    BY <1>1, <1>T, <2>1 DEF Quiet, InStep, Removing
<1>5. ASSUME NEW c \in Clients, Accept(c)
      PROVE  Alone' /\ Placed' /\ Pairs'
  BY <1>1, <1>5 DEF Accept, Quiet, InStep
<1>6. ASSUME NEW c \in Clients, Go(c)
      PROVE  Alone' /\ Placed' /\ Pairs'
  BY <1>1, <1>6 DEF Go, Quiet, InStep
(*************************************************************************)
(* The newcomer's two appends.                                           *)
(*************************************************************************)
<1>7. CASE AppendNickname
  <2>1. /\ main.pc = "append_nickname" /\ main'.pc = "append_client"
        /\ main'.client = main.client /\ main.client \in Clients
        /\ nicknames' = Append(nicknames, main.client)
        /\ UNCHANGED <<handler, at, clients>>
    BY <1>0, <1>7, <1>T DEF AppendNickname, MainGoto, MainThread, MainInv
  <2> QED
    BY <1>1, <2>1 DEF Quiet, InStep
<1>8. CASE AppendClient
  <2>1. /\ main.pc = "append_client" /\ main'.pc = "each"
        /\ main'.client = main.client /\ main.client \in Clients
        /\ main.client \notin Range(clients)
        /\ clients' = Append(clients, main.client)
        /\ UNCHANGED <<handler, at, nicknames>>
    BY <1>0, <1>8, <1>T DEF AppendClient, MainGoto, MainThread, MainInv
  <2>2. \A s : InStep(s) => nicknames' = Append(s, main.client)
    BY <2>1 DEF InStep
  <2>3. ASSUME NEW c \in Clients, Removing(c)
        PROVE  /\ IndexOf(c)' = IndexOf(c) /\ IndexOf(c) \in DOMAIN clients
               /\ Removed(c)' = Append(Removed(c), main.client)
    <3>1. c \in Range(clients)
      BY <1>0, <2>3 DEF ClientInv, Removing, Running
    <3>2. IndexOf(c)' = IndexOf(c) /\ IndexOf(c) \in DOMAIN clients
      BY <1>0, <2>1, <3>1, PlaceStays, IndexFinds
    <3>3. RemoveAt(Append(clients, main.client), IndexOf(c))
            = Append(RemoveAt(clients, IndexOf(c)), main.client)
      BY <1>0, <2>1, <3>2, RemoveBeforeLast DEF TypeOK
    <3> QED
      BY <2>1, <3>2, <3>3 DEF Removed
  <2>4. Alone' /\ Placed'
    BY <1>I, <2>1, <2>3 DEF Alone, Placed, Removing
  <2>5. Pairs'
    BY <1>I, <2>1, <2>2, <2>3 DEF Pairs, InStep, Removing
  <2> QED
    BY <2>4, <2>5
(*************************************************************************)
(* A handler: before its removal, and the three steps of it.             *)
(*************************************************************************)
<1>9. ASSUME NEW c \in Clients,
             \/ Loop(c) \/ Receive(c) \/ ReceiveRaises(c) \/ Find(c)
             \/ PrintNickname(c) \/ Sends(c) \/ SendRaises(c) \/ BroadcastEnds(c)
      PROVE  Alone' /\ Placed' /\ Pairs'
  <2>1. /\ ~Removing(c) /\ ~Removing(c)'
        /\ \A d \in Clients \ {c} : handler'[d] = handler[d] /\ at'[d] = at[d]
        /\ UNCHANGED <<main, clients, nicknames>>
    BY <1>9, <1>T DEF Loop, Receive, ReceiveRaises, Find, PrintNickname, Sends,
                      SendRaises, BroadcastEnds, Goto, Handler, Removing
  <2> QED
    BY <1>1, <2>1 DEF Quiet, InStep
<1>10. ASSUME NEW c \in Clients, Index(c)
       PROVE  Alone' /\ Placed' /\ Pairs'
  <2>1. \A d \in Clients : ~Removing(d)
    BY <1>0, <1>10 DEF Index, TypeOK
  <2>2. /\ handler' = [handler EXCEPT ![c] = "close"]
        /\ at' = [at EXCEPT ![c] = IndexOf(c)]
        /\ UNCHANGED <<main, clients, nicknames>>
    BY <1>10 DEF Index, Goto
  <2>3. \A d \in Clients : Removing(d)' => d = c
    BY <1>T, <2>1, <2>2 DEF Removing
  <2> QED
    BY <1>I, <1>T, <2>1, <2>2, <2>3
       DEF Alone, Placed, Pairs, InStep, Removed, IndexOf, Removing
<1>11. ASSUME NEW c \in Clients, Close(c)
       PROVE  Alone' /\ Placed' /\ Pairs'
  <2>1. /\ handler[c] = "close" /\ handler' = [handler EXCEPT ![c] = "pop"]
        /\ UNCHANGED <<main, at, clients, nicknames>>
    BY <1>11 DEF Close, Goto
  <2> QED
    BY <1>I, <1>T, <2>1 DEF Alone, Placed, Pairs, InStep, Removed, IndexOf, Removing
<1>12. ASSUME NEW c \in Clients, Pop(c)
       PROVE  Alone' /\ Placed' /\ Pairs'
  <2>1. /\ handler[c] = "pop" /\ handler' = [handler EXCEPT ![c] = "remove"]
        /\ nicknames' = RemoveAt(nicknames, at[c])
        /\ UNCHANGED <<main, clients>>
    BY <1>12 DEF Pop, Popped, Goto
  <2>2. c \in Range(clients) /\ at[c] = IndexOf(c)
    BY <1>0, <1>I, <2>1 DEF ClientInv, Running, Placed
  <2>3. at[c] \in DOMAIN clients
    BY <1>0, <2>2, IndexFinds
  <2>4. \A d \in Clients : Removing(d) => d = c
    BY <1>I, <2>1 DEF Alone, Removing
  <2>5. InStep(clients)
    BY <1>I, <2>1, <2>4 DEF Pairs, Removing
  <2>6. PICK listed : listed = RemoveAt(clients, at[c])
    OBVIOUS
  <2>7. InStep(listed)'
    <3>1. CASE main.pc # "append_client" /\ nicknames = clients
      BY <2>1, <2>6, <3>1 DEF InStep
    <3>2. CASE /\ main.pc \in {"append_client", "exited"} /\ main.client \in Clients
               /\ nicknames = Append(clients, main.client)
      <4>1. nicknames' = Append(listed, main.client)
        BY <1>0, <2>1, <2>3, <2>6, <3>2, RemoveBeforeLast DEF TypeOK
      <4> QED
        BY <2>1, <3>2, <4>1 DEF InStep
    <3> QED
      BY <2>5, <3>1, <3>2 DEF InStep
  <2>8. \A d \in Clients : Removing(d)' => d = c /\ handler'[d] = "remove"
    BY <1>T, <2>1, <2>4 DEF Removing
  <2>9. Alone' /\ Placed'
    BY <2>8 DEF Alone, Placed, Removing
  <2>10. Removed(c)' = listed
    BY <2>1, <2>2, <2>6 DEF Removed, IndexOf
  <2>11. Pairs'
    BY <1>T, <2>1, <2>7, <2>8, <2>10 DEF Pairs, Removing, InStep
  <2> QED
    BY <2>9, <2>11
<1>13. ASSUME NEW c \in Clients, PopRaises(c)
       PROVE  Alone' /\ Placed' /\ Pairs'
  <2>1. /\ handler[c] = "pop" /\ handler' = [handler EXCEPT ![c] = "dead"]
        /\ \A d \in Clients \ {c} : at'[d] = at[d]
        /\ UNCHANGED <<main, clients, nicknames>>
    BY <1>13, <1>T DEF PopRaises, Goto
  <2> QED
    BY <1>I, <1>T, <2>1 DEF Alone, Placed, Pairs, InStep, Removed, IndexOf, Removing
<1>14. ASSUME NEW c \in Clients, RemoveClient(c)
       PROVE  Alone' /\ Placed' /\ Pairs'
  <2>1. /\ handler[c] = "remove" /\ handler' = [handler EXCEPT ![c] = "done"]
        /\ clients' = Removed(c)
        /\ UNCHANGED <<main, nicknames>>
    BY <1>14 DEF RemoveClient, Goto
  <2>2. \A d \in Clients : ~Removing(d)'
    BY <1>I, <1>T, <2>1 DEF Alone, Removing
  <2>3. InStep(clients)'
    BY <1>I, <2>1 DEF Pairs, InStep
  <2> QED
    BY <2>2, <2>3 DEF Alone, Placed, Pairs, Removing
<1> QED
  BY <1>2, <1>3, <1>4, <1>5, <1>6, <1>7, <1>8, <1>9, <1>10, <1>11, <1>12, <1>13,
     <1>14 DEF Next, Main, Handle

(***************************************************************************)
(* NicknamesPair says of InStep what a user of the two lists needs.        *)
(***************************************************************************)
LEMMA PairsSuffice == PairInv => NicknamesPair
<1> SUFFICES ASSUME PairInv, ~overlapped PROVE
      /\ (\A c \in Clients : handler[c] # "remove") => Beside(clients)
      /\ \A c \in Clients : handler[c] = "remove" => Beside(Removed(c))
  BY DEF NicknamesPair
<1>0. TypeOK /\ (\A c \in Clients : ClientInv(c)) /\ Pairs
  BY DEF PairInv, ListInv
<1>1. ASSUME NEW s \in Seq(Clients), InStep(s)
      PROVE  Beside(s)
  <2>1. nicknames = s \/ \E m \in Clients : nicknames = Append(s, m)
    BY <1>1 DEF InStep
  <2>2. CASE nicknames = s
    <3>1. Len(s) \in Nat
      BY LenProperties
    <3>2. IsPrefix(s, s)
      BY <3>1, SubSeqFull DEF IsPrefix
    <3> QED
      BY <2>2, <3>1, <3>2 DEF Beside
  <2>3. ASSUME NEW m \in Clients, nicknames = Append(s, m)
        PROVE  Beside(s)
    BY <2>3, PrefixOfAppend, LenProperties DEF Beside
  <2> QED
    BY <2>1, <2>2, <2>3
<1>2. ASSUME NEW c \in Clients, handler[c] = "remove"
      PROVE  Removed(c) \in Seq(Clients)
  <2>1. IndexOf(c) \in DOMAIN clients
    BY <1>0, <1>2, IndexFinds DEF ClientInv, Running
  <2> QED
    BY <1>0, <2>1, RemoveAtProperties DEF Removed, TypeOK
<1> QED
  BY <1>0, <1>1, <1>2 DEF Pairs, TypeOK

LEMMA InitPairs == Init => PairInv
<1>1. Init => Alone /\ Placed /\ Pairs
  BY DEF Init, Alone, Placed, Pairs, InStep, Removing
<1> QED
  BY <1>1, InitList DEF PairInv

LEMMA StepBoth == PairInv /\ [Next]_vars => PairInv'
BY StepList, StepPairs DEF PairInv

(***************************************************************************)
(* For any number of clients, as long as no two removals overlap, every    *)
(* client has its own nickname at its place (server.py:40-43, 53-54).      *)
(***************************************************************************)
THEOREM PythonPairs == Spec => []NicknamesPair
BY InitPairs, StepBoth, PairsSuffice, PTL DEF Spec
=============================================================================
