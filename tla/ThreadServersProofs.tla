------------------------ MODULE ThreadServersProofs ------------------------
(***************************************************************************)
(* The two servers with threads: for any clients the list of the Kotlin    *)
(* server keeps a size it can have, and what PythonServerProofs shows of   *)
(* the Python server holds where both are composed.                        *)
(***************************************************************************)
EXTENDS MCThreadServers, FiniteSetTheorems, WellFoundedInduction, TLAPS

USE DEF netVars, listVars, restVars

(***************************************************************************)
(* Threads that add and remove at the same time store sizes that are no    *)
(* longer true.  What a thread stores, though, was read when it was not    *)
(* yet one of those that had stored a size in add, or in remove; so each   *)
(* adds one to their number and moves the size by one at most.             *)
(***************************************************************************)
Early == {"off", "first"} \cup Adding

Past(step, it) ==
  \/ step \in {"clear", "left", "done", "dead"}
  \/ step = "each" /\ it.after = "left"

Added   == {c \in Clients : handler[c] \notin Early}
Removed == {c \in Clients : Past(handler[c], pos[c])}

AddSized == {"add store", "add grown", "add end"}
Counted  == {"shift", "remove end"}

AddedInv ==
  /\ clients.size <= Cardinality(Added)
  /\ \A c \in Clients : handler[c] \in AddSized => pos[c].size <= Cardinality(Added)
  /\ \A c \in Clients : handler[c] = "add end" => pos[c].size >= 0

RemovedInv ==
  /\ Added = {} => clients.size = 0
  /\ Added # {} => clients.size >= 1 - Cardinality(Removed)
  /\ \A c \in Clients : handler[c] \in Counted =>
       - Cardinality(Removed) <= pos[c].size /\ pos[c].size < Cardinality(Added)

AfterInv == \A c \in Clients : handler[c] = "each" => pos[c].after # "none"

KotlinInv == Shapes /\ AddedInv /\ RemovedInv /\ AfterInv

(***************************************************************************)
(* A set of clients that becomes more counts more.                         *)
(***************************************************************************)
LEMMA CountsMore ==
  ASSUME NEW S, NEW T, S \subseteq T, T \subseteq Clients
  PROVE  /\ Cardinality(S) \in Nat /\ Cardinality(T) \in Nat /\ N \in Nat
         /\ Cardinality(S) <= Cardinality(T) /\ Cardinality(T) <= N
         /\ \A c \in T : c \notin S => Cardinality(S) + 1 <= Cardinality(T)
<1>1. /\ IsFiniteSet(T) /\ Cardinality(T) \in Nat /\ N \in Nat
      /\ Cardinality(T) <= N
  BY KotlinAssumption, FS_Subset, FS_CardinalityType DEF N
<1>2. \A U \in SUBSET T : IsFiniteSet(U) /\ Cardinality(U) <= Cardinality(T)
  BY <1>1, FS_Subset
<1>3. IsFiniteSet(S) /\ Cardinality(S) \in Nat /\ Cardinality(S) <= Cardinality(T)
  BY <1>2, FS_CardinalityType
<1>4. ASSUME NEW c \in T, c \notin S
      PROVE  Cardinality(S) + 1 <= Cardinality(T)
  <2>1. Cardinality(S \cup {c}) = Cardinality(S) + 1
    BY <1>3, <1>4, FS_AddElement
  <2>2. Cardinality(S \cup {c}) <= Cardinality(T)
    BY <1>2, <1>4
  <2> QED
    BY <2>1, <2>2
<1> QED
  BY <1>1, <1>3, <1>4

LEMMA AreCounted ==
  /\ Cardinality(Added) \in Nat /\ Cardinality(Added) <= N
  /\ Cardinality(Removed) \in Nat /\ Cardinality(Removed) <= N
  /\ N \in Nat
<1>1. Added \subseteq Clients /\ Removed \subseteq Clients
  BY DEF Added, Removed
<1> QED
  BY <1>1, CountsMore

LEMMA KotlinInit == Init => KotlinInv
<1> SUFFICES ASSUME Init PROVE KotlinInv
  OBVIOUS
<1>1. Nowhere \in Position /\ Empty \in [Slots -> Clients \cup {None}]
  BY DEF Nowhere, Position, Empty
<1>2. clients \in List /\ pos \in [Clients -> Position]
  BY <1>1 DEF Init, List
<1>3. signal \in [pc: {"off", "each"}, at: Nat, mod: Nat]
  BY DEF Init
<1>4. Shapes
  BY <1>1, <1>2, <1>3 DEF Init, Shapes, Handler
<1>5. Added = {} /\ clients.size = 0
  BY DEF Init, Added, Early
<1>6. \A c \in Clients : handler[c] = "off"
  BY DEF Init
<1>7. AddedInv
  <2>1. 0 <= Cardinality(Added)
    BY AreCounted
  <2> QED
    BY <1>5, <1>6, <2>1 DEF AddedInv, AddSized
<1>8. RemovedInv /\ AfterInv
  BY <1>5, <1>6 DEF RemovedInv, AfterInv, Counted
<1> QED
  BY <1>4, <1>7, <1>8 DEF KotlinInv

(***************************************************************************)
(* What is so in every state that satisfies the invariant.                 *)
(***************************************************************************)
LEMMA SizeIsBounded == KotlinInv => TypeOK
<1> SUFFICES ASSUME KotlinInv PROVE TypeOK
  OBVIOUS
<1>1. Shapes /\ clients.size \in Int /\ clients.size <= Cardinality(Added)
  BY DEF KotlinInv, AddedInv, Shapes, List
<1>2. clients.size = 0 \/ clients.size >= 1 - Cardinality(Removed)
  BY DEF KotlinInv, RemovedInv
<1>3. clients.size = 0 \/ (1 - N <= clients.size /\ clients.size <= N)
  BY <1>1, <1>2, AreCounted
<1> QED
  BY <1>1, <1>3, AreCounted DEF TypeOK

(***************************************************************************)
(* What a handler's step may do: it goes on to "step" with the locals      *)
(* "it".                                                                   *)
(***************************************************************************)
Moves(c, step, it) ==
  /\ handler[c] \notin Early => step \notin Early
  /\ Past(handler[c], pos[c]) => Past(step, it)
  /\ step \in AddSized =>
       \/ handler[c] \in AddSized /\ it.size = pos[c].size
       \/ it.size = clients.size
  /\ step = "add end" => it.size >= 0
  /\ step \in Counted =>
       \/ handler[c] \in Counted /\ it.size = pos[c].size
       \/ handler[c] = "remove size" /\ it.size = clients.size - 1
  /\ step = "each" => it.after # "none"

Resizes(c, step, it) ==
  \/ /\ clients'.size = clients.size
     /\ handler[c] \in Early /\ step \notin Early => Past(step, it)
  \/ handler[c] = "add end" /\ step \notin Early /\ clients'.size = pos[c].size + 1
  \/ handler[c] = "remove end" /\ Past(step, it) /\ clients'.size = pos[c].size

LEMMA MovesKeepInv ==
  ASSUME KotlinInv, Shapes', NEW c \in Clients, NEW step \in Handler, NEW it \in Position,
         handler' = [handler EXCEPT ![c] = step], pos' = [pos EXCEPT ![c] = it],
         Moves(c, step, it), Resizes(c, step, it)
  PROVE  KotlinInv'
<1>0. /\ handler \in [Clients -> Handler] /\ pos \in [Clients -> Position]
      /\ clients.size \in Int /\ clients'.size \in Int /\ it.size \in Int
      /\ \A d \in Clients : pos[d].size \in Int
  BY DEF KotlinInv, Shapes, List, Position
<1>1. /\ handler'[c] = step /\ pos'[c] = it
      /\ \A d \in Clients : d # c => handler'[d] = handler[d] /\ pos'[d] = pos[d]
  BY <1>0
<1> DEFINE w  == Cardinality(Added)
           w1 == Cardinality(Added')
           v  == Cardinality(Removed)
           v1 == Cardinality(Removed')
<1>2. Added \subseteq Added' /\ Added' \subseteq Clients
  BY <1>1 DEF Added, Moves
<1>3. Removed \subseteq Removed' /\ Removed' \subseteq Clients
  BY <1>1 DEF Removed, Moves
<1>4. /\ w \in Nat /\ w1 \in Nat /\ w <= w1
      /\ \A d \in Added' : d \notin Added => w + 1 <= w1
  BY <1>2, CountsMore
<1>5. /\ v \in Nat /\ v1 \in Nat /\ v <= v1
      /\ \A d \in Removed' : d \notin Removed => v + 1 <= v1
  BY <1>3, CountsMore
<1>6. /\ clients.size <= w
      /\ \A d \in Clients : handler[d] \in AddSized => pos[d].size <= w
      /\ \A d \in Clients : handler[d] = "add end" => pos[d].size >= 0
  BY DEF KotlinInv, AddedInv
<1>7. /\ Added = {} => clients.size = 0
      /\ Added # {} => clients.size >= 1 - v
      /\ \A d \in Clients : handler[d] \in Counted => - v <= pos[d].size /\ pos[d].size < w
  BY DEF KotlinInv, RemovedInv
<1>8. handler[c] \notin Early /\ ~Past(handler[c], pos[c]) /\ Past(step, it) => v + 1 <= v1
  BY <1>1, <1>5 DEF Removed
<1>9. handler[c] \in Early /\ step \notin Early => w + 1 <= w1
  BY <1>1, <1>4 DEF Added
<1>10. handler[c] \notin Early => c \in Added
  BY DEF Added
<1>11. Past(step, it) /\ handler[c] \in Early => v + 1 <= v1
  BY <1>1, <1>5 DEF Removed, Past, Early, Adding
<1> HIDE DEF w, w1, v, v1
<1>n. /\ w \in Int /\ w1 \in Int /\ v \in Int /\ v1 \in Int
      /\ 0 <= w /\ w <= w1 /\ 0 <= v /\ v <= v1
  BY <1>4, <1>5
<1>12. clients'.size <= w1 /\ (Added' # {} => clients'.size >= 1 - v1)
       /\ (Added' = {} => clients'.size = 0)
  <2>1. CASE /\ clients'.size = clients.size
             /\ handler[c] \in Early /\ step \notin Early => Past(step, it)
    <3>1. clients'.size <= w1
      <4>1. clients.size \in Int /\ clients.size <= w /\ clients'.size = clients.size
        BY <1>0, <1>6, <2>1
      <4> QED
        BY <1>n, <4>1
    <3>2. Added' = {} => clients'.size = 0
      BY <1>2, <1>7, <2>1
    <3>3. CASE Added # {}
      <4>1. clients'.size \in Int /\ clients'.size >= 1 - v
        BY <1>0, <1>7, <2>1, <3>3
      <4> QED
        BY <1>2, <1>n, <3>1, <3>3, <4>1
    <3>4. CASE Added = {} /\ Added' # {}
      <4>1. PICK d \in Added' : TRUE
        BY <3>4
      <4>2. handler[c] \in Early /\ step \notin Early
        BY <1>1, <1>10, <3>4, <4>1 DEF Added
      <4>3. v + 1 <= v1
        BY <1>11, <2>1, <4>2
      <4>4. clients'.size = 0
        BY <1>7, <2>1, <3>4
      <4> QED
        BY <1>n, <3>1, <3>4, <4>3, <4>4
    <3> QED
      BY <3>1, <3>2, <3>3, <3>4
  <2>2. CASE handler[c] = "add end" /\ step \notin Early /\ clients'.size = pos[c].size + 1
    <3>1. pos[c].size <= w /\ pos[c].size >= 0 /\ w + 1 <= w1
      BY <1>6, <1>9, <2>2 DEF AddSized, Early, Adding
    <3>2. c \in Added'
      BY <1>1, <2>2 DEF Added
    <3>3. pos[c].size \in Int /\ clients'.size = pos[c].size + 1
      BY <1>0, <2>2
    <3> QED
      BY <1>n, <3>1, <3>2, <3>3
  <2>3. CASE handler[c] = "remove end" /\ Past(step, it) /\ clients'.size = pos[c].size
    <3>1. - v <= pos[c].size /\ pos[c].size < w
      BY <1>7, <2>3 DEF Counted
    <3>2. v + 1 <= v1
      BY <1>8, <2>3 DEF Past, Early, Adding
    <3>3. c \in Added'
      BY <1>2, <1>10, <2>3 DEF Early, Adding
    <3>4. pos[c].size \in Int /\ clients'.size = pos[c].size
      BY <1>0, <2>3
    <3> QED
      BY <1>n, <3>1, <3>2, <3>3, <3>4
  <2> QED
    BY <2>1, <2>2, <2>3 DEF Resizes
<1>13. ASSUME NEW d \in Clients, handler'[d] \in AddSized
       PROVE  pos'[d].size <= w1
  <2>1. \/ pos'[d].size = pos[d].size /\ handler[d] \in AddSized
        \/ pos'[d].size = clients.size
    BY <1>1, <1>13 DEF Moves
  <2>2. pos[d].size \in Int /\ clients.size \in Int /\ clients.size <= w
    BY <1>0, <1>6
  <2>3. handler[d] \in AddSized => pos[d].size <= w
    BY <1>6
  <2> QED
    BY <1>n, <2>1, <2>2, <2>3
<1>14. \A d \in Clients : handler'[d] = "add end" => pos'[d].size >= 0
  BY <1>1, <1>6 DEF Moves
<1>15. ASSUME NEW d \in Clients, handler'[d] \in Counted
       PROVE  - v1 <= pos'[d].size /\ pos'[d].size < w1
  <2>0. pos[d].size \in Int /\ clients.size \in Int
    BY <1>0
  <2>1. CASE handler[d] \in Counted /\ pos'[d].size = pos[d].size
    <3>1. - v <= pos[d].size /\ pos[d].size < w
      BY <1>7, <2>1
    <3> QED
      BY <1>n, <2>0, <2>1, <3>1
  <2>2. CASE handler[d] = "remove size" /\ pos'[d].size = clients.size - 1
    <3>1. d \in Added
      BY <2>2 DEF Added, Early, Adding
    <3>2. clients.size <= w /\ clients.size >= 1 - v
      BY <1>6, <1>7, <3>1
    <3>3. \A size \in Int : size <= w /\ size >= 1 - v
                              => - v1 <= size - 1 /\ size - 1 < w1
      BY <1>n
    <3>4. - v1 <= clients.size - 1 /\ clients.size - 1 < w1
      BY <2>0, <3>2, <3>3
    <3> QED
      BY <2>2, <3>4, Zenon
  <2> QED
    BY <1>1, <1>15, <2>1, <2>2 DEF Moves
<1>16. AddedInv'
  BY <1>12, <1>13, <1>14 DEF AddedInv, w1
<1>17. RemovedInv'
  BY <1>12, <1>15 DEF RemovedInv, v1, w1
<1>18. AfterInv'
  BY <1>1 DEF KotlinInv, AfterInv, Moves
<1> QED
  BY <1>16, <1>17, <1>18 DEF KotlinInv

(***************************************************************************)
(* The steps that touch neither the list nor a handler.                    *)
(***************************************************************************)
LEMMA StillKeepInv ==
  ASSUME KotlinInv, Shapes', UNCHANGED <<handler, pos, clients>>
  PROVE  KotlinInv'
<1>1. UNCHANGED <<Added, Removed>>
  BY DEF Added, Removed
<1> QED
  BY <1>1 DEF KotlinInv, AddedInv, RemovedInv, AfterInv

LEMMA KotlinSenders ==
  ASSUME KotlinInv, NEW c \in Clients, Stall(c) \/ Go(c) \/ Poll(c) \/ Send(c)
  PROVE  KotlinInv'
<1>0. Shapes
  BY DEF KotlinInv
<1>1. CASE Stall(c)
  BY <1>0, <1>1, StillKeepInv DEF Stall, Shapes
<1>2. CASE Go(c)
  BY <1>0, <1>2, StillKeepInv DEF Go, Shapes
<1>3. CASE Poll(c) \/ Send(c)
  <2>1. /\ \E step \in {"off", "poll", "write"} : sender' = [sender EXCEPT ![c] = step]
        /\ UNCHANGED <<netVars, handler, pos, listVars, signal, server>>
    BY <1>3 DEF Poll, Send, SenderEnds, Write, WriteThrows, SenderGoto
  <2> QED
    BY <1>0, <2>1, StillKeepInv DEF Shapes
<1> QED
  BY <1>1, <1>2, <1>3

LEMMA KotlinSignals ==
  ASSUME KotlinInv, Interrupt \/ Stop
  PROVE  KotlinInv'
<1>0. Shapes /\ clients.mod \in Nat
  BY DEF KotlinInv, Shapes, List
<1> DEFINE Signal == [pc: {"off", "each"}, at: Nat, mod: Nat]
<1>1. signal \in Signal
  BY <1>0 DEF Shapes
<1>2. CASE StopNext
  <2>1. signal' \in Signal
    BY <1>1, <1>2 DEF StopNext
  <2> QED
    BY <1>0, <1>2, <2>1, StillKeepInv DEF StopNext, Shapes
<1>3. CASE Interrupt \/ StopThrows
  <2>1. signal' \in Signal
    BY <1>0, <1>3 DEF Interrupt, StopThrows
  <2> QED
    BY <1>0, <1>3, <2>1, StillKeepInv DEF Interrupt, StopThrows, Shapes
<1>4. CASE StopExits
  BY <1>0, <1>4, StillKeepInv DEF StopExits, Shapes
<1> QED
  BY <1>2, <1>3, <1>4 DEF Stop

(***************************************************************************)
(* The steps of a handler, by what they leave alone.                       *)
(***************************************************************************)
LEMMA ListMoves ==
  ASSUME KotlinInv, NEW c \in Clients, NEW step \in Handler, NEW it \in Position,
         handler' = [handler EXCEPT ![c] = step], pos' = [pos EXCEPT ![c] = it],
         Moves(c, step, it), Resizes(c, step, it),
         clients' \in List, arrays' \in [Clients -> [Slots -> Clients \cup {None}]],
         UNCHANGED <<netVars, restVars>>
  PROVE  KotlinInv'
<1>1. Shapes
  BY DEF KotlinInv
<1>2. handler' \in [Clients -> Handler] /\ pos' \in [Clients -> Position]
  BY <1>1 DEF Shapes
<1>3. Shapes'
  BY <1>1, <1>2 DEF Shapes
<1> QED
  BY <1>3, MovesKeepInv

LEMMA PosMoves ==
  ASSUME KotlinInv, NEW c \in Clients, NEW step \in Handler, NEW it \in Position,
         handler' = [handler EXCEPT ![c] = step], pos' = [pos EXCEPT ![c] = it],
         Moves(c, step, it), handler[c] \in Early /\ step \notin Early => Past(step, it),
         UNCHANGED <<netVars, listVars, restVars>>
  PROVE  KotlinInv'
<1>1. clients' \in List /\ arrays' \in [Clients -> [Slots -> Clients \cup {None}]]
  BY DEF KotlinInv, Shapes
<1>2. Resizes(c, step, it)
  BY DEF Resizes
<1> QED
  BY <1>1, <1>2, ListMoves

(***************************************************************************)
(* The steps that leave the list and the handler's locals as they are.     *)
(***************************************************************************)
LEMMA KotlinMoves ==
  ASSUME KotlinInv, NEW c \in Clients,
         \/ Accept(c) \/ Login(c) \/ NoLogin(c) \/ FirstThrows(c) \/ StartSender(c)
         \/ ReceiveBad(c) \/ ReceiveNothing(c) \/ Close(c) \/ RemoveFinds(c)
  PROVE  KotlinInv'
<1>0. Shapes /\ handler \in [Clients -> Handler] /\ pos \in [Clients -> Position]
  BY DEF KotlinInv, Shapes
<1>1. PICK step \in Handler :
        /\ handler' = [handler EXCEPT ![c] = step]
        /\ step \notin {"each"} \cup AddSized \cup Counted
        /\ handler[c] \notin Early => step \notin Early
        /\ handler[c] \in Early /\ step \notin Early => step \in {"done", "dead"}
        /\ handler[c] \notin {"clear", "left", "each", "done", "dead"}
  <2> USE DEF Handler, Early, Adding, Removing, AddSized, Counted, Goto, At
  <2>1. CASE Accept(c) \/ Login(c) \/ FirstThrows(c)
    BY <2>1 DEF Accept, Login, FirstThrows
  <2>2. CASE NoLogin(c) \/ StartSender(c) \/ Close(c)
    BY <2>2 DEF NoLogin, StartSender, Close
  <2>3. CASE ReceiveBad(c) \/ ReceiveNothing(c) \/ RemoveFinds(c)
    BY <2>3 DEF ReceiveBad, ReceiveNothing, RemoveFinds, AfterBad
  <2> QED
    BY <2>1, <2>2, <2>3
<1>2. Moves(c, step, pos[c])
  BY <1>1 DEF Moves, Past, AddSized
<1>3. handler[c] \in Early /\ step \notin Early => Past(step, pos[c])
  BY <1>1 DEF Past
<1>4. UNCHANGED <<pos, listVars, stalled, signal, server>>
  BY DEF Accept, Login, NoLogin, FirstThrows, StartSender, ReceiveBad,
         ReceiveNothing, Close, RemoveFinds
<1>5. handler' \in [Clients -> Handler]
  BY <1>0, <1>1
<1>6. /\ peer' \in [Clients -> {"off", "up", "gone"}] /\ open' \in SUBSET Clients
      /\ sender' \in [Clients -> {"off", "poll", "write"}]
  BY <1>0 DEF Accept, Login, NoLogin, FirstThrows, StartSender, ReceiveBad,
              ReceiveNothing, Close, RemoveFinds, Shapes
<1>7. Shapes'
  BY <1>0, <1>4, <1>5, <1>6 DEF Shapes
<1>8. pos' = [pos EXCEPT ![c] = pos[c]] /\ pos[c] \in Position
  BY <1>0, <1>4
<1>9. Resizes(c, step, pos[c])
  BY <1>3, <1>4 DEF Resizes
<1> QED
  BY <1>1, <1>2, <1>7, <1>8, <1>9, MovesKeepInv

(***************************************************************************)
(* What changing one field makes of the locals and of the list.            *)
(***************************************************************************)
LEMMA PositionFields ==
  ASSUME NEW p \in Position, NEW size \in Int
  PROVE  [p EXCEPT !.size = size] \in Position /\ [p EXCEPT !.size = size].size = size
BY DEF Position

LEMMA ListFields ==
  ASSUME NEW l \in List
  PROVE  /\ \A size \in Int : /\ [l EXCEPT !.size = size] \in List
                             /\ [l EXCEPT !.size = size].size = size
         /\ \A mod \in Nat : /\ [l EXCEPT !.mod = mod] \in List
                            /\ [l EXCEPT !.mod = mod].size = l.size
BY DEF List

(***************************************************************************)
(* The steps that move a handler's locals, the list as it is.              *)
(***************************************************************************)
LEMMA KotlinReads ==
  ASSUME KotlinInv, NEW c \in Clients,
         \/ AddReadsMod(c) \/ AddReadsArray(c) \/ AddReadsSize(c)
         \/ RemoveReadsArray(c) \/ RemoveReadsSize(c) \/ RemoveScans(c)
         \/ RemoveReadsMod(c) \/ RemoveCounts(c)
  PROVE  KotlinInv'
<1>0. /\ clients \in List /\ pos \in [Clients -> Position] /\ pos[c] \in Position
      /\ handler \in [Clients -> Handler]
  BY DEF KotlinInv, Shapes
<1>1. UNCHANGED <<netVars, listVars, restVars>>
  BY DEF AddReadsMod, AddReadsArray, AddReadsSize, RemoveReadsArray, RemoveReadsSize,
         RemoveScans, RemoveReadsMod, RemoveCounts, ReadMod
<1> USE DEF At, Goto
<1>2. CASE AddReadsMod(c) \/ RemoveReadsMod(c)
  <2> DEFINE it == [pos[c] EXCEPT !.mod = clients.mod]
  <2>1. PICK step \in {"add mod", "remove mod"} :
          /\ step = "add mod" => handler[c] = "add"
          /\ step = "remove mod" => handler[c] = "remove"
          /\ handler' = [handler EXCEPT ![c] = step]
          /\ pos' = [pos EXCEPT ![c] = it]
    BY <1>2 DEF AddReadsMod, RemoveReadsMod, ReadMod
  <2>2. it \in Position
    BY <1>0 DEF Position, List
  <2>3. /\ Moves(c, step, it) /\ step \in Handler
        /\ handler[c] \in Early /\ step \notin Early => Past(step, it)
    BY <2>1 DEF Moves, Past, Early, Adding, Removing, AddSized, Counted, Handler
  <2> QED
    BY <1>1, <2>1, <2>2, <2>3, PosMoves
<1>3. CASE AddReadsArray(c) \/ RemoveReadsArray(c)
  <2> DEFINE it == [pos[c] EXCEPT !.array = clients.array]
  <2>1. PICK step \in {"add size", "find size"} :
          /\ step = "add size" => handler[c] = "add array"
          /\ step = "find size" => handler[c] = "find"
          /\ handler' = [handler EXCEPT ![c] = step]
          /\ pos' = [pos EXCEPT ![c] = it]
    BY <1>3 DEF AddReadsArray, RemoveReadsArray
  <2>2. it \in Position
    BY <1>0 DEF Position, List
  <2>3. /\ Moves(c, step, it) /\ step \in Handler
        /\ handler[c] \in Early /\ step \notin Early => Past(step, it)
    BY <2>1 DEF Moves, Past, Early, Adding, Removing, AddSized, Counted, Handler
  <2> QED
    BY <1>1, <2>1, <2>2, <2>3, PosMoves
<1>4. CASE AddReadsSize(c) \/ RemoveReadsSize(c)
  <2> DEFINE it == [pos[c] EXCEPT !.size = clients.size]
  <2>1. PICK step \in {"add store", "scan"} :
          /\ step = "add store" => handler[c] = "add size"
          /\ step = "scan" => handler[c] = "find size"
          /\ handler' = [handler EXCEPT ![c] = step]
          /\ pos' = [pos EXCEPT ![c] = it]
    BY <1>4 DEF AddReadsSize, RemoveReadsSize
  <2>2. it \in Position /\ it.size = clients.size
    BY <1>0 DEF Position, List
  <2>3. /\ Moves(c, step, it) /\ step \in Handler
        /\ handler[c] \in Early /\ step \notin Early => Past(step, it)
    BY <2>1, <2>2 DEF Moves, Past, Early, Adding, Removing, AddSized, Counted, Handler
  <2> QED
    BY <1>1, <2>1, <2>2, <2>3, PosMoves
<1>5. CASE RemoveScans(c)
  <2> DEFINE it == [pos[c] EXCEPT !.at = @ + 1]
  <2>1. /\ handler[c] = "scan" /\ handler' = [handler EXCEPT ![c] = "scan"]
        /\ pos' = [pos EXCEPT ![c] = it]
    BY <1>0, <1>5 DEF RemoveScans
  <2>2. it \in Position
    BY <1>0 DEF Position
  <2>3. /\ Moves(c, "scan", it) /\ "scan" \in Handler
        /\ handler[c] \in Early /\ "scan" \notin Early => Past("scan", it)
    BY <2>1 DEF Moves, Past, Early, Adding, Removing, AddSized, Counted, Handler
  <2> QED
    BY <1>1, <2>1, <2>2, <2>3, PosMoves
<1>6. CASE RemoveCounts(c)
  <2> DEFINE it == [pos[c] EXCEPT !.size = clients.size - 1]
  <2>0. clients.size - 1 \in Int
    BY <1>0 DEF List
  <2>1. PICK step \in {"shift", "remove end"} :
          /\ handler[c] = "remove size" /\ handler' = [handler EXCEPT ![c] = step]
          /\ pos' = [pos EXCEPT ![c] = it]
    BY <1>6 DEF RemoveCounts
  <2>2. it \in Position /\ it.size = clients.size - 1
    BY <1>0, <2>0, PositionFields
  <2>3. /\ Moves(c, step, it) /\ step \in Handler
        /\ handler[c] \in Early /\ step \notin Early => Past(step, it)
    BY <2>1, <2>2 DEF Moves, Past, Early, Adding, Removing, AddSized, Counted, Handler
  <2> QED
    BY <1>1, <2>1, <2>2, <2>3, PosMoves
<1> QED
  BY <1>2, <1>3, <1>4, <1>5, <1>6

LEMMA KotlinThrows ==
  ASSUME KotlinInv, NEW c \in Clients, AddThrows(c) \/ RemoveFindsNot(c) \/ RemoveThrows(c)
  PROVE  KotlinInv'
<1>1. PICK step \in {"left", "dead"} :
        /\ handler[c] \notin {"left", "each", "done", "dead"}
        /\ handler[c] \in Early \cup {"clear"} => step = "dead"
        /\ handler' = [handler EXCEPT ![c] = step]
        /\ pos' = [pos EXCEPT ![c] = Nowhere]
        /\ UNCHANGED <<netVars, listVars, restVars>>
  BY DEF AddThrows, RemoveFindsNot, RemoveThrows, At, Goto, Forget, Early, Adding
<1>2. Nowhere \in Position /\ step \in Handler
  BY DEF Nowhere, Position, Handler
<1>3. Moves(c, step, Nowhere) /\ (handler[c] \in Early => Past(step, Nowhere))
  BY <1>1 DEF Moves, Past, Early, Adding, AddSized, Counted
<1> QED
  BY <1>1, <1>2, <1>3, PosMoves

LEMMA KotlinBroadcasts ==
  ASSUME KotlinInv, NEW c \in Clients,
         \/ CopyHistory(c) \/ ReceiveMessage(c) \/ Left(c)
         \/ BroadcastNext(c) \/ BroadcastReturns(c) \/ BroadcastThrows(c)
  PROVE  KotlinInv'
<1>0. /\ clients \in List /\ pos \in [Clients -> Position] /\ pos[c] \in Position
      /\ handler \in [Clients -> Handler] /\ Nowhere \in Position
  BY DEF KotlinInv, Shapes, Nowhere, Position
<1>1. UNCHANGED <<netVars, listVars, restVars>>
  BY DEF CopyHistory, ReceiveMessage, Left, BroadcastNext, BroadcastReturns,
         BroadcastThrows
<1>2. CASE CopyHistory(c) \/ ReceiveMessage(c) \/ Left(c)
  <2>1. PICK after \in {"joined", "loop", "left"} :
          /\ Post(c, after)
          /\ handler[c] \notin Early \cup {"clear", "each", "done", "dead"}
          /\ handler[c] = "left" => after = "left"
    BY <1>2 DEF CopyHistory, ReceiveMessage, Left, At, Early, Adding
  <2> DEFINE it == [Nowhere EXCEPT !.mod = clients.mod, !.after = after]
  <2>2. CASE pos' = [pos EXCEPT ![c] = it] /\ handler' = [handler EXCEPT ![c] = "each"]
    <3>1. it \in Position /\ it.after = after /\ "each" \in Handler
      BY <1>0 DEF Position, List, Nowhere, Handler
    <3> HIDE DEF it
    <3>2. Moves(c, "each", it) /\ handler[c] \notin Early
      BY <2>1, <3>1 DEF Moves, Past, Early, Adding, AddSized, Counted
    <3> QED
      BY <1>1, <2>2, <3>1, <3>2, PosMoves
  <2>3. CASE /\ pos' = [pos EXCEPT ![c] = Nowhere]
             /\ handler' = [handler EXCEPT ![c] = AfterException(after)]
    <3>1. PICK step \in {"close", "dead"} :
            step = AfterException(after) /\ (after = "left" => step = "dead")
      BY DEF AfterException
    <3>2. Moves(c, step, Nowhere) /\ step \in Handler /\ handler[c] \notin Early
      BY <2>1, <3>1 DEF Moves, Past, Early, Adding, AddSized, Counted, Handler
    <3> QED
      BY <1>0, <1>1, <2>3, <3>1, <3>2, PosMoves
  <2> QED
    BY <2>1, <2>2, <2>3 DEF Post, Goto, Forget
<1>3. CASE BroadcastNext(c)
  <2> DEFINE it == [pos[c] EXCEPT !.at = @ + 1]
  <2>1. /\ handler[c] = "each" /\ handler' = [handler EXCEPT ![c] = "each"]
        /\ pos' = [pos EXCEPT ![c] = it]
    BY <1>0, <1>3 DEF BroadcastNext, At
  <2>2. it \in Position /\ it.after = pos[c].after /\ it.after # "none"
    BY <1>0, <2>1 DEF Position, KotlinInv, AfterInv
  <2>3. Moves(c, "each", it) /\ "each" \in Handler /\ handler[c] \notin Early
    BY <2>1, <2>2 DEF Moves, Past, Early, Adding, AddSized, Counted, Handler
  <2> QED
    BY <1>1, <2>1, <2>2, <2>3, PosMoves
<1>4. CASE BroadcastReturns(c) \/ BroadcastThrows(c)
  <2>1. handler[c] = "each" /\ pos[c].after \in {"joined", "loop", "left"}
    BY <1>0, <1>4 DEF BroadcastReturns, BroadcastThrows, At, KotlinInv, AfterInv, Position
  <2>2. PICK step \in {"start", "loop", "done", "close", "dead"} :
          /\ step \in {AfterBroadcast(pos[c].after), AfterException(pos[c].after)}
          /\ handler' = [handler EXCEPT ![c] = step]
    BY <1>4, <2>1 DEF BroadcastReturns, BroadcastThrows, Goto, AfterBroadcast, AfterException
  <2>3. pos[c].after = "left" => step \in {"done", "dead"}
    BY <2>2 DEF AfterBroadcast, AfterException
  <2>4. Moves(c, step, Nowhere) /\ step \in Handler /\ handler[c] \notin Early
    BY <2>1, <2>2, <2>3 DEF Moves, Past, Early, Adding, AddSized, Counted, Handler
  <2>5. pos' = [pos EXCEPT ![c] = Nowhere]
    BY <1>4 DEF BroadcastReturns, BroadcastThrows, Forget
  <2> QED
    BY <1>0, <1>1, <2>2, <2>4, <2>5, PosMoves
<1> QED
  BY <1>2, <1>3, <1>4

(***************************************************************************)
(* The steps that change the list of clients.                              *)
(***************************************************************************)
LEMMA KotlinArrays ==
  ASSUME KotlinInv, NEW c \in Clients,
         AddCopies(c) \/ AddStores(c) \/ RemoveShifts(c) \/ RemoveClears(c)
  PROVE  KotlinInv'
<1> DEFINE Array == [Slots -> Clients \cup {None}]
<1>0. /\ clients \in List /\ pos \in [Clients -> Position] /\ pos[c] \in Position
      /\ handler \in [Clients -> Handler] /\ arrays \in [Clients -> Array]
      /\ Nowhere \in Position
  BY DEF KotlinInv, Shapes, Nowhere, Position
<1>1. UNCHANGED <<netVars, clients, restVars>>
  BY DEF AddCopies, AddStores, RemoveShifts, RemoveClears
<1> USE DEF At, Goto, Forget
<1>2. CASE AddCopies(c)
  <2>1. arrays' \in [Clients -> Array]
    <3>1. /\ Empty \in Array
          /\ clients.array # None => arrays[clients.array] \in Array
      BY <1>0 DEF Empty, List
    <3> HIDE DEF Array
    <3> QED
      BY <1>0, <1>2, <3>1 DEF AddCopies
  <2>2. /\ handler[c] = "add store" /\ handler' = [handler EXCEPT ![c] = "add grown"]
        /\ pos' = [pos EXCEPT ![c] = pos[c]]
    BY <1>0, <1>2 DEF AddCopies
  <2>3. Moves(c, "add grown", pos[c]) /\ Resizes(c, "add grown", pos[c])
    BY <1>1, <2>2 DEF Moves, Resizes, Past, Early, Adding, AddSized, Counted
  <2> QED
    BY <1>0, <1>1, <2>1, <2>2, <2>3, ListMoves DEF Handler, Adding
<1>3. CASE AddStores(c)
  <2>1. arrays' \in [Clients -> Array]
    <3> DEFINE a == pos[c].array
    <3>1. a \in Clients => [arrays[a] EXCEPT ![pos[c].size] = c] \in Array
      BY <1>0
    <3>2. arrays' = [arrays EXCEPT ![a] = [arrays[a] EXCEPT ![pos[c].size] = c]]
      BY <1>3 DEF AddStores
    <3> HIDE DEF a, Array
    <3> QED
      BY <1>0, <3>1, <3>2
  <2>2. /\ handler[c] = "add store" /\ handler' = [handler EXCEPT ![c] = "add end"]
        /\ pos' = [pos EXCEPT ![c] = pos[c]] /\ pos[c].size >= 0
    BY <1>0, <1>3 DEF AddStores, Stores
  <2>3. Moves(c, "add end", pos[c]) /\ Resizes(c, "add end", pos[c])
    BY <1>1, <2>2 DEF Moves, Resizes, Past, Early, Adding, AddSized, Counted
  <2> QED
    BY <1>0, <1>1, <2>1, <2>2, <2>3, ListMoves DEF Handler, Adding
<1>4. CASE RemoveShifts(c)
  <2> DEFINE a == pos[c].array
             from == pos[c].at
             to == pos[c].size
  <2>0. handler[c] = "shift" /\ from \in Nat /\ to \in Int /\ to < N /\ N \in Nat
    <3>1. handler[c] = "shift" /\ to \in Int /\ from \in Nat
      BY <1>0, <1>4 DEF RemoveShifts, Position
    <3>2. to < Cardinality(Added)
      BY <3>1 DEF KotlinInv, RemovedInv, Counted
    <3> QED
      BY <3>1, <3>2, AreCounted
  <2>1. arrays' \in [Clients -> Array]
    <3>1. ASSUME NEW i \in Slots, i \in from .. to - 1
          PROVE  i + 1 \in Slots
      <4> HIDE DEF from, to
      <4> QED
        BY <2>0, <3>1 DEF Slots
    <3>2. a \in Clients => Shifted(arrays[a], from, to) \in Array
      BY <1>0, <3>1 DEF Shifted
    <3>3. arrays' = [arrays EXCEPT ![a] = Shifted(arrays[a], from, to)]
      BY <1>4 DEF RemoveShifts
    <3> HIDE DEF a, from, to, Array
    <3> QED
      BY <1>0, <3>2, <3>3
  <2>2. /\ handler' = [handler EXCEPT ![c] = "remove end"]
        /\ pos' = [pos EXCEPT ![c] = pos[c]]
    BY <1>0, <1>4 DEF RemoveShifts
  <2>3. Moves(c, "remove end", pos[c]) /\ Resizes(c, "remove end", pos[c])
    BY <1>1, <2>0 DEF Moves, Resizes, Past, Early, Adding, AddSized, Counted
  <2> QED
    BY <1>0, <1>1, <2>1, <2>2, <2>3, ListMoves DEF Handler, Removing
<1>5. CASE RemoveClears(c)
  <2>1. arrays' \in [Clients -> Array]
    <3> DEFINE a == pos[c].array
    <3>1. a \in Clients => [arrays[a] EXCEPT ![pos[c].size] = None] \in Array
      BY <1>0
    <3>2. arrays' = [arrays EXCEPT ![a] = [arrays[a] EXCEPT ![pos[c].size] = None]]
      BY <1>5 DEF RemoveClears
    <3> HIDE DEF a, Array
    <3> QED
      BY <1>0, <3>1, <3>2
  <2>2. /\ handler[c] = "clear" /\ handler' = [handler EXCEPT ![c] = "left"]
        /\ pos' = [pos EXCEPT ![c] = Nowhere]
    BY <1>5 DEF RemoveClears
  <2>3. Moves(c, "left", Nowhere) /\ Resizes(c, "left", Nowhere)
    BY <1>1, <2>2 DEF Moves, Resizes, Past, Early, Adding, AddSized, Counted
  <2> QED
    BY <1>0, <1>1, <2>1, <2>2, <2>3, ListMoves DEF Handler
<1> QED
  BY <1>2, <1>3, <1>4, <1>5

LEMMA KotlinSizes ==
  ASSUME KotlinInv, NEW c \in Clients,
         \/ AddWritesMod(c) \/ RemoveWritesMod(c) \/ AddGrows(c)
         \/ AddWritesSize(c) \/ RemoveWritesSize(c)
  PROVE  KotlinInv'
<1>0. /\ clients \in List /\ pos \in [Clients -> Position] /\ pos[c] \in Position
      /\ handler \in [Clients -> Handler] /\ Nowhere \in Position
      /\ arrays \in [Clients -> [Slots -> Clients \cup {None}]]
  BY DEF KotlinInv, Shapes, Nowhere, Position
<1>1. UNCHANGED <<netVars, arrays, restVars>>
  BY DEF AddWritesMod, RemoveWritesMod, WriteMod, AddGrows, AddWritesSize, RemoveWritesSize
<1> USE DEF At, Goto, Forget
<1>2. CASE AddWritesMod(c) \/ RemoveWritesMod(c)
  <2> DEFINE it == [pos[c] EXCEPT !.mod = 0]
  <2>0. pos[c].mod + 1 \in Nat
    BY <1>0 DEF Position
  <2>1. PICK step \in {"add array", "remove size"} :
          /\ step = "add array" => handler[c] = "add mod"
          /\ step = "remove size" => handler[c] = "remove mod"
          /\ handler' = [handler EXCEPT ![c] = step]
          /\ pos' = [pos EXCEPT ![c] = it]
          /\ clients' = [clients EXCEPT !.mod = pos[c].mod + 1]
    BY <1>2 DEF AddWritesMod, RemoveWritesMod, WriteMod
  <2>2. it \in Position /\ clients' \in List /\ clients'.size = clients.size
    <3>1. it \in Position
      BY <1>0 DEF Position
    <3> QED
      BY <1>0, <2>0, <2>1, <3>1, ListFields
  <2>3. Moves(c, step, it) /\ Resizes(c, step, it) /\ step \in Handler
    BY <2>1, <2>2 DEF Moves, Resizes, Past, Early, Adding, Removing, AddSized, Counted, Handler
  <2> QED
    BY <1>0, <1>1, <2>1, <2>2, <2>3, ListMoves
<1>3. CASE AddGrows(c)
  <2> DEFINE it == [pos[c] EXCEPT !.array = c]
  <2>1. /\ handler[c] = "add grown" /\ handler' = [handler EXCEPT ![c] = "add store"]
        /\ pos' = [pos EXCEPT ![c] = it]
        /\ clients' = [clients EXCEPT !.array = c]
    BY <1>3 DEF AddGrows
  <2>2. /\ it \in Position /\ it.size = pos[c].size
        /\ clients' \in List /\ clients'.size = clients.size
    BY <1>0, <2>1 DEF Position, List
  <2>3. Moves(c, "add store", it) /\ Resizes(c, "add store", it)
    BY <2>1, <2>2 DEF Moves, Resizes, Past, Early, Adding, AddSized, Counted
  <2> QED
    BY <1>0, <1>1, <2>1, <2>2, <2>3, ListMoves DEF Handler, Adding
<1>4. CASE AddWritesSize(c)
  <2>1. /\ handler[c] = "add end" /\ handler' = [handler EXCEPT ![c] = "copy"]
        /\ pos' = [pos EXCEPT ![c] = Nowhere]
        /\ clients' = [clients EXCEPT !.size = pos[c].size + 1]
    BY <1>4 DEF AddWritesSize
  <2>2. clients' \in List /\ clients'.size = pos[c].size + 1
    <3>1. pos[c].size + 1 \in Int
      BY <1>0 DEF Position
    <3> QED
      BY <1>0, <2>1, <3>1, ListFields
  <2>3. Moves(c, "copy", Nowhere) /\ Resizes(c, "copy", Nowhere)
    BY <2>1, <2>2 DEF Moves, Resizes, Past, Early, Adding, AddSized, Counted
  <2> QED
    BY <1>0, <1>1, <2>1, <2>2, <2>3, ListMoves DEF Handler
<1>5. CASE RemoveWritesSize(c)
  <2>1. /\ handler[c] = "remove end" /\ handler' = [handler EXCEPT ![c] = "clear"]
        /\ pos' = [pos EXCEPT ![c] = pos[c]]
        /\ clients' = [clients EXCEPT !.size = pos[c].size]
    BY <1>0, <1>5 DEF RemoveWritesSize
  <2>2. clients' \in List /\ clients'.size = pos[c].size
    BY <1>0, <2>1 DEF Position, List
  <2>3. Moves(c, "clear", pos[c]) /\ Resizes(c, "clear", pos[c])
    BY <2>1, <2>2 DEF Moves, Resizes, Past, Early, Adding, AddSized, Counted
  <2> QED
    BY <1>0, <1>1, <2>1, <2>2, <2>3, ListMoves DEF Handler, Removing
<1> QED
  BY <1>2, <1>3, <1>4, <1>5

LEMMA KotlinStep == KotlinInv /\ [Next]_vars => KotlinInv'
<1> SUFFICES ASSUME KotlinInv, [Next]_vars PROVE KotlinInv'
  OBVIOUS
<1>1. CASE UNCHANGED vars
  BY <1>1, StillKeepInv DEF vars, KotlinInv, Shapes
<1>2. CASE Next
  BY <1>2, KotlinSenders, KotlinSignals, KotlinMoves, KotlinReads, KotlinThrows,
     KotlinBroadcasts, KotlinArrays, KotlinSizes
     DEF Next, Peers, Handle, Add, Remove, Broadcast
<1> QED
  BY <1>1, <1>2

(***************************************************************************)
(* For any set of up to ten clients, whoever may stall and whether or not  *)
(* Ctrl+C may be pressed: what the threads do to the ArrayList at the same *)
(* time, however their reads and writes of its size and its modCount fall  *)
(* between each other's, leaves it a size of at most the number of clients *)
(* and of more than minus that number (Server.kt:54, 97).                  *)
(***************************************************************************)
THEOREM KotlinListKeepsItsSize == Spec => []TypeOK
BY SizeIsBounded, KotlinInit, KotlinStep, PTL DEF Spec

(***************************************************************************)
(* An add stores its client within the array (Server.kt:54): the size it   *)
(* read counts none but others.  So no array grows a second time, and the  *)
(* model's store, which has no place beyond its slots, leaves none out.    *)
(***************************************************************************)
Fits == \A c \in Clients : handler[c] = "add store" /\ Stores(c) => pos[c].size \in Slots

THEOREM KotlinAddFits == Spec => []Fits
<1>0. \A i, w \in Int : i >= 0 /\ i <= w /\ w + 1 <= N => i \in Slots
  <2>1. N \in Nat
    BY AreCounted
  <2> QED
    BY <2>1 DEF Slots
<1>1. /\ \A c \in Clients : c \notin Added => Cardinality(Added) + 1 <= N
      /\ Cardinality(Added) \in Int
  <2>1. Added \subseteq Clients
    BY DEF Added
  <2> QED
    BY <2>1, CountsMore DEF N
<1>2. KotlinInv => Fits
  <2> SUFFICES ASSUME KotlinInv, NEW c \in Clients, handler[c] = "add store", Stores(c)
               PROVE  pos[c].size \in Slots
    BY DEF Fits
  <2>1. pos[c].size \in Int /\ pos[c].size >= 0 /\ pos[c].size <= Cardinality(Added)
    BY DEF KotlinInv, Shapes, Position, AddedInv, AddSized, Stores
  <2>2. c \notin Added
    BY DEF Added, Early, Adding
  <2>3. Cardinality(Added) + 1 <= N /\ Cardinality(Added) \in Int
    BY <1>1, <2>2, Zenon
  <2> QED
    BY <1>0, <2>1, <2>3, Zenon
<1> QED
  BY <1>2, KotlinInit, KotlinStep, PTL DEF Spec

-----------------------------------------------------------------------------
(***************************************************************************)
(* The Python server as the composition has it is the one the theorems of  *)
(* PythonServerProofs are about.                                           *)
(***************************************************************************)
PP == INSTANCE PythonServerProofs WITH
        peer <- p_peer, open <- p_open, handler <- p_handler, clients <- p_clients

LEMMA SamePlaces ==
  ASSUME NEW c
  PROVE  /\ P!IndexOf(c) = PP!IndexOf(c)
         /\ P!Removed(c) = PP!Removed(c)
<1>1. P!IndexOf(c) = PP!IndexOf(c)
  BY DEF P!IndexOf, PP!IndexOf
<1> QED
  BY <1>1 DEF P!Removed, PP!Removed, P!RemoveAt, PP!RemoveAt

LEMMA SameMain ==
  /\ P!Main <=> PP!Main
  /\ P!ReceiveNickname <=> PP!ReceiveNickname
  /\ P!NicknameRaises <=> PP!NicknameRaises
  /\ P!Dispose <=> PP!Dispose
<1>1. /\ P!ReceiveNickname <=> PP!ReceiveNickname
      /\ P!NicknameRaises <=> PP!NicknameRaises
      /\ P!Dispose <=> PP!Dispose
  BY DEF P!netVars, PP!netVars, P!listVars, PP!listVars, P!flagVars,
         PP!flagVars, P!MainGoto, PP!MainGoto, P!MainEnds, PP!MainEnds,
         P!ReceiveNickname, PP!ReceiveNickname, P!NicknameRaises,
         PP!NicknameRaises, P!Dispose, PP!Dispose
<1>2. /\ P!AppendNickname <=> PP!AppendNickname
      /\ P!AppendClient <=> PP!AppendClient
      /\ P!StartThread <=> PP!StartThread
  BY DEF P!netVars, PP!netVars, P!listVars, PP!listVars, P!flagVars,
         PP!flagVars, P!MainGoto, PP!MainGoto, P!AppendNickname,
         PP!AppendNickname, P!AppendClient, PP!AppendClient, P!StartThread,
         PP!StartThread
<1>3. /\ P!MainSends <=> PP!MainSends
      /\ P!MainSendRaises <=> PP!MainSendRaises
  BY DEF P!netVars, PP!netVars, P!listVars, PP!listVars, P!flagVars,
         PP!flagVars, P!MainGoto, PP!MainGoto, P!MainEnds, PP!MainEnds,
         P!MayReturn, PP!MayReturn, P!MayRaise, PP!MayRaise, P!MainSends,
         PP!MainSends, P!MainSendRaises, PP!MainSendRaises
<1> QED
  BY <1>1, <1>2, <1>3 DEF P!Main, PP!Main

LEMMA SameHandler ==
  ASSUME NEW c
  PROVE  /\ P!Accept(c) <=> PP!Accept(c)
         /\ P!Go(c) <=> PP!Go(c)
         /\ P!Receive(c) <=> PP!Receive(c)
         /\ P!Handle(c) <=> PP!Handle(c)
<1>1. /\ P!Accept(c) <=> PP!Accept(c)
      /\ P!Go(c) <=> PP!Go(c)
  BY DEF P!netVars, PP!netVars, P!listVars, PP!listVars, P!flagVars,
         PP!flagVars, P!Accept, PP!Accept, P!Go, PP!Go
<1>2. /\ P!Loop(c) <=> PP!Loop(c)
      /\ P!Receive(c) <=> PP!Receive(c)
      /\ P!ReceiveRaises(c) <=> PP!ReceiveRaises(c)
      /\ P!PrintNickname(c) <=> PP!PrintNickname(c)
  BY DEF P!netVars, PP!netVars, P!listVars, PP!listVars, P!flagVars,
         PP!flagVars, P!Goto, PP!Goto, P!LoopEnds, PP!LoopEnds, P!Loop,
         PP!Loop, P!Receive, PP!Receive, P!ReceiveRaises, PP!ReceiveRaises,
         P!PrintNickname, PP!PrintNickname
<1>3. /\ P!Sends(c) <=> PP!Sends(c)
      /\ P!SendRaises(c) <=> PP!SendRaises(c)
      /\ P!BroadcastEnds(c) <=> PP!BroadcastEnds(c)
  BY DEF P!netVars, PP!netVars, P!listVars, PP!listVars, P!flagVars,
         PP!flagVars, P!Goto, PP!Goto, P!MayReturn, PP!MayReturn, P!MayRaise,
         PP!MayRaise, P!Sends, PP!Sends, P!SendRaises, PP!SendRaises,
         P!BroadcastEnds, PP!BroadcastEnds
<1>4. /\ P!Close(c) <=> PP!Close(c)
      /\ P!Pop(c) <=> PP!Pop(c)
      /\ P!PopRaises(c) <=> PP!PopRaises(c)
  BY DEF P!netVars, PP!netVars, P!listVars, PP!listVars, P!flagVars,
         PP!flagVars, P!Goto, PP!Goto, P!Close, PP!Close, P!Popped, PP!Popped,
         P!RemoveAt, PP!RemoveAt, P!Pop, PP!Pop, P!PopRaises, PP!PopRaises
<1>5. /\ P!Find(c) <=> PP!Find(c)
      /\ P!Index(c) <=> PP!Index(c)
      /\ P!RemoveClient(c) <=> PP!RemoveClient(c)
  BY SamePlaces
     DEF P!netVars, PP!netVars, P!listVars, PP!listVars, P!flagVars,
         PP!flagVars, P!Goto, PP!Goto, P!Find, PP!Find, P!Removing,
         PP!Removing, P!Index, PP!Index, P!RemoveClient, PP!RemoveClient
<1> QED
  BY <1>1, <1>2, <1>3, <1>4, <1>5 DEF P!Handle, PP!Handle

LEMMA SamePython ==
  /\ P!Init <=> PP!Init
  /\ P!Next <=> PP!Next
  /\ P!TypeOK <=> PP!TypeOK
  /\ P!NicknamesPair <=> PP!NicknamesPair
<1>1. P!Init <=> PP!Init
  BY DEF P!Init, PP!Init
<1>2. P!Next <=> PP!Next
  BY SameMain, SameHandler DEF P!Next, PP!Next
<1>3. P!TypeOK <=> PP!TypeOK
  BY DEF P!TypeOK, PP!TypeOK, P!MainThread, PP!MainThread, P!Handler, PP!Handler
<1>4. \A s : P!Beside(s) <=> PP!Beside(s)
  BY DEF P!Beside, PP!Beside, P!IsPrefix, PP!IsPrefix
<1>5. P!NicknamesPair <=> PP!NicknamesPair
  BY <1>4, SamePlaces DEF P!NicknamesPair, PP!NicknamesPair
<1> QED
  BY <1>1, <1>2, <1>3, <1>5

(***************************************************************************)
(* In the composition of the two servers every variable keeps its type,    *)
(* the Kotlin list its size included.                                      *)
(***************************************************************************)
THEOREM ThreadServersTypes == MCSpec => []ThreadTypes
<1>1. MCInit => KotlinInv /\ PP!ListInv
  BY KotlinInit, SamePython, PP!InitList DEF MCInit
<1>2. KotlinInv /\ [MCNext]_allVars => KotlinInv'
  <2>1. [MCNext]_allVars => [Next]_vars
    BY DEF MCNext, allVars
  <2> QED
    BY <2>1, KotlinStep
<1>3. [MCNext]_allVars => [PP!Next]_PP!vars
  BY SamePython DEF MCNext, allVars, pythonVars, PP!vars
<1>4. PP!ListInv /\ [PP!Next]_PP!vars => PP!ListInv'
  BY PP!StepList
<1>5. KotlinInv /\ PP!ListInv => ThreadTypes
  BY SizeIsBounded, SamePython DEF PP!ListInv, ThreadTypes
<1> QED
  BY <1>1, <1>2, <1>3, <1>4, <1>5, PTL DEF MCSpec

(***************************************************************************)
(* In it, too, the Python server pairs nicknames with clients as long as   *)
(* no two removals overlap.                                                *)
(***************************************************************************)
THEOREM ThreadServersPair == MCSpec => []PythonNicknamesPair
<1>1. MCInit => PP!Init
  BY SamePython DEF MCInit
<1>2. [MCNext]_allVars => [PP!Next]_PP!vars
  BY SamePython DEF MCNext, allVars, pythonVars, PP!vars
<1>3. PP!Init => PP!PairInv
  BY PP!InitPairs
<1>4. PP!PairInv /\ [PP!Next]_PP!vars => PP!PairInv'
  BY PP!StepBoth
<1>5. PP!PairInv => PythonNicknamesPair
  BY SamePython, PP!PairsSuffice DEF PythonNicknamesPair
<1> QED
  BY <1>1, <1>2, <1>3, <1>4, <1>5, PTL DEF MCSpec
=============================================================================
