--------------------------- MODULE ChatRoomProofs ---------------------------
(***************************************************************************)
(* The chat room keeps its promises for any set of clients and any number  *)
(* of posts.                                                               *)
(***************************************************************************)
EXTENDS ChatRoom, SequenceTheorems, TLAPS

(***************************************************************************)
(* Type correctness, and what relates a post on its way to its author's    *)
(* count and to the members it is due to.                                  *)
(***************************************************************************)
RoomTypeOK ==
  /\ members \in SUBSET Clients
  /\ history \in Seq(Message)
  /\ view    \in [Clients -> Seq(Message)]
  /\ count   \in [Clients -> Nat]
  /\ posting \in [Clients -> Seq(Message)]
  /\ due     \in [Clients -> SUBSET Clients]

PostInv ==
  \A a \in Clients :
    /\ due[a] \subseteq members
    /\ posting[a] = << >> => due[a] = {}
    /\ posting[a] # << >> => /\ count[a] > 0
                             /\ Head(posting[a]).who = a
                             /\ Head(posting[a]).n = count[a] - 1

RoomInv == /\ RoomTypeOK
           /\ PostInv
           /\ HistoryComplete
           /\ MembersMissNothing
           /\ AuthorOrder

-----------------------------------------------------------------------------
(***************************************************************************)
(* Appending a message adds its number to its author's posts and leaves    *)
(* the posts of everybody else alone.                                      *)
(***************************************************************************)
LEMMA PostsOfAppend ==
  ASSUME NEW s \in Seq(Message), NEW m \in Message, NEW a \in Clients
  PROVE  PostsOf(Append(s, m), a) =
           PostsOf(s, a) \cup (IF m.who = a THEN {m.n} ELSE {})
<1> DEFINE t == Append(s, m)
<1>1. /\ Len(s) \in Nat
      /\ DOMAIN s = 1 .. Len(s)
      /\ DOMAIN t = 1 .. Len(s) + 1
      /\ \A i \in 1 .. Len(s) : t[i] = s[i]
      /\ t[Len(s) + 1] = m
  BY AppendProperties, LenProperties
<1>2. DOMAIN t = DOMAIN s \cup {Len(s) + 1} /\ Len(s) + 1 \notin DOMAIN s
  BY <1>1
<1>3. \A x : x \in PostsOf(t, a)
               <=> \E i \in DOMAIN t : t[i].who = a /\ x = t[i].n
  BY DEF PostsOf
<1>4. \A x : x \in PostsOf(s, a)
               <=> \E i \in DOMAIN s : s[i].who = a /\ x = s[i].n
  BY DEF PostsOf
<1>5. \A x : x \in PostsOf(t, a)
               <=> x \in PostsOf(s, a) \/ (m.who = a /\ x = m.n)
  BY <1>1, <1>2, <1>3, <1>4
<1> QED
  BY <1>5

(***************************************************************************)
(* A message numbered after all those of its author keeps a sequence in    *)
(* author order.                                                           *)
(***************************************************************************)
LEMMA AuthorOrderAppend ==
  ASSUME NEW s \in Seq(Message), NEW m \in Message,
         InAuthorOrder(s),
         \A n \in PostsOf(s, m.who) : n < m.n
  PROVE  InAuthorOrder(Append(s, m))
<1> DEFINE t == Append(s, m)
<1>1. /\ Len(s) \in Nat
      /\ DOMAIN s = 1 .. Len(s)
      /\ DOMAIN t = 1 .. Len(s) + 1
      /\ \A i \in 1 .. Len(s) : t[i] = s[i]
      /\ t[Len(s) + 1] = m
  BY AppendProperties, LenProperties
<1> SUFFICES ASSUME NEW i \in DOMAIN t, NEW j \in DOMAIN t,
                    i < j, t[i].who = t[j].who
             PROVE  t[i].n < t[j].n
  BY DEF InAuthorOrder
<1>2. CASE j \in DOMAIN s
  <2>1. i \in DOMAIN s
    BY <1>1, <1>2
  <2> QED
    BY <1>1, <1>2, <2>1 DEF InAuthorOrder
<1>3. CASE j = Len(s) + 1
  <2>1. i \in DOMAIN s /\ t[i] = s[i] /\ t[j] = m
    BY <1>1, <1>3
  <2>2. s[i].n \in PostsOf(s, m.who)
    BY <2>1 DEF PostsOf
  <2> QED
    BY <2>1, <2>2
<1> QED
  BY <1>1, <1>2, <1>3

-----------------------------------------------------------------------------
LEMMA RoomInitInv == RoomInit => RoomInv
<1> SUFFICES ASSUME RoomInit PROVE RoomInv
  OBVIOUS
<1>1. RoomTypeOK
  BY EmptySeq DEF RoomInit, RoomTypeOK
<1>2. PostInv
  BY DEF RoomInit, PostInv
<1>3. \A a \in Clients : PostsOf(<< >>, a) = {}
  BY DEF PostsOf
<1>4. HistoryComplete
  <2>1. \A a \in Clients : Finished(a) = 0
    BY DEF RoomInit, Finished
  <2>2. 0 .. 0 - 1 = {}
    OBVIOUS
  <2> QED
    BY <1>3, <2>1, <2>2 DEF RoomInit, HistoryComplete
<1>5. MembersMissNothing
  BY DEF RoomInit, MembersMissNothing
<1>6. AuthorOrder
  BY DEF RoomInit, AuthorOrder, InAuthorOrder
<1> QED
  BY <1>1, <1>2, <1>4, <1>5, <1>6 DEF RoomInv

(***************************************************************************)
(* Entering: the newcomer's view is the history, which is complete because *)
(* no post is on its way.                                                  *)
(***************************************************************************)
LEMMA EnterInv ==
  ASSUME RoomInv, NEW c \in Clients, Enter(c)
  PROVE  RoomInv'
<1> USE DEF RoomInv
<1>1. RoomTypeOK'
  BY DEF RoomTypeOK, Enter
<1>2. PostInv'
  BY DEF PostInv, Enter
<1>3. HistoryComplete'
  BY DEF HistoryComplete, Enter, Finished
<1>4. \A a \in Clients : Finished(a) = count[a] /\ c \notin due[a]
  BY DEF Finished, Enter, Quiet, PostInv
<1>5. \A d \in members : view'[d] = view[d]
  BY DEF Enter, RoomTypeOK
<1>6. view'[c] = history
  BY DEF Enter, RoomTypeOK
<1>7. MembersMissNothing'
  BY <1>4, <1>5, <1>6 DEF MembersMissNothing, HistoryComplete, Enter, Given
<1>8. AuthorOrder'
  BY <1>6 DEF AuthorOrder, Enter, RoomTypeOK
<1> QED
  BY <1>1, <1>2, <1>3, <1>7, <1>8

LEMMA LeaveInv ==
  ASSUME RoomInv, NEW c \in Clients, Leave(c)
  PROVE  RoomInv'
<1> USE DEF RoomInv
<1>1. RoomTypeOK'
  BY DEF RoomTypeOK, Leave
<1>2. PostInv'
  BY DEF PostInv, Leave, Quiet
<1>3. HistoryComplete'
  BY DEF HistoryComplete, Leave, Finished
<1>4. MembersMissNothing'
  BY DEF MembersMissNothing, Leave, Given
<1>5. AuthorOrder'
  BY DEF AuthorOrder, Leave
<1> QED
  BY <1>1, <1>2, <1>3, <1>4, <1>5

(***************************************************************************)
(* A post that begins is due to every member, so nobody's share changes.   *)
(***************************************************************************)
LEMMA BeginPostInv ==
  ASSUME RoomInv, NEW a \in Clients, NEW k \in Kinds, BeginPost(a, k)
  PROVE  RoomInv'
<1> USE DEF RoomInv
<1> DEFINE m == [who |-> a, n |-> count[a], kind |-> k]
<1>0. m \in Message /\ <<m>> \in Seq(Message) /\ <<m>> # << >>
  BY DEF RoomTypeOK, Message
<1>1. RoomTypeOK'
  BY <1>0 DEF RoomTypeOK, BeginPost
<1>2. /\ count'[a] = count[a] + 1 /\ posting'[a] = <<m>> /\ due'[a] = members
      /\ \A b \in Clients \ {a} : /\ count'[b] = count[b]
                                  /\ posting'[b] = posting[b]
                                  /\ due'[b] = due[b]
      /\ members' = members /\ history' = history /\ view' = view
  BY DEF BeginPost, RoomTypeOK
<1>3. count[a] \in Nat
  BY DEF RoomTypeOK
<1>4. PostInv'
  <2> SUFFICES ASSUME NEW b \in Clients
               PROVE  PostInv!(b)'
    BY DEF PostInv
  <2>1. CASE b = a
    <3>1. Head(<<m>>).who = a /\ Head(<<m>>).n = count[a]
      OBVIOUS
    <3>2. count[a] + 1 > 0 /\ (count[a] + 1) - 1 = count[a]
      BY <1>3
    <3> HIDE DEF m
    <3> QED
      BY <1>0, <1>2, <2>1, <3>1, <3>2
  <2>2. CASE b # a
    BY <1>2, <2>2 DEF PostInv
  <2> QED
    BY <2>1, <2>2
<1>5. \A b \in Clients : Finished(b)' = Finished(b)
  BY <1>0, <1>2, <1>3 DEF Finished, BeginPost
<1>6. HistoryComplete'
  BY <1>2, <1>5 DEF HistoryComplete
<1>7. \A b \in Clients, c \in members : Given(b, c)' = Given(b, c)
  BY <1>2, <1>3 DEF Given, PostInv, BeginPost
<1>8. MembersMissNothing'
  BY <1>2, <1>7 DEF MembersMissNothing
<1>9. AuthorOrder'
  BY <1>2 DEF AuthorOrder
<1> QED
  BY <1>1, <1>4, <1>6, <1>8, <1>9

-----------------------------------------------------------------------------
(***************************************************************************)
(* Delivering and finishing append the author's newest post to a sequence  *)
(* that holds all the earlier ones.                                        *)
(***************************************************************************)
LEMMA NewestPost ==
  ASSUME RoomInv, NEW a \in Clients, posting[a] # << >>,
         NEW s \in Seq(Message), InAuthorOrder(s),
         PostsOf(s, a) = 0 .. count[a] - 2
  PROVE  LET t == Append(s, Head(posting[a]))
         IN  /\ t \in Seq(Message)
             /\ InAuthorOrder(t)
             /\ PostsOf(t, a) = 0 .. count[a] - 1
             /\ \A b \in Clients \ {a} : PostsOf(t, b) = PostsOf(s, b)
<1> DEFINE m == Head(posting[a])
<1>1. m \in Message /\ m.who = a /\ m.n = count[a] - 1
  BY HeadTailProperties DEF RoomInv, RoomTypeOK, PostInv
<1>2. count[a] \in Nat /\ count[a] > 0
  BY DEF RoomInv, RoomTypeOK, PostInv
<1> HIDE DEF m
<1>3. Append(s, m) \in Seq(Message)
  BY <1>1, AppendProperties
<1>4. InAuthorOrder(Append(s, m))
  <2>1. \A n \in PostsOf(s, m.who) : n < m.n
    BY <1>1, <1>2
  <2> QED
    BY <1>1, <2>1, AuthorOrderAppend
<1>5. PostsOf(Append(s, m), a) = PostsOf(s, a) \cup {m.n}
  BY <1>1, PostsOfAppend
<1>6. PostsOf(Append(s, m), a) = 0 .. count[a] - 1
  BY <1>1, <1>2, <1>5
<1>7. ASSUME NEW b \in Clients \ {a}
      PROVE  PostsOf(Append(s, m), b) = PostsOf(s, b)
  <2>1. PostsOf(Append(s, m), b)
          = PostsOf(s, b) \cup (IF m.who = b THEN {m.n} ELSE {})
    BY <1>1, PostsOfAppend
  <2> QED
    BY <1>1, <2>1
<1> QED
  BY <1>3, <1>4, <1>6, <1>7 DEF m

LEMMA DeliverInv ==
  ASSUME RoomInv, NEW a \in Clients, NEW c \in Clients, Deliver(a, c)
  PROVE  RoomInv'
<1> USE DEF RoomInv
<1> DEFINE t == Append(view[c], Head(posting[a]))
<1>1. /\ view'[c] = t /\ due'[a] = due[a] \ {c}
      /\ \A d \in Clients \ {c} : view'[d] = view[d]
      /\ \A b \in Clients \ {a} : due'[b] = due[b]
      /\ members' = members /\ history' = history
      /\ count' = count /\ posting' = posting
      /\ posting[a] # << >> /\ c \in due[a]
  BY DEF Deliver, RoomTypeOK
<1>2. c \in members /\ count[a] \in Nat
  BY <1>1 DEF PostInv, RoomTypeOK
<1>3. view[c] \in Seq(Message) /\ InAuthorOrder(view[c])
  BY DEF RoomTypeOK, AuthorOrder
<1>4. PostsOf(view[c], a) = 0 .. count[a] - 2
  <2>1. PostsOf(view[c], a) = 0 .. (count[a] - 1) - 1
    BY <1>1, <1>2 DEF MembersMissNothing, Given
  <2> QED
    BY <1>2, <2>1
<1>5. /\ t \in Seq(Message) /\ InAuthorOrder(t)
      /\ PostsOf(t, a) = 0 .. count[a] - 1
      /\ \A b \in Clients \ {a} : PostsOf(t, b) = PostsOf(view[c], b)
  BY <1>1, <1>3, <1>4, NewestPost
<1>6. RoomTypeOK'
  BY <1>5 DEF RoomTypeOK, Deliver
<1>7. PostInv'
  BY <1>1 DEF PostInv
<1>8. HistoryComplete'
  BY <1>1 DEF HistoryComplete, Finished
<1>9. MembersMissNothing'
  <2> SUFFICES ASSUME NEW d \in members, NEW b \in Clients
               PROVE  PostsOf(view'[d], b) = 0 .. Given(b, d)' - 1
    BY <1>1 DEF MembersMissNothing
  <2>0. d \in Clients
    BY DEF RoomTypeOK
  <2>1. CASE d = c /\ b = a
    BY <1>1, <1>5, <2>1 DEF Given
  <2>2. CASE d # c \/ b # a
    <3>1. Given(b, d)' = Given(b, d)
      BY <1>1, <2>2 DEF Given
    <3>2. PostsOf(view'[d], b) = PostsOf(view[d], b)
      BY <1>1, <1>5, <2>0, <2>2
    <3> QED
      BY <3>1, <3>2 DEF MembersMissNothing
  <2> QED
    BY <2>1, <2>2
<1>10. AuthorOrder'
  BY <1>1, <1>5 DEF AuthorOrder
<1> QED
  BY <1>6, <1>7, <1>8, <1>9, <1>10

LEMMA EndPostInv ==
  ASSUME RoomInv, NEW a \in Clients, EndPost(a)
  PROVE  RoomInv'
<1> USE DEF RoomInv
<1> DEFINE t == Append(history, Head(posting[a]))
<1>1. /\ history' = t /\ posting'[a] = << >>
      /\ \A b \in Clients \ {a} : posting'[b] = posting[b]
      /\ members' = members /\ view' = view /\ count' = count /\ due' = due
      /\ posting[a] # << >> /\ due[a] = {}
  BY DEF EndPost, RoomTypeOK
<1>2. history \in Seq(Message) /\ InAuthorOrder(history) /\ count[a] \in Nat
  BY DEF RoomTypeOK, AuthorOrder
<1>3. PostsOf(history, a) = 0 .. count[a] - 2
  <2>1. PostsOf(history, a) = 0 .. (count[a] - 1) - 1
    BY <1>1 DEF HistoryComplete, Finished
  <2> QED
    BY <1>2, <2>1
<1>4. /\ t \in Seq(Message) /\ InAuthorOrder(t)
      /\ PostsOf(t, a) = 0 .. count[a] - 1
      /\ \A b \in Clients \ {a} : PostsOf(t, b) = PostsOf(history, b)
  BY <1>1, <1>2, <1>3, NewestPost
<1>5. RoomTypeOK'
  BY <1>4, EmptySeq DEF RoomTypeOK, EndPost
<1>6. PostInv'
  BY <1>1 DEF PostInv
<1>7. HistoryComplete'
  <2> SUFFICES ASSUME NEW b \in Clients
               PROVE  PostsOf(history', b) = 0 .. Finished(b)' - 1
    BY DEF HistoryComplete
  <2>1. CASE b = a
    BY <1>1, <1>4, <2>1 DEF Finished
  <2>2. CASE b # a
    BY <1>1, <1>4, <2>2 DEF Finished, HistoryComplete
  <2> QED
    BY <2>1, <2>2
<1>8. MembersMissNothing'
  BY <1>1 DEF MembersMissNothing, Given
<1>9. AuthorOrder'
  BY <1>1, <1>4 DEF AuthorOrder
<1> QED
  BY <1>5, <1>6, <1>7, <1>8, <1>9

-----------------------------------------------------------------------------
LEMMA RoomStepInv == RoomInv /\ [RoomNext]_roomVars => RoomInv'
<1> SUFFICES ASSUME RoomInv, [RoomNext]_roomVars PROVE RoomInv'
  OBVIOUS
<1>1. CASE RoomNext
  BY <1>1, EnterInv, LeaveInv, BeginPostInv, DeliverInv, EndPostInv
     DEF RoomNext
<1>2. CASE UNCHANGED roomVars
  BY <1>2 DEF roomVars, RoomInv, RoomTypeOK, PostInv, HistoryComplete,
              MembersMissNothing, AuthorOrder, Finished, Given
<1> QED
  BY <1>1, <1>2

(***************************************************************************)
(* In the chat room no member misses a post, nobody is given a post twice  *)
(* or an author's posts out of order, and the history is complete.         *)
(***************************************************************************)
THEOREM RoomKeepsItsPromises ==
  RoomSpec => [](MembersMissNothing /\ HistoryComplete /\ AuthorOrder)
<1>1. RoomInv => MembersMissNothing /\ HistoryComplete /\ AuthorOrder
  BY DEF RoomInv
<1> QED
  BY RoomInitInv, RoomStepInv, <1>1, PTL DEF RoomSpec
=============================================================================
