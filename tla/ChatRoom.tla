------------------------------ MODULE ChatRoom ------------------------------
(***************************************************************************)
(* What a BeTalk server promises its members, without locks, tasks or      *)
(* sockets.  Someone who enters is handed the whole history and from then  *)
(* on gets every message posted, once, until they leave; the messages of   *)
(* one author reach everybody in the order they were posted.  Posts of     *)
(* different authors overlap and may reach two members in different        *)
(* orders, and the history in a third: the room promises no total order.   *)
(***************************************************************************)
EXTENDS Naturals, Sequences

CONSTANTS
  Clients,   \* everyone who may ever enter; each enters at most once
  Kinds      \* what a message may be: a user's text or a notice of the server

VARIABLES
  members,   \* who is in the room
  history,   \* the finished posts, in the order they finished
  view,      \* view[c]: what c has been given, in order
  count,     \* count[a]: how many posts a has begun
  posting,   \* posting[a]: << >>, or a's post on its way
  due        \* due[a]: the members a's post has yet to reach

roomVars == <<members, history, view, count, posting, due>>

Message == [who : Clients, n : Nat, kind : Kinds]

RoomInit ==
  /\ members = {}
  /\ history = << >>
  /\ view    = [c \in Clients |-> << >>]
  /\ count   = [a \in Clients |-> 0]
  /\ posting = [a \in Clients |-> << >>]
  /\ due     = [a \in Clients |-> {}]

(***************************************************************************)
(* Entering and leaving never happen in the middle of a post.              *)
(***************************************************************************)
Quiet == \A a \in Clients : posting[a] = << >>

Enter(c) ==
  /\ Quiet
  /\ c \notin members
  /\ view[c] = << >>
  /\ members' = members \cup {c}
  /\ view' = [view EXCEPT ![c] = history]
  /\ UNCHANGED <<history, count, posting, due>>

Leave(c) ==
  /\ Quiet
  /\ c \in members
  /\ members' = members \ {c}
  /\ UNCHANGED <<history, view, count, posting, due>>

(***************************************************************************)
(* A post is numbered by its author, is owed to everyone present when it   *)
(* begins, and enters the history once all of them have it.                *)
(***************************************************************************)
BeginPost(a, k) ==
  /\ posting[a] = << >>
  /\ posting' = [posting EXCEPT ![a] = <<[who |-> a, n |-> count[a], kind |-> k]>>]
  /\ count' = [count EXCEPT ![a] = @ + 1]
  /\ due' = [due EXCEPT ![a] = members]
  /\ UNCHANGED <<members, history, view>>

Deliver(a, c) ==
  /\ posting[a] # << >>
  /\ c \in due[a]
  /\ view' = [view EXCEPT ![c] = Append(@, Head(posting[a]))]
  /\ due' = [due EXCEPT ![a] = @ \ {c}]
  /\ UNCHANGED <<members, history, count, posting>>

EndPost(a) ==
  /\ posting[a] # << >>
  /\ due[a] = {}
  /\ history' = Append(history, Head(posting[a]))
  /\ posting' = [posting EXCEPT ![a] = << >>]
  /\ UNCHANGED <<members, view, count, due>>

RoomNext ==
  \/ \E c \in Clients : Enter(c) \/ Leave(c)
  \/ \E a \in Clients : \/ \E k \in Kinds : BeginPost(a, k)
                        \/ \E c \in Clients : Deliver(a, c)
                        \/ EndPost(a)

RoomSpec == RoomInit /\ [][RoomNext]_roomVars

-----------------------------------------------------------------------------
(***************************************************************************)
(* The numbers of a's posts in the sequence s of messages.                 *)
(***************************************************************************)
PostsOf(s, a) == {s[i].n : i \in {j \in DOMAIN s : s[j].who = a}}

(***************************************************************************)
(* How many posts of a are finished, and how many are with c by now.       *)
(***************************************************************************)
Finished(a) == IF posting[a] = << >> THEN count[a] ELSE count[a] - 1
Given(a, c) == IF c \in due[a] THEN count[a] - 1 ELSE count[a]

(***************************************************************************)
(* The history holds every finished post, and nothing else.                *)
(***************************************************************************)
HistoryComplete ==
  \A a \in Clients : PostsOf(history, a) = 0 .. Finished(a) - 1

(***************************************************************************)
(* A member has been given every post there ever was, those from before it *)
(* entered included, except the ones still on their way to it.             *)
(***************************************************************************)
MembersMissNothing ==
  \A c \in members, a \in Clients :
    PostsOf(view[c], a) = 0 .. Given(a, c) - 1

(***************************************************************************)
(* Nobody is given a post twice, or two posts of one author in the wrong   *)
(* order, whether as history or live, before or after leaving.             *)
(***************************************************************************)
InAuthorOrder(s) ==
  \A i, j \in DOMAIN s : i < j /\ s[i].who = s[j].who => s[i].n < s[j].n

AuthorOrder ==
  InAuthorOrder(history) /\ \A c \in Clients : InAuthorOrder(view[c])
=============================================================================
