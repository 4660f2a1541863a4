------------------------- MODULE FlutterClientProofs -------------------------
(***************************************************************************)
(* The Flutter client's packet queue, for any number of packets and        *)
(* whatever the chunks: packets are shown in order, and those that come in *)
(* chunks which each end one are all shown.                                *)
(***************************************************************************)
EXTENDS FlutterClient, SequenceTheorems, WellFoundedInduction, TLAPS

-----------------------------------------------------------------------------
(***************************************************************************)
(* Sequences.                                                              *)
(***************************************************************************)
LEMMA FunctionIsSequence ==
  ASSUME NEW S, NEW n \in Nat, NEW f \in [1 .. n -> S]
  PROVE  f \in Seq(S) /\ Len(f) = n
<1>1. f \in Seq(S)
  BY SeqDef
<1>2. Len(f) \in Nat /\ DOMAIN f = 1 .. Len(f) /\ DOMAIN f = 1 .. n
  BY <1>1, LenProperties
<1> QED
  BY <1>1, <1>2

LEMMA LeastExists ==
  ASSUME NEW I, I \subseteq Nat, I # {}
  PROVE  \E i \in I : \A j \in I : i <= j
<1>1. PICK x \in I : \A y \in I : ~(<<y, x>> \in OpToRel(<, Nat))
  BY NatLessThanWellFounded, WFMin
<1>2. ASSUME NEW y \in I
      PROVE  x <= y
  <2> SUFFICES ASSUME y < x PROVE FALSE
    OBVIOUS
  <2>1. <<y, x>> \in Nat \X Nat /\ <<y, x>>[1] < <<y, x>>[2]
    OBVIOUS
  <2>2. <<y, x>> \in OpToRel(<, Nat)
    BY <2>1, Zenon DEF OpToRel
  <2> QED
    BY <1>1, <2>2
<1> QED
  BY <1>2

LEMMA MinOfSet ==
  ASSUME NEW I, I \subseteq Nat, I # {}
  PROVE  Min(I) \in I /\ \A i \in I : Min(I) <= i
<1>1. \E i \in I : \A j \in I : i <= j
  BY LeastExists
<1> QED
  BY <1>1 DEF Min

(***************************************************************************)
(* f holds, at each place, all of the sequences up to that place in a row. *)
(***************************************************************************)
Rows(f, seqs, m) ==
  f = [i \in 1 .. m |-> IF i = 1 THEN seqs[i] ELSE f[i - 1] \o seqs[i]]

LEMMA RowsExist ==
  ASSUME NEW seqs, NEW m \in Nat
  PROVE  \E f : Rows(f, seqs, m)
<1> DEFINE Missing == {n \in Nat : ~\E f : Rows(f, seqs, n)}
<1> SUFFICES ASSUME Missing # {} PROVE FALSE
  OBVIOUS
<1>1. PICK n \in Missing : \A k \in Missing : n <= k
  BY LeastExists
<1>2. n \in Nat /\ \A k \in Nat : k < n => k \notin Missing
  BY <1>1
<1>3. CASE n = 0
  <2> DEFINE f == [i \in 1 .. 0 |-> {}]
  <2>1. f = [i \in 1 .. 0 |-> IF i = 1 THEN seqs[i] ELSE f[i - 1] \o seqs[i]]
    OBVIOUS
  <2>2. Rows(f, seqs, 0)
    BY <2>1 DEF Rows
  <2> QED
    BY <1>1, <1>3, <2>2
<1>4. CASE n # 0
  <2>1. n - 1 \in Nat /\ n - 1 \notin Missing
    BY <1>2, <1>4
  <2>2. PICK f : Rows(f, seqs, n - 1)
    BY <2>1
  <2> DEFINE Row(g, i) == IF i = 1 THEN seqs[i] ELSE g[i - 1] \o seqs[i]
             g == [i \in 1 .. n |-> Row(f, i)]
  <2>3. \A i \in 1 .. n - 1 : f[i] = Row(f, i)
    BY <2>2 DEF Rows
  <2>4. \A i \in 1 .. n : Row(g, i) = Row(f, i)
    <3>1. \A i \in 1 .. n : i # 1 => i - 1 \in 1 .. n - 1 /\ i - 1 \in 1 .. n
      BY <1>2
    <3>2. \A i \in 1 .. n : i # 1 => g[i - 1] = f[i - 1]
      BY <2>3, <3>1
    <3> HIDE DEF g
    <3> QED
      BY <3>2
  <2>5. g = [i \in 1 .. n |-> Row(g, i)]
    BY <2>4
  <2>6. Rows(g, seqs, n)
    BY <2>5 DEF Rows
  <2> QED
    BY <1>1, <2>6
<1> QED
  BY <1>3, <1>4

LEMMA FlattenRows ==
  ASSUME NEW S, NEW seqs \in Seq(Seq(S)), Len(seqs) # 0
  PROVE  \E f : /\ FlattenSeq(seqs) = f[Len(seqs)]
                /\ f[1] = seqs[1]
                /\ \A i \in 2 .. Len(seqs) : f[i] = f[i - 1] \o seqs[i]
<1> DEFINE flatten[i \in 1 .. Len(seqs)] ==
             IF i = 1 THEN seqs[i] ELSE flatten[i - 1] \o seqs[i]
<1>1. FlattenSeq(seqs) = flatten[Len(seqs)]
  BY DEF FlattenSeq
<1>2. Len(seqs) \in Nat \ {0}
  OBVIOUS
<1>3. \E f : f = [i \in 1 .. Len(seqs) |->
                    IF i = 1 THEN seqs[i] ELSE f[i - 1] \o seqs[i]]
  BY <1>2, RowsExist DEF Rows
<1>4. flatten = [i \in 1 .. Len(seqs) |->
                   IF i = 1 THEN seqs[i] ELSE flatten[i - 1] \o seqs[i]]
  BY <1>3
<1> HIDE DEF flatten
<1>5. flatten[1] = seqs[1]
  BY <1>2, <1>4
<1>6. ASSUME NEW i \in 2 .. Len(seqs)
      PROVE  flatten[i] = flatten[i - 1] \o seqs[i]
  <2>1. i \in 1 .. Len(seqs) /\ i # 1
    BY <1>2
  <2> QED
    BY <1>4, <2>1
<1> QED
  BY <1>1, <1>5, <1>6

(***************************************************************************)
(* One sequence of all of them.                                            *)
(***************************************************************************)
LEMMA FlattenIsSequence ==
  ASSUME NEW S, NEW seqs \in Seq(Seq(S))
  PROVE  FlattenSeq(seqs) \in Seq(S)
<1>1. CASE Len(seqs) = 0
  <2>1. seqs = << >>
    BY <1>1, EmptySeq
  <2> QED
    BY <1>1, <2>1 DEF FlattenSeq
<1>2. CASE Len(seqs) # 0
  <2>1. PICK f : /\ FlattenSeq(seqs) = f[Len(seqs)]
                 /\ f[1] = seqs[1]
                 /\ \A i \in 2 .. Len(seqs) : f[i] = f[i - 1] \o seqs[i]
    BY <1>2, FlattenRows
  <2>2. Len(seqs) \in Nat \ {0} /\ \A i \in 1 .. Len(seqs) : seqs[i] \in Seq(S)
    BY <1>2
  <2> DEFINE Wrong == {i \in 1 .. Len(seqs) : f[i] \notin Seq(S)}
  <2>3. Wrong = {}
    <3> SUFFICES ASSUME Wrong # {} PROVE FALSE
      OBVIOUS
    <3>1. Wrong \subseteq Nat
      BY <2>2
    <3>2. PICK n \in Wrong : \A k \in Wrong : n <= k
      BY <3>1, LeastExists
    <3>3. n # 1
      BY <2>1, <2>2, <3>2
    <3>4. n \in 2 .. Len(seqs) /\ n - 1 \in 1 .. Len(seqs) /\ n - 1 \notin Wrong
      BY <2>2, <3>2, <3>3
    <3>5. f[n] = f[n - 1] \o seqs[n]
      BY <2>1, <3>4
    <3>6. f[n - 1] \in Seq(S) /\ seqs[n] \in Seq(S)
      BY <2>2, <3>2, <3>4
    <3>7. f[n - 1] \o seqs[n] \in Seq(S)
      BY <3>6, ConcatProperties
    <3> QED
      BY <3>2, <3>5, <3>7
  <2>4. Len(seqs) \in 1 .. Len(seqs)
    BY <2>2
  <2> QED
    BY <2>1, <2>3, <2>4
<1> QED
  BY <1>1, <1>2

LEMMA FlattenOne ==
  ASSUME NEW S, NEW s \in Seq(S)
  PROVE  FlattenSeq(<<s>>) = s
<1>1. <<s>> \in Seq(Seq(S)) /\ Len(<<s>>) = 1 /\ <<s>>[1] = s
  OBVIOUS
<1> DEFINE one == <<s>>
<1>2. one \in Seq(Seq(S)) /\ Len(one) # 0
  BY <1>1
<1> HIDE DEF one
<1>3. \E f : /\ FlattenSeq(one) = f[Len(one)]
             /\ f[1] = one[1]
             /\ \A i \in 2 .. Len(one) : f[i] = f[i - 1] \o one[i]
  BY <1>2, FlattenRows
<1>4. FlattenSeq(one) = one[1]
  BY <1>1, <1>3 DEF one
<1> QED
  BY <1>1, <1>4 DEF one

LEMMA FlattenTwo ==
  ASSUME NEW S, NEW s \in Seq(S), NEW t \in Seq(S)
  PROVE  FlattenSeq(<<s, t>>) = s \o t
<1> DEFINE both == <<s, t>>
<1>1. both \in Seq(Seq(S)) /\ Len(both) = 2 /\ both[1] = s /\ both[2] = t
  OBVIOUS
<1>5. Len(both) # 0
  BY <1>1
<1> HIDE DEF both
<1>2. PICK f : /\ FlattenSeq(both) = f[Len(both)]
               /\ f[1] = both[1]
               /\ \A i \in 2 .. Len(both) : f[i] = f[i - 1] \o both[i]
  BY <1>1, <1>5, FlattenRows
<1>3. 2 \in 2 .. Len(both) /\ 2 - 1 = 1
  BY <1>1
<1>4. f[2] = f[1] \o both[2]
  BY <1>2, <1>3
<1> QED
  BY <1>1, <1>2, <1>4 DEF both

-----------------------------------------------------------------------------
(***************************************************************************)
(* Bytes, and their places in the stream.                                  *)
(***************************************************************************)
Bytes == [packet : 1 .. Packets,
          part   : {"head", "lead", "trail", "tail", "newline"}]

Rank == [head |-> 1, lead |-> 2, trail |-> 3, tail |-> 4, newline |-> 5]

Place(byte) == 5 * (byte.packet - 1) + Rank[byte.part]

LEMMA LineIsFive ==
  ASSUME NEW p \in 1 .. Packets
  PROVE  /\ Line(p) \in Seq(Bytes) /\ Len(Line(p)) = 5
         /\ \A r \in 1 .. 5 : /\ Line(p)[r].packet = p /\ Line(p)[r].part = Parts[r]
                              /\ Line(p)[r] \in Bytes
                              /\ Rank[Parts[r]] = r
<1>1. Len(Parts) = 5 /\ DOMAIN Parts = 1 .. 5
  BY DEF Parts
<1>2. ASSUME NEW r \in 1 .. 5
      PROVE  /\ Parts[r] \in {"head", "lead", "trail", "tail", "newline"}
             /\ Rank[Parts[r]] = r
  <2>1. r = 1 \/ r = 2 \/ r = 3 \/ r = 4 \/ r = 5
    OBVIOUS
  <2> QED
    BY <2>1 DEF Parts, Rank
<1>3. Line(p) = [r \in 1 .. 5 |-> [packet |-> p, part |-> Parts[r]]]
  BY <1>1 DEF Line
<1>4. \A r \in 1 .. 5 : [packet |-> p, part |-> Parts[r]] \in Bytes
  BY <1>2 DEF Bytes
<1>5. Line(p) \in [1 .. 5 -> Bytes]
  BY <1>3, <1>4
<1>6. Line(p) \in Seq(Bytes) /\ Len(Line(p)) = 5
  BY <1>5, FunctionIsSequence
<1>7. ASSUME NEW r \in 1 .. 5
      PROVE  Line(p)[r].packet = p /\ Line(p)[r].part = Parts[r]
  BY <1>3
<1> QED
  BY <1>2, <1>3, <1>4, <1>6, <1>7

LEMMA StreamAt ==
  /\ Stream \in Seq(Bytes) /\ Len(Stream) = 5 * Packets
  /\ \A p \in 1 .. Packets, r \in 1 .. 5 : Stream[5 * (p - 1) + r] = Line(p)[r]
<1> DEFINE lines == [p \in 1 .. Packets |-> Line(p)]
<1>1. lines \in Seq(Seq(Bytes)) /\ Len(lines) = Packets
      /\ \A p \in 1 .. Packets : lines[p] = Line(p)
  <2>1. lines \in [1 .. Packets -> Seq(Bytes)]
    BY LineIsFive
  <2> QED
    BY <2>1, PacketsAssumption
<1>2. Stream = FlattenSeq(lines)
  BY DEF Stream
<1> HIDE DEF lines
<1>3. CASE Packets = 0
  <2>1. lines = << >> /\ Len(lines) = 0
    BY <1>1, <1>3, EmptySeq
  <2>2. Stream = << >>
    BY <1>2, <2>1 DEF FlattenSeq
  <2> QED
    BY <1>3, <2>2, EmptySeq
<1>4. CASE Packets # 0
  <2>1. PICK f : /\ FlattenSeq(lines) = f[Packets]
                 /\ f[1] = lines[1]
                 /\ \A i \in 2 .. Packets : f[i] = f[i - 1] \o lines[i]
    BY <1>1, <1>4, FlattenRows
  <2> DEFINE Right(k) ==
               /\ f[k] \in Seq(Bytes) /\ Len(f[k]) = 5 * k
               /\ \A p \in 1 .. k, r \in 1 .. 5 : f[k][5 * (p - 1) + r] = Line(p)[r]
             Wrong == {k \in 1 .. Packets : ~Right(k)}
  <2>2. Wrong = {}
    <3> SUFFICES ASSUME Wrong # {} PROVE FALSE
      OBVIOUS
    <3>1. Wrong \subseteq Nat
      OBVIOUS
    <3>2. PICK n \in Wrong : \A k \in Wrong : n <= k
      BY <3>1, LeastExists
    <3> HIDE DEF Wrong
    <3>3. n \in 1 .. Packets /\ ~Right(n)
          /\ \A k \in 1 .. Packets : k < n => Right(k)
      <4>1. n \in Wrong
        BY <3>2
      <4>2. \A k \in 1 .. Packets : k < n => k \notin Wrong
        BY <3>1, <3>2
      <4> QED
        BY <4>1, <4>2 DEF Wrong
    <3>4. lines[n] = Line(n) /\ Line(n) \in Seq(Bytes) /\ Len(Line(n)) = 5
      BY <1>1, <3>3, LineIsFive
    <3>5. CASE n = 1
      <4>1. f[n] = Line(n)
        BY <2>1, <3>4, <3>5
      <4>2. \A p \in 1 .. n, r \in 1 .. 5 : p = n /\ 5 * (p - 1) + r = r
        BY <3>5
      <4>3. \A p \in 1 .. n, r \in 1 .. 5 : f[n][5 * (p - 1) + r] = Line(p)[r]
        BY <4>1, <4>2
      <4>4. 5 * n = 5
        BY <3>5
      <4> QED
        BY <3>3, <3>4, <4>1, <4>3, <4>4
    <3>6. CASE n # 1
      <4>1. n \in 2 .. Packets /\ n - 1 \in 1 .. Packets /\ n - 1 < n
        BY <3>3, <3>6, PacketsAssumption
      <4>2. Right(n - 1)
        BY <3>3, <4>1
      <4>3. f[n] = f[n - 1] \o Line(n)
        BY <2>1, <3>4, <4>1
      <4>4. f[n] \in Seq(Bytes) /\ Len(f[n]) = 5 * (n - 1) + 5
            /\ \A i \in 1 .. 5 * (n - 1) + 5 :
                 f[n][i] = IF i <= 5 * (n - 1) THEN f[n - 1][i]
                           ELSE Line(n)[i - 5 * (n - 1)]
        <5> DEFINE m == 5 * (n - 1)
                   s == f[n - 1]
                   t == Line(n)
        <5>1. s \in Seq(Bytes) /\ Len(s) = m /\ f[n] = s \o t
          BY <4>2, <4>3
        <5>2. t \in Seq(Bytes) /\ Len(t) = 5
          BY <3>4
        <5> HIDE DEF m, s, t
        <5>3. /\ s \o t \in Seq(Bytes) /\ Len(s \o t) = Len(s) + Len(t)
              /\ \A i \in 1 .. Len(s) + Len(t) :
                   (s \o t)[i] = IF i <= Len(s) THEN s[i] ELSE t[i - Len(s)]
          BY <5>1, <5>2, ConcatProperties
        <5>4. f[n] \in Seq(Bytes) /\ Len(f[n]) = m + 5
              /\ \A i \in 1 .. m + 5 : f[n][i] = IF i <= m THEN s[i] ELSE t[i - m]
          BY <5>1, <5>2, <5>3
        <5> QED
          BY <5>4 DEF m, s, t
      <4>5. 5 * (n - 1) + 5 = 5 * n
        BY <4>1
      <4>6. ASSUME NEW p \in 1 .. n, NEW r \in 1 .. 5
            PROVE  f[n][5 * (p - 1) + r] = Line(p)[r]
        <5> DEFINE i == 5 * (p - 1) + r
        <5>1. i \in 1 .. 5 * (n - 1) + 5
          BY <4>1
        <5>2. CASE p = n
          <6>1. ~(i <= 5 * (n - 1)) /\ i - 5 * (n - 1) = r
            BY <4>1, <5>2
          <6> HIDE DEF i
          <6>2. f[n][i] = Line(n)[r]
            BY <4>4, <5>1, <6>1
          <6> QED
            BY <5>2, <6>2 DEF i
        <5>3. CASE p # n
          <6>1. i <= 5 * (n - 1) /\ p \in 1 .. n - 1
            BY <4>1, <5>3
          <6>2. f[n - 1][i] = Line(p)[r]
            BY <4>2, <6>1
          <6> HIDE DEF i
          <6>3. f[n][i] = f[n - 1][i]
            BY <4>4, <5>1, <6>1
          <6> QED
            BY <6>2, <6>3 DEF i
        <5> QED
          BY <5>2, <5>3
      <4>7. Right(n)
        BY <4>4, <4>5, <4>6
      <4> QED
        BY <3>3, <4>7
    <3> QED
      BY <3>5, <3>6
  <2>3. Packets \in 1 .. Packets
    BY <1>4, PacketsAssumption
  <2>4. Right(Packets)
    BY <2>2, <2>3
  <2> HIDE DEF Right
  <2> QED
    BY <1>2, <2>1, <2>4 DEF Right
<1> QED
  BY <1>3, <1>4, PacketsAssumption

LEMMA PlaceInStream ==
  ASSUME NEW n \in 1 .. 5 * Packets
  PROVE  Stream[n] \in Bytes /\ Place(Stream[n]) = n
<1> DEFINE d == (n - 1) \div 5
           m == (n - 1) % 5
           p == d + 1
           r == m + 1
<1>1. p \in 1 .. Packets /\ r \in 1 .. 5 /\ n = 5 * (p - 1) + r
  <2>1. n \in Nat /\ n - 1 \in Nat /\ n - 1 < 5 * Packets
    BY PacketsAssumption
  <2>2. d \in Int /\ m \in 0 .. 4 /\ n - 1 = 5 * d + m
    BY <2>1
  <2> HIDE DEF d, m
  <2> QED
    BY <2>1, <2>2, PacketsAssumption
<1> HIDE DEF p, r
<1>2. Stream[n] = Line(p)[r]
  BY <1>1, StreamAt
<1>3. Stream[n] \in Bytes /\ Rank[Parts[r]] = r
  BY <1>1, <1>2, LineIsFive
<1>4. Stream[n].packet = p /\ Stream[n].part = Parts[r]
  BY <1>1, <1>2, LineIsFive
<1>5. Place(Stream[n]) = 5 * (p - 1) + r
  BY <1>3, <1>4 DEF Place
<1> QED
  BY <1>1, <1>3, <1>5

LEMMA PlaceIsInteger ==
  ASSUME NEW byte \in Bytes
  PROVE  Place(byte) \in Int
<1>1. Rank[byte.part] \in Int /\ byte.packet \in Int
  BY DEF Bytes, Rank
<1> QED
  BY <1>1 DEF Place

-----------------------------------------------------------------------------
(***************************************************************************)
(* What is shown, and what waits, in the order of the stream.              *)
(***************************************************************************)
InOrder(s) == \A k, l \in 1 .. Len(s) : k < l => Place(s[k]) < Place(s[l])

Precedes(s, t) ==
  \A k \in 1 .. Len(s), l \in 1 .. Len(t) : Place(s[k]) < Place(t[l])

QueueInOrder(q) ==
  /\ q \in Seq(Seq(Bytes))
  /\ \A i \in 1 .. Len(q) : InOrder(q[i])
  /\ \A i, j \in 1 .. Len(q) : i < j => Precedes(q[i], q[j])

HeadsInOrder(shown) ==
  /\ shown \in Seq(Seq(Bytes))
  /\ \A i \in 1 .. Len(shown) : shown[i] # << >> /\ Head(shown[i]).part = "head"
  /\ \A i, j \in 1 .. Len(shown) :
       i < j => Place(Head(shown[i])) < Place(Head(shown[j]))

(***************************************************************************)
(* What begins a message shown was in the stream before all that waits,    *)
(* and nothing is beyond the n bytes received.                             *)
(***************************************************************************)
UsedUp(shown, q) ==
  \A i \in 1 .. Len(shown), j \in 1 .. Len(q) :
    \A k \in 1 .. Len(q[j]) : Place(Head(shown[i])) < Place(q[j][k])

QueueUpTo(q, n) ==
  \A j \in 1 .. Len(q) : \A k \in 1 .. Len(q[j]) : Place(q[j][k]) <= n

ShownUpTo(shown, n) ==
  \A i \in 1 .. Len(shown) : Place(Head(shown[i])) <= n

Orderly(q, shown, n) ==
  /\ QueueInOrder(q) /\ HeadsInOrder(shown) /\ UsedUp(shown, q)
  /\ QueueUpTo(q, n) /\ ShownUpTo(shown, n)

OrderInv ==
  /\ received \in 0 .. Len(Stream)
  /\ Orderly(dataQueue, messages, received)

(***************************************************************************)
(* As long as every chunk ends some packet, what waits is one entry: the   *)
(* packet that is not complete.                                            *)
(***************************************************************************)
Waiting == SubSeq(Stream, 5 * Complete + 1, received)

WholeInv ==
  cut = {} => /\ messages = [p \in 1 .. Complete |-> Content(p)]
              /\ dataQueue = IF received = 0 THEN << >> ELSE <<Waiting>>
-----------------------------------------------------------------------------
(***************************************************************************)
(* Where the newline is, and which entry holds the first.                  *)
(***************************************************************************)
LEMMA NewlineIsAt ==
  ASSUME NEW s \in Seq(Bytes)
  PROVE  /\ NewlineAt(s) \in 0 .. Len(s)
         /\ \A i \in 1 .. Len(s) : i < NewlineAt(s) => ~IsNewline(s[i])
         /\ NewlineAt(s) = 0 => \A i \in 1 .. Len(s) : ~IsNewline(s[i])
         /\ NewlineAt(s) # 0 => IsNewline(s[NewlineAt(s)])
<1> DEFINE I == {i \in 1 .. Len(s) : IsNewline(s[i])}
<1>1. NewlineAt(s) = IF I # {} THEN Min(I) ELSE 0
  BY DEF NewlineAt, SelectInSeq
<1>2. CASE I = {}
  BY <1>1, <1>2
<1>3. CASE I # {}
  <2>1. I \subseteq Nat /\ I \subseteq 1 .. Len(s) /\ Len(s) \in Nat
    OBVIOUS
  <2> DEFINE m == Min(I)
  <2>2. m \in I /\ \A i \in I : m <= i
    <3> HIDE DEF I
    <3> QED
      BY <1>3, <2>1, MinOfSet
  <2>3. NewlineAt(s) = m
    BY <1>1, <1>3
  <2> HIDE DEF m
  <2>4. m \in 1 .. Len(s) /\ IsNewline(s[m])
    BY <2>1, <2>2
  <2>5. \A i \in 1 .. Len(s) : i < m => ~IsNewline(s[i])
    <3> SUFFICES ASSUME NEW i \in 1 .. Len(s), i < m, i \in I
                 PROVE  FALSE
      OBVIOUS
    <3> QED
      BY <2>1, <2>2
  <2> QED
    BY <2>3, <2>4, <2>5
<1> QED
  BY <1>2, <1>3

LEMMA EntryIsAt ==
  ASSUME NEW q \in Seq(Seq(Bytes))
  PROVE  /\ EntryWithEOF(q) \in 0 .. Len(q)
         /\ \A i \in 1 .. Len(q) : i < EntryWithEOF(q) => NewlineAt(q[i]) = 0
         /\ EntryWithEOF(q) = 0 => \A i \in 1 .. Len(q) : NewlineAt(q[i]) = 0
         /\ EntryWithEOF(q) # 0 => NewlineAt(q[EntryWithEOF(q)]) # 0
<1> DEFINE I == {i \in 1 .. Len(q) : NewlineAt(q[i]) # 0}
<1>1. EntryWithEOF(q) = IF I # {} THEN Min(I) ELSE 0
  BY DEF EntryWithEOF, SelectInSeq
<1>2. CASE I = {}
  BY <1>1, <1>2
<1>3. CASE I # {}
  <2>1. I \subseteq Nat /\ I \subseteq 1 .. Len(q) /\ Len(q) \in Nat
    OBVIOUS
  <2> DEFINE m == Min(I)
  <2>2. m \in I /\ \A i \in I : m <= i
    <3> HIDE DEF I
    <3> QED
      BY <1>3, <2>1, MinOfSet
  <2>3. EntryWithEOF(q) = m
    BY <1>1, <1>3
  <2> HIDE DEF m
  <2>4. m \in 1 .. Len(q) /\ NewlineAt(q[m]) # 0
    BY <2>1, <2>2
  <2>5. \A i \in 1 .. Len(q) : i < m => ~(NewlineAt(q[i]) # 0)
    <3> SUFFICES ASSUME NEW i \in 1 .. Len(q), i < m, i \in I
                 PROVE  FALSE
      OBVIOUS
    <3> QED
      BY <2>1, <2>2
  <2> QED
    BY <2>3, <2>4, <2>5
<1> QED
  BY <1>2, <1>3
-----------------------------------------------------------------------------
(***************************************************************************)
(* The loop over the entries before the one with the newline.              *)
(***************************************************************************)
GatheredNone(q) == [pack |-> << >>, queue |-> q, threw |-> FALSE]

Gatherings(f, q, m) ==
  f = [i \in 0 .. m |-> IF i = 0 THEN GatheredNone(q)
                                 ELSE GatherEntry(f[i - 1], i)]

LEMMA GatheringsExist ==
  ASSUME NEW q, NEW m \in Nat
  PROVE  \E f : Gatherings(f, q, m)
<1> DEFINE Missing == {n \in Nat : ~\E f : Gatherings(f, q, n)}
<1> SUFFICES ASSUME Missing # {} PROVE FALSE
  OBVIOUS
<1>1. PICK n \in Missing : \A k \in Missing : n <= k
  BY LeastExists
<1>2. n \in Nat /\ \A k \in Nat : k < n => k \notin Missing
  BY <1>1
<1> DEFINE Val(g, i) == IF i = 0 THEN GatheredNone(q)
                                 ELSE GatherEntry(g[i - 1], i)
<1>3. CASE n = 0
  <2> DEFINE f == [i \in 0 .. 0 |-> GatheredNone(q)]
  <2>1. \A i \in 0 .. 0 : Val(f, i) = GatheredNone(q)
    OBVIOUS
  <2> HIDE DEF Val
  <2>2. f = [i \in 0 .. 0 |-> Val(f, i)]
    BY <2>1
  <2>3. Gatherings(f, q, 0)
    BY <2>2 DEF Gatherings, Val
  <2> QED
    BY <1>1, <1>3, <2>3
<1>4. CASE n # 0
  <2>1. n - 1 \in Nat /\ n - 1 \notin Missing
    BY <1>2, <1>4
  <2>2. PICK f : Gatherings(f, q, n - 1)
    BY <2>1
  <2> DEFINE g == [i \in 0 .. n |-> Val(f, i)]
  <2>3. \A i \in 0 .. n - 1 : f[i] = Val(f, i)
    BY <2>2 DEF Gatherings
  <2>4. \A i \in 0 .. n : Val(g, i) = Val(f, i)
    <3>1. \A i \in 0 .. n : i # 0 => i - 1 \in 0 .. n - 1 /\ i - 1 \in 0 .. n
      BY <1>2
    <3>2. \A i \in 0 .. n : i # 0 => g[i - 1] = f[i - 1]
      <4> HIDE DEF Val
      <4> QED
        BY <2>3, <3>1
    <3> HIDE DEF g
    <3> QED
      BY <3>2
  <2>5. g = [i \in 0 .. n |-> Val(g, i)]
    <3> HIDE DEF Val
    <3> QED
      BY <2>4
  <2>6. Gatherings(g, q, n)
    <3> HIDE DEF g
    <3> QED
      BY <2>5 DEF Gatherings, Val
  <2> QED
    BY <1>1, <2>6
<1> QED
  BY <1>3, <1>4

LEMMA GatherSteps ==
  ASSUME NEW q \in Seq(Seq(Bytes)), EntryWithEOF(q) # 0
  PROVE  \E f : /\ Gather(q) = f[EntryWithEOF(q) - 1]
                /\ f[0] = GatheredNone(q)
                /\ \A i \in 1 .. EntryWithEOF(q) - 1 : f[i] = GatherEntry(f[i - 1], i)
<1> DEFINE m == EntryWithEOF(q) - 1
           gathered[i \in 0 .. m] ==
             IF i = 0 THEN [pack |-> << >>, queue |-> q, threw |-> FALSE]
                      ELSE GatherEntry(gathered[i - 1], i)
<1>1. Gather(q) = gathered[m]
  BY DEF Gather
<1>2. m \in Nat
  BY EntryIsAt
<1> HIDE DEF m
<1>3. \E f : f = [i \in 0 .. m |->
                    IF i = 0 THEN [pack |-> << >>, queue |-> q, threw |-> FALSE]
                             ELSE GatherEntry(f[i - 1], i)]
  BY <1>2, GatheringsExist DEF Gatherings, GatheredNone
<1>4. gathered = [i \in 0 .. m |->
                    IF i = 0 THEN [pack |-> << >>, queue |-> q, threw |-> FALSE]
                             ELSE GatherEntry(gathered[i - 1], i)]
  BY <1>3
<1> HIDE DEF gathered
<1>5. gathered[0] = GatheredNone(q)
  BY <1>2, <1>4 DEF GatheredNone
<1>6. ASSUME NEW i \in 1 .. m
      PROVE  gathered[i] = GatherEntry(gathered[i - 1], i)
  <2>1. i \in 0 .. m /\ i # 0
    BY <1>2
  <2> QED
    BY <1>4, <2>1
<1> QED
  BY <1>1, <1>5, <1>6 DEF m
Entries(q, r) == \A j \in 1 .. Len(q) : \E i \in 1 .. Len(r) : q[j] = r[i]

LEMMA WithoutEntry ==
  ASSUME NEW q \in Seq(Seq(Bytes)), NEW i \in 1 .. Len(q)
  PROVE  /\ RemoveAt(q, i) \in Seq(Seq(Bytes))
         /\ Len(RemoveAt(q, i)) = Len(q) - 1
         /\ \A j \in 1 .. Len(q) - 1 :
              RemoveAt(q, i)[j] = q[IF j < i THEN j ELSE j + 1]
<1> DEFINE s == SubSeq(q, 1, i - 1)
           t == SubSeq(q, i + 1, Len(q))
<1>1. RemoveAt(q, i) = s \o t
  BY DEF RemoveAt
<1>2. Len(q) \in Nat /\ i \in Nat /\ \A j \in 1 .. Len(q) : q[j] \in Seq(Bytes)
  OBVIOUS
<1>3. /\ s \in Seq(Seq(Bytes)) /\ Len(s) = i - 1
      /\ \A j \in 1 .. i - 1 : s[j] = q[j]
  <2>1. 1 \in Int /\ i - 1 \in Int /\ \A j \in 1 .. i - 1 : q[j] \in Seq(Bytes)
    BY <1>2
  <2>2. /\ s \in Seq(Seq(Bytes)) /\ Len(s) = IF 1 <= i - 1 THEN (i - 1) - 1 + 1 ELSE 0
        /\ \A j \in 1 .. (i - 1) - 1 + 1 : s[j] = q[1 + j - 1]
    BY <2>1, SubSeqProperties
  <2> HIDE DEF s
  <2> QED
    BY <1>2, <2>2
<1>4. /\ t \in Seq(Seq(Bytes)) /\ Len(t) = Len(q) - i
      /\ \A j \in 1 .. Len(q) - i : t[j] = q[i + j]
  <2>1. i + 1 \in Int /\ Len(q) \in Int /\ \A j \in i + 1 .. Len(q) : q[j] \in Seq(Bytes)
    BY <1>2
  <2>2. /\ t \in Seq(Seq(Bytes))
        /\ Len(t) = IF i + 1 <= Len(q) THEN Len(q) - (i + 1) + 1 ELSE 0
        /\ \A j \in 1 .. Len(q) - (i + 1) + 1 : t[j] = q[(i + 1) + j - 1]
    BY <2>1, SubSeqProperties
  <2> HIDE DEF t
  <2>3. Len(t) = Len(q) - i /\ Len(q) - (i + 1) + 1 = Len(q) - i
    BY <1>2, <2>2
  <2>4. ASSUME NEW j \in 1 .. Len(q) - i
        PROVE  t[j] = q[i + j]
    <3>1. (i + 1) + j - 1 = i + j
      BY <1>2
    <3> QED
      BY <2>2, <2>3, <3>1
  <2> QED
    BY <2>2, <2>3, <2>4
<1> HIDE DEF s, t
<1>5. /\ s \o t \in Seq(Seq(Bytes)) /\ Len(s \o t) = Len(s) + Len(t)
      /\ \A j \in 1 .. Len(s) + Len(t) :
           (s \o t)[j] = IF j <= Len(s) THEN s[j] ELSE t[j - Len(s)]
  BY <1>3, <1>4, ConcatProperties
<1>6. ASSUME NEW j \in 1 .. Len(q) - 1
      PROVE  (s \o t)[j] = q[IF j < i THEN j ELSE j + 1]
  <2>1. CASE j < i
    <3>1. j \in 1 .. i - 1 /\ j <= Len(s) /\ j \in 1 .. Len(s) + Len(t)
      BY <1>2, <1>3, <1>4, <2>1
    <3> QED
      BY <1>3, <1>5, <2>1, <3>1
  <2>2. CASE ~(j < i)
    <3>1. /\ j - (i - 1) \in 1 .. Len(q) - i /\ i + (j - (i - 1)) = j + 1
          /\ ~(j <= Len(s)) /\ j - Len(s) = j - (i - 1)
          /\ j \in 1 .. Len(s) + Len(t)
      BY <1>2, <1>3, <1>4, <2>2
    <3>2. (s \o t)[j] = t[j - (i - 1)]
      BY <1>5, <3>1
    <3>3. t[j - (i - 1)] = q[j + 1]
      BY <1>4, <3>1
    <3> QED
      BY <2>2, <3>2, <3>3
  <2> QED
    BY <2>1, <2>2
<1>7. Len(s) + Len(t) = Len(q) - 1
  BY <1>2, <1>3, <1>4
<1> QED
  BY <1>1, <1>5, <1>6, <1>7

LEMMA OrderWithoutEntry ==
  ASSUME NEW q, QueueInOrder(q), NEW i \in 1 .. Len(q)
  PROVE  QueueInOrder(RemoveAt(q, i)) /\ Entries(RemoveAt(q, i), q)
<1> DEFINE r == RemoveAt(q, i)
           at(j) == IF j < i THEN j ELSE j + 1
<1>1. /\ r \in Seq(Seq(Bytes)) /\ Len(r) = Len(q) - 1
      /\ \A j \in 1 .. Len(q) - 1 : r[j] = q[at(j)]
  BY WithoutEntry DEF QueueInOrder
<1>2. Len(q) \in Nat
  BY DEF QueueInOrder
<1> HIDE DEF r
<1>3. \A j \in 1 .. Len(r) : at(j) \in 1 .. Len(q) /\ r[j] = q[at(j)]
  BY <1>1, <1>2
<1>4. \A j, k \in 1 .. Len(r) : j < k => at(j) < at(k)
  BY <1>1, <1>2
<1> HIDE DEF at
<1>5. \A j \in 1 .. Len(r) : InOrder(r[j])
  BY <1>3 DEF QueueInOrder
<1>6. ASSUME NEW j \in 1 .. Len(r), NEW k \in 1 .. Len(r), j < k
      PROVE  Precedes(r[j], r[k])
  BY <1>3, <1>4, <1>6 DEF QueueInOrder
<1>7. QueueInOrder(r)
  BY <1>1, <1>5, <1>6 DEF QueueInOrder
<1>8. Entries(r, q)
  BY <1>3 DEF Entries
<1> QED
  BY <1>7, <1>8 DEF r

GatherStates == [pack : Seq(Bytes), queue : Seq(Seq(Bytes)), threw : BOOLEAN]

LEMMA GatherEntryKeepsOrder ==
  ASSUME NEW g \in GatherStates, NEW i \in Nat \ {0}, QueueInOrder(g.queue)
  PROVE  LET h == GatherEntry(g, i)
         IN  /\ h \in GatherStates
             /\ QueueInOrder(h.queue)
             /\ Entries(h.queue, g.queue)
             /\ i # 1 /\ g.queue # << >> => /\ h.queue # << >>
                                            /\ h.queue[1] = g.queue[1]
<1> DEFINE h == GatherEntry(g, i)
<1>1. g.queue \in Seq(Seq(Bytes)) /\ g.pack \in Seq(Bytes) /\ g.threw \in BOOLEAN
  BY DEF GatherStates
<1>2. Entries(g.queue, g.queue)
  BY DEF Entries
<1>3. CASE g.threw
  BY <1>1, <1>2, <1>3 DEF GatherEntry
<1>4. CASE ~g.threw /\ i > Len(g.queue)
  <2>1. h = [g EXCEPT !.threw = TRUE]
    BY <1>4 DEF GatherEntry
  <2> HIDE DEF h
  <2>2. h \in GatherStates /\ h.queue = g.queue
    BY <2>1 DEF GatherStates
  <2> QED
    BY <1>2, <2>2 DEF h
<1>5. CASE ~g.threw /\ ~(i > Len(g.queue))
  <2>1. h = [g EXCEPT !.pack = g.pack \o g.queue[i], !.queue = RemoveAt(g.queue, i)]
    BY <1>5 DEF GatherEntry
  <2>2. i \in 1 .. Len(g.queue) /\ Len(g.queue) \in Nat
    BY <1>1, <1>5
  <2>3. /\ RemoveAt(g.queue, i) \in Seq(Seq(Bytes))
        /\ Len(RemoveAt(g.queue, i)) = Len(g.queue) - 1
        /\ \A j \in 1 .. Len(g.queue) - 1 :
             RemoveAt(g.queue, i)[j] = g.queue[IF j < i THEN j ELSE j + 1]
    BY <1>1, <2>2, WithoutEntry
  <2>4. g.pack \o g.queue[i] \in Seq(Bytes)
    <3>1. g.queue[i] \in Seq(Bytes)
      BY <1>1, <2>2
    <3> QED
      BY <1>1, <3>1, ConcatProperties
  <2> HIDE DEF h
  <2>5. h \in GatherStates /\ h.queue = RemoveAt(g.queue, i)
    BY <2>1, <2>3, <2>4 DEF GatherStates
  <2>6. QueueInOrder(h.queue) /\ Entries(h.queue, g.queue)
    BY <2>2, <2>5, OrderWithoutEntry
  <2>7. ASSUME i # 1, g.queue # << >>
        PROVE  h.queue # << >> /\ h.queue[1] = g.queue[1]
    <3>1. 1 \in 1 .. Len(g.queue) - 1 /\ 1 < i
      BY <2>2, <2>7
    <3>2. h.queue[1] = g.queue[1]
      BY <2>3, <2>5, <3>1
    <3>3. Len(h.queue) # 0
      BY <2>2, <2>3, <2>5, <3>1
    <3> QED
      BY <3>2, <3>3
  <2> QED
    BY <2>5, <2>6, <2>7 DEF h
<1> QED
  BY <1>3, <1>4, <1>5
GatheredOne(q) == [pack |-> q[1], queue |-> RemoveAt(q, 1), threw |-> FALSE]

LEMMA GatherFirst ==
  ASSUME NEW q \in Seq(Seq(Bytes)), q # << >>
  PROVE  GatherEntry(GatheredNone(q), 1) = GatheredOne(q)
<1>1. 1 \in 1 .. Len(q) /\ Len(q) \in Nat /\ q[1] \in Seq(Bytes)
  BY EmptySeq
<1>2. << >> \o q[1] = q[1]
  BY <1>1, ConcatEmptySeq
<1> DEFINE g == GatheredNone(q)
<1>3. g.pack = << >> /\ g.queue = q /\ ~g.threw
  BY DEF GatheredNone
<1>4. ~(1 > Len(g.queue))
  BY <1>1, <1>3
<1>5. GatherEntry(g, 1) = [g EXCEPT !.pack = q[1], !.queue = RemoveAt(q, 1)]
  <2> HIDE DEF g
  <2> QED
    BY <1>2, <1>3, <1>4 DEF GatherEntry
<1> QED
  BY <1>5 DEF GatheredNone, GatheredOne

(***************************************************************************)
(* Only the one entry before the newline's is ever gathered without an     *)
(* exception: with more, the second of them is skipped, comes first, and   *)
(* has no newline.                                                         *)
(***************************************************************************)
LEMMA GatherKeepsOrder ==
  ASSUME NEW q, QueueInOrder(q), EntryWithEOF(q) # 0
  PROVE  /\ Gather(q) \in GatherStates
         /\ QueueInOrder(Gather(q).queue)
         /\ Entries(Gather(q).queue, q)
         /\ Gather(q).queue # << >>
         /\ EntryWithEOF(q) = 1 => Gather(q) = GatheredNone(q)
         /\ EntryWithEOF(q) = 2 => Gather(q) = GatheredOne(q)
         /\ EntryWithEOF(q) > 2 => NewlineAt(Gather(q).queue[1]) = 0
<1> DEFINE e == EntryWithEOF(q)
<1>1. q \in Seq(Seq(Bytes)) /\ Len(q) \in Nat /\ e \in 1 .. Len(q)
      /\ \A i \in 1 .. Len(q) : i < e => NewlineAt(q[i]) = 0
  BY EntryIsAt DEF QueueInOrder
<1>2. PICK f : /\ Gather(q) = f[e - 1]
               /\ f[0] = GatheredNone(q)
               /\ \A i \in 1 .. e - 1 : f[i] = GatherEntry(f[i - 1], i)
  BY <1>1, GatherSteps
<1> HIDE DEF e
<1> DEFINE Kept(k) == /\ f[k] \in GatherStates
                      /\ QueueInOrder(f[k].queue)
                      /\ Entries(f[k].queue, q)
                      /\ f[k].queue # << >>
                      /\ k = 1 => f[k] = GatheredOne(q)
                      /\ k # 0 => f[k].queue[1] = q[2]
           Wrong == {k \in 0 .. e - 1 : ~Kept(k)}
<1>3. q # << >> /\ Len(q) # 0
  BY <1>1
<1>4. Kept(0)
  <2>1. Entries(q, q)
    BY DEF Entries
  <2>2. << >> \in Seq(Bytes)
    OBVIOUS
  <2>3. GatheredNone(q) \in GatherStates /\ GatheredNone(q).queue = q
    BY <1>1, <2>2 DEF GatheredNone, GatherStates
  <2> QED
    BY <1>2, <1>3, <2>1, <2>3
<1>5. Wrong = {}
  <2> SUFFICES ASSUME Wrong # {} PROVE FALSE
    OBVIOUS
  <2>1. Wrong \subseteq Nat
    BY <1>1
  <2>2. PICK n \in Wrong : \A k \in Wrong : n <= k
    BY <2>1, LeastExists
  <2>3. n \in 0 .. e - 1 /\ ~Kept(n)
        /\ \A k \in 0 .. e - 1 : k < n => Kept(k)
    <3> HIDE DEF Kept
    <3>1. n \in Wrong
      BY <2>2
    <3>2. \A k \in 0 .. e - 1 : k < n => k \notin Wrong
      BY <2>1, <2>2
    <3> QED
      BY <3>1, <3>2
  <2>4. n # 0
    BY <1>4, <2>3
  <2>5. n \in 1 .. e - 1 /\ n - 1 \in 0 .. e - 1 /\ n - 1 < n /\ n \in Nat \ {0}
    BY <1>1, <2>3, <2>4
  <2>6. Kept(n - 1)
    BY <2>3, <2>5
  <2>7. f[n] = GatherEntry(f[n - 1], n)
    BY <1>2, <2>5
  <2>8. /\ f[n] \in GatherStates
        /\ QueueInOrder(f[n].queue)
        /\ Entries(f[n].queue, f[n - 1].queue)
        /\ n # 1 /\ f[n - 1].queue # << >> => /\ f[n].queue # << >>
                                              /\ f[n].queue[1] = f[n - 1].queue[1]
    <3> DEFINE g == f[n - 1]
               h == GatherEntry(g, n)
    <3>1. g \in GatherStates /\ QueueInOrder(g.queue) /\ n \in Nat \ {0}
      BY <2>5, <2>6
    <3> HIDE DEF g
    <3>2. /\ h \in GatherStates /\ QueueInOrder(h.queue) /\ Entries(h.queue, g.queue)
          /\ n # 1 /\ g.queue # << >> => /\ h.queue # << >>
                                         /\ h.queue[1] = g.queue[1]
      BY <3>1, GatherEntryKeepsOrder
    <3>3. f[n] = h
      BY <2>7 DEF g
    <3> HIDE DEF h
    <3>4. /\ f[n] \in GatherStates /\ QueueInOrder(f[n].queue) /\ Entries(f[n].queue, g.queue)
          /\ n # 1 /\ g.queue # << >> => /\ f[n].queue # << >>
                                         /\ f[n].queue[1] = g.queue[1]
      BY <3>2, <3>3
    <3> QED
      BY <3>4 DEF g
  <2>9. Entries(f[n].queue, q)
    BY <2>6, <2>8 DEF Entries
  <2>10. CASE n = 1
    <3>1. f[0] = GatheredNone(q) /\ n - 1 = 0
      BY <1>2, <2>10
    <3>2. f[n] = GatheredOne(q)
      BY <1>1, <1>3, <2>7, <2>10, <3>1, GatherFirst
    <3>3. 1 \in 1 .. Len(q) - 1 /\ 1 \in 1 .. Len(q) /\ ~(1 < 1) /\ 1 + 1 = 2
          /\ Len(q) - 1 # 0
      BY <1>1, <2>5, <2>10
    <3>4. f[n].queue = RemoveAt(q, 1)
      BY <3>2 DEF GatheredOne
    <3>5. f[n].queue[1] = q[2] /\ Len(f[n].queue) = Len(q) - 1
      BY <1>1, <3>3, <3>4, WithoutEntry
    <3>6. f[n].queue # << >>
      BY <3>3, <3>5
    <3> QED
      BY <2>3, <2>8, <2>9, <3>2, <3>5, <3>6
  <2>11. CASE n # 1
    <3>1. n - 1 # 0
      BY <2>5, <2>11
    <3> QED
      BY <2>3, <2>6, <2>8, <2>9, <2>11, <3>1
  <2> QED
    BY <2>10, <2>11
<1>6. e - 1 \in 0 .. e - 1
  BY <1>1
<1>7. Kept(e - 1)
  BY <1>5, <1>6
<1> HIDE DEF Kept
<1>8. /\ Gather(q) \in GatherStates /\ QueueInOrder(Gather(q).queue)
      /\ Entries(Gather(q).queue, q) /\ Gather(q).queue # << >>
  BY <1>2, <1>7 DEF Kept
<1>9. e = 1 => Gather(q) = GatheredNone(q)
  BY <1>2
<1>10. e = 2 => Gather(q) = GatheredOne(q)
  <2>1. e = 2 => e - 1 = 1
    OBVIOUS
  <2> QED
    BY <1>2, <1>7, <2>1 DEF Kept
<1>11. ASSUME e > 2 PROVE NewlineAt(Gather(q).queue[1]) = 0
  <2>1. e - 1 # 0 /\ 2 \in 1 .. Len(q) /\ 2 < e
    BY <1>1, <1>11
  <2>2. Gather(q).queue[1] = q[2]
    BY <1>2, <1>7, <2>1 DEF Kept
  <2> QED
    BY <1>1, <2>1, <2>2
<1> QED
  BY <1>8, <1>9, <1>10, <1>11 DEF e
-----------------------------------------------------------------------------
(***************************************************************************)
(* A turn.                                                                 *)
(***************************************************************************)
BeforeNewline(s) == SubSeq(s, 1, NewlineAt(s) - 1)

LEMMA CutAtNewline ==
  ASSUME NEW s \in Seq(Bytes), NewlineAt(s) # 0
  PROVE  /\ BeforeNewline(s) \in Seq(Bytes)
         /\ Len(BeforeNewline(s)) = NewlineAt(s) - 1
         /\ \A k \in 1 .. NewlineAt(s) - 1 : BeforeNewline(s)[k] = s[k]
         /\ AfterNewline(s) \in Seq(Bytes)
         /\ Len(AfterNewline(s)) = Len(s) - NewlineAt(s)
         /\ \A k \in 1 .. Len(s) - NewlineAt(s) : AfterNewline(s)[k] = s[NewlineAt(s) + k]
<1> DEFINE x == NewlineAt(s)
           t == BeforeNewline(s)
           u == AfterNewline(s)
<1>1. Len(s) \in Nat /\ x \in 1 .. Len(s) /\ \A k \in 1 .. Len(s) : s[k] \in Bytes
  BY NewlineIsAt
<1>2. t = SubSeq(s, 1, x - 1) /\ u = SubSeq(s, x + 1, Len(s))
  BY DEF BeforeNewline, AfterNewline
<1> HIDE DEF x, t, u
<1>3. /\ t \in Seq(Bytes) /\ Len(t) = x - 1
      /\ \A k \in 1 .. x - 1 : t[k] = s[k]
  <2>1. 1 \in Int /\ x - 1 \in Int /\ \A k \in 1 .. x - 1 : s[k] \in Bytes
    BY <1>1
  <2>2. /\ t \in Seq(Bytes) /\ Len(t) = IF 1 <= x - 1 THEN (x - 1) - 1 + 1 ELSE 0
        /\ \A k \in 1 .. (x - 1) - 1 + 1 : t[k] = s[1 + k - 1]
    BY <1>2, <2>1, SubSeqProperties
  <2> QED
    BY <1>1, <2>2
<1>4. /\ u \in Seq(Bytes) /\ Len(u) = Len(s) - x
      /\ \A k \in 1 .. Len(s) - x : u[k] = s[x + k]
  <2>1. x + 1 \in Int /\ Len(s) \in Int /\ \A k \in x + 1 .. Len(s) : s[k] \in Bytes
    BY <1>1
  <2>2. /\ u \in Seq(Bytes)
        /\ Len(u) = IF x + 1 <= Len(s) THEN Len(s) - (x + 1) + 1 ELSE 0
        /\ \A k \in 1 .. Len(s) - (x + 1) + 1 : u[k] = s[(x + 1) + k - 1]
    BY <1>2, <2>1, SubSeqProperties
  <2>3. Len(u) = Len(s) - x /\ Len(s) - (x + 1) + 1 = Len(s) - x
    BY <1>1, <2>2
  <2>4. ASSUME NEW k \in 1 .. Len(s) - x
        PROVE  u[k] = s[x + k]
    <3>1. (x + 1) + k - 1 = x + k
      BY <1>1
    <3> QED
      BY <2>2, <2>3, <3>1
  <2> QED
    BY <2>2, <2>3, <2>4
<1> QED
  BY <1>3, <1>4 DEF x, t, u

(***************************************************************************)
(* The queue once the line of its first entry is taken.                    *)
(***************************************************************************)
Rest(q) == <<AfterNewline(Head(q))>> \o Tail(q)

LEMMA RestOfQueue ==
  ASSUME NEW q \in Seq(Seq(Bytes)), q # << >>, NewlineAt(q[1]) # 0
  PROVE  /\ Head(q) = q[1]
         /\ Rest(q) \in Seq(Seq(Bytes)) /\ Len(Rest(q)) = Len(q)
         /\ Rest(q)[1] = AfterNewline(q[1])
         /\ \A j \in 2 .. Len(q) : Rest(q)[j] = q[j]
<1>1. Len(q) \in Nat \ {0} /\ q[1] \in Seq(Bytes) /\ Head(q) = q[1]
  BY EmptySeq
<1> DEFINE a == AfterNewline(q[1])
           t == Tail(q)
<1>2. a \in Seq(Bytes)
  BY <1>1, CutAtNewline
<1>3. /\ t \in Seq(Seq(Bytes)) /\ Len(t) = Len(q) - 1
      /\ \A j \in 1 .. Len(t) : t[j] = q[j + 1]
  BY HeadTailProperties
<1>4. Rest(q) = <<a>> \o t
  BY <1>1 DEF Rest
<1> HIDE DEF a, t
<1>5. <<a>> \in Seq(Seq(Bytes)) /\ Len(<<a>>) = 1 /\ <<a>>[1] = a
  BY <1>2
<1>6. /\ <<a>> \o t \in Seq(Seq(Bytes)) /\ Len(<<a>> \o t) = Len(<<a>>) + Len(t)
      /\ \A j \in 1 .. Len(<<a>>) + Len(t) :
           (<<a>> \o t)[j] = IF j <= Len(<<a>>) THEN <<a>>[j] ELSE t[j - Len(<<a>>)]
  BY <1>3, <1>5, ConcatProperties
<1>7. Len(<<a>>) + Len(t) = Len(q)
  BY <1>1, <1>3, <1>5
<1>8. Rest(q)[1] = a
  <2>1. 1 \in 1 .. Len(q) /\ 1 <= 1
    BY <1>1
  <2> QED
    BY <1>4, <1>5, <1>6, <1>7, <2>1
<1>9. ASSUME NEW j \in 2 .. Len(q)
      PROVE  Rest(q)[j] = q[j]
  <2>1. j \in 1 .. Len(q) /\ ~(j <= 1) /\ j - 1 \in 1 .. Len(t) /\ (j - 1) + 1 = j
    BY <1>1, <1>3
  <2>2. Rest(q)[j] = t[j - 1]
    BY <1>4, <1>5, <1>6, <1>7, <2>1
  <2> QED
    BY <1>3, <2>1, <2>2
<1> QED
  BY <1>1, <1>4, <1>6, <1>7, <1>8, <1>9 DEF a

(***************************************************************************)
(* What is left are bytes of the queue in their order, all of them after   *)
(* the line that was taken.                                                *)
(***************************************************************************)
LEMMA RestInOrder ==
  ASSUME NEW q, QueueInOrder(q), q # << >>, NewlineAt(q[1]) # 0
  PROVE  /\ QueueInOrder(Rest(q)) /\ Len(Rest(q)) = Len(q)
         /\ \A j \in 1 .. Len(q) : \A k \in 1 .. Len(Rest(q)[j]) :
              \E l \in 1 .. Len(q[j]) : /\ Rest(q)[j][k] = q[j][l]
                                        /\ j = 1 => l > NewlineAt(q[1])
<1> DEFINE r == Rest(q)
           x == NewlineAt(q[1])
           a == AfterNewline(q[1])
<1>1. q \in Seq(Seq(Bytes)) /\ Len(q) \in Nat \ {0} /\ q[1] \in Seq(Bytes)
  BY EmptySeq DEF QueueInOrder
<1>2. /\ r \in Seq(Seq(Bytes)) /\ Len(r) = Len(q) /\ r[1] = a
      /\ \A j \in 2 .. Len(q) : r[j] = q[j]
  BY <1>1, RestOfQueue
<1>3. /\ a \in Seq(Bytes) /\ Len(a) = Len(q[1]) - x
      /\ \A k \in 1 .. Len(q[1]) - x : a[k] = q[1][x + k]
  BY <1>1, CutAtNewline
<1>4. x \in 1 .. Len(q[1]) /\ Len(q[1]) \in Nat
  BY <1>1, NewlineIsAt
<1>5. \A j \in 1 .. Len(q) : j = 1 \/ j \in 2 .. Len(q)
  BY <1>1
<1> HIDE DEF r, x, a
<1>6. ASSUME NEW j \in 1 .. Len(q), NEW k \in 1 .. Len(r[j])
      PROVE  \E l \in 1 .. Len(q[j]) : r[j][k] = q[j][l] /\ (j = 1 => l > x)
  <2>1. CASE j = 1
    <3>1. k \in 1 .. Len(q[1]) - x
      BY <1>2, <1>3, <1>6, <2>1
    <3>2. x + k \in 1 .. Len(q[1]) /\ x + k > x
      BY <1>4, <3>1
    <3> QED
      BY <1>2, <1>3, <2>1, <3>1, <3>2
  <2>2. CASE j \in 2 .. Len(q)
    <3>1. r[j] = q[j] /\ j # 1
      BY <1>2, <2>2
    <3> QED
      BY <3>1
  <2> QED
    BY <1>5, <2>1, <2>2
<1>7. ASSUME NEW j \in 1 .. Len(q)
      PROVE  InOrder(r[j])
  <2>1. CASE j = 1
    <3> SUFFICES ASSUME NEW k \in 1 .. Len(a), NEW l \in 1 .. Len(a), k < l
                 PROVE  Place(a[k]) < Place(a[l])
      BY <1>2, <2>1 DEF InOrder
    <3>1. x + k \in 1 .. Len(q[1]) /\ x + l \in 1 .. Len(q[1]) /\ x + k < x + l
      BY <1>3, <1>4
    <3>2. a[k] = q[1][x + k] /\ a[l] = q[1][x + l]
      BY <1>3
    <3>3. InOrder(q[1])
      BY <2>1 DEF QueueInOrder
    <3> QED
      BY <3>1, <3>2, <3>3 DEF InOrder
  <2>2. CASE j \in 2 .. Len(q)
    BY <1>2, <2>2 DEF QueueInOrder
  <2> QED
    BY <1>5, <2>1, <2>2
<1>8. ASSUME NEW i \in 1 .. Len(q), NEW j \in 1 .. Len(q), i < j
      PROVE  Precedes(r[i], r[j])
  <2> SUFFICES ASSUME NEW k \in 1 .. Len(r[i]), NEW l \in 1 .. Len(r[j])
               PROVE  Place(r[i][k]) < Place(r[j][l])
    BY DEF Precedes
  <2>1. PICK m \in 1 .. Len(q[i]) : r[i][k] = q[i][m]
    BY <1>6
  <2>2. PICK n \in 1 .. Len(q[j]) : r[j][l] = q[j][n]
    BY <1>6
  <2>3. Precedes(q[i], q[j])
    BY <1>8 DEF QueueInOrder
  <2> QED
    BY <2>1, <2>2, <2>3 DEF Precedes
<1>9. QueueInOrder(r)
  BY <1>2, <1>7, <1>8 DEF QueueInOrder
<1> QED
  BY <1>2, <1>6, <1>9 DEF r, x
(***************************************************************************)
(* The text that a turn takes begins with a byte that waited, and before   *)
(* all that still waits.                                                   *)
(***************************************************************************)
Taken(q) == Gather(q).pack \o BeforeNewline(Head(Gather(q).queue))

LEMMA TakenInFront ==
  ASSUME NEW q, QueueInOrder(q), EntryWithEOF(q) # 0,
         NewlineAt(Head(Gather(q).queue)) # 0
  PROVE  /\ QueueInOrder(Rest(Gather(q).queue))
         /\ \A j \in 1 .. Len(Rest(Gather(q).queue)) :
              \A k \in 1 .. Len(Rest(Gather(q).queue)[j]) :
                \E i \in 1 .. Len(q) : \E l \in 1 .. Len(q[i]) :
                  Rest(Gather(q).queue)[j][k] = q[i][l]
         /\ Taken(q) \in Seq(Bytes)
         /\ Len(Taken(q)) # 0 =>
              /\ \E i \in 1 .. Len(q) : \E l \in 1 .. Len(q[i]) : Head(Taken(q)) = q[i][l]
              /\ \A j \in 1 .. Len(Rest(Gather(q).queue)) :
                   \A k \in 1 .. Len(Rest(Gather(q).queue)[j]) :
                     Place(Head(Taken(q))) < Place(Rest(Gather(q).queue)[j][k])
<1> DEFINE g == Gather(q)
           s == g.queue
           r == Rest(s)
           x == NewlineAt(s[1])
           line == BeforeNewline(s[1])
           pack == Taken(q)
<1>1. /\ g \in GatherStates /\ QueueInOrder(s) /\ Entries(s, q) /\ s # << >>
      /\ EntryWithEOF(q) = 1 => g = GatheredNone(q)
      /\ EntryWithEOF(q) = 2 => g = GatheredOne(q)
      /\ EntryWithEOF(q) > 2 => NewlineAt(s[1]) = 0
  BY GatherKeepsOrder
<1>2. /\ s \in Seq(Seq(Bytes)) /\ Len(s) \in Nat \ {0} /\ s[1] \in Seq(Bytes)
      /\ Head(s) = s[1]
  BY <1>1, EmptySeq DEF QueueInOrder
<1>3. x # 0 /\ x \in 1 .. Len(s[1]) /\ Len(s[1]) \in Nat
  BY <1>2, NewlineIsAt
<1>4. /\ QueueInOrder(r) /\ Len(r) = Len(s)
      /\ \A j \in 1 .. Len(s) : \A k \in 1 .. Len(r[j]) :
           \E l \in 1 .. Len(s[j]) : r[j][k] = s[j][l] /\ (j = 1 => l > x)
  <2> HIDE DEF g, s, line, pack
  <2>1. QueueInOrder(s) /\ s # << >> /\ NewlineAt(s[1]) # 0
    BY <1>1, <1>3
  <2>2. /\ QueueInOrder(Rest(s)) /\ Len(Rest(s)) = Len(s)
        /\ \A j \in 1 .. Len(s) : \A k \in 1 .. Len(Rest(s)[j]) :
             \E l \in 1 .. Len(s[j]) : /\ Rest(s)[j][k] = s[j][l]
                                       /\ j = 1 => l > NewlineAt(s[1])
    BY <2>1, RestInOrder, Zenon
  <2> QED
    BY <2>2
<1>5. /\ line \in Seq(Bytes) /\ Len(line) = x - 1
      /\ \A k \in 1 .. x - 1 : line[k] = s[1][k]
  BY <1>2, <1>3, CutAtNewline
<1>6. q \in Seq(Seq(Bytes)) /\ Len(q) \in Nat /\ EntryWithEOF(q) \in 1 .. Len(q)
  BY EntryIsAt DEF QueueInOrder
<1>7. EntryWithEOF(q) = 1 \/ EntryWithEOF(q) = 2
  BY <1>1, <1>3, <1>6
<1>8. pack = g.pack \o line /\ g.pack \in Seq(Bytes)
  BY <1>1, <1>2 DEF Taken, GatherStates
<1> HIDE DEF g, s, r, x, line, pack
<1>9. \A j \in 1 .. Len(r) : \A k \in 1 .. Len(r[j]) :
        \E i \in 1 .. Len(q) : \E l \in 1 .. Len(q[i]) : r[j][k] = q[i][l]
  <2> SUFFICES ASSUME NEW j \in 1 .. Len(r), NEW k \in 1 .. Len(r[j])
               PROVE  \E i \in 1 .. Len(q) : \E l \in 1 .. Len(q[i]) : r[j][k] = q[i][l]
    OBVIOUS
  <2>1. PICK l \in 1 .. Len(s[j]) : r[j][k] = s[j][l]
    BY <1>4
  <2>2. PICK i \in 1 .. Len(q) : s[j] = q[i]
    BY <1>1, <1>4 DEF Entries
  <2> QED
    BY <2>1, <2>2
<1>10. /\ pack \in Seq(Bytes) /\ Len(pack) = Len(g.pack) + Len(line)
       /\ \A k \in 1 .. Len(g.pack) + Len(line) :
            pack[k] = IF k <= Len(g.pack) THEN g.pack[k] ELSE line[k - Len(g.pack)]
  BY <1>5, <1>8, ConcatProperties
<1>11. Len(g.pack) \in Nat /\ Len(line) \in Nat
  BY <1>5, <1>8
<1>12. ASSUME Len(g.pack) = 0, Len(pack) # 0
       PROVE  /\ pack[1] = s[1][1] /\ 1 \in 1 .. Len(s[1])
              /\ \A j \in 1 .. Len(r) : \A k \in 1 .. Len(r[j]) :
                   Place(s[1][1]) < Place(r[j][k])
  <2>1. 1 \in 1 .. x - 1 /\ 1 \in 1 .. Len(s[1]) /\ 1 < x
        /\ 1 \in 1 .. Len(g.pack) + Len(line) /\ ~(1 <= Len(g.pack))
        /\ 1 - Len(g.pack) = 1
    BY <1>3, <1>5, <1>10, <1>11, <1>12
  <2>2. pack[1] = line[1]
    BY <1>10, <2>1
  <2>3. pack[1] = s[1][1]
    BY <1>5, <2>1, <2>2
  <2>4. ASSUME NEW j \in 1 .. Len(r), NEW k \in 1 .. Len(r[j])
        PROVE  Place(s[1][1]) < Place(r[j][k])
    <3>1. PICK l \in 1 .. Len(s[j]) : r[j][k] = s[j][l] /\ (j = 1 => l > x)
      BY <1>4
    <3>2. 1 \in 1 .. Len(s) /\ j \in 1 .. Len(s)
      BY <1>2, <1>4
    <3>3. CASE j = 1
      <4>1. l \in 1 .. Len(s[1]) /\ 1 < l
        BY <1>3, <2>1, <3>1, <3>3
      <4>2. InOrder(s[1])
        BY <1>1, <3>2 DEF QueueInOrder
      <4> QED
        BY <2>1, <3>1, <3>3, <4>1, <4>2 DEF InOrder
    <3>4. CASE j # 1
      <4>1. 1 < j
        BY <3>2, <3>4
      <4>2. Precedes(s[1], s[j])
        BY <1>1, <3>2, <4>1 DEF QueueInOrder
      <4> QED
        BY <2>1, <3>1, <4>2 DEF Precedes
    <3> QED
      BY <3>3, <3>4
  <2> QED
    BY <2>1, <2>3, <2>4
<1>13. ASSUME Len(pack) # 0
       PROVE  /\ \E i \in 1 .. Len(q) : \E l \in 1 .. Len(q[i]) : pack[1] = q[i][l]
              /\ \A j \in 1 .. Len(r) : \A k \in 1 .. Len(r[j]) :
                   Place(pack[1]) < Place(r[j][k])
  <2>1. CASE Len(g.pack) = 0
    <3>1. /\ pack[1] = s[1][1] /\ 1 \in 1 .. Len(s[1])
          /\ \A j \in 1 .. Len(r) : \A k \in 1 .. Len(r[j]) :
               Place(s[1][1]) < Place(r[j][k])
      BY <1>12, <1>13, <2>1
    <3>2. 1 \in 1 .. Len(s)
      BY <1>2
    <3>3. PICK i \in 1 .. Len(q) : s[1] = q[i]
      BY <1>1, <3>2 DEF Entries
    <3> QED
      BY <3>1, <3>3
  <2>2. CASE Len(g.pack) # 0
    <3>1. EntryWithEOF(q) = 2
      <4>1. SUFFICES ASSUME EntryWithEOF(q) = 1 PROVE FALSE
        BY <1>7
      <4>2. g.pack = << >>
        BY <1>1, <4>1 DEF GatheredNone
      <4> QED
        BY <2>2, <4>2
    <3>2. g.pack = q[1] /\ s = RemoveAt(q, 1)
      BY <1>1, <3>1 DEF GatheredOne, s
    <3>3. 1 \in 1 .. Len(g.pack) /\ 1 \in 1 .. Len(g.pack) + Len(line) /\ 1 <= Len(g.pack)
      BY <1>11, <2>2
    <3>4. pack[1] = q[1][1]
      BY <1>10, <3>2, <3>3
    <3>5. 1 \in 1 .. Len(q)
      BY <1>6
    <3>6. /\ Len(s) = Len(q) - 1
          /\ \A j \in 1 .. Len(q) - 1 : s[j] = q[IF j < 1 THEN j ELSE j + 1]
      BY <1>6, <3>2, <3>5, WithoutEntry
    <3>7. ASSUME NEW j \in 1 .. Len(r), NEW k \in 1 .. Len(r[j])
          PROVE  Place(q[1][1]) < Place(r[j][k])
      <4>1. j \in 1 .. Len(s) /\ j \in 1 .. Len(q) - 1 /\ ~(j < 1)
        BY <1>4, <3>6
      <4>2. s[j] = q[j + 1] /\ j + 1 \in 1 .. Len(q) /\ 1 < j + 1
        <5>1. s[j] = q[j + 1]
          BY <3>6, <4>1
        <5> QED
          BY <1>6, <4>1, <5>1
      <4>3. PICK l \in 1 .. Len(s[j]) : r[j][k] = s[j][l]
        BY <1>4, <4>1
      <4>4. Precedes(q[1], q[j + 1])
        BY <3>5, <4>2 DEF QueueInOrder
      <4> QED
        BY <3>2, <3>3, <4>2, <4>3, <4>4 DEF Precedes
    <3> QED
      BY <3>2, <3>3, <3>4, <3>5, <3>7
  <2> QED
    BY <2>1, <2>2
<1>14. Len(pack) # 0 => Head(pack) = pack[1]
  BY <1>10
<1> QED
  BY <1>4, <1>9, <1>10, <1>13, <1>14 DEF g, s, r, pack

TurnStates == [queue : Seq(Seq(Bytes)), shown : Seq(Seq(Bytes)), threw : BOOLEAN]

LEMMA TurnThat ==
  ASSUME NEW st, ~st.threw, EntryWithEOF(st.queue) # 0
  PROVE  /\ \/ Gather(st.queue).threw
            \/ NewlineAt(Head(Gather(st.queue).queue)) = 0
            => Turn(st) = [st EXCEPT !.queue = Gather(st.queue).queue, !.threw = TRUE]
         /\ ~(\/ Gather(st.queue).threw
              \/ NewlineAt(Head(Gather(st.queue).queue)) = 0)
            => Turn(st) = [queue |-> Rest(Gather(st.queue).queue),
                           shown |-> IF Parses(Taken(st.queue))
                                     THEN Append(st.shown, Taken(st.queue)) ELSE st.shown,
                           threw |-> ~Parses(Taken(st.queue))]
BY DEF Turn, Rest, Taken, BeforeNewline

LEMMA ShownNext ==
  ASSUME NEW shown, HeadsInOrder(shown), NEW pack \in Seq(Bytes), Parses(pack),
         \A i \in 1 .. Len(shown) : Place(Head(shown[i])) < Place(Head(pack))
  PROVE  HeadsInOrder(Append(shown, pack))
<1> DEFINE s == Append(shown, pack)
           n == Len(shown)
<1>1. shown \in Seq(Seq(Bytes)) /\ n \in Nat
  BY DEF HeadsInOrder
<1>2. /\ s \in Seq(Seq(Bytes)) /\ Len(s) = n + 1
      /\ \A i \in 1 .. n : s[i] = shown[i]
      /\ s[n + 1] = pack
  BY <1>1, AppendProperties
<1>3. pack # << >> /\ Head(pack).part = "head"
  <2>1. Len(pack) # 0
    BY DEF Parses
  <2> QED
    BY <2>1 DEF Parses
<1> HIDE DEF s, n
<1>4. \A i \in 1 .. Len(s) : i \in 1 .. n \/ i = n + 1
  BY <1>1, <1>2
<1>5. \A i \in 1 .. Len(s) : s[i] # << >> /\ Head(s[i]).part = "head"
  BY <1>2, <1>3, <1>4 DEF HeadsInOrder, n
<1>6. ASSUME NEW i \in 1 .. Len(s), NEW j \in 1 .. Len(s), i < j
      PROVE  Place(Head(s[i])) < Place(Head(s[j]))
  <2>1. i \in 1 .. n
    BY <1>1, <1>2, <1>4, <1>6
  <2>2. CASE j \in 1 .. n
    BY <1>2, <1>6, <2>1, <2>2 DEF HeadsInOrder, n
  <2>3. CASE j = n + 1
    BY <1>2, <2>1, <2>3 DEF n
  <2> QED
    BY <1>4, <2>2, <2>3
<1> QED
  BY <1>2, <1>5, <1>6 DEF HeadsInOrder, s

LEMMA TurnKeepsOrder ==
  ASSUME NEW st \in TurnStates, NEW n \in Int, Orderly(st.queue, st.shown, n)
  PROVE  Turn(st) \in TurnStates /\ Orderly(Turn(st).queue, Turn(st).shown, n)
<1> DEFINE q == st.queue
           shown == st.shown
           g == Gather(q)
           r == Rest(g.queue)
           pack == Taken(q)
<1>1. /\ q \in Seq(Seq(Bytes)) /\ shown \in Seq(Seq(Bytes)) /\ st.threw \in BOOLEAN
      /\ QueueInOrder(q) /\ HeadsInOrder(shown) /\ UsedUp(shown, q)
      /\ QueueUpTo(q, n) /\ ShownUpTo(shown, n)
  BY DEF TurnStates, Orderly
<1>2. CASE st.threw \/ EntryWithEOF(q) = 0
  <2>1. Turn(st) = st
    BY <1>2 DEF Turn
  <2> QED
    BY <2>1
<1>3. CASE ~st.threw /\ EntryWithEOF(q) # 0 /\ (g.threw \/ NewlineAt(Head(g.queue)) = 0)
  <2>1. Turn(st) = [st EXCEPT !.queue = g.queue, !.threw = TRUE]
    BY <1>3, TurnThat
  <2>2. g \in GatherStates /\ QueueInOrder(g.queue) /\ Entries(g.queue, q)
    BY <1>1, <1>3, GatherKeepsOrder
  <2>3. g.queue \in Seq(Seq(Bytes))
    BY <2>2 DEF GatherStates
  <2> HIDE DEF g
  <2>4. Turn(st) \in TurnStates /\ Turn(st).queue = g.queue /\ Turn(st).shown = shown
    BY <2>1, <2>3 DEF TurnStates
  <2>5. UsedUp(shown, g.queue)
    BY <1>1, <2>2 DEF UsedUp, Entries
  <2>6. QueueUpTo(g.queue, n)
    BY <1>1, <2>2 DEF QueueUpTo, Entries
  <2> QED
    BY <1>1, <2>2, <2>4, <2>5, <2>6 DEF Orderly
<1>4. CASE ~st.threw /\ EntryWithEOF(q) # 0 /\ ~(g.threw \/ NewlineAt(Head(g.queue)) = 0)
  <2>1. Turn(st) = [queue |-> r,
                    shown |-> IF Parses(pack) THEN Append(shown, pack) ELSE shown,
                    threw |-> ~Parses(pack)]
    BY <1>4, TurnThat
  <2>2. /\ QueueInOrder(r)
        /\ \A j \in 1 .. Len(r) : \A k \in 1 .. Len(r[j]) :
             \E i \in 1 .. Len(q) : \E l \in 1 .. Len(q[i]) : r[j][k] = q[i][l]
        /\ pack \in Seq(Bytes)
        /\ Len(pack) # 0 =>
             /\ \E i \in 1 .. Len(q) : \E l \in 1 .. Len(q[i]) : Head(pack) = q[i][l]
             /\ \A j \in 1 .. Len(r) : \A k \in 1 .. Len(r[j]) :
                  Place(Head(pack)) < Place(r[j][k])
    BY <1>1, <1>4, TakenInFront
  <2> HIDE DEF q, shown, g, r, pack
  <2>3. UsedUp(shown, r)
    <3> SUFFICES ASSUME NEW m \in 1 .. Len(shown), NEW j \in 1 .. Len(r), NEW k \in 1 .. Len(r[j])
                 PROVE  Place(Head(shown[m])) < Place(r[j][k])
      BY DEF UsedUp
    <3>1. PICK i \in 1 .. Len(q) : \E l \in 1 .. Len(q[i]) : r[j][k] = q[i][l]
      BY <2>2
    <3> QED
      BY <1>1, <3>1 DEF UsedUp
  <2>4. QueueUpTo(r, n)
    <3> SUFFICES ASSUME NEW j \in 1 .. Len(r), NEW k \in 1 .. Len(r[j])
                 PROVE  Place(r[j][k]) <= n
      BY DEF QueueUpTo
    <3>1. PICK i \in 1 .. Len(q) : \E l \in 1 .. Len(q[i]) : r[j][k] = q[i][l]
      BY <2>2
    <3> QED
      BY <1>1, <3>1 DEF QueueUpTo
  <2>5. CASE ~Parses(pack)
    <3>1. /\ Turn(st) \in TurnStates
          /\ Turn(st).queue = r /\ Turn(st).shown = shown
      BY <1>1, <2>1, <2>2, <2>5 DEF TurnStates, QueueInOrder
    <3> QED
      BY <1>1, <2>2, <2>3, <2>4, <3>1 DEF Orderly
  <2>6. CASE Parses(pack)
    <3>1. Len(pack) # 0
      BY <2>2, <2>6 DEF Parses
    <3>2. PICK i \in 1 .. Len(q) : \E l \in 1 .. Len(q[i]) : Head(pack) = q[i][l]
      BY <2>2, <3>1
    <3>3. \A m \in 1 .. Len(shown) : Place(Head(shown[m])) < Place(Head(pack))
      BY <1>1, <3>2 DEF UsedUp
    <3>4. Place(Head(pack)) <= n
      BY <1>1, <3>2 DEF QueueUpTo
    <3> DEFINE more == Append(shown, pack)
    <3>5. HeadsInOrder(more)
      BY <1>1, <2>2, <2>6, <3>3, ShownNext
    <3>6. /\ more \in Seq(Seq(Bytes)) /\ Len(more) = Len(shown) + 1 /\ Len(shown) \in Nat
          /\ \A m \in 1 .. Len(shown) : more[m] = shown[m]
          /\ more[Len(shown) + 1] = pack
      BY <1>1, <2>2, AppendProperties
    <3>7. Turn(st) = [queue |-> r, shown |-> more, threw |-> FALSE]
      BY <2>1, <2>6
    <3> HIDE DEF more
    <3>8. \A m \in 1 .. Len(more) : m \in 1 .. Len(shown) \/ m = Len(shown) + 1
      BY <3>6
    <3>9. UsedUp(more, r)
      <4> SUFFICES ASSUME NEW m \in 1 .. Len(more), NEW j \in 1 .. Len(r), NEW k \in 1 .. Len(r[j])
                   PROVE  Place(Head(more[m])) < Place(r[j][k])
        BY DEF UsedUp
      <4>1. CASE m \in 1 .. Len(shown)
        BY <2>3, <3>6, <4>1 DEF UsedUp
      <4>2. CASE m = Len(shown) + 1
        BY <2>2, <3>1, <3>6, <4>2
      <4> QED
        BY <3>8, <4>1, <4>2
    <3>10. ShownUpTo(more, n)
      <4> SUFFICES ASSUME NEW m \in 1 .. Len(more)
                   PROVE  Place(Head(more[m])) <= n
        BY DEF ShownUpTo
      <4>1. CASE m \in 1 .. Len(shown)
        BY <1>1, <3>6, <4>1 DEF ShownUpTo
      <4>2. CASE m = Len(shown) + 1
        BY <3>4, <3>6, <4>2
      <4> QED
        BY <3>8, <4>1, <4>2
    <3>11. /\ Turn(st) \in TurnStates
           /\ Turn(st).queue = r /\ Turn(st).shown = more
      BY <2>2, <3>6, <3>7 DEF TurnStates, QueueInOrder
    <3> QED
      BY <2>2, <2>4, <3>5, <3>9, <3>10, <3>11 DEF Orderly
  <2> QED
    BY <2>5, <2>6
<1> QED
  BY <1>2, <1>3, <1>4

-----------------------------------------------------------------------------
(***************************************************************************)
(* The do-while loop.                                                      *)
(***************************************************************************)
TurnedNone(q) == [queue |-> q, shown |-> messages, threw |-> FALSE]

Turnings(f, q, m) ==
  f = [i \in 0 .. m |-> IF i = 0 THEN TurnedNone(q) ELSE Turn(f[i - 1])]

LEMMA TurningsExist ==
  ASSUME NEW q, NEW m \in Nat
  PROVE  \E f : Turnings(f, q, m)
<1> DEFINE Missing == {n \in Nat : ~\E f : Turnings(f, q, n)}
<1> SUFFICES ASSUME Missing # {} PROVE FALSE
  OBVIOUS
<1>1. PICK n \in Missing : \A k \in Missing : n <= k
  BY LeastExists
<1>2. n \in Nat /\ \A k \in Nat : k < n => k \notin Missing
  BY <1>1
<1> DEFINE Val(g, i) == IF i = 0 THEN TurnedNone(q) ELSE Turn(g[i - 1])
<1>3. CASE n = 0
  <2> DEFINE f == [i \in 0 .. 0 |-> TurnedNone(q)]
  <2>1. \A i \in 0 .. 0 : Val(f, i) = TurnedNone(q)
    OBVIOUS
  <2> HIDE DEF Val
  <2>2. f = [i \in 0 .. 0 |-> Val(f, i)]
    BY <2>1
  <2>3. Turnings(f, q, 0)
    BY <2>2 DEF Turnings, Val
  <2> QED
    BY <1>1, <1>3, <2>3
<1>4. CASE n # 0
  <2>1. n - 1 \in Nat /\ n - 1 \notin Missing
    BY <1>2, <1>4
  <2>2. PICK f : Turnings(f, q, n - 1)
    BY <2>1
  <2> DEFINE g == [i \in 0 .. n |-> Val(f, i)]
  <2>3. \A i \in 0 .. n - 1 : f[i] = Val(f, i)
    BY <2>2 DEF Turnings
  <2>4. \A i \in 0 .. n : Val(g, i) = Val(f, i)
    <3>1. \A i \in 0 .. n : i # 0 => i - 1 \in 0 .. n - 1 /\ i - 1 \in 0 .. n
      BY <1>2
    <3>2. \A i \in 0 .. n : i # 0 => g[i - 1] = f[i - 1]
      <4> HIDE DEF Val
      <4> QED
        BY <2>3, <3>1
    <3> HIDE DEF g
    <3> QED
      BY <3>2
  <2>5. g = [i \in 0 .. n |-> Val(g, i)]
    <3> HIDE DEF Val
    <3> QED
      BY <2>4
  <2>6. Turnings(g, q, n)
    <3> HIDE DEF g
    <3> QED
      BY <2>5 DEF Turnings, Val
  <2> QED
    BY <1>1, <2>6
<1> QED
  BY <1>3, <1>4

LEMMA TurnSteps ==
  ASSUME NEW q \in Seq(Seq(Bytes))
  PROVE  \E f : /\ queuerProcessor(q) = f[Len(FlattenSeq(q))]
                /\ f[0] = TurnedNone(q)
                /\ \A i \in 1 .. Len(FlattenSeq(q)) : f[i] = Turn(f[i - 1])
<1> DEFINE m == Len(FlattenSeq(q))
           after[turns \in 0 .. m] ==
             IF turns = 0 THEN [queue |-> q, shown |-> messages, threw |-> FALSE]
                          ELSE Turn(after[turns - 1])
<1>1. queuerProcessor(q) = after[m]
  BY DEF queuerProcessor
<1>2. m \in Nat
  BY FlattenIsSequence
<1> HIDE DEF m
<1>3. \E f : f = [turns \in 0 .. m |->
                    IF turns = 0 THEN [queue |-> q, shown |-> messages, threw |-> FALSE]
                                 ELSE Turn(f[turns - 1])]
  BY <1>2, TurningsExist DEF Turnings, TurnedNone
<1>4. after = [turns \in 0 .. m |->
                 IF turns = 0 THEN [queue |-> q, shown |-> messages, threw |-> FALSE]
                              ELSE Turn(after[turns - 1])]
  BY <1>3
<1> HIDE DEF after
<1>5. after[0] = TurnedNone(q)
  BY <1>2, <1>4 DEF TurnedNone
<1>6. ASSUME NEW i \in 1 .. m
      PROVE  after[i] = Turn(after[i - 1])
  <2>1. i \in 0 .. m /\ i # 0
    BY <1>2
  <2> QED
    BY <1>4, <2>1
<1> QED
  BY <1>1, <1>5, <1>6 DEF m

LEMMA ProcessorKeepsOrder ==
  ASSUME NEW q, NEW n \in Int, Orderly(q, messages, n)
  PROVE  Orderly(queuerProcessor(q).queue, queuerProcessor(q).shown, n)
<1> DEFINE m == Len(FlattenSeq(q))
<1>1. q \in Seq(Seq(Bytes)) /\ messages \in Seq(Seq(Bytes))
  BY DEF Orderly, QueueInOrder, HeadsInOrder
<1>2. m \in Nat
  BY <1>1, FlattenIsSequence
<1>3. PICK f : /\ queuerProcessor(q) = f[m]
               /\ f[0] = TurnedNone(q)
               /\ \A i \in 1 .. m : f[i] = Turn(f[i - 1])
  BY <1>1, TurnSteps
<1> HIDE DEF m
<1> DEFINE Kept(i) == f[i] \in TurnStates /\ Orderly(f[i].queue, f[i].shown, n)
           Wrong == {i \in 0 .. m : ~Kept(i)}
<1>4. Kept(0)
  BY <1>1, <1>3 DEF TurnedNone, TurnStates
<1>5. Wrong = {}
  <2> SUFFICES ASSUME Wrong # {} PROVE FALSE
    OBVIOUS
  <2>1. Wrong \subseteq Nat
    BY <1>2
  <2>2. PICK i \in Wrong : \A k \in Wrong : i <= k
    BY <2>1, LeastExists
  <2> HIDE DEF Kept
  <2>3. i \in 0 .. m /\ ~Kept(i)
    BY <2>2
  <2>4. i # 0
    BY <1>4, <2>3
  <2>5. i \in 1 .. m /\ i - 1 \in 0 .. m /\ i - 1 \notin Wrong
    BY <1>2, <2>1, <2>2, <2>3, <2>4
  <2>6. Kept(i - 1)
    BY <2>5
  <2>7. f[i] = Turn(f[i - 1])
    BY <1>3, <2>5
  <2>8. Kept(i)
    BY <2>6, <2>7, TurnKeepsOrder DEF Kept
  <2> QED
    BY <2>3, <2>8
<1>6. Kept(m)
  BY <1>2, <1>5
<1> QED
  BY <1>3, <1>6

-----------------------------------------------------------------------------
(***************************************************************************)
(* A chunk.                                                                *)
(***************************************************************************)
LEMMA ChunkIs ==
  ASSUME received \in 0 .. Len(Stream), NEW n \in 1 .. Len(Stream) - received
  PROVE  /\ Chunk(n) \in Seq(Bytes) /\ Len(Chunk(n)) = n
         /\ \A k \in 1 .. n : /\ Chunk(n)[k] = Stream[received + k]
                              /\ Place(Chunk(n)[k]) = received + k
<1>1. /\ Stream \in Seq(Bytes) /\ Len(Stream) \in Nat
      /\ \A i \in 1 .. Len(Stream) : Stream[i] \in Bytes /\ Place(Stream[i]) = i
  BY StreamAt, PlaceInStream, PacketsAssumption
<1>2. received + 1 \in Int /\ received + n \in Int
      /\ \A i \in received + 1 .. received + n : i \in 1 .. Len(Stream)
  BY <1>1
<1> DEFINE c == Chunk(n)
<1>3. /\ c \in Seq(Bytes)
      /\ Len(c) = IF received + 1 <= received + n
                  THEN (received + n) - (received + 1) + 1 ELSE 0
      /\ \A k \in 1 .. (received + n) - (received + 1) + 1 : c[k] = Stream[(received + 1) + k - 1]
  <2> DEFINE a == received + 1
             b == received + n
  <2>1. c = SubSeq(Stream, a, b)
    BY DEF Chunk
  <2>2. a \in Int /\ b \in Int /\ \A i \in a .. b : Stream[i] \in Bytes
    BY <1>1, <1>2
  <2> HIDE DEF a, b, c
  <2>3. /\ c \in Seq(Bytes)
        /\ Len(c) = IF a <= b THEN b - a + 1 ELSE 0
        /\ \A k \in 1 .. b - a + 1 : c[k] = Stream[a + k - 1]
    BY <2>1, <2>2, SubSeqProperties
  <2> QED
    BY <2>3 DEF a, b
<1> HIDE DEF c
<1>4. Len(c) = n /\ (received + n) - (received + 1) + 1 = n
  BY <1>1, <1>3
<1>5. ASSUME NEW k \in 1 .. n
      PROVE  c[k] = Stream[received + k] /\ Place(c[k]) = received + k
  <2>1. (received + 1) + k - 1 = received + k /\ received + k \in 1 .. Len(Stream)
    BY <1>1
  <2>2. c[k] = Stream[received + k]
    BY <1>3, <1>4, <2>1
  <2> QED
    BY <1>1, <2>1, <2>2
<1> QED
  BY <1>3, <1>4, <1>5 DEF c

LEMMA OrderWithChunk ==
  ASSUME OrderInv, NEW n \in 1 .. Len(Stream) - received
  PROVE  Orderly(Append(dataQueue, Chunk(n)), messages, received + n)
<1> DEFINE c == Chunk(n)
           l == Len(dataQueue)
           q == Append(dataQueue, c)
<1>1. received \in Int /\ n \in Nat \ {0}
  BY StreamAt, PacketsAssumption DEF OrderInv
<1>2. /\ c \in Seq(Bytes) /\ Len(c) = n
      /\ \A k \in 1 .. n : Place(c[k]) = received + k
  BY ChunkIs DEF OrderInv
<1>3. /\ QueueInOrder(dataQueue) /\ HeadsInOrder(messages) /\ UsedUp(messages, dataQueue)
      /\ QueueUpTo(dataQueue, received) /\ ShownUpTo(messages, received)
  BY DEF OrderInv, Orderly
<1>4. dataQueue \in Seq(Seq(Bytes)) /\ l \in Nat
  BY <1>3 DEF QueueInOrder
<1> HIDE DEF c, l
<1>5. /\ q \in Seq(Seq(Bytes)) /\ Len(q) = l + 1
      /\ \A i \in 1 .. l : q[i] = dataQueue[i]
      /\ q[l + 1] = c
  BY <1>2, <1>4, AppendProperties DEF l
<1> HIDE DEF q
<1>6. \A i \in 1 .. Len(q) : i \in 1 .. l \/ i = l + 1
  BY <1>4, <1>5
<1>7. InOrder(c)
  <2>1. \A j, k \in 1 .. n : j < k => received + j < received + k
    BY <1>1
  <2> QED
    BY <1>2, <2>1 DEF InOrder
<1>8. ASSUME NEW i \in 1 .. l
      PROVE  Precedes(dataQueue[i], c)
  <2> SUFFICES ASSUME NEW j \in 1 .. Len(dataQueue[i]), NEW k \in 1 .. n
               PROVE  Place(dataQueue[i][j]) < Place(c[k])
    BY <1>2 DEF Precedes
  <2>1. Place(dataQueue[i][j]) <= received
    BY <1>3 DEF QueueUpTo, l
  <2>2. Place(c[k]) = received + k
    BY <1>2
  <2>3. dataQueue[i] \in Seq(Bytes)
    BY <1>4 DEF l
  <2>4. Place(dataQueue[i][j]) \in Int
    BY <2>3, PlaceIsInteger
  <2> QED
    BY <1>1, <2>1, <2>2, <2>4
<1>9. ASSUME NEW i \in 1 .. Len(q)
      PROVE  InOrder(q[i])
  BY <1>3, <1>5, <1>6, <1>7 DEF QueueInOrder, l
<1>10. ASSUME NEW i \in 1 .. Len(q), NEW j \in 1 .. Len(q), i < j
       PROVE  Precedes(q[i], q[j])
  <2>1. i \in 1 .. l
    BY <1>4, <1>5, <1>6, <1>10
  <2>2. CASE j \in 1 .. l
    BY <1>3, <1>5, <1>10, <2>1, <2>2 DEF QueueInOrder, l
  <2>3. CASE j = l + 1
    BY <1>5, <1>8, <2>1, <2>3
  <2> QED
    BY <1>6, <2>2, <2>3
<1>11. QueueInOrder(q)
  BY <1>5, <1>9, <1>10 DEF QueueInOrder
<1>12. ASSUME NEW i \in 1 .. Len(q), NEW k \in 1 .. Len(q[i])
       PROVE  Place(q[i][k]) <= received + n
  <2>1. CASE i \in 1 .. l
    <3>1. q[i] = dataQueue[i] /\ Place(dataQueue[i][k]) <= received
      BY <1>3, <1>5, <1>12, <2>1 DEF QueueUpTo, l
    <3>2. q[i] \in Seq(Bytes)
      BY <1>5
    <3>3. Place(q[i][k]) \in Int
      BY <3>2, PlaceIsInteger
    <3> QED
      BY <1>1, <3>1, <3>3
  <2>2. CASE i = l + 1
    <3>1. q[i] = c /\ k \in 1 .. n
      BY <1>2, <1>5, <1>12, <2>2
    <3>2. Place(q[i][k]) = received + k
      BY <1>2, <3>1
    <3> QED
      BY <1>1, <3>1, <3>2
  <2> QED
    BY <1>6, <2>1, <2>2
<1>13. ASSUME NEW m \in 1 .. Len(messages)
       PROVE  /\ Place(Head(messages[m])) \in Int
              /\ Place(Head(messages[m])) <= received
  <2>1. messages[m] \in Seq(Bytes) /\ messages[m] # << >>
    BY <1>3 DEF HeadsInOrder
  <2>2. Head(messages[m]) \in Bytes
    BY <2>1, HeadTailProperties
  <2> QED
    BY <1>3, <2>2, PlaceIsInteger DEF ShownUpTo
<1>14. ASSUME NEW m \in 1 .. Len(messages), NEW i \in 1 .. Len(q), NEW k \in 1 .. Len(q[i])
       PROVE  Place(Head(messages[m])) < Place(q[i][k])
  <2>1. CASE i \in 1 .. l
    BY <1>3, <1>5, <1>14, <2>1 DEF UsedUp, l
  <2>2. CASE i = l + 1
    <3>1. q[i] = c /\ k \in 1 .. n
      BY <1>2, <1>5, <1>14, <2>2
    <3>2. Place(q[i][k]) = received + k
      BY <1>2, <3>1
    <3> QED
      BY <1>1, <1>13, <3>1, <3>2
  <2> QED
    BY <1>6, <2>1, <2>2
<1>15. ShownUpTo(messages, received + n)
  <2>1. \A m \in 1 .. Len(messages) : Place(Head(messages[m])) <= received + n
    BY <1>1, <1>13
  <2> QED
    BY <2>1 DEF ShownUpTo
<1>16. UsedUp(messages, q) /\ QueueUpTo(q, received + n)
  BY <1>12, <1>14 DEF UsedUp, QueueUpTo
<1> QED
  BY <1>3, <1>11, <1>15, <1>16 DEF Orderly, q, c

LEMMA OrderLater ==
  ASSUME OrderInv, NEW n \in 1 .. Len(Stream) - received
  PROVE  Orderly(dataQueue, messages, received + n)
<1>1. /\ QueueInOrder(dataQueue) /\ HeadsInOrder(messages) /\ UsedUp(messages, dataQueue)
      /\ QueueUpTo(dataQueue, received) /\ ShownUpTo(messages, received)
  BY DEF OrderInv, Orderly
<1>2. received \in Int /\ n \in Nat
  BY StreamAt, PacketsAssumption DEF OrderInv
<1>3. \A place \in Int : place <= received => place <= received + n
  BY <1>2
<1>4. ASSUME NEW i \in 1 .. Len(dataQueue), NEW k \in 1 .. Len(dataQueue[i])
      PROVE  Place(dataQueue[i][k]) <= received + n
  <2>1. dataQueue[i] \in Seq(Bytes)
    BY <1>1 DEF QueueInOrder
  <2>2. Place(dataQueue[i][k]) \in Int
    BY <2>1, PlaceIsInteger
  <2> QED
    BY <1>1, <1>3, <2>2 DEF QueueUpTo
<1>5. ASSUME NEW m \in 1 .. Len(messages)
      PROVE  Place(Head(messages[m])) <= received + n
  <2>1. messages[m] \in Seq(Bytes) /\ messages[m] # << >>
    BY <1>1 DEF HeadsInOrder
  <2>2. Place(Head(messages[m])) \in Int
    BY <2>1, HeadTailProperties, PlaceIsInteger
  <2> QED
    BY <1>1, <1>3, <2>2 DEF ShownUpTo
<1> QED
  BY <1>1, <1>4, <1>5 DEF Orderly, QueueUpTo, ShownUpTo

LEMMA OrderInit == Init => OrderInv
<1> SUFFICES ASSUME Init PROVE OrderInv
  OBVIOUS
<1>1. received \in 0 .. Len(Stream)
  BY StreamAt, PacketsAssumption DEF Init
<1>2. /\ dataQueue \in Seq(Seq(Bytes)) /\ Len(dataQueue) = 0
      /\ messages \in Seq(Seq(Bytes)) /\ Len(messages) = 0
  BY DEF Init
<1>3. \A i \in 1 .. 0 : FALSE
  OBVIOUS
<1> QED
  BY <1>1, <1>2, <1>3
     DEF OrderInv, Orderly, QueueInOrder, HeadsInOrder, UsedUp, QueueUpTo, ShownUpTo

LEMMA OrderStep == OrderInv /\ [Next]_vars => OrderInv'
<1> SUFFICES ASSUME OrderInv, [Next]_vars PROVE OrderInv'
  OBVIOUS
<1>1. ASSUME NEW n \in 1 .. Len(Stream) - received, Data(n)
      PROVE  OrderInv'
  <2>1. received' = received + n
    BY <1>1 DEF Data
  <2>2. received' \in 0 .. Len(Stream) /\ received + n \in Int
    BY <2>1, StreamAt, PacketsAssumption DEF OrderInv
  <2>3. CASE Decodes(Chunk(n))
    <3> DEFINE q == Append(dataQueue, Chunk(n))
    <3>1. dataQueue' = queuerProcessor(q).queue /\ messages' = queuerProcessor(q).shown
      BY <1>1, <2>3 DEF Data
    <3>2. Orderly(q, messages, received + n)
      BY OrderWithChunk
    <3> HIDE DEF q
    <3>3. Orderly(queuerProcessor(q).queue, queuerProcessor(q).shown, received + n)
      BY <2>2, <3>2, ProcessorKeepsOrder
    <3>4. Orderly(dataQueue', messages', received')
      BY <2>1, <3>1, <3>3
    <3> QED
      BY <2>2, <3>4 DEF OrderInv, Orderly, QueueInOrder, HeadsInOrder, UsedUp,
                        QueueUpTo, ShownUpTo
  <2>4. CASE ~Decodes(Chunk(n))
    <3>1. dataQueue' = dataQueue /\ messages' = messages
      BY <1>1, <2>4 DEF Data
    <3>2. Orderly(dataQueue, messages, received + n)
      BY OrderLater
    <3>3. Orderly(dataQueue', messages', received')
      BY <2>1, <3>1, <3>2
    <3> QED
      BY <2>2, <3>3 DEF OrderInv
  <2> QED
    BY <2>3, <2>4
<1>2. CASE UNCHANGED vars
  BY <1>2 DEF vars, OrderInv
<1> QED
  BY <1>1, <1>2 DEF Next

(***************************************************************************)
(* Two beginnings of packets are in the order of their packets.            *)
(***************************************************************************)
LEMMA OrderOfHeads == OrderInv => ShownInOrder
<1> SUFFICES ASSUME OrderInv,
                    NEW i \in DOMAIN messages, NEW j \in DOMAIN messages, i < j
             PROVE  Head(messages[i]).packet < Head(messages[j]).packet
  BY DEF ShownInOrder
<1>1. HeadsInOrder(messages)
  BY DEF OrderInv, Orderly
<1>2. i \in 1 .. Len(messages) /\ j \in 1 .. Len(messages)
  BY <1>1 DEF HeadsInOrder
<1>3. \A m \in 1 .. Len(messages) :
        /\ Head(messages[m]).packet \in Int
        /\ Place(Head(messages[m])) = 5 * (Head(messages[m]).packet - 1) + 1
  <2> SUFFICES ASSUME NEW m \in 1 .. Len(messages)
               PROVE  /\ Head(messages[m]).packet \in Int
                      /\ Place(Head(messages[m])) = 5 * (Head(messages[m]).packet - 1) + 1
    OBVIOUS
  <2>1. messages[m] \in Seq(Bytes) /\ messages[m] # << >> /\ Head(messages[m]).part = "head"
    BY <1>1 DEF HeadsInOrder
  <2>2. Head(messages[m]) \in Bytes
    BY <2>1, HeadTailProperties
  <2>3. Rank["head"] = 1
    BY DEF Rank
  <2> QED
    BY <2>1, <2>2, <2>3 DEF Bytes, Place
<1>4. Place(Head(messages[i])) < Place(Head(messages[j]))
  BY <1>1, <1>2 DEF HeadsInOrder
<1> DEFINE a == Head(messages[i]).packet
           b == Head(messages[j]).packet
<1>5. a \in Int /\ b \in Int
  BY <1>2, <1>3
<1>6. 5 * (a - 1) + 1 < 5 * (b - 1) + 1
  <2>1. Place(Head(messages[i])) = 5 * (a - 1) + 1
    BY <1>2, <1>3
  <2>2. Place(Head(messages[j])) = 5 * (b - 1) + 1
    BY <1>2, <1>3
  <2> HIDE DEF a, b
  <2> QED
    BY <1>4, <2>1, <2>2, Zenon
<1> HIDE DEF a, b
<1>7. a < b
  BY <1>5, <1>6
<1> QED
  BY <1>7 DEF a, b

(***************************************************************************)
(* Whatever the chunks of the socket and whatever queuerProcessor throws,  *)
(* the client shows no beginning of a packet twice and no packet before    *)
(* one that was sent before it.                                            *)
(***************************************************************************)
THEOREM PacketsShownInOrder == Spec => []ShownInOrder
BY OrderInit, OrderStep, OrderOfHeads, PTL DEF Spec

-----------------------------------------------------------------------------
(***************************************************************************)
(* Pieces of the stream: s is the m bytes that follow its first b.         *)
(***************************************************************************)
Window(s, b, m) ==
  /\ s \in Seq(Bytes) /\ Len(s) = m
  /\ \A i \in 1 .. m : s[i] = Stream[b + i]

LEMMA OneWindow ==
  ASSUME NEW s, NEW t, NEW b, NEW m, Window(s, b, m), Window(t, b, m)
  PROVE  s = t
<1>1. s \in Seq(Bytes) /\ t \in Seq(Bytes) /\ Len(s) = Len(t)
  BY DEF Window
<1>2. \A i \in 1 .. Len(s) : s[i] = t[i]
  BY DEF Window
<1> QED
  BY <1>1, <1>2, SeqEqual

LEMMA WindowOfStream ==
  ASSUME NEW b \in Nat, NEW n \in Nat, b <= n, n <= Len(Stream)
  PROVE  Window(SubSeq(Stream, b + 1, n), b, n - b)
<1> DEFINE a == b + 1
           s == SubSeq(Stream, a, n)
<1>1. Len(Stream) \in Nat /\ \A i \in 1 .. Len(Stream) : Stream[i] \in Bytes
  BY StreamAt, PlaceInStream, PacketsAssumption
<1>2. a \in Int /\ n \in Int /\ \A i \in a .. n : Stream[i] \in Bytes
  BY <1>1
<1>3. /\ s \in Seq(Bytes) /\ Len(s) = IF a <= n THEN n - a + 1 ELSE 0
      /\ \A i \in 1 .. n - a + 1 : s[i] = Stream[a + i - 1]
  <2> HIDE DEF a
  <2> QED
    BY <1>2, SubSeqProperties
<1> HIDE DEF s
<1>4. Len(s) = n - b /\ n - a + 1 = n - b
  BY <1>3
<1>5. ASSUME NEW i \in 1 .. n - b
      PROVE  s[i] = Stream[b + i]
  <2>1. a + i - 1 = b + i
    OBVIOUS
  <2> QED
    BY <1>3, <1>4, <2>1
<1> QED
  BY <1>3, <1>4, <1>5 DEF Window, s

LEMMA WindowsJoin ==
  ASSUME NEW s, NEW t, NEW b \in Nat, NEW m \in Nat, NEW l \in Nat,
         Window(s, b, m), Window(t, b + m, l)
  PROVE  Window(s \o t, b, m + l)
<1>1. s \in Seq(Bytes) /\ t \in Seq(Bytes) /\ Len(s) = m /\ Len(t) = l
  BY DEF Window
<1> DEFINE u == s \o t
<1>2. /\ u \in Seq(Bytes) /\ Len(u) = m + l
      /\ \A i \in 1 .. m + l : u[i] = IF i <= m THEN s[i] ELSE t[i - m]
  <2>1. /\ u \in Seq(Bytes) /\ Len(u) = Len(s) + Len(t)
        /\ \A i \in 1 .. Len(s) + Len(t) : u[i] = IF i <= Len(s) THEN s[i] ELSE t[i - Len(s)]
    BY <1>1, ConcatProperties
  <2> HIDE DEF u
  <2> QED
    BY <1>1, <2>1
<1> HIDE DEF u
<1>3. ASSUME NEW i \in 1 .. m + l
      PROVE  u[i] = Stream[b + i]
  <2>1. CASE i <= m
    BY <1>2, <2>1 DEF Window
  <2>2. CASE ~(i <= m)
    <3>1. i - m \in 1 .. l /\ (b + m) + (i - m) = b + i
      BY <2>2
    <3>2. t[i - m] = Stream[(b + m) + (i - m)]
      BY <3>1 DEF Window
    <3> QED
      BY <1>2, <2>2, <3>1, <3>2
  <2> QED
    BY <2>1, <2>2
<1> QED
  BY <1>2, <1>3 DEF Window, u

LEMMA WindowsCut ==
  ASSUME NEW s, NEW b \in Nat, NEW m \in Nat, Window(s, b, m), NewlineAt(s) # 0
  PROVE  /\ Window(BeforeNewline(s), b, NewlineAt(s) - 1)
         /\ Window(AfterNewline(s), b + NewlineAt(s), m - NewlineAt(s))
<1> DEFINE x == NewlineAt(s)
<1>1. s \in Seq(Bytes) /\ Len(s) = m /\ x \in 1 .. m
  BY NewlineIsAt DEF Window
<1>2. /\ BeforeNewline(s) \in Seq(Bytes) /\ Len(BeforeNewline(s)) = x - 1
      /\ \A k \in 1 .. x - 1 : BeforeNewline(s)[k] = s[k]
      /\ AfterNewline(s) \in Seq(Bytes) /\ Len(AfterNewline(s)) = m - x
      /\ \A k \in 1 .. m - x : AfterNewline(s)[k] = s[x + k]
  BY <1>1, CutAtNewline
<1> HIDE DEF x
<1>3. ASSUME NEW k \in 1 .. x - 1
      PROVE  BeforeNewline(s)[k] = Stream[b + k]
  <2>1. k \in 1 .. m
    BY <1>1
  <2> QED
    BY <1>2, <2>1 DEF Window
<1>4. ASSUME NEW k \in 1 .. m - x
      PROVE  AfterNewline(s)[k] = Stream[(b + x) + k]
  <2>1. x + k \in 1 .. m /\ b + (x + k) = (b + x) + k
    BY <1>1
  <2>2. s[x + k] = Stream[b + (x + k)]
    BY <2>1 DEF Window
  <2> QED
    BY <1>2, <2>1, <2>2
<1> QED
  BY <1>2, <1>3, <1>4 DEF Window, x

(***************************************************************************)
(* Newlines are where packets end, and there is one to each.               *)
(***************************************************************************)
LEMMA NewlinesInStream ==
  ASSUME NEW p \in 1 .. Packets, NEW r \in 1 .. 5
  PROVE  IsNewline(Stream[5 * (p - 1) + r]) <=> r = 5
<1>1. Stream[5 * (p - 1) + r] = Line(p)[r] /\ Line(p)[r].part = Parts[r]
  BY StreamAt, LineIsFive
<1>2. r = 1 \/ r = 2 \/ r = 3 \/ r = 4 \/ r = 5
  OBVIOUS
<1>3. Parts[r] = "newline" <=> r = 5
  BY <1>2 DEF Parts
<1> QED
  BY <1>1, <1>3 DEF IsNewline

LEMMA NewlineOfWindow ==
  ASSUME NEW s, NEW b \in Nat, NEW m \in Nat, NEW c \in Nat, Window(s, b, m),
         5 * c <= b, b < 5 * c + 5, b + m <= Len(Stream)
  PROVE  NewlineAt(s) = IF b + m < 5 * c + 5 THEN 0 ELSE 5 * c + 5 - b
<1> DEFINE x == NewlineAt(s)
           e == 5 * c + 5
<1>1. /\ s \in Seq(Bytes) /\ Len(s) = m /\ x \in 0 .. m
      /\ \A i \in 1 .. m : i < x => ~IsNewline(s[i])
      /\ x = 0 => \A i \in 1 .. m : ~IsNewline(s[i])
      /\ x # 0 => IsNewline(s[x])
  BY NewlineIsAt DEF Window
<1>2. Len(Stream) = 5 * Packets /\ Packets \in Nat
  BY StreamAt, PacketsAssumption
<1>3. ASSUME NEW i \in 1 .. m, b + i <= e
      PROVE  IsNewline(s[i]) <=> b + i = e
  <2> DEFINE p == c + 1
             r == b + i - 5 * c
  <2>1. p \in 1 .. Packets /\ r \in 1 .. 5 /\ 5 * (p - 1) + r = b + i
    BY <1>2, <1>3
  <2> HIDE DEF p, r
  <2>2. IsNewline(Stream[b + i]) <=> r = 5
    BY <2>1, NewlinesInStream
  <2>3. s[i] = Stream[b + i]
    BY DEF Window
  <2> QED
    BY <2>2, <2>3 DEF r
<1>4. CASE b + m < e
  <2>1. \A i \in 1 .. m : b + i <= e /\ b + i # e
    BY <1>4
  <2>2. \A i \in 1 .. m : ~IsNewline(s[i])
    BY <1>3, <2>1
  <2>3. x = 0
    <3> HIDE DEF x
    <3> QED
      BY <1>1, <2>2
  <2> QED
    BY <1>4, <2>3
<1>5. CASE ~(b + m < e)
  <2> DEFINE y == e - b
  <2>1. y \in 1 .. m /\ b + y = e
    BY <1>5
  <2>2. IsNewline(s[y])
    BY <1>3, <2>1
  <2> HIDE DEF x, y, e
  <2>3. x # 0 /\ ~(y < x)
    BY <1>1, <2>1, <2>2
  <2>4. x \in 1 .. m /\ b + x <= e
    BY <1>1, <2>1, <2>3 DEF e
  <2>5. b + x = e
    BY <1>1, <1>3, <2>3, <2>4
  <2> QED
    BY <1>5, <2>4, <2>5 DEF x, e
<1> QED
  BY <1>4, <1>5

LEMMA ContentIs ==
  ASSUME NEW c \in Nat, c < Packets
  PROVE  Window(Content(c + 1), 5 * c, 4) /\ Parses(Content(c + 1))
<1> DEFINE p == c + 1
           line == Line(p)
           s == Content(p)
<1>1. p \in 1 .. Packets /\ p - 1 = c
  BY PacketsAssumption
<1> HIDE DEF p
<1>2. /\ line \in Seq(Bytes) /\ Len(line) = 5
      /\ \A r \in 1 .. 5 : /\ line[r] \in Bytes /\ line[r].part = Parts[r]
                           /\ line[r] = Stream[5 * c + r]
  <2>1. /\ line \in Seq(Bytes) /\ Len(line) = 5
        /\ \A r \in 1 .. 5 : line[r] \in Bytes /\ line[r].part = Parts[r]
    BY <1>1, LineIsFive
  <2>2. \A r \in 1 .. 5 : Stream[5 * (p - 1) + r] = line[r]
    BY <1>1, StreamAt
  <2>3. \A r \in 1 .. 5 : Stream[5 * c + r] = line[r]
    BY <1>1, <2>2
  <2> QED
    BY <2>1, <2>3
<1>3. s = SubSeq(line, 1, 4)
  <2>1. s = SubSeq(line, 1, Len(line) - 1)
    BY DEF Content, Front
  <2> QED
    BY <1>2, <2>1
<1> HIDE DEF line, s
<1>4. /\ s \in Seq(Bytes) /\ Len(s) = 4
      /\ \A i \in 1 .. 4 : s[i] = line[i]
  <2>1. \A i \in 1 .. 4 : line[i] \in Bytes
    BY <1>2
  <2>2. /\ s \in Seq(Bytes) /\ Len(s) = IF 1 <= 4 THEN 4 - 1 + 1 ELSE 0
        /\ \A i \in 1 .. 4 - 1 + 1 : s[i] = line[1 + i - 1]
    BY <1>3, <2>1, SubSeqProperties
  <2> QED
    BY <2>2
<1>5. Window(s, 5 * c, 4)
  BY <1>2, <1>4 DEF Window
<1>6. \A i \in 1 .. 4 : s[i].part = Parts[i]
  BY <1>2, <1>4
<1>7. Parses(s)
  <2>1. Head(s) = s[1] /\ Last(s) = s[4]
    BY <1>4 DEF Last
  <2>2. Parts[1] = "head" /\ Parts[2] = "lead" /\ Parts[3] = "trail" /\ Parts[4] = "tail"
    BY DEF Parts
  <2>3. \A i \in 2 .. Len(s) - 1 : i = 2 \/ i = 3
    BY <1>4
  <2>4. s[1].part = "head" /\ s[2].part = "lead" /\ s[3].part = "trail" /\ s[4].part = "tail"
    BY <1>6, <2>2
  <2> QED
    BY <1>4, <2>1, <2>3, <2>4 DEF Parses
<1> QED
  BY <1>5, <1>7 DEF s, p

-----------------------------------------------------------------------------
(***************************************************************************)
(* The loop where no packet comes in pieces that a turn gives up.          *)
(***************************************************************************)
Pending(c, n) == SubSeq(Stream, 5 * c + 1, n)

Shown(c) == [p \in 1 .. c |-> Content(p)]

WholeUpTo(c, n) == [queue |-> <<Pending(c, n)>>, shown |-> Shown(c), threw |-> FALSE]

LEMMA PendingIs ==
  ASSUME NEW c \in Nat, NEW n \in Nat, 5 * c <= n, n <= Len(Stream)
  PROVE  Window(Pending(c, n), 5 * c, n - 5 * c)
<1>1. 5 * c \in Nat
  OBVIOUS
<1> QED
  BY <1>1, WindowOfStream DEF Pending

LEMMA ShownIs ==
  ASSUME NEW c \in Nat, c <= Packets
  PROVE  /\ Shown(c) \in Seq(Seq(Bytes))
         /\ c < Packets => Append(Shown(c), Content(c + 1)) = Shown(c + 1)
<1>1. \A p \in 1 .. Packets : Content(p) \in Seq(Bytes)
  <2> SUFFICES ASSUME NEW p \in 1 .. Packets PROVE Content(p) \in Seq(Bytes)
    OBVIOUS
  <2>1. p - 1 \in Nat /\ p - 1 < Packets /\ (p - 1) + 1 = p
    BY PacketsAssumption
  <2> QED
    BY <2>1, ContentIs DEF Window
<1>2. ASSUME NEW d \in Nat, d <= Packets
      PROVE  Shown(d) \in Seq(Seq(Bytes)) /\ Len(Shown(d)) = d
  <2>1. \A p \in 1 .. d : Content(p) \in Seq(Bytes)
    BY <1>1, <1>2, PacketsAssumption
  <2>2. Shown(d) \in [1 .. d -> Seq(Bytes)]
    BY <2>1 DEF Shown
  <2> QED
    BY <2>2, FunctionIsSequence
<1>3. ASSUME c < Packets
      PROVE  Append(Shown(c), Content(c + 1)) = Shown(c + 1)
  <2> DEFINE s == Shown(c)
             t == Append(s, Content(c + 1))
             u == Shown(c + 1)
  <2>1. s \in Seq(Seq(Bytes)) /\ Len(s) = c /\ u \in Seq(Seq(Bytes)) /\ Len(u) = c + 1
    BY <1>2, <1>3, PacketsAssumption
  <2>2. c + 1 \in 1 .. Packets
    BY <1>3, PacketsAssumption
  <2>3. Content(c + 1) \in Seq(Bytes)
    BY <1>1, <2>2
  <2>4. /\ t \in Seq(Seq(Bytes)) /\ Len(t) = c + 1
        /\ \A i \in 1 .. c : t[i] = s[i]
        /\ t[c + 1] = Content(c + 1)
    <3> HIDE DEF s
    <3> QED
      BY <2>1, <2>3, AppendProperties
  <2>5. \A i \in 1 .. c : s[i] = Content(i) /\ u[i] = Content(i)
    BY DEF Shown
  <2>6. u[c + 1] = Content(c + 1)
    BY DEF Shown
  <2> HIDE DEF s, t, u
  <2>7. \A i \in 1 .. c + 1 : t[i] = u[i]
    <3>1. \A i \in 1 .. c + 1 : i \in 1 .. c \/ i = c + 1
      OBVIOUS
    <3> QED
      BY <2>4, <2>5, <2>6, <3>1
  <2>8. t = u
    BY <2>1, <2>4, <2>7, SeqEqual
  <2> QED
    BY <2>8 DEF s, t, u
<1> QED
  BY <1>2, <1>3

(***************************************************************************)
(* What is gathered when at most one entry is before the newline's.        *)
(***************************************************************************)
LEMMA GatherShort ==
  ASSUME NEW q \in Seq(Seq(Bytes))
  PROVE  /\ EntryWithEOF(q) = 1 => Gather(q) = GatheredNone(q)
         /\ EntryWithEOF(q) = 2 => Gather(q) = GatheredOne(q)
<1>1. ASSUME EntryWithEOF(q) = 1 PROVE Gather(q) = GatheredNone(q)
  BY <1>1, GatherSteps
<1>2. ASSUME EntryWithEOF(q) = 2 PROVE Gather(q) = GatheredOne(q)
  <2>1. PICK f : /\ Gather(q) = f[EntryWithEOF(q) - 1]
                 /\ f[0] = GatheredNone(q)
                 /\ \A i \in 1 .. EntryWithEOF(q) - 1 : f[i] = GatherEntry(f[i - 1], i)
    BY <1>2, GatherSteps
  <2>2. 1 \in 1 .. EntryWithEOF(q) - 1 /\ EntryWithEOF(q) - 1 = 1 /\ 1 - 1 = 0
    BY <1>2
  <2>3. Gather(q) = GatherEntry(GatheredNone(q), 1)
    BY <2>1, <2>2
  <2>4. q # << >>
    BY <1>2, EntryIsAt
  <2> QED
    BY <2>3, <2>4, GatherFirst
<1> QED
  BY <1>1, <1>2

(***************************************************************************)
(* A line that a turn finds whole, be it in the first entry or in the      *)
(* first two.                                                              *)
(***************************************************************************)
LEMMA TurnTakesLine ==
  ASSUME NEW st, NEW c \in Nat, NEW n \in Nat, 5 * c + 5 <= n, n <= Len(Stream),
         ~st.threw, st.shown = Shown(c), EntryWithEOF(st.queue) # 0,
         NEW s, NEW t, NEW b \in Nat, NEW m \in Nat,
         Gather(st.queue) = [pack |-> s, queue |-> <<t>>, threw |-> FALSE],
         Window(s, 5 * c, b), Window(t, 5 * c + b, m), b < 5, 5 * c + b + m = n
  PROVE  Turn(st) = WholeUpTo(c + 1, n)
<1> DEFINE x == NewlineAt(t)
           a == 5 * c + b
<1>1. a \in Nat /\ 5 * c <= a /\ a < 5 * c + 5 /\ a + m = n
  OBVIOUS
<1>2. x = 5 * c + 5 - a
  <2>1. ~(a + m < 5 * c + 5) /\ a + m <= Len(Stream)
    BY <1>1
  <2>2. Window(t, a, m)
    OBVIOUS
  <2> HIDE DEF a
  <2> QED
    BY <1>1, <2>1, <2>2, NewlineOfWindow
<1>3. x # 0 /\ x - 1 \in Nat /\ b + (x - 1) = 4 /\ a + x = 5 * (c + 1)
      /\ m - x = n - 5 * (c + 1)
  <2> HIDE DEF x
  <2> QED
    BY <1>1, <1>2
<1>4. Window(BeforeNewline(t), a, x - 1) /\ Window(AfterNewline(t), a + x, m - x)
  BY <1>1, <1>3, WindowsCut
<1>5. c < Packets /\ c + 1 \in Nat /\ 5 * (c + 1) <= n
  BY StreamAt, PacketsAssumption
<1> HIDE DEF x
<1>6. s \o BeforeNewline(t) = Content(c + 1)
  <2>1. Window(s \o BeforeNewline(t), 5 * c, b + (x - 1))
    BY <1>3, <1>4, WindowsJoin
  <2>2. Window(Content(c + 1), 5 * c, 4)
    BY <1>5, ContentIs
  <2> QED
    BY <1>3, <2>1, <2>2, OneWindow
<1>7. AfterNewline(t) = Pending(c + 1, n)
  <2>1. Window(Pending(c + 1, n), 5 * (c + 1), n - 5 * (c + 1))
    BY <1>5, PendingIs
  <2> QED
    BY <1>3, <1>4, <2>1, OneWindow
<1> DEFINE g == Gather(st.queue)
<1>8. g.pack = s /\ g.queue = <<t>> /\ ~g.threw
  OBVIOUS
<1> HIDE DEF g
<1>9. Head(g.queue) = t /\ Tail(g.queue) = << >>
  BY <1>8
<1>10. Taken(st.queue) = Content(c + 1)
  BY <1>6, <1>8, <1>9 DEF Taken, g
<1>11. Rest(g.queue) = <<Pending(c + 1, n)>>
  <2> DEFINE rest == <<Pending(c + 1, n)>>
  <2>1. Pending(c + 1, n) \in Seq(Bytes)
    BY <1>5, PendingIs DEF Window
  <2>2. rest \in Seq(Seq(Bytes))
    BY <2>1
  <2>3. Rest(g.queue) = rest \o << >>
    BY <1>7, <1>9 DEF Rest
  <2> HIDE DEF rest
  <2>4. rest \o << >> = rest
    BY <2>2, ConcatEmptySeq
  <2> QED
    BY <2>3, <2>4 DEF rest
<1>12. Parses(Content(c + 1))
  BY <1>5, ContentIs
<1>13. Append(st.shown, Content(c + 1)) = Shown(c + 1)
  <2>1. c <= Packets
    BY <1>5, PacketsAssumption
  <2> QED
    BY <1>5, <2>1, ShownIs
<1>14. Turn(st) = [queue |-> Rest(g.queue),
                   shown |-> IF Parses(Taken(st.queue))
                             THEN Append(st.shown, Taken(st.queue)) ELSE st.shown,
                   threw |-> ~Parses(Taken(st.queue))]
  <2>1. ~(g.threw \/ NewlineAt(Head(g.queue)) = 0)
    BY <1>3, <1>8, <1>9 DEF x
  <2> QED
    BY <2>1, TurnThat DEF g
<1> QED
  BY <1>10, <1>11, <1>12, <1>13, <1>14 DEF WholeUpTo

LEMMA EntryOfOne ==
  ASSUME NEW s \in Seq(Bytes)
  PROVE  /\ <<s>> \in Seq(Seq(Bytes))
         /\ NewlineAt(s) # 0 => EntryWithEOF(<<s>>) = 1
         /\ NewlineAt(s) = 0 => EntryWithEOF(<<s>>) = 0
<1> DEFINE q == <<s>>
<1>1. q \in Seq(Seq(Bytes)) /\ Len(q) = 1 /\ q[1] = s
  OBVIOUS
<1> HIDE DEF q
<1>2. EntryWithEOF(q) \in 0 .. 1 /\ 1 \in 1 .. Len(q)
  BY <1>1, EntryIsAt
<1>3. EntryWithEOF(q) = 0 \/ EntryWithEOF(q) = 1
  BY <1>2
<1> QED
  BY <1>1, <1>2, <1>3, EntryIsAt DEF q

LEMMA EntryOfTwo ==
  ASSUME NEW s \in Seq(Bytes), NEW t \in Seq(Bytes), NewlineAt(s) = 0, NewlineAt(t) # 0
  PROVE  /\ <<s, t>> \in Seq(Seq(Bytes))
         /\ EntryWithEOF(<<s, t>>) = 2
         /\ RemoveAt(<<s, t>>, 1) = <<t>>
<1> DEFINE q == <<s, t>>
<1>1. q \in Seq(Seq(Bytes)) /\ Len(q) = 2 /\ q[1] = s /\ q[2] = t
  OBVIOUS
<1> HIDE DEF q
<1>2. EntryWithEOF(q) \in 0 .. 2 /\ 1 \in 1 .. Len(q) /\ 2 \in 1 .. Len(q)
  BY <1>1, EntryIsAt
<1>3. EntryWithEOF(q) = 0 \/ EntryWithEOF(q) = 1 \/ EntryWithEOF(q) = 2
  BY <1>2
<1>4. EntryWithEOF(q) = 2
  BY <1>1, <1>2, <1>3, EntryIsAt
<1>5. RemoveAt(q, 1) = <<t>>
  <2> DEFINE r == RemoveAt(q, 1)
             one == <<t>>
  <2>1. r \in Seq(Seq(Bytes)) /\ Len(r) = Len(q) - 1
        /\ \A j \in 1 .. Len(q) - 1 : r[j] = q[IF j < 1 THEN j ELSE j + 1]
    BY <1>1, <1>2, WithoutEntry
  <2>2. one \in Seq(Seq(Bytes)) /\ Len(one) = 1 /\ one[1] = t
    OBVIOUS
  <2> HIDE DEF r, one
  <2>3. Len(r) = 1 /\ 1 \in 1 .. Len(q) - 1 /\ ~(1 < 1) /\ 1 + 1 = 2
    BY <1>1, <2>1
  <2>4. r[1] = t
    BY <1>1, <2>1, <2>3
  <2>5. \A j \in 1 .. Len(r) : r[j] = one[j]
    <3>1. \A j \in 1 .. Len(r) : j = 1
      BY <2>3
    <3> QED
      BY <2>2, <2>4, <3>1
  <2>6. r = one
    BY <2>1, <2>2, <2>3, <2>5, SeqEqual
  <2> QED
    BY <2>6 DEF r, one
<1> QED
  BY <1>1, <1>4, <1>5 DEF q

LEMMA TurnOnWhole ==
  ASSUME NEW c \in Nat, NEW n \in Nat, 5 * c <= n, n <= Len(Stream)
  PROVE  Turn(WholeUpTo(c, n))
           = IF n < 5 * c + 5 THEN WholeUpTo(c, n) ELSE WholeUpTo(c + 1, n)
<1> DEFINE st == WholeUpTo(c, n)
           t == Pending(c, n)
           m == n - 5 * c
<1>1. Window(t, 5 * c, m) /\ m \in Nat /\ 5 * c + m = n /\ 5 * c \in Nat
  BY PendingIs
<1>2. t \in Seq(Bytes)
  BY <1>1 DEF Window
<1>3. NewlineAt(t) = IF n < 5 * c + 5 THEN 0 ELSE 5 * c + 5 - 5 * c
  <2> DEFINE b == 5 * c
  <2>1. b \in Nat /\ 5 * c <= b /\ b < 5 * c + 5 /\ b + m <= Len(Stream) /\ b + m = n
    <3>1. b \in Nat /\ m \in Nat /\ b + m = n /\ b = 5 * c
      BY <1>1
    <3> HIDE DEF b, m
    <3> QED
      BY <3>1
  <2>2. Window(t, b, m) /\ m \in Nat
    BY <1>1
  <2> HIDE DEF t, m, b
  <2>3. NewlineAt(t) = IF b + m < 5 * c + 5 THEN 0 ELSE 5 * c + 5 - b
    BY <2>1, <2>2, NewlineOfWindow, ZenonT(30)
  <2>4. NewlineAt(t) = IF n < 5 * c + 5 THEN 0 ELSE 5 * c + 5 - b
    <3>1. b + m = n
      BY <2>1
    <3> QED
      BY <2>3, <3>1, Zenon
  <2> QED
    BY <2>4, Zenon DEF b
<1>4. st.queue = <<t>> /\ st.shown = Shown(c) /\ ~st.threw
  BY DEF WholeUpTo
<1> HIDE DEF t, m, st
<1>5. CASE n < 5 * c + 5
  <2>1. EntryWithEOF(st.queue) = 0
    BY <1>2, <1>3, <1>4, <1>5, EntryOfOne
  <2>2. Turn(st) = st
    BY <2>1 DEF Turn
  <2> QED
    BY <1>5, <2>2 DEF st
<1>6. CASE ~(n < 5 * c + 5)
  <2>1. NewlineAt(t) # 0
    BY <1>3, <1>6
  <2>2. st.queue \in Seq(Seq(Bytes)) /\ EntryWithEOF(st.queue) = 1
    BY <1>2, <1>4, <2>1, EntryOfOne
  <2>3. Gather(st.queue) = [pack |-> << >>, queue |-> <<t>>, threw |-> FALSE]
    BY <1>4, <2>2, GatherShort DEF GatheredNone
  <2>4. Window(<< >>, 5 * c, 0)
    BY DEF Window
  <2>5. Window(t, 5 * c + 0, m) /\ 5 * c + 0 + m = n /\ 5 * c + 5 <= n
    BY <1>1, <1>6
  <2>6. Turn(st) = WholeUpTo(c + 1, n)
    <3> DEFINE none == << >>
               zero == 0
    <3>1. Gather(st.queue) = [pack |-> none, queue |-> <<t>>, threw |-> FALSE]
          /\ EntryWithEOF(st.queue) # 0
      BY <2>2, <2>3
    <3>2. Window(none, 5 * c, zero) /\ Window(t, 5 * c + zero, m) /\ 5 * c + zero + m = n
          /\ zero \in Nat /\ zero < 5
      BY <2>4, <2>5
    <3> HIDE DEF none, zero
    <3> QED
      BY <1>1, <1>4, <2>5, <3>1, <3>2, TurnTakesLine
  <2> QED
    BY <1>6, <2>6 DEF st
<1> QED
  BY <1>5, <1>6

LEMMA TurnsTakeLines ==
  ASSUME NEW f, NEW m \in Nat, NEW c \in Nat, NEW d \in Nat, NEW n \in Nat,
         f[1] = WholeUpTo(c + 1, n), \A i \in 1 .. m : f[i] = Turn(f[i - 1]),
         5 * d <= n, n < 5 * d + 5, n <= Len(Stream), c < d, d - c <= m
  PROVE  f[m] = WholeUpTo(d, n)
<1> DEFINE upTo(i) == IF c + i < d THEN c + i ELSE d
           Wrong == {i \in 1 .. m : f[i] # WholeUpTo(upTo(i), n)}
<1>1. Wrong = {}
  <2> SUFFICES ASSUME Wrong # {} PROVE FALSE
    OBVIOUS
  <2>1. Wrong \subseteq Nat
    OBVIOUS
  <2>2. PICK i \in Wrong : \A k \in Wrong : i <= k
    BY <2>1, LeastExists
  <2>3. i \in 1 .. m /\ f[i] # WholeUpTo(upTo(i), n)
    BY <2>2
  <2>4. i # 1
    <3>1. upTo(1) = c + 1
      OBVIOUS
    <3> QED
      BY <2>3, <3>1
  <2>5. i - 1 \in 1 .. m /\ i - 1 \notin Wrong
    BY <2>1, <2>2, <2>3, <2>4
  <2>6. f[i - 1] = WholeUpTo(upTo(i - 1), n) /\ f[i] = Turn(f[i - 1])
    BY <2>3, <2>5
  <2>7. upTo(i - 1) \in Nat /\ 5 * upTo(i - 1) <= n
    BY <2>3, <2>5
  <2>8. f[i] = IF n < 5 * upTo(i - 1) + 5
               THEN WholeUpTo(upTo(i - 1), n) ELSE WholeUpTo(upTo(i - 1) + 1, n)
    <3> HIDE DEF upTo
    <3> QED
      BY <2>6, <2>7, TurnOnWhole
  <2>9. CASE c + (i - 1) < d
    <3>1. upTo(i - 1) = c + (i - 1) /\ upTo(i) = c + i /\ upTo(i - 1) + 1 = c + i
          /\ ~(n < 5 * upTo(i - 1) + 5)
      BY <2>3, <2>9
    <3> HIDE DEF upTo
    <3> QED
      BY <2>3, <2>8, <3>1
  <2>10. CASE ~(c + (i - 1) < d)
    <3>1. upTo(i - 1) = d /\ upTo(i) = d /\ n < 5 * upTo(i - 1) + 5
      BY <2>3, <2>10
    <3> HIDE DEF upTo
    <3> QED
      BY <2>3, <2>8, <3>1
  <2> QED
    BY <2>9, <2>10
<1>2. m \in 1 .. m /\ upTo(m) = d
  OBVIOUS
<1> HIDE DEF upTo
<1> QED
  BY <1>1, <1>2

LEMMA DivFive ==
  ASSUME NEW n \in Nat
  PROVE  n \div 5 \in Nat /\ 5 * (n \div 5) <= n /\ n < 5 * (n \div 5) + 5
<1>1. n = 5 * (n \div 5) + (n % 5) /\ (n % 5) \in 0 .. 4 /\ (n \div 5) \in Int
  OBVIOUS
<1> QED
  BY <1>1

(***************************************************************************)
(* The turn that takes the first line of a chunk with a newline.           *)
(***************************************************************************)
Arrived(n) == Append(dataQueue, Chunk(n))

LEMMA FirstTurn ==
  ASSUME OrderInv, WholeInv, cut = {},
         NEW n \in 1 .. Len(Stream) - received, NewlineAt(Chunk(n)) # 0
  PROVE  /\ Complete \in Nat /\ 5 * Complete + 5 <= received + n
         /\ Arrived(n) \in Seq(Seq(Bytes))
         /\ Len(FlattenSeq(Arrived(n))) = received + n - 5 * Complete
         /\ Turn(TurnedNone(Arrived(n))) = WholeUpTo(Complete + 1, received + n)
<1> DEFINE q == Arrived(n)
           t == Chunk(n)
           c == Complete
           to == received + n
<1>1. /\ received \in Nat /\ received <= Len(Stream) /\ Len(Stream) \in Nat
      /\ n \in Nat /\ to \in Nat /\ to <= Len(Stream) /\ 0 < n
  BY StreamAt, PacketsAssumption DEF OrderInv
<1>2. c \in Nat /\ 5 * c <= received /\ received < 5 * c + 5
  <2>1. Complete = received \div 5
    BY DEF Complete, Parts
  <2> QED
    BY <1>1, <2>1, DivFive
<1>3. Window(t, received, n)
  BY <1>1, ChunkIs DEF OrderInv, Window
<1>4. t \in Seq(Bytes) /\ Len(t) = n
  BY <1>3 DEF Window
<1>5. 5 * c + 5 <= to
  <2>1. received + n <= Len(Stream)
    BY <1>1
  <2>2. NewlineAt(t) # 0
    OBVIOUS
  <2> HIDE DEF t, c
  <2>3. ~(received + n < 5 * c + 5)
    BY <1>1, <1>2, <1>3, <2>1, <2>2, NewlineOfWindow
  <2> QED
    BY <1>1, <1>2, <2>3
<1>6. messages = Shown(c)
  BY DEF WholeInv, Shown
<1>7. CASE received = 0
  <2>1. q = <<t>> /\ c = 0
    <3>1. dataQueue = << >>
      BY <1>7 DEF WholeInv
    <3> QED
      BY <1>2, <1>7, <3>1 DEF Arrived
  <2>2. Window(Pending(c, to), 5 * c, to - 5 * c) /\ 5 * c = 0 /\ to - 5 * c = n
    <3>1. 5 * c <= to
      BY <1>1, <1>2, <1>5
    <3>2. Window(Pending(c, to), 5 * c, to - 5 * c)
      <4> HIDE DEF c, to
      <4> QED
        BY <1>1, <1>2, <3>1, PendingIs
    <3> QED
      BY <1>1, <1>7, <2>1, <3>2
  <2>3. t = Pending(c, to)
    <3> HIDE DEF t, c, to
    <3> QED
      BY <1>3, <1>7, <2>2, OneWindow
  <2>4. q \in Seq(Seq(Bytes)) /\ FlattenSeq(q) = t
    <3> HIDE DEF t, q
    <3> QED
      BY <1>4, <2>1, EntryOfOne, FlattenOne
  <2>5. TurnedNone(q) = WholeUpTo(c, to)
    <3> HIDE DEF q, t, c, to
    <3> QED
      BY <1>6, <2>1, <2>3 DEF TurnedNone, WholeUpTo
  <2>6. Turn(TurnedNone(q)) = WholeUpTo(c + 1, to)
    <3>1. 5 * c <= to /\ ~(to < 5 * c + 5)
      BY <1>5, <2>2, <1>1
    <3> HIDE DEF q, t, c, to
    <3>2. Turn(WholeUpTo(c, to)) = WholeUpTo(c + 1, to)
      BY <1>1, <1>2, <3>1, TurnOnWhole
    <3> QED
      BY <2>5, <3>2
  <2>7. Len(FlattenSeq(q)) = to - 5 * c
    BY <1>4, <2>2, <2>4
  <2> HIDE DEF q, c, to
  <2>8. /\ c \in Nat /\ 5 * c + 5 <= to
        /\ q \in Seq(Seq(Bytes))
        /\ Len(FlattenSeq(q)) = to - 5 * c
        /\ Turn(TurnedNone(q)) = WholeUpTo(c + 1, to)
    BY <1>2, <1>5, <2>4, <2>6, <2>7
  <2> QED
    BY <1>1, <2>8 DEF q, c, to
<1>8. CASE received # 0
  <2> DEFINE s == Pending(c, received)
             b == received - 5 * c
  <2>1. b \in Nat /\ b < 5 /\ 5 * c + b = received /\ 5 * c + b + n = to
    BY <1>1, <1>2
  <2>2. Window(s, 5 * c, b)
    <3> HIDE DEF c
    <3> QED
      BY <1>1, <1>2, PendingIs
  <2>3. s \in Seq(Bytes) /\ Len(s) = b
    BY <2>2 DEF Window
  <2>4. NewlineAt(s) = 0
    <3> DEFINE a == 5 * c
    <3>1. a \in Nat /\ 5 * c <= a /\ a < 5 * c + 5 /\ a + b <= Len(Stream)
          /\ a + b < 5 * c + 5
      BY <1>1, <1>2, <2>1
    <3>2. Window(s, a, b)
      BY <2>2
    <3> HIDE DEF a, b, c, s
    <3> QED
      BY <1>2, <2>1, <3>1, <3>2, NewlineOfWindow
  <2>5. NewlineAt(t) # 0
    OBVIOUS
  <2>6. dataQueue = <<s>>
    BY <1>8 DEF WholeInv, Waiting, Pending
  <2>7. q = <<s, t>>
    <3> DEFINE one == <<s>>
               two == <<s, t>>
               more == Append(one, t)
    <3>1. /\ one \in Seq(Seq(Bytes)) /\ Len(one) = 1 /\ one[1] = s
          /\ two \in Seq(Seq(Bytes)) /\ Len(two) = 2 /\ two[1] = s /\ two[2] = t
      <4> HIDE DEF s, t
      <4> QED
        BY <1>4, <2>3
    <3>2. dataQueue = one
      BY <2>6
    <3> HIDE DEF s, t, one, two
    <3>3. /\ more \in Seq(Seq(Bytes)) /\ Len(more) = 2
          /\ more[1] = s /\ more[2] = t
      <4>1. /\ more \in Seq(Seq(Bytes)) /\ Len(more) = Len(one) + 1
            /\ \A i \in 1 .. Len(one) : more[i] = one[i]
            /\ more[Len(one) + 1] = t
        <5>1. one \in Seq(Seq(Bytes)) /\ t \in Seq(Bytes)
          BY <1>4, <3>1
        <5> QED
          BY <5>1, AppendProperties
      <4> HIDE DEF more
      <4>2. 1 \in 1 .. Len(one) /\ Len(one) + 1 = 2
        BY <3>1
      <4> QED
        BY <3>1, <4>1, <4>2
    <3>4. more = two
      <4> HIDE DEF more
      <4>1. \A i \in 1 .. 2 : i = 1 \/ i = 2
        OBVIOUS
      <4>2. \A i \in 1 .. 2 : more[i] = two[i]
        BY <3>1, <3>3, <4>1
      <4> QED
        BY <3>1, <3>3, <4>2, SeqEqual
    <3>5. q = Append(dataQueue, t)
      BY DEF t, Arrived
    <3> HIDE DEF q
    <3> QED
      BY <3>2, <3>4, <3>5 DEF two
  <2> HIDE DEF s, t, q
  <2>8. q \in Seq(Seq(Bytes)) /\ EntryWithEOF(q) = 2 /\ RemoveAt(q, 1) = <<t>>
    BY <1>4, <2>3, <2>4, <2>5, <2>7, EntryOfTwo
  <2>9. FlattenSeq(q) = s \o t
    BY <1>4, <2>3, <2>7, FlattenTwo
  <2>10. Len(FlattenSeq(q)) = to - 5 * c
    <3>1. Len(s \o t) = b + n
      BY <1>4, <2>3
    <3> QED
      BY <1>1, <1>2, <2>1, <2>9, <3>1
  <2>11. Gather(q) = [pack |-> s, queue |-> <<t>>, threw |-> FALSE]
    <3>1. q[1] = s
      BY <2>7
    <3> QED
      BY <2>8, <3>1, GatherShort DEF GatheredOne
  <2> DEFINE st == TurnedNone(q)
  <2>12. st.queue = q /\ st.shown = Shown(c) /\ ~st.threw
    BY <1>6 DEF TurnedNone
  <2>13. Window(t, 5 * c + b, n)
    BY <1>3, <2>1
  <2> HIDE DEF st, b, c, to
  <2>14. Turn(st) = WholeUpTo(c + 1, to)
    <3>1. EntryWithEOF(st.queue) # 0
          /\ Gather(st.queue) = [pack |-> s, queue |-> <<t>>, threw |-> FALSE]
      BY <2>8, <2>11, <2>12
    <3> QED
      BY <1>1, <1>2, <1>5, <2>1, <2>2, <2>12, <2>13, <3>1, TurnTakesLine
  <2>15. /\ c \in Nat /\ 5 * c + 5 <= to
         /\ q \in Seq(Seq(Bytes))
         /\ Len(FlattenSeq(q)) = to - 5 * c
         /\ Turn(TurnedNone(q)) = WholeUpTo(c + 1, to)
    BY <1>2, <1>5, <2>8, <2>10, <2>14 DEF st
  <2> QED
    BY <1>1, <2>15 DEF q, c, to
<1> QED
  BY <1>7, <1>8

LEMMA WholeInit == Init => WholeInv
<1> SUFFICES ASSUME Init PROVE WholeInv
  OBVIOUS
<1>1. received = 0 /\ dataQueue = << >> /\ messages = << >>
  BY DEF Init
<1>2. Complete = 0
  <2>1. Complete = 0 \div 5
    BY <1>1 DEF Complete, Parts
  <2> QED
    BY <2>1
<1>3. [p \in 1 .. 0 |-> Content(p)] = << >>
  OBVIOUS
<1> QED
  BY <1>1, <1>2, <1>3 DEF WholeInv

LEMMA WholeStep == OrderInv /\ WholeInv /\ [Next]_vars => WholeInv'
<1> SUFFICES ASSUME OrderInv, WholeInv, [Next]_vars, cut' = {}
             PROVE  /\ messages' = [p \in 1 .. Complete' |-> Content(p)]
                    /\ dataQueue' = IF received' = 0 THEN << >> ELSE <<Waiting'>>
  BY DEF WholeInv
<1>1. ASSUME NEW n \in 1 .. Len(Stream) - received, Data(n)
      PROVE  /\ messages' = [p \in 1 .. Complete' |-> Content(p)]
             /\ dataQueue' = <<Waiting'>> /\ received' # 0
  <2> DEFINE q == Arrived(n)
             c == Complete
             to == received + n
             d == to \div 5
             m == Len(FlattenSeq(q))
  <2>1. received' = to /\ cut = {} /\ Decodes(Chunk(n)) /\ NewlineAt(Chunk(n)) # 0
    BY <1>1 DEF Data
  <2>2. dataQueue' = queuerProcessor(q).queue /\ messages' = queuerProcessor(q).shown
    BY <1>1, <2>1 DEF Data, Arrived
  <2>3. /\ received \in Nat /\ n \in Nat /\ 0 < n /\ to \in Nat /\ to # 0
        /\ to <= Len(Stream) /\ Len(Stream) \in Nat
    BY StreamAt, PacketsAssumption DEF OrderInv
  <2>4. /\ c \in Nat /\ 5 * c + 5 <= to /\ q \in Seq(Seq(Bytes)) /\ m = to - 5 * c
        /\ Turn(TurnedNone(q)) = WholeUpTo(c + 1, to)
    BY <2>1, <2>3, FirstTurn
  <2>5. d \in Nat /\ 5 * d <= to /\ to < 5 * d + 5
    BY <2>3, DivFive
  <2> HIDE DEF q, c, d, to
  <2>6. m \in Nat /\ 1 \in 1 .. m /\ c < d /\ d - c <= m
    BY <2>3, <2>4, <2>5
  <2>7. PICK f : /\ queuerProcessor(q) = f[m]
                 /\ f[0] = TurnedNone(q)
                 /\ \A i \in 1 .. m : f[i] = Turn(f[i - 1])
    BY <2>4, TurnSteps
  <2> HIDE DEF m
  <2>8. f[1] = WholeUpTo(c + 1, to)
    <3>1. 1 - 1 = 0
      OBVIOUS
    <3> QED
      BY <2>4, <2>6, <2>7, <3>1
  <2>9. f[m] = WholeUpTo(d, to)
    BY <2>3, <2>4, <2>5, <2>6, <2>7, <2>8, TurnsTakeLines
  <2>10. messages' = Shown(d) /\ dataQueue' = <<Pending(d, to)>>
    BY <2>2, <2>7, <2>9 DEF WholeUpTo
  <2>11. Complete' = d
    BY <2>1 DEF Complete, Parts, d
  <2>12. Waiting' = Pending(d, to)
    BY <2>1, <2>11 DEF Waiting, Pending, Stream, Line, Parts
  <2> QED
    BY <2>1, <2>3, <2>10, <2>11, <2>12 DEF Shown
<1>2. CASE UNCHANGED vars
  BY <1>2 DEF vars, WholeInv, Waiting, Complete
<1> QED
  BY <1>1, <1>2 DEF Next

(***************************************************************************)
(* The lines shown, and those waiting, from what the invariant says.       *)
(***************************************************************************)
LEMMA LinesOfWhole == OrderInv /\ WholeInv => LinesShown
<1> SUFFICES ASSUME OrderInv, WholeInv, cut = {} PROVE LinesShown
  BY DEF LinesShown
<1>1. received \in Nat /\ received <= Len(Stream)
  BY StreamAt, PacketsAssumption DEF OrderInv
<1>2. Complete = received \div 5 /\ Complete * Len(Parts) + 1 = 5 * Complete + 1
  <2>1. Len(Parts) = 5
    BY DEF Parts
  <2>2. Complete = received \div 5
    BY <2>1 DEF Complete
  <2>3. Complete \in Nat
    BY <1>1, <2>2, DivFive
  <2> QED
    BY <2>1, <2>2, <2>3
<1>3. Complete \in Nat /\ 5 * Complete <= received
  BY <1>1, <1>2, DivFive
<1>4. messages = [p \in 1 .. Complete |-> Content(p)]
  BY DEF WholeInv
<1>5. SubSeq(Stream, Complete * Len(Parts) + 1, received) = Waiting
  BY <1>2 DEF Waiting
<1>6. Window(Waiting, 5 * Complete, received - 5 * Complete)
  BY <1>1, <1>3, PendingIs DEF Waiting, Pending
<1>7. Waiting \in Seq(Bytes) /\ Len(Waiting) = received - 5 * Complete
  BY <1>6 DEF Window
<1>8. FlattenSeq(dataQueue) = Waiting
  <2>1. CASE received = 0
    <3>1. dataQueue = << >>
      BY <2>1 DEF WholeInv
    <3>2. FlattenSeq(dataQueue) = << >>
      BY <3>1 DEF FlattenSeq
    <3>3. Len(Waiting) = 0
      BY <1>3, <1>7, <2>1
    <3>4. Waiting = << >>
      BY <1>7, <3>3, EmptySeq
    <3> QED
      BY <3>2, <3>4
  <2>2. CASE received # 0
    <3>1. dataQueue = <<Waiting>>
      BY <2>2 DEF WholeInv
    <3> QED
      BY <1>7, <3>1, FlattenOne
  <2> QED
    BY <2>1, <2>2
<1> QED
  BY <1>4, <1>5, <1>8 DEF LinesShown

(***************************************************************************)
(* While every chunk ends some packet and splits no character, the         *)
(* listener and queuerProcessor show what was received, line by line, keep *)
(* the rest, and neither lose, double nor hold back a packet.              *)
(***************************************************************************)
THEOREM PacketsAllShown == Spec => []LinesShown
BY OrderInit, OrderStep, WholeInit, WholeStep, LinesOfWhole, PTL DEF Spec

(***************************************************************************)
(* So what the run "pieces" shows to go wrong, a message made of two, does *)
(* not happen while every chunk ends some packet.                          *)
(***************************************************************************)
THEOREM WholePacketsShownAsSent == Spec => [](cut = {} => ShownWasSent)
<1>1. OrderInv /\ LinesShown => (cut = {} => ShownWasSent)
  <2> SUFFICES ASSUME OrderInv, LinesShown, cut = {}, NEW i \in DOMAIN messages
               PROVE  \E p \in 1 .. Packets : messages[i] = Content(p)
    BY DEF ShownWasSent
  <2>1. messages = [p \in 1 .. Complete |-> Content(p)]
    BY DEF LinesShown
  <2>2. i \in 1 .. Complete /\ messages[i] = Content(i)
    BY <2>1
  <2>3. received \in Nat /\ received <= 5 * Packets /\ Packets \in Nat
    BY StreamAt, PacketsAssumption DEF OrderInv
  <2>4. Complete \in Nat /\ 5 * Complete <= received
    <3>1. Complete = received \div 5
      BY DEF Complete, Parts
    <3> QED
      BY <2>3, <3>1, DivFive
  <2>5. i \in 1 .. Packets
    BY <2>2, <2>3, <2>4
  <2> QED
    BY <2>2, <2>5
<1> QED
  BY <1>1, OrderInit, OrderStep, PacketsAllShown, PTL DEF Spec
=============================================================================
