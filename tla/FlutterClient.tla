---------------------------- MODULE FlutterClient ----------------------------
(***************************************************************************)
(* How the Flutter client (client_flutter/lib/home_page.dart) puts the     *)
(* server's packets together from the chunks its socket delivers.  The     *)
(* server writes one line per packet; TCP cuts the bytes where it likes.   *)
(*                                                                         *)
(* A line is five bytes: the JSON up to somewhere in the message's text, a *)
(* two-byte character of that text, the JSON from there on, the newline.   *)
(* The cut being in the text, the head of one packet and the tail of       *)
(* another make valid JSON too.                                            *)
(***************************************************************************)
EXTENDS Naturals, Sequences, SequencesExt

CONSTANT Packets   \* bound: how many packets the server sends

ASSUME PacketsAssumption == Packets \in Nat

VARIABLES
  received,     \* how many bytes the socket has delivered
  dataQueue,    \* the decoded chunks not used up yet
  messages,     \* what is shown: the text of every packet parsed, in order
  cut           \* history: what the chunks so far have cut in two

vars == <<received, dataQueue, messages, cut>>

Parts   == <<"head", "lead", "trail", "tail", "newline">>
Line(p) == [i \in DOMAIN Parts |-> [packet |-> p, part |-> Parts[i]]]
Content(p) == Front(Line(p))
Stream  == FlattenSeq([p \in 1 .. Packets |-> Line(p)])

Init ==
  /\ received  = 0
  /\ dataQueue = << >>
  /\ messages  = << >>
  /\ cut       = {}

-----------------------------------------------------------------------------
(***************************************************************************)
(* utf8.decode takes each chunk for itself and throws when it begins or    *)
(* ends inside a character.                                                *)
(***************************************************************************)
Decodes(chunk) == Head(chunk).part # "trail" /\ Last(chunk).part # "lead"

IsNewline(byte)   == byte.part = "newline"
NewlineAt(s)      == SelectInSeq(s, IsNewline)     \* 0 if there is none
EntryWithEOF(q)   == SelectInSeq(q, LAMBDA s : NewlineAt(s) # 0)

(***************************************************************************)
(* DataPackage.fromJson(jsonDecode(s)) succeeds: one head, one tail.       *)
(***************************************************************************)
Parses(s) ==
  /\ Len(s) >= 2
  /\ Head(s).part = "head" /\ Last(s).part = "tail"
  /\ \A i \in 2 .. Len(s) - 1 : s[i].part \in {"lead", "trail"}

(***************************************************************************)
(* The loop over the entries before the one with the newline: it appends   *)
(* entry i to the packet and removes it from the list it is indexing, so   *)
(* the next i skips an entry.  An index past the end throws.               *)
(***************************************************************************)
GatherKeeping(g, i) ==                             \* a slip: no removeAt
  [g EXCEPT !.pack = @ \o g.queue[i]]

GatherEntry(g, i) ==
  IF g.threw THEN g
  ELSE IF i > Len(g.queue) THEN [g EXCEPT !.threw = TRUE]
  ELSE [g EXCEPT !.pack = @ \o g.queue[i], !.queue = RemoveAt(@, i)]

Gather(q) ==
  LET gathered[i \in 0 .. EntryWithEOF(q) - 1] ==
        IF i = 0 THEN [pack |-> << >>, queue |-> q, threw |-> FALSE]
                 ELSE GatherEntry(gathered[i - 1], i)
  IN  gathered[EntryWithEOF(q) - 1]

(***************************************************************************)
(* What stays of the entry whose line is taken.  (It is never dropped: the *)
(* index of its newline is below its length.)                              *)
(***************************************************************************)
AllOfIt(s)      == s                               \* a slip: substring(0)
AfterNewline(s) == SubSeq(s, NewlineAt(s) + 1, Len(s))

(***************************************************************************)
(* One turn of the do-while loop.  It throws if gathering does, if the     *)
(* first entry left has no newline (substring(0, -1)), or if the packet    *)
(* does not parse; the queue stays as it is at that moment.                *)
(***************************************************************************)
Turn(st) ==
  IF st.threw \/ EntryWithEOF(st.queue) = 0 THEN st
  ELSE LET g     == Gather(st.queue)
           first == Head(g.queue)
           pack  == g.pack \o SubSeq(first, 1, NewlineAt(first) - 1)
       IN  IF g.threw \/ NewlineAt(first) = 0
           THEN [st EXCEPT !.queue = g.queue, !.threw = TRUE]
           ELSE [queue |-> <<AfterNewline(first)>> \o Tail(g.queue),
                 shown |-> IF Parses(pack) THEN Append(st.shown, pack)
                                           ELSE st.shown,
                 threw |-> ~Parses(pack)]

(***************************************************************************)
(* The loop, from an exception or from the turn that finds no newline on,  *)
(* does nothing more.  Every turn before that uses up a newline, so there  *)
(* are no more turns than bytes.                                           *)
(***************************************************************************)
queuerProcessor(q) ==
  LET bytes == Len(FlattenSeq(q))
      after[turns \in 0 .. bytes] ==
        IF turns = 0 THEN [queue |-> q, shown |-> messages, threw |-> FALSE]
                     ELSE Turn(after[turns - 1])
  IN  after[bytes]

(***************************************************************************)
(* The listener, called with the next n bytes.  An exception ends the call *)
(* and nothing else: the stream goes on calling.                           *)
(***************************************************************************)
Chunk(n) == SubSeq(Stream, received + 1, received + n)

Data(n) ==
  /\ received' = received + n
  /\ IF Decodes(Chunk(n))
     THEN LET after == queuerProcessor(Append(dataQueue, Chunk(n)))
          IN  dataQueue' = after.queue /\ messages' = after.shown
     ELSE UNCHANGED <<dataQueue, messages>>
  /\ cut' = cut \cup (IF Decodes(Chunk(n)) THEN {} ELSE {"character"})
                 \cup (IF NewlineAt(Chunk(n)) # 0 THEN {} ELSE {"packet"})

Next == \E n \in 1 .. Len(Stream) - received : Data(n)

Spec == Init /\ [][Next]_vars

-----------------------------------------------------------------------------
(***************************************************************************)
(* As long as every chunk ends some packet and splits no character, what   *)
(* was received is what is shown, line by line, and what waits in the      *)
(* queue for its newline: no packet is lost, doubled or altered, none that *)
(* is complete waits.                                                      *)
(***************************************************************************)
Complete == received \div Len(Parts)

LinesShown ==
  cut = {} =>
    /\ messages = [p \in 1 .. Complete |-> Content(p)]
    /\ FlattenSeq(dataQueue)
         = SubSeq(Stream, Complete * Len(Parts) + 1, received)

(***************************************************************************)
(* Whatever the chunks, and whatever is lost to exceptions: no beginning   *)
(* of a packet is shown twice, and packets are shown in the order they     *)
(* were sent.                                                              *)
(***************************************************************************)
ShownInOrder ==
  \A i, j \in DOMAIN messages :
    i < j => Head(messages[i]).packet < Head(messages[j]).packet

(***************************************************************************)
(* However the chunks cut the packets, a message shown is one that was     *)
(* sent, if no character is split.                                         *)
(***************************************************************************)
ShownWasSent ==
  "character" \notin cut =>
    \A i \in DOMAIN messages : \E p \in 1 .. Packets : messages[i] = Content(p)
=============================================================================
