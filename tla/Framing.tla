------------------------------ MODULE Framing ------------------------------
(***************************************************************************)
(* The byte stream of one connection: how clients frame their messages     *)
(* (data_worker.py, remote_ai_client.cpp), how read_incomming_data cuts    *)
(* the stream up again, and what read_income makes of each piece.          *)
(*                                                                         *)
(*   >>00031<<PUB/topic<|||>payload/pub       >>00020<<SUB/topic/sub       *)
(*                                                                         *)
(* A message is a sequence of units, at least two to each of its tokens,   *)
(* so that recv() may end before, in or after any of them:                 *)
(*   lead digits  mark1 mark2  name1 name2  data...  post1 post2           *)
(* (>>nnnnn<<,  PUB/ or SUB/,  the name with <|||>,  payload,  /pub or     *)
(* /sub).  Sizes are counted in units.  A token is found in a buffer when  *)
(* all of it is there.  Payloads contain none of the tokens.               *)
(***************************************************************************)
EXTENDS Integers, Sequences, FiniteSets

CONSTANTS
  Topic,       \* topic names
  MaxMsgs,     \* messages the client sends
  MaxPayload,  \* units in the payload of a publication
  MaxGuess     \* the largest size read out of bytes that are no header

ASSUME FramingAssumption ==
  MaxMsgs \in Nat /\ MaxPayload \in Nat /\ MaxGuess \in Nat

VARIABLES
  sent,     \* the messages the client has sent
  wire,     \* units sent and not received
  buffer,   \* units received of the message being read
  need,     \* read_remain
  done,     \* what read_income did, in order
  guessed,  \* a size was once read out of something else than a header
  quiet     \* messages sent to a reader at rest and not disturbed since

vars == <<sent, wire, buffer, need, done, guessed, quiet>>

Waiting == -2     \* no message is being read
NoSize == -1      \* std::stol throws

Message == [kind : {"SUB"}, topic : Topic, data : {0}]
             \cup [kind : {"PUB"}, topic : Topic, data : 0 .. MaxPayload]

-----------------------------------------------------------------------------
(* Encoding. *)

Parts(msg) == <<"lead", "digits", "mark1", "mark2", "name1", "name2">>
                \o [j \in 1 .. msg.data |-> "data"] \o <<"post1", "post2">>
Frame(i, msg) == [u \in 1 .. Len(Parts(msg)) |-> [m |-> i, part |-> Parts(msg)[u]]]

(* The size in the header counts the header too: zeroes_pre adds 4 + digits,
   pre_msg adds 10 for a header that ends in a zero byte. *)
Announces_OffByOne(msg) == Len(Parts(msg)) + 1
Announces(msg) == Len(Parts(msg))

(* A message and the socket's send() of it. *)
SendMessage(msg) ==
  /\ Len(sent) < MaxMsgs
  /\ sent' = Append(sent, msg)
  /\ wire' = wire \o Frame(Len(sent) + 1, msg)
  /\ quiet' = IF wire # <<>> THEN quiet \ {wire[Len(wire)].m}
              ELSE IF need # Waiting THEN quiet
              ELSE quiet \cup {Len(sent) + 1}
  /\ UNCHANGED <<buffer, need, done, guessed>>

-----------------------------------------------------------------------------
(* Tokens in a buffer. *)

Where(b, part) == {p \in 1 .. Len(b) : b[p].part = part}
Least(P) == CHOOSE p \in P : \A q \in P : p <= q
Kind(u) == sent[u.m].kind

(* Where the token of the two units p and p + 1 of this kind begins. *)
Marks(b, kind) == {p \in Where(b, "mark1") : p < Len(b) /\ Kind(b[p]) = kind}
Posts(b, kind) == {p \in Where(b, "post1") : p < Len(b) /\ Kind(b[p]) = kind}

(* topic_from_to: from the first mark to the first post behind it. *)
Enclosed(b, kind) ==
  IF Marks(b, kind) = {} THEN {}
  ELSE {p \in Posts(b, kind) : p > Least(Marks(b, kind))}

(* get_total_data_size looks at what the first recv() of a message returned:
   at the number behind the first ">>", or, when there is none, at the second
   to sixth byte.  A part of a number is a smaller number, or nothing. *)
HeaderIn(b) ==
  {p \in {Least(Where(b, "lead")) : x \in Where(b, "lead")} : p < Len(b)}
Sizes(b) ==
  IF HeaderIn(b) # {} THEN {Announces(sent[b[p].m]) : p \in HeaderIn(b)}
  ELSE IF Where(b, "lead") # {}
  THEN {NoSize} \cup 0 .. Announces(sent[b[Len(b)].m]) - 1
  ELSE IF b[1].part \in {"digits", "data"} THEN {NoSize} \cup 0 .. MaxGuess
  ELSE {NoSize}

(* The handler is given the buffer without its first nine bytes: the header,
   or else what else came first, which is in part up to four units. *)
Handed(b) ==
  IF b[1].part = "lead" /\ Len(b) > 1 THEN {SubSeq(b, 3, Len(b))}
  ELSE {SubSeq(b, k, Len(b)) : k \in 2 .. 5}

(* The name that Topic gives itself: behind the first "SUB/", and then behind
   the first "PUB/" that follows, up to the divider or the first post; all of
   the rest if neither is there. *)
NoName == [m |-> 0, whole |-> FALSE]
NameAt(b, p) == IF p > Len(b) THEN NoName ELSE [m |-> b[p].m, whole |-> p < Len(b)]
TopicName(b) ==
  LET s == Least(Marks(b, "SUB"))
      later == {p \in Marks(b, "PUB") : p > s}
  IN NameAt(b, 2 + IF later = {} THEN s ELSE Least(later))

Action == {"subscribe", "publish", "no action"}
NoAction == [act |-> "no action", name |-> NoName, content |-> <<>>]

(* read_income: handle_subscription, else is_publish, else "no action". *)
FirstPost_Last(P) == CHOOSE p \in P : \A q \in P : q <= p
FirstPost(P) == Least(P)
Publication(b) ==
  SubSeq(b, Least(Marks(b, "PUB")) + 2, FirstPost(Enclosed(b, "PUB")) - 1)
ReadIncome(b) ==
  IF Enclosed(b, "SUB") # {}
  THEN [NoAction EXCEPT !.act = "subscribe", !.name = TopicName(b)]
  ELSE IF Enclosed(b, "PUB") # {}
  THEN [NoAction EXCEPT !.act = "publish", !.content = Publication(b)]
  ELSE NoAction

-----------------------------------------------------------------------------
(* The reader. *)

Init ==
  /\ sent = <<>> /\ wire = <<>> /\ buffer = <<>> /\ need = Waiting /\ done = <<>>
  /\ guessed = FALSE /\ quiet = {}

Complete_AtOnce(b, n) == TRUE
Complete(b, n) == Len(b) >= n

(* m_buffer.clear_buffer(), and the next recv() writes to the beginning. *)
Cleared_Not(b) == b
Cleared(b) == <<>>

(* One recv() takes some of what has arrived. *)
Take(n) ==
  /\ wire' = SubSeq(wire, n + 1, Len(wire))
  /\ UNCHANGED sent
Received(n) == buffer \o SubSeq(wire, 1, n)

(* The size of the message: announced in its first piece, then kept. *)
SizeNow(b) == IF need = Waiting THEN Sizes(b) ELSE {need}
SizeRead(n) ==
  /\ guessed' = (guessed \/ (need = Waiting /\ HeaderIn(Received(n)) = {}))
  /\ quiet' = IF wire[n].part = "lead" THEN quiet \ {wire[n].m} ELSE quiet

(* std::stol throws: the piece is dropped. *)
RecvMalformed(n) ==
  /\ NoSize \in SizeNow(Received(n))
  /\ Take(n) /\ SizeRead(n)
  /\ UNCHANGED <<buffer, need, done>>

(* More is to come. *)
RecvPart(n) ==
  /\ Take(n) /\ SizeRead(n)
  /\ \E size \in SizeNow(Received(n)) \ {NoSize} :
       /\ ~Complete(Received(n), size)
       /\ need' = size
  /\ buffer' = Received(n)
  /\ UNCHANGED done

(* m_got_message. *)
RecvLast(n) ==
  /\ Take(n) /\ SizeRead(n)
  /\ \E size \in SizeNow(Received(n)) \ {NoSize} : Complete(Received(n), size)
  /\ \E b \in Handed(Received(n)) :
       done' = Append(done, ReadIncome(b))
  /\ buffer' = Cleared(Received(n)) /\ need' = Waiting

Next ==
  \/ \E msg \in Message : SendMessage(msg)
  \/ \E n \in 1 .. Len(wire) : RecvMalformed(n) \/ RecvPart(n) \/ RecvLast(n)

Spec == Init /\ [][Next]_vars

-----------------------------------------------------------------------------
Part == {"lead", "digits", "mark1", "mark2", "name1", "name2", "data", "post1", "post2"}
Unit == [m : 1 .. MaxMsgs, part : Part]

TypeOK ==
  /\ sent \in Seq(Message) /\ Len(sent) <= MaxMsgs
  /\ wire \in Seq(Unit) /\ buffer \in Seq(Unit)
  /\ need \in {Waiting} \cup Nat
  /\ need = Waiting <=> buffer = <<>>
  /\ \A i \in 1 .. Len(done) : done[i].act \in Action /\ done[i].content \in Seq(Unit)
  /\ guessed \in BOOLEAN /\ quiet \subseteq 1 .. MaxMsgs

-----------------------------------------------------------------------------
(* Properties. *)

Body(i) == SubSeq(Frame(i, sent[i]), 5, Len(Frame(i, sent[i])) - 2)
Published(e) == done[e].act = "publish"
Source(e) == done[e].content[1].m

(* However recv() cuts and joins the stream, what is_publish puts on the list
   is one publication of the client, whole and nothing else, and they come in
   the order in which they were sent, each at most once. *)
PublicationsIntact ==
  /\ \A e \in 1 .. Len(done) : Published(e) =>
       /\ done[e].content = Body(Source(e)) /\ sent[Source(e)].kind = "PUB"
  /\ \A d, e \in 1 .. Len(done) : d < e /\ Published(d) /\ Published(e) => Source(d) < Source(e)

(* A message that finds the reader at rest, whose header arrives in one piece,
   and behind which nothing is sent before it has been received, is handled as
   what it is, whatever was lost before it: the reader falls back into step. *)
Handles(e, i) ==
  IF sent[i].kind = "PUB" THEN Published(e) /\ Source(e) = i
  ELSE done[e].act = "subscribe" /\ done[e].name = [m |-> i, whole |-> TRUE]
Pending(b) == {b[p].m : p \in 1 .. Len(b)}
QuietHandled ==
  \A i \in quiet : i \notin Pending(wire) => \E e \in 1 .. Len(done) : Handles(e, i)

(* The reader, and with it the main thread, never waits for more bytes than
   the client has sent, unless it took a size out of bytes that are no header. *)
NeverStarves == wire = <<>> /\ need # Waiting => guessed
=============================================================================
