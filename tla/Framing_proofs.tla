--------------------------- MODULE Framing_proofs ---------------------------
(***************************************************************************)
(* Theorems about a connection's byte stream, for any number of messages,  *)
(* payloads of any length and any way in which recv() cuts and joins them. *)
(***************************************************************************)
EXTENDS Framing, SequenceTheorems, WellFoundedInduction, TLAPS

-----------------------------------------------------------------------------
(* Frames. *)

(* A frame has its tokens where they belong, and nowhere else. *)
LEMMA FrameLaid ==
  ASSUME NEW msg \in Message, NEW i
  PROVE  /\ Announces(msg) \in Nat /\ Announces(msg) >= 8
         /\ Len(Frame(i, msg)) = Announces(msg)
         /\ \A u \in 1 .. Announces(msg) :
              LET unit == Frame(i, msg)[u] IN
              /\ unit = [m |-> i, part |-> unit.part] /\ unit.part \in Part
              /\ unit.part = "lead" <=> u = 1
              /\ unit.part = "mark1" <=> u = 3
              /\ unit.part = "post1" <=> u = Announces(msg) - 1
<1> DEFINE d == msg.data
           a == <<"lead", "digits", "mark1", "mark2", "name1", "name2">>
           b == [j \in 1 .. d |-> "data"]
           c == <<"post1", "post2">>
           P == Parts(msg)
<1>1. d \in Nat
  BY FramingAssumption DEF Message
<1>2. /\ a \in Seq(Part) /\ Len(a) = 6 /\ c \in Seq(Part) /\ Len(c) = 2
      /\ a[1] = "lead" /\ a[2] = "digits" /\ a[3] = "mark1" /\ a[4] = "mark2" /\ a[5] = "name1" /\ a[6] = "name2"
      /\ c[1] = "post1" /\ c[2] = "post2"
  BY DEF Part
<1>3. b \in Seq(Part) /\ Len(b) = d /\ \A j \in 1 .. d : b[j] = "data"
  BY <1>1 DEF Part
<1>4. P = (a \o b) \o c
  BY DEF Parts
<1> HIDE DEF a, b, c, d, P
<1>5. /\ a \o b \in Seq(Part) /\ Len(a \o b) = 6 + d
      /\ \A u \in 1 .. 6 + d : (a \o b)[u] = IF u <= 6 THEN a[u] ELSE b[u - 6]
  <2>1. /\ a \o b \in Seq(Part) /\ Len(a \o b) = Len(a) + Len(b)
        /\ \A u \in 1 .. Len(a) + Len(b) : (a \o b)[u] = IF u <= Len(a) THEN a[u] ELSE b[u - Len(a)]
    <3>1. a \in Seq(Part) /\ b \in Seq(Part)
      BY <1>2, <1>3
    <3> QED
      BY <3>1, ConcatProperties, Zenon
  <2> QED
    BY <1>2, <1>3, <2>1, Zenon
<1>6. /\ P \in Seq(Part) /\ Len(P) = 8 + d
      /\ \A u \in 1 .. 8 + d : P[u] = IF u <= 6 + d THEN (a \o b)[u] ELSE c[u - (6 + d)]
  <2> DEFINE ab == a \o b
  <2>0. ab \in Seq(Part) /\ Len(ab) = 6 + d /\ P = ab \o c
    BY <1>4, <1>5, Zenon
  <2> HIDE DEF ab
  <2>1. /\ P \in Seq(Part) /\ Len(P) = Len(ab) + Len(c)
        /\ \A u \in 1 .. Len(ab) + Len(c) : P[u] = IF u <= Len(ab) THEN ab[u] ELSE c[u - Len(ab)]
    BY <1>2, <2>0, ConcatProperties, Zenon
  <2>2. Len(ab) + Len(c) = 8 + d
    BY <1>1, <1>2, <2>0
  <2>3. \A u \in 1 .. 8 + d : P[u] = IF u <= 6 + d THEN ab[u] ELSE c[u - (6 + d)]
    BY <2>0, <2>1, <2>2, Zenon
  <2> QED
    BY <2>1, <2>2, <2>3, Zenon DEF ab
<1>7. Announces(msg) = 8 + d
  BY <1>6 DEF Announces, P
<1>8. ASSUME NEW u \in 1 .. 8 + d
      PROVE  /\ P[u] \in Part /\ (P[u] = "lead" <=> u = 1) /\ (P[u] = "mark1" <=> u = 3)
             /\ P[u] = "post1" <=> u = 7 + d
  <2>1. CASE u <= 6
    <3>1. P[u] = a[u] /\ u \in 1 .. 6
      BY <1>1, <1>5, <1>6, <2>1
    <3>2. u # 7 + d
      BY <1>1, <2>1
    <3> QED
      BY <1>2, <3>1, <3>2 DEF Part
  <2>2. CASE u > 6 /\ u <= 6 + d
    <3>1. u - 6 \in 1 .. d /\ u # 1 /\ u # 3 /\ u # 7 + d
      BY <1>1, <2>2
    <3>2. P[u] = "data"
      BY <1>1, <1>3, <1>5, <1>6, <2>2, <3>1
    <3> QED
      BY <3>1, <3>2 DEF Part
  <2>3. CASE u > 6 + d
    <3>1. /\ u = 7 + d \/ u = 8 + d
          /\ u - (6 + d) = IF u = 7 + d THEN 1 ELSE 2
          /\ u # 1 /\ u # 3 /\ 7 + d # 8 + d
      BY <1>1, <2>3
    <3>2. P[u] = c[u - (6 + d)]
      BY <1>1, <1>6, <2>3
    <3> QED
      BY <1>2, <3>1, <3>2 DEF Part
  <2> QED
    BY <1>1, <2>1, <2>2, <2>3
<1>9. Frame(i, msg) = [u \in 1 .. 8 + d |-> [m |-> i, part |-> P[u]]]
  BY <1>6 DEF Frame, P
<1>10. Len(Frame(i, msg)) = 8 + d
  BY <1>1, <1>9
<1>11. 8 + d \in Nat /\ 8 + d >= 8 /\ (8 + d) - 1 = 7 + d
  BY <1>1
<1>12. \A u \in 1 .. 8 + d : Frame(i, msg)[u] = [m |-> i, part |-> P[u]]
  BY <1>9
<1> QED
  BY <1>7, <1>8, <1>10, <1>11, <1>12

-----------------------------------------------------------------------------
(* The stream: what has arrived or is on its way, from the first unit that the
   reader has not dropped.  Each unit stands in its frame, all that follows it
   in the frame is there, and the messages come in the order they were sent. *)

StandsIn(r, s, p, k) ==
  LET f == Frame(r[p].m, s[r[p].m]) IN
  /\ k \in 1 .. Len(f) /\ p + Len(f) - k <= Len(r)
  /\ \A u \in k .. Len(f) : r[p + u - k] = f[u]
Framed(r, s) == \A p \in 1 .. Len(r) : r[p].m \in 1 .. Len(s) /\ \E k \in Nat : StandsIn(r, s, p, k)
Rising(r) ==
  \A p, q \in 1 .. Len(r) : p < q /\ r[p].part = "mark1" /\ r[q].part = "mark1" => r[p].m < r[q].m
Stream(r, s) == r \in Seq(Unit) /\ Framed(r, s) /\ Rising(r)

(* What is left of a list when its first n elements are taken off. *)
LEMMA Dropped ==
  ASSUME NEW S, NEW r \in Seq(S), NEW n \in 0 .. Len(r)
  PROVE  LET t == SubSeq(r, n + 1, Len(r)) IN
         /\ t \in Seq(S) /\ Len(t) = Len(r) - n
         /\ \A p \in 1 .. Len(r) - n : t[p] = r[n + p]
<1>1. Len(r) \in Nat
  BY LenProperties
<1>2. \A i \in n + 1 .. Len(r) : r[i] \in S
  BY <1>1, ElementOfSeq
<1>3. n + 1 \in Int /\ Len(r) \in Int
  BY <1>1
<1> DEFINE t == SubSeq(r, n + 1, Len(r))
           m == n + 1
           e == Len(r)
<1>4. m \in Int /\ e \in Int /\ \A i \in m .. e : r[i] \in S
  BY <1>2, <1>3
<1> HIDE DEF m, e
<1>5. /\ SubSeq(r, m, e) \in Seq(S)
      /\ Len(SubSeq(r, m, e)) = IF m <= e THEN e - m + 1 ELSE 0
      /\ \A i \in 1 .. e - m + 1 : SubSeq(r, m, e)[i] = r[m + i - 1]
  BY <1>4, SubSeqProperties
<1>6. /\ t \in Seq(S) /\ Len(t) = (IF n + 1 <= Len(r) THEN Len(r) - (n + 1) + 1 ELSE 0)
      /\ \A i \in 1 .. Len(r) - (n + 1) + 1 : t[i] = r[(n + 1) + i - 1]
  BY <1>5 DEF m, e
<1> HIDE DEF t
<1>7. Len(t) = Len(r) - n
  <2>1. (IF n + 1 <= Len(r) THEN Len(r) - (n + 1) + 1 ELSE 0) = Len(r) - n
    BY <1>1
  <2> QED
    BY <1>6, <2>1
<1>8. ASSUME NEW p \in 1 .. Len(r) - n PROVE t[p] = r[n + p]
  <2>1. p \in 1 .. Len(r) - (n + 1) + 1 /\ (n + 1) + p - 1 = n + p
    BY <1>1
  <2> QED
    BY <1>6, <2>1
<1> QED
  BY <1>6, <1>7, <1>8 DEF t

(* And its first n elements. *)
LEMMA FirstOf ==
  ASSUME NEW S, NEW r \in Seq(S), NEW n \in 0 .. Len(r)
  PROVE  LET t == SubSeq(r, 1, n) IN
         /\ t \in Seq(S) /\ Len(t) = n
         /\ \A p \in 1 .. n : t[p] = r[p]
<1>1. Len(r) \in Nat
  BY LenProperties
<1>2. 1 \in Int /\ n \in Int /\ \A i \in 1 .. n : r[i] \in S
  BY <1>1, ElementOfSeq
<1>3. /\ SubSeq(r, 1, n) \in Seq(S)
      /\ Len(SubSeq(r, 1, n)) = IF 1 <= n THEN n - 1 + 1 ELSE 0
      /\ \A i \in 1 .. n - 1 + 1 : SubSeq(r, 1, n)[i] = r[1 + i - 1]
  BY <1>2, SubSeqProperties
<1>4. (IF 1 <= n THEN n - 1 + 1 ELSE 0) = n /\ n - 1 + 1 = n
  BY <1>1
<1>5. \A i \in 1 .. n : 1 + i - 1 = i
  OBVIOUS
<1> QED
  BY <1>3, <1>4, <1>5

(* Dropping what comes first leaves a stream. *)
LEMMA StreamDropped ==
  ASSUME NEW s, NEW r, Stream(r, s), NEW n \in 0 .. Len(r)
  PROVE  Stream(SubSeq(r, n + 1, Len(r)), s)
<1> DEFINE t == SubSeq(r, n + 1, Len(r))
<1>1. r \in Seq(Unit) /\ Len(r) \in Nat
  BY LenProperties DEF Stream
<1>2. t \in Seq(Unit) /\ Len(t) = Len(r) - n /\ \A p \in 1 .. Len(r) - n : t[p] = r[n + p]
  BY <1>1, Dropped
<1> HIDE DEF t
<1>3. Rising(t)
  <2> SUFFICES ASSUME NEW p \in 1 .. Len(t), NEW q \in 1 .. Len(t), p < q, t[p].part = "mark1", t[q].part = "mark1"
               PROVE  t[p].m < t[q].m
    BY DEF Rising
  <2>1. n + p \in 1 .. Len(r) /\ n + q \in 1 .. Len(r) /\ n + p < n + q
    BY <1>1, <1>2
  <2> QED
    BY <1>2, <2>1 DEF Stream, Rising
<1>4. Framed(t, s)
  <2> SUFFICES ASSUME NEW p \in 1 .. Len(t)
               PROVE  t[p].m \in 1 .. Len(s) /\ \E k \in Nat : StandsIn(t, s, p, k)
    BY DEF Framed
  <2>1. n + p \in 1 .. Len(r) /\ t[p] = r[n + p]
    BY <1>1, <1>2
  <2>2. PICK k \in Nat : r[n + p].m \in 1 .. Len(s) /\ StandsIn(r, s, n + p, k)
    BY <2>1 DEF Stream, Framed
  <2> DEFINE f == Frame(r[n + p].m, s[r[n + p].m])
  <2>3. /\ k \in 1 .. Len(f) /\ (n + p) + Len(f) - k <= Len(r)
        /\ \A u \in k .. Len(f) : r[(n + p) + u - k] = f[u]
    BY <2>2 DEF StandsIn
  <2>4. f = Frame(t[p].m, s[t[p].m])
    BY <2>1
  <2> HIDE DEF f
  <2>5. Len(f) \in Int \/ 1 .. Len(f) = {}
    OBVIOUS
  <2>6. p + Len(f) - k <= Len(t) /\ \A u \in k .. Len(f) : t[p + u - k] = f[u]
    <3>1. CASE Len(f) \in Int
      <4>1. p + Len(f) - k <= Len(t)
        BY <1>1, <1>2, <2>3, <3>1
      <4>2. ASSUME NEW u \in k .. Len(f) PROVE t[p + u - k] = f[u]
        <5>1. p + u - k \in 1 .. Len(r) - n /\ n + (p + u - k) = (n + p) + u - k
          BY <1>1, <1>2, <2>3, <3>1
        <5> QED
          BY <1>2, <2>3, <5>1
      <4> QED
        BY <4>1, <4>2
    <3> QED
      BY <2>3, <2>5, <3>1
  <2> QED
    BY <2>1, <2>2, <2>3, <2>4, <2>6 DEF StandsIn
<1> QED
  BY <1>2, <1>3, <1>4 DEF Stream, t

(* A frame's units. *)
LEMMA FrameUnits ==
  ASSUME NEW msg \in Message, NEW i \in 1 .. MaxMsgs
  PROVE  Frame(i, msg) \in Seq(Unit)
<1> DEFINE f == Frame(i, msg)
           n == Announces(msg)
<1>1. n \in Nat /\ Len(f) = n
  BY FrameLaid
<1>1a. ASSUME NEW u \in 1 .. n PROVE f[u] \in Unit
  <2>1. f[u] = [m |-> i, part |-> f[u].part] /\ f[u].part \in Part
    BY FrameLaid
  <2> DEFINE x == f[u].part
  <2> HIDE DEF x
  <2>2. f[u] = [m |-> i, part |-> x] /\ x \in Part
    BY <2>1 DEF x
  <2>3. [m |-> i, part |-> x] \in Unit
    BY <2>2 DEF Unit
  <2> QED
    BY <2>2, <2>3
<1>2. f = [u \in 1 .. Len(Parts(msg)) |-> f[u]] /\ Len(Parts(msg)) = n
  BY DEF Frame, Announces
<1> HIDE DEF f, n
<1>3. f = [u \in 1 .. n |-> f[u]]
  BY <1>2
<1> QED
  BY <1>1, <1>1a, <1>3 DEF f

(* Sending a message lengthens the stream. *)
LEMMA StreamGrows ==
  ASSUME NEW s \in Seq(Message), NEW r, Stream(r, s), NEW msg \in Message, Len(s) < MaxMsgs
  PROVE  Stream(r \o Frame(Len(s) + 1, msg), Append(s, msg))
<1> DEFINE i == Len(s) + 1
           f == Frame(i, msg)
           s2 == Append(s, msg)
           t == r \o f
           n == Announces(msg)
<1>1. /\ r \in Seq(Unit) /\ Len(r) \in Nat /\ Len(s) \in Nat /\ i \in 1 .. MaxMsgs /\ i \notin 1 .. Len(s)
      /\ \A j \in 1 .. Len(s) : j < i
  BY LenProperties, FramingAssumption DEF Stream
<1>2. s2 \in Seq(Message) /\ Len(s2) = i /\ s2[i] = msg /\ \A j \in 1 .. Len(s) : s2[j] = s[j]
  BY AppendProperties
<1>3. /\ f \in Seq(Unit) /\ n \in Nat /\ Len(f) = n
      /\ \A u \in 1 .. n : f[u].m = i /\ (f[u].part = "mark1" <=> u = 3)
  <2>1. f \in Seq(Unit)
    BY <1>1, FrameUnits
  <2>2. n \in Nat /\ Len(f) = n
    BY FrameLaid
  <2>3. ASSUME NEW u \in 1 .. n PROVE f[u].m = i /\ (f[u].part = "mark1" <=> u = 3)
    <3>1. f[u] = [m |-> i, part |-> f[u].part] /\ (f[u].part = "mark1" <=> u = 3)
      BY FrameLaid
    <3> DEFINE x == f[u]
               y == x.part
    <3>2. x = [m |-> i, part |-> y]
      BY <3>1
    <3> HIDE DEF x, y
    <3>3. x.m = i
      BY <3>2
    <3> QED
      BY <3>1, <3>3 DEF x
  <2> QED
    BY <2>1, <2>2, <2>3
<1> HIDE DEF i, f, s2, n
<1>4. /\ t \in Seq(Unit) /\ Len(t) = Len(r) + n
      /\ \A p \in 1 .. Len(r) + n : t[p] = IF p <= Len(r) THEN r[p] ELSE f[p - Len(r)]
  <2>1. /\ t \in Seq(Unit) /\ Len(t) = Len(r) + Len(f)
        /\ \A p \in 1 .. Len(r) + Len(f) : t[p] = IF p <= Len(r) THEN r[p] ELSE f[p - Len(r)]
    BY <1>1, <1>3, ConcatProperties
  <2> QED
    BY <1>3, <2>1
<1> HIDE DEF t
<1>5. \A p \in 1 .. Len(r) : p \in 1 .. Len(r) + n /\ p <= Len(r) /\ t[p] = r[p]
  <2>1. \A p \in 1 .. Len(r) : p \in 1 .. Len(r) + n /\ p <= Len(r)
    BY <1>1, <1>3
  <2> QED
    BY <1>4, <2>1
<1>6. \A u \in 1 .. n : Len(r) + u \in 1 .. Len(r) + n /\ t[Len(r) + u] = f[u]
  <2> SUFFICES ASSUME NEW u \in 1 .. n PROVE Len(r) + u \in 1 .. Len(r) + n /\ t[Len(r) + u] = f[u]
    OBVIOUS
  <2>1. Len(r) + u \in 1 .. Len(r) + n /\ ~(Len(r) + u <= Len(r)) /\ Len(r) + u - Len(r) = u
    BY <1>1, <1>3
  <2> QED
    BY <1>4, <2>1
<1>7. \A p \in 1 .. Len(t) : p \in 1 .. Len(r) \/ \E u \in 1 .. n : p = Len(r) + u
  <2> SUFFICES ASSUME NEW p \in 1 .. Len(t), p \notin 1 .. Len(r) PROVE \E u \in 1 .. n : p = Len(r) + u
    OBVIOUS
  <2>1. p - Len(r) \in 1 .. n /\ p = Len(r) + (p - Len(r))
    BY <1>1, <1>3, <1>4
  <2> QED
    BY <2>1
<1>8. Rising(t)
  <2> SUFFICES ASSUME NEW p \in 1 .. Len(t), NEW q \in 1 .. Len(t), p < q, t[p].part = "mark1", t[q].part = "mark1"
               PROVE  t[p].m < t[q].m
    BY DEF Rising
  <2>1. CASE p \in 1 .. Len(r) /\ q \in 1 .. Len(r)
    BY <1>5, <2>1 DEF Stream, Rising
  <2>2. CASE p \in 1 .. Len(r) /\ q \notin 1 .. Len(r)
    <3>1. t[p].m \in 1 .. Len(s)
      BY <1>5, <2>2 DEF Stream, Framed
    <3>2. t[q].m = i
      <4>1. PICK u \in 1 .. n : q = Len(r) + u
        BY <1>7, <2>2
      <4> QED
        BY <1>3, <1>6, <4>1
    <3> QED
      BY <1>1, <3>1, <3>2
  <2>3. CASE p \notin 1 .. Len(r)
    <3>1. PICK u \in 1 .. n : p = Len(r) + u
      BY <1>7, <2>3
    <3>2. q \notin 1 .. Len(r)
      BY <1>1, <1>4, <2>3
    <3>3. PICK v \in 1 .. n : q = Len(r) + v
      BY <1>7, <3>2
    <3>4. u = 3 /\ v = 3
      BY <1>3, <1>6, <3>1, <3>3
    <3> QED
      BY <1>1, <3>1, <3>3, <3>4
  <2> QED
    BY <2>1, <2>2, <2>3
<1>9. Framed(t, s2)
  <2> SUFFICES ASSUME NEW p \in 1 .. Len(t)
               PROVE  t[p].m \in 1 .. Len(s2) /\ \E k \in Nat : StandsIn(t, s2, p, k)
    BY DEF Framed
  <2>1. CASE p \in 1 .. Len(r)
    <3>1. PICK k \in Nat : r[p].m \in 1 .. Len(s) /\ StandsIn(r, s, p, k)
      BY <2>1 DEF Stream, Framed
    <3> DEFINE g == Frame(r[p].m, s[r[p].m])
    <3>2. g = Frame(t[p].m, s2[t[p].m]) /\ t[p].m \in 1 .. Len(s)
      BY <1>2, <1>5, <2>1, <3>1
    <3>3. k \in 1 .. Len(g) /\ p + Len(g) - k <= Len(r) /\ \A u \in k .. Len(g) : r[p + u - k] = g[u]
      BY <3>1 DEF StandsIn
    <3>4. Len(g) \in Nat
      <4>1. s[r[p].m] \in Message
        BY <3>1, ElementOfSeq
      <4> QED
        BY <4>1, FrameLaid
    <3> HIDE DEF g
    <3>5. p + Len(g) - k <= Len(t)
      BY <1>1, <1>3, <1>4, <3>3, <3>4
    <3>6. ASSUME NEW u \in k .. Len(g) PROVE t[p + u - k] = g[u]
      <4>1. p + u - k \in 1 .. Len(r)
        BY <1>1, <3>3, <3>4
      <4> QED
        BY <1>5, <3>3, <4>1
    <3>7. t[p].m \in 1 .. Len(s2)
      BY <1>1, <1>2, <3>2 DEF i
    <3> QED
      BY <3>2, <3>3, <3>5, <3>6, <3>7 DEF StandsIn
  <2>2. CASE p \notin 1 .. Len(r)
    <3>1. PICK u \in 1 .. n : p = Len(r) + u
      BY <1>7, <2>2
    <3>2. t[p].m = i /\ Frame(t[p].m, s2[t[p].m]) = f /\ i \in 1 .. Len(s2)
      <4>1. t[p].m = i
        BY <1>3, <1>6, <3>1
      <4>2. i \in 1 .. Len(s2)
        BY <1>1, <1>2
      <4> QED
        BY <1>2, <4>1, <4>2 DEF f
    <3>3. p + Len(f) - u <= Len(t) /\ u \in 1 .. Len(f) /\ u \in Nat
      BY <1>1, <1>3, <1>4, <3>1
    <3>4. ASSUME NEW v \in u .. Len(f) PROVE t[p + v - u] = f[v]
      <4>1. v \in 1 .. n /\ p + v - u = Len(r) + v
        BY <1>1, <1>3, <3>1
      <4> QED
        BY <1>6, <4>1
    <3> QED
      BY <3>2, <3>3, <3>4 DEF StandsIn
  <2> QED
    BY <2>1, <2>2
<1> QED
  BY <1>4, <1>8, <1>9 DEF Stream, i, f, s2, t

(* Where the first bytes of a header are, the rest of the frame follows; so it
   does behind the mark and before the post. *)
LEMMA InFrame ==
  ASSUME NEW s \in Seq(Message), NEW r, Stream(r, s), NEW p \in 1 .. Len(r)
  PROVE  LET i == r[p].m n == Announces(s[i]) f == Frame(i, s[i]) IN
         /\ i \in 1 .. Len(s) /\ s[i] \in Message /\ n \in Nat /\ n >= 8 /\ Len(f) = n
         /\ \E k \in 1 .. n : /\ p + n - k <= Len(r) /\ r[p].part = f[k].part
                              /\ \A u \in k .. n : r[p + u - k] = f[u]
         /\ r[p].part = "lead" => p + n - 1 <= Len(r) /\ \A u \in 1 .. n : r[p + u - 1] = f[u]
         /\ r[p].part = "mark1" => p + n - 3 <= Len(r) /\ \A u \in 3 .. n : r[p + u - 3] = f[u]
<1> DEFINE i == r[p].m
           n == Announces(s[i])
           f == Frame(i, s[i])
<1>1. PICK k \in Nat : i \in 1 .. Len(s) /\ StandsIn(r, s, p, k)
  BY DEF Stream, Framed
<1>2. s[i] \in Message
  BY <1>1, ElementOfSeq
<1>3. /\ n \in Nat /\ n >= 8 /\ Len(f) = n
      /\ \A u \in 1 .. n : (f[u].part = "lead" <=> u = 1) /\ (f[u].part = "mark1" <=> u = 3)
  BY <1>2, FrameLaid
<1>4. k \in 1 .. Len(f) /\ p + Len(f) - k <= Len(r) /\ \A u \in k .. Len(f) : r[p + u - k] = f[u]
  BY <1>1 DEF StandsIn
<1> HIDE DEF f, n, i
<1>5. k \in 1 .. n /\ p + n - k <= Len(r) /\ \A u \in k .. n : r[p + u - k] = f[u]
  BY <1>3, <1>4
<1>6. r[p] = f[k]
  <2>1. k \in k .. n /\ p + k - k = p
    BY <1>3, <1>5
  <2> QED
    BY <1>5, <2>1
<1>7. (r[p].part = "lead" => k = 1) /\ (r[p].part = "mark1" => k = 3)
  BY <1>3, <1>5, <1>6
<1>8. /\ r[p].part = "lead" => p + n - 1 <= Len(r) /\ \A u \in 1 .. n : r[p + u - 1] = f[u]
      /\ r[p].part = "mark1" => p + n - 3 <= Len(r) /\ \A u \in 3 .. n : r[p + u - 3] = f[u]
  BY <1>5, <1>7
<1> QED
  BY <1>1, <1>2, <1>3, <1>5, <1>6, <1>8 DEF i, n, f

(* So it does from the mark on. *)
LEMMA MarkInFrame ==
  ASSUME NEW s \in Seq(Message), NEW r, Stream(r, s), NEW p \in 1 .. Len(r), r[p].part = "mark1",
         NEW u \in 3 .. Announces(s[r[p].m])
  PROVE  r[p + u - 3] = Frame(r[p].m, s[r[p].m])[u]
<1> DEFINE i == r[p].m
           n == Announces(s[i])
           f == Frame(i, s[i])
<1>1. PICK k \in Nat : i \in 1 .. Len(s) /\ StandsIn(r, s, p, k)
  BY DEF Stream, Framed
<1>2. k \in 1 .. Len(f) /\ \A v \in k .. Len(f) : r[p + v - k] = f[v]
  BY <1>1 DEF StandsIn
<1>3. s[i] \in Message
  BY <1>1, ElementOfSeq
<1>4. n \in Nat /\ Len(f) = n /\ \A v \in 1 .. n : f[v].part = "mark1" <=> v = 3
  BY <1>3, FrameLaid
<1> HIDE DEF f, n, i
<1>5. r[p] = f[k]
  <2>1. k \in k .. Len(f) /\ p + k - k = p
    BY <1>2, <1>4
  <2> QED
    BY <1>2, <2>1
<1>6. k = 3
  BY <1>2, <1>4, <1>5
<1> QED
  BY <1>2, <1>4, <1>6 DEF f, n, i

-----------------------------------------------------------------------------
(* The reader keeps its place in the stream. *)

(* A set of places has a first one. *)
LEMMA LeastIn ==
  ASSUME NEW P \in SUBSET Nat, P # {}
  PROVE  Least(P) \in P /\ \A q \in P : Least(P) <= q
<1>1. IsWellFoundedOn(OpToRel(<, Nat), Nat)
  BY NatLessThanWellFounded
<1>2. PICK p \in P : \A q \in P : ~(<<q, p>> \in OpToRel(<, Nat))
  BY <1>1, WFMin
<1>3. ASSUME NEW q \in P PROVE p <= q
  <2>1. p \in Nat /\ q \in Nat
    OBVIOUS
  <2>2. ~(q < p)
    BY <1>2, <2>1 DEF OpToRel
  <2> QED
    BY <2>1, <2>2
<1>4. \E x \in P : \A q \in P : x <= q
  BY <1>3
<1> QED
  BY <1>4 DEF Least

Flow == buffer \o wire
FlowInv ==
  /\ sent \in Seq(Message) /\ Len(sent) <= MaxMsgs
  /\ buffer \in Seq(Unit) /\ wire \in Seq(Unit) /\ Stream(Flow, sent)
  /\ need \in {Waiting} \cup Nat /\ (need = Waiting <=> buffer = <<>>)
  /\ guessed \in BOOLEAN /\ quiet \subseteq 1 .. Len(sent)

(* What the reader waits for is there or on its way, if it knows how much. *)
NeedInv == need # Waiting => Len(buffer) < need /\ (~guessed => need <= Len(Flow))

(* The two parts of a list. *)
LEMMA ConcatParts ==
  ASSUME NEW S, NEW s \in Seq(S), NEW t \in Seq(S)
  PROVE  /\ s \o t \in Seq(S) /\ Len(s) \in Nat /\ Len(t) \in Nat /\ Len(s \o t) = Len(s) + Len(t)
         /\ \A p \in 1 .. Len(s) : (s \o t)[p] = s[p]
         /\ \A p \in 1 .. Len(t) : (s \o t)[Len(s) + p] = t[p]
         /\ SubSeq(s \o t, Len(s) + 1, Len(s \o t)) = t
<1> DEFINE r == s \o t
<1>1. /\ Len(s) \in Nat /\ Len(t) \in Nat /\ r \in Seq(S) /\ Len(r) = Len(s) + Len(t)
      /\ \A p \in 1 .. Len(s) + Len(t) : r[p] = IF p <= Len(s) THEN s[p] ELSE t[p - Len(s)]
  BY LenProperties, ConcatProperties
<1> HIDE DEF r
<1>2. ASSUME NEW p \in 1 .. Len(s) PROVE r[p] = s[p]
  <2>1. p \in 1 .. Len(s) + Len(t) /\ p <= Len(s)
    BY <1>1
  <2> QED
    BY <1>1, <2>1
<1>3. ASSUME NEW p \in 1 .. Len(t) PROVE r[Len(s) + p] = t[p]
  <2>1. Len(s) + p \in 1 .. Len(s) + Len(t) /\ ~(Len(s) + p <= Len(s)) /\ Len(s) + p - Len(s) = p
    BY <1>1
  <2> QED
    BY <1>1, <2>1
<1>4. SubSeq(r, Len(s) + 1, Len(r)) = t
  <2> DEFINE x == SubSeq(r, Len(s) + 1, Len(r))
  <2>1. Len(s) \in 0 .. Len(r) /\ Len(r) - Len(s) = Len(t)
    BY <1>1
  <2>2. x \in Seq(S) /\ Len(x) = Len(t) /\ \A p \in 1 .. Len(t) : x[p] = r[Len(s) + p]
    BY <1>1, <2>1, Dropped
  <2> HIDE DEF x
  <2>3. x = t
    BY <1>3, <2>2, SeqEqual
  <2> QED
    BY <2>3 DEF x
<1> QED
  BY <1>1, <1>2, <1>3, <1>4 DEF r

(* One recv(): the buffer grows by what leaves the wire, and the stream is the
   same. *)
LEMMA RecvFlow ==
  ASSUME FlowInv, NEW n \in 1 .. Len(wire), Take(n)
  PROVE  LET b == Received(n) IN
         /\ b \in Seq(Unit) /\ Len(b) = Len(buffer) + n /\ Len(buffer) \in Nat
         /\ wire' \in Seq(Unit) /\ Len(wire') \in Nat
         /\ b \o wire' = Flow /\ Len(Flow) = Len(b) + Len(wire')
         /\ \A p \in 1 .. Len(b) : p \in 1 .. Len(Flow) /\ Flow[p] = b[p]
         /\ wire' = SubSeq(Flow, Len(b) + 1, Len(Flow)) /\ Stream(wire', sent)
         /\ buffer = <<>> => Flow = wire
<1> DEFINE b == Received(n)
           h == SubSeq(wire, 1, n)
           t == SubSeq(wire, n + 1, Len(wire))
<1>1. buffer \in Seq(Unit) /\ wire \in Seq(Unit) /\ Stream(Flow, sent) /\ wire' = t
  BY DEF FlowInv, Take
<1>2. Len(wire) \in Nat /\ n \in 0 .. Len(wire)
  BY <1>1, LenProperties
<1>3. h \in Seq(Unit) /\ Len(h) = n
  BY <1>1, <1>2, FirstOf
<1>4. t \in Seq(Unit)
  BY <1>1, <1>2, Dropped
<1>5. h \o t = wire
  <2>1. 1 \in 1 .. Len(wire) + 1 /\ n \in 1 - 1 .. Len(wire) /\ Len(wire) \in n .. Len(wire)
    BY <1>2
  <2>2. h \o t = SubSeq(wire, 1, Len(wire))
    BY <1>1, <2>1, ConcatAdjacentSubSeq
  <2> QED
    BY <1>1, <2>2, SubSeqFull
<1>6. b = buffer \o h
  BY DEF Received
<1> HIDE DEF h, t, b
<1>7. b \in Seq(Unit) /\ Len(b) = Len(buffer) + n /\ Len(buffer) \in Nat
  BY <1>1, <1>3, <1>6, ConcatParts
<1>8. b \o t = Flow
  <2>1. (buffer \o h) \o t = buffer \o (h \o t)
    <3>1. buffer \in Seq(Unit) /\ h \in Seq(Unit) /\ t \in Seq(Unit)
      BY <1>1, <1>3, <1>4
    <3> QED
      BY ONLY <3>1, ConcatAssociative
  <2> QED
    BY <1>5, <1>6, <2>1 DEF Flow
<1>9. /\ Len(t) \in Nat /\ Len(Flow) = Len(b) + Len(t)
      /\ \A p \in 1 .. Len(b) : Flow[p] = b[p]
      /\ SubSeq(Flow, Len(b) + 1, Len(Flow)) = t
  BY <1>4, <1>7, <1>8, ConcatParts
<1>10. \A p \in 1 .. Len(b) : p \in 1 .. Len(Flow)
  BY <1>2, <1>7, <1>9
<1>11. Stream(t, sent)
  <2>1. Len(b) \in 0 .. Len(Flow)
    BY <1>2, <1>7, <1>9
  <2> QED
    BY <1>1, <1>9, <2>1, StreamDropped
<1>12. buffer = <<>> => Flow = wire
  BY <1>1, ConcatEmptySeq DEF Flow
<1> QED
  BY <1>1, <1>4, <1>7, <1>8, <1>9, <1>10, <1>11, <1>12 DEF b

(* The header found in a piece is the first of its leads. *)
LEMMA HeaderFound ==
  ASSUME NEW b \in Seq(Unit), NEW p \in HeaderIn(b)
  PROVE  /\ p \in 1 .. Len(b) /\ p < Len(b) /\ b[p].part = "lead"
         /\ Sizes(b) = {Announces(sent[b[p].m])}
<1> DEFINE W == Where(b, "lead")
<1>1. Len(b) \in Nat
  BY LenProperties
<1>2. W \in SUBSET Nat /\ W # {} /\ p = Least(W) /\ p < Len(b)
  BY <1>1 DEF HeaderIn, Where
<1>3. p \in W
  BY <1>2, LeastIn
<1>4. HeaderIn(b) = {p}
  BY <1>2 DEF HeaderIn
<1> QED
  BY <1>2, <1>3, <1>4 DEF Where, Sizes

(* A size that is read is a number; one read out of a header is no more than
   what is there or on its way. *)
LEMMA SizeOf ==
  ASSUME FlowInv, NEW n \in 1 .. Len(wire), Take(n), NEW size \in SizeNow(Received(n)), size # NoSize
  PROVE  /\ size \in Nat
         /\ need # Waiting => size = need
         /\ need = Waiting /\ HeaderIn(Received(n)) # {} => size <= Len(Flow)
<1> DEFINE b == Received(n)
<1>1. /\ b \in Seq(Unit) /\ Len(b) = Len(buffer) + n /\ Len(buffer) \in Nat
      /\ \A p \in 1 .. Len(b) : p \in 1 .. Len(Flow) /\ Flow[p] = b[p]
      /\ Stream(Flow, sent) /\ sent \in Seq(Message)
  BY RecvFlow DEF FlowInv
<1> HIDE DEF b
<1>2. need # Waiting => size = need /\ size \in Nat
  BY DEF SizeNow, FlowInv
<1>3. need = Waiting => size \in Sizes(b)
  BY DEF SizeNow, b
<1>4. ASSUME need = Waiting, NEW p \in HeaderIn(b) PROVE size \in Nat /\ size <= Len(Flow)
  <2>1. p \in 1 .. Len(b) /\ b[p].part = "lead" /\ size = Announces(sent[b[p].m])
    BY <1>1, <1>3, <1>4, HeaderFound
  <2>2. Flow[p] = b[p] /\ p \in 1 .. Len(Flow)
    BY <1>1, <2>1
  <2>3. size \in Nat /\ p + size - 1 <= Len(Flow)
    <3> DEFINE k == Announces(sent[Flow[p].m])
    <3>1. k \in Nat /\ (Flow[p].part = "lead" => p + k - 1 <= Len(Flow))
      BY <1>1, <2>2, InFrame, Zenon
    <3>2. size = k
      BY <2>1, <2>2
    <3> QED
      BY <2>1, <2>2, <3>1, <3>2
  <2>4. Len(Flow) \in Nat
    BY <1>1, LenProperties DEF Stream
  <2> QED
    BY <2>2, <2>3, <2>4
<1>5. ASSUME need = Waiting, HeaderIn(b) = {} PROVE size \in Nat
  <2>1. Len(b) \in 1 .. Len(b)
    BY <1>1
  <2>2. Announces(sent[b[Len(b)].m]) \in Nat
    <3> DEFINE p == Len(b)
    <3>1. p \in 1 .. Len(Flow) /\ Flow[p] = b[p]
      BY <1>1, <2>1
    <3> HIDE DEF p
    <3>2. Announces(sent[Flow[p].m]) \in Nat
      BY <1>1, <3>1, InFrame, Zenon
    <3> QED
      BY <3>1, <3>2 DEF p
  <2> QED
    BY <1>3, <1>5, <2>2, FramingAssumption DEF Sizes
<1> QED
  BY <1>2, <1>4, <1>5 DEF b
(* A piece without a size is dropped only where no message is being read. *)
LEMMA OnlyAtRest ==
  ASSUME FlowInv, NEW n \in 1 .. Len(wire), NoSize \in SizeNow(Received(n))
  PROVE  need = Waiting /\ buffer = <<>>
BY DEF FlowInv, SizeNow, NoSize, Waiting

(* Every step keeps the reader's place and what it may wait for. *)
LEMMA FlowStep == FlowInv /\ NeedInv /\ [Next]_vars => FlowInv' /\ NeedInv'
<1> SUFFICES ASSUME FlowInv, NeedInv, [Next]_vars
             PROVE  FlowInv' /\ NeedInv'
  OBVIOUS
<1>0. /\ sent \in Seq(Message) /\ Len(sent) <= MaxMsgs /\ Len(sent) \in Nat
      /\ buffer \in Seq(Unit) /\ wire \in Seq(Unit) /\ Stream(Flow, sent)
      /\ need \in {Waiting} \cup Nat /\ (need = Waiting <=> buffer = <<>>)
      /\ guessed \in BOOLEAN /\ quiet \subseteq 1 .. Len(sent)
      /\ Flow \in Seq(Unit) /\ Len(Flow) \in Nat /\ Len(buffer) \in Nat
  BY LenProperties DEF FlowInv, Stream
<1>1. ASSUME NEW msg \in Message, SendMessage(msg)
      PROVE  FlowInv' /\ NeedInv'
  <2> DEFINE i == Len(sent) + 1
             f == Frame(i, msg)
  <2>1. /\ Len(sent) < MaxMsgs /\ sent' = Append(sent, msg) /\ wire' = wire \o f
        /\ buffer' = buffer /\ need' = need /\ guessed' = guessed
        /\ quiet' \subseteq quiet \cup {i}
    BY <1>1 DEF SendMessage
  <2>2. i \in 1 .. MaxMsgs /\ f \in Seq(Unit)
    <3>1. i \in 1 .. MaxMsgs
      BY <1>0, <2>1, FramingAssumption
    <3> QED
      BY <3>1, FrameUnits
  <2>3. Stream(Flow \o f, sent')
    BY <1>0, <2>1, StreamGrows
  <2> HIDE DEF f, i
  <2>4. Flow' = Flow \o f
    <3>1. (buffer \o wire) \o f = buffer \o (wire \o f)
      <4>1. buffer \in Seq(Unit) /\ wire \in Seq(Unit) /\ f \in Seq(Unit)
        BY <1>0, <2>2
      <4> QED
        BY ONLY <4>1, ConcatAssociative
    <3> QED
      BY <2>1, <3>1 DEF Flow
  <2>5. wire' \in Seq(Unit) /\ Len(Flow') \in Nat /\ Len(Flow) <= Len(Flow')
    <3>1. wire \o f \in Seq(Unit)
      BY <1>0, <2>2, ConcatParts
    <3>2. Len(f) \in Nat /\ Len(Flow \o f) = Len(Flow) + Len(f)
      BY <1>0, <2>2, ConcatParts
    <3> QED
      BY <1>0, <2>1, <2>4, <3>1, <3>2
  <2>6. sent' \in Seq(Message) /\ Len(sent') = i /\ quiet' \subseteq 1 .. i
    <3>1. sent' \in Seq(Message) /\ Len(sent') = i
      BY <1>0, <2>1, AppendProperties DEF i
    <3>2. 1 .. Len(sent) \subseteq 1 .. i /\ i \in 1 .. i
      BY <1>0 DEF i
    <3> QED
      BY <1>0, <2>1, <3>1, <3>2
  <2>7. FlowInv'
    <3>1. Len(sent') <= MaxMsgs /\ quiet' \subseteq 1 .. Len(sent')
      BY <2>2, <2>6
    <3>2. Stream(Flow', sent')
      BY <2>3, <2>4
    <3> QED
      BY <1>0, <2>1, <2>5, <2>6, <3>1, <3>2 DEF FlowInv
  <2>8. NeedInv'
    <3>1. need # Waiting => Len(buffer) < need /\ (~guessed => need <= Len(Flow'))
      BY <1>0, <2>5 DEF NeedInv
    <3> QED
      BY <2>1, <3>1 DEF NeedInv
  <2> QED
    BY <2>7, <2>8
<1>2. ASSUME NEW n \in 1 .. Len(wire), Take(n), SizeRead(n)
      PROVE  /\ sent' = sent /\ wire' \in Seq(Unit) /\ guessed' \in BOOLEAN
             /\ quiet' \subseteq 1 .. Len(sent') /\ (<<>> \o wire') = wire'
             /\ Stream(wire', sent)
  <2>1. wire' \in Seq(Unit) /\ Stream(wire', sent)
    BY <1>2, RecvFlow
  <2>2. sent' = sent /\ guessed' \in BOOLEAN /\ quiet' \subseteq quiet
    BY <1>0, <1>2 DEF Take, SizeRead
  <2>3. <<>> \o wire' = wire'
    BY <2>1, ConcatEmptySeq
  <2> QED
    BY <1>0, <2>1, <2>2, <2>3
<1>3. ASSUME NEW n \in 1 .. Len(wire), RecvMalformed(n)
      PROVE  FlowInv' /\ NeedInv'
  <2>1. Take(n) /\ SizeRead(n) /\ buffer' = buffer /\ need' = need /\ need = Waiting /\ buffer = <<>>
    BY <1>3, OnlyAtRest DEF RecvMalformed
  <2>2. Flow' = wire'
    BY <1>2, <2>1 DEF Flow
  <2> QED
    BY <1>0, <1>2, <2>1, <2>2 DEF FlowInv, NeedInv
<1>4. ASSUME NEW n \in 1 .. Len(wire), RecvPart(n)
      PROVE  FlowInv' /\ NeedInv'
  <2> DEFINE b == Received(n)
  <2>1. Take(n) /\ SizeRead(n) /\ buffer' = b
    BY <1>4 DEF RecvPart
  <2>2. PICK size \in SizeNow(b) : size # NoSize /\ ~(Len(b) >= size) /\ need' = size
    BY <1>4 DEF RecvPart, Complete
  <2>3. b \in Seq(Unit) /\ Len(b) = Len(buffer) + n /\ b \o wire' = Flow
    BY <2>1, RecvFlow
  <2>4. /\ size \in Nat
        /\ need # Waiting => size = need
        /\ need = Waiting /\ HeaderIn(b) # {} => size <= Len(Flow)
    BY <2>1, <2>2, SizeOf
  <2>5. guessed' = (guessed \/ (need = Waiting /\ HeaderIn(b) = {}))
    BY <2>1 DEF SizeRead
  <2> HIDE DEF b
  <2>6. Flow' = Flow
    BY <2>1, <2>3 DEF Flow
  <2>7. Len(b) \in Nat /\ b # <<>> /\ Len(b) < size /\ size # Waiting
    <3>1. Len(b) \in Nat /\ Len(b) > 0
      BY <1>0, <2>3
    <3>2. b # <<>>
      BY <2>3, <3>1, EmptySeq
    <3> QED
      BY <2>2, <2>4, <3>1, <3>2 DEF Waiting
  <2>8. ~guessed' => size <= Len(Flow)
    BY <1>0, <2>4, <2>5, Zenon DEF NeedInv
  <2>9. NeedInv'
    <3>1. Len(buffer') < need' /\ (~guessed' => need' <= Len(Flow'))
      BY <2>1, <2>2, <2>6, <2>7, <2>8
    <3> QED
      BY <3>1 DEF NeedInv
  <2>10. FlowInv'
    BY <1>0, <1>2, <2>1, <2>2, <2>3, <2>4, <2>6, <2>7 DEF FlowInv
  <2> QED
    BY <2>9, <2>10
<1>5. ASSUME NEW n \in 1 .. Len(wire), RecvLast(n)
      PROVE  FlowInv' /\ NeedInv'
  <2>1. Take(n) /\ SizeRead(n) /\ buffer' = <<>> /\ need' = Waiting
    BY <1>5 DEF RecvLast, Cleared
  <2>2. Flow' = wire'
    BY <1>2, <2>1 DEF Flow
  <2>3. <<>> \in Seq(Unit)
    OBVIOUS
  <2> QED
    BY <1>0, <1>2, <2>1, <2>2, <2>3 DEF FlowInv, NeedInv
<1>6. CASE UNCHANGED vars
  BY <1>6 DEF vars, FlowInv, NeedInv, Flow
<1> QED
  BY <1>1, <1>3, <1>4, <1>5, <1>6 DEF Next

(* At first there is nothing to keep. *)
LEMMA FlowInit == Init => FlowInv /\ NeedInv
<1> SUFFICES ASSUME Init PROVE FlowInv /\ NeedInv
  OBVIOUS
<1>1. /\ sent = <<>> /\ buffer = <<>> /\ wire = <<>> /\ need = Waiting
      /\ guessed = FALSE /\ quiet = {}
  BY DEF Init
<1>2. Flow = <<>> /\ <<>> \in Seq(Unit) /\ <<>> \in Seq(Message) /\ Len(<<>>) = 0
  BY <1>1 DEF Flow
<1>3. Stream(Flow, sent)
  BY <1>1, <1>2 DEF Stream, Framed, Rising
<1>4. Len(sent) <= MaxMsgs
  BY <1>1, FramingAssumption
<1>5. NeedInv
  BY <1>1 DEF NeedInv
<1> QED
  BY <1>1, <1>2, <1>3, <1>4, <1>5 DEF FlowInv

(* The reader keeps its place in the stream, however recv() cuts it up. *)
LEMMA FlowKept == Spec => [](FlowInv /\ NeedInv)
BY FlowInit, FlowStep, PTL DEF Spec

(* As long as every size came out of a header, the reader never waits for
   bytes that the client has not sent. *)
THEOREM ReaderNeverStarves == Spec => []NeverStarves
<1>1. FlowInv /\ NeedInv => NeverStarves
  <2> SUFFICES ASSUME FlowInv, NeedInv, wire = <<>>, need # Waiting, ~guessed PROVE FALSE
    BY DEF NeverStarves, FlowInv
  <2>1. Flow = buffer
    BY ConcatEmptySeq DEF FlowInv, Flow
  <2>2. Len(buffer) < need /\ need <= Len(buffer) /\ need \in Nat /\ Len(buffer) \in Nat
    BY <2>1, LenProperties DEF FlowInv, NeedInv
  <2> QED
    BY <2>2
<1> QED
  BY <1>1, FlowKept, PTL
-----------------------------------------------------------------------------
(* What the handler is given and what it does with it. *)

Deed == [act : Action, name : [m : Nat, whole : BOOLEAN], content : Seq(Unit)]

(* The first mark of a kind, and the first post of the kind behind it. *)
LEMMA FirstMark ==
  ASSUME NEW h \in Seq(Unit), NEW kind, Marks(h, kind) # {}
  PROVE  LET p == Least(Marks(h, kind)) IN
         /\ p \in Nat /\ p \in 1 .. Len(h) /\ p < Len(h)
         /\ h[p].part = "mark1" /\ Kind(h[p]) = kind
         /\ \A q \in Marks(h, kind) : p <= q
<1>1. Marks(h, kind) \in SUBSET Nat /\ Len(h) \in Nat
  BY LenProperties DEF Marks, Where
<1> DEFINE p == Least(Marks(h, kind))
<1>2. p \in Marks(h, kind) /\ \A q \in Marks(h, kind) : p <= q
  BY <1>1, LeastIn
<1> HIDE DEF p
<1>3. /\ p \in Nat /\ p \in 1 .. Len(h) /\ p < Len(h)
      /\ h[p].part = "mark1" /\ Kind(h[p]) = kind
  BY <1>2 DEF Marks, Where
<1> QED
  BY <1>2, <1>3 DEF p

(* Where topic_from_to finds both, the post is the first behind the mark. *)
LEMMA FirstPostIn ==
  ASSUME NEW h \in Seq(Unit), NEW kind, Enclosed(h, kind) # {}
  PROVE  LET p == Least(Marks(h, kind)) e == FirstPost(Enclosed(h, kind)) IN
         /\ Marks(h, kind) # {}
         /\ e \in Nat /\ e \in 1 .. Len(h) /\ e < Len(h) /\ p < e
         /\ h[e].part = "post1" /\ Kind(h[e]) = kind
         /\ \A x \in Posts(h, kind) : x > p => e <= x
<1>1. Marks(h, kind) # {} /\ Enclosed(h, kind) = {x \in Posts(h, kind) : x > Least(Marks(h, kind))}
  BY DEF Enclosed
<1>2. Enclosed(h, kind) \in SUBSET Nat /\ Len(h) \in Nat
  BY <1>1, LenProperties DEF Posts, Where
<1> DEFINE p == Least(Marks(h, kind))
           e == FirstPost(Enclosed(h, kind))
<1>3. e \in Enclosed(h, kind) /\ \A x \in Enclosed(h, kind) : e <= x
  BY <1>2, LeastIn DEF FirstPost
<1>4. p \in Nat
  BY <1>1, FirstMark
<1> HIDE DEF p, e
<1>5. Enclosed(h, kind) = {x \in Posts(h, kind) : x > p}
  BY <1>1 DEF p
<1>6. /\ e \in Nat /\ e \in 1 .. Len(h) /\ e < Len(h) /\ p < e
      /\ h[e].part = "post1" /\ Kind(h[e]) = kind
  <2>1. e \in Posts(h, kind) /\ e > p
    BY <1>3, <1>5
  <2> QED
    BY <1>4, <2>1 DEF Posts, Where
<1>7. \A x \in Posts(h, kind) : x > p => e <= x
  BY <1>3, <1>5
<1> QED
  BY <1>1, <1>6, <1>7 DEF p, e

(* A name is a message's number, whole or not. *)
LEMMA NameTyped ==
  ASSUME NEW h \in Seq(Unit), NEW p \in Nat, p > 0
  PROVE  NameAt(h, p) \in [m : Nat, whole : BOOLEAN]
<1>1. Len(h) \in Nat
  BY LenProperties
<1>2. ASSUME ~(p > Len(h)) PROVE h[p].m \in Nat
  <2>1. p \in 1 .. Len(h)
    BY <1>1, <1>2
  <2>2. h[p] \in Unit
    BY <2>1, ElementOfSeq
  <2> QED
    BY <2>2, FramingAssumption DEF Unit
<1>3. (p < Len(h)) \in BOOLEAN
  OBVIOUS
<1> QED
  BY <1>2, <1>3 DEF NameAt, NoName

(* Whatever read_income is given, it does one of three things. *)
LEMMA DeedTyped ==
  ASSUME NEW h \in Seq(Unit)
  PROVE  ReadIncome(h) \in Deed
<1>1. NoAction \in Deed
  BY DEF NoAction, NoName, Deed, Action
<1>2. ASSUME Enclosed(h, "SUB") # {} PROVE [NoAction EXCEPT !.act = "subscribe", !.name = TopicName(h)] \in Deed
  <2> DEFINE s == Least(Marks(h, "SUB"))
             later == {p \in Marks(h, "PUB") : p > s}
  <2>1. s \in Nat
    BY <1>2, FirstPostIn, FirstMark
  <2>2. later \in SUBSET Nat
    BY LenProperties DEF Marks, Where
  <2> HIDE DEF s, later
  <2>3. ASSUME later # {} PROVE Least(later) \in Nat
    BY <2>2, <2>3, LeastIn
  <2> DEFINE p == 2 + IF later = {} THEN s ELSE Least(later)
  <2>4. p \in Nat /\ p > 0
    BY <2>1, <2>3
  <2> HIDE DEF p
  <2>5. TopicName(h) = NameAt(h, p)
    BY DEF TopicName, s, later, p
  <2>6. TopicName(h) \in [m : Nat, whole : BOOLEAN]
    BY <2>4, <2>5, NameTyped
  <2> DEFINE nm == TopicName(h)
  <2> HIDE DEF nm
  <2>7. nm \in [m : Nat, whole : BOOLEAN] => [NoAction EXCEPT !.act = "subscribe", !.name = nm] \in Deed
    BY <1>1 DEF Deed, Action, NoAction
  <2> QED
    BY <2>6, <2>7 DEF nm
<1>3. ASSUME Enclosed(h, "PUB") # {} PROVE [NoAction EXCEPT !.act = "publish", !.content = Publication(h)] \in Deed
  <2> DEFINE p == Least(Marks(h, "PUB"))
             e == FirstPost(Enclosed(h, "PUB"))
  <2>1. p \in Nat /\ e \in Nat /\ e < Len(h) /\ Len(h) \in Nat
    BY <1>3, FirstPostIn, FirstMark, LenProperties
  <2>2. Publication(h) = SubSeq(h, p + 2, e - 1)
    BY DEF Publication
  <2> HIDE DEF p, e
  <2>3. p + 2 \in Int /\ e - 1 \in Int /\ \A i \in p + 2 .. e - 1 : i \in 1 .. Len(h)
    BY <2>1
  <2>4. \A i \in p + 2 .. e - 1 : h[i] \in Unit
    BY <2>3, ElementOfSeq
  <2> DEFINE m == p + 2
             n == e - 1
  <2>5. m \in Int /\ n \in Int /\ \A i \in m .. n : h[i] \in Unit
    BY <2>3, <2>4
  <2> HIDE DEF m, n
  <2>6. SubSeq(h, m, n) \in Seq(Unit)
    BY <2>5, SubSeqProperties
  <2> DEFINE c == Publication(h)
  <2>7. c \in Seq(Unit)
    BY <2>2, <2>6 DEF m, n
  <2> HIDE DEF c
  <2>8. c \in Seq(Unit) => [NoAction EXCEPT !.act = "publish", !.content = c] \in Deed
    BY <1>1 DEF Deed, Action, NoAction
  <2> QED
    BY <2>7, <2>8 DEF c
<1> QED
  BY <1>1, <1>2, <1>3 DEF ReadIncome

(* The handler is given the end of what has been received, and so a stretch of
   the stream. *)
LEMMA HandedPart ==
  ASSUME FlowInv, NEW n \in 1 .. Len(wire), Take(n), NEW h \in Handed(Received(n))
  PROVE  /\ h \in Seq(Unit)
         /\ \E j \in Nat : /\ j + Len(h) = Len(Received(n))
                           /\ \A p \in 1 .. Len(h) : /\ j + p \in 1 .. Len(Received(n))
                                                     /\ j + p \in 1 .. Len(Flow) /\ Flow[j + p] = h[p]
<1> DEFINE b == Received(n)
<1>1. /\ b \in Seq(Unit) /\ Len(b) \in Nat
      /\ \A p \in 1 .. Len(b) : p \in 1 .. Len(Flow) /\ Flow[p] = b[p]
  BY RecvFlow, LenProperties
<1>2. PICK k \in 2 .. 5 : h = SubSeq(b, k, Len(b))
  BY DEF Handed
<1> HIDE DEF b
<1>3. CASE k - 1 <= Len(b)
  <2> DEFINE j == k - 1
  <2>1. j \in 0 .. Len(b) /\ k = j + 1
    BY <1>1, <1>3
  <2> HIDE DEF j
  <2>2. h = SubSeq(b, j + 1, Len(b))
    BY <1>2, <2>1
  <2>3. h \in Seq(Unit) /\ Len(h) = Len(b) - j /\ \A p \in 1 .. Len(b) - j : h[p] = b[j + p]
    BY <1>1, <2>1, <2>2, Dropped
  <2>4. ASSUME NEW p \in 1 .. Len(h) PROVE j + p \in 1 .. Len(b) /\ Flow[j + p] = h[p]
    <3>1. j + p \in 1 .. Len(b)
      BY <1>1, <2>1, <2>3
    <3>2. h[p] = b[j + p]
      BY <2>3
    <3> QED
      BY <1>1, <3>1, <3>2
  <2>5. j \in Nat /\ j + Len(h) = Len(b)
    BY <1>1, <2>1, <2>3
  <2> QED
    BY <1>1, <2>3, <2>4, <2>5 DEF b
<1>4. CASE ~(k - 1 <= Len(b))
  <2>1. k \in Int /\ Len(b) \in Int /\ ~(k <= Len(b)) /\ k .. Len(b) = {}
    BY <1>1, <1>4
  <2>2. h \in Seq(Unit) /\ Len(h) = 0
    BY <1>1, <1>2, <2>1, SubSeqProperties
  <2>3. Len(b) + Len(h) = Len(b) /\ 1 .. Len(h) = {}
    BY <1>1, <2>2
  <2> QED
    BY <1>1, <2>2, <2>3 DEF b
<1> QED
  BY <1>3, <1>4
-----------------------------------------------------------------------------
(* What is_publish cuts out. *)

(* The body of a frame. *)
LEMMA BodyOf ==
  ASSUME NEW i \in 1 .. Len(sent), sent \in Seq(Message), Len(sent) <= MaxMsgs
  PROVE  LET f == Frame(i, sent[i]) n == Announces(sent[i]) IN
         /\ f \in Seq(Unit) /\ n \in Nat /\ n >= 8
         /\ Body(i) \in Seq(Unit) /\ Len(Body(i)) = n - 6
         /\ \A x \in 1 .. n - 6 : Body(i)[x] = f[x + 4]
         /\ \A u \in 1 .. n : f[u].m = i
<1> DEFINE f == Frame(i, sent[i])
           n == Announces(sent[i])
<1>1. sent[i] \in Message /\ i \in 1 .. MaxMsgs
  BY LenProperties, ElementOfSeq, FramingAssumption
<1>2. f \in Seq(Unit) /\ n \in Nat /\ n >= 8 /\ Len(f) = n
  BY <1>1, FrameUnits, FrameLaid
<1>3. ASSUME NEW u \in 1 .. n PROVE f[u].m = i
  <2>1. f[u] = [m |-> i, part |-> f[u].part]
    BY <1>1, FrameLaid
  <2> DEFINE x == f[u]
             y == x.part
  <2>2. x = [m |-> i, part |-> y]
    BY <2>1
  <2> HIDE DEF x, y
  <2>3. x.m = i
    BY <2>2
  <2> QED
    BY <2>3 DEF x
<1>4. Body(i) = SubSeq(f, 5, Len(f) - 2)
  BY DEF Body
<1> HIDE DEF f, n
<1> DEFINE e == Len(f) - 2
<1>5. 5 \in Int /\ e \in Int /\ e = n - 2 /\ \A x \in 5 .. e : x \in 1 .. Len(f)
  BY <1>2
<1>6. \A x \in 5 .. e : f[x] \in Unit
  BY <1>2, <1>5, ElementOfSeq
<1> HIDE DEF e
<1>7. /\ SubSeq(f, 5, e) \in Seq(Unit)
      /\ Len(SubSeq(f, 5, e)) = IF 5 <= e THEN e - 5 + 1 ELSE 0
      /\ \A x \in 1 .. e - 5 + 1 : SubSeq(f, 5, e)[x] = f[5 + x - 1]
  BY <1>5, <1>6, SubSeqProperties
<1>8. (IF 5 <= e THEN e - 5 + 1 ELSE 0) = n - 6 /\ e - 5 + 1 = n - 6 /\ \A x \in 1 .. n - 6 : 5 + x - 1 = x + 4
  BY <1>2, <1>5
<1>9. Body(i) \in Seq(Unit) /\ Len(Body(i)) = n - 6 /\ \A x \in 1 .. n - 6 : Body(i)[x] = f[x + 4]
  BY <1>4, <1>7, <1>8 DEF e
<1> QED
  BY <1>2, <1>3, <1>9 DEF f, n

(* A publication found in the piece is a whole one of the client's. *)
LEMMA ReadsPublication ==
  ASSUME FlowInv, NEW h \in Seq(Unit), NEW j \in Nat,
         \A p \in 1 .. Len(h) : j + p \in 1 .. Len(Flow) /\ Flow[j + p] = h[p],
         Enclosed(h, "PUB") # {}
  PROVE  \E p \in 1 .. Len(h) :
           /\ h[p].part = "mark1" /\ h[p].m \in 1 .. Len(sent) /\ sent[h[p].m].kind = "PUB"
           /\ Publication(h) = Body(h[p].m) /\ Publication(h)[1].m = h[p].m
<1> DEFINE p == Least(Marks(h, "PUB"))
           e == FirstPost(Enclosed(h, "PUB"))
           q == j + p
           i == Flow[q].m
           n == Announces(sent[i])
           f == Frame(i, sent[i])
<1>1. /\ sent \in Seq(Message) /\ Len(sent) <= MaxMsgs /\ Stream(Flow, sent)
      /\ Len(h) \in Nat /\ Len(Flow) \in Nat
  BY LenProperties DEF FlowInv, Stream
<1>2. /\ Marks(h, "PUB") # {}
      /\ e \in Nat /\ e \in 1 .. Len(h) /\ e < Len(h) /\ p < e
      /\ h[e].part = "post1" /\ Kind(h[e]) = "PUB"
      /\ \A x \in Posts(h, "PUB") : x > p => e <= x
  BY FirstPostIn
<1>3. p \in Nat /\ p \in 1 .. Len(h) /\ p < Len(h) /\ h[p].part = "mark1" /\ Kind(h[p]) = "PUB"
  BY <1>2, FirstMark
<1>4. Publication(h) = SubSeq(h, p + 2, e - 1)
  BY DEF Publication
<1> HIDE DEF p, e
<1>5. q \in 1 .. Len(Flow) /\ Flow[q] = h[p]
  BY <1>3
<1> HIDE DEF q
<1>6. i = h[p].m /\ sent[i].kind = "PUB" /\ Flow[q].part = "mark1"
  BY <1>3, <1>5 DEF Kind
<1>7. /\ i \in 1 .. Len(sent) /\ sent[i] \in Message /\ n \in Nat /\ n >= 8 /\ Len(f) = n
      /\ Flow[q].part = "mark1" => q + n - 3 <= Len(Flow) /\ \A u \in 3 .. n : Flow[q + u - 3] = f[u]
  <2>0. q \in 1 .. Len(Flow) /\ sent \in Seq(Message) /\ Stream(Flow, sent)
    BY <1>1, <1>5
  <2>1. i \in 1 .. Len(sent)
    BY ONLY <2>0, InFrame, Zenon
  <2>2. sent[i] \in Message
    BY ONLY <2>0, InFrame, Zenon
  <2>3. n \in Nat /\ n >= 8 /\ Len(f) = n
    BY <2>2, FrameLaid
  <2>4. Flow[q].part = "mark1" => q + n - 3 <= Len(Flow)
    BY ONLY <2>0, InFrame, Zenon
  <2>5. ASSUME Flow[q].part = "mark1", NEW u \in 3 .. n PROVE Flow[q + u - 3] = f[u]
    <3>1. u \in 3 .. Announces(sent[Flow[q].m]) /\ Flow[q].part = "mark1"
      BY <2>5
    <3>2. Flow[q + u - 3] = Frame(Flow[q].m, sent[Flow[q].m])[u]
      BY ONLY <2>0, <3>1, MarkInFrame, SMTT(40)
    <3> QED
      BY ONLY <3>2
  <2> QED
    BY <2>1, <2>2, <2>3, <2>4, <2>5
<1>8. \A u \in 1 .. n : f[u].part = "post1" <=> u = n - 1
  BY <1>7, FrameLaid
<1>9. /\ f \in Seq(Unit) /\ Body(i) \in Seq(Unit) /\ Len(Body(i)) = n - 6
      /\ \A x \in 1 .. n - 6 : Body(i)[x] = f[x + 4]
      /\ \A u \in 1 .. n : f[u].m = i
  BY <1>1, <1>7, BodyOf
<1> HIDE DEF i, n, f
<1>10. \A u \in 3 .. n : p + u - 3 <= Len(h) => p + u - 3 \in 1 .. Len(h) /\ h[p + u - 3] = f[u]
  <2> SUFFICES ASSUME NEW u \in 3 .. n, p + u - 3 <= Len(h)
               PROVE  p + u - 3 \in 1 .. Len(h) /\ h[p + u - 3] = f[u]
    OBVIOUS
  <2>1. p + u - 3 \in 1 .. Len(h) /\ q + u - 3 = j + (p + u - 3)
    BY <1>1, <1>3, <1>7 DEF q
  <2>2. Flow[q + u - 3] = f[u]
    BY <1>6, <1>7
  <2> QED
    BY <2>1, <2>2
<1>11. ~(e < p + n - 4)
  <2> SUFFICES ASSUME e < p + n - 4 PROVE FALSE
    OBVIOUS
  <2> DEFINE u == e - p + 3
  <2>1. u \in 3 .. n /\ u \in 1 .. n /\ u # n - 1 /\ p + u - 3 = e /\ e <= Len(h)
    BY <1>1, <1>2, <1>3, <1>7
  <2> HIDE DEF u
  <2>2. h[e] = f[u]
    BY <1>10, <2>1
  <2> QED
    BY <1>2, <1>8, <2>1, <2>2
<1>12. e = p + n - 4
  <2> DEFINE x == p + n - 4
             u == n - 1
  <2>1. x <= e /\ x \in 1 .. Len(h) /\ x < Len(h) /\ x > p /\ x \in Nat
    BY <1>1, <1>2, <1>3, <1>7, <1>11
  <2>2. u \in 3 .. n /\ u \in 1 .. n /\ p + u - 3 = x /\ x <= Len(h)
    BY <1>3, <1>7, <2>1
  <2> HIDE DEF x, u
  <2>3. h[x] = f[u]
    BY <1>10, <2>2
  <2>4. h[x].part = "post1" /\ h[x].m = i
    BY <1>8, <1>9, <2>2, <2>3 DEF u
  <2>5. x \in Posts(h, "PUB")
    BY <1>6, <2>1, <2>4 DEF Posts, Where, Kind
  <2>6. e <= x
    BY <1>2, <2>1, <2>5
  <2>7. e = x
    BY <1>2, <2>1, <2>6
  <2> QED
    BY <2>7 DEF x
<1>13. Publication(h) = Body(i)
  <2> DEFINE a == p + 2
             z == e - 1
             c == SubSeq(h, a, z)
  <2>1. a \in Int /\ z \in Int /\ \A x \in a .. z : x \in 1 .. Len(h)
    BY <1>1, <1>2, <1>3
  <2>2. (IF a <= z THEN z - a + 1 ELSE 0) = n - 6 /\ z - a + 1 = n - 6
    BY <1>3, <1>7, <1>12
  <2>3. \A x \in 1 .. n - 6 : x + 4 \in 3 .. n /\ p + (x + 4) - 3 = a + x - 1 /\ a + x - 1 <= Len(h)
    BY <1>1, <1>2, <1>3, <1>7, <1>12
  <2> HIDE DEF a, z
  <2>4. \A x \in a .. z : h[x] \in Unit
    BY <2>1, ElementOfSeq
  <2>5. /\ c \in Seq(Unit) /\ Len(c) = (IF a <= z THEN z - a + 1 ELSE 0)
        /\ \A x \in 1 .. z - a + 1 : c[x] = h[a + x - 1]
    BY <2>1, <2>4, SubSeqProperties
  <2> HIDE DEF c
  <2>6. c \in Seq(Unit) /\ Len(c) = n - 6 /\ \A x \in 1 .. n - 6 : c[x] = h[a + x - 1]
    BY <2>2, <2>5
  <2>7. ASSUME NEW x \in 1 .. n - 6 PROVE c[x] = Body(i)[x]
    <3> DEFINE u == x + 4
    <3>1. u \in 3 .. n /\ p + u - 3 = a + x - 1 /\ p + u - 3 <= Len(h)
      BY <2>3
    <3> HIDE DEF u
    <3>2. h[a + x - 1] = f[u]
      BY <1>10, <3>1
    <3> QED
      BY <1>9, <2>6, <3>2 DEF u
  <2>8. c = Body(i)
    BY <1>9, <2>6, <2>7, SeqEqual
  <2> QED
    BY <1>4, <2>8 DEF a, z, c
<1>14. Publication(h)[1].m = i
  <2>1. 1 \in 1 .. n - 6 /\ 1 + 4 \in 1 .. n
    BY <1>7
  <2> QED
    BY <1>9, <1>13, <2>1
<1> QED
  BY <1>3, <1>6, <1>7, <1>13, <1>14
-----------------------------------------------------------------------------
(* What is on the list is the client's, and what is not yet read comes behind
   it. *)

Entered(e) ==
  /\ Source(e) \in 1 .. Len(sent)
  /\ done[e].content = Body(Source(e)) /\ sent[Source(e)].kind = "PUB"
  /\ \A p \in 1 .. Len(Flow) : Flow[p].part = "mark1" => Source(e) < Flow[p].m
PubInv ==
  /\ done \in Seq(Deed)
  /\ \A e \in 1 .. Len(done) : Published(e) => Entered(e)
  /\ \A d, e \in 1 .. Len(done) : d < e /\ Published(d) /\ Published(e) => Source(d) < Source(e)

(* A deed stays what it was, and so does all that was sent. *)
LEMMA StaysEntered ==
  ASSUME FlowInv, done \in Seq(Deed), NEW e \in 1 .. Len(done), Len(sent) \in Nat, Len(sent') \in Nat,
         done'[e] = done[e], Len(sent) <= Len(sent'), \A i \in 1 .. Len(sent) : sent'[i] = sent[i]
  PROVE  /\ Published(e)' <=> Published(e)
         /\ Source(e)' = Source(e)
         /\ Published(e) /\ Entered(e) =>
              /\ Source(e) \in 1 .. Len(sent')
              /\ done'[e].content = Body(Source(e))' /\ sent'[Source(e)].kind = "PUB"
<1>1. (Published(e)' <=> Published(e)) /\ Source(e)' = Source(e)
  BY DEF Published, Source
<1>2. ASSUME Published(e), Entered(e)
      PROVE  /\ Source(e) \in 1 .. Len(sent')
             /\ done'[e].content = Body(Source(e))' /\ sent'[Source(e)].kind = "PUB"
  <2>1. Source(e) \in 1 .. Len(sent) /\ done[e].content = Body(Source(e)) /\ sent[Source(e)].kind = "PUB"
    BY <1>2 DEF Entered
  <2>2. sent'[Source(e)] = sent[Source(e)]
    BY <2>1
  <2>3. Body(Source(e))' = Body(Source(e))
    BY <1>1, <2>2 DEF Body
  <2> QED
    BY <2>1, <2>2, <2>3
<1> QED
  BY <1>1, <1>2

(* A step that adds no deed keeps the invariant when the marks to come are no
   earlier. *)
LEMMA PubKept ==
  ASSUME FlowInv, FlowInv', PubInv, done' = done,
         Len(sent) <= Len(sent'), \A i \in 1 .. Len(sent) : sent'[i] = sent[i],
         \A p \in 1 .. Len(Flow') :
           \/ Flow'[p].part # "mark1"
           \/ Flow'[p].m \in Nat /\ \A i \in 1 .. Len(sent) : i < Flow'[p].m
           \/ \E q \in 1 .. Len(Flow) : Flow'[p] = Flow[q]
  PROVE  PubInv'
<1>1. done \in Seq(Deed) /\ Len(sent) \in Nat /\ Len(sent') \in Nat
  BY LenProperties DEF PubInv, FlowInv
<1>2. ASSUME NEW e \in 1 .. Len(done)
      PROVE  /\ Published(e)' <=> Published(e)
             /\ Source(e)' = Source(e)
             /\ Published(e) /\ Entered(e) =>
                  /\ Source(e) \in 1 .. Len(sent')
                  /\ done'[e].content = Body(Source(e))' /\ sent'[Source(e)].kind = "PUB"
  BY <1>1, StaysEntered
<1>3. ASSUME NEW e \in 1 .. Len(done), Published(e) PROVE Entered(e)'
  <2>1. Entered(e)
    BY <1>3 DEF PubInv
  <2>2. ASSUME NEW p \in 1 .. Len(Flow'), Flow'[p].part = "mark1" PROVE Source(e) < Flow'[p].m
    BY <2>1, <2>2 DEF Entered
  <2>3. /\ Source(e) \in 1 .. Len(sent') /\ Source(e)' = Source(e)
        /\ done'[e].content = Body(Source(e))' /\ sent'[Source(e)].kind = "PUB"
    BY <1>2, <1>3, <2>1
  <2> DEFINE i == Source(e)
  <2> HIDE DEF i
  <2>4. Source(e)' = i /\ i \in 1 .. Len(sent') /\ sent'[i].kind = "PUB" /\ done'[e].content = Body(Source(e))'
    BY <2>3 DEF i
  <2>5. \A p \in 1 .. Len(Flow') : Flow'[p].part = "mark1" => i < Flow'[p].m
    BY <2>2 DEF i
  <2> QED
    BY <2>4, <2>5 DEF Entered
<1>4. ASSUME NEW e \in 1 .. Len(done), Published(e)' PROVE Entered(e)'
  BY <1>2, <1>3, <1>4
<1>5. ASSUME NEW d \in 1 .. Len(done), NEW e \in 1 .. Len(done), d < e, Published(d)', Published(e)'
      PROVE  Source(d)' < Source(e)'
  <2>1. Published(d) /\ Published(e) /\ Source(d)' = Source(d) /\ Source(e)' = Source(e)
    BY <1>2, <1>5
  <2>2. Source(d) < Source(e)
    BY <1>5, <2>1 DEF PubInv
  <2> QED
    BY <2>1, <2>2
<1> QED
  BY <1>1, <1>4, <1>5 DEF PubInv
(* What is published is cut out of the piece just read, and everything on the
   wire comes behind it. *)
LEMMA PublishesOne ==
  ASSUME FlowInv, FlowInv', done \in Seq(Deed), NEW n \in 1 .. Len(wire), Take(n),
         NEW h \in Handed(Received(n)), ReadIncome(h).act = "publish", Flow' = wire'
  PROVE  \E q \in 1 .. Len(Flow) :
           /\ Flow[q].part = "mark1" /\ Flow[q].m \in 1 .. Len(sent)
           /\ sent[Flow[q].m].kind = "PUB"
           /\ ReadIncome(h).content = Body(Flow[q].m) /\ ReadIncome(h).content[1].m = Flow[q].m
           /\ \A p \in 1 .. Len(Flow') : Flow'[p].part = "mark1" => Flow[q].m < Flow'[p].m
<1> DEFINE b == Received(n)
<1>1. /\ b \in Seq(Unit) /\ Len(b) \in Nat /\ Len(Flow) = Len(b) + Len(wire') /\ Len(wire') \in Nat
      /\ wire' = SubSeq(Flow, Len(b) + 1, Len(Flow)) /\ Flow \in Seq(Unit) /\ Len(Flow) \in Nat
      /\ Rising(Flow)
  BY RecvFlow, LenProperties DEF FlowInv, Stream
<1>2. /\ h \in Seq(Unit)
      /\ \E j \in Nat : /\ j + Len(h) = Len(b)
                        /\ \A p \in 1 .. Len(h) : /\ j + p \in 1 .. Len(b)
                                                  /\ j + p \in 1 .. Len(Flow) /\ Flow[j + p] = h[p]
  BY HandedPart
<1> HIDE DEF b
<1>3. PICK j \in Nat : \A p \in 1 .. Len(h) : /\ j + p \in 1 .. Len(b)
                                              /\ j + p \in 1 .. Len(Flow) /\ Flow[j + p] = h[p]
  BY <1>2
<1>4. Enclosed(h, "PUB") # {} /\ ReadIncome(h).content = Publication(h)
  <2>1. "subscribe" # "publish" /\ "no action" # "publish"
    OBVIOUS
  <2> DEFINE c == Publication(h)
             t == TopicName(h)
  <2> HIDE DEF c, t
  <2>2. /\ [NoAction EXCEPT !.act = "subscribe", !.name = t].act = "subscribe"
        /\ [NoAction EXCEPT !.act = "publish", !.content = c].content = c
        /\ NoAction.act = "no action"
    BY DEF NoAction
  <2>3. ReadIncome(h) = IF Enclosed(h, "SUB") # {} THEN [NoAction EXCEPT !.act = "subscribe", !.name = t]
                        ELSE IF Enclosed(h, "PUB") # {} THEN [NoAction EXCEPT !.act = "publish", !.content = c]
                        ELSE NoAction
    BY DEF ReadIncome, c, t
  <2>4. ReadIncome(h).content = c /\ Enclosed(h, "PUB") # {}
    BY <2>2, <2>3
  <2> QED
    BY <2>4 DEF c
<1>5. PICK p \in 1 .. Len(h) :
        /\ h[p].part = "mark1" /\ h[p].m \in 1 .. Len(sent) /\ sent[h[p].m].kind = "PUB"
        /\ Publication(h) = Body(h[p].m) /\ Publication(h)[1].m = h[p].m
  BY <1>2, <1>3, <1>4, ReadsPublication
<1> DEFINE q == j + p
<1>6. q \in 1 .. Len(b) /\ q \in 1 .. Len(Flow) /\ Flow[q] = h[p]
  BY <1>3
<1> HIDE DEF q
<1>7. ASSUME NEW x \in 1 .. Len(Flow'), Flow'[x].part = "mark1" PROVE Flow[q].m < Flow'[x].m
  <2>1. Len(b) \in 0 .. Len(Flow) /\ Len(Flow') = Len(Flow) - Len(b)
    BY <1>1
  <2>2. \A y \in 1 .. Len(Flow) - Len(b) : wire'[y] = Flow[Len(b) + y]
    BY <1>1, <2>1, Dropped
  <2>3. Flow'[x] = Flow[Len(b) + x]
    BY <2>1, <2>2
  <2>4. Len(b) + x \in 1 .. Len(Flow) /\ q < Len(b) + x
    BY <1>1, <1>6, <2>1
  <2> DEFINE y == Len(b) + x
  <2> HIDE DEF y
  <2>5. y \in 1 .. Len(Flow) /\ q < y /\ Flow'[x] = Flow[y]
    BY <2>3, <2>4 DEF y
  <2>6. Flow[q].part = "mark1" /\ Flow[y].part = "mark1"
    BY <1>5, <1>6, <1>7, <2>5
  <2>7. Flow[q].m < Flow[y].m
    BY <1>1, <1>6, <2>5, <2>6 DEF Rising
  <2> QED
    BY <2>5, <2>7
<1>8. /\ Flow[q].part = "mark1" /\ Flow[q].m \in 1 .. Len(sent)
      /\ sent[Flow[q].m].kind = "PUB"
      /\ ReadIncome(h).content = Body(Flow[q].m) /\ ReadIncome(h).content[1].m = Flow[q].m
  BY <1>4, <1>5, <1>6
<1> QED
  BY <1>6, <1>7, <1>8

(* Every step keeps what is on the list, and its order. *)
LEMMA PubStep == FlowInv /\ NeedInv /\ PubInv /\ [Next]_vars => PubInv'
<1> SUFFICES ASSUME FlowInv, NeedInv, PubInv, [Next]_vars
             PROVE  PubInv'
  OBVIOUS
<1>0. /\ FlowInv' /\ Len(sent) \in Nat /\ sent \in Seq(Message) /\ done \in Seq(Deed) /\ Len(done) \in Nat
      /\ buffer \in Seq(Unit) /\ wire \in Seq(Unit) /\ Flow \in Seq(Unit) /\ Len(Flow) \in Nat
      /\ Flow' \in Seq(Unit)
  BY FlowStep, LenProperties DEF FlowInv, PubInv, Stream
<1>1. ASSUME NEW msg \in Message, SendMessage(msg) PROVE PubInv'
  <2> DEFINE i == Len(sent) + 1
             f == Frame(i, msg)
  <2>1. /\ Len(sent) < MaxMsgs /\ sent' = Append(sent, msg) /\ wire' = wire \o f
        /\ buffer' = buffer /\ done' = done
    BY <1>1 DEF SendMessage
  <2>2. i \in 1 .. MaxMsgs /\ f \in Seq(Unit)
    <3>1. i \in 1 .. MaxMsgs
      BY <1>0, <2>1, FramingAssumption
    <3> QED
      BY <3>1, FrameUnits
  <2>3. \A u \in 1 .. Len(f) : f[u].m = i
    <3> SUFFICES ASSUME NEW u \in 1 .. Len(f) PROVE f[u].m = i
      OBVIOUS
    <3>1. f[u] = [m |-> i, part |-> f[u].part]
      BY FrameLaid
    <3> DEFINE x == f[u]
               y == x.part
    <3>2. x = [m |-> i, part |-> y]
      BY <3>1
    <3> HIDE DEF x, y
    <3>3. x.m = i
      BY <3>2
    <3> QED
      BY <3>3 DEF x
  <2> HIDE DEF f
  <2>4. Flow' = Flow \o f
    <3>1. (buffer \o wire) \o f = buffer \o (wire \o f)
      <4>1. buffer \in Seq(Unit) /\ wire \in Seq(Unit) /\ f \in Seq(Unit)
        BY <1>0, <2>2
      <4> QED
        BY ONLY <4>1, ConcatAssociative
    <3> QED
      BY <2>1, <3>1 DEF Flow
  <2>5. ASSUME NEW p \in 1 .. Len(Flow')
        PROVE  \/ Flow'[p].part # "mark1"
               \/ Flow'[p].m \in Nat /\ \A x \in 1 .. Len(sent) : x < Flow'[p].m
               \/ \E q \in 1 .. Len(Flow) : Flow'[p] = Flow[q]
    <3>1. /\ Len(f) \in Nat /\ Len(Flow') = Len(Flow) + Len(f)
          /\ \A q \in 1 .. Len(Flow) : Flow'[q] = Flow[q]
          /\ \A q \in 1 .. Len(f) : Flow'[Len(Flow) + q] = f[q]
      BY <1>0, <2>2, <2>4, ConcatParts
    <3>2. CASE p <= Len(Flow)
      <4>1. p \in 1 .. Len(Flow)
        BY <1>0, <3>2
      <4> QED
        BY <3>1, <4>1
    <3>3. CASE ~(p <= Len(Flow))
      <4> DEFINE q == p - Len(Flow)
      <4>1. q \in 1 .. Len(f) /\ p = Len(Flow) + q
        BY <1>0, <3>1, <3>3
      <4> HIDE DEF q
      <4>2. Flow'[p] = f[q]
        BY <3>1, <4>1
      <4>3. Flow'[p].m = i
        BY <2>3, <4>1, <4>2
      <4>4. i \in Nat /\ \A x \in 1 .. Len(sent) : x < i
        BY <1>0
      <4> QED
        BY <4>3, <4>4
    <3> QED
      BY <3>2, <3>3
  <2>6. Len(sent) <= Len(sent') /\ \A x \in 1 .. Len(sent) : sent'[x] = sent[x]
    <3>1. Len(sent') = Len(sent) + 1 /\ \A x \in 1 .. Len(sent) : sent'[x] = sent[x]
      BY <1>0, <2>1, AppendProperties
    <3> QED
      BY <1>0, <3>1
  <2> HIDE DEF i
  <2> QED
    BY <1>0, <2>1, <2>5, <2>6, PubKept
<1>2. ASSUME NEW n \in 1 .. Len(wire), RecvMalformed(n) PROVE PubInv'
  <2>1. Take(n) /\ buffer' = buffer /\ done' = done /\ buffer = <<>> /\ sent' = sent
    BY <1>2, OnlyAtRest DEF RecvMalformed, Take
  <2>2. Flow' = wire'
    BY <1>0, <2>1, ConcatEmptySeq DEF Flow, FlowInv
  <2>3. /\ wire' = SubSeq(Flow, Len(Received(n)) + 1, Len(Flow)) /\ Len(wire') \in Nat
        /\ Len(Flow) = Len(Received(n)) + Len(wire') /\ Len(Received(n)) \in Nat
    BY <2>1, RecvFlow, LenProperties
  <2> DEFINE k == Len(Received(n))
  <2> HIDE DEF k
  <2>4. /\ wire' = SubSeq(Flow, k + 1, Len(Flow)) /\ Len(wire') \in Nat
        /\ Len(Flow) = k + Len(wire') /\ k \in Nat
    BY <2>3 DEF k
  <2>5. k \in 0 .. Len(Flow) /\ Len(wire') = Len(Flow) - k /\ \A p \in 1 .. Len(wire') : k + p \in 1 .. Len(Flow)
    BY <1>0, <2>4
  <2>6. \A p \in 1 .. Len(wire') : wire'[p] = Flow[k + p]
    BY <1>0, <2>4, <2>5, Dropped
  <2>7. \A p \in 1 .. Len(Flow') : \E q \in 1 .. Len(Flow) : Flow'[p] = Flow[q]
    BY <2>2, <2>5, <2>6
  <2>8. Len(sent) <= Len(sent') /\ \A x \in 1 .. Len(sent) : sent'[x] = sent[x]
    BY <1>0, <2>1
  <2> QED
    BY <1>0, <2>1, <2>7, <2>8, PubKept
<1>3. ASSUME NEW n \in 1 .. Len(wire), RecvPart(n) PROVE PubInv'
  <2>1. Take(n) /\ buffer' = Received(n) /\ done' = done /\ sent' = sent
    BY <1>3 DEF RecvPart, Take
  <2>2. Flow' = Flow
    BY <2>1, RecvFlow DEF Flow
  <2>8. Len(sent) <= Len(sent') /\ \A x \in 1 .. Len(sent) : sent'[x] = sent[x]
    BY <1>0, <2>1
  <2> QED
    BY <1>0, <2>1, <2>2, <2>8, PubKept
<1>4. ASSUME NEW n \in 1 .. Len(wire), RecvLast(n) PROVE PubInv'
  <2>1. Take(n) /\ buffer' = <<>> /\ sent' = sent
    BY <1>4 DEF RecvLast, Cleared, Take
  <2>2. PICK h \in Handed(Received(n)) : done' = Append(done, ReadIncome(h))
    BY <1>4 DEF RecvLast
  <2>3. Flow' = wire'
    BY <1>0, <2>1, ConcatEmptySeq DEF Flow, FlowInv
  <2> DEFINE a == ReadIncome(h)
  <2>3a. PICK l \in Nat : l = Len(done) + 1
    BY <1>0
  <2>4. a \in Deed
    <3>1. h \in Seq(Unit)
      BY <2>1, HandedPart
    <3> QED
      BY <3>1, DeedTyped
  <2>5. /\ done' \in Seq(Deed) /\ Len(done') = l /\ done'[l] = a
        /\ \A e \in 1 .. Len(done) : done'[e] = done[e]
    <3> HIDE DEF a
    <3> QED
      BY <1>0, <2>2, <2>4, <2>3a, AppendProperties DEF a
  <2>6. /\ Len(Flow) \in Nat /\ Len(Received(n)) \in Nat /\ Len(wire') \in Nat
        /\ wire' = SubSeq(Flow, Len(Received(n)) + 1, Len(Flow))
        /\ Len(Flow) = Len(Received(n)) + Len(wire')
    BY <1>0, <2>1, RecvFlow, LenProperties
  <2>7. \A p \in 1 .. Len(Flow') : \E q \in 1 .. Len(Flow) : Flow'[p] = Flow[q]
    <3> DEFINE k == Len(Received(n))
    <3> HIDE DEF k
    <3>1. k \in 0 .. Len(Flow) /\ Len(wire') = Len(Flow) - k /\ \A p \in 1 .. Len(wire') : k + p \in 1 .. Len(Flow)
      BY <2>6 DEF k
    <3>2. \A p \in 1 .. Len(wire') : wire'[p] = Flow[k + p]
      <4>1. wire' = SubSeq(Flow, k + 1, Len(Flow))
        BY <2>6 DEF k
      <4> QED
        BY <1>0, <3>1, <4>1, Dropped
    <3> QED
      BY <2>3, <3>1, <3>2
  <2>8. Len(sent) <= Len(sent') /\ \A x \in 1 .. Len(sent) : sent'[x] = sent[x]
    BY <1>0, <2>1
  <2>9. ASSUME a.act = "publish"
        PROVE  \E q \in 1 .. Len(Flow) :
                 /\ Flow[q].part = "mark1" /\ Flow[q].m \in 1 .. Len(sent)
                 /\ sent[Flow[q].m].kind = "PUB"
                 /\ a.content = Body(Flow[q].m) /\ a.content[1].m = Flow[q].m
                 /\ \A p \in 1 .. Len(Flow') : Flow'[p].part = "mark1" => Flow[q].m < Flow'[p].m
    BY <1>0, <2>1, <2>2, <2>3, <2>9, PublishesOne
  <2> HIDE DEF a
  <2>10. ASSUME NEW e \in 1 .. Len(done)
         PROVE  /\ Published(e)' <=> Published(e)
                /\ Source(e)' = Source(e)
                /\ Published(e) /\ Entered(e) =>
                     /\ Source(e) \in 1 .. Len(sent')
                     /\ done'[e].content = Body(Source(e))' /\ sent'[Source(e)].kind = "PUB"
    BY <1>0, <2>1, <2>5, <2>8, StaysEntered
  <2>11. ASSUME NEW e \in 1 .. Len(done), Published(e)
         PROVE  Entered(e)'
    <3>1. Entered(e)
      BY <2>11 DEF PubInv
    <3> DEFINE i == Source(e)
    <3>2. \A q \in 1 .. Len(Flow) : Flow[q].part = "mark1" => i < Flow[q].m
      BY <3>1 DEF Entered
    <3>3. /\ Source(e)' = i /\ i \in 1 .. Len(sent')
          /\ done'[e].content = Body(Source(e))' /\ sent'[i].kind = "PUB"
      BY <2>10, <2>11, <3>1
    <3> HIDE DEF i
    <3>4. \A p \in 1 .. Len(Flow') : Flow'[p].part = "mark1" => i < Flow'[p].m
      BY <2>7, <3>2
    <3> QED
      BY <3>3, <3>4 DEF Entered
  <2>12. ASSUME Published(l)'
         PROVE  Entered(l)' /\ \A d \in 1 .. Len(done) : Published(d) => Source(d) < Source(l)'
    <3>1. a.act = "publish"
      BY <2>5, <2>12 DEF Published
    <3>2. PICK q \in 1 .. Len(Flow) :
            /\ Flow[q].part = "mark1" /\ Flow[q].m \in 1 .. Len(sent)
            /\ sent[Flow[q].m].kind = "PUB"
            /\ a.content = Body(Flow[q].m) /\ a.content[1].m = Flow[q].m
            /\ \A p \in 1 .. Len(Flow') : Flow'[p].part = "mark1" => Flow[q].m < Flow'[p].m
      BY <2>9, <3>1
    <3> DEFINE i == Flow[q].m
    <3>3. \A d \in 1 .. Len(done) : Published(d) => Source(d) < i
      BY <3>2 DEF PubInv, Entered
    <3>4. /\ i \in 1 .. Len(sent) /\ sent[i].kind = "PUB"
          /\ a.content = Body(i) /\ a.content[1].m = i
          /\ \A p \in 1 .. Len(Flow') : Flow'[p].part = "mark1" => i < Flow'[p].m
      BY <3>2
    <3> HIDE DEF i
    <3>5. Source(l)' = i /\ Body(Source(l))' = Body(i)
      <4>1. Source(l)' = i
        BY <2>5, <3>4 DEF Source
      <4> QED
        BY <2>1, <4>1 DEF Body
    <3> QED
      BY <2>1, <2>5, <3>3, <3>4, <3>5 DEF Entered
  <2>14. \A e \in 1 .. Len(done') : e \in 1 .. Len(done) \/ e = l
    BY <1>0, <2>5, <2>3a
  <2>15. ASSUME NEW e \in 1 .. Len(done'), Published(e)' PROVE Entered(e)'
    BY <2>10, <2>11, <2>12, <2>14, <2>15
  <2>16. ASSUME NEW d \in 1 .. Len(done'), NEW e \in 1 .. Len(done'), d < e, Published(d)', Published(e)'
         PROVE  Source(d)' < Source(e)'
    <3>1. d \in 1 .. Len(done)
      BY <1>0, <2>5, <2>3a, <2>16
    <3>2. Published(d) /\ Source(d)' = Source(d)
      BY <2>10, <2>16, <3>1
    <3>3. CASE e = l
      BY <2>12, <2>16, <3>1, <3>2, <3>3
    <3>4. CASE e \in 1 .. Len(done)
      <4>1. Published(e) /\ Source(e)' = Source(e)
        BY <2>10, <2>16, <3>4
      <4>2. Source(d) < Source(e)
        BY <2>16, <3>1, <3>2, <3>4, <4>1 DEF PubInv
      <4> QED
        BY <3>2, <4>1, <4>2
    <3> QED
      BY <2>14, <3>3, <3>4
  <2> QED
    BY <2>5, <2>15, <2>16 DEF PubInv
<1>5. CASE UNCHANGED vars
  BY <1>5 DEF vars, PubInv, Entered, Published, Source, Body, Flow
<1> QED
  BY <1>1, <1>2, <1>3, <1>4, <1>5 DEF Next
(* Nothing is published at first. *)
LEMMA PubInit == Init => PubInv
BY DEF Init, PubInv

(* What is published stays as it was sent, and in order. *)
LEMMA PubKeeps == Spec => [](FlowInv /\ NeedInv /\ PubInv)
BY FlowInit, PubInit, FlowStep, PubStep, PTL DEF Spec

(* The reader's variables keep their types. *)
THEOREM TypesCorrect == Spec => []TypeOK
<1>1. FlowInv /\ PubInv => TypeOK
  <2> SUFFICES ASSUME FlowInv, PubInv PROVE TypeOK
    OBVIOUS
  <2>1. \A i \in 1 .. Len(done) : done[i].act \in Action /\ done[i].content \in Seq(Unit)
    <3> SUFFICES ASSUME NEW i \in 1 .. Len(done) PROVE done[i].act \in Action /\ done[i].content \in Seq(Unit)
      OBVIOUS
    <3>1. done[i] \in Deed
      BY ElementOfSeq DEF PubInv
    <3> QED
      BY <3>1 DEF Deed
  <2>2. Len(sent) \in Nat /\ \A i \in 1 .. Len(sent) : i \in 1 .. MaxMsgs
    BY LenProperties, FramingAssumption DEF FlowInv
  <2> QED
    BY <2>1, <2>2 DEF FlowInv, TypeOK
<1> QED
  BY <1>1, PubKeeps, PTL

(* However recv() cuts and joins the stream, each publication that is_publish
   puts on the list is one the client sent, whole, and they come in order. *)
THEOREM PublishedIsWhole == Spec => []PublicationsIntact
<1>1. PubInv => PublicationsIntact
  BY DEF PubInv, Entered, PublicationsIntact
<1> QED
  BY <1>1, PubKeeps, PTL
-----------------------------------------------------------------------------
(* A message that comes undisturbed. *)

Reads(a, i) ==
  IF sent[i].kind = "PUB" THEN a.act = "publish" /\ a.content[1].m = i
  ELSE a.act = "subscribe" /\ a.name = [m |-> i, whole |-> TRUE]
Coming(i) ==
  /\ Flow = Frame(i, sent[i])
  /\ need = Waiting \/ (Len(buffer) >= 2 /\ need = Announces(sent[i]))
QuietInv == \A i \in quiet : Coming(i) \/ \E e \in 1 .. Len(done) : Handles(e, i)

(* What the handler makes of a whole frame is what the client meant. *)
LEMMA WholeIsHandled ==
  ASSUME FlowInv, NEW i \in 1 .. Len(sent), Flow = Frame(i, sent[i]), NEW h \in Handed(Flow)
  PROVE  Reads(ReadIncome(h), i)
<1> DEFINE f == Frame(i, sent[i])
           n == Announces(sent[i])
           kind == sent[i].kind
<1>1. sent[i] \in Message /\ sent \in Seq(Message) /\ Len(sent) <= MaxMsgs
  BY ElementOfSeq DEF FlowInv
<1>2. /\ f \in Seq(Unit) /\ n \in Nat /\ n >= 8 /\ Len(f) = n
      /\ \A u \in 1 .. n : f[u].m = i
  <2>1. f \in Seq(Unit) /\ n \in Nat /\ n >= 8 /\ \A u \in 1 .. n : f[u].m = i
    BY <1>1, BodyOf
  <2> QED
    BY <1>1, <2>1, FrameLaid
<1>3. \A u \in 1 .. n : /\ f[u].part = "lead" <=> u = 1
                        /\ f[u].part = "mark1" <=> u = 3
                        /\ f[u].part = "post1" <=> u = n - 1
  BY <1>1, FrameLaid
<1>4. kind \in {"SUB", "PUB"}
  BY <1>1 DEF Message
<1> HIDE DEF f, n, kind
<1>5. h = SubSeq(f, 3, Len(f))
  <2>1. 1 \in 1 .. n /\ Len(f) > 1
    BY <1>2
  <2>2. f[1].part = "lead"
    BY <1>3, <2>1
  <2>3. h \in Handed(f)
    BY DEF f
  <2> QED
    BY <2>1, <2>2, <2>3 DEF Handed
<1>6. h \in Seq(Unit) /\ Len(h) = n - 2 /\ \A p \in 1 .. n - 2 : h[p] = f[2 + p]
  <2>1. 2 \in 0 .. Len(f) /\ 2 + 1 = 3
    BY <1>2
  <2>2. h = SubSeq(f, 2 + 1, Len(f))
    BY <1>5, <2>1
  <2> QED
    BY <1>2, <2>1, <2>2, Dropped
<1>7. ASSUME NEW p \in 1 .. n - 2
      PROVE  /\ h[p].m = i /\ Kind(h[p]) = kind
             /\ (h[p].part = "mark1" <=> p = 1) /\ (h[p].part = "post1" <=> p = n - 3)
  <2>1. 2 + p \in 1 .. n /\ (2 + p = 3 <=> p = 1) /\ (2 + p = n - 1 <=> p = n - 3)
    BY <1>2
  <2>2. h[p] = f[2 + p]
    BY <1>6
  <2>3. h[p].m = i
    BY <1>2, <2>1, <2>2
  <2> QED
    BY <1>3, <2>1, <2>2, <2>3 DEF Kind, kind
<1>8. n - 2 \in Nat /\ n - 3 \in Nat /\ 1 \in 1 .. n - 2 /\ n - 3 \in 1 .. n - 2 /\ 3 \in 1 .. n - 2
      /\ n - 3 > 1 /\ n - 3 < n - 2 /\ 1 < n - 2 /\ 3 < n - 2
  BY <1>2
<1>9. Marks(h, kind) = {1} /\ \A x : x # kind => Marks(h, x) = {}
  BY <1>6, <1>7, <1>8 DEF Marks, Where
<1>10. Posts(h, kind) = {n - 3}
  <2>1. \A p \in Posts(h, kind) : p = n - 3
    BY <1>6, <1>7 DEF Posts, Where
  <2>2. n - 3 \in Posts(h, kind)
    BY <1>6, <1>7, <1>8 DEF Posts, Where
  <2> QED
    BY <2>1, <2>2
<1>11. Least({1}) = 1
  BY LeastIn
<1>12. Enclosed(h, kind) # {} /\ \A x : x # kind => Enclosed(h, x) = {}
  BY <1>8, <1>9, <1>10, <1>11 DEF Enclosed
<1>13. CASE kind = "PUB"
  <2>1. Enclosed(h, "SUB") = {} /\ Enclosed(h, "PUB") # {}
    BY <1>12, <1>13
  <2> DEFINE c == Publication(h)
  <2>2. c[1].m = i
    <3>1. \A p \in 1 .. Len(h) : 2 + p \in 1 .. Len(Flow) /\ Flow[2 + p] = h[p]
      <4>1. \A p \in 1 .. n - 2 : 2 + p \in 1 .. n
        BY <1>2
      <4> QED
        BY <1>2, <1>6, <4>1 DEF f
    <3>2. 2 \in Nat
      OBVIOUS
    <3>3. PICK p \in 1 .. Len(h) : c[1].m = h[p].m
      BY <1>6, <2>1, <3>1, <3>2, ReadsPublication
    <3> QED
      BY <1>6, <1>7, <3>3
  <2>3. ReadIncome(h) = [NoAction EXCEPT !.act = "publish", !.content = c]
    BY <2>1 DEF ReadIncome
  <2> HIDE DEF c
  <2>4. ReadIncome(h).act = "publish" /\ ReadIncome(h).content = c
    BY <2>3 DEF NoAction
  <2> QED
    BY <1>13, <2>2, <2>4 DEF Reads, kind
<1>14. CASE kind = "SUB"
  <2>1. Enclosed(h, "SUB") # {}
    BY <1>12, <1>14
  <2> DEFINE t == TopicName(h)
  <2>2. t = [m |-> i, whole |-> TRUE]
    <3>1. Least(Marks(h, "SUB")) = 1 /\ {p \in Marks(h, "PUB") : p > 1} = {}
      BY <1>9, <1>11, <1>14
    <3>2. t = NameAt(h, 2 + 1)
      BY <3>1 DEF TopicName
    <3>3. 2 + 1 = 3 /\ ~(3 > Len(h)) /\ (3 < Len(h)) = TRUE /\ h[3].m = i
      BY <1>6, <1>7, <1>8
    <3> QED
      BY <3>2, <3>3 DEF NameAt
  <2>3. ReadIncome(h) = [NoAction EXCEPT !.act = "subscribe", !.name = t]
    BY <2>1 DEF ReadIncome
  <2> HIDE DEF t
  <2>4. ReadIncome(h).act = "subscribe" /\ ReadIncome(h).name = t
    BY <2>3 DEF NoAction
  <2> QED
    BY <1>14, <2>2, <2>4 DEF Reads, kind
<1> QED
  BY <1>4, <1>13, <1>14

(* From a frame that comes alone, with its first two units in the first piece,
   the size is read. *)
LEMMA SizeComesFirst ==
  ASSUME FlowInv, NEW i \in 1 .. Len(sent), Coming(i), NEW n \in 1 .. Len(wire), Take(n),
         wire[n].m = i => wire[n].part # "lead"
  PROVE  /\ SizeNow(Received(n)) = {Announces(sent[i])} /\ Announces(sent[i]) \in Nat
         /\ Len(Received(n)) >= 2
<1> DEFINE b == Received(n)
           k == Announces(sent[i])
<1>1. /\ sent[i] \in Message /\ sent \in Seq(Message) /\ Len(sent) <= MaxMsgs
      /\ buffer \in Seq(Unit) /\ wire \in Seq(Unit) /\ Len(buffer) \in Nat /\ Len(wire) \in Nat
  BY ElementOfSeq, LenProperties DEF FlowInv
<1>2. /\ b \in Seq(Unit) /\ Len(b) = Len(buffer) + n /\ Len(b) \in Nat
      /\ \A p \in 1 .. Len(b) : p \in 1 .. Len(Flow) /\ Flow[p] = b[p]
      /\ buffer = <<>> => Flow = wire
  BY RecvFlow, LenProperties
<1>3. k \in Nat /\ Len(Flow) = k /\ \A u \in 1 .. k : Flow[u].m = i /\ (Flow[u].part = "lead" <=> u = 1)
  <2>1. Flow = Frame(i, sent[i])
    BY DEF Coming
  <2>2. k \in Nat /\ Len(Frame(i, sent[i])) = k /\ \A u \in 1 .. k : Frame(i, sent[i])[u].part = "lead" <=> u = 1
    BY <1>1, FrameLaid
  <2>3. \A u \in 1 .. k : Frame(i, sent[i])[u].m = i
    BY <1>1, BodyOf
  <2> QED
    BY <2>1, <2>2, <2>3
<1>4. CASE need # Waiting
  <2>1. need = k /\ Len(buffer) >= 2
    BY <1>4 DEF Coming
  <2>2. SizeNow(b) = {k}
    BY <1>4, <2>1 DEF SizeNow
  <2>3. Len(b) >= 2
    BY <1>1, <1>2, <2>1
  <2> QED
    BY <1>3, <2>2, <2>3
<1>5. CASE need = Waiting
  <2>1. buffer = <<>> /\ Flow = wire /\ Len(b) = n
    <3>1. buffer = <<>>
      BY <1>5 DEF FlowInv
    <3>2. Len(buffer) = 0
      BY <3>1
    <3> QED
      BY <1>2, <3>1, <3>2
  <2>2. n \in 1 .. k /\ n # 1
    <3>1. n \in 1 .. k
      BY <1>3, <2>1
    <3> QED
      BY <1>3, <2>1, <3>1
  <2> HIDE DEF b, k
  <2>3. Where(b, "lead") = {1}
    <3>1. 1 \in 1 .. Len(b) /\ \A p \in 1 .. Len(b) : p \in 1 .. k
      BY <1>2, <1>3, <2>1, <2>2
    <3>2. \A p \in 1 .. Len(b) : b[p].part = "lead" <=> p = 1
      BY <1>2, <1>3, <3>1
    <3> QED
      BY <3>1, <3>2 DEF Where
  <2>4. 1 \in HeaderIn(b)
    <3>1. Least({1}) = 1
      BY LeastIn
    <3>2. 1 < Len(b)
      BY <2>1, <2>2
    <3> QED
      BY <2>3, <3>1, <3>2 DEF HeaderIn
  <2>5. Sizes(b) = {Announces(sent[b[1].m])}
    BY <1>2, <2>4, HeaderFound
  <2>6. b[1].m = i
    <3>1. 1 \in 1 .. Len(b) /\ 1 \in 1 .. k
      BY <1>3, <2>1, <2>2
    <3> QED
      BY <1>2, <1>3, <3>1
  <2>7. SizeNow(b) = {k}
    BY <1>5, <2>5, <2>6 DEF SizeNow, k
  <2>8. Len(b) >= 2
    BY <2>1, <2>2
  <2> QED
    BY <1>3, <2>7, <2>8 DEF b, k
<1> QED
  BY <1>4, <1>5
(* What was handled stays handled. *)
LEMMA StaysHandled ==
  ASSUME NEW i \in 1 .. Len(sent), NEW e, done'[e] = done[e], sent'[i] = sent[i], Handles(e, i)
  PROVE  Handles(e, i)'
<1>1. (Published(e)' <=> Published(e)) /\ Source(e)' = Source(e)
  BY DEF Published, Source
<1> QED
  BY <1>1 DEF Handles

(* A step of the reader while a message comes undisturbed. *)
LEMMA ComesOn ==
  ASSUME FlowInv, FlowInv', NEW i \in 1 .. Len(sent), Coming(i), NEW n \in 1 .. Len(wire), Take(n),
         wire[n].m = i => wire[n].part # "lead"
  PROVE  /\ ~RecvMalformed(n)
         /\ RecvPart(n) => Coming(i)'
         /\ RecvLast(n) => \E a \in Deed : done' = Append(done, a) /\ Reads(a, i)
<1> DEFINE b == Received(n)
           k == Announces(sent[i])
<1>1. SizeNow(b) = {k} /\ k \in Nat /\ Len(b) >= 2
  BY SizeComesFirst
<1>2. /\ b \in Seq(Unit) /\ Len(b) \in Nat /\ b \o wire' = Flow /\ wire' \in Seq(Unit) /\ Len(wire') \in Nat
      /\ Len(Flow) = Len(b) + Len(wire')
  BY RecvFlow, LenProperties
<1>3. Flow = Frame(i, sent[i]) /\ Len(Flow) = k
  <2>1. sent[i] \in Message
    BY ElementOfSeq DEF FlowInv
  <2> QED
    BY <2>1, FrameLaid DEF Coming
<1> HIDE DEF b, k
<1>4. ~RecvMalformed(n)
  <2>1. NoSize \notin SizeNow(b)
    BY <1>1 DEF NoSize
  <2> QED
    BY <2>1 DEF RecvMalformed, b
<1>5. ASSUME RecvPart(n) PROVE Coming(i)'
  <2>1. sent' = sent /\ buffer' = b /\ need' \in SizeNow(b)
    BY <1>5 DEF RecvPart, Take, b
  <2>2. need' = k
    BY <1>1, <2>1
  <2>3. Flow' = Flow
    BY <1>2, <2>1 DEF Flow
  <2> QED
    BY <1>1, <1>3, <2>1, <2>2, <2>3 DEF Coming, k
<1>6. ASSUME RecvLast(n) PROVE \E a \in Deed : done' = Append(done, a) /\ Reads(a, i)
  <2>1. PICK h \in Handed(b) : done' = Append(done, ReadIncome(h))
    BY <1>6 DEF RecvLast, b
  <2>2. Len(b) >= k
    BY <1>1, <1>6 DEF RecvLast, Complete, b
  <2>3. b = Flow
    <3>1. Len(wire') = 0
      BY <1>1, <1>2, <1>3, <2>2
    <3>2. wire' = <<>>
      BY <1>2, <3>1, EmptySeq
    <3>3. b \o <<>> = b
      BY <1>2, ConcatEmptySeq
    <3> QED
      BY <1>2, <3>2, <3>3
  <2>4. h \in Handed(Flow)
    BY <2>1, <2>3
  <2>5. Reads(ReadIncome(h), i)
    BY <1>3, <2>4, WholeIsHandled
  <2>6. ReadIncome(h) \in Deed
    <3>1. h \in Handed(Received(n))
      BY <2>1 DEF b
    <3>2. h \in Seq(Unit)
      BY <3>1, HandedPart
    <3> QED
      BY <3>2, DeedTyped
  <2> QED
    BY <2>1, <2>5, <2>6
<1> QED
  BY <1>4, <1>5, <1>6

(* Every step of the reader or of the client keeps the undisturbed messages
   coming, or has them handled. *)
LEMMA QuietStep == FlowInv /\ NeedInv /\ PubInv /\ QuietInv /\ [Next]_vars => QuietInv'
<1> SUFFICES ASSUME FlowInv, NeedInv, PubInv, QuietInv, [Next]_vars
             PROVE  QuietInv'
  OBVIOUS
<1>0. /\ FlowInv' /\ Len(sent) \in Nat /\ sent \in Seq(Message) /\ Len(sent) <= MaxMsgs
      /\ done \in Seq(Deed) /\ Len(done) \in Nat
      /\ buffer \in Seq(Unit) /\ wire \in Seq(Unit) /\ Len(wire) \in Nat /\ Len(buffer) \in Nat
      /\ quiet \subseteq 1 .. Len(sent)
  BY FlowStep, LenProperties DEF FlowInv, PubInv
<1>1. ASSUME NEW i \in 1 .. Len(sent), Coming(i)
      PROVE  /\ Announces(sent[i]) \in Nat /\ Len(Flow) = Announces(sent[i]) /\ Len(Flow) >= 8
             /\ \A u \in 1 .. Len(Flow) : Flow[u].m = i
             /\ wire # <<>> /\ Len(wire) > 0
             /\ \A p \in 1 .. Len(wire) : wire[p].m = i
  <2>1. sent[i] \in Message /\ Flow = Frame(i, sent[i])
    BY <1>0, <1>1, ElementOfSeq DEF Coming
  <2>2. Announces(sent[i]) \in Nat /\ Len(Flow) = Announces(sent[i]) /\ Len(Flow) >= 8
    BY <2>1, FrameLaid
  <2>3. \A u \in 1 .. Len(Flow) : Flow[u].m = i
    BY <1>0, <2>1, <2>2, BodyOf
  <2>4. /\ Len(Flow) = Len(buffer) + Len(wire)
        /\ \A p \in 1 .. Len(wire) : Flow[Len(buffer) + p] = wire[p]
    BY <1>0, ConcatParts DEF Flow
  <2>5. Len(wire) > 0
    <3>1. CASE need = Waiting
      <4>1. Len(buffer) = 0
        BY <3>1 DEF FlowInv
      <4> QED
        BY <1>0, <2>2, <2>4, <4>1
    <3>2. CASE need # Waiting
      <4>1. need = Announces(sent[i]) /\ Len(buffer) < need
        BY <1>1, <3>2 DEF Coming, NeedInv
      <4>2. Len(buffer) < Len(Flow)
        BY ONLY <2>2, <4>1
      <4> QED
        BY ONLY <1>0, <2>2, <2>4, <4>2
    <3> QED
      BY <3>1, <3>2
  <2>6. ASSUME NEW p \in 1 .. Len(wire) PROVE wire[p].m = i
    <3>1. Len(buffer) + p \in 1 .. Len(Flow)
      BY <1>0, <2>4
    <3> QED
      BY <2>3, <2>4, <3>1
  <2>7. wire # <<>>
    BY <2>5
  <2> QED
    BY <2>2, <2>3, <2>5, <2>6, <2>7
<1>2. ASSUME NEW msg \in Message, SendMessage(msg) PROVE QuietInv'
  <2> DEFINE l == Len(sent) + 1
  <2>1. /\ sent' = Append(sent, msg) /\ wire' = wire \o Frame(l, msg)
        /\ buffer' = buffer /\ need' = need /\ done' = done
        /\ quiet' = IF wire # <<>> THEN quiet \ {wire[Len(wire)].m}
                    ELSE IF need # Waiting THEN quiet ELSE quiet \cup {l}
        /\ Len(sent) < MaxMsgs
    BY <1>2 DEF SendMessage
  <2>2. sent'[l] = msg /\ \A i \in 1 .. Len(sent) : sent'[i] = sent[i]
    BY <1>0, <2>1, AppendProperties
  <2>3. ASSUME NEW i \in quiet', i \in quiet PROVE \E e \in 1 .. Len(done') : Handles(e, i)'
    <3>1. i \in 1 .. Len(sent)
      BY <1>0, <2>3
    <3>2. ~Coming(i)
      <4>1. SUFFICES ASSUME Coming(i) PROVE FALSE
        OBVIOUS
      <4>2. wire # <<>> /\ Len(wire) \in 1 .. Len(wire) /\ \A p \in 1 .. Len(wire) : wire[p].m = i
        BY <1>0, <1>1, <3>1, <4>1
      <4>3. wire[Len(wire)].m = i
        BY <4>2
      <4> QED
        BY <2>1, <2>3, <4>2, <4>3
    <3>3. PICK e \in 1 .. Len(done) : Handles(e, i)
      BY <2>3, <3>2 DEF QuietInv
    <3>4. Handles(e, i)'
      BY <2>1, <2>2, <3>1, <3>3, StaysHandled
    <3> QED
      BY <2>1, <3>4
  <2>4. ASSUME NEW i \in quiet', i \notin quiet PROVE Coming(i)'
    <3>1. wire = <<>> /\ need = Waiting /\ i = l
      BY <2>1, <2>4
    <3>2. buffer = <<>>
      BY <3>1 DEF FlowInv
    <3> DEFINE f == Frame(l, msg)
    <3>3. f \in Seq(Unit)
      <4>1. l \in 1 .. MaxMsgs
        BY <1>0, <2>1, FramingAssumption
      <4> QED
        BY <4>1, FrameUnits
    <3> HIDE DEF f
    <3>4. <<>> \o f = f /\ <<>> \o (<<>> \o f) = f
      BY <3>3, ConcatEmptySeq
    <3>5. Flow' = f
      BY <2>1, <3>1, <3>2, <3>4 DEF Flow, f
    <3>6. sent'[i] = msg
      BY <2>2, <3>1
    <3> HIDE DEF l
    <3> QED
      BY <2>1, <3>1, <3>5, <3>6 DEF Coming, f
  <2> QED
    BY <2>3, <2>4 DEF QuietInv
<1>3. ASSUME NEW n \in 1 .. Len(wire), RecvMalformed(n) \/ RecvPart(n) \/ RecvLast(n) PROVE QuietInv'
  <2>1. Take(n) /\ SizeRead(n) /\ sent' = sent
    BY <1>3 DEF RecvMalformed, RecvPart, RecvLast, Take
  <2>2. \E a \in Deed : done' = done \/ done' = Append(done, a)
    <3>1. CASE RecvMalformed(n) \/ RecvPart(n)
      <4>1. done' = done
        BY <3>1 DEF RecvMalformed, RecvPart
      <4>2. NoAction \in Deed
        BY DEF NoAction, NoName, Deed, Action
      <4> QED
        BY <4>1, <4>2
    <3>2. CASE RecvLast(n)
      <4>1. PICK h \in Handed(Received(n)) : done' = Append(done, ReadIncome(h))
        BY <3>2 DEF RecvLast
      <4>2. h \in Seq(Unit)
        BY <2>1, HandedPart
      <4> QED
        BY <4>1, <4>2, DeedTyped
    <3> QED
      BY <1>3, <3>1, <3>2
  <2>3. \A e \in 1 .. Len(done) : e \in 1 .. Len(done') /\ done'[e] = done[e]
    <3>1. PICK a \in Deed : done' = done \/ done' = Append(done, a)
      BY <2>2
    <3>2. CASE done' = done
      BY <3>2
    <3>3. CASE done' = Append(done, a)
      <4>1. Len(done') = Len(done) + 1 /\ \A e \in 1 .. Len(done) : done'[e] = done[e]
        BY <1>0, <3>3, AppendProperties
      <4> QED
        BY <1>0, <4>1
    <3> QED
      BY <3>1, <3>2, <3>3
  <2>4. ASSUME NEW i \in quiet' PROVE Coming(i)' \/ \E e \in 1 .. Len(done') : Handles(e, i)'
    <3>1. i \in quiet /\ (wire[n].m = i => wire[n].part # "lead")
      BY <2>1 DEF SizeRead
    <3>2. i \in 1 .. Len(sent)
      BY <1>0, <3>1
    <3>3. CASE \E e \in 1 .. Len(done) : Handles(e, i)
      <4>1. PICK e \in 1 .. Len(done) : Handles(e, i)
        BY <3>3
      <4>2. Handles(e, i)'
        BY <2>1, <2>3, <3>2, <4>1, StaysHandled
      <4> QED
        BY <2>3, <4>2
    <3>4. CASE Coming(i)
      <4>1. /\ ~RecvMalformed(n)
            /\ RecvPart(n) => Coming(i)'
            /\ RecvLast(n) => \E a \in Deed : done' = Append(done, a) /\ Reads(a, i)
        BY <1>0, <2>1, <3>1, <3>2, <3>4, ComesOn
      <4>2. CASE RecvPart(n)
        BY <4>1, <4>2
      <4>3. CASE RecvLast(n)
        <5>1. PICK a \in Deed : done' = Append(done, a) /\ Reads(a, i)
          BY <4>1, <4>3
        <5>2. PICK e \in Nat : e = Len(done) + 1
          BY <1>0
        <5>3. e \in 1 .. Len(done') /\ done'[e] = a
          <6>1. Len(done') = Len(done) + 1 /\ done'[Len(done) + 1] = a
            BY <1>0, <5>1, AppendProperties
          <6> QED
            BY <1>0, <5>2, <6>1
        <5>4. Handles(e, i)'
          BY <2>1, <5>1, <5>3 DEF Handles, Reads, Published, Source
        <5> QED
          BY <5>3, <5>4
      <4> QED
        BY <1>3, <4>1, <4>2, <4>3
    <3> QED
      BY <3>1, <3>3, <3>4 DEF QuietInv
  <2> QED
    BY <2>4 DEF QuietInv
<1>4. CASE UNCHANGED vars
  BY <1>4 DEF vars, QuietInv, Coming, Handles, Published, Source, Flow
<1> QED
  BY <1>2, <1>3, <1>4 DEF Next

(* A message that comes undisturbed to a reader at rest is handled as what it
   is, whatever was lost before it. *)
THEOREM UndisturbedIsHandled == Spec => []QuietHandled
<1>1. Init => QuietInv
  BY DEF Init, QuietInv
<1>2. FlowInv /\ NeedInv /\ QuietInv => QuietHandled
  <2> SUFFICES ASSUME FlowInv, NeedInv, QuietInv, NEW i \in quiet, i \notin Pending(wire)
               PROVE  \E e \in 1 .. Len(done) : Handles(e, i)
    BY DEF QuietHandled
  <2> SUFFICES ASSUME Coming(i) PROVE FALSE
    BY DEF QuietInv
  <2>1. /\ sent[i] \in Message /\ i \in 1 .. Len(sent) /\ sent \in Seq(Message) /\ Len(sent) <= MaxMsgs
        /\ buffer \in Seq(Unit) /\ wire \in Seq(Unit)
    BY ElementOfSeq DEF FlowInv
  <2>2. Len(Flow) = Announces(sent[i]) /\ Len(Flow) >= 8 /\ Len(Flow) \in Nat
    BY <2>1, FrameLaid DEF Coming
  <2>3. \A u \in 1 .. Len(Flow) : Flow[u].m = i
    BY <2>1, <2>2, BodyOf DEF Coming
  <2>4. /\ Len(Flow) = Len(buffer) + Len(wire) /\ Len(buffer) \in Nat /\ Len(wire) \in Nat
        /\ \A p \in 1 .. Len(wire) : Flow[Len(buffer) + p] = wire[p]
    BY <2>1, ConcatParts DEF Flow
  <2>5. Len(wire) = 0
    <3> SUFFICES ASSUME Len(wire) # 0 PROVE FALSE
      OBVIOUS
    <3>1. 1 \in 1 .. Len(wire) /\ Len(buffer) + 1 \in 1 .. Len(Flow)
      BY <2>4
    <3>2. wire[1].m = i
      BY <2>3, <2>4, <3>1
    <3> QED
      BY <3>1, <3>2 DEF Pending
  <2>6. CASE need = Waiting
    <3>1. Len(buffer) = 0
      BY <2>6 DEF FlowInv
    <3> QED
      BY <2>2, <2>4, <2>5, <3>1
  <2>7. CASE need # Waiting
    <3>1. need = Announces(sent[i]) /\ Len(buffer) < need
      BY <2>7 DEF Coming, NeedInv
    <3>2. Len(buffer) < Len(Flow)
      BY ONLY <2>2, <3>1
    <3> QED
      BY ONLY <2>4, <2>5, <3>2
  <2> QED
    BY <2>6, <2>7
<1>3. Spec => []QuietInv
  BY <1>1, PubKeeps, QuietStep, PTL DEF Spec
<1> QED
  BY <1>2, <1>3, PubKeeps, PTL
=============================================================================
