---------------------------- MODULE Scripts_proofs ----------------------------
(***************************************************************************)
(* Theorems about the scripts at work with the Broker, for any number of   *)
(* clients in any roles, any topics and any number of workers.             *)
(***************************************************************************)
EXTENDS Scripts, Broker_proofs

-----------------------------------------------------------------------------
(* The mail.  What is counted in `out' of the Broker is what lies in it. *)

Letter == [kind : {"ok", "name", "order", "publication"}, topic : Topic]
Stage == {"connect", "send", "recv", "listen", "ended", "stream", "try", "view", "loop"}

MailInv == mail \in [Sock -> Seq(Letter)] /\ \A s \in Sock : out[s] = Len(mail[s])

CastInv ==
  /\ role \in [Sock -> {"publisher", "subscriber", "camera", "viewer", "robot"}]
  /\ at \in [Sock -> Stage] /\ made \in [Sock -> Nat]

(* What is on its way to the server.  A publisher sends nothing but
   publications. *)
Bid == [kind : {"subscription", "publication"}, topic : Topic]
Bids(s, q) == q \in Seq(Bid) /\ (role[s] = "publisher" => \A i \in 1 .. Len(q) : q[i].kind = "publication")
WireInv == wire \in [Sock -> Seq(Bid)] /\ \A s \in Sock : Bids(s, wire[s])

(* Who the server sends to: clients of callbacks, and listed ones. *)
Addressed(x) == (\E w \in Worker : job[w].sock = x) \/ \E t \in Topic : x \in Listeners(t)

(* One letter goes to a client, or none to anybody. *)
Posted(x, m) ==
  /\ mail' = [mail EXCEPT ![x] = Append(@, m)]
  /\ out' = [out EXCEPT ![x] = @ + 1]
NothingPosted == mail' = mail /\ out' = out

(* A send() posts the letter that is to be delivered, or nothing. *)
LEMMA Posts ==
  ASSUME TypeInv, MailInv, NEW x \in Sock, NEW m, Transmit(x), Deliver(x, m)
  PROVE  Posted(x, m) \/ NothingPosted
<1>1. out \in [Sock -> 0 .. MaxOut] /\ MaxOut \in Nat /\ out[x] \in Nat
  <2>1. out \in [Sock -> 0 .. MaxOut] /\ MaxOut \in Nat
    BY BrokerAssumption DEF TypeInv, TypeOK
  <2> QED
    BY <2>1
<1>2. CASE out' = [out EXCEPT ![x] = @ + 1]
  <2>1. out'[x] > out[x]
    BY <1>1, <1>2
  <2> QED
    BY <1>2, <2>1 DEF Deliver, Posted
<1>3. CASE out' = out
  <2>1. ~(out'[x] > out[x])
    BY <1>1, <1>3
  <2> QED
    BY <1>3, <2>1 DEF Deliver, NothingPosted
<1> QED
  BY <1>2, <1>3 DEF Transmit, sockets

(* A letter's kind and topic. *)
LEMMA LetterType ==
  ASSUME NEW kind \in {"ok", "name", "order", "publication"}, NEW t \in Topic
  PROVE  /\ Note(kind, t) \in Letter /\ Note(kind, t).kind = kind /\ Note(kind, t).topic = t
         /\ Ok \in Letter /\ Ok.kind = "ok"
BY BrokerAssumption DEF Note, Letter, Ok

(* What a step of the server's posts: a letter to somebody who is addressed,
   and a publication only if it is on the list. *)
LEMMA ServerPosts ==
  ASSUME TypeInv, MailInv, ServerStep
  PROVE  \/ NothingPosted
         \/ \E x \in Sock, m \in Letter :
              /\ Addressed(x) /\ Posted(x, m)
              /\ m.kind = "publication" => \E i \in 1 .. Len(objects) : m.topic = objects[i].topic
<1>1. ASSUME NEW w \in Worker
      PROVE  /\ job[w] \in Jobs /\ job[w].topic \in Topic /\ job[w].at \in Nat \ {0}
             /\ job[w].st # "idle" => job[w].sock \in Sock
  BY DEF TypeInv, Jobs, Job
<1>2. Ask \in Topic /\ Stop \in Topic /\ View \in Topic
  BY BrokerAssumption
<1>3. ASSUME NEW w \in Worker, SendName(w), Deliver(job[w].sock, Note("name", job[w].topic))
      PROVE  \/ NothingPosted
             \/ \E x \in Sock, m \in Letter :
                  /\ Addressed(x) /\ Posted(x, m)
                  /\ m.kind = "publication" => \E i \in 1 .. Len(objects) : m.topic = objects[i].topic
  <2> DEFINE m == Note("name", job[w].topic)
             x == job[w].sock
  <2>1. x \in Sock /\ Transmit(x) /\ Deliver(x, m)
    BY <1>1, <1>3 DEF SendName, At
  <2>2. m \in Letter /\ m.kind = "name"
    BY <1>1, LetterType
  <2> HIDE DEF m
  <2>3. Addressed(x)
    BY DEF Addressed
  <2> HIDE DEF x
  <2>4. Posted(x, m) \/ NothingPosted
    BY <2>1, Posts
  <2> QED
    BY <2>1, <2>2, <2>3, <2>4
<1>4. ASSUME NEW w \in Worker, SendOrder(w), Deliver(subs[Order(w)][job[w].at], OrderText(Order(w)))
      PROVE  \/ NothingPosted
             \/ \E x \in Sock, m \in Letter :
                  /\ Addressed(x) /\ Posted(x, m)
                  /\ m.kind = "publication" => \E i \in 1 .. Len(objects) : m.topic = objects[i].topic
  <2> DEFINE t == Order(w)
             m == Note("order", t)
             x == subs[t][job[w].at]
  <2>1. t \in Topic
    BY <1>2 DEF Order
  <2>2. Transmit(x) /\ Deliver(x, m) /\ job[w].at <= Len(subs[t])
    BY <1>4 DEF SendOrder, OrderText
  <2>3. m \in Letter /\ m.kind = "order"
    BY <2>1, LetterType
  <2> HIDE DEF m, t
  <2>4. x \in Sock
    BY <1>1, <2>1, <2>2, ListedHasEntry
  <2>5. Addressed(x)
    <3>1. Len(subs[t]) \in Nat
      BY <2>1, LenProperties DEF TypeInv, TypeOK
    <3>2. job[w].at \in 1 .. Len(subs[t])
      BY <1>1, <2>2, <3>1
    <3> QED
      BY <2>1, <3>2 DEF Addressed, Listeners
  <2> HIDE DEF x
  <2>6. Posted(x, m) \/ NothingPosted
    BY <2>2, <2>4, Posts
  <2> QED
    BY <2>3, <2>4, <2>5, <2>6
<1>5. ASSUME NEW w \in Worker, Answer(w)
      PROVE  \/ NothingPosted
             \/ \E x \in Sock, m \in Letter :
                  /\ Addressed(x) /\ Posted(x, m)
                  /\ m.kind = "publication" => \E i \in 1 .. Len(objects) : m.topic = objects[i].topic
  <2> DEFINE x == job[w].sock
  <2>1. x \in Sock /\ Transmit(x) /\ Deliver(x, Ok)
    BY <1>1, <1>5 DEF Answer, Reply, At
  <2>2. Ok \in Letter /\ Ok.kind = "ok"
    BY <1>2, LetterType
  <2>3. Addressed(x)
    BY DEF Addressed
  <2> HIDE DEF x
  <2>4. Posted(x, Ok) \/ NothingPosted
    BY <2>1, Posts
  <2> QED
    BY <2>1, <2>2, <2>3, <2>4
<1>6. ASSUME SendPublication, Deliver(Audience[ntf.at], Note("publication", objects[ntf.k].topic))
      PROVE  \/ NothingPosted
             \/ \E x \in Sock, m \in Letter :
                  /\ Addressed(x) /\ Posted(x, m)
                  /\ m.kind = "publication" => \E i \in 1 .. Len(objects) : m.topic = objects[i].topic
  <2> DEFINE t == objects[ntf.k].topic
             m == Note("publication", t)
             x == Audience[ntf.at]
  <2>1. ntf.st = "send" /\ ntf.at <= Len(Audience) /\ Transmit(x) /\ ntf.at > 0
    BY <1>6 DEF SendPublication, Sending, TypeInv
  <2>2. /\ ntf.k \in 1 .. Len(objects) /\ t \in Topic /\ ntf.at \in Nat
        /\ Audience \in Seq(Sock) /\ Len(Audience) \in Nat
    BY <2>1, AudienceType
  <2>3. m \in Letter /\ m.topic = t
    BY <2>2, LetterType
  <2> HIDE DEF m
  <2>4. ntf.at \in 1 .. Len(Audience)
    BY <2>1, <2>2
  <2>5. x \in Sock
    BY <2>2, <2>4, ElementOfSeq
  <2>6. Addressed(x)
    <3>1. Audience = subs[t]
      BY DEF Audience
    <3> QED
      BY <2>2, <2>4, <3>1 DEF Addressed, Listeners
  <2>7. Deliver(x, m)
    BY <1>6 DEF m
  <2> HIDE DEF x
  <2>8. Posted(x, m) \/ NothingPosted
    BY <2>1, <2>5, <2>7, Posts
  <2> QED
    BY <2>2, <2>3, <2>5, <2>6, <2>8
<1>7. ASSUME NEW w \in Worker,
             \/ OrderSent(w) \/ MakeUnique(w) \/ \E s \in Sock : HungUp(w, s)
             \/ RemoveFirst(w) \/ NoneToRemove(w) \/ CheckViewers(w) \/ RemovalDone(w) \/ MarkClosed(w),
             UNCHANGED mail
      PROVE  NothingPosted
  BY <1>7 DEF OrderSent, MakeUnique, HungUp, RemoveFirst, NoneToRemove, CheckViewers, RemovalDone, MarkClosed,
              NothingPosted, sockets
<1>8. ASSUME Wake \/ ErasePublished \/ TakeTopic \/ SetPublished \/ EndOfObjects, UNCHANGED mail
      PROVE  NothingPosted
  BY <1>8 DEF Wake, ErasePublished, TakeTopic, SetPublished, EndOfObjects, NothingPosted, sockets
<1> QED
  BY <1>3, <1>4, <1>5, <1>6, <1>7, <1>8 DEF ServerStep, PublisherStep, WorkerStep
-----------------------------------------------------------------------------
(* The scripts' own steps, by what they do to the server. *)

(* Only the script at this socket moves on. *)
Solo(s) == \A x \in Sock \ {s} : at'[x] = at[x] /\ made'[x] = made[x]

Joins(s) == Connect(s)
Writes(s) ==
  \E kind \in {"subscription", "publication"}, t \in Topic :
    /\ Sends(s, kind, t)
    /\ kind = "publication" => t \in Published \cup Commands[s] \cup {Ask}
    /\ role[s] = "publisher" => kind = "publication" /\ PublisherSends(s, t)
Leaves(s) ==
  /\ role[s] # "publisher"
  /\ PeerHangsUp(s) /\ mail' = [mail EXCEPT ![s] = <<>>] /\ wire' = wire
GivesUp(s) == role[s] # "publisher" /\ UNCHANGED <<vars, mail, wire>>
Receives(s) ==
  \E n \in 1 .. Len(mail[s]) :
    /\ Recv(s, n)
    /\ \/ PublisherReads(s, n) \/ role[s] # "publisher"
       \/ at[s] = "listen" /\ at' = at
    /\ UNCHANGED asking \/ RobotReads(s, n)

(* Every step of a script is one of these, and moves only that script on. *)
LEMMA ScriptDoes ==
  ASSUME CastInv, NEW s \in Sock, ScriptSends(s) \/ ScriptReads(s) \/ ScriptChoice(s)
  PROVE  /\ role' = role /\ CastInv' /\ Solo(s)
         /\ Joins(s) \/ Writes(s) \/ Leaves(s) \/ GivesUp(s) \/ Receives(s)
         /\ Receives(s) \/ UNCHANGED asking
<1>0. /\ at \in [Sock -> Stage] /\ made \in [Sock -> Nat]
      /\ CameraTopic \in Topic /\ Ask \in Topic /\ View \in Topic
      /\ Published \subseteq Topic /\ Listened \subseteq Topic /\ Commands[s] \subseteq Topic
  BY BrokerAssumption, ScriptsAssumption DEF CastInv
<1>1. ASSUME NEW st \in Stage, Goto(s, st) PROVE at' \in [Sock -> Stage] /\ \A x \in Sock \ {s} : at'[x] = at[x]
  BY <1>0, <1>1 DEF Goto
<1>2. ASSUME made' = made \/ made' = [made EXCEPT ![s] = @ + 1]
      PROVE  made' \in [Sock -> Nat] /\ \A x \in Sock \ {s} : made'[x] = made[x]
  BY <1>0, <1>2
<1>3. ASSUME role' = role,
             at' = at \/ \E st \in Stage : Goto(s, st),
             made' = made \/ made' = [made EXCEPT ![s] = @ + 1]
      PROVE  role' = role /\ CastInv' /\ Solo(s)
  BY <1>0, <1>1, <1>2, <1>3 DEF CastInv, Solo
<1>4. ASSUME ScriptSends(s)
      PROVE  /\ role' = role /\ UNCHANGED asking
             /\ at' = at \/ \E st \in Stage : Goto(s, st)
             /\ made' = made \/ made' = [made EXCEPT ![s] = @ + 1]
             /\ Joins(s) \/ Writes(s) \/ Leaves(s) \/ GivesUp(s) \/ Receives(s)
  <2>0. role' = role /\ UNCHANGED asking
    BY <1>4 DEF ScriptSends
  <2>1. CASE Connect(s)
    BY <2>0, <2>1 DEF Connect, Joins, Stage
  <2>2. CASE CameraSubscribes(s)
    BY <1>0, <2>0, <2>2 DEF CameraSubscribes, Doing, Subscribes, Writes, Stage
  <2>3. CASE ViewerAsks(s)
    BY <1>0, <2>0, <2>3 DEF ViewerAsks, Doing, Writes, Publishes, Stage
  <2>4. CASE ViewerTimesOut(s)
    BY <1>0, <2>0, <2>4 DEF ViewerTimesOut, Doing, GivesUp, Stage
  <2>5. CASE ViewerSubscribes(s)
    BY <1>0, <2>0, <2>5 DEF ViewerSubscribes, Doing, Subscribes, Writes, Stage
  <2>6. CASE \E t \in Published : PublisherSends(s, t)
    <3>1. PICK t \in Published : PublisherSends(s, t)
      BY <2>6
    <3>2. Goto(s, "recv") /\ Sends(s, "publication", t) /\ made' = [made EXCEPT ![s] = @ + 1]
      BY <3>1 DEF PublisherSends, Publishes
    <3>3. Writes(s)
      BY <1>0, <3>1, <3>2 DEF Writes
    <3> QED
      BY <2>0, <3>2, <3>3 DEF Stage
  <2>7. CASE \E t \in Listened : SubscriberSends(s, t)
    BY <1>0, <2>0, <2>7 DEF SubscriberSends, Doing, Subscribes, Writes, Stage
  <2>8. CASE \E t \in Topic : RobotSubscribes(s, t)
    <3>1. PICK t \in Topic : RobotSubscribes(s, t)
      BY <2>8
    <3>2. role[s] = "robot" /\ Sends(s, "subscription", t)
      BY <3>1 DEF RobotSubscribes, Doing, Subscribes
    <3>3. at' = at \/ Goto(s, "loop")
      BY <3>1 DEF RobotSubscribes
    <3>4. made' = made \/ made' = [made EXCEPT ![s] = @ + 1]
      BY <3>1 DEF RobotSubscribes
    <3> QED
      BY <2>0, <3>2, <3>3, <3>4 DEF Writes, Stage
  <2> QED
    BY <1>4, <2>1, <2>2, <2>3, <2>4, <2>5, <2>6, <2>7, <2>8 DEF ScriptSends
<1>5. ASSUME ScriptReads(s)
      PROVE  /\ role' = role /\ made' = made
             /\ at' = at \/ \E st \in Stage : Goto(s, st)
             /\ Receives(s)
  <2>0. role' = role
    BY <1>5 DEF ScriptReads
  <2>1. PICK n \in 1 .. Len(mail[s]) :
          \/ /\ \/ PublisherReads(s, n) \/ SubscriberReads(s, n) \/ Listens(s, n)
                \/ CameraReads(s, n) \/ ViewerReads(s, n)
             /\ UNCHANGED asking
          \/ RobotReads(s, n)
    BY <1>5 DEF ScriptReads
  <2>2. Recv(s, n)
    BY <2>1 DEF PublisherReads, SubscriberReads, Listens, CameraReads, ViewerReads, RobotReads
  <2>3. n \in 1 .. Len(mail[s]) /\ made' = made
    BY <2>2 DEF Recv
  <2>4. at' = at \/ \E st \in Stage : Goto(s, st)
    BY <2>1 DEF PublisherReads, SubscriberReads, Listens, CameraReads, ViewerReads, RobotReads, Stage
  <2>5. \/ PublisherReads(s, n) \/ role[s] # "publisher"
        \/ at[s] = "listen" /\ at' = at
    BY <2>1 DEF SubscriberReads, Listens, CameraReads, ViewerReads, RobotReads, Doing
  <2>6. UNCHANGED asking \/ RobotReads(s, n)
    BY <2>1
  <2> QED
    BY <2>0, <2>2, <2>3, <2>4, <2>5, <2>6 DEF Receives
<1>6. ASSUME ScriptChoice(s)
      PROVE  /\ role' = role /\ UNCHANGED asking
             /\ at' = at \/ \E st \in Stage : Goto(s, st)
             /\ made' = made \/ made' = [made EXCEPT ![s] = @ + 1]
             /\ Joins(s) \/ Writes(s) \/ Leaves(s) \/ GivesUp(s) \/ Receives(s)
  <2>0. role' = role /\ UNCHANGED asking
    BY <1>6 DEF ScriptChoice
  <2>1. CASE SubscriberTimesOut(s)
    BY <2>0, <2>1 DEF SubscriberTimesOut, Doing, Leaves, Stage
  <2>2. CASE ViewerQuits(s)
    BY <2>0, <2>2 DEF ViewerQuits, Doing, Leaves, Stage
  <2>3. CASE \E t \in Commands[s] : ViewerCommands(s, t)
    BY <1>0, <2>0, <2>3 DEF ViewerCommands, Doing, Writes, Publishes
  <2> QED
    BY <1>6, <2>1, <2>2, <2>3 DEF ScriptChoice
<1> QED
  BY <1>3, <1>4, <1>5, <1>6

-----------------------------------------------------------------------------
(* The server at work with the scripts keeps its types, and its count of what
   is in the mail. *)

(* The server's step is one of the Broker's. *)
LEMMA ServerStepType == TypeInv /\ ServerStep => TypeInv'
<1>1. ServerStep => Next
  BY BrokerAssumption DEF ServerStep, PublisherStep, WorkerStep, Answer, Next, NotifierStep, Continue, Begin
<1> QED
  BY <1>1, StepType

(* A recv() takes from the mail what it takes from the count. *)
LEMMA RecvType ==
  ASSUME TypeInv, MailInv, NEW s \in Sock, NEW n \in 1 .. Len(mail[s]), Recv(s, n)
  PROVE  TypeInv' /\ MailInv'
<1>1. /\ mail \in [Sock -> Seq(Letter)] /\ mail[s] \in Seq(Letter) /\ Len(mail[s]) \in Nat
      /\ out \in [Sock -> 0 .. MaxOut] /\ MaxOut \in Nat /\ out[s] = Len(mail[s])
      /\ mail' = [mail EXCEPT ![s] = SubSeq(mail[s], n + 1, Len(mail[s]))]
      /\ out' = [out EXCEPT ![s] = out[s] - n]
  BY LenProperties, BrokerAssumption DEF MailInv, TypeInv, TypeOK, Recv
<1>2. n \in 0 .. Len(mail[s]) /\ out[s] - n \in 0 .. MaxOut
  BY <1>1
<1> DEFINE q == SubSeq(mail[s], n + 1, Len(mail[s]))
<1>3. q \in Seq(Letter) /\ Len(q) = Len(mail[s]) - n
  <2> DEFINE r == mail[s]
             m == n + 1
             e == Len(r)
  <2>1. m \in Int /\ e \in Int /\ \A i \in m .. e : i \in 1 .. Len(r)
    BY <1>1
  <2>2. r \in Seq(Letter)
    BY <1>1
  <2> HIDE DEF r, m, e
  <2>3. \A i \in m .. e : r[i] \in Letter
    BY <2>1, <2>2, ElementOfSeq
  <2>4. SubSeq(r, m, e) \in Seq(Letter) /\ Len(SubSeq(r, m, e)) = IF m <= e THEN e - m + 1 ELSE 0
    BY <2>1, <2>3, SubSeqProperties
  <2>5. (IF m <= e THEN e - m + 1 ELSE 0) = Len(mail[s]) - n
    BY <1>1, <1>2 DEF m, e, r
  <2> QED
    BY <2>4, <2>5 DEF r, m, e
<1> HIDE DEF q
<1>4. mail' = [mail EXCEPT ![s] = q]
  BY <1>1 DEF q
<1>5. MailInv'
  <2>1. mail' \in [Sock -> Seq(Letter)]
    BY <1>1, <1>3, <1>4
  <2>2. ASSUME NEW x \in Sock PROVE out'[x] = Len(mail'[x])
    <3>1. CASE x = s
      BY <1>1, <1>3, <1>4, <3>1
    <3>2. CASE x # s
      BY <1>1, <1>4, <3>2 DEF MailInv
    <3> QED
      BY <3>1, <3>2
  <2> QED
    BY <2>1, <2>2 DEF MailInv
<1>6. out' \in [Sock -> 0 .. MaxOut]
  BY <1>1, <1>2
<1>7. UNCHANGED <<conn, broken, alive, subs, objects, pubs, job, ntf, torn, last, owed, held, asked>>
  BY DEF Recv, history
<1>8. TypeInv'
  BY <1>6, <1>7 DEF TypeInv, TypeOK
<1> QED
  BY <1>5, <1>8

(* A letter posted is counted. *)
LEMMA PostedMail ==
  ASSUME TypeInv, MailInv, NEW x \in Sock, NEW m \in Letter, Posted(x, m)
  PROVE  MailInv'
<1>1. /\ mail \in [Sock -> Seq(Letter)] /\ mail[x] \in Seq(Letter) /\ Len(mail[x]) \in Nat
      /\ out \in [Sock -> 0 .. MaxOut] /\ out[x] = Len(mail[x])
  BY LenProperties DEF MailInv, TypeInv, TypeOK
<1> DEFINE q == Append(mail[x], m)
<1>2. q \in Seq(Letter) /\ Len(q) = Len(mail[x]) + 1
  BY <1>1, AppendProperties
<1> HIDE DEF q
<1>3. mail' = [mail EXCEPT ![x] = q] /\ out' = [out EXCEPT ![x] = out[x] + 1]
  BY DEF Posted, q
<1>4. mail' \in [Sock -> Seq(Letter)]
  BY <1>1, <1>2, <1>3
<1>5. ASSUME NEW y \in Sock PROVE out'[y] = Len(mail'[y])
  <2>1. CASE y = x
    BY <1>1, <1>2, <1>3, <2>1
  <2>2. CASE y # x
    BY <1>1, <1>3, <2>2 DEF MailInv
  <2> QED
    BY <2>1, <2>2
<1> QED
  BY <1>4, <1>5 DEF MailInv

WorkInv == TypeInv /\ MailInv /\ CastInv /\ WireInv

(* The wire of one script changes. *)
LEMMA WireOf ==
  ASSUME WireInv, role' = role, NEW s \in Sock, NEW q, Bids(s, q), wire' = [wire EXCEPT ![s] = q]
  PROVE  WireInv'
<1>1. wire' \in [Sock -> Seq(Bid)]
  BY DEF WireInv, Bids
<1>2. ASSUME NEW x \in Sock PROVE Bids(x, wire[x])'
  <2>1. CASE x = s
    <3>1. wire'[x] = q
      BY <2>1 DEF WireInv
    <3> QED
      BY <2>1, <3>1 DEF Bids
  <2>2. CASE x # s
    <3>1. wire'[x] = wire[x] /\ Bids(x, wire[x])
      BY <2>2 DEF WireInv
    <3> QED
      BY <3>1 DEF Bids
  <2> QED
    BY <2>1, <2>2
<1> QED
  BY <1>1, <1>2 DEF WireInv

(* A script writes one message. *)
LEMMA WritesWire ==
  ASSUME WireInv, role' = role, NEW s \in Sock, Writes(s)
  PROVE  WireInv'
<1>1. PICK kind \in {"subscription", "publication"}, t \in Topic :
        Sends(s, kind, t) /\ (role[s] = "publisher" => kind = "publication")
  BY DEF Writes
<1> DEFINE m == Note(kind, t)
           q == Append(wire[s], m)
<1>2. m \in Bid /\ m.kind = kind /\ wire' = [wire EXCEPT ![s] = q]
  BY <1>1 DEF Note, Bid, Sends
<1>3. wire[s] \in Seq(Bid) /\ Len(wire[s]) \in Nat /\ Bids(s, wire[s])
  BY LenProperties DEF WireInv
<1> HIDE DEF m
<1>4. /\ q \in Seq(Bid) /\ Len(q) = Len(wire[s]) + 1 /\ q[Len(wire[s]) + 1] = m
      /\ \A i \in 1 .. Len(wire[s]) : q[i] = wire[s][i]
  BY <1>2, <1>3, AppendProperties
<1> HIDE DEF q
<1>5. ASSUME role[s] = "publisher", NEW i \in 1 .. Len(q) PROVE q[i].kind = "publication"
  <2>1. i \in 1 .. Len(wire[s]) \/ i = Len(wire[s]) + 1
    BY <1>3, <1>4
  <2> QED
    BY <1>1, <1>2, <1>3, <1>4, <1>5, <2>1 DEF Bids
<1> QED
  BY <1>2, <1>4, <1>5, WireOf DEF Bids

(* The earliest of some places. *)
LEMMA EarliestOf ==
  ASSUME NEW n \in Nat, NEW P \in SUBSET (1 .. n), P # {}
  PROVE  Earliest(P) \in P
<1>1. P \in SUBSET Nat
  OBVIOUS
<1>2. IsFiniteSet(P)
  <2>1. 1 \in Int /\ n \in Int
    OBVIOUS
  <2>2. IsFiniteSet(1 .. n)
    BY <2>1, FS_Interval
  <2> QED
    BY <2>2, FS_Subset
<1>3. \E k \in P : \A m \in P : k <= m
  BY <1>1, <1>2, LeastNumber
<1> QED
  BY <1>3 DEF Earliest

(* What the main thread makes of what it reads: the subscription of one who is
   no publisher, to a topic; or a publication that was on the wire. *)
Heeds(s) ==
  \E t \in Topic :
    \/ role[s] # "publisher" /\ Subscribe(Main, s, t)
    \/ Publish(Main, s, t) /\ \E i \in 1 .. Len(wire[s]) : wire[s][i] = Note("publication", t)

LEMMA ReadHeeds ==
  ASSUME WireInv, NEW s \in Sock, ServerReads(s)
  PROVE  /\ Heeds(s) /\ WireInv'
         /\ UNCHANGED <<mail, role, at, made, stream>>
         /\ \E n \in 1 .. Len(wire[s]) : wire' = [wire EXCEPT ![s] = SubSeq(wire[s], n + 1, Len(wire[s]))]
<1>1. PICK n \in 1 .. Len(wire[s]) :
        /\ ReadIncome(s, SubSeq(wire[s], 1, n))
        /\ wire' = [wire EXCEPT ![s] = SubSeq(wire[s], n + 1, Len(wire[s]))]
  BY DEF ServerReads
<1>2. UNCHANGED <<mail, role, at, made, stream>>
  BY DEF ServerReads
<1> DEFINE v == wire[s]
           e == Len(v)
<1>3. v \in Seq(Bid) /\ e \in Nat /\ n \in 1 .. e /\ Bids(s, v)
  BY LenProperties DEF WireInv
<1> HIDE DEF v
<1>4. \A i \in 1 .. e : v[i] \in Bid
  BY <1>3, ElementOfSeq
<1> DEFINE q == SubSeq(v, 1, n)
           r == SubSeq(v, n + 1, e)
<1>5. q \in Seq(Bid) /\ Len(q) = n /\ \A i \in 1 .. n : q[i] = v[i] /\ i \in 1 .. e
  <2>1. \A i \in 1 .. n : i \in 1 .. e /\ v[i] \in Bid
    BY <1>3, <1>4
  <2>2. n \in Int /\ n >= 1
    BY <1>3
  <2>3. q \in Seq(Bid) /\ Len(q) = n - 1 + 1 /\ \A i \in 1 .. n - 1 + 1 : q[i] = v[1 + i - 1]
    BY <2>1, <2>2, SubSeqProperties
  <2> HIDE DEF q
  <2> QED
    BY <2>1, <2>2, <2>3
<1>6. Bids(s, r)
  <2>1. \A i \in n + 1 .. e : i \in 1 .. e /\ v[i] \in Bid
    BY <1>3, <1>4
  <2>2. n + 1 \in Int /\ e \in Int
    BY <1>3
  <2>3. /\ r \in Seq(Bid) /\ Len(r) = IF n + 1 <= e THEN e - (n + 1) + 1 ELSE 0
        /\ \A i \in 1 .. e - (n + 1) + 1 : r[i] = v[n + 1 + i - 1]
    BY <2>1, <2>2, SubSeqProperties
  <2> HIDE DEF r
  <2>4. \A i \in 1 .. Len(r) : r[i] = v[n + i] /\ n + i \in 1 .. e
    BY <1>3, <2>3
  <2> QED
    BY <1>3, <2>3, <2>4 DEF Bids
<1>7. WireInv'
  BY <1>1, <1>2, <1>6, WireOf DEF v, r, e
<1> HIDE DEF q, r
<1>8. ReadIncome(s, q)
  BY <1>1 DEF v, q
<1> HIDE DEF e
<1>9. ASSUME Of("subscription", q) # {}, Subscribe(Main, s, NameIn(q)) PROVE Heeds(s)
  <2> DEFINE P == Of("subscription", q)
             i == Earliest(P)
             L == {j \in Of("publication", q) : j > i}
  <2>1. n \in Nat /\ P \in SUBSET (1 .. n) /\ L \in SUBSET (1 .. n)
    BY <1>3, <1>5 DEF Of
  <2> HIDE DEF L
  <2>2. i \in P
    BY <1>9, <2>1, EarliestOf
  <2>3. role[s] # "publisher"
    <3>1. i \in 1 .. n /\ q[i].kind = "subscription"
      BY <1>5, <2>2 DEF Of
    <3>2. i \in 1 .. Len(v) /\ v[i].kind = "subscription"
      BY <1>5, <3>1 DEF e
    <3> QED
      BY <1>3, <3>2 DEF Bids
  <2> HIDE DEF P, i
  <2>4. L # {} => Earliest(L) \in L
    BY <2>1, EarliestOf
  <2>5. NameIn(q) = q[IF L = {} THEN i ELSE Earliest(L)].topic
    BY DEF NameIn, L, i, P
  <2>6. (IF L = {} THEN i ELSE Earliest(L)) \in 1 .. n
    BY <2>1, <2>2, <2>4
  <2>7. NameIn(q) \in Topic
    BY <1>4, <1>5, <2>5, <2>6 DEF Bid
  <2>8. PICK t \in Topic : t = NameIn(q)
    BY <2>7
  <2>9. Subscribe(Main, s, t)
    BY <1>9, <2>8
  <2> QED
    BY <2>3, <2>9 DEF Heeds
<1>10. ASSUME Of("subscription", q) = {}, Publish(Main, s, q[1].topic) PROVE Heeds(s)
  <2>1. 1 \in 1 .. n
    BY <1>3
  <2>2. q[1].kind # "subscription" /\ q[1] = v[1] /\ v[1] \in Bid /\ 1 \in 1 .. e
    BY <1>4, <1>5, <1>10, <2>1 DEF Of
  <2>3. v[1] = Note("publication", v[1].topic) /\ v[1].topic \in Topic
    BY <2>2 DEF Bid, Note
  <2>4. PICK t \in Topic : t = v[1].topic
    BY <2>3
  <2>5. Publish(Main, s, t)
    BY <1>10, <2>2, <2>4
  <2>6. v[1] = Note("publication", t) /\ 1 \in 1 .. Len(v)
    BY <2>2, <2>3, <2>4 DEF e
  <2>7. \E j \in 1 .. Len(wire[s]) : wire[s][j] = Note("publication", t)
    BY <2>6 DEF v
  <2> QED
    BY <2>5, <2>7 DEF Heeds
<1>11. Heeds(s)
  BY <1>8, <1>9, <1>10 DEF ReadIncome
<1> QED
  BY <1>1, <1>2, <1>7, <1>11

(* A step of the server or of a script keeps types and count. *)
LEMMA StepWork == WorkInv /\ [ScriptsNext]_allVars => WorkInv'
<1> SUFFICES ASSUME WorkInv, [ScriptsNext]_allVars PROVE WorkInv'
  OBVIOUS
<1>0. TypeInv /\ MailInv /\ CastInv /\ WireInv /\ Main \in Worker
  BY BrokerAssumption DEF WorkInv
<1>1. CASE ServerStep
  <2>1. TypeInv'
    BY <1>0, <1>1, ServerStepType
  <2>2. CastInv' /\ WireInv'
    BY <1>0, <1>1 DEF ServerStep, scripts, CastInv, WireInv, Bids
  <2>3. MailInv'
    <3>1. CASE NothingPosted
      BY <1>0, <3>1 DEF NothingPosted, MailInv
    <3>2. CASE \E x \in Sock, m \in Letter : Posted(x, m)
      BY <1>0, <3>2, PostedMail
    <3> QED
      BY <1>0, <1>1, <3>1, <3>2, ServerPosts
  <2> QED
    BY <2>1, <2>2, <2>3 DEF WorkInv
<1>2. ASSUME NEW s \in Sock, ScriptSends(s) \/ ScriptReads(s) \/ ScriptChoice(s) PROVE WorkInv'
  <2>0. /\ CastInv' /\ role' = role
        /\ Joins(s) \/ Writes(s) \/ Leaves(s) \/ GivesUp(s) \/ Receives(s)
    BY <1>0, <1>2, ScriptDoes
  <2>0a. wire' = wire => WireInv'
    BY <1>0, <2>0 DEF WireInv, Bids
  <2>1. CASE Joins(s)
    <3>1. NewClient(s) /\ mail' = [mail EXCEPT ![s] = <<Ok>>] /\ wire' = wire
      BY <2>1 DEF Joins, Connect
    <3>2. Next
      BY <3>1 DEF Next
    <3>3. TypeInv'
      BY <1>0, <3>2, StepType
    <3>4. MailInv'
      <4>1. Ok \in Letter /\ <<Ok>> \in Seq(Letter) /\ Len(<<Ok>>) = 1
        BY BrokerAssumption, LetterType
      <4>2. out' = [out EXCEPT ![s] = 1] /\ mail \in [Sock -> Seq(Letter)] /\ out \in [Sock -> 0 .. MaxOut]
        BY <1>0, <3>1 DEF NewClient, MailInv, TypeInv, TypeOK
      <4> HIDE DEF Ok
      <4> QED
        BY <1>0, <3>1, <4>1, <4>2 DEF MailInv
    <3> QED
      BY <2>0, <2>0a, <3>1, <3>3, <3>4 DEF WorkInv
  <2>2. CASE Writes(s)
    <3>1. UNCHANGED vars /\ mail' = mail
      BY <2>2 DEF Writes, Sends
    <3>2. TypeInv'
      BY <1>0, <3>1, StepType
    <3>3. MailInv'
      BY <1>0, <3>1 DEF MailInv, vars, sockets
    <3>4. WireInv'
      BY <1>0, <2>0, <2>2, WritesWire
    <3> QED
      BY <2>0, <3>2, <3>3, <3>4 DEF WorkInv
  <2>3. CASE Leaves(s)
    <3>1. PeerHangsUp(s) /\ mail' = [mail EXCEPT ![s] = <<>>] /\ wire' = wire
      BY <2>3 DEF Leaves
    <3>2. Next
      BY <3>1 DEF Next, Peer
    <3>3. TypeInv'
      BY <1>0, <3>2, StepType
    <3>4. MailInv'
      <4>1. <<>> \in Seq(Letter) /\ Len(<<>>) = 0
        OBVIOUS
      <4>2. out' = [out EXCEPT ![s] = 0] /\ mail \in [Sock -> Seq(Letter)] /\ out \in [Sock -> 0 .. MaxOut]
        BY <1>0, <3>1 DEF PeerHangsUp, MailInv, TypeInv, TypeOK
      <4> QED
        BY <1>0, <3>1, <4>1, <4>2 DEF MailInv
    <3> QED
      BY <2>0, <2>0a, <3>1, <3>3, <3>4 DEF WorkInv
  <2>4. CASE GivesUp(s)
    <3>1. UNCHANGED vars /\ mail' = mail /\ wire' = wire
      BY <2>4 DEF GivesUp
    <3>2. TypeInv'
      BY <1>0, <3>1, StepType
    <3>3. MailInv'
      BY <1>0, <3>1 DEF MailInv, vars, sockets
    <3> QED
      BY <2>0, <2>0a, <3>1, <3>2, <3>3 DEF WorkInv
  <2>5. CASE Receives(s)
    <3>1. PICK n \in 1 .. Len(mail[s]) : Recv(s, n)
      BY <2>5 DEF Receives
    <3>2. wire' = wire
      BY <3>1 DEF Recv
    <3> QED
      BY <1>0, <2>0, <2>0a, <3>1, <3>2, RecvType DEF WorkInv
  <2> QED
    BY <2>0, <2>1, <2>2, <2>3, <2>4, <2>5
<1>3. ASSUME NEW s \in Sock, ServerReads(s) PROVE WorkInv'
  <2>1. /\ Heeds(s) /\ WireInv' /\ UNCHANGED <<mail, role, at, made>>
    BY <1>0, <1>3, ReadHeeds
  <2>2. Takes(Main, s)
    BY <2>1 DEF Heeds, Takes
  <2>3. TypeInv'
    BY <1>0, <2>2, AnyStepType
  <2>4. out' = out
    BY <2>1 DEF Heeds, Subscribe, Publish, sockets
  <2>5. MailInv' /\ CastInv'
    BY <1>0, <2>1, <2>4 DEF MailInv, CastInv
  <2> QED
    BY <2>1, <2>3, <2>5 DEF WorkInv
<1>4. CASE UNCHANGED allVars
  <2>1. UNCHANGED vars /\ UNCHANGED <<mail, role, at, made, wire>>
    BY <1>4 DEF allVars
  <2>2. TypeInv'
    BY <1>0, <2>1, StepType
  <2>3. MailInv' /\ CastInv' /\ WireInv'
    BY <1>0, <2>1 DEF MailInv, CastInv, WireInv, Bids, vars, sockets
  <2> QED
    BY <2>2, <2>3 DEF WorkInv
<1> QED
  BY <1>1, <1>2, <1>3, <1>4 DEF ScriptsNext

(* At the start nothing is in the mail and nothing is counted. *)
LEMMA InitWork == ScriptsInit => WorkInv
<1> SUFFICES ASSUME ScriptsInit PROVE WorkInv
  OBVIOUS
<1>1. TypeInv
  BY InitType DEF ScriptsInit
<1>2. MailInv
  BY DEF ScriptsInit, Init, MailInv
<1>3. CastInv
  BY ScriptsAssumption DEF ScriptsInit, CastInv, Stage
<1>4. WireInv
  BY DEF ScriptsInit, WireInv, Bids
<1> QED
  BY <1>1, <1>2, <1>3, <1>4 DEF WorkInv

(* Every invariant of the server's types holds of it at work. *)
LEMMA AtWork == ScriptsSafe => []WorkInv
BY InitWork, StepWork, PTL DEF ScriptsSafe

-----------------------------------------------------------------------------
(* What is proved of the Broker with its own clients holds of it at work with
   the scripts: what they do to it is what any client may do. *)

(* A step of the server or of a script is one of those of which the Broker's
   invariants are proved. *)
LEMMA ScriptsStepIsAny == WorkInv /\ [ScriptsNext]_allVars => [AnyStep]_vars
<1> SUFFICES ASSUME WorkInv, [ScriptsNext]_allVars PROVE [AnyStep]_vars
  OBVIOUS
<1>0. CastInv /\ WireInv /\ Main \in Worker
  BY BrokerAssumption DEF WorkInv
<1>1. CASE ServerStep
  <2>1. Next
    BY <1>1, BrokerAssumption DEF ServerStep, PublisherStep, WorkerStep, Answer, Next, NotifierStep, Continue, Begin
  <2> QED
    BY <2>1, NextIsAny
<1>2. ASSUME NEW s \in Sock, ScriptSends(s) \/ ScriptReads(s) \/ ScriptChoice(s) PROVE [AnyStep]_vars
  <2>0. Joins(s) \/ Writes(s) \/ Leaves(s) \/ GivesUp(s) \/ Receives(s)
    BY <1>0, <1>2, ScriptDoes
  <2>1. CASE Joins(s) \/ Leaves(s)
    BY <2>1 DEF Joins, Connect, Leaves, AnyStep, Peer
  <2>2. CASE Writes(s) \/ GivesUp(s)
    BY <2>2 DEF Writes, Sends, GivesUp
  <2>3. CASE Receives(s)
    BY <2>3 DEF Receives, Recv, AnyStep, Drains
  <2> QED
    BY <2>0, <2>1, <2>2, <2>3
<1>3. ASSUME NEW s \in Sock, ServerReads(s) PROVE [AnyStep]_vars
  <2>1. Heeds(s)
    BY <1>0, <1>3, ReadHeeds
  <2>2. Takes(Main, s)
    BY <2>1 DEF Heeds, Takes
  <2> QED
    BY <1>0, <2>2 DEF AnyStep, Requests
<1>4. CASE UNCHANGED allVars
  BY <1>4 DEF allVars
<1> QED
  BY <1>1, <1>2, <1>3, <1>4 DEF ScriptsNext

(* The types hold before and after such a step, and the scripts start with the
   Broker's initial state. *)
LEMMA WorkTypes ==
  /\ WorkInv => TypeInv
  /\ ScriptsInit => Init
BY DEF WorkInv, ScriptsInit

(* With the scripts at the other ends, too, publications are sent one after the
   other in the order in which is_publish accepted them. *)
THEOREM ScriptsServedInOrder == ScriptsSafe => DispatchedInOrder
<1>1. ScriptsInit => QueueInv /\ Dispatch!Init
  BY InitQueue, WorkTypes
<1>2. WorkInv /\ WorkInv' /\ QueueInv /\ [ScriptsNext]_allVars => QueueInv' /\ [Dispatch!Next]_(Dispatch!vars)
  BY ScriptsStepIsAny, StepQueue DEF WorkInv
<1> QED
  BY <1>1, <1>2, AtWork, PTL DEF ScriptsSafe, DispatchedInOrder, Dispatch!Spec

(* No script that listens is passed over, though others subscribe and leave
   while send() waits for one that does not read. *)
THEOREM ScriptsListenersServed == ScriptsSafe => []EveryListenerServed
<1>1. ScriptsInit => ServedInv
  BY WorkTypes DEF Init, ServedInv
<1>2. WorkInv /\ ServedInv /\ [ScriptsNext]_allVars => ServedInv'
  BY ScriptsStepIsAny, StepServed DEF WorkInv
<1>3. WorkInv /\ ServedInv => EveryListenerServed
  BY ServedLater DEF WorkInv
<1> QED
  BY <1>1, <1>2, <1>3, AtWork, PTL DEF ScriptsSafe

(* A script that subscribed to two topics at most and ended is forgotten when
   its hang-up has been reported; of one with more subscriptions (the robot
   loads all its topics) at most all but two stay behind. *)
THEOREM ScriptsForgotten == ScriptsSafe => []ForgottenUpToTwo
<1>1. ScriptsInit => HeldInv
  BY WorkTypes, InitHeld
<1>2. WorkInv /\ WorkInv' /\ HeldInv /\ [ScriptsNext]_allVars => HeldInv'
  BY ScriptsStepIsAny, StepHeld DEF WorkInv
<1>3. HeldInv => ForgottenUpToTwo
  BY DEF HeldInv, LeftBehind, ForgottenUpToTwo, Less, Removals
<1> QED
  BY <1>1, <1>2, <1>3, AtWork, PTL DEF ScriptsSafe

(* What ends the process, when no node was erased under an iterator, is a
   send() to a script that has ended and is still to be reported, or that had
   more than two subscriptions. *)
THEOREM ScriptsForgottenHarmless == ScriptsSafe => DiesOfTheUnforgotten
<1>1. ScriptsInit => HeldInv
  BY WorkTypes, InitHeld
<1>2. WorkInv /\ WorkInv' /\ HeldInv /\ [ScriptsNext]_allVars => HeldInv'
  BY ScriptsStepIsAny, StepHeld DEF WorkInv
<1>3. WorkInv /\ HeldInv /\ [ScriptsNext]_allVars =>
        [alive /\ ~alive' /\ ~torn' => \E s \in broken : SentTo(s) /\ ~Forgotten(s)]_vars
  BY ScriptsStepIsAny, StepDies DEF WorkInv
<1> QED
  BY <1>1, <1>2, <1>3, AtWork, PTL DEF ScriptsSafe, DiesOfTheUnforgotten

(* The order the camera was given last says "askstream" exactly when a viewer
   is listed, however the viewers come and go. *)
THEOREM ScriptsStreamOrdered == ScriptsSafe => []StreamFollowsViewers
<1>1. ScriptsInit => StreamInv
  BY WorkTypes, InitStream
<1>2. WorkInv /\ StreamInv /\ [ScriptsNext]_allVars => StreamInv'
  BY ScriptsStepIsAny, StepStream DEF WorkInv
<1>3. StreamInv => StreamFollowsViewers
  BY StreamBetween
<1> QED
  BY <1>1, <1>2, <1>3, AtWork, PTL DEF ScriptsSafe

-----------------------------------------------------------------------------
(* Publishers.  Nobody but the connection itself is the cause of what one is
   sent: it stands in no list, and no callback is at work for it.  What it has
   made and what it may still read come to one before a publication, and to two
   after it. *)

Unknown(s) ==
  /\ conn[s] \in {"free", "up"}
  /\ ~Addressed(s)
Counts(s) ==
  \/ at[s] = "connect" /\ made[s] = 0
  \/ at[s] = "send" /\ made[s] + Len(mail[s]) = 1
  \/ at[s] = "recv" /\ made[s] > 0 /\ made[s] + Len(mail[s]) = 2
PublishersInv == \A s \in Sock : role[s] = "publisher" => Unknown(s) /\ Counts(s)

(* Erasing brings nobody into a list. *)
LEMMA ErasedListeners ==
  ASSUME TypeInv, NEW w, NEW t \in Topic, NEW K \in SUBSET (1 .. Len(subs[t])), NEW next, Erase(w, t, K, next)
  PROVE  \A u \in Topic : Listeners(u)' \subseteq Listeners(u)
<1>1. subs \in [Topic -> Seq(Sock)] /\ subs[t] \in Seq(Sock)
  BY DEF TypeInv, TypeOK
<1>2. subs' = [subs EXCEPT ![t] = Kept(subs[t], K)]
  BY DEF Erase
<1> DEFINE q == Kept(subs[t], K)
<1>3. \A i \in 1 .. Len(q) : \E k \in 1 .. Len(subs[t]) : q[i] = subs[t][k]
  <2>1. /\ Len(q) = Cardinality(K)
        /\ \A i \in 1 .. Cardinality(K) : Nth(K, i) \in K /\ q[i] = subs[t][Nth(K, i)]
    BY <1>1, KeptList
  <2> QED
    BY <2>1
<1> HIDE DEF q
<1>4. ASSUME NEW u \in Topic PROVE Listeners(u)' \subseteq Listeners(u)
  <2>1. CASE u = t
    <3>1. subs'[u] = q
      BY <1>1, <1>2, <2>1 DEF q
    <3> QED
      BY <1>3, <2>1, <3>1 DEF Listeners
  <2>2. CASE u # t
    <3>1. subs'[u] = subs[u]
      BY <1>1, <1>2, <2>2
    <3> QED
      BY <3>1 DEF Listeners
  <2> QED
    BY <2>1, <2>2
<1> QED
  BY <1>4

(* The server takes up a client only when it has hung up. *)
LEMMA ServerLeavesAlone ==
  ASSUME TypeInv, ServerStep, NEW s \in Sock, conn[s] \in {"free", "up"}, ~Addressed(s)
  PROVE  conn'[s] = conn[s] /\ ~Addressed(s)'
<1>0. /\ job \in [Worker -> Jobs] /\ conn \in [Sock -> {"free", "up", "gone", "closed"}]
      /\ \A v \in Worker : job[v] \in Jobs /\ job[v] \in Job /\ job[v].sock # s /\ job[v].topic \in Topic
      /\ \A t \in Topic : s \notin Listeners(t)
      /\ s # NoSock
  BY BrokerAssumption DEF TypeInv, TypeOK, Addressed, Jobs, Job
<1>1. ASSUME \A v \in Worker : job'[v].sock # s, \A t \in Topic : Listeners(t)' \subseteq Listeners(t)
      PROVE  ~Addressed(s)'
  BY <1>0, <1>1 DEF Addressed
<1>2. ASSUME NEW w \in Worker, NEW st, job' = Goes(w, st) \/ job' = [job EXCEPT ![w].st = st]
      PROVE  \A v \in Worker : job'[v].sock # s
  BY <1>0, <1>2 DEF Goes, Jobs, Job
<1>3. ASSUME subs' = subs PROVE \A t \in Topic : Listeners(t)' \subseteq Listeners(t)
  BY <1>3 DEF Listeners
<1>4. ASSUME NEW w \in Worker, NEW t \in Topic, NEW K \in SUBSET (1 .. Len(subs[t])), NEW next,
             Erase(w, t, K, next), next.sock = job[w].sock
      PROVE  ~Addressed(s)'
  <2>1. \A u \in Topic : Listeners(u)' \subseteq Listeners(u)
    BY <1>4, ErasedListeners
  <2>2. job'[w] = next /\ \A v \in Worker \ {w} : SameJob(v)
    BY <1>4, EraseJobs
  <2>3. \A v \in Worker : job'[v].sock # s
    BY <1>0, <1>4, <2>2 DEF SameJob
  <2> QED
    BY <1>1, <2>1, <2>3
<1>5. ASSUME PublisherStep PROVE conn' = conn /\ ~Addressed(s)'
  <2>1. job' = job /\ subs' = subs /\ conn' = conn
    BY <1>5 DEF PublisherStep, SendPublication, Wake, ErasePublished, TakeTopic, SetPublished, EndOfObjects,
                Transmit, sockets
  <2> QED
    BY <1>0, <1>1, <1>3, <2>1
<1>6. ASSUME NEW w \in Worker, SendName(w) \/ SendOrder(w) \/ Reply(w) PROVE conn' = conn /\ ~Addressed(s)'
  <2>1. conn' = conn /\ subs' = subs
    BY <1>6 DEF SendName, SendOrder, Reply, Transmit, sockets
  <2>2. CASE SendName(w)
    <3>1. \E st : job' = Goes(w, st)
      BY <2>2 DEF SendName
    <3> QED
      BY <1>1, <1>2, <1>3, <2>1, <3>1
  <2>3. CASE SendOrder(w)
    <3>1. job' = [job EXCEPT ![w].at = @ + 1]
      BY <2>3 DEF SendOrder
    <3>2. \A v \in Worker : job'[v].sock # s
      BY <1>0, <3>1 DEF Job
    <3> QED
      BY <1>1, <1>3, <2>1, <3>2
  <2>4. CASE Reply(w)
    <3>1. job' = [job EXCEPT ![w] = Resting] /\ Resting.sock = NoSock
      BY <2>4 DEF Reply, Resting
    <3>2. \A v \in Worker : job'[v].sock # s
      BY <1>0, <3>1
    <3> QED
      BY <1>1, <1>3, <2>1, <3>2
  <2> QED
    BY <1>6, <2>1, <2>2, <2>3, <2>4
<1>7. ASSUME NEW w \in Worker, MakeUnique(w) \/ RemoveFirst(w) PROVE conn' = conn /\ ~Addressed(s)'
  <2>1. CASE MakeUnique(w)
    <3> DEFINE t == job[w].topic
               K == Unique(subs[t])
               next == [job[w] EXCEPT !.st = "reply"]
    <3>1. t \in Topic /\ K \in SUBSET (1 .. Len(subs[t])) /\ Erase(w, t, K, next) /\ conn' = conn
      BY <1>0, <2>1 DEF MakeUnique, Unique
    <3>2. next.sock = job[w].sock
      BY <1>0 DEF Job
    <3> HIDE DEF t, K, next
    <3> QED
      BY <1>4, <3>1, <3>2
  <2>2. CASE RemoveFirst(w)
    <3> DEFINE e == First(job[w].sock)
               t == e[1]
               K == (1 .. Len(subs[t])) \ {e[2]}
               next == [job[w] EXCEPT !.st = IF t = View THEN "viewers" ELSE "removed"]
    <3>1. Entries(job[w].sock) # {} /\ Erase(w, t, K, next) /\ conn' = conn
      BY <2>2 DEF RemoveFirst
    <3>2. t \in Topic /\ K \in SUBSET (1 .. Len(subs[t]))
      BY <3>1, FirstEntry
    <3>3. next.sock = job[w].sock
      BY <1>0 DEF Job
    <3> HIDE DEF t, K, next
    <3> QED
      BY <1>4, <3>1, <3>2, <3>3
  <2> QED
    BY <1>7, <2>1, <2>2
<1>8. ASSUME NEW w \in Worker, NEW x \in Sock, HungUp(w, x) PROVE conn' = conn /\ ~Addressed(s)'
  <2>1. x # s /\ conn' = conn /\ subs' = subs
    BY <1>8 DEF HungUp, sockets
  <2>2. job' = [job EXCEPT ![w] = [Resting EXCEPT !.st = "remove", !.sock = x, !.left = Removals, !.reader = TRUE]]
    BY <1>0, <1>8 DEF HungUp, Starts
  <2>3. [Resting EXCEPT !.st = "remove", !.sock = x, !.left = Removals, !.reader = TRUE].sock = x
    BY DEF Resting
  <2>4. \A v \in Worker : job'[v].sock # s
    BY <1>0, <2>1, <2>2, <2>3
  <2> QED
    BY <1>1, <1>3, <2>1, <2>4
<1>9. ASSUME NEW w \in Worker, OrderSent(w) \/ NoneToRemove(w) \/ CheckViewers(w) \/ RemovalDone(w)
      PROVE  conn' = conn /\ ~Addressed(s)'
  <2>1. conn' = conn /\ subs' = subs
    BY <1>9 DEF OrderSent, NoneToRemove, CheckViewers, RemovalDone, sockets
  <2>2. CASE OrderSent(w) \/ NoneToRemove(w) \/ CheckViewers(w)
    <3>1. \E st : job' = Goes(w, st)
      BY <2>2 DEF OrderSent, NoneToRemove, CheckViewers
    <3> QED
      BY <1>1, <1>2, <1>3, <2>1, <3>1
  <2>3. CASE RemovalDone(w)
    <3>1. job' = [job EXCEPT ![w] = [job[w] EXCEPT !.st = "remove", !.left = job[w].left - 1]]
      BY <1>0, <2>3 DEF RemovalDone
    <3>2. [job[w] EXCEPT !.st = "remove", !.left = job[w].left - 1].sock = job[w].sock
      BY <1>0 DEF Job
    <3>3. \A v \in Worker : job'[v].sock # s
      BY <1>0, <3>1, <3>2
    <3> QED
      BY <1>1, <1>3, <2>1, <3>3
  <2> QED
    BY <1>9, <2>1, <2>2, <2>3
<1>10. ASSUME NEW w \in Worker, MarkClosed(w) PROVE conn'[s] = conn[s] /\ ~Addressed(s)'
  <2>1. conn'[s] = conn[s] /\ subs' = subs
    BY <1>0, <1>10 DEF MarkClosed
  <2>2. job' = [job EXCEPT ![w] = Resting] /\ Resting.sock = NoSock
    BY <1>10 DEF MarkClosed, Resting
  <2>3. \A v \in Worker : job'[v].sock # s
    BY <1>0, <2>2
  <2> QED
    BY <1>1, <1>3, <2>1, <2>3
<1>11. ASSUME NEW w \in Worker, WorkerStep(w) PROVE conn'[s] = conn[s] /\ ~Addressed(s)'
  BY <1>6, <1>7, <1>8, <1>9, <1>10, <1>11 DEF WorkerStep, Answer
<1> QED
  BY <1>5, <1>11 DEF ServerStep
(* Nor does another client's doing make it known. *)
LEMMA OthersUnknown ==
  ASSUME TypeInv, NEW s \in Sock, NEW x \in Sock \ {s}, Unknown(x), Main \in Worker,
         \/ NewClient(s) \/ PeerHangsUp(s) \/ UNCHANGED vars
         \/ \E t \in Topic : Subscribe(Main, s, t) \/ Publish(Main, s, t)
         \/ \E n : Recv(s, n)
  PROVE  Unknown(x)'
<1>0. /\ job \in [Worker -> Jobs] /\ conn \in [Sock -> {"free", "up", "gone", "closed"}]
      /\ subs \in [Topic -> Seq(Sock)]
      /\ \A v \in Worker : job[v].sock # x
      /\ \A t \in Topic : x \notin Listeners(t)
  BY DEF TypeInv, TypeOK, Unknown, Addressed
<1>1. CASE NewClient(s) \/ PeerHangsUp(s) \/ UNCHANGED vars \/ (\E n : Recv(s, n))
           \/ \E t \in Topic : Publish(Main, s, t)
  <2>1. conn'[x] = conn[x] /\ job' = job /\ subs' = subs
    BY <1>0, <1>1 DEF NewClient, PeerHangsUp, vars, sockets, Recv, Publish
  <2> QED
    BY <2>1 DEF Unknown, Addressed, Listeners
<1>2. ASSUME NEW t \in Topic, Subscribe(Main, s, t) PROVE Unknown(x)'
  <2> DEFINE j == [Resting EXCEPT !.st = "name", !.sock = s, !.topic = t, !.reader = TRUE]
  <2>1. conn' = conn /\ subs' = [subs EXCEPT ![t] = Append(subs[t], s)] /\ job' = [job EXCEPT ![Main] = j]
    BY <1>2 DEF Subscribe, sockets
  <2>2. j.sock = s
    BY DEF Resting
  <2> HIDE DEF j
  <2>3. \A v \in Worker : job'[v].sock # x
    BY <1>0, <2>1, <2>2
  <2>4. ASSUME NEW u \in Topic PROVE x \notin Listeners(u)'
    <3>1. CASE u = t
      <4>1. subs[t] \in Seq(Sock) /\ Len(subs[t]) \in Nat /\ subs'[u] = Append(subs[t], s)
        BY <1>0, <2>1, <3>1, LenProperties
      <4>2. /\ Len(subs'[u]) = Len(subs[t]) + 1 /\ subs'[u][Len(subs[t]) + 1] = s
            /\ \A i \in 1 .. Len(subs[t]) : subs'[u][i] = subs[t][i]
        BY <4>1, AppendProperties
      <4>3. ASSUME NEW i \in 1 .. Len(subs'[u]) PROVE subs'[u][i] # x
        <5>1. i \in 1 .. Len(subs[t]) \/ i = Len(subs[t]) + 1
          BY <4>1, <4>2
        <5>2. \A k \in 1 .. Len(subs[t]) : subs[t][k] # x
          BY <1>0 DEF Listeners
        <5> QED
          BY <4>2, <5>1, <5>2
      <4> QED
        BY <4>3 DEF Listeners
    <3>2. CASE u # t
      <4>1. subs'[u] = subs[u]
        BY <1>0, <2>1, <3>2
      <4> QED
        BY <1>0, <4>1 DEF Listeners
    <3> QED
      BY <3>1, <3>2
  <2> QED
    BY <2>1, <2>3, <2>4 DEF Unknown, Addressed
<1> QED
  BY <1>1, <1>2

(* A publisher's turn keeps the sum; no step of another makes it known. *)
LEMMA StepPublishers == WorkInv /\ PublishersInv /\ [ScriptsNext]_allVars => PublishersInv'
<1> SUFFICES ASSUME WorkInv, PublishersInv, [ScriptsNext]_allVars,
                    NEW x \in Sock, role'[x] = "publisher"
             PROVE  Unknown(x)' /\ Counts(x)'
  BY DEF PublishersInv
<1>0. /\ TypeInv /\ MailInv /\ CastInv /\ WireInv /\ Main \in Worker
      /\ mail \in [Sock -> Seq(Letter)] /\ at \in [Sock -> Stage] /\ made \in [Sock -> Nat]
      /\ \A s \in Sock : Len(mail[s]) \in Nat
  BY BrokerAssumption, LenProperties DEF WorkInv, MailInv, CastInv
<1>1. ASSUME role' = role PROVE role[x] = "publisher" /\ Unknown(x) /\ Counts(x)
  BY <1>1 DEF PublishersInv
<1>2. ASSUME at'[x] = at[x], made'[x] = made[x], mail'[x] = mail[x], Counts(x) PROVE Counts(x)'
  BY <1>2 DEF Counts
<1>3. CASE ServerStep
  <2>1. role' = role /\ at' = at /\ made' = made
    BY <1>3 DEF ServerStep, scripts
  <2>2. Unknown(x)'
    BY <1>0, <1>1, <1>3, <2>1, ServerLeavesAlone DEF Unknown
  <2>3. mail'[x] = mail[x]
    <3>1. ~Addressed(x)
      BY <1>1, <2>1 DEF Unknown
    <3>2. CASE NothingPosted
      BY <3>2 DEF NothingPosted
    <3>3. ASSUME NEW y \in Sock, NEW m, Addressed(y), Posted(y, m) PROVE mail'[x] = mail[x]
      BY <1>0, <3>1, <3>3 DEF Posted
    <3> QED
      BY <1>0, <1>3, <3>2, <3>3, ServerPosts
  <2> QED
    BY <1>1, <1>2, <2>1, <2>2, <2>3
<1>4. ASSUME NEW s \in Sock, ScriptSends(s) \/ ScriptReads(s) \/ ScriptChoice(s)
      PROVE  Unknown(x)' /\ Counts(x)'
  <2>0. /\ role' = role /\ Solo(s)
        /\ Joins(s) \/ Writes(s) \/ Leaves(s) \/ GivesUp(s) \/ Receives(s)
    BY <1>0, <1>4, ScriptDoes
  <2>1. role[x] = "publisher" /\ Unknown(x) /\ Counts(x)
    BY <1>1, <2>0
  <2>2. CASE x # s
    <3>1. at'[x] = at[x] /\ made'[x] = made[x]
      BY <2>0, <2>2 DEF Solo
    <3>2. mail'[x] = mail[x]
      BY <1>0, <2>0, <2>2 DEF Joins, Connect, Writes, Sends, Leaves, GivesUp, Receives, Recv
    <3>3. NewClient(s) \/ PeerHangsUp(s) \/ UNCHANGED vars \/ \E n : Recv(s, n)
      BY <2>0 DEF Joins, Connect, Writes, Sends, Leaves, GivesUp, Receives
    <3>4. Unknown(x)'
      BY <1>0, <2>1, <2>2, <3>3, OthersUnknown
    <3> QED
      BY <1>2, <2>1, <3>1, <3>2, <3>4
  <2>3. CASE x = s
    <3>1. Joins(x) \/ Writes(x) \/ Receives(x)
      BY <2>0, <2>1, <2>3 DEF Leaves, GivesUp
    <3>2. CASE Joins(x)
      <4>1. /\ at[x] = "connect" /\ NewClient(x) /\ mail' = [mail EXCEPT ![x] = <<Ok>>]
            /\ at' = [at EXCEPT ![x] = "send"] /\ made' = made
        BY <3>2 DEF Joins, Connect, Goto
      <4>2. conn'[x] = "up" /\ job' = job /\ subs' = subs
        BY <1>0, <4>1 DEF NewClient, TypeInv, TypeOK
      <4>3. Unknown(x)'
        BY <2>1, <4>2 DEF Unknown, Addressed, Listeners
      <4>4. made[x] = 0 /\ at'[x] = "send" /\ Len(mail'[x]) = 1
        <5>1. Len(<<Ok>>) = 1
          OBVIOUS
        <5> HIDE DEF Ok
        <5> QED
          BY <1>0, <2>1, <4>1, <5>1 DEF Counts
      <4>5. Counts(x)'
        BY <4>1, <4>4 DEF Counts
      <4> QED
        BY <4>3, <4>5
    <3>3. CASE Writes(x)
      <4>1. PICK t \in Topic : PublisherSends(x, t)
        BY <2>1, <3>3 DEF Writes
      <4>2. /\ at[x] = "send" /\ UNCHANGED vars /\ mail' = mail
            /\ made' = [made EXCEPT ![x] = made[x] + 1] /\ at' = [at EXCEPT ![x] = "recv"]
        BY <4>1 DEF PublisherSends, Publishes, Sends, Doing, Goto
      <4>3. conn' = conn /\ job' = job /\ subs' = subs
        BY <4>2 DEF vars, sockets
      <4>4. Unknown(x)'
        BY <2>1, <4>3 DEF Unknown, Addressed, Listeners
      <4>5. made[x] + Len(mail[x]) = 1 /\ made[x] \in Nat /\ Len(mail[x]) \in Nat
        BY <1>0, <2>1, <4>2 DEF Counts
      <4>6. made'[x] = made[x] + 1 /\ at'[x] = "recv" /\ mail'[x] = mail[x]
        BY <1>0, <4>2
      <4>7. made'[x] > 0 /\ made'[x] + Len(mail'[x]) = 2
        BY <4>5, <4>6
      <4>8. Counts(x)'
        BY <4>6, <4>7 DEF Counts
      <4> QED
        BY <4>4, <4>8
    <3>4. CASE Receives(x)
      <4>1. PICK n \in 1 .. Len(mail[x]) :
              /\ Recv(x, n)
              /\ PublisherReads(x, n) \/ at[x] = "listen"
        BY <2>1, <3>4 DEF Receives
      <4>2. at[x] = "recv" /\ at' = [at EXCEPT ![x] = "send"]
        BY <2>1, <4>1 DEF PublisherReads, Doing, Goto, Counts
      <4>3. /\ conn' = conn /\ job' = job /\ subs' = subs /\ made' = made
            /\ mail' = [mail EXCEPT ![x] = SubSeq(mail[x], n + 1, Len(mail[x]))]
        BY <4>1 DEF Recv
      <4>4. Unknown(x)'
        BY <2>1, <4>3 DEF Unknown, Addressed, Listeners
      <4>5. /\ made[x] > 0 /\ made[x] + Len(mail[x]) = 2 /\ made[x] \in Nat /\ Len(mail[x]) \in Nat
            /\ n = 1 /\ made[x] = 1 /\ Len(mail[x]) = 1
        <5>1. made[x] > 0 /\ made[x] + Len(mail[x]) = 2 /\ made[x] \in Nat /\ Len(mail[x]) \in Nat
          BY <1>0, <2>1, <4>2 DEF Counts
        <5>2. \A a, b \in Nat : a > 0 /\ a + b = 2 => \A k \in 1 .. b : k = 1 /\ a = 1 /\ b = 1
          OBVIOUS
        <5> QED
          BY <5>1, <5>2
      <4>6. MailInv' /\ Len(mail'[x]) = 0
        <5>1. MailInv'
          BY <1>0, <4>1, RecvType
        <5>2. out'[x] = Len(mail'[x]) /\ out[x] = Len(mail[x]) /\ out' = [out EXCEPT ![x] = out[x] - n]
              /\ out \in [Sock -> 0 .. MaxOut]
          BY <1>0, <4>1, <5>1 DEF MailInv, Recv, TypeInv, TypeOK
        <5>3. out'[x] = 0
          BY <4>5, <5>2
        <5> QED
          BY <5>1, <5>2, <5>3
      <4>7. at'[x] = "send" /\ made'[x] = 1
        BY <1>0, <4>2, <4>3, <4>5
      <4>8. Counts(x)'
        BY <4>6, <4>7 DEF Counts
      <4> QED
        BY <4>4, <4>8
    <3> QED
      BY <2>3, <3>1, <3>2, <3>3, <3>4
  <2> QED
    BY <2>2, <2>3
<1>5. ASSUME NEW s \in Sock, ServerReads(s) PROVE Unknown(x)' /\ Counts(x)'
  <2>1. Heeds(s) /\ UNCHANGED <<mail, role, at, made>>
    BY <1>0, <1>5, ReadHeeds
  <2>2. role[x] = "publisher" /\ Unknown(x) /\ Counts(x)
    BY <1>1, <2>1
  <2>3. PICK t \in Topic : (role[s] # "publisher" /\ Subscribe(Main, s, t)) \/ Publish(Main, s, t)
    BY <2>1 DEF Heeds
  <2>4. ASSUME x # s PROVE Unknown(x)'
    <3>1. Subscribe(Main, s, t) \/ Publish(Main, s, t)
      BY <2>3
    <3> QED
      BY <1>0, <2>2, <2>4, <3>1, OthersUnknown
  <2>5. ASSUME x = s PROVE Unknown(x)'
    <3>1. Publish(Main, s, t)
      BY <2>2, <2>3, <2>5
    <3>2. conn' = conn /\ subs' = subs /\ job' = job
      BY <3>1 DEF Publish, sockets
    <3> QED
      BY <2>2, <3>2 DEF Unknown, Addressed, Listeners
  <2>6. Counts(x)'
    BY <1>2, <2>1, <2>2
  <2> QED
    BY <2>4, <2>5, <2>6
<1>6. CASE UNCHANGED allVars
  <2>1. UNCHANGED <<conn, job, subs, mail, at, made, role>>
    BY <1>6 DEF allVars, vars, sockets
  <2> QED
    BY <1>1, <1>2, <2>1 DEF Unknown, Addressed, Listeners
<1> QED
  BY <1>3, <1>4, <1>5, <1>6 DEF ScriptsNext

(* A publisher makes two publications at most: the one that needs no answer,
   and the one that the "ok" of its connection lets it make. *)
THEOREM TwoAtMost == ScriptsSafe => []PublisherMakesTwo
<1>1. ScriptsInit => PublishersInv
  <2> SUFFICES ASSUME ScriptsInit, NEW s \in Sock PROVE Unknown(s) /\ Counts(s)
    BY DEF PublishersInv
  <2>1. conn[s] = "free" /\ at[s] = "connect" /\ made[s] = 0
    BY DEF ScriptsInit, Init
  <2>2. ~Addressed(s)
    <3>1. \A w \in Worker : job[w].sock = NoSock
      BY DEF ScriptsInit, Init, Resting
    <3>2. \A t \in Topic : Len(subs[t]) = 0
      BY DEF ScriptsInit, Init
    <3>3. NoSock # s
      BY BrokerAssumption
    <3> QED
      BY <3>1, <3>2, <3>3 DEF Addressed, Listeners
  <2> QED
    BY <2>1, <2>2 DEF Unknown, Counts
<1>2. WorkInv /\ PublishersInv => PublisherMakesTwo
  <2> SUFFICES ASSUME WorkInv, PublishersInv, NEW s \in Sock, role[s] = "publisher" PROVE made[s] <= 2
    BY DEF PublisherMakesTwo
  <2>1. made[s] \in Nat /\ Len(mail[s]) \in Nat
    BY LenProperties DEF WorkInv, MailInv, CastInv
  <2> QED
    BY <2>1 DEF PublishersInv, Counts
<1> QED
  BY <1>1, <1>2, AtWork, StepPublishers, PTL DEF ScriptsSafe
-----------------------------------------------------------------------------
(* The robot's stream.  No publication of "askstopstream" is on its way to the
   server, on the list or in the mail, if no script makes one: what the server sends is an order. *)

NobodyStops == Stop \notin Published /\ \A s \in Sock : Stop \notin Commands[s]
NoneStops == \A i \in 1 .. Len(objects) : objects[i].topic # Stop
NoneSent == \A x \in Sock : \A i \in 1 .. Len(wire[x]) : wire[x][i] # Note("publication", Stop)
NotTold == \A x \in Sock : \A i \in 1 .. Len(mail[x]) : mail[x][i] # Note("publication", Stop)
StreamInvariant == NoneStops /\ NoneSent /\ NotTold

(* The server puts no topic on the list. *)
LEMMA ServerAddsNoTopic ==
  ASSUME TypeInv, ServerStep
  PROVE  \A i \in 1 .. Len(objects') : \E k \in 1 .. Len(objects) : objects'[i].topic = objects[k].topic
<1> DEFINE Record == [id : 1 .. MaxPub, topic : Topic, published : BOOLEAN]
<1>1. objects \in Seq(Record) /\ Len(objects) \in Nat
  BY LenProperties DEF TypeInv, TypeOK
<1>2. CASE objects' = objects
  BY <1>2
<1>3. CASE ErasePublished
  <2> DEFINE K == (1 .. Len(objects)) \ {ntf.k}
             q == Kept(objects, K)
  <2>1. K \in SUBSET (1 .. Len(objects)) /\ objects' = q
    BY <1>3 DEF ErasePublished
  <2> HIDE DEF K, Record
  <2>2. Len(q) = Cardinality(K) /\ \A i \in 1 .. Cardinality(K) : Nth(K, i) \in K /\ q[i] = objects[Nth(K, i)]
    BY <1>1, <2>1, KeptList
  <2> HIDE DEF q
  <2> QED
    BY <2>1, <2>2
<1>4. CASE SetPublished
  <2> DEFINE k == ntf.k
  <2>1. objects' = [objects EXCEPT ![k].published = TRUE]
    BY <1>4 DEF SetPublished
  <2> HIDE DEF k
  <2>2. Len(objects') = Len(objects)
    <3>1. objects' = [objects EXCEPT ![k] = [objects[k] EXCEPT !.published = TRUE]]
      BY <2>1
    <3> QED
      BY <1>1, <3>1, ExceptSeq
  <2>3. ASSUME NEW i \in 1 .. Len(objects) PROVE objects'[i].topic = objects[i].topic
    BY <1>1, <2>1, <2>3, ElementOfSeq
  <2> QED
    BY <2>2, <2>3
<1>5. objects' = objects \/ ErasePublished \/ SetPublished
  <2>1. ASSUME NEW w \in Worker, WorkerStep(w) PROVE objects' = objects
    BY <2>1 DEF WorkerStep, SendName, SendOrder, Answer, Reply, OrderSent, MakeUnique, HungUp, RemoveFirst,
                NoneToRemove, CheckViewers, RemovalDone, MarkClosed, Erase
  <2>2. ASSUME PublisherStep PROVE objects' = objects \/ ErasePublished \/ SetPublished
    BY <2>2 DEF PublisherStep, SendPublication, Wake, TakeTopic, EndOfObjects
  <2> QED
    BY <2>1, <2>2 DEF ServerStep
<1> QED
  BY <1>2, <1>3, <1>4, <1>5

(* Whatever the server and the scripts do, nothing tells a robot to stop. *)
LEMMA StepNobodyStops == NobodyStops /\ WorkInv /\ StreamInvariant /\ [ScriptsNext]_allVars => StreamInvariant'
<1> SUFFICES ASSUME NobodyStops, WorkInv, StreamInvariant, [ScriptsNext]_allVars
             PROVE  StreamInvariant'
  OBVIOUS
<1>0. /\ TypeInv /\ MailInv /\ CastInv /\ WireInv /\ NoneStops /\ NoneSent /\ NotTold /\ Ask # Stop
      /\ wire \in [Sock -> Seq(Bid)] /\ \A x \in Sock : wire[x] \in Seq(Bid) /\ Len(wire[x]) \in Nat
      /\ mail \in [Sock -> Seq(Letter)] /\ \A x \in Sock : mail[x] \in Seq(Letter) /\ Len(mail[x]) \in Nat
  BY BrokerAssumption, LenProperties DEF WorkInv, MailInv, WireInv, StreamInvariant
<1>1. ASSUME NEW x \in Sock, NEW q, mail' = [mail EXCEPT ![x] = q],
             \A i \in 1 .. Len(q) : q[i] # Note("publication", Stop)
      PROVE  NotTold'
  <2>1. ASSUME NEW y \in Sock, NEW i \in 1 .. Len(mail'[y]) PROVE mail'[y][i] # Note("publication", Stop)
    BY <1>0, <1>1, <2>1 DEF NotTold
  <2> QED
    BY <2>1 DEF NotTold
<1>2. ASSUME mail' = mail PROVE NotTold'
  BY <1>0, <1>2 DEF NotTold
<1>3. ASSUME objects' = objects PROVE NoneStops'
  BY <1>0, <1>3 DEF NoneStops
<1>3a. ASSUME wire' = wire PROVE NoneSent'
  BY <1>0, <1>3a DEF NoneSent
<1>3b. ASSUME NEW x \in Sock, NEW q, wire' = [wire EXCEPT ![x] = q],
              \A i \in 1 .. Len(q) : q[i] # Note("publication", Stop)
       PROVE  NoneSent'
  <2>1. ASSUME NEW y \in Sock, NEW i \in 1 .. Len(wire'[y]) PROVE wire'[y][i] # Note("publication", Stop)
    BY <1>0, <1>3b, <2>1 DEF NoneSent
  <2> QED
    BY <2>1 DEF NoneSent
<1>4. CASE ServerStep
  <2>1. NoneStops'
    BY <1>0, <1>4, ServerAddsNoTopic DEF NoneStops
  <2>2. ASSUME NEW x \in Sock, NEW m \in Letter, Posted(x, m),
               m.kind = "publication" => \E i \in 1 .. Len(objects) : m.topic = objects[i].topic
        PROVE  NotTold'
    <3> DEFINE q == Append(mail[x], m)
    <3>1. m # Note("publication", Stop)
      BY <1>0, <2>2 DEF NoneStops, Note
    <3>2. /\ Len(q) = Len(mail[x]) + 1 /\ q[Len(mail[x]) + 1] = m
          /\ \A i \in 1 .. Len(mail[x]) : q[i] = mail[x][i]
      BY <1>0, AppendProperties
    <3>3. mail' = [mail EXCEPT ![x] = q]
      BY <2>2 DEF Posted
    <3>4. \A i \in 1 .. Len(mail[x]) : mail[x][i] # Note("publication", Stop)
      BY <1>0 DEF NotTold
    <3> HIDE DEF q
    <3>5. ASSUME NEW i \in 1 .. Len(q) PROVE q[i] # Note("publication", Stop)
      <4>1. i \in 1 .. Len(mail[x]) \/ i = Len(mail[x]) + 1
        BY <1>0, <3>2
      <4> QED
        BY <3>1, <3>2, <3>4, <4>1
    <3> QED
      BY <1>1, <3>3, <3>5
  <2>3. ASSUME NothingPosted PROVE NotTold'
    BY <1>2, <2>3 DEF NothingPosted
  <2>4. NotTold'
    BY <1>0, <1>4, <2>2, <2>3, ServerPosts
  <2>5. NoneSent'
    BY <1>3a, <1>4 DEF ServerStep, scripts
  <2> QED
    BY <2>1, <2>4, <2>5 DEF StreamInvariant
<1>5. ASSUME NEW s \in Sock, ScriptSends(s) \/ ScriptReads(s) \/ ScriptChoice(s) PROVE StreamInvariant'
  <2>0. Joins(s) \/ Writes(s) \/ Leaves(s) \/ GivesUp(s) \/ Receives(s)
    BY <1>0, <1>5, ScriptDoes
  <2>1. CASE Joins(s)
    <3>1. objects' = objects /\ mail' = [mail EXCEPT ![s] = <<Ok>>] /\ wire' = wire
      BY <2>1 DEF Joins, Connect, NewClient
    <3>2. \A i \in 1 .. Len(<<Ok>>) : <<Ok>>[i] # Note("publication", Stop)
      BY DEF Ok, Note
    <3> HIDE DEF Ok
    <3> QED
      BY <1>1, <1>3, <1>3a, <3>1, <3>2 DEF StreamInvariant
  <2>2. CASE GivesUp(s)
    <3>1. objects' = objects /\ mail' = mail /\ wire' = wire
      BY <2>2 DEF GivesUp, vars
    <3> QED
      BY <1>2, <1>3, <1>3a, <3>1 DEF StreamInvariant
  <2>3. CASE Writes(s)
    <3>1. PICK kind \in {"subscription", "publication"}, u \in Topic :
            Sends(s, kind, u) /\ (kind = "publication" => u \in Published \cup Commands[s] \cup {Ask})
      BY <2>3 DEF Writes
    <3> DEFINE m == Note(kind, u)
               q == Append(wire[s], m)
    <3>2. objects' = objects /\ mail' = mail /\ wire' = [wire EXCEPT ![s] = q]
      BY <3>1 DEF Sends, vars
    <3>3. m # Note("publication", Stop) /\ m \in Bid
      BY <1>0, <3>1 DEF NobodyStops, Note, Bid
    <3>4. /\ Len(q) = Len(wire[s]) + 1 /\ q[Len(wire[s]) + 1] = m
          /\ \A i \in 1 .. Len(wire[s]) : q[i] = wire[s][i]
      BY <1>0, <3>3, AppendProperties
    <3> HIDE DEF q, m
    <3>5. ASSUME NEW i \in 1 .. Len(q) PROVE q[i] # Note("publication", Stop)
      <4>1. i \in 1 .. Len(wire[s]) \/ i = Len(wire[s]) + 1
        BY <1>0, <3>4
      <4> QED
        BY <1>0, <3>3, <3>4, <4>1 DEF NoneSent
    <3> QED
      BY <1>2, <1>3, <1>3b, <3>2, <3>5 DEF StreamInvariant
  <2>4. CASE Leaves(s)
    <3>1. objects' = objects /\ mail' = [mail EXCEPT ![s] = <<>>] /\ wire' = wire
      BY <2>4 DEF Leaves, PeerHangsUp
    <3>2. \A i \in 1 .. Len(<<>>) : <<>>[i] # Note("publication", Stop)
      OBVIOUS
    <3> QED
      BY <1>1, <1>3, <1>3a, <3>1, <3>2 DEF StreamInvariant
  <2>5. CASE Receives(s)
    <3>1. PICK n \in 1 .. Len(mail[s]) : Recv(s, n)
      BY <2>5 DEF Receives
    <3> DEFINE e == Len(mail[s])
               q == SubSeq(mail[s], n + 1, e)
    <3>2. objects' = objects /\ mail' = [mail EXCEPT ![s] = q] /\ wire' = wire
      BY <3>1 DEF Recv
    <3>3. n \in Nat /\ e \in Nat /\ n <= e /\ n > 0
      BY <1>0
    <3>4. Len(q) = e - n /\ \A i \in 1 .. e - n : q[i] = mail[s][n + i] /\ n + i \in 1 .. e
      BY <1>0, <3>3
    <3> HIDE DEF q
    <3>5. \A i \in 1 .. Len(q) : q[i] # Note("publication", Stop)
      BY <1>0, <3>4 DEF NotTold
    <3> QED
      BY <1>1, <1>3, <1>3a, <3>2, <3>5 DEF StreamInvariant
  <2> QED
    BY <2>0, <2>1, <2>2, <2>3, <2>4, <2>5
<1>6. ASSUME NEW s \in Sock, ServerReads(s) PROVE StreamInvariant'
  <2>1. /\ Heeds(s) /\ mail' = mail
        /\ \E n \in 1 .. Len(wire[s]) : wire' = [wire EXCEPT ![s] = SubSeq(wire[s], n + 1, Len(wire[s]))]
    BY <1>0, <1>6, ReadHeeds
  <2>2. NotTold'
    BY <1>2, <2>1
  <2>3. NoneSent'
    <3>1. PICK n \in 1 .. Len(wire[s]) : wire' = [wire EXCEPT ![s] = SubSeq(wire[s], n + 1, Len(wire[s]))]
      BY <2>1
    <3> DEFINE e == Len(wire[s])
               q == SubSeq(wire[s], n + 1, e)
    <3>2. n \in Nat /\ e \in Nat /\ n <= e /\ n > 0
      BY <1>0
    <3>3. Len(q) = e - n /\ \A i \in 1 .. e - n : q[i] = wire[s][n + i] /\ n + i \in 1 .. e
      BY <1>0, <3>2
    <3>4. wire' = [wire EXCEPT ![s] = q]
      BY <3>1
    <3> HIDE DEF q
    <3>5. \A i \in 1 .. Len(q) : q[i] # Note("publication", Stop)
      BY <1>0, <3>3 DEF NoneSent
    <3> QED
      BY <1>3b, <3>4, <3>5
  <2>4. NoneStops'
    <3>0. PICK t \in Topic :
            \/ Subscribe(Main, s, t)
            \/ Publish(Main, s, t) /\ \E i \in 1 .. Len(wire[s]) : wire[s][i] = Note("publication", t)
      BY <2>1 DEF Heeds
    <3>1. CASE Subscribe(Main, s, t)
      BY <1>3, <3>1 DEF Subscribe
    <3>2. CASE Publish(Main, s, t) /\ \E i \in 1 .. Len(wire[s]) : wire[s][i] = Note("publication", t)
      <4>1. t # Stop
        BY <1>0, <3>2 DEF NoneSent
      <4>2. pubs + 1 \in 1 .. MaxPub
        <5>1. pubs \in 0 .. MaxPub /\ MaxPub \in Nat /\ pubs < MaxPub
          BY <1>0, <3>2, BrokerAssumption DEF Publish, TypeInv, TypeOK
        <5> QED
          BY <5>1
      <4> DEFINE o == [id |-> pubs + 1, topic |-> t, published |-> FALSE]
                 Record == [id : 1 .. MaxPub, topic : Topic, published : BOOLEAN]
      <4>3. objects' = Append(objects, o) /\ o \in Record /\ o.topic = t
        BY <3>2, <4>2 DEF Publish, Queued
      <4>4. objects \in Seq(Record)
        BY <1>0 DEF TypeInv, TypeOK
      <4> HIDE DEF o, Record
      <4>5. /\ Len(objects) \in Nat /\ Len(objects') = Len(objects) + 1 /\ objects'[Len(objects) + 1] = o
            /\ \A i \in 1 .. Len(objects) : objects'[i] = objects[i]
        BY <4>3, <4>4, AppendProperties, LenProperties
      <4>6. ASSUME NEW i \in 1 .. Len(objects') PROVE objects'[i].topic # Stop
        <5>1. i \in 1 .. Len(objects) \/ i = Len(objects) + 1
          BY <4>5
        <5> QED
          BY <1>0, <4>1, <4>3, <4>5, <5>1 DEF NoneStops
      <4> QED
        BY <4>6 DEF NoneStops
    <3> QED
      BY <3>0, <3>1, <3>2
  <2> QED
    BY <2>2, <2>3, <2>4 DEF StreamInvariant
<1>7. CASE UNCHANGED allVars
  BY <1>2, <1>3, <1>3a, <1>7 DEF allVars, vars, StreamInvariant
<1> QED
  BY <1>4, <1>5, <1>6, <1>7 DEF ScriptsNext

(* A robot's stream ends only at a message that it takes for "askstopstream":
   of what it is sent, the server's order has no divider, and the rest is what
   the scripts published. *)
LEMMA StreamKept == WorkInv /\ StreamInvariant /\ [ScriptsNext]_allVars => [stream \subseteq stream']_allVars
<1> SUFFICES ASSUME WorkInv, StreamInvariant, [ScriptsNext]_allVars
             PROVE  stream \subseteq stream'
  OBVIOUS
<1>0. MailInv /\ CastInv /\ NotTold /\ \A x \in Sock : mail[x] \in Seq(Letter)
  BY DEF WorkInv, StreamInvariant, MailInv
<1>1. CASE ServerStep \/ UNCHANGED allVars
  BY <1>1 DEF ServerStep, scripts, asking, allVars
<1>1a. ASSUME NEW s \in Sock, ServerReads(s) PROVE stream \subseteq stream'
  BY <1>1a DEF ServerReads
<1>2. ASSUME NEW s \in Sock, ScriptSends(s) \/ ScriptReads(s) \/ ScriptChoice(s) PROVE stream \subseteq stream'
  <2>1. CASE UNCHANGED asking
    BY <2>1 DEF asking
  <2>2. ASSUME NEW n \in 1 .. Len(mail[s]), RobotReads(s, n) PROVE stream \subseteq stream'
    <3>1. 1 \in 1 .. Len(mail[s])
      BY <1>0, LenProperties
    <3>2. mail[s][1] \in Letter /\ mail[s][1] # Note("publication", Stop)
      BY <1>0, <3>1, ElementOfSeq DEF NotTold
    <3>3. mail[s][1].kind = "publication" => mail[s][1].topic # Stop
      BY <3>2 DEF Letter, Note
    <3> QED
      BY <2>2, <3>3 DEF RobotReads
  <2>3. Receives(s) \/ UNCHANGED asking
    BY <1>0, <1>2, ScriptDoes
  <2> QED
    BY <2>1, <2>2, <2>3 DEF Receives
<1> QED
  BY <1>1, <1>1a, <1>2 DEF ScriptsNext

(* If no script publishes "askstopstream", a robot's camera never stops once
   it is on: the order that the server gives when the last viewer has gone
   does not reach it (remote_ai_server.hpp's send_immediate_message leaves out
   the divider that the robot's data_handler looks for). *)
THEOREM NothingStopsTheStream ==
  ASSUME NobodyStops
  PROVE  ScriptsSafe => StreamStaysOn
<1>1. ScriptsInit => StreamInvariant
  BY DEF ScriptsInit, Init, StreamInvariant, NoneStops, NoneSent, NotTold
<1>2. WorkInv /\ StreamInvariant /\ [ScriptsNext]_allVars => StreamInvariant'
  BY StepNobodyStops
<1> QED
  BY <1>1, <1>2, AtWork, StreamKept, PTL DEF ScriptsSafe, StreamStaysOn
=============================================================================
