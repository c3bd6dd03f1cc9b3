----------------------- MODULE RemoteAIClient_proofs -----------------------
(* The theorems about RemoteAIClient: for any topics, any number of lost
   connections, any room in the send buffer and any interleaving of the two tasks,
   no frame is torn outside reconnect_host but by what was refused next to it, and
   the server ends up knowing every topic whose last subscription was taken. *)
EXTENDS RemoteAIClient, TLAPS, WellFoundedInduction

-----------------------------------------------------------------------------
(* The invariant. *)

(* What each task may be doing, and what it does it for: a subject whose turn
   it is has been added, and the loop's topics are those whose turn is over. *)
Turn == task["loop"].k
Tasks ==
  /\ task["loop"].st # "retry" /\ task["async"].st \in PassState \cup {"idle", "retry"}
  /\ \A w \in Task : task[w].st \in {"head", "body", "settle"} => task[w].x \in known
  /\ task["loop"].st \in Loading => Turn \in 1 .. Topics
Added ==
  /\ task["loop"].st = "setup" => known = {}
  /\ task["loop"].st \in PassState => known = topics \cup {Load[Turn]}
  /\ task["loop"].st \notin PassState => known = topics
Sendable == \A i \in 1 .. Len(inbox) : inbox[i].topic \in known
ClientInv == TypeOK /\ Tasks /\ Added /\ Sendable

(* As long as no frame is torn, what was written last to the connection is what
   the one task amid a frame of which nothing was refused wrote, or the end of a
   frame, or what came before a part that was refused. *)
Last(st) ==
  CASE st \in {"body", "image pre"} -> "head" [] st = "image" -> "pre" [] OTHER -> "image"
InFrame == {w \in Task : MidFrame(w)}
LineInv ==
  link = "up" /\ ~torn =>
    /\ \A w \in InFrame \ cut : wire.by = w /\ wire.part = Last(task[w].st)
    /\ wire.part # "end" => wire.by \in InFrame \cup cut

(* What a pass has written since it began, and what of it the server has or was
   refused in part. *)
Written(w) == {t \in known : t < task[w].x \/ (t = task[w].x /\ task[w].st \in {"settle", "pass"})}
Settled == heard \cup refused
LastPass(w) == task[w].st \in PassState /\ Written(w) \subseteq Settled

(* On a connection that came up in time, a pass is yet to come, or one that
   began on this connection goes on, or the server knows of every topic of which
   nothing was refused. *)
HeardInv ==
  link = "up" /\ intime /\ ~torn =>
    PassToCome \/ LastPass("loop") \/ LastPass("async") \/ known \subseteq Settled

-----------------------------------------------------------------------------
(* Lemmas. *)

(* A set of numbers has a least one: Least and After walk through a std::map. *)
LEMMA LeastIn ==
  ASSUME NEW S \in SUBSET Nat, S # {}
  PROVE  Least(S) \in S /\ \A m \in S : Least(S) <= m
<1> DEFINE R == OpToRel(<, Nat)
<1>1. PICK k \in S : \A m \in S : ~(<<m, k>> \in R)
  <2>1. IsWellFoundedOn(R, Nat)
    BY NatLessThanWellFounded
  <2> HIDE DEF R
  <2> QED
    BY <2>1, WFMin
<1>2. ASSUME NEW m \in S PROVE k <= m
  <2>1. m \in Nat /\ k \in Nat
    OBVIOUS
  <2>2. ~(m < k)
    BY <1>1, <2>1 DEF OpToRel
  <2> QED
    BY <2>1, <2>2
<1>3. \E x \in S : \A m \in S : x <= m
  BY <1>2
<1> QED
  BY <1>3 DEF Least

(* The states of loop() while it sends a picture, and what it writes in each. *)
LEMMA ImageStates ==
  /\ ImageState[1] = "image head" /\ ImageState[2] = "image pre" /\ ImageState[3] = "image"
  /\ ImageState[4] = "image end" /\ ImageState[5] = "idle"
  /\ Image[1] = "head" /\ Image[2] = "pre" /\ Image[3] = "image" /\ Image[4] = "end"
<1>1. \A i \in 1 .. 5 : ImageState[i] = <<"image head", "image pre", "image", "image end", "idle">>[i]
  BY DEF ImageState
<1>2. 1 \in 1 .. 5 /\ 2 \in 1 .. 5 /\ 3 \in 1 .. 5 /\ 4 \in 1 .. 5 /\ 5 \in 1 .. 5
  OBVIOUS
<1> QED
  BY <1>1, <1>2 DEF Image

(* So TaskState is this set, and the parts of a frame are these four. *)
LEMMA States ==
  /\ TaskState = {"add", "pass", "head", "body", "settle", "setup", "retry",
                  "image head", "image pre", "image", "image end", "idle"}
  /\ {Image[i] : i \in 1 .. 4} = {"head", "pre", "image", "end"}
<1>1. {ImageState[i] : i \in 1 .. 5} = {"image head", "image pre", "image", "image end", "idle"}
  <2>1. 1 .. 5 = {1, 2, 3, 4, 5}
    OBVIOUS
  <2>2. {ImageState[i] : i \in 1 .. 5}
          = {ImageState[1], ImageState[2], ImageState[3], ImageState[4], ImageState[5]}
    BY <2>1
  <2> QED
    BY <2>2, ImageStates
<1>2. {Image[i] : i \in 1 .. 4} = {"head", "pre", "image", "end"}
  <2>1. 1 .. 4 = {1, 2, 3, 4}
    OBVIOUS
  <2>2. {Image[i] : i \in 1 .. 4} = {Image[1], Image[2], Image[3], Image[4]}
    BY <2>1
  <2> QED
    BY <2>2, ImageStates
<1> QED
  BY <1>1, <1>2 DEF TaskState, Loading, PassState
-----------------------------------------------------------------------------
(* Types. *)

(* What a write does to the line: it touches nothing while the connection is
   not up, and what the server hears of is the subject whose turn it is. *)
LEMMA WriteType ==
  ASSUME ClientInv, NEW w \in Task, NEW part \in {"head", "pre", "image", "end"}, Write(w, part)
  PROVE  /\ wire' \in [by : Task \cup {"none"}, part : {Image[i] : i \in 1 .. 4}]
         /\ torn' \in BOOLEAN /\ heard' \subseteq known /\ cut' \subseteq Task /\ refused' \subseteq known
         /\ cut' \subseteq Task /\ refused' \subseteq known
<1>1. task[w].st \in {"head", "body"} => task[w].x \in known
  BY DEF ClientInv, Tasks
<1>2. CASE link = "up" /\ ~torn
  <2>1. PICK room \in Room : Takes(w, part, room)
    BY <1>2 DEF Write
  <2>2. wire' \in {wire, [by |-> w, part |-> part]}
    BY <2>1 DEF Takes
  <2>3. torn' \in BOOLEAN
    BY <2>1, Zenon DEF Takes
  <2>4. heard' \subseteq known /\ refused' \subseteq known /\ cut' \subseteq Task
    BY <1>1, <2>1 DEF Takes, ClientInv, TypeOK
  <2> QED
    <3>1. [by |-> w, part |-> part] \in [by : Task \cup {"none"}, part : {Image[i] : i \in 1 .. 4}]
      BY States
    <3>2. wire \in [by : Task \cup {"none"}, part : {Image[i] : i \in 1 .. 4}]
      BY DEF ClientInv, TypeOK
    <3> QED
      BY <2>2, <2>3, <2>4, <3>1, <3>2
<1>3. CASE ~(link = "up" /\ ~torn)
  BY <1>3 DEF Write, line, ClientInv, TypeOK
<1> QED
  BY <1>2, <1>3

(* A task that is given another state, topic or subject of the right kind. *)
LEMMA TaskMoves ==
  ASSUME ClientInv, NEW w \in Task, NEW r \in [st : TaskState, k : 0 .. Topics, x : 0 .. Topics],
         task' = [task EXCEPT ![w] = r], topics' = topics, known' = known,
         r.st \in {"head", "body", "settle"} => r.x \in known,
         w = "loop" => /\ r.st \notin {"setup", "retry"}
                       /\ r.st \in Loading => r.k \in 1 .. Topics
                       /\ r.st \in PassState => known = topics \cup {Load[r.k]}
                       /\ r.st \notin PassState => known = topics,
         w = "async" => r.st \in PassState \cup {"idle", "retry"}
  PROVE  /\ task' \in [Task -> [st : TaskState, k : 0 .. Topics, x : 0 .. Topics]]
         /\ Tasks' /\ Added'
<1>1. task \in [Task -> [st : TaskState, k : 0 .. Topics, x : 0 .. Topics]] /\ Tasks /\ Added
  BY DEF ClientInv, TypeOK
<1>2. /\ task' \in [Task -> [st : TaskState, k : 0 .. Topics, x : 0 .. Topics]]
      /\ task'[w] = r /\ \A v \in Task \ {w} : task'[v] = task[v]
  BY <1>1
<1>3. Task = {"loop", "async"}
  BY DEF Task
<1>4. Tasks'
  BY <1>1, <1>2, <1>3 DEF Tasks, Turn, Loading
<1>5. Added'
  BY <1>1, <1>2, <1>3 DEF Added, Turn
<1> QED
  BY <1>2, <1>4, <1>5

(* A pass over the subjects keeps all types. *)
LEMMA PassingType ==
  ASSUME ClientInv, NEW w \in Task, Passing(w)
  PROVE  ClientInv'
<1> DEFINE rec == [st : TaskState, k : 0 .. Topics, x : 0 .. Topics]
<1>0. /\ task \in [Task -> rec] /\ known \subseteq Topic /\ Topics \in Nat /\ Tasks /\ Added /\ Sendable
      /\ task[w] \in rec /\ task[w].x \in Nat
  BY ClientAssumption DEF ClientInv, TypeOK
<1>1. /\ topics' = topics /\ known' = known /\ UNCHANGED <<net, validation, stream, intime>>
  BY DEF Passing, NextSubject, WriteHead, WriteBody, Settle, maps
<1>2. \E r \in rec : /\ task' = [task EXCEPT ![w] = r] /\ r.k = task[w].k
                     /\ r.st \in PassState /\ (r.st \in {"head", "body", "settle"} => r.x \in known)
                     /\ task[w].st \in PassState
  <2>1. CASE NextSubject(w)
    <3> DEFINE u == Least(After(known, task[w].x))
               r == [task[w] EXCEPT !.st = "head", !.x = u]
    <3>1. u \in known
      <4>1. After(known, task[w].x) \in SUBSET Nat /\ After(known, task[w].x) # {}
        BY <1>0, <2>1 DEF NextSubject, After, Topic
      <4> QED
        BY <4>1, LeastIn DEF After
    <3> HIDE DEF u
    <3>2. u \in 0 .. Topics
      BY <1>0, <3>1 DEF Topic
    <3>3. r \in rec /\ r.k = task[w].k /\ r.st = "head" /\ r.x = u
      BY <1>0, <3>2, States
    <3>4. task' = [task EXCEPT ![w] = r]
      BY <1>0, <2>1 DEF NextSubject, u
    <3>5. task[w].st = "pass"
      BY <2>1 DEF NextSubject, At
    <3> QED
      BY <3>1, <3>3, <3>4, <3>5 DEF PassState
  <2>2. ASSUME NEW st \in {"body", "settle", "pass", "head"}, task' = Goes(w, st),
               task[w].st \in {"head", "body", "settle"}
        PROVE  \E r \in rec : /\ task' = [task EXCEPT ![w] = r] /\ r.k = task[w].k
                     /\ r.st \in PassState /\ (r.st \in {"head", "body", "settle"} => r.x \in known)
                     /\ task[w].st \in PassState
    <3> DEFINE r == [task[w] EXCEPT !.st = st]
    <3>1. r \in rec /\ r.k = task[w].k /\ r.st = st /\ r.x = task[w].x
      BY <1>0, States
    <3>2. task' = [task EXCEPT ![w] = r]
      BY <1>0, <2>2 DEF Goes
    <3>3. task[w].x \in known
      BY <1>0, <2>2 DEF Tasks
    <3> QED
      BY <2>2, <3>1, <3>2, <3>3 DEF PassState
  <2>3. CASE WriteHead(w) \/ WriteBody(w) \/ Settle(w)
    <3>1. task[w].st \in {"head", "body", "settle"}
      BY <2>3 DEF WriteHead, WriteBody, Settle, At
    <3> QED
      BY <2>2, <2>3, <3>1 DEF WriteHead, WriteBody, Settle
  <2> QED
    BY <2>1, <2>3 DEF Passing
<1>3. task' \in [Task -> rec] /\ Tasks' /\ Added'
  <2>1. PICK r \in rec : /\ task' = [task EXCEPT ![w] = r] /\ r.k = task[w].k
                     /\ r.st \in PassState /\ (r.st \in {"head", "body", "settle"} => r.x \in known)
                     /\ task[w].st \in PassState
    BY <1>2
  <2>2. w = "loop" => /\ r.st \notin {"setup", "retry"}
                      /\ r.k \in 1 .. Topics
                      /\ known = topics \cup {Load[r.k]}
    BY <1>0, <2>1 DEF Tasks, Added, Turn, Loading, PassState
  <2> QED
    BY <1>1, <2>1, <2>2, TaskMoves
<1>4. /\ wire' \in [by : Task \cup {"none"}, part : {Image[i] : i \in 1 .. 4}]
      /\ torn' \in BOOLEAN /\ heard' \subseteq known /\ cut' \subseteq Task /\ refused' \subseteq known
  <2>1. CASE WriteHead(w) \/ WriteBody(w)
    BY <2>1, WriteType DEF WriteHead, WriteBody
  <2>2. CASE ~(WriteHead(w) \/ WriteBody(w))
    <3>1. UNCHANGED line
      BY <2>2 DEF Passing, NextSubject, Settle, line
    <3> QED
      BY <3>1 DEF line, ClientInv, TypeOK
  <2> QED
    BY <2>1, <2>2
<1>5. valid' \subseteq known
  <2>1. CASE Settle(w)
    BY <1>0, <2>1 DEF Settle, Validated, ClientInv, TypeOK
  <2>2. CASE ~Settle(w)
    BY <2>2 DEF Passing, NextSubject, WriteHead, WriteBody, maps, ClientInv, TypeOK
  <2> QED
    BY <2>1, <2>2
<1>6. Sendable'
  BY <1>0, <1>1 DEF Sendable, net
<1> QED
  BY <1>1, <1>3, <1>4, <1>5, <1>6 DEF ClientInv, TypeOK, net

(* The numbers a task can keep. *)
LEMMA Numbers ==
  /\ Topics \in Nat /\ 0 \in 0 .. Topics /\ 1 \in 0 .. Topics /\ 1 \in Topic
  /\ Topic \subseteq 0 .. Topics /\ Topic \subseteq Nat /\ \A t \in Topic : t > 0
<1>1. Topics \in Nat /\ Topics # 0
  BY ClientAssumption
<1>2. \A n \in 1 .. Topics : n \in 0 .. Topics /\ n \in Nat /\ n > 0
  BY <1>1
<1>3. 0 \in 0 .. Topics /\ 1 \in 0 .. Topics /\ 1 \in 1 .. Topics
  BY <1>1
<1> QED
  BY <1>1, <1>2, <1>3 DEF Topic

(* What setup() does keeps all types. *)
LEMMA LoadingType ==
  ASSUME ClientInv, Setup \/ AddSubject \/ TopicAdded
  PROVE  ClientInv'
<1> DEFINE rec == [st : TaskState, k : 0 .. Topics, x : 0 .. Topics]
           l == task["loop"]
<1>0. /\ task \in [Task -> rec] /\ known \subseteq Topic /\ Topics \in Nat /\ Tasks /\ Added /\ Sendable
      /\ l \in rec /\ "loop" \in Task /\ "async" \in Task /\ Topics >= 1
      /\ topics \subseteq known /\ heard \subseteq known /\ valid \subseteq known /\ refused \subseteq known /\ TypeOK
      /\ \A t \in Topic : Load[t] \in Topic
  BY ClientAssumption DEF ClientInv, TypeOK, Task
<1>1. CASE Setup
  <2> DEFINE r == [st |-> "add", k |-> 1, x |-> 0]
  <2>0. "add" \in TaskState /\ 1 \in 0 .. Topics /\ 0 \in 0 .. Topics
    BY ONLY Numbers, States
  <2>1. r \in rec
    BY <2>0
  <2>2. /\ task' = [task EXCEPT !["loop"] = r] /\ topics' = topics /\ known' = known
        /\ l.st = "setup"
    BY <1>1 DEF Setup, At
  <2>3. known = topics
    BY <1>0, <2>2 DEF Added, PassState
  <2>4. task' \in [Task -> rec] /\ Tasks' /\ Added'
    <3>1. r.st \in Loading /\ r.st \notin PassState /\ r.k \in 1 .. Topics
      BY <1>0 DEF Loading, PassState
    <3> HIDE DEF rec
    <3> QED
      BY <1>0, <2>1, <2>2, <2>3, <3>1, TaskMoves DEF rec
  <2>5. Sendable'
    BY <1>0, <1>1 DEF Setup, Sendable
  <2> QED
    BY <1>0, <1>1, <2>4, <2>5 DEF Setup, ClientInv, TypeOK, line
<1>2. CASE AddSubject
  <2> DEFINE r == [st |-> "pass", k |-> l.k, x |-> 0]
             t == Load[l.k]
  <2>1. l.st = "add" /\ l.k \in 1 .. Topics /\ known = topics
    BY <1>0, <1>2 DEF AddSubject, At, Tasks, Turn, Loading, Added, PassState
  <2>a. "pass" \in TaskState /\ l.k \in 0 .. Topics /\ 0 \in 0 .. Topics /\ l.k \in Topic
    BY <2>1, Numbers, States DEF Topic
  <2>2. r \in rec /\ t \in Topic
    BY <1>0, <2>a
  <2>3. /\ task' = [task EXCEPT !["loop"] = r] /\ known' = known \cup {t} /\ topics' = topics
        /\ valid' = valid \ {t} /\ UNCHANGED <<net, line, validation, stream, intime>>
    BY <1>2 DEF AddSubject, Pass
  <2>4. task' \in [Task -> rec] /\ task'["loop"] = r /\ task'["async"] = task["async"]
    BY <1>0, <2>2, <2>3
  <2> HIDE DEF t
  <2>5. Added'
    BY <2>1, <2>3, <2>4 DEF Added, Turn, PassState, t
  <2>6. Tasks'
    <3>1. r.st = "pass" /\ r.k = l.k /\ r.k \in 1 .. Topics
      BY <2>1
    <3> HIDE DEF r
    <3>2. \A w \in Task : task'[w].st \in {"head", "body", "settle"} => task'[w].x \in known'
      BY <1>0, <2>3, <2>4, <3>1 DEF Tasks, Task
    <3> QED
      BY <1>0, <2>4, <3>1, <3>2 DEF Tasks, Turn, PassState, Loading
  <2>7. Sendable'
    BY <1>0, <2>3 DEF Sendable, net
  <2>8. heard' \subseteq known' /\ refused' \subseteq known' /\ topics' \subseteq known' /\ valid' \subseteq known' /\ known' \subseteq Topic
    BY <1>0, <2>2, <2>3 DEF line
  <2> QED
    BY <1>0, <2>3, <2>4, <2>5, <2>6, <2>7, <2>8 DEF ClientInv, TypeOK, line, net
<1>3. CASE TopicAdded
  <2>1. l.st = "pass" /\ l.k \in 1 .. Topics /\ known = topics \cup {Load[l.k]}
    BY <1>0, <1>3 DEF TopicAdded, PassOver, At, Tasks, Turn, Loading, Added, PassState
  <2>2. /\ topics' = known /\ known' = known /\ valid' = valid /\ validation' \in {validation, FALSE}
        /\ UNCHANGED <<net, line, stream, intime>>
    BY <1>3, <2>1 DEF TopicAdded
  <2>3. \E r \in rec : /\ task' = [task EXCEPT !["loop"] = r]
                       /\ (r.st = "add" /\ r.k \in 1 .. Topics) \/ r.st = "idle"
    <3>1. CASE l.k < Topics
      <4> DEFINE r == [l EXCEPT !.st = "add", !.k = l.k + 1]
      <4>0. l.k + 1 \in 1 .. Topics /\ l.k + 1 \in 0 .. Topics
        BY <1>0, <2>1, <3>1
      <4>1. r \in rec /\ r.st = "add" /\ r.k = l.k + 1
        BY <1>0, <4>0, States
      <4>2. task' = [task EXCEPT !["loop"] = r]
        BY <1>0, <1>3, <3>1 DEF TopicAdded
      <4> QED
        BY <4>0, <4>1, <4>2
    <3>2. CASE ~(l.k < Topics)
      <4> DEFINE r == [l EXCEPT !.st = "idle"]
      <4>1. r \in rec /\ r.st = "idle"
        BY <1>0, States
      <4>2. task' = [task EXCEPT !["loop"] = r]
        BY <1>0, <1>3, <3>2 DEF TopicAdded, Goes
      <4> QED
        BY <4>1, <4>2
    <3> QED
      BY <3>1, <3>2
  <2>4. PICK r \in rec : /\ task' = [task EXCEPT !["loop"] = r]
                         /\ (r.st = "add" /\ r.k \in 1 .. Topics) \/ r.st = "idle"
    BY <2>3
  <2>5. task' \in [Task -> rec] /\ task'["loop"] = r /\ task'["async"] = task["async"]
    BY <1>0, <2>4
  <2>6. Added'
    BY <2>2, <2>4, <2>5 DEF Added, PassState
  <2>7. Tasks'
    BY <1>0, <2>2, <2>4, <2>5 DEF Tasks, Turn, Loading, PassState, Task
  <2>8. Sendable'
    BY <1>0, <2>2 DEF Sendable, net
  <2> QED
    BY <1>0, <2>2, <2>5, <2>6, <2>7, <2>8 DEF ClientInv, TypeOK, line, net
<1> QED
  BY <1>1, <1>2, <1>3

(* So does a picture on its way, *)
LEMMA PictureType ==
  ASSUME ClientInv, Capture \/ \E i \in 1 .. 4 : WriteImage(i)
  PROVE  ClientInv'
<1> DEFINE rec == [st : TaskState, k : 0 .. Topics, x : 0 .. Topics]
           l == task["loop"]
           Sending == {"image head", "image pre", "image", "image end", "idle"}
<1>0. /\ task \in [Task -> rec] /\ Tasks /\ Added /\ Sendable /\ "loop" \in Task /\ l \in rec /\ TypeOK
  BY DEF ClientInv, TypeOK, Task
<1>1. /\ \E st \in Sending : task' = Goes("loop", st)
      /\ l.st \in Sending /\ UNCHANGED <<net, maps, stream, intime>>
      /\ UNCHANGED line \/ \E part \in {"head", "pre", "image", "end"} : Write("loop", part)
  <2>1. CASE Capture
    BY <2>1 DEF Capture, At
  <2>2. ASSUME NEW i \in 1 .. 4, WriteImage(i)
        PROVE  /\ \E st \in Sending : task' = Goes("loop", st)
               /\ l.st \in Sending /\ UNCHANGED <<net, maps, stream, intime>>
               /\ \E part \in {"head", "pre", "image", "end"} : Write("loop", part)
    <3>1. i \in {1, 2, 3, 4} /\ i + 1 \in {2, 3, 4, 5}
      OBVIOUS
    <3>2. /\ ImageState[i] \in Sending /\ ImageState[i + 1] \in Sending
          /\ Image[i] \in {"head", "pre", "image", "end"}
      BY <3>1, ImageStates
    <3> QED
      BY <2>2, <3>2 DEF WriteImage, At
  <2> QED
    BY <2>1, <2>2
<1>2. PICK st \in Sending : task' = Goes("loop", st)
  BY <1>1
<1>3. task' \in [Task -> rec] /\ Tasks' /\ Added'
  <2> DEFINE r == [l EXCEPT !.st = st]
  <2>1. r \in rec /\ r.st = st
    BY <1>0, States
  <2>2. task' = [task EXCEPT !["loop"] = r] /\ topics' = topics /\ known' = known
    BY <1>0, <1>1, <1>2 DEF Goes, maps
  <2>3. st \notin PassState /\ st \notin Loading /\ st \notin {"setup", "retry"} /\ l.st \notin PassState
    BY <1>1 DEF PassState, Loading
  <2>4. known = topics
    BY <1>0, <2>3 DEF Added
  <2> HIDE DEF r
  <2>5. r.st \notin {"head", "body", "settle"}
    BY <2>1
  <2> QED
    BY <1>0, <2>1, <2>2, <2>3, <2>4, <2>5, TaskMoves
<1>4. /\ wire' \in [by : Task \cup {"none"}, part : {Image[i] : i \in 1 .. 4}]
      /\ torn' \in BOOLEAN /\ heard' \subseteq known /\ cut' \subseteq Task /\ refused' \subseteq known
  <2>1. CASE UNCHANGED line
    BY <1>0, <2>1 DEF line, TypeOK
  <2> QED
    BY <1>0, <1>1, <2>1, WriteType
<1>5. Sendable'
  BY <1>0, <1>1 DEF Sendable, net, maps
<1> QED
  BY <1>0, <1>1, <1>3, <1>4, <1>5 DEF ClientInv, TypeOK, net, maps

(* reconnect_host, *)
LEMMA ReconnectType ==
  ASSUME ClientInv, Reconnect \/ Retry \/ Resubscribed \/ Reconnected
  PROVE  ClientInv'
<1> DEFINE rec == [st : TaskState, k : 0 .. Topics, x : 0 .. Topics]
           a == task["async"]
<1>0. /\ task \in [Task -> rec] /\ Tasks /\ Added /\ Sendable /\ "async" \in Task /\ a \in rec /\ TypeOK
      /\ Topics \in Nat /\ topics \subseteq Topic
  BY ClientAssumption DEF ClientInv, TypeOK, Task
<1>1. /\ UNCHANGED <<drops, inbox, line, maps, stream, intime>>
      /\ link' \in {"down", "opening", "up"} /\ lost' \in BOOLEAN
  BY <1>0 DEF Reconnect, Retry, Resubscribed, Reconnected, net, TypeOK
<1>2. \A S \in SUBSET topics : S # {} => Least(S) \in 0 .. Topics
  <2>1. \A S \in SUBSET topics : S # {} => Least(S) \in S
    BY <1>0, LeastIn DEF Topic
  <2> QED
    BY ONLY <1>0, <2>1, Numbers
<1>3. \E r \in rec : task' = [task EXCEPT !["async"] = r] /\ r.st \in {"pass", "idle", "retry"}
  <2>1. ASSUME NEW st \in {"idle", "retry"}, task' = Goes("async", st)
        PROVE  \E r \in rec : task' = [task EXCEPT !["async"] = r] /\ r.st \in {"pass", "idle", "retry"}
    <3> DEFINE r == [a EXCEPT !.st = st]
    <3>1. r \in rec /\ r.st = st
      BY <1>0, States
    <3>2. task' = [task EXCEPT !["async"] = r]
      BY <1>0, <2>1 DEF Goes
    <3> QED
      BY <3>1, <3>2
  <2>2. ASSUME NEW S \in SUBSET topics, S # {}, Pass("async", Least(S))
        PROVE  \E r \in rec : task' = [task EXCEPT !["async"] = r] /\ r.st \in {"pass", "idle", "retry"}
    <3> DEFINE k == Least(S)
    <3>1. k \in 0 .. Topics /\ task' = [task EXCEPT !["async"] = [st |-> "pass", k |-> k, x |-> 0]]
      BY <1>2, <2>2 DEF Pass
    <3> HIDE DEF k
    <3>2. "pass" \in TaskState /\ 0 \in 0 .. Topics
      BY ONLY Numbers, States
    <3>3. [st |-> "pass", k |-> k, x |-> 0] \in rec
      BY <3>1, <3>2
    <3> QED
      BY <3>1, <3>3
  <2>3. ASSUME UNCHANGED task
        PROVE  a.st = "retry" => \E r \in rec : task' = [task EXCEPT !["async"] = r] /\ r.st \in {"pass", "idle", "retry"}
    <3>1. task' = [task EXCEPT !["async"] = a]
      BY <1>0, <2>3
    <3> QED
      BY <1>0, <3>1
  <2>4. CASE Reconnect \/ Reconnected
    BY <2>1, <2>4 DEF Reconnect, Reconnected
  <2>5. CASE Retry
    BY <2>2, <2>3, <2>5 DEF Retry, At
  <2>6. CASE Resubscribed
    <3>1. NextTopic(a.k) \in SUBSET topics
      BY DEF NextTopic, After
    <3> QED
      BY <2>1, <2>2, <2>6, <3>1 DEF Resubscribed
  <2> QED
    BY <2>4, <2>5, <2>6
<1>4. task' \in [Task -> rec] /\ Tasks' /\ Added'
  <2>1. PICK r \in rec : task' = [task EXCEPT !["async"] = r] /\ r.st \in {"pass", "idle", "retry"}
    BY <1>3
  <2>2. r.st \in PassState \cup {"idle", "retry"} /\ r.st \notin {"head", "body", "settle"}
    BY <2>1 DEF PassState
  <2>3. topics' = topics /\ known' = known
    BY <1>1 DEF maps
  <2> QED
    BY <1>0, <2>1, <2>2, <2>3, TaskMoves
<1>5. Sendable'
  BY <1>0, <1>1 DEF Sendable, maps
<1> QED
  BY <1>0, <1>1, <1>4, <1>5 DEF ClientInv, TypeOK, line, maps

(* and what the network brings and takes. *)
LEMMA NetworkType ==
  ASSUME ClientInv,
         \/ Established \/ Drop \/ \E m \in ServerMessage : ServerSends(m)
         \/ SegmentCut \/ \E n \in 1 .. MaxInbox : DataHandler(n)
  PROVE  ClientInv'
<1>0. /\ TypeOK /\ Tasks /\ Added /\ Sendable /\ MaxDrops \in Nat /\ MaxInbox \in Nat
      /\ inbox \in Seq(ServerMessage) /\ Len(inbox) \in Nat
      /\ \A i \in 1 .. Len(inbox) : inbox[i] \in ServerMessage
  BY ClientAssumption DEF ClientInv, TypeOK
<1>1. task' = task /\ topics' = topics /\ known' = known /\ validation' = validation
  BY DEF Established, Drop, ServerSends, SegmentCut, DataHandler, maps
<1>2. Tasks' /\ Added'
  BY <1>0, <1>1 DEF Tasks, Added, Turn
<1>3. inbox' \in Seq(ServerMessage) /\ Len(inbox') <= MaxInbox /\ Sendable'
  <2>1. CASE Established \/ Drop
    <3>1. inbox' = <<>> /\ Len(inbox') = 0
      BY <2>1 DEF Established, Drop
    <3> QED
      BY <1>0, <3>1 DEF Sendable
  <2>2. ASSUME NEW m \in ServerMessage, ServerSends(m)
        PROVE  inbox' \in Seq(ServerMessage) /\ Len(inbox') <= MaxInbox /\ Sendable'
    <3>1. inbox' = Append(inbox, m) /\ m.topic \in known /\ Len(inbox) < MaxInbox
      BY <1>0, <2>2 DEF ServerSends, TypeOK
    <3>2. /\ inbox' \in Seq(ServerMessage) /\ Len(inbox') = Len(inbox) + 1
          /\ \A i \in 1 .. Len(inbox) : inbox'[i] = inbox[i]
          /\ inbox'[Len(inbox) + 1] = m
      BY <1>0, <3>1
    <3> QED
      BY <1>0, <1>1, <3>1, <3>2 DEF Sendable
  <2>3. ASSUME NEW n \in 1 .. Len(inbox), inbox' = SubSeq(inbox, n + 1, Len(inbox))
        PROVE  inbox' \in Seq(ServerMessage) /\ Len(inbox') <= MaxInbox /\ Sendable'
    <3>1. /\ inbox' \in Seq(ServerMessage) /\ Len(inbox') = Len(inbox) - n
          /\ \A i \in 1 .. Len(inbox) - n : inbox'[i] = inbox[n + i]
      BY <1>0, <2>3
    <3>2. \A i \in 1 .. Len(inbox) - n : n + i \in 1 .. Len(inbox)
      BY <1>0
    <3>3. Len(inbox) <= MaxInbox
      BY <1>0 DEF TypeOK
    <3>4. Len(inbox') <= MaxInbox
      BY ONLY <1>0, <3>1, <3>3, n \in 1 .. Len(inbox)
    <3>5. \A i \in 1 .. Len(inbox) - n : inbox'[i].topic \in known'
      BY <1>0, <1>1, <3>1, <3>2 DEF Sendable
    <3> QED
      BY <3>1, <3>4, <3>5 DEF Sendable
  <2>4. CASE SegmentCut
    <3>1. inbox' = SubSeq(inbox, 1 + 1, Len(inbox)) /\ 1 \in 1 .. Len(inbox)
      BY <1>0, <2>4 DEF SegmentCut
    <3> QED
      BY <2>3, <3>1
  <2>5. ASSUME NEW n \in 1 .. MaxInbox, DataHandler(n)
        PROVE  inbox' \in Seq(ServerMessage) /\ Len(inbox') <= MaxInbox /\ Sendable'
    <3>1. n \in 1 .. Len(inbox) /\ inbox' = SubSeq(inbox, n + 1, Len(inbox))
      BY <1>0, <2>5 DEF DataHandler
    <3> QED
      BY <2>3, <3>1
  <2> QED
    BY <2>1, <2>2, <2>4, <2>5
<1>4. valid' \subseteq known
  <2>1. ASSUME NEW n \in 1 .. MaxInbox, DataHandler(n) PROVE valid' \subseteq known
    <3>1. Head(inbox).topic \in known
      BY <1>0, <2>1 DEF DataHandler, Sendable
    <3> QED
      BY <1>0, <2>1, <3>1 DEF DataHandler, TypeOK
  <2> QED
    BY <1>0, <2>1 DEF Established, Drop, ServerSends, SegmentCut, maps, TypeOK
<1>5. /\ link' \in {"down", "opening", "up"} /\ lost' \in BOOLEAN /\ drops' \in 0 .. MaxDrops
      /\ stream' \in BOOLEAN /\ intime' \in BOOLEAN
  <2>1. CASE Established
    BY <1>0, <2>1 DEF Established, TypeOK, PassToCome, At
  <2>2. CASE Drop
    <3>1. lost' \in BOOLEAN
      BY <2>2, Zenon DEF Drop, At
    <3>2. drops' \in 0 .. MaxDrops
      BY <1>0, <2>2 DEF Drop, TypeOK
    <3> QED
      BY <1>0, <2>2, <3>1, <3>2 DEF Drop, TypeOK
  <2>3. CASE \E n \in 1 .. MaxInbox : DataHandler(n)
    BY <1>0, <2>3 DEF DataHandler, TypeOK
  <2> QED
    BY <1>0, <2>1, <2>2, <2>3 DEF ServerSends, SegmentCut, TypeOK
<1>6. /\ wire' \in [by : Task \cup {"none"}, part : {Image[i] : i \in 1 .. 4}]
      /\ torn' \in BOOLEAN /\ heard' \subseteq known /\ cut' \subseteq Task /\ refused' \subseteq known
  <2>1. CASE Established
    <3>1. Fresh \in [by : Task \cup {"none"}, part : {Image[i] : i \in 1 .. 4}]
      BY States DEF Fresh
    <3> QED
      BY <2>1, <3>1 DEF Established
  <2> QED
    BY <1>0, <2>1 DEF Drop, ServerSends, SegmentCut, DataHandler, line, TypeOK
<1> QED
  BY <1>0, <1>1, <1>2, <1>3, <1>4, <1>5, <1>6 DEF ClientInv, TypeOK

(* Together: the types, and what each task is doing, hold for good. *)
LEMMA ClientInit == Init => ClientInv
<1>1. SUFFICES ASSUME Init PROVE ClientInv
  OBVIOUS
<1>2. /\ link = "down" /\ lost = FALSE /\ drops = 0 /\ inbox = <<>> /\ heard = {} /\ wire = Fresh /\ torn = FALSE
      /\ cut = {} /\ refused = {}
      /\ topics = {} /\ known = {} /\ valid = {} /\ validation = FALSE /\ stream = FALSE /\ intime = FALSE
      /\ task = [w \in Task |-> [st |-> IF w = "loop" THEN "setup" ELSE "idle", k |-> 0, x |-> 0]]
  BY <1>1 DEF Init
<1>3. /\ task \in [Task -> [st : TaskState, k : 0 .. Topics, x : 0 .. Topics]]
      /\ task["loop"].st = "setup" /\ task["async"].st = "idle" /\ \A w \in Task : task[w].st \in {"setup", "idle"}
  <2>1. "setup" \in TaskState /\ "idle" \in TaskState /\ 0 \in 0 .. Topics
    BY ONLY States, Numbers
  <2> QED
    BY <1>2, <2>1 DEF Task
<1>4. wire \in [by : Task \cup {"none"}, part : {Image[i] : i \in 1 .. 4}]
  BY <1>2, States DEF Fresh
<1>5. drops \in 0 .. MaxDrops /\ inbox \in Seq(ServerMessage) /\ Len(inbox) <= MaxInbox /\ Len(inbox) = 0
  BY <1>2, ClientAssumption
<1>6. Tasks /\ Added
  BY <1>2, <1>3 DEF Tasks, Added, PassState, Loading
<1>7. Sendable
  BY <1>5 DEF Sendable
<1> QED
  BY <1>2, <1>3, <1>4, <1>5, <1>6, <1>7 DEF ClientInv, TypeOK

(* ClientInv holds after every step if it held before. *)
LEMMA ClientStep == ClientInv /\ [Next]_vars => ClientInv'
<1>1. SUFFICES ASSUME ClientInv, [Next]_vars PROVE ClientInv'
  OBVIOUS
<1>2. CASE UNCHANGED vars
  BY <1>1, <1>2 DEF vars, net, line, maps, ClientInv, TypeOK, Tasks, Added, Turn, Sendable
<1>3. CASE LoopStep
  BY <1>1, <1>3, LoadingType, PassingType, PictureType DEF LoopStep, Task
<1>4. CASE AsyncStep
  BY <1>1, <1>4, ReconnectType, PassingType, NetworkType DEF AsyncStep, Task
<1>5. CASE Established \/ Drop \/ \E m \in ServerMessage : ServerSends(m)
  BY <1>1, <1>5, NetworkType
<1> QED
  BY <1>1, <1>2, <1>3, <1>4, <1>5 DEF Next

(* Every variable keeps its type: the server is never heard to know a subject
   that was not added, nor is a subject valid, walked to or sent that was not,
   whatever is lost and however the two tasks interleave. *)
THEOREM ClientTypeCorrect == Spec => []TypeOK
<1>1. Spec => []ClientInv
  BY ClientInit, ClientStep, PTL DEF Spec
<1>2. ClientInv => TypeOK
  BY DEF ClientInv
<1> QED
  BY <1>1, <1>2, PTL

-----------------------------------------------------------------------------
(* Frames. *)

(* The steps that write: what a task writes in a state, and where it goes. *)
Writes == {<<"head", "head", "body">>, <<"body", "end", "settle">>,
           <<"image head", "head", "image pre">>, <<"image pre", "pre", "image">>,
           <<"image", "image", "image end">>, <<"image end", "end", "idle">>}
Writing(w, part, st) ==
  /\ <<task[w].st, part, st>> \in Writes
  /\ Write(w, part) /\ task' = Goes(w, st)
  /\ UNCHANGED <<net, maps, stream, intime>>

(* No other step of a task does. *)
LEMMA WritingSteps ==
  ASSUME NEW w \in Task,
         WriteHead(w) \/ WriteBody(w) \/ (w = "loop" /\ \E i \in 1 .. 4 : WriteImage(i))
  PROVE  \E part, st : Writing(w, part, st)
<1>1. CASE WriteHead(w)
  BY <1>1 DEF WriteHead, Writing, Writes, At
<1>2. CASE WriteBody(w)
  BY <1>2 DEF WriteBody, Writing, Writes, At
<1>3. ASSUME w = "loop", NEW i \in 1 .. 4, WriteImage(i)
      PROVE  \E part, st : Writing(w, part, st)
  <2>1. i \in {1, 2, 3, 4} /\ (i = 1 => i + 1 = 2) /\ (i = 2 => i + 1 = 3) /\ (i = 3 => i + 1 = 4)
        /\ (i = 4 => i + 1 = 5)
    OBVIOUS
  <2>2. <<ImageState[i], Image[i], ImageState[i + 1]>> \in Writes
    BY <2>1, ImageStates DEF Writes
  <2> QED
    BY <1>3, <2>2 DEF WriteImage, Writing, At
<1> QED
  BY <1>1, <1>2, <1>3

(* What a write does to a line that is whole before and after it: all of it was
   taken and fitted, or nothing was. *)
LEMMA WriteTaken ==
  ASSUME NEW w, NEW part, Write(w, part), link = "up", ~torn, ~torn'
  PROVE  \/ /\ wire' = wire /\ heard' = heard /\ cut' = cut \cup {w}
            /\ refused \subseteq refused'
            /\ task[w].st \in {"head", "body"} => task[w].x \in refused'
         \/ /\ Fits(w, part) /\ wire' = [by |-> w, part |-> part]
            /\ part = "head" => cut' = {u \in cut \ {w} : MidFrame(u)}
            /\ part # "head" => cut' = cut
            /\ heard \subseteq heard' /\ refused' = refused \ heard'
            /\ task[w].st = "body" /\ part = "end" => task[w].x \in heard'
<1>1. PICK room \in Room : Takes(w, part, room)
  BY DEF Write
<1>2. CASE room = "none"
  BY <1>1, <1>2 DEF Takes
<1>3. CASE room # "none"
  <2>1. room = "all" /\ Fits(w, part)
    BY <1>1, <1>3 DEF Takes
  <2> QED
    BY <1>1, <2>1 DEF Takes
<1> QED
  BY <1>2, <1>3

(* It leaves the line as its task knows it. *)
LEMMA WriteKeepsLine ==
  ASSUME ClientInv, LineInv, NEW w \in Task, NEW part, NEW st, Writing(w, part, st)
  PROVE  LineInv'
<1> SUFFICES ASSUME link' = "up", ~torn'
             PROVE  /\ \A v \in InFrame' \ cut' : wire'.by = v /\ wire'.part = Last(task'[v].st)
                    /\ wire'.part # "end" => wire'.by \in InFrame' \cup cut'
  BY DEF LineInv
<1>1. link = "up" /\ Write(w, part) /\ ~torn
  <2>1. link = "up" /\ Write(w, part)
    BY DEF Writing, net
  <2> QED
    BY <2>1 DEF Write, line
<1>2. /\ task'[w].st = st /\ \A v \in Task \ {w} : task'[v] = task[v]
  BY DEF Writing, Goes, ClientInv, TypeOK
<1>3. /\ <<task[w].st, part, st>> \in Writes
      /\ (st \in {"body", "image pre", "image", "image end"} <=> part # "end")
      /\ (part # "end" => part = Last(st))
      /\ (part # "head" => w \in InFrame)
  BY DEF Writing, Writes, Last, InFrame, MidFrame
<1>4. /\ \A v \in InFrame \ cut : wire.by = v /\ wire.part = Last(task[v].st)
      /\ wire.part # "end" => wire.by \in InFrame \cup cut
  BY <1>1 DEF LineInv
<1>5. \A v \in Task \ {w} : v \in InFrame' <=> v \in InFrame
  BY <1>2 DEF InFrame, MidFrame
<1>6. w \in InFrame' <=> part # "end"
  BY <1>2, <1>3 DEF InFrame, MidFrame
<1>7. CASE wire' = wire /\ cut' = cut \cup {w}
  <2>1. ASSUME NEW v \in InFrame' \ cut' PROVE wire'.by = v /\ wire'.part = Last(task'[v].st)
    <3>1. v \in InFrame \ cut /\ task'[v] = task[v]
      BY <1>2, <1>5, <1>7, <2>1 DEF InFrame
    <3> QED
      BY <1>4, <1>7, <3>1
  <2>2. InFrame \cup cut \subseteq InFrame' \cup cut'
    BY <1>5, <1>7 DEF InFrame
  <2> QED
    BY <1>4, <1>7, <2>1, <2>2
<1>8. CASE /\ Fits(w, part) /\ wire' = [by |-> w, part |-> part]
           /\ part = "head" => cut' = {u \in cut \ {w} : MidFrame(u)}
           /\ part # "head" => cut' = cut
  <2>1. ASSUME NEW v \in InFrame' \ cut', v # w PROVE FALSE
    <3>1. v \in InFrame \ cut
      BY <1>5, <1>8, <2>1 DEF InFrame
    <3>2. wire.by = v /\ wire.part # "end"
      BY <1>4, <3>1 DEF Last
    <3> QED
      BY <1>8, <2>1, <3>2 DEF Fits
  <2>2. w \in InFrame' \ cut' => wire'.by = w /\ wire'.part = Last(task'[w].st)
    BY <1>2, <1>3, <1>6, <1>8
  <2>3. wire'.part # "end" => wire'.by \in InFrame' \cup cut'
    BY <1>6, <1>8
  <2> QED
    BY <2>1, <2>2, <2>3
<1> QED
  BY <1>1, <1>7, <1>8, WriteTaken

(* While the other task is not in the middle of a frame, what tears one is a
   part that was refused. *)
LEMMA WriteTears ==
  ASSUME ClientInv, LineInv, NEW w \in Task, NEW part, NEW st, Writing(w, part, st),
         InFrame \subseteq {w}, ~torn, torn'
  PROVE  cut' # {}
<1>1. link = "up"
  BY DEF Writing, Write, line
<1>2. PICK room \in Room : Takes(w, part, room)
  BY <1>1 DEF Writing, Write
<1>3. CASE room # "all"
  BY <1>2, <1>3 DEF Takes
<1>4. CASE room = "all"
  <2>1. ~Fits(w, part) /\ cut' = cut
    BY <1>2, <1>4 DEF Takes
  <2>2. /\ \A v \in InFrame \ cut : wire.by = v /\ wire.part = Last(task[v].st)
        /\ wire.part # "end" => wire.by \in InFrame \cup cut
    BY <1>1 DEF LineInv
  <2>3. <<task[w].st, part, st>> \in Writes
    BY DEF Writing
  <2>4. CASE part = "head"
    <3>1. w \notin InFrame
      BY <2>3, <2>4 DEF Writes, InFrame, MidFrame
    <3> QED
      BY <2>1, <2>2, <2>4, <3>1 DEF Fits
  <2>5. CASE part # "head"
    <3>1. w \in InFrame /\ Last(task[w].st) \in Before(w, part)
      BY <2>3, <2>5 DEF Writes, InFrame, MidFrame, Last, Before
    <3> QED
      BY <2>1, <2>2, <2>5, <3>1 DEF Fits
  <2> QED
    BY <2>4, <2>5
<1> QED
  BY <1>3, <1>4

(* Nor do the other steps disturb it. *)
LEMMA LineKept ==
  ASSUME LineInv, UNCHANGED line, link' = link \/ link' # "up",
         \A w \in Task : \/ task'[w].st = task[w].st
                         \/ w \notin InFrame /\ w \notin InFrame'
  PROVE  LineInv'
<1> SUFFICES ASSUME link' = "up", ~torn'
             PROVE  /\ \A v \in InFrame' \ cut' : wire'.by = v /\ wire'.part = Last(task'[v].st)
                    /\ wire'.part # "end" => wire'.by \in InFrame' \cup cut'
  BY DEF LineInv
<1>1. link = "up" /\ ~torn /\ wire' = wire /\ cut' = cut
  BY DEF line
<1>2. /\ \A w \in InFrame \ cut : wire.by = w /\ wire.part = Last(task[w].st)
      /\ wire.part # "end" => wire.by \in InFrame \cup cut
  BY <1>1 DEF LineInv
<1>3. InFrame' = InFrame /\ \A w \in InFrame : task'[w].st = task[w].st
  BY DEF InFrame, MidFrame
<1> QED
  BY <1>1, <1>2, <1>3

(* A task that goes from one state to another one, neither amid a frame. *)
LEMMA BetweenFrames ==
  ASSUME ClientInv, NEW w \in Task, NEW r, task' = [task EXCEPT ![w] = r],
         w \notin InFrame, r.st \notin {"body", "image pre", "image", "image end"}
  PROVE  \A v \in Task : task'[v].st = task[v].st \/ (v \notin InFrame /\ v \notin InFrame')
<1>1. task'[w] = r /\ \A v \in Task \ {w} : task'[v] = task[v]
  BY DEF ClientInv, TypeOK
<1> QED
  BY <1>1 DEF InFrame, MidFrame
(* What is known of the line holds for good. *)
LEMMA LineStep == ClientInv /\ LineInv /\ [Next]_vars => LineInv'
<1>1. SUFFICES ASSUME ClientInv, LineInv, [Next]_vars PROVE LineInv'
  OBVIOUS
<1>0. "loop" \in Task /\ "async" \in Task
  BY DEF Task
<1>2. ASSUME UNCHANGED <<line, task>>, link' = link \/ link' # "up" PROVE LineInv'
  BY <1>1, <1>2, LineKept
<1>3. ASSUME NEW w \in Task, NEW r, task' = [task EXCEPT ![w] = r], UNCHANGED line,
             link' = link \/ link' # "up",
             task[w].st \notin {"body", "image pre", "image", "image end"},
             r.st \notin {"body", "image pre", "image", "image end"}
      PROVE  LineInv'
  <2>1. w \notin InFrame
    BY <1>3 DEF InFrame, MidFrame
  <2>2. \A v \in Task : task'[v].st = task[v].st \/ (v \notin InFrame /\ v \notin InFrame')
    BY <1>1, <1>3, <2>1, BetweenFrames
  <2> QED
    BY <1>1, <1>3, <2>2, LineKept
<1>4. ASSUME NEW w \in Task, NEW st, task' = Goes(w, st), UNCHANGED line,
             link' = link \/ link' # "up",
             task[w].st \notin {"body", "image pre", "image", "image end"},
             st \notin {"body", "image pre", "image", "image end"}
      PROVE  LineInv'
  <2>1. /\ task' = [task EXCEPT ![w] = [task[w] EXCEPT !.st = st]]
        /\ [task[w] EXCEPT !.st = st].st = st
    BY <1>1, <1>4 DEF Goes, ClientInv, TypeOK
  <2> QED
    BY <1>3, <1>4, <2>1
<1>5. CASE UNCHANGED vars
  BY <1>2, <1>5 DEF vars, net
<1>6. ASSUME NEW w \in Task, Passing(w) PROVE LineInv'
  <2>1. CASE WriteHead(w) \/ WriteBody(w)
    BY <1>1, <2>1, WritingSteps, WriteKeepsLine
  <2>2. CASE NextSubject(w)
    <3>1. \E r : task' = [task EXCEPT ![w] = r] /\ r.st = "head"
      <4> DEFINE r == [task[w] EXCEPT !.st = "head", !.x = Least(After(known, task[w].x))]
      <4>1. task[w] \in [st : TaskState, k : 0 .. Topics, x : 0 .. Topics]
        BY <1>1 DEF ClientInv, TypeOK
      <4>2. task' = [task EXCEPT ![w] = r] /\ r.st = "head"
        BY <2>2, <4>1 DEF NextSubject
      <4> QED
        BY <4>2
    <3>2. task[w].st = "pass" /\ UNCHANGED line /\ link' = link
      BY <2>2 DEF NextSubject, At, net
    <3> QED
      BY <1>3, <3>1, <3>2
  <2>3. CASE Settle(w)
    <3>1. task[w].st = "settle" /\ UNCHANGED line /\ link' = link /\ \E st \in {"pass", "head"} : task' = Goes(w, st)
      BY <2>3 DEF Settle, At, net
    <3> QED
      BY <1>4, <3>1
  <2> QED
    BY <1>6, <2>1, <2>2, <2>3 DEF Passing
<1>7. CASE LoopStep
  <2>1. CASE Setup
    BY <1>0, <1>3, <2>1 DEF Setup, At
  <2>2. CASE AddSubject
    <3>1. task["loop"].st = "add" /\ link' = link /\ UNCHANGED line
      BY <2>2 DEF AddSubject, At, net
    <3>2. task' = [task EXCEPT !["loop"] = [st |-> "pass", k |-> task["loop"].k, x |-> 0]]
      BY <2>2 DEF AddSubject, Pass
    <3> QED
      BY <1>0, <1>3, <3>1, <3>2
  <2>3. CASE TopicAdded
    <3>1. task["loop"].st = "pass" /\ UNCHANGED line /\ link' = link
      BY <2>3 DEF TopicAdded, PassOver, At, net
    <3>2. CASE task["loop"].k < Topics
      <4> DEFINE r == [task["loop"] EXCEPT !.st = "add", !.k = @ + 1]
      <4>1. task["loop"] \in [st : TaskState, k : 0 .. Topics, x : 0 .. Topics]
        BY <1>0, <1>1 DEF ClientInv, TypeOK
      <4>2. task' = [task EXCEPT !["loop"] = r] /\ r.st = "add"
        BY <2>3, <3>2, <4>1 DEF TopicAdded
      <4> QED
        BY <1>0, <1>3, <3>1, <4>2
    <3>3. CASE ~(task["loop"].k < Topics)
      BY <1>0, <1>4, <2>3, <3>1, <3>3 DEF TopicAdded
    <3> QED
      BY <3>2, <3>3
  <2>4. CASE Capture
    BY <1>0, <1>4, <2>4 DEF Capture, At, net
  <2>5. CASE \E i \in 1 .. 4 : WriteImage(i)
    BY <1>0, <1>1, <2>5, WritingSteps, WriteKeepsLine
  <2> QED
    BY <1>0, <1>6, <1>7, <2>1, <2>2, <2>3, <2>4, <2>5 DEF LoopStep
<1>8. CASE AsyncStep
  <2>1. CASE SegmentCut \/ \E n \in 1 .. MaxInbox : DataHandler(n)
    BY <1>2, <2>1 DEF SegmentCut, DataHandler
  <2>2. CASE Reconnect
    BY <1>0, <1>4, <2>2 DEF Reconnect, At
  <2>3. CASE Retry
    <3>1. task["async"].st = "retry" /\ UNCHANGED line /\ link' # "up"
      BY <2>3 DEF Retry, At
    <3>2. UNCHANGED task \/ task' = [task EXCEPT !["async"] = [st |-> "pass", k |-> Least(topics), x |-> 0]]
      BY <2>3 DEF Retry, Pass
    <3> QED
      BY <1>0, <1>2, <1>3, <3>1, <3>2
  <2>4. CASE Resubscribed
    <3>1. task["async"].st = "pass" /\ UNCHANGED line /\ link' = link
      BY <2>4 DEF Resubscribed, PassOver, At, net
    <3>2. \/ task' = Goes("async", "retry")
          \/ task' = [task EXCEPT !["async"] =
                       [st |-> "pass", k |-> Least(NextTopic(task["async"].k)), x |-> 0]]
      BY <2>4 DEF Resubscribed, Pass
    <3> QED
      BY <1>0, <1>3, <1>4, <3>1, <3>2
  <2>5. CASE Reconnected
    BY <1>0, <1>4, <2>5 DEF Reconnected, At, net
  <2> QED
    BY <1>0, <1>6, <1>8, <2>1, <2>2, <2>3, <2>4, <2>5 DEF AsyncStep
<1>9. CASE Established
  <2> SUFFICES ASSUME link' = "up", ~torn'
               PROVE  /\ \A v \in InFrame' \ cut' : wire'.by = v /\ wire'.part = Last(task'[v].st)
                      /\ wire'.part # "end" => wire'.by \in InFrame' \cup cut'
    BY DEF LineInv
  <2>1. InFrame' = {} /\ wire'.part = "end"
    BY <1>9 DEF Established, Fresh, InFrame, MidFrame
  <2> QED
    BY <2>1
<1>10. CASE Drop \/ \E m \in ServerMessage : ServerSends(m)
  BY <1>2, <1>10 DEF Drop, ServerSends
<1> QED
  BY <1>1, <1>5, <1>7, <1>8, <1>9, <1>10 DEF Next

(* Outside reconnect_host no frame is torn, on any connection, by pictures and
   publications of loop() and whatever setup() subscribes to, unless the
   connection came up in the middle of one, or the send buffer refused part of it
   or of the frame before. *)
THEOREM FramesStayWhole == Spec => FramesWhole
<1>1. ASSUME ClientInv, LineInv, [Next]_vars, torn', ~torn
      PROVE  link = "opening" \/ task["async"].st \in PassState \/ cut' # {}
  <2> SUFFICES ASSUME task["async"].st \notin PassState PROVE link = "opening" \/ cut' # {}
    OBVIOUS
  <2>1. "async" \in Task /\ "loop" \in Task /\ InFrame \subseteq {"loop"}
    <3>1. task["async"].st \in {"idle", "retry"}
      BY <1>1 DEF ClientInv, Tasks
    <3> QED
      BY <3>1 DEF InFrame, MidFrame, Task
  <2>2. CASE Established
    BY <2>2 DEF Established
  <2>3. CASE WriteHead("loop") \/ WriteBody("loop") \/ \E i \in 1 .. 4 : WriteImage(i)
    BY <1>1, <2>1, <2>3, WritingSteps, WriteTears
  <2>4. CASE WriteHead("async") \/ WriteBody("async")
    BY <2>4 DEF WriteHead, WriteBody, At, PassState
  <2>5. CASE ~(Established \/ WriteHead("loop") \/ WriteBody("loop") \/ (\E i \in 1 .. 4 : WriteImage(i))
               \/ WriteHead("async") \/ WriteBody("async"))
    <3>1. UNCHANGED line
      BY <1>1, <2>5 DEF Next, vars, LoopStep, AsyncStep, Passing, Drop, ServerSends, NextSubject, Settle,
         Setup, AddSubject, TopicAdded, Capture, DataHandler, SegmentCut, Reconnect, Retry, Resubscribed,
         Reconnected
    <3> QED
      BY <1>1, <3>1 DEF line
  <2> QED
    BY <2>2, <2>3, <2>4, <2>5
<1>2. Init => LineInv
  BY DEF Init, LineInv
<1>3. Spec => []ClientInv /\ []LineInv
  BY <1>2, ClientInit, ClientStep, LineStep, PTL DEF Spec
<1>4. ClientInv /\ LineInv /\ [Next]_vars
        => [torn' /\ ~torn => link = "opening" \/ task["async"].st \in PassState \/ cut' # {}]_vars
  BY <1>1
<1> QED
  BY <1>3, <1>4, PTL DEF Spec, FramesWhole
-----------------------------------------------------------------------------
(* What the server knows. *)

(* A pass that is over has written all subjects. *)
LEMMA AllWritten ==
  ASSUME ClientInv, NEW w \in Task, PassOver(w), LastPass(w)
  PROVE  known \subseteq Settled
<1>1. known \subseteq Nat /\ task[w].x \in Nat /\ task[w].st = "pass"
  <2>1. known \subseteq Topic /\ task[w].x \in 0 .. Topics
    BY DEF ClientInv, TypeOK
  <2>2. task[w].st = "pass"
    BY DEF PassOver, At
  <2> QED
    BY <2>1, <2>2, Numbers
<1>2. ASSUME NEW t \in known PROVE t \in Written(w)
  <2>1. ~(t > task[w].x)
    BY DEF PassOver, After
  <2>2. t < task[w].x \/ t = task[w].x
    BY <1>1, <2>1
  <2> QED
    BY <1>1, <2>2 DEF Written
<1> QED
  BY <1>2 DEF LastPass

(* A pass over the subjects loses nothing of what it has written. *)
LEMMA PassKeepsWritten ==
  ASSUME ClientInv, NEW w \in Task, Passing(w), link' = "up", ~torn'
  PROVE  /\ UNCHANGED <<link, known, topics, intime>> /\ ~torn /\ Settled \subseteq Settled'
         /\ task[w].st \in PassState /\ task'[w].st \in PassState /\ task'[w].k = task[w].k
         /\ \A v \in Task \ {w} : task'[v] = task[v]
         /\ Written(w) \subseteq Settled => Written(w)' \subseteq Settled'
<1>1. /\ task[w] \in [st : TaskState, k : 0 .. Topics, x : 0 .. Topics]
      /\ task[w].x \in Nat /\ known \subseteq Nat /\ known \subseteq Topic
      /\ task \in [Task -> [st : TaskState, k : 0 .. Topics, x : 0 .. Topics]]
  BY Numbers DEF ClientInv, TypeOK
<1>2. UNCHANGED <<link, known, topics, intime>> /\ \A v \in Task \ {w} : task'[v] = task[v]
  BY <1>1 DEF Passing, NextSubject, WriteHead, WriteBody, Settle, net, maps, Goes
<1>3. ASSUME NEW st, task' = Goes(w, st)
      PROVE  task'[w].st = st /\ task'[w].k = task[w].k /\ task'[w].x = task[w].x
  BY <1>1, <1>3 DEF Goes
<1>4. CASE NextSubject(w)
  <2> DEFINE u == Least(After(known, task[w].x))
  <2>1. u \in After(known, task[w].x) /\ \A t \in After(known, task[w].x) : u <= t
    <3>1. After(known, task[w].x) \in SUBSET Nat /\ After(known, task[w].x) # {}
      BY <1>1, <1>4 DEF NextSubject, After
    <3> QED
      BY <3>1, LeastIn
  <2>2. task'[w].st = "head" /\ task'[w].k = task[w].k /\ task'[w].x = u /\ UNCHANGED line
        /\ task[w].st = "pass"
    BY <1>1, <1>4 DEF NextSubject, At
  <2> HIDE DEF u
  <2>3. Written(w)' \subseteq Written(w)
    <3>1. ASSUME NEW t \in known, t < u PROVE t < task[w].x \/ t = task[w].x
      <4>1. t \notin After(known, task[w].x)
        BY <1>1, <2>1, <3>1 DEF After
      <4> QED
        BY <1>1, <4>1 DEF After
    <3> QED
      BY <1>2, <2>2, <3>1 DEF Written
  <2> QED
    BY <1>2, <2>2, <2>3 DEF PassState, line, Settled
<1>a. ASSUME NEW part, Write(w, part), task[w].st \in {"head", "body"}, task[w].st = "body" => part = "end"
      PROVE  /\ ~torn /\ Settled \subseteq Settled'
             /\ task[w].st = "body" => task[w].x \in Settled'
  <2>1. link = "up"
    BY <1>2
  <2>2. ~torn
    BY <1>a, <2>1 DEF Write, line
  <2> QED
    BY <1>a, <2>1, <2>2, WriteTaken DEF Settled
<1>5. CASE WriteHead(w)
  <2>1. task[w].st = "head" /\ task'[w].st = "body" /\ task'[w].k = task[w].k /\ task'[w].x = task[w].x
    BY <1>3, <1>5 DEF WriteHead, At
  <2>2. ~torn /\ Settled \subseteq Settled'
    BY <1>5, <1>a, <2>1 DEF WriteHead
  <2>3. Written(w)' = Written(w)
    BY <1>2, <2>1 DEF Written
  <2> QED
    BY <1>2, <2>1, <2>2, <2>3 DEF PassState
<1>6. CASE WriteBody(w)
  <2>1. task[w].st = "body" /\ task'[w].st = "settle" /\ task'[w].k = task[w].k /\ task'[w].x = task[w].x
    BY <1>3, <1>6 DEF WriteBody, At
  <2>2. ~torn /\ Settled \subseteq Settled' /\ task[w].x \in Settled'
    BY <1>6, <1>a, <2>1 DEF WriteBody
  <2>3. Written(w)' \subseteq Written(w) \cup {task[w].x}
    BY <1>2, <2>1 DEF Written
  <2> QED
    BY <1>2, <2>1, <2>2, <2>3 DEF PassState
<1>7. CASE Settle(w)
  <2>1. task[w].st = "settle" /\ task[w].x \in known
    BY <1>7 DEF Settle, At, ClientInv, Tasks
  <2>2. task'[w].st = "pass" /\ task'[w].k = task[w].k /\ task'[w].x = task[w].x /\ UNCHANGED line
    BY <1>3, <1>7, <2>1 DEF Settle, Validated
  <2>3. Written(w)' = Written(w)
    BY <1>2, <2>1, <2>2 DEF Written
  <2> QED
    BY <1>2, <2>1, <2>2, <2>3 DEF PassState, line, Settled
<1> QED
  BY <1>4, <1>5, <1>6, <1>7 DEF Passing

(* A step that does not touch the topics, and leaves the tasks alone or moves
   one that is in no pass before and after. *)
LEMMA HeardKept ==
  ASSUME ClientInv, HeardInv, UNCHANGED <<known, topics, intime>>, link' = link \/ link' # "up",
         torn => torn', ~torn' => Settled \subseteq Settled',
         \A v \in Task : task'[v] = task[v] \/ (task[v].st \notin Loading /\ task'[v].st \notin Loading)
  PROVE  HeardInv'
<1> SUFFICES ASSUME link' = "up", intime', ~torn'
             PROVE  PassToCome' \/ LastPass("loop")' \/ LastPass("async")' \/ known' \subseteq Settled'
  BY DEF HeardInv
<1>1. PassToCome \/ LastPass("loop") \/ LastPass("async") \/ known \subseteq Settled
  BY DEF HeardInv
<1>2. "loop" \in Task /\ "async" \in Task
  BY DEF Task
<1>3. PassToCome => PassToCome'
  BY <1>2 DEF PassToCome, At, Loading
<1>4. ASSUME NEW v \in Task, LastPass(v) PROVE LastPass(v)'
  <2>1. task'[v] = task[v]
    BY <1>4 DEF LastPass, Loading
  <2> QED
    BY <1>4, <2>1 DEF LastPass, Written
<1> QED
  BY <1>1, <1>2, <1>3, <1>4

(* The passes of both tasks together miss no subject. *)
LEMMA HeardStep == ClientInv /\ HeardInv /\ [Next]_vars => HeardInv'
<1>1. SUFFICES ASSUME ClientInv, HeardInv, [Next]_vars PROVE HeardInv'
  OBVIOUS
<1>0. /\ "loop" \in Task /\ "async" \in Task /\ known \subseteq Topic /\ topics \subseteq known
      /\ task \in [Task -> [st : TaskState, k : 0 .. Topics, x : 0 .. Topics]]
  BY <1>1 DEF Task, ClientInv, TypeOK
<1>2. CASE UNCHANGED vars
  BY <1>1, <1>2, HeardKept DEF vars, net, line, maps, Settled
<1>3. CASE Drop \/ Setup \/ Reconnect \/ Retry
  BY <1>3 DEF Drop, Setup, Reconnect, Retry, HeardInv
<1>4. CASE Established
  BY <1>4 DEF Established, HeardInv, PassToCome, At, maps
<1>5. CASE SegmentCut \/ (\E n \in 1 .. MaxInbox : DataHandler(n)) \/ \E m \in ServerMessage : ServerSends(m)
  BY <1>1, <1>5, HeardKept DEF SegmentCut, DataHandler, ServerSends, line, maps, Settled
<1>6. CASE Capture
  <2>1. task'["loop"].st = "image head" /\ task'["async"] = task["async"] /\ task["loop"].st = "idle"
    BY <1>0, <1>6 DEF Capture, Goes, At
  <2>2. \A v \in Task : task'[v] = task[v] \/ (task[v].st \notin Loading /\ task'[v].st \notin Loading)
    BY <2>1 DEF Task, Loading, PassState
  <2> QED
    BY <1>1, <1>6, <2>2, HeardKept DEF Capture, net, line, maps, Settled
<1>7. CASE \E i \in 1 .. 4 : WriteImage(i)
  <2>1. PICK part, st : Writing("loop", part, st) /\ task["loop"].st \notin Loading /\ st \notin Loading
    <3>1. PICK part, st : Writing("loop", part, st)
      BY <1>0, <1>7, WritingSteps
    <3>2. task["loop"].st \in {"image head", "image pre", "image", "image end"}
      <4>1. PICK i \in 1 .. 4 : WriteImage(i)
        BY <1>7
      <4>2. i \in {1, 2, 3, 4}
        OBVIOUS
      <4> QED
        BY <4>1, <4>2, ImageStates DEF WriteImage, At
    <3> QED
      BY <3>1, <3>2 DEF Writing, Writes, Loading, PassState
  <2>2. task'["loop"].st = st /\ task'["async"] = task["async"]
    BY <1>0, <2>1 DEF Writing, Goes
  <2>3. \A v \in Task : task'[v] = task[v] \/ (task[v].st \notin Loading /\ task'[v].st \notin Loading)
    BY <2>1, <2>2 DEF Task
  <2>4. UNCHANGED <<link, known, topics, intime>>
    BY <2>1 DEF Writing, net, maps
  <2>5. torn => torn'
    BY <2>1 DEF Writing, Write, line
  <2>6. ~torn' => Settled \subseteq Settled'
    <3>1. CASE link = "up" /\ ~torn
      BY <2>1, <3>1, WriteTaken DEF Writing, Settled
    <3>2. CASE ~(link = "up" /\ ~torn)
      BY <2>1, <3>2 DEF Writing, Write, line, Settled
    <3> QED
      BY <3>1, <3>2
  <2> QED
    BY <1>1, <2>3, <2>4, <2>5, <2>6, HeardKept
<1> SUFFICES ASSUME link' = "up", intime', ~torn',
                    AddSubject \/ TopicAdded \/ Resubscribed \/ Reconnected \/ \E w \in Task : Passing(w)
             PROVE  PassToCome' \/ LastPass("loop")' \/ LastPass("async")' \/ known' \subseteq Settled'
  BY <1>0, <1>1, <1>2, <1>3, <1>4, <1>5, <1>6, <1>7 DEF HeardInv, Next, LoopStep, AsyncStep
<1>8. ASSUME link = "up", intime, ~torn
      PROVE  PassToCome \/ LastPass("loop") \/ LastPass("async") \/ known \subseteq Settled
  BY <1>1, <1>8 DEF HeardInv
<1>9. CASE AddSubject
  <2> DEFINE r == [st |-> "pass", k |-> task["loop"].k, x |-> 0]
  <2>1. task'["loop"] = r /\ known' \subseteq Topic
    <3>1. ClientInv'
      BY <1>1, ClientStep
    <3> QED
      BY <1>0, <1>9, <3>1 DEF AddSubject, Pass, ClientInv, TypeOK
  <2>2. task'["loop"].x = 0 /\ task'["loop"].st = "pass"
    BY <2>1
  <2>3. \A t \in known' : t \in Nat /\ t > 0
    BY <2>1, Numbers
  <2>4. Written("loop")' = {}
    BY <2>2, <2>3 DEF Written
  <2> QED
    BY <2>2, <2>4 DEF LastPass, PassState
<1>10. CASE TopicAdded
  <2>1. /\ task["loop"].st = "pass" /\ PassOver("loop") /\ UNCHANGED <<known, link, heard, refused, torn, intime>>
        /\ topics \subseteq topics' /\ task'["async"] = task["async"]
    BY <1>0, <1>10 DEF TopicAdded, PassOver, At, net, line, Goes
  <2>2. CASE task["loop"].k < Topics
    <3>1. task'["loop"].st = "add"
      BY <1>0, <1>10, <2>2 DEF TopicAdded
    <3> QED
      BY <3>1 DEF PassToCome, At
  <2>3. CASE ~(task["loop"].k < Topics)
    <3>1. CASE PassToCome
      <4>1. task["async"].st \in PassState /\ \E t \in topics : t > task["async"].k
        BY <2>1, <2>3, <3>1 DEF PassToCome, At
      <4> QED
        BY <2>1, <4>1 DEF PassToCome
    <3>2. CASE LastPass("loop")
      BY <1>0, <1>1, <2>1, <3>2, AllWritten DEF Settled
    <3>3. CASE LastPass("async")
      BY <2>1, <3>3 DEF LastPass, Written, Settled
    <3> QED
      BY <1>8, <2>1, <3>1, <3>2, <3>3 DEF Settled
  <2> QED
    BY <2>2, <2>3
<1>11. CASE Resubscribed
  <2>1. /\ task["async"].st = "pass" /\ PassOver("async")
        /\ UNCHANGED <<known, topics, link, heard, refused, torn, intime>> /\ task'["loop"] = task["loop"]
    BY <1>0, <1>11 DEF Resubscribed, PassOver, At, net, line, maps, Goes, Pass
  <2>2. CASE NextTopic(task["async"].k) # {}
    <3>1. task'["async"].x = 0 /\ task'["async"].st = "pass"
      BY <1>0, <1>11, <2>2 DEF Resubscribed, Pass
    <3>2. \A t \in known' : t \in Nat /\ t > 0
      BY <1>0, <2>1, Numbers
    <3>3. Written("async")' = {}
      BY <3>1, <3>2 DEF Written
    <3> QED
      BY <3>1, <3>3 DEF LastPass, PassState
  <2>3. CASE NextTopic(task["async"].k) = {}
    <3>1. CASE PassToCome
      <4>1. ~\E t \in topics : t > task["async"].k
        BY <2>3 DEF NextTopic, After
      <4> QED
        BY <2>1, <3>1, <4>1 DEF PassToCome, At
    <3>2. CASE LastPass("async")
      BY <1>0, <1>1, <2>1, <3>2, AllWritten DEF Settled
    <3>3. CASE LastPass("loop")
      BY <2>1, <3>3 DEF LastPass, Written, Settled
    <3> QED
      BY <1>8, <2>1, <3>1, <3>2, <3>3 DEF Settled
  <2> QED
    BY <2>2, <2>3
<1>12. CASE Reconnected
  <2>1. task'["async"].st = "idle" /\ task'["loop"] = task["loop"] /\ task["async"].st = "retry"
    BY <1>0, <1>12 DEF Reconnected, Goes, At
  <2>2. \A v \in Task : task'[v] = task[v] \/ (task[v].st \notin Loading /\ task'[v].st \notin Loading)
    BY <2>1 DEF Task, Loading, PassState
  <2>3. HeardInv'
    BY <1>1, <1>12, <2>2, HeardKept DEF Reconnected, net, line, maps, Settled
  <2> QED
    BY <2>3 DEF HeardInv
<1>13. ASSUME NEW w \in Task, Passing(w)
       PROVE  PassToCome' \/ LastPass("loop")' \/ LastPass("async")' \/ known' \subseteq Settled'
  <2>1. /\ UNCHANGED <<link, known, topics, intime>> /\ ~torn /\ Settled \subseteq Settled'
        /\ task[w].st \in PassState /\ task'[w].st \in PassState /\ task'[w].k = task[w].k
        /\ \A v \in Task \ {w} : task'[v] = task[v]
        /\ Written(w) \subseteq Settled => Written(w)' \subseteq Settled'
    BY <1>1, <1>13, PassKeepsWritten
  <2>2. PassToCome => PassToCome'
    <3>1. \A v \in Task : /\ task'[v].k = task[v].k /\ task'[v].st \in PassState <=> task[v].st \in PassState
                          /\ At(v, "add") => At(v, "add")'
      BY <2>1 DEF At, PassState
    <3> QED
      BY <1>0, <2>1, <3>1 DEF PassToCome
  <2>3. ASSUME NEW v \in Task, LastPass(v) PROVE LastPass(v)'
    <3>1. CASE v = w
      BY <2>1, <2>3, <3>1 DEF LastPass
    <3>2. CASE v # w
      BY <2>1, <2>3, <3>2 DEF LastPass, Written
    <3> QED
      BY <3>1, <3>2
  <2> QED
    BY <1>0, <1>8, <2>1, <2>2, <2>3
<1> QED
  BY <1>9, <1>10, <1>11, <1>12, <1>13

(* Once both tasks rest on a connection that came up with a pass over the
   topics yet to come, and no frame was torn, the server knows of every topic but
   those from whose last subscription the send buffer refused a part: however
   often the connection was lost, whatever was written before it was up. *)
THEOREM EverySubscriptionHeard == Spec => []AllResubscribed
<1>1. Init => HeardInv
  BY DEF Init, HeardInv
<1>2. Spec => []ClientInv /\ []HeardInv
  BY <1>1, ClientInit, ClientStep, HeardStep, PTL DEF Spec
<1>3. ClientInv /\ HeardInv => AllResubscribed
  <2> SUFFICES ASSUME ClientInv, HeardInv, Quiet("loop"), Quiet("async"), link = "up", intime, ~torn
               PROVE  topics \subseteq heard \cup refused
    BY DEF AllResubscribed
  <2>1. ~PassToCome /\ ~LastPass("loop") /\ ~LastPass("async")
    BY DEF Quiet, Loading, PassState, PassToCome, At, LastPass
  <2>2. known \subseteq heard \cup refused
    BY <2>1 DEF HeardInv, Settled
  <2>3. known = topics
    BY DEF ClientInv, Added, Quiet, Loading
  <2> QED
    BY <2>2, <2>3
<1> QED
  BY <1>2, <1>3, PTL
=============================================================================
