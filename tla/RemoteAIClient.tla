--------------------------- MODULE RemoteAIClient ---------------------------
(***************************************************************************)
(* The robot's client (esp32_wrover_b_stream_client_PIO): the Arduino task *)
(* that runs setup() and then loop(), and the AsyncTCP task that runs      *)
(* data_handler and connect_handler.  Both write to the one connection and *)
(* both walk through the topic maps.                                       *)
(*                                                                         *)
(* Topics are numbered in the order of their names, in which the std::maps *)
(* are walked.  Connection, segments and the server are external.          *)
(***************************************************************************)
EXTENDS Integers, Sequences, FiniteSets

CONSTANTS
  Topics,      \* number of topics
  Load,        \* `topics' of main.cpp: the order in which they are loaded
  Ask,         \* "askstream"
  StopAsk,     \* "askstopstream"
  MaxDrops,    \* times the connection is lost
  MaxInbox     \* messages of the server on their way

Topic == 1 .. Topics

ASSUME ClientAssumption ==
  /\ Topics \in Nat \ {0} /\ MaxDrops \in Nat /\ MaxInbox \in Nat
  /\ Load \in [Topic -> Topic] /\ \A t \in Topic : \E i \in Topic : Load[i] = t
  /\ Ask \in Topic /\ StopAsk \in Topic /\ Ask # StopAsk

VARIABLES
  link,        \* the connection: "down", "opening", "up"
  lost,        \* onDisconnect is due
  drops,       \* connections lost
  heard,       \* topics whose subscription the server has received whole
  wire,        \* who wrote last to this connection, and what
  torn,        \* a frame on this connection lacks a part, or was written
               \* into another
  cut,         \* tasks from whose frame, under way or last, a part was refused
  refused,     \* topics from whose last subscription a part was refused
  inbox,       \* messages of the server not yet handed to data_handler
  topics,      \* m_topics
  known,       \* the keys of m_sub_topics
  valid,       \* those that are set to true
  validation,  \* m_is_validation
  stream,      \* CameraManager::m_is_stream
  task,        \* what each task is doing
  intime       \* the connection came up with a pass over the topics yet to come

net == <<link, lost, drops, inbox>>
line == <<heard, wire, torn, cut, refused>>
maps == <<topics, known, valid, validation>>
vars == <<net, line, maps, stream, task, intime>>

Task == {"loop", "async"}
Fresh == [by |-> "none", part |-> "end"]

(* k: the turn of the outer loop (an index into Load, or a topic of m_topics);
   x: the subject the inner loop is at. *)
Init ==
  /\ link = "down" /\ lost = FALSE /\ drops = 0 /\ inbox = <<>>
  /\ heard = {} /\ wire = Fresh /\ torn = FALSE /\ cut = {} /\ refused = {}
  /\ topics = {} /\ known = {} /\ valid = {} /\ validation = FALSE /\ stream = FALSE
  /\ task = [w \in Task |-> [st |-> IF w = "loop" THEN "setup" ELSE "idle", k |-> 0, x |-> 0]]
  /\ intime = FALSE

At(w, st) == task[w].st = st
Goes(w, st) == [task EXCEPT ![w].st = st]

-----------------------------------------------------------------------------
(* The network. *)

PassState == {"pass", "head", "body", "settle"}
MidFrame(w) == task[w].st \in {"body", "image pre", "image", "image end"}
Loading == {"add"} \cup PassState
PassToCome ==
  \/ At("loop", "add") \/ (task["loop"].st \in PassState /\ task["loop"].k < Topics)
  \/ task["async"].st \in PassState /\ \E t \in topics : t > task["async"].k

Established ==
  /\ link = "opening"
  /\ intime' = PassToCome
  /\ link' = "up" /\ inbox' = <<>>
  /\ heard' = {} /\ wire' = Fresh /\ cut' = {} /\ refused' = {}
  /\ torn' = (\E w \in Task : MidFrame(w))
  /\ UNCHANGED <<lost, drops, maps, stream, task>>

(* The handler is called by the task it would interrupt: not while it runs. *)
Drop ==
  /\ link \in {"up", "opening"} /\ drops < MaxDrops
  /\ link' = "down" /\ drops' = drops + 1 /\ inbox' = <<>>
  /\ lost' = At("async", "idle")
  /\ intime' = FALSE
  /\ UNCHANGED <<line, maps, stream, task>>

(* A subscription is answered with its name; "order" is what the server sends
   on its own ("askstream/pub"), "command" a publication ("askstream<|||>").
   What the server makes of what follows a torn frame is left open. *)
ServerSends(m) ==
  /\ link = "up" /\ Len(inbox) < MaxInbox
  /\ m.topic \in heard \/ (torn /\ m.topic \in known)
  /\ inbox' = Append(inbox, m)
  /\ UNCHANGED <<link, lost, drops, line, maps, stream, task, intime>>

(* AsyncClient::write takes what the send buffer has room for, all of it, part
   of it or nothing, and nothing unless the connection is up.  No caller asks.
   The four writes of publish_three are "head", "pre", "image", "end"; the two of
   publish "head" and "end". *)
Room == {"all", "part", "none"}
Before(w, part) ==
  CASE part = "pre" -> {"head"} [] part = "image" -> {"pre"}
    [] part = "end" -> IF task[w].st = "body" THEN {"head"} ELSE {"image"}
Fits(w, part) ==
  IF part = "head" THEN wire.part = "end"
  ELSE wire.by = w /\ wire.part \in Before(w, part) /\ w \notin cut

Takes(w, part, room) ==
  LET whole == room = "all" /\ Fits(w, part)
      subject == IF task[w].st \in {"head", "body"} THEN {task[w].x} ELSE {} IN
  /\ wire' = IF room = "none" THEN wire ELSE [by |-> w, part |-> part]
  /\ torn' = (room # "none" /\ ~whole)
  /\ heard' = IF whole /\ part = "end" THEN heard \cup subject ELSE heard
  /\ refused' = IF room # "all" THEN refused \cup subject ELSE refused \ heard'
  /\ cut' = IF room # "all" THEN cut \cup {w}
            ELSE IF whole /\ part = "head" THEN {u \in cut \ {w} : MidFrame(u)} ELSE cut

Write(w, part) ==
  IF link = "up" /\ ~torn THEN \E room \in Room : Takes(w, part, room) ELSE UNCHANGED line

-----------------------------------------------------------------------------
(* add_topic: a pass over m_sub_topics that publishes each as a subscription. *)

Least(S) == CHOOSE t \in S : \A u \in S : t <= u
After(S, t) == {u \in S : u > t}

Pass(w, k) == task' = [task EXCEPT ![w] = [st |-> "pass", k |-> k, x |-> 0]]

NextSubject(w) ==
  /\ At(w, "pass") /\ After(known, task[w].x) # {}
  /\ task' = [task EXCEPT ![w].st = "head", ![w].x = Least(After(known, @))]
  /\ UNCHANGED <<net, line, maps, stream, intime>>

WriteHead_NoBody(w) ==
  /\ At(w, "head") /\ Write(w, "head")
  /\ task' = Goes(w, "settle")
  /\ UNCHANGED <<net, maps, stream, intime>>
WriteHead(w) ==
  /\ At(w, "head") /\ Write(w, "head")
  /\ task' = Goes(w, "body")
  /\ UNCHANGED <<net, maps, stream, intime>>

WriteBody(w) ==
  /\ At(w, "body") /\ Write(w, "end")
  /\ task' = Goes(w, "settle")
  /\ UNCHANGED <<net, maps, stream, intime>>

(* while(!validate_subject(topic)): validate_subject sets what it is asked. *)
Validated_ByReply(x) == x \in valid
Validated(x) == x \in known
Settle(w) ==
  /\ At(w, "settle")
  /\ IF Validated(task[w].x)
     THEN valid' = valid \cup {task[w].x} /\ task' = Goes(w, "pass")
     ELSE UNCHANGED valid /\ task' = Goes(w, "head")
  /\ UNCHANGED <<net, line, topics, known, validation, stream, intime>>

PassOver(w) == At(w, "pass") /\ After(known, task[w].x) = {}

-----------------------------------------------------------------------------
(* setup(): connect_host with no topics yet, then topic_loader. *)

Setup ==
  /\ At("loop", "setup")
  /\ link' = "opening"
  /\ valid' = {} /\ validation' = TRUE
  /\ task' = [task EXCEPT !["loop"] = [st |-> "add", k |-> 1, x |-> 0]]
  /\ UNCHANGED <<lost, drops, inbox, line, topics, known, stream, intime>>

AddSubject_Missing ==
  /\ At("loop", "add")
  /\ Pass("loop", task["loop"].k)
  /\ UNCHANGED <<net, line, maps, stream, intime>>
AddSubject ==
  /\ At("loop", "add")
  /\ known' = known \cup {Load[task["loop"].k]}
  /\ valid' = valid \ {Load[task["loop"].k]}
  /\ Pass("loop", task["loop"].k)
  /\ UNCHANGED <<net, line, topics, validation, stream, intime>>

TopicAdded ==
  /\ PassOver("loop")
  /\ topics' = topics \cup {Load[task["loop"].k]}
  /\ IF task["loop"].k < Topics
     THEN task' = [task EXCEPT !["loop"].st = "add", !["loop"].k = @ + 1] /\ UNCHANGED validation
     ELSE task' = Goes("loop", "idle") /\ validation' = FALSE
  /\ UNCHANGED <<net, line, known, valid, stream, intime>>

(* loop(): capture_image and send_img. *)
Capture ==
  /\ At("loop", "idle") /\ stream
  /\ task' = Goes("loop", "image head")
  /\ UNCHANGED <<net, line, maps, stream, intime>>

Image == <<"head", "pre", "image", "end">>
ImageState == [i \in 1 .. 5 |-> <<"image head", "image pre", "image", "image end", "idle">>[i]]
WriteImage(i) ==
  /\ At("loop", ImageState[i]) /\ Write("loop", Image[i])
  /\ task' = Goes("loop", ImageState[i + 1])
  /\ UNCHANGED <<net, maps, stream, intime>>

-----------------------------------------------------------------------------
(* The AsyncTCP task. *)

(* data_handler looks for the divider in a segment of n messages: what stands
   before it is a topic only if the segment begins with a publication.  While
   topics are loaded it looks for the name of one instead.  A segment may also
   end inside a message: then neither part of it is understood. *)
DataHandler(n) ==
  /\ At("async", "idle") /\ ~lost /\ n <= Len(inbox)
  /\ LET m == Head(inbox) IN
     /\ valid' = IF validation /\ n = 1 /\ m.kind = "name" THEN valid \cup {m.topic} ELSE valid
     /\ stream' = IF ~validation /\ m.kind = "command" /\ m.topic \in topics \cap {Ask, StopAsk}
                  THEN m.topic = Ask ELSE stream
  /\ inbox' = SubSeq(inbox, n + 1, Len(inbox))
  /\ UNCHANGED <<link, lost, drops, line, topics, known, validation, task, intime>>

SegmentCut ==
  /\ At("async", "idle") /\ ~lost /\ inbox # <<>>
  /\ inbox' = Tail(inbox)
  /\ UNCHANGED <<link, lost, drops, line, maps, stream, task, intime>>

(* connect_handler and reconnect_host. *)
Reconnect ==
  /\ At("async", "idle") /\ lost
  /\ lost' = FALSE /\ link' = "down"
  /\ task' = Goes("async", "retry")
  /\ UNCHANGED <<drops, inbox, line, maps, stream, intime>>

Connected == link = "up"
Retry ==
  /\ At("async", "retry") /\ ~Connected
  /\ link' = "opening"
  /\ IF topics # {} THEN Pass("async", Least(topics)) ELSE UNCHANGED task
  /\ UNCHANGED <<lost, drops, inbox, line, maps, stream, intime>>

(* resubscribe_topics makes a pass for each topic. *)
NextTopic_None(k) == {}
NextTopic(k) == After(topics, k)
Resubscribed ==
  /\ PassOver("async")
  /\ IF NextTopic(task["async"].k) # {}
     THEN Pass("async", Least(NextTopic(task["async"].k)))
     ELSE task' = Goes("async", "retry")
  /\ UNCHANGED <<net, line, maps, stream, intime>>

Reconnected ==
  /\ At("async", "retry") /\ Connected
  /\ task' = Goes("async", "idle")
  /\ UNCHANGED <<net, line, maps, stream, intime>>

-----------------------------------------------------------------------------
Passing(w) == NextSubject(w) \/ WriteHead(w) \/ WriteBody(w) \/ Settle(w)
LoopStep ==
  \/ Setup \/ AddSubject \/ TopicAdded \/ Passing("loop")
  \/ Capture \/ \E i \in 1 .. 4 : WriteImage(i)
AsyncStep ==
  \/ Reconnect \/ Retry \/ Resubscribed \/ Reconnected \/ Passing("async")
  \/ SegmentCut \/ \E n \in 1 .. MaxInbox : DataHandler(n)

ServerMessage == [kind : {"name", "order", "command"}, topic : Topic]

Next ==
  \/ LoopStep \/ AsyncStep
  \/ Established \/ Drop
  \/ \E m \in ServerMessage : ServerSends(m)

Spec == Init /\ [][Next]_vars

(* Both tasks are scheduled (the long waits of add_topic yield). *)
FairSpec == Spec /\ WF_vars(LoopStep) /\ WF_vars(AsyncStep)

-----------------------------------------------------------------------------
TaskState == Loading \cup {"setup", "retry"} \cup {ImageState[i] : i \in 1 .. 5}

TypeOK ==
  /\ link \in {"down", "opening", "up"} /\ lost \in BOOLEAN /\ drops \in 0 .. MaxDrops
  /\ inbox \in Seq(ServerMessage) /\ Len(inbox) <= MaxInbox
  /\ heard \subseteq known /\ topics \subseteq known /\ valid \subseteq known /\ known \subseteq Topic
  /\ wire \in [by : Task \cup {"none"}, part : {Image[i] : i \in 1 .. 4}]
  /\ cut \subseteq Task /\ refused \subseteq known
  /\ torn \in BOOLEAN /\ validation \in BOOLEAN /\ stream \in BOOLEAN /\ intime \in BOOLEAN
  /\ task \in [Task -> [st : TaskState, k : 0 .. Topics, x : 0 .. Topics]]

-----------------------------------------------------------------------------
(* Properties. *)

Quiet(w) == task[w].st \notin {"setup", "retry"} \cup Loading

(* After setup and after a reconnection the server knows of every topic but
   those from whose last subscription the send buffer refused a part.  What was
   written before the connection was up is lost, but as each topic's turn writes
   all of them again, one whole pass after it came up is enough. *)
AllResubscribed ==
  Quiet("loop") /\ Quiet("async") /\ ~lost /\ link = "up" /\ intime /\ ~torn =>
    topics \subseteq heard \cup refused

(* Nothing orders the writes of the two tasks, and nobody asks how much of them
   was taken.  Still, on a connection that came up between two frames one is torn
   only while the AsyncTCP task is in reconnect_host (it writes nowhere else), or
   when part of it, or of the frame before it, was refused: a frame that is
   refused as a whole harms no other. *)
FramesWhole ==
  [][torn' /\ ~torn => link = "opening" \/ task["async"].st \in PassState \/ cut' # {}]_vars

(* topic_loader comes to its end whatever the network and the server do. *)
LoaderFinishes == <>(task["loop"].st \in {ImageState[i] : i \in 1 .. 5})

(* reconnect_host returns once a connection lasts. *)
ReconnectReturns == (~Quiet("async")) ~> (Quiet("async") \/ []<>(link # "up"))
=============================================================================
