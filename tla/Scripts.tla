------------------------------ MODULE Scripts ------------------------------
(***************************************************************************)
(* The clients at work with the Broker: the Python scripts                 *)
(* dummy_publisher.py, topics_subscriber_dummy.py, camera_publisher.py and *)
(* dummy_subscriber.py (the "viewer"), and the robot (RemoteAIClient       *)
(* without its faults and its pictures).  They run for ever, but a         *)
(* subscriber whose answer takes longer than a second ends, and viewers    *)
(* come and go.  What a script sends is under way until the main thread    *)
(* reads it, one message or several joined: cuts within a message are left *)
(* to Framing.  Read is a message when its callback's first effect comes.  *)
(* The server is sent subscriptions and publications, and sends "ok", the  *)
(* name that answers a subscription ("topic"), its own orders              *)
(* ("topic/pub") and publications ("topic<|||>payload").                   *)
(***************************************************************************)
EXTENDS Broker

CONSTANTS
  Casts,        \* which scripts may be at the other ends of the sockets
  CameraTopic,  \* "askstrream", to which camera_publisher.py subscribes
  Commands,     \* what each viewer may show: "go_forward" and "stop", or nothing
  Load          \* the topics the robot subscribes to, in the order of `topics'

(* The kinds are "ok", "name", "order", "publication" and "subscription". *)
Note(kind, t) == [kind |-> kind, topic |-> t]
Ok == Note("ok", View)

ASSUME ScriptsAssumption ==
  /\ Casts \subseteq [Sock -> {"publisher", "subscriber", "camera", "viewer", "robot"}]
  /\ CameraTopic \in Topic /\ Commands \in [Sock -> SUBSET Topic]
  /\ Load \in Seq(Topic) /\ Load # <<>>

VARIABLES
  role,    \* the script at the other end of each socket
  wire,    \* the messages on their way from a script to the server
  mail,    \* the messages on their way to a script
  at,      \* what a script does next
  todo,    \* the topics a subscriber (a robot, in this pass) has still to subscribe to
  made,    \* publications a script has made; topics a robot has loaded
  stream,  \* the robots with m_is_stream
  missed,  \* robots that were sent an "askstream" publication and did not understand it
  lost     \* scripts whose "askstream" publication the server did not understand

asking == <<stream, missed, lost>>
allVars == <<vars, role, wire, mail, at, todo, made, asking>>

ScriptsInit ==
  /\ Init /\ role \in Casts
  /\ wire = [s \in Sock |-> <<>>] /\ mail = [s \in Sock |-> <<>>]
  /\ at = [s \in Sock |-> "connect"]
  /\ todo = [s \in Sock |-> CASE role[s] = "subscriber" -> Listened
                             [] role[s] = "robot" -> {Load[1]} [] OTHER -> {}]
  /\ made = [s \in Sock |-> 0] /\ stream = {} /\ missed = {} /\ lost = {}

-----------------------------------------------------------------------------
(* The server's steps, and what they put into the mail. *)

(* What is sent to a script that has ended does not arrive. *)
Deliver(s, m) ==
  mail' = IF out'[s] > out[s] THEN [mail EXCEPT ![s] = Append(@, m)] ELSE mail

(* send_immediate_message's text has no divider. *)
OrderText_Divided(t) == Note("publication", t)
OrderText(t) == Note("order", t)

(* The answer to a callback that gives one. *)
Answer(w) == Reply(w) /\ Deliver(job[w].sock, Ok)

WorkerStep(w) ==
  \/ SendName(w) /\ Deliver(job[w].sock, Note("name", job[w].topic))
  \/ SendOrder(w) /\ Deliver(subs[Order(w)][job[w].at], OrderText(Order(w)))
  \/ Answer(w)
  \/ /\ \/ OrderSent(w) \/ MakeUnique(w) \/ \E s \in Sock : wire[s] = <<>> /\ HungUp(w, s)
        \/ RemoveFirst(w) \/ NoneToRemove(w) \/ CheckViewers(w) \/ RemovalDone(w) \/ MarkClosed(w)
     /\ UNCHANGED mail

PublisherStep ==
  \/ SendPublication /\ Deliver(Audience[ntf.at], Note("publication", objects[ntf.k].topic))
  \/ /\ Wake \/ ErasePublished \/ TakeTopic \/ SetPublished \/ EndOfObjects
     /\ UNCHANGED mail

(* read_income on messages that one recv() took together: handle_subscription
   looks for a subscription anywhere among them, and finds the name behind the
   first subscription's mark, or behind that of the first publication that
   follows it; is_publish puts the first publication on the list.  The other
   messages are lost. *)
Asks(m) == m = Note("publication", Ask)
Of(kind, q) == {i \in 1 .. Len(q) : q[i].kind = kind}
Earliest(P) == CHOOSE i \in P : \A j \in P : i <= j
NameIn(q) ==
  LET i == Earliest(Of("subscription", q))
      later == {j \in Of("publication", q) : j > i}
  IN q[IF later = {} THEN i ELSE Earliest(later)].topic

ReadIncome(s, q) ==
  \/ Of("subscription", q) # {} /\ Subscribe(Main, s, NameIn(q))
  \/ Of("subscription", q) = {} /\ Publish(Main, s, q[1].topic)

ServerReads(s) ==
  /\ UNCHANGED <<role, mail, at, todo, made, stream, missed>>
  /\ \E n \in 1 .. Len(wire[s]) :
       /\ ReadIncome(s, SubSeq(wire[s], 1, n))
       /\ wire' = [wire EXCEPT ![s] = SubSeq(@, n + 1, Len(@))]
       /\ lost' = IF \E i \in 1 .. n : /\ Asks(wire[s][i])
                                       /\ i > 1 \/ Of("subscription", SubSeq(wire[s], 1, n)) # {}
                  THEN lost \cup {s} ELSE lost

scripts == <<role, wire, at, todo, made, asking>>
ServerStep == (PublisherStep \/ \E w \in Worker : WorkerStep(w)) /\ UNCHANGED scripts

-----------------------------------------------------------------------------
(* The scripts. *)

Doing(s, script, st) == role[s] = script /\ at[s] = st
Goto(s, st) == at' = [at EXCEPT ![s] = st]

(* recv() returns some of what has come, at least something. *)
Recv(s, n) ==
  /\ alive /\ n \in 1 .. Len(mail[s])
  /\ mail' = [mail EXCEPT ![s] = SubSeq(@, n + 1, Len(@))]
  /\ out' = [out EXCEPT ![s] = @ - n]
  /\ UNCHANGED <<conn, broken, alive, subs, objects, pubs, job, ntf, torn, history, wire, todo, made>>

Sends(s, kind, t) ==
  /\ alive /\ conn[s] = "up"
  /\ wire' = [wire EXCEPT ![s] = Append(@, Note(kind, t))]
  /\ UNCHANGED <<vars, mail>>

Subscribes(s, t) == Sends(s, "subscription", t)

Publishes(s, t) ==
  /\ Sends(s, "publication", t)
  /\ made' = [made EXCEPT ![s] = @ + 1]
  /\ UNCHANGED todo

Connect(s) ==
  /\ at[s] = "connect"
  /\ NewClient(s) /\ mail' = [mail EXCEPT ![s] = <<Ok>>]
  /\ Goto(s, "send") /\ UNCHANGED <<wire, todo, made>>

(* dummy_publisher.py: publish, wait for an answer, and so on. *)
PublisherSends(s, t) ==
  /\ Doing(s, "publisher", "send")
  /\ Publishes(s, t)
  /\ Goto(s, "recv")

PublisherReads(s, n) ==
  /\ Doing(s, "publisher", "recv") /\ Recv(s, n)
  /\ Goto(s, "send")

(* topics_subscriber_dummy.py: subscribe to one topic after the other, read
   once after each, and then read for ever. *)
SubscriberSends_Again(s, t) ==
  /\ Doing(s, "subscriber", "send") /\ t \in todo[s]
  /\ Subscribes(s, t)
  /\ Goto(s, "recv") /\ UNCHANGED <<todo, made>>
SubscriberSends(s, t) ==
  /\ Doing(s, "subscriber", "send") /\ t \in todo[s]
  /\ Subscribes(s, t)
  /\ todo' = [todo EXCEPT ![s] = @ \ {t}]
  /\ Goto(s, "recv") /\ UNCHANGED made

SubscriberReads(s, n) ==
  /\ Doing(s, "subscriber", "recv") /\ Recv(s, n)
  /\ Goto(s, IF todo[s] = {} THEN "listen" ELSE "send")

(* Nothing catches the timeout of these reads: the script ends. *)
SubscriberTimesOut(s) ==
  /\ Doing(s, "subscriber", "recv")
  /\ PeerHangsUp(s)
  /\ mail' = [mail EXCEPT ![s] = <<>>]
  /\ Goto(s, "ended") /\ UNCHANGED <<wire, todo, made>>

(* What a listener reads, and how much at a time, makes no difference. *)
Listens(s, n) ==
  /\ at[s] = "listen" /\ n = Len(mail[s]) /\ Recv(s, n)
  /\ UNCHANGED at

(* camera_publisher.py: subscribe, and wait until "askstream" comes. *)
CameraSubscribes(s) ==
  /\ Doing(s, "camera", "send")
  /\ Subscribes(s, CameraTopic)
  /\ Goto(s, "recv") /\ UNCHANGED <<todo, made>>

CameraReads(s, n) ==
  /\ Doing(s, "camera", "recv") /\ Recv(s, n)
  /\ LET heard == \E i \in 1 .. n : mail[s][i].topic = Ask /\ mail[s][i].kind # "ok"
     IN Goto(s, IF heard THEN "stream" ELSE "recv")

(* dummy_subscriber.py: publish "askstream", read what may come within a
   second, subscribe to the pictures, and then read and give commands. *)
ViewerAsks(s) ==
  /\ Doing(s, "viewer", "send")
  /\ Publishes(s, Ask)
  /\ Goto(s, "try")

ViewerReads(s, n) ==
  /\ Doing(s, "viewer", "try") /\ Recv(s, n)
  /\ Goto(s, "view")

ViewerTimesOut(s) ==
  /\ Doing(s, "viewer", "try") /\ alive
  /\ Goto(s, "view") /\ UNCHANGED <<vars, wire, mail, todo, made>>

ViewerSubscribes(s) ==
  /\ Doing(s, "viewer", "view")
  /\ Subscribes(s, View)
  /\ Goto(s, "listen") /\ UNCHANGED <<todo, made>>

(* MaxPub bounds a viewer's publications. *)
ViewerCommands(s, t) ==
  /\ Doing(s, "viewer", "listen") /\ made[s] < MaxPub
  /\ Publishes(s, t)
  /\ UNCHANGED at

(* A viewer is closed. *)
ViewerQuits(s) ==
  /\ Doing(s, "viewer", "listen")
  /\ PeerHangsUp(s)
  /\ mail' = [mail EXCEPT ![s] = <<>>]
  /\ Goto(s, "ended") /\ UNCHANGED <<wire, todo, made>>

(* The robot: topic_loader makes a pass over the topics loaded so far, in the
   order of their names, for each topic, and does not wait for the answers. *)
Loaded(n) == {Load[i] : i \in 1 .. n}
RobotSubscribes(s, t) ==
  /\ Doing(s, "robot", "send") /\ t \in todo[s] /\ \A u \in todo[s] : t <= u
  /\ Subscribes(s, t)
  /\ \/ /\ todo[s] # {t}
        /\ todo' = [todo EXCEPT ![s] = @ \ {t}] /\ UNCHANGED <<made, at>>
     \/ /\ todo[s] = {t} /\ made[s] + 1 < Len(Load)
        /\ todo' = [todo EXCEPT ![s] = Loaded(made[s] + 2)]
        /\ made' = [made EXCEPT ![s] = @ + 1] /\ UNCHANGED at
     \/ /\ todo[s] = {t} /\ made[s] + 1 = Len(Load)
        /\ todo' = [todo EXCEPT ![s] = {}]
        /\ made' = [made EXCEPT ![s] = @ + 1] /\ Goto(s, "loop")

Acting(s) == at[s] = "loop"
RobotReads(s, n) ==
  /\ role[s] = "robot" /\ Recv(s, n)
  /\ LET acts == Acting(s) /\ mail[s][1].kind = "publication" IN
     /\ stream' = CASE acts /\ mail[s][1].topic = Ask -> stream \cup {s}
                    [] acts /\ mail[s][1].topic = Stop -> stream \ {s}
                    [] OTHER -> stream
     /\ missed' = IF \E i \in 1 .. n : Asks(mail[s][i]) /\ ~(at[s] = "loop" /\ i = 1)
                  THEN missed \cup {s} ELSE missed
  /\ UNCHANGED <<at, lost>>

ScriptSends(s) ==
  /\ UNCHANGED <<role, asking>>
  /\ \/ Connect(s) \/ CameraSubscribes(s) \/ ViewerAsks(s) \/ ViewerTimesOut(s) \/ ViewerSubscribes(s)
     \/ \E t \in Published : PublisherSends(s, t)
     \/ \E t \in Listened : SubscriberSends(s, t)
     \/ \E t \in Topic : RobotSubscribes(s, t)
  /\ UNCHANGED <<role, asking>>

ScriptReads(s) ==
  /\ UNCHANGED <<role, wire>>
  /\ \E n \in 1 .. Len(mail[s]) :
       \/ /\ \/ PublisherReads(s, n) \/ SubscriberReads(s, n) \/ Listens(s, n)
             \/ CameraReads(s, n) \/ ViewerReads(s, n)
          /\ UNCHANGED asking
       \/ RobotReads(s, n)
  /\ UNCHANGED role

(* What a script may do or not. *)
ScriptChoice(s) ==
  /\ SubscriberTimesOut(s) \/ ViewerQuits(s) \/ \E t \in Commands[s] : ViewerCommands(s, t)
  /\ UNCHANGED <<role, asking>>

ScriptsNext ==
  \/ ServerStep
  \/ \E s \in Sock : ServerReads(s) \/ ScriptSends(s) \/ ScriptReads(s) \/ ScriptChoice(s)

ScriptsSafe == ScriptsInit /\ [][ScriptsNext]_allVars

(* The scripts run by themselves, the server's threads are scheduled; what a
   viewer sees in the pictures is open.  The main thread takes turns between
   the listening socket and the sockets of its clients. *)
ScriptsSpec ==
  /\ ScriptsSafe
  /\ WF_allVars(UNCHANGED scripts /\ PublisherStep)
  /\ \A w \in Worker : WF_allVars(UNCHANGED scripts /\ WorkerStep(w))
  /\ \A s \in Sock : /\ SF_allVars(ServerReads(s))
                     /\ SF_allVars(ScriptSends(s)) /\ WF_allVars(ScriptReads(s))

-----------------------------------------------------------------------------
(* Properties. *)

(* Every subscriber gets through its topics and every viewer comes to watch,
   however many answers a recv() of theirs takes at once, unless a read timed
   out, or the server sent to a script that had ended and died of it. *)
ListenersSettle ==
  <>(~alive \/ \A s \in Sock : role[s] \in {"subscriber", "viewer"} => at[s] \in {"listen", "ended"})

(* All that a publisher is ever sent is the "ok" of its connection: that lets it
   make a second publication, and no third. *)
PublisherMakesTwo == \A s \in Sock : role[s] = "publisher" => made[s] <= 2

(* The order to stop that the server gives when the last viewer has gone does
   not reach the robot's camera, whatever comes with it in a segment, and no
   script publishes "askstopstream": once on, the stream stays on. *)
StreamStaysOn == [][stream \subseteq stream']_allVars


(* dummy_publisher.py:21 reads an answer to each publication before it makes
   the next: whenever it waits, something comes. *)
PublisherAnswered ==
  \A s \in Sock : Doing(s, "publisher", "recv") ~> (at[s] = "send")

(* camera_publisher.py:23 starts the stream when "askstream" comes: once it
   waits and a viewer has subscribed, it starts, unless the viewer leaves. *)
CameraStarts ==
  \A s \in Sock :
    (Doing(s, "camera", "recv") /\ asked = "start") ~> (at[s] = "stream" \/ asked = "stop")
=============================================================================
