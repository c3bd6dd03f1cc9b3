------------------------------- MODULE Broker -------------------------------
(***************************************************************************)
(* RemoteAIServer (src/server.cpp): the subscriber lists, the list of      *)
(* publications, the notifier thread that empties it, and the callbacks    *)
(* that the reactor's threads run (the main thread, and the threads of its *)
(* heavy clients).  No lock guards the lists: each list operation is one   *)
(* step here, and the steps of all the threads interleave.                 *)
(*                                                                         *)
(* Topics are numbered in the order of their names, the order in which     *)
(* std::map visits m_subscribers.  A publication is its number, given out  *)
(* in the order in which is_publish put it on the list.                    *)
(***************************************************************************)
EXTENDS Integers, Sequences, FiniteSets

CONSTANTS
  Sock,       \* socket numbers
  Worker,     \* threads that run callbacks
  Main,       \* the one of them that is the reactor's main thread
  Topics,     \* topic names, 1..Topics in the order of their names
  Ask,        \* "askstream"
  Stop,       \* "askstopstream"
  View,       \* "robot_view"
  Listened,   \* topics that clients subscribe to
  Published,  \* topics that clients publish to
  MaxSubs,    \* length a subscriber list may reach
  MaxPub,     \* publications the clients make
  MaxOut      \* messages a socket takes before send() waits for the reader

Topic == 1 .. Topics
NoSock == 0

ASSUME BrokerAssumption ==
  /\ Topics \in Nat /\ MaxSubs \in Nat /\ MaxPub \in Nat /\ MaxOut \in Nat \ {0}
  /\ Listened \subseteq Topic /\ Published \subseteq Topic
  /\ Ask \in Topic /\ Stop \in Topic /\ View \in Topic
  /\ Ask # View /\ Stop # View /\ Ask # Stop
  /\ Main \in Worker /\ NoSock \notin Sock

VARIABLES
  conn,       \* a socket: "free", "up", "gone" (peer hung up), "closed" (and reported)
  out,        \* messages sent and not read by the peer
  broken,     \* sockets a send() was made to after the peer had gone
  alive,      \* the process runs
  subs,       \* m_subscribers: the sockets of each topic's list, in order
  objects,    \* m_objects
  pubs,       \* publications accepted
  job,        \* what each worker's callback has still to do
  ntf,        \* the notifier thread
  torn,       \* a list node was erased under an iterator that stood on it
  last,       \* the last publication sent to a socket since it was accepted
  owed,       \* listeners of the notifier's topic it has not sent to yet
  held,       \* subscriptions a socket had when its hang-up was reported
  asked       \* the stream order given last

sockets == <<conn, out, broken, alive>>
history == <<last, owed, held, asked>>
vars == <<sockets, subs, objects, pubs, job, ntf, torn, history>>

Resting == [st |-> "idle", sock |-> NoSock, topic |-> View, at |-> 1, left |-> 0, reader |-> FALSE]

Init ==
  /\ conn = [s \in Sock |-> "free"] /\ out = [s \in Sock |-> 0]
  /\ broken = {} /\ alive = TRUE
  /\ subs = [t \in Topic |-> <<>>]
  /\ objects = <<>> /\ pubs = 0
  /\ job = [w \in Worker |-> Resting]
  /\ ntf = [st |-> "wait", k |-> 1, at |-> 1]
  /\ torn = FALSE
  /\ last = [s \in Sock |-> 0] /\ owed = {}
  /\ held = [s \in Sock |-> 0] /\ asked = "none"

-----------------------------------------------------------------------------
(* send() with no flags: it waits while the peer's window is full; to a peer
   that has gone it succeeds once, and then fails and raises SIGPIPE (or, once,
   only fails); on a number that is no open socket it just fails.  It throws
   nothing, so the catch clauses of send_message never run. *)
Transmit_NoWait(s) ==
  /\ out' = [out EXCEPT ![s] = @ + 1]
  /\ UNCHANGED <<conn, broken, alive>>
Transmit(s) ==
  \/ /\ conn[s] = "up" /\ out[s] < MaxOut
     /\ out' = [out EXCEPT ![s] = @ + 1]
     /\ UNCHANGED <<conn, broken, alive>>
  \/ /\ conn[s] \in {"gone", "closed"} /\ s \notin broken
     /\ broken' = broken \cup {s}
     /\ UNCHANGED <<conn, out, alive>>
  \/ /\ conn[s] \in {"gone", "closed"} /\ s \in broken
     /\ alive' \in BOOLEAN
     /\ UNCHANGED <<conn, out, broken>>
  \/ /\ conn[s] = "free"
     /\ UNCHANGED sockets

(* The peer reads, and hangs up. *)
PeerReads(s) ==
  /\ alive /\ conn[s] = "up" /\ out[s] > 0
  /\ out' = [out EXCEPT ![s] = @ - 1]
  /\ UNCHANGED <<conn, broken, alive, subs, objects, pubs, job, ntf, torn, history>>

PeerHangsUp(s) ==
  /\ alive /\ conn[s] = "up"
  /\ conn' = [conn EXCEPT ![s] = "gone"]
  /\ out' = [out EXCEPT ![s] = 0]
  /\ UNCHANGED <<broken, alive, subs, objects, pubs, job, ntf, torn, history>>

-----------------------------------------------------------------------------
(* Lists under iterators.  A loop over a subscriber list stands on a node while
   it sends to that node's socket; erasing nodes moves the later ones up. *)

Entries(s) == {e \in Topic \X (1 .. MaxSubs) : e[2] <= Len(subs[e[1]]) /\ subs[e[1]][e[2]] = s}
Listeners(t) == {subs[t][i] : i \in 1 .. Len(subs[t])}

Order(w) == IF job[w].st = "start" THEN Ask ELSE Stop
Ordering(w) == job[w].st \in {"start", "stop"}
Notifies(t) == ntf.st = "send" /\ objects[ntf.k].topic = t
StoodOn(t) == {job[w].at : w \in {v \in Worker : Ordering(v) /\ Order(v) = t}}
                \cup {i \in {ntf.at} : Notifies(t)}

Nth(K, n) == CHOOSE k \in K : Cardinality({j \in K : j <= k}) = n
Kept(q, K) == [n \in 1 .. Cardinality(K) |-> q[Nth(K, n)]]
Moved_Not(at, K) == at
Moved(at, K) == 1 + Cardinality({k \in K : k < at})

(* Worker w keeps the nodes K of topic t's list and goes on as `next'.  An
   iterator left on an erased node is undefined behaviour: the freed link is
   still there to follow, or the process dies. *)
Erase(w, t, K, next) ==
  /\ subs' = [subs EXCEPT ![t] = Kept(@, K)]
  /\ job' = [v \in Worker |-> IF v = w THEN next
                              ELSE IF Ordering(v) /\ Order(v) = t
                              THEN [job[v] EXCEPT !.at = Moved(@, K)] ELSE job[v]]
  /\ ntf' = IF Notifies(t) THEN [ntf EXCEPT !.at = Moved(@, K)] ELSE ntf
  /\ owed' = IF Notifies(t) THEN owed \cap {subs[t][k] : k \in K} ELSE owed
  /\ LET hit == (StoodOn(t) \cap (1 .. Len(subs[t]))) \ K # {} IN
     /\ torn' = (torn \/ hit)
     /\ alive' \in (IF hit THEN BOOLEAN ELSE {TRUE})

-----------------------------------------------------------------------------
(* Callbacks. *)

Idle(w) == alive /\ job[w].st = "idle"
At(w, st) == alive /\ job[w].st = st
(* What a client sent before it hung up is still read. *)
Readable(s) == conn[s] \in {"up", "gone"}
Reading(s) == \E w \in Worker : job[w].sock = s /\ job[w].reader
Goes(w, st) == [job EXCEPT ![w].st = st, ![w].at = 1]
Starts(w, s, st) == [job EXCEPT ![w] = [Resting EXCEPT !.st = st, !.sock = s, !.reader = TRUE]]

(* new_client: the descriptor number is new or was closed before. *)
NewClient(s) ==
  /\ Idle(Main) /\ conn[s] = "free"
  /\ conn' = [conn EXCEPT ![s] = "up"]
  /\ out' = [out EXCEPT ![s] = 1]
  /\ last' = [last EXCEPT ![s] = 0]
  /\ held' = [held EXCEPT ![s] = 0]
  /\ UNCHANGED <<broken, alive, subs, objects, pubs, job, ntf, torn, owed, asked>>

(* read_income on a "SUB/.../sub": subscribe_topic puts the client at the end of
   the list, sends it the name, orders the stream if it is a viewer, and makes
   the list unique(); then the client is sent "ok". *)
Subscribe(w, s, t) ==
  /\ Idle(w) /\ Readable(s) /\ ~Reading(s)
  /\ Len(subs[t]) < MaxSubs
  /\ subs' = [subs EXCEPT ![t] = Append(@, s)]
  /\ job' = [job EXCEPT ![w] = [Resting EXCEPT !.st = "name", !.sock = s, !.topic = t, !.reader = TRUE]]
  /\ UNCHANGED <<sockets, objects, pubs, ntf, torn, history>>

SendName(w) ==
  /\ At(w, "name") /\ Transmit(job[w].sock)
  /\ IF job[w].topic = View
     THEN job' = Goes(w, "start") /\ asked' = "start"
     ELSE job' = Goes(w, "unique") /\ UNCHANGED asked
  /\ UNCHANGED <<subs, objects, pubs, ntf, torn, last, owed, held>>

(* send_immediate_message: one turn of the loop of notify_all_subscribers. *)
SendOrder(w) ==
  /\ alive /\ Ordering(w) /\ job[w].at <= Len(subs[Order(w)])
  /\ Transmit(subs[Order(w)][job[w].at])
  /\ job' = [job EXCEPT ![w].at = @ + 1]
  /\ UNCHANGED <<subs, objects, pubs, ntf, torn, history>>

OrderSent(w) ==
  /\ alive /\ Ordering(w) /\ job[w].at > Len(subs[Order(w)])
  /\ job' = Goes(w, IF job[w].st = "start" THEN "unique" ELSE "removed")
  /\ UNCHANGED <<sockets, subs, objects, pubs, ntf, torn, history>>

(* std::list::unique takes out what equals its predecessor. *)
Unique(q) == {i \in 1 .. Len(q) : i = 1 \/ q[i] # q[i - 1]}

MakeUnique(w) ==
  /\ At(w, "unique")
  /\ Erase(w, job[w].topic, Unique(subs[job[w].topic]), [job[w] EXCEPT !.st = "reply"])
  /\ UNCHANGED <<conn, out, broken, objects, pubs, last, held, asked>>

(* The answer at the end of read_income: "ok" or "no action". *)
Reply(w) ==
  /\ At(w, "reply") /\ Transmit(job[w].sock)
  /\ job' = [job EXCEPT ![w] = Resting]
  /\ UNCHANGED <<subs, objects, pubs, ntf, torn, history>>

(* is_publish; the publisher gets no answer. *)
Queued_Front(o) == <<o>> \o objects
Queued(o) == Append(objects, o)
Publish_Answered(w, s, t) ==
  /\ Idle(w) /\ Readable(s) /\ ~Reading(s)
  /\ pubs < MaxPub
  /\ pubs' = pubs + 1
  /\ objects' = Queued([id |-> pubs + 1, topic |-> t, published |-> FALSE])
  /\ job' = Starts(w, s, "reply")
  /\ UNCHANGED <<sockets, subs, ntf, torn, history>>
Publish(w, s, t) ==
  /\ Idle(w) /\ Readable(s) /\ ~Reading(s)
  /\ pubs < MaxPub
  /\ pubs' = pubs + 1
  /\ objects' = Queued([id |-> pubs + 1, topic |-> t, published |-> FALSE])
  /\ UNCHANGED <<sockets, subs, job, ntf, torn, history>>

NoAction(w, s) ==
  /\ Idle(w) /\ Readable(s) /\ ~Reading(s)
  /\ job' = Starts(w, s, "reply")
  /\ UNCHANGED <<sockets, subs, objects, pubs, ntf, torn, history>>

(* on_fail and close_client call remove_subscriber one after the other: for a
   client that hung up; again, from a heavy thread that does not return; and
   for a newcomer that is refused, whose number is no longer open. *)
Removals_Once == 1
Removals == 2
HungUp(w, s) ==
  /\ Idle(w) /\ conn[s] = "gone" /\ ~Reading(s)
  /\ job' = [Starts(w, s, "remove") EXCEPT ![w].left = Removals]
  /\ held' = [held EXCEPT ![s] = Cardinality(Entries(s))]
  /\ UNCHANGED <<sockets, subs, objects, pubs, ntf, torn, last, owed, asked>>

HungUpAgain(w, s) ==
  /\ Idle(w)
  /\ \/ w # Main /\ conn[s] = "closed"
     \/ w = Main /\ conn[s] = "free"
  /\ job' = [Starts(w, s, "remove") EXCEPT ![w].left = Removals, ![w].reader = FALSE]
  /\ UNCHANGED <<sockets, subs, objects, pubs, ntf, torn, history>>

(* remove_subscriber: the first entry in the order of the topics is erased. *)
First(s) == CHOOSE e \in Entries(s) :
              \A d \in Entries(s) : e[1] < d[1] \/ (e[1] = d[1] /\ e[2] <= d[2])

RemoveFirst(w) ==
  /\ At(w, "remove") /\ job[w].left > 0 /\ Entries(job[w].sock) # {}
  /\ LET e == First(job[w].sock) IN
     Erase(w, e[1], (1 .. Len(subs[e[1]])) \ {e[2]},
           [job[w] EXCEPT !.st = IF e[1] = View THEN "viewers" ELSE "removed"])
  /\ UNCHANGED <<conn, out, broken, objects, pubs, last, held, asked>>

NoneToRemove(w) ==
  /\ At(w, "remove") /\ job[w].left > 0 /\ Entries(job[w].sock) = {}
  /\ job' = Goes(w, "removed")
  /\ UNCHANGED <<sockets, subs, objects, pubs, ntf, torn, history>>

(* The camera is told to stop when the erased viewer was the last. *)
LastViewer_Any == TRUE
LastViewer == subs[View] = <<>>

CheckViewers(w) ==
  /\ At(w, "viewers")
  /\ IF LastViewer
     THEN job' = Goes(w, "stop") /\ asked' = "stop"
     ELSE job' = Goes(w, "removed") /\ UNCHANGED asked
  /\ UNCHANGED <<sockets, subs, objects, pubs, ntf, torn, last, owed, held>>

RemovalDone_Again(w) ==
  /\ At(w, "removed")
  /\ job' = [job EXCEPT ![w].st = "remove"]
  /\ UNCHANGED <<sockets, subs, objects, pubs, ntf, torn, history>>
RemovalDone(w) ==
  /\ At(w, "removed")
  /\ job' = [job EXCEPT ![w].st = "remove", ![w].left = @ - 1]
  /\ UNCHANGED <<sockets, subs, objects, pubs, ntf, torn, history>>

(* client.close() after the two callbacks. *)
MarkClosed(w) ==
  /\ At(w, "remove") /\ job[w].left = 0
  /\ conn' = IF job[w].reader THEN [conn EXCEPT ![job[w].sock] = "closed"] ELSE conn
  /\ job' = [job EXCEPT ![w] = Resting]
  /\ UNCHANGED <<out, broken, alive, subs, objects, pubs, ntf, torn, history>>

(* clean_up of the reactor closes the descriptor of a heavy client. *)
CleanUp(s) ==
  /\ Idle(Main) /\ conn[s] = "closed"
  /\ conn' = [conn EXCEPT ![s] = "free"]
  /\ broken' = broken \ {s}
  /\ UNCHANGED <<out, alive, subs, objects, pubs, job, ntf, torn, history>>

-----------------------------------------------------------------------------
(* threaded_notifier. *)

Scanning == alive /\ ntf.st = "scan"
Sending == alive /\ ntf.st = "send"

Wake ==
  /\ alive /\ ntf.st = "wait" /\ objects # <<>>
  /\ ntf' = [ntf EXCEPT !.st = "scan", !.k = 1]
  /\ UNCHANGED <<sockets, subs, objects, pubs, job, torn, history>>

(* A published object is erased, and the loop starts again from the front. *)
ErasePublished ==
  /\ Scanning /\ ntf.k <= Len(objects) /\ objects[ntf.k].published
  /\ objects' = Kept(objects, (1 .. Len(objects)) \ {ntf.k})
  /\ ntf' = [ntf EXCEPT !.st = "wait"]
  /\ UNCHANGED <<sockets, subs, pubs, job, torn, history>>

TakeTopic ==
  /\ Scanning /\ ntf.k <= Len(objects) /\ ~objects[ntf.k].published
  /\ ntf' = [ntf EXCEPT !.st = "send", !.at = 1]
  /\ owed' = Listeners(objects[ntf.k].topic)
  /\ UNCHANGED <<sockets, subs, objects, pubs, job, torn, last, held, asked>>

Audience == subs[objects[ntf.k].topic]

SendPublication ==
  /\ Sending /\ ntf.at <= Len(Audience)
  /\ LET s == Audience[ntf.at] IN
     /\ Transmit(s)
     /\ last' = [last EXCEPT ![s] = objects[ntf.k].id]
     /\ owed' = owed \ {s}
  /\ ntf' = [ntf EXCEPT !.at = @ + 1]
  /\ UNCHANGED <<subs, objects, pubs, job, torn, held, asked>>

SetPublished_Missing ==
  /\ Sending /\ ntf.at > Len(Audience)
  /\ ntf' = [ntf EXCEPT !.st = "scan", !.k = @ + 1, !.at = 1]
  /\ UNCHANGED <<sockets, subs, objects, pubs, job, torn, history>>
SetPublished ==
  /\ Sending /\ ntf.at > Len(Audience)
  /\ objects' = [objects EXCEPT ![ntf.k].published = TRUE]
  /\ ntf' = [ntf EXCEPT !.st = "scan", !.k = @ + 1, !.at = 1]
  /\ UNCHANGED <<sockets, subs, pubs, job, torn, history>>

EndOfObjects ==
  /\ Scanning /\ ntf.k > Len(objects)
  /\ ntf' = [ntf EXCEPT !.st = "wait"]
  /\ UNCHANGED <<sockets, subs, objects, pubs, job, torn, history>>

NotifierStep ==
  Wake \/ ErasePublished \/ TakeTopic \/ SendPublication \/ SetPublished \/ EndOfObjects

Continue(w) ==
  \/ SendName(w) \/ SendOrder(w) \/ OrderSent(w) \/ MakeUnique(w) \/ Reply(w)
  \/ RemoveFirst(w) \/ NoneToRemove(w) \/ CheckViewers(w) \/ RemovalDone(w) \/ MarkClosed(w)

Begin(w, s) ==
  \/ \E t \in Listened : Subscribe(w, s, t)
  \/ \E t \in Published : Publish(w, s, t)
  \/ NoAction(w, s) \/ HungUp(w, s) \/ HungUpAgain(w, s)

Peer(s) == PeerReads(s) \/ PeerHangsUp(s)

Next ==
  \/ NotifierStep
  \/ \E w \in Worker : Continue(w) \/ \E s \in Sock : Begin(w, s)
  \/ \E s \in Sock : NewClient(s) \/ CleanUp(s) \/ Peer(s)

Spec == Init /\ [][Next]_vars

FairSpec == Spec /\ WF_vars(NotifierStep) /\ \A w \in Worker : WF_vars(Continue(w))

-----------------------------------------------------------------------------
Callback == {"idle", "name", "start", "unique", "reply", "remove", "viewers", "stop", "removed"}

TypeOK ==
  /\ conn \in [Sock -> {"free", "up", "gone", "closed"}]
  /\ out \in [Sock -> 0 .. MaxOut] /\ broken \subseteq Sock /\ alive \in BOOLEAN
  /\ subs \in [Topic -> Seq(Sock)]
  /\ objects \in Seq([id : 1 .. MaxPub, topic : Topic, published : BOOLEAN]) /\ pubs \in 0 .. MaxPub
  /\ job \in [Worker -> [st : Callback, sock : Sock \cup {NoSock}, topic : Topic,
                         at : Nat, left : 0 .. Removals, reader : BOOLEAN]]
  /\ ntf \in [st : {"wait", "scan", "send"}, k : Nat, at : Nat]
  /\ torn \in BOOLEAN
  /\ last \in [Sock -> 0 .. MaxPub] /\ owed \subseteq Sock
  /\ held \in [Sock -> Nat] /\ asked \in {"none", "start", "stop"}

-----------------------------------------------------------------------------
(* Properties. *)

(* The notifier is a queue: publications are sent one after the other, in the
   order in which is_publish accepted them, whatever the callbacks do to the
   lists meanwhile; m_objects is that queue with what was already sent in
   front of it. *)
Sent == Cardinality({i \in 1 .. Len(objects) : objects[i].published})
Waiting == [i \in 1 .. Len(objects) - Sent |-> objects[Sent + i].id]
Dispatch == INSTANCE FifoDispatch WITH queue <- Waiting, count <- pubs
DispatchedInOrder == Dispatch!Spec

(* A publication is marked as published only when every client that was in its
   list at the start, and has not been erased from it since, has been sent to,
   though callbacks erase and append nodes while send() waits. *)
EveryListenerServed ==
  Sending /\ ~torn => owed \subseteq {Audience[i] : i \in ntf.at .. Len(Audience)}

(* Reporting a hang-up erases two subscriptions, one for on_fail and one for
   close_client: a client with at most two is forgotten, and of one with more
   all but two stay behind, for whoever gets the number next. *)
ForgottenUpToTwo ==
  \A s \in Sock : conn[s] = "closed" =>
    Cardinality(Entries(s)) <= IF held[s] > 2 THEN held[s] - 2 ELSE 0

(* Between callbacks of a server without heavy clients, the last order given
   to the camera is "askstream" exactly when somebody is listed as a viewer. *)
StreamFollowsViewers ==
  Worker = {Main} /\ Idle(Main) /\ ~torn => (asked = "start" <=> subs[View] # <<>>)

(* A send() ends the process only when it goes to a peer that has hung up and
   whose hang-up is still to be reported, or that had more than two
   subscriptions: a client that has been forgotten does no harm. *)
Forgotten(s) == conn[s] = "closed" /\ held[s] <= 2
StandsBefore(w, s) ==
  \/ job[w].st \in {"name", "reply"} /\ s = job[w].sock
  \/ Ordering(w) /\ job[w].at <= Len(subs[Order(w)]) /\ s = subs[Order(w)][job[w].at]
SentTo(s) ==
  \/ \E w \in Worker : StandsBefore(w, s) /\ job'[w] # job[w]
  \/ Sending /\ ntf.at <= Len(Audience) /\ s = Audience[ntf.at] /\ ntf' # ntf
DiesOfTheUnforgotten ==
  [][alive /\ ~alive' /\ ~torn' => \E s \in broken : SentTo(s) /\ ~Forgotten(s)]_vars

(* When publishing stops, every publication leaves the list: only a listener
   whose socket is full again and again, listeners that come (and go) for ever,
   or the end of the process, keep the notifier from it. *)
Blocked(s) == conn[s] = "up" /\ out[s] = MaxOut
NotifierBlocked == Sending /\ ntf.at <= Len(Audience) /\ Blocked(Audience[ntf.at])
Subscribing == \E w \in Worker : At(w, "name")
Holds(p) == \E i \in 1 .. Len(objects) : objects[i].id = p
PublicationsLeave ==
  \A p \in 1 .. MaxPub : (pubs >= p) ~> (~Holds(p) \/ ~alive \/ []<>(NotifierBlocked \/ Subscribing))

(* Every callback returns to the reactor, unless a send() in it waits for a
   peer that does not read: with the main thread in it, the whole server. *)
WorkerBlocked(w) ==
  \/ job[w].st \in {"name", "reply"} /\ Blocked(job[w].sock)
  \/ Ordering(w) /\ job[w].at <= Len(subs[Order(w)]) /\ Blocked(subs[Order(w)][job[w].at])
CallbacksReturn ==
  \A w \in Worker : (job[w].st # "idle") ~> (job[w].st = "idle" \/ ~alive \/ []<>WorkerBlocked(w))
=============================================================================
