------------------------------ MODULE ListRace ------------------------------
(***************************************************************************)
(* m_objects of RemoteAIServer (src/server.cpp), a std::list without a     *)
(* lock, one access to its memory at a time: the callbacks that append     *)
(* publications (is_publish) against the notifier that walks the list and  *)
(* erases what it has sent.  Broker takes each of these operations as one  *)
(* step; this module says when that is right, and what happens otherwise.  *)
(*                                                                         *)
(* The list is the ring of libstdc++: a header that end() stands for, two  *)
(* links to a node, and a counter of nodes beside the header.  Each        *)
(* publication has a node of its own; accesses are sequentially consistent *)
(* and read-modify-write of the counter is two of them.                    *)
(***************************************************************************)
EXTENDS Integers, FiniteSets

CONSTANTS
  Appender,   \* the threads whose callbacks append
  MaxPub      \* publications they make

ASSUME ListRaceAssumption == MaxPub \in Nat /\ IsFiniteSet(Appender)

Header == 0
Node == 1 .. MaxPub
Place == {Header} \cup Node

VARIABLES
  next, prev,  \* the links
  size,        \* the counter
  made,        \* publications made: their nodes are 1..made
  published,   \* nodes with m_is_published: they have been sent
  freed,       \* nodes that were erased
  app,         \* an appender: where it is in emplace_back, its node, what it has read
  ntf,         \* the notifier: where it is, its iterator, what erase() has read
  alive,       \* the process runs
  crossed,     \* two appends have overlapped while they linked their nodes
  cut,         \* an erasure of the last node and an append have overlapped
  skew         \* the counter was changed between a read and the write that follows it

memory == <<next, prev, size>>
history == <<crossed, cut, skew>>
vars == <<memory, made, published, freed, app, ntf, alive, history>>

Init ==
  /\ next = [x \in Place |-> Header] /\ prev = [x \in Place |-> Header]
  /\ size = 0 /\ made = 0 /\ published = {} /\ freed = {}
  /\ app = [a \in Appender |-> [st |-> "idle", node |-> Header, tail |-> Header, n |-> 0]]
  /\ ntf = [st |-> "look", at |-> Header, next |-> Header, prev |-> Header, n |-> 0]
  /\ alive = TRUE /\ crossed = FALSE /\ cut = FALSE /\ skew = FALSE

-----------------------------------------------------------------------------
(* is_publish: m_objects.emplace_back(). *)

Appending(a, st) == alive /\ app[a].st = st
Linking(a) == app[a].st \in {"tail", "header"}
Unlinking == ntf.st \in {"forward", "back"}

(* The node is filled in and given its place before the header: the last
   node's address is read here, once. *)
Make(a) ==
  /\ Appending(a, "idle") /\ made < MaxPub
  /\ made' = made + 1
  /\ LET x == made + 1 IN
     /\ next' = [next EXCEPT ![x] = Header]
     /\ prev' = [prev EXCEPT ![x] = prev[Header]]
     /\ app' = [app EXCEPT ![a] = [st |-> "tail", node |-> x, tail |-> prev[Header], n |-> 0]]
  /\ crossed' = (crossed \/ \E b \in Appender : Linking(b))
  /\ cut' = (cut \/ (Unlinking /\ ntf.next = Header))
  /\ UNCHANGED <<size, published, freed, ntf, alive, skew>>

(* The write may go to a node that was erased in the meantime: its memory is
   still there, or the allocator's data are spoiled and the process dies. *)
Linked_InFront(a) == [next EXCEPT ![Header] = app[a].node]
Linked(a) == [next EXCEPT ![app[a].tail] = app[a].node]
LinkTail(a) ==
  /\ Appending(a, "tail")
  /\ next' = Linked(a)
  /\ alive' \in (IF app[a].tail \in freed THEN BOOLEAN ELSE {TRUE})
  /\ app' = [app EXCEPT ![a].st = "header"]
  /\ UNCHANGED <<prev, size, made, published, freed, ntf, history>>

LinkHeader(a) ==
  /\ Appending(a, "header")
  /\ prev' = [prev EXCEPT ![Header] = app[a].node]
  /\ app' = [app EXCEPT ![a].st = "load"]
  /\ UNCHANGED <<next, size, made, published, freed, ntf, alive, history>>

LoadSize(a) ==
  /\ Appending(a, "load")
  /\ app' = [app EXCEPT ![a].st = "store", ![a].n = size]
  /\ UNCHANGED <<memory, made, published, freed, ntf, alive, history>>

StoreSize(a) ==
  /\ Appending(a, "store")
  /\ size' = app[a].n + 1
  /\ skew' = (skew \/ size # app[a].n)
  /\ app' = [app EXCEPT ![a].st = "idle"]
  /\ UNCHANGED <<next, prev, made, published, freed, ntf, alive, crossed, cut>>

EmplaceBack(a) == Make(a) \/ LinkTail(a) \/ LinkHeader(a) \/ LoadSize(a) \/ StoreSize(a)

-----------------------------------------------------------------------------
(* threaded_notifier.  An iterator at the header is at the end of the list, and
   the notifier waits; the sends to the subscribers are a part of a step. *)

Notifying(st) == alive /\ ntf.st = st
Goes(st) == ntf' = [ntf EXCEPT !.st = st]

(* while (m_objects.size() == 0) pause; then begin(). *)
Worth_Two == size > 1
Worth_Always == TRUE
Worth == size # 0
Wake ==
  /\ Notifying("look") /\ ntf.at = Header /\ Worth
  /\ ntf' = [ntf EXCEPT !.at = next[Header]]
  /\ UNCHANGED <<memory, made, published, freed, app, alive, history>>

SendPublication ==
  /\ Notifying("look") /\ ntf.at # Header /\ ntf.at \notin published
  /\ published' = published \cup {ntf.at}
  /\ ntf' = [ntf EXCEPT !.at = next[@]]
  /\ UNCHANGED <<memory, made, freed, app, alive, history>>

(* erase(): the counter first, then the node is unlinked and freed. *)
EraseLoad ==
  /\ Notifying("look") /\ ntf.at # Header /\ ntf.at \in published
  /\ ntf' = [ntf EXCEPT !.st = "store", !.n = size]
  /\ UNCHANGED <<memory, made, published, freed, app, alive, history>>

EraseStore ==
  /\ Notifying("store")
  /\ size' = ntf.n - 1
  /\ skew' = (skew \/ size # ntf.n)
  /\ Goes("unlink")
  /\ UNCHANGED <<next, prev, made, published, freed, app, alive, crossed, cut>>

Unlink ==
  /\ Notifying("unlink")
  /\ ntf' = [ntf EXCEPT !.st = "forward", !.next = next[ntf.at], !.prev = prev[ntf.at]]
  /\ cut' = (cut \/ \E a \in Appender :
                      <<app[a].st, ntf.at>> \in {<<"tail", app[a].tail>>, <<"header", app[a].node>>})
  /\ UNCHANGED <<memory, made, published, freed, app, alive, crossed, skew>>

UnlinkForward ==
  /\ Notifying("forward")
  /\ next' = [next EXCEPT ![ntf.prev] = ntf.next]
  /\ Goes("back")
  /\ UNCHANGED <<prev, size, made, published, freed, app, alive, history>>

Relinked_Not == prev
Relinked == [prev EXCEPT ![ntf.next] = ntf.prev]
UnlinkBack ==
  /\ Notifying("back")
  /\ prev' = Relinked
  /\ freed' = freed \cup {ntf.at}
  /\ ntf' = [ntf EXCEPT !.st = "look", !.at = Header]
  /\ UNCHANGED <<next, size, made, published, app, alive, history>>

Erase == EraseLoad \/ EraseStore \/ Unlink \/ UnlinkForward \/ UnlinkBack
Notify == Wake \/ SendPublication \/ Erase

Next == Notify \/ \E a \in Appender : EmplaceBack(a)

Spec == Init /\ [][Next]_vars

(* Both threads run; nothing makes a client publish. *)
FairSpec ==
  Spec /\ WF_vars(Notify) /\ \A a \in Appender : WF_vars(app[a].st # "idle" /\ EmplaceBack(a))

-----------------------------------------------------------------------------
(* Properties. *)

(* The nodes a walk from begin() comes to, and the nodes an append has linked. *)
Walked(S) == next[Header] \in S /\ \A x \in S \ {Header} : next[x] \in S
Reached == {x \in Node : \A S \in SUBSET Place : Walked(S) => x \in S}
Listed == {x \in 1 .. made : \A a \in Appender : ~(app[a].st = "tail" /\ app[a].node = x)}

(* Appends and erasures may overlap as they like, and the walk with both: no
   publication is lost and no link wrong, unless the node being erased is the
   last one, the very node to which an append links its own, or two appends
   overlap. *)
Quiet == ~Unlinking /\ \A a \in Appender : ~Linking(a)
LostOnlyAtTheEnd ==
  alive /\ ~crossed /\ ~cut =>
    /\ Listed \ freed \subseteq Reached \cup {x \in {ntf.at} : Unlinking}
    /\ Quiet => /\ Reached = Listed \ freed
                /\ \A x \in Reached \cup {Header} : prev[next[x]] = x /\ next[prev[x]] = x

(* The counter is a size_t that no race takes below zero, though the notifier
   lowers it by what it read before: it is the number of nodes unless an update
   of it was lost. *)
Counting(st) == {a \in Appender : app[a].st \in st}
CounterExact ==
  /\ size >= 0
  /\ ~skew /\ ntf.st # "store" /\ Counting({"store"}) = {} =>
       size + Cardinality(Counting({"tail", "header", "load"}))
         = made - Cardinality(freed) - (IF ntf.st = "unlink" \/ Unlinking THEN 1 ELSE 0)

(* When the two ends of the list have come apart with nothing at its front,
   nothing brings them together again: all later publications are lost. *)
Apart == next[Header] = Header /\ prev[Header] # Header
         /\ ~Unlinking /\ \A a \in Appender : ~(app[a].st = "tail" /\ app[a].tail = Header)
ApartForGood == [][Apart => Apart' /\ published' = published]_vars

(* Every publication is sent, unless one was lost at the end of the list, or
   the counter is too small so that the notifier waits. *)
EveryPublicationSent ==
  \A x \in Node : (x \in Listed) ~> (x \in published \/ crossed \/ cut \/ skew \/ ~alive)
=============================================================================
