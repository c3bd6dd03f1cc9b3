------------------------------ MODULE ServerTCP ------------------------------
(***************************************************************************)
(* The select() reactor of inc/tcp_server.hpp: the main loop of            *)
(* run_server, the detached threads that serve "heavy" clients, and the    *)
(* list of client records they share without a lock.                       *)
(*                                                                         *)
(* Connections are numbered in the order in which accept() hands them out. *)
(* push_back appends to m_clients and nothing reorders it, so the list is  *)
(* the set `clients' visited in ascending order.  The sockets (who is      *)
(* connected, what waits in a receive queue, which descriptor is open) are *)
(* the operating system's and are modelled from how the code uses them.    *)
(*                                                                         *)
(* What a recv() returns is abstracted to a chunk: its length, and the     *)
(* size that get_total_data_size reads from it when it is the first chunk  *)
(* of a message (NoHeader when std::stol throws).                          *)
(***************************************************************************)
EXTENDS Integers, Sequences, FiniteSets

CONSTANTS
  MaxConn,      \* number of connections that may ever arrive
  MaxFd,        \* number of descriptors the process can hold for clients
  BackLog,      \* m_back_log (128 in server.cpp)
  HeavyBytes,   \* a client whose message is longer than this becomes heavy (1000)
  Chunks,       \* the results recv() may return, [len, total] records
  Talkers,      \* connections whose remote end ever sends anything
  MaxQueued,    \* chunks a receive queue holds
  MaxDepth,     \* calls of read_incomming_heavy a thread's stack has room for
  ThreadMod     \* m_threads_count counts modulo this (256, it is a u_int8_t)

NoHeader == -1

ASSUME ConstantsAssumption ==
  /\ MaxConn \in Nat /\ MaxFd \in Nat /\ HeavyBytes \in Nat /\ MaxQueued \in Nat
  /\ BackLog \in Nat \ {0} /\ MaxDepth \in Nat \ {0} /\ ThreadMod \in Nat \ {0}
  /\ Chunks \subseteq [len : Nat \ {0}, total : Nat \cup {NoHeader}]

Conn == 1 .. MaxConn
Fd == 1 .. MaxFd
Listen == 0                 \* the listening socket's place in a descriptor set

VARIABLES
  arrived,    \* connections 1..arrived have completed the TCP handshake
  accepted,   \* connections 1..accepted have been returned by accept()
  peer,       \* whether the remote end of a connection is "open" or "closed"
  inbox,      \* chunks waiting in the socket's receive queue
  fdOf,       \* Client::m_socket, 0 before there is one
  open,       \* connections whose descriptor the process holds
  clients,    \* m_clients
  closed,     \* clients with m_to_close
  heavy,      \* clients with m_is_heavy
  action,     \* clients with m_in_action
  nclients,   \* m_number_of_clients
  activity,   \* m_activity
  ready,      \* m_fdSet, as select() leaves it
  pc,         \* where the main thread is
  cur,        \* the list position of the loop it is in
  rd,         \* read_already and read_remain of its current message
  thr,        \* the heavy threads, by the client they were started for
  threads,    \* m_threads_count
  node,       \* the client record a thread's Client pointer now denotes
  told        \* close_client upcalls per connection, counted up to 2

kernel == <<arrived, accepted, peer, inbox, fdOf, open>>
flags == <<closed, heavy, action>>
main == <<nclients, activity, ready, pc, cur, rd>>
vars == <<kernel, clients, flags, main, thr, threads, node, told>>

Idle == [got |-> 0, need |-> 0]
NoThread == [st |-> "none", rd |-> Idle, depth |-> 0, stale |-> FALSE]

Progress == [got : Nat, need : Nat \cup {NoHeader}]
Thread == [st : {"none", "recv", "gone"}, rd : Progress, depth : Nat, stale : BOOLEAN]

Init ==
  /\ arrived = 0 /\ accepted = 0
  /\ peer = [c \in Conn |-> "open"]
  /\ inbox = [c \in Conn |-> <<>>]
  /\ fdOf = [c \in Conn |-> 0]
  /\ open = {} /\ clients = {} /\ closed = {} /\ heavy = {} /\ action = {}
  /\ nclients = 0 /\ activity = 0 /\ ready = {}
  /\ pc = "select" /\ cur = 0 /\ rd = Idle
  /\ thr = [c \in Conn |-> NoThread]
  /\ threads = 0
  /\ node = [c \in Conn |-> c]
  /\ told = [c \in Conn |-> 0]

-----------------------------------------------------------------------------
(* Sockets. *)

Owner(f) == {c \in open : fdOf[c] = f}
FreeFds == {f \in Fd : Owner(f) = {}}
Readable(c) == inbox[c] # <<>> \/ peer[c] = "closed"
ClientFds == {fdOf[c] : c \in clients}

(* The descriptors select() reports: socket_set has put every listed client
   in the set, the closed and the heavy ones too. *)
ReadyFds_SkipClosed == {fdOf[c] : c \in {d \in clients \ closed : Readable(d)}}
                         \cup {f \in {Listen} : accepted < arrived}
ReadyFds == {f \in ClientFds : \E c \in Owner(f) : Readable(c)}
              \cup {f \in {Listen} : accepted < arrived}

Running == pc # "crashed"

Connect ==
  /\ Running
  /\ arrived < MaxConn
  /\ arrived' = arrived + 1
  /\ UNCHANGED <<accepted, peer, inbox, fdOf, open, clients, flags, main, thr, threads, node, told>>

Send(c, k) ==
  /\ Running
  /\ c <= arrived /\ peer[c] = "open" /\ Len(inbox[c]) < MaxQueued
  /\ inbox' = [inbox EXCEPT ![c] = Append(@, k)]
  /\ UNCHANGED <<arrived, accepted, peer, fdOf, open, clients, flags, main, thr, threads, node, told>>

HangUp(c) ==
  /\ Running
  /\ c <= arrived /\ peer[c] = "open"
  /\ peer' = [peer EXCEPT ![c] = "closed"]
  /\ UNCHANGED <<arrived, accepted, inbox, fdOf, open, clients, flags, main, thr, threads, node, told>>

-----------------------------------------------------------------------------
(* Messages.  A message is complete when as many bytes were received as its
   first chunk announced; what the chunks hold beyond that is not looked at. *)

Feed(r, k) == IF r.got = 0 THEN [got |-> k.len, need |-> k.total]
                           ELSE [got |-> r.got + k.len, need |-> r.need]
Malformed(r) == r.need = NoHeader
Complete(r) == r.got >= r.need

(* recv() has 0 or -1 to return: the test of client_no_recieve. *)
NoReceive_ErrorOnly(c) == FALSE
NoReceive(c) == inbox[c] = <<>> /\ peer[c] = "closed"

(* m_on_fail and then m_close_client, both with the client's socket. *)
Report(c) == told' = [told EXCEPT ![c] = IF @ < 2 THEN @ + 1 ELSE 2]

-----------------------------------------------------------------------------
(* The main thread. *)

(* The top of the loop of run_server.  select() fails, and the server with
   it, when a listed descriptor is not open: OpenIffListed excludes it. *)
Select ==
  /\ pc = "select"
  /\ ReadyFds # {}
  /\ ready' = ReadyFds
  /\ activity' = Cardinality(ReadyFds)
  /\ pc' = IF Listen \in ReadyFds THEN "accept" ELSE "scan"
  /\ UNCHANGED <<kernel, clients, flags, nclients, cur, rd, thr, threads, node, told>>

ClientUp == nclients' = nclients + 1
ClientDown_Missing == UNCHANGED nclients
ClientDown == nclients' = nclients - 1

(* is_connections_full compares the ready descriptors with the back log. *)
ConnectionsFull_ByClients == nclients >= BackLog
ConnectionsFull == activity >= BackLog

(* m_server_data.activity_down() and the test that leads to clean_up. *)
AfterAccept ==
  /\ activity' = activity - 1
  /\ pc' = IF activity' > 0 THEN "scan" ELSE "cleanup"

(* The memory of an erased list node that no live client has been given. *)
FreedNodes == {z \in Conn : z <= accepted /\ fdOf[z] # 0 /\ z \notin clients /\ node[z] = z}

(* add_client: the list node is new memory, or that of an erased node. *)
AcceptClient ==
  /\ pc = "accept" /\ ~ConnectionsFull
  /\ LET c == accepted + 1 IN
     /\ \E f \in FreeFds :
          /\ \A g \in FreeFds : f <= g
          /\ fdOf' = [fdOf EXCEPT ![c] = f]
     /\ \E z \in FreedNodes \cup {c} :
          node' = [t \in Conn |-> IF node[t] = z THEN c ELSE node[t]]
     /\ open' = open \cup {c}
     /\ clients' = clients \cup {c}
     /\ accepted' = c
  /\ ClientUp
  /\ AfterAccept
  /\ UNCHANGED <<arrived, peer, inbox, flags, ready, cur, rd, thr, threads, told>>

(* "Server busy": the new socket is closed and reported as a client's. *)
RefuseClient ==
  /\ pc = "accept" /\ ConnectionsFull /\ FreeFds # {}
  /\ accepted' = accepted + 1
  /\ Report(accepted + 1)
  /\ AfterAccept
  /\ UNCHANGED <<arrived, peer, inbox, fdOf, open, clients, flags, nclients, ready, cur, rd, thr, threads, node>>

(* accept() fails: no descriptor is left, the connection stays queued. *)
AcceptFails ==
  /\ pc = "accept" /\ FreeFds = {}
  /\ AfterAccept
  /\ UNCHANGED <<kernel, clients, flags, nclients, ready, cur, rd, thr, threads, node, told>>

(* The clients a list loop of the main thread has still to visit, and the
   next of them. *)
Ahead == {c \in clients : c > cur}
IsNext(c) == c \in Ahead /\ \A d \in Ahead : c <= d

EndOfList(from, to) ==
  /\ pc = from /\ Ahead = {}
  /\ pc' = to /\ cur' = 0
  /\ UNCHANGED <<kernel, clients, flags, nclients, activity, ready, rd, thr, threads, node, told>>

CleanUpSkip(c) ==
  /\ pc = "cleanup" /\ IsNext(c) /\ c \notin closed
  /\ cur' = c
  /\ UNCHANGED <<kernel, clients, flags, nclients, activity, ready, pc, rd, thr, threads, node, told>>

(* The connections that close(client.socket()) takes the descriptor from. *)
Released_Kept(c) == {}
Released(c) == Owner(fdOf[c])

(* clean_up erases the list node its own loop stands on and then follows that
   node's link: the freed memory still holds it, or the process dies. *)
Reap(c) ==
  /\ pc = "cleanup" /\ IsNext(c) /\ c \in closed
  /\ open' = open \ Released(c)
  /\ clients' = clients \ {CHOOSE d \in clients : /\ fdOf[d] = fdOf[c]
                                                  /\ \A e \in clients : fdOf[e] = fdOf[c] => d <= e}
  /\ ready' = ready \ {fdOf[c]}
  /\ ClientDown
  /\ cur' = c
  /\ pc' \in {"cleanup", "crashed"}
  /\ UNCHANGED <<arrived, accepted, peer, inbox, fdOf, flags, activity, rd, thr, threads, node, told>>

(* m_threads_count is a u_int8_t. *)
Counted_Wide(n) == n
Counted(n) == n % ThreadMod

(* read_clients_data_income starts a thread for a heavy client that has none
   and reads a light one; it passes over the others. *)
NeedsThread_Again(c) == c \notin closed /\ c \in heavy
NeedsThread(c) == c \notin closed /\ c \in heavy \ action
MainReads_Heavy(c) == c \notin closed /\ fdOf[c] \in ready
MainReads_Closed(c) == c \notin heavy /\ fdOf[c] \in ready
MainReads(c) == c \notin closed /\ c \notin heavy /\ fdOf[c] \in ready

ScanSkip(c) ==
  /\ pc = "scan" /\ IsNext(c) /\ ~NeedsThread(c) /\ ~MainReads(c)
  /\ cur' = c
  /\ UNCHANGED <<kernel, clients, flags, nclients, activity, ready, pc, rd, thr, threads, node, told>>

SpawnHeavy(c) ==
  /\ pc = "scan" /\ IsNext(c) /\ NeedsThread(c)
  /\ cur' = c
  /\ action' = action \cup {c}
  /\ threads' = Counted(threads + 1)
  /\ ready' = ready \ {fdOf[c]}
  /\ thr' = [thr EXCEPT ![c] = [st |-> "recv", rd |-> Idle, depth |-> 1, stale |-> FALSE]]
  /\ UNCHANGED <<kernel, clients, closed, heavy, nclients, activity, pc, rd, node, told>>

BeginRead(c) ==
  /\ pc = "scan" /\ IsNext(c) /\ MainReads(c)
  /\ cur' = c
  /\ pc' = "recv" /\ rd' = Idle
  /\ UNCHANGED <<kernel, clients, flags, nclients, activity, ready, thr, threads, node, told>>

(* One recv() of read_incomming_data.  The loop waits in recv(), and every
   other client with it, until the message is complete. *)
MainRecv ==
  /\ pc = "recv" /\ inbox[cur] # <<>>
  /\ inbox' = [inbox EXCEPT ![cur] = Tail(@)]
  /\ LET r == Feed(rd, Head(inbox[cur])) IN
     \/ /\ Malformed(r)                      \* std::stol throws: decrease_activity
        /\ pc' = "scan" /\ rd' = Idle
        /\ activity' = activity - 1
        /\ UNCHANGED heavy
     \/ /\ ~Malformed(r) /\ ~Complete(r)
        /\ rd' = r
        /\ UNCHANGED <<pc, activity, heavy>>
     \/ /\ ~Malformed(r) /\ Complete(r)      \* m_got_message
        /\ pc' = "scan" /\ rd' = Idle
        /\ heavy' = IF r.got > HeavyBytes THEN heavy \cup {cur} ELSE heavy
        /\ UNCHANGED activity
  /\ UNCHANGED <<arrived, accepted, peer, fdOf, open, clients, closed, action, nclients, ready, cur, thr, threads, node, told>>

(* client_no_recieve: the client is reported and marked, its descriptor stays
   open and its record stays in the list. *)
MainRecvFails ==
  /\ pc = "recv" /\ NoReceive(cur)
  /\ Report(cur)
  /\ ready' = ready \ {fdOf[cur]}
  /\ closed' = closed \cup {cur}
  /\ pc' = "scan" /\ rd' = Idle
  /\ activity' = activity - 1
  /\ UNCHANGED <<kernel, clients, heavy, action, nclients, cur, thr, threads, node>>

-----------------------------------------------------------------------------
(* The heavy threads.  Thread t runs read_incomming_heavy with a pointer to
   the record of client t; node[t] is what that memory holds now. *)

Serving(t) == Running /\ thr[t].st = "recv"
Socket(t) == fdOf[node[t]]

(* The catch clause: when `result' is still positive from the last message,
   read_incomming_heavy calls itself; otherwise it returns, to the caller's
   loop if there is one.  Every caller's `result' is positive. *)
Caught_Unwound(th) ==
  IF th.stale THEN [st |-> "recv", rd |-> Idle, depth |-> th.depth + 1, stale |-> FALSE]
  ELSE [th EXCEPT !.st = "gone", !.rd = Idle]
Caught(th) ==
  IF th.stale THEN [st |-> "recv", rd |-> Idle, depth |-> th.depth + 1, stale |-> FALSE]
  ELSE IF th.depth > 1 THEN [st |-> "recv", rd |-> Idle, depth |-> th.depth - 1, stale |-> TRUE]
  ELSE [th EXCEPT !.st = "gone", !.rd = Idle]

Throw(t, th) ==
  /\ thr' = [thr EXCEPT ![t] = Caught(th)]
  /\ pc' = IF Caught(th).depth > MaxDepth THEN "crashed" ELSE pc

(* One recv() of read_incomming_heavy that returns bytes.  `result' is only
   assigned by the loop that completes a message. *)
ThreadRecv(t, c) ==
  /\ Serving(t) /\ c \in Owner(Socket(t)) /\ inbox[c] # <<>>
  /\ inbox' = [inbox EXCEPT ![c] = Tail(@)]
  /\ LET old == thr[t].rd
         r == Feed(old, Head(inbox[c]))
         stale == thr[t].stale \/ old.got > 0
     IN
     \/ /\ Malformed(r)
        /\ Throw(t, thr[t])
     \/ /\ ~Malformed(r) /\ ~Complete(r)
        /\ thr' = [thr EXCEPT ![t].rd = r, ![t].stale = stale]
        /\ UNCHANGED pc
     \/ /\ ~Malformed(r) /\ Complete(r)      \* m_got_message
        /\ thr' = [thr EXCEPT ![t].rd = Idle, ![t].stale = stale]
        /\ UNCHANGED pc
  /\ UNCHANGED <<arrived, accepted, peer, fdOf, open, clients, flags, nclients, activity, ready, cur, rd, threads, node, told>>

(* recv() returns 0 or -1: thread_safe_client_no_recieve, then the throw. *)
ThreadRecvFails(t) ==
  /\ Serving(t) /\ \A c \in Owner(Socket(t)) : NoReceive(c)
  /\ Report(node[t])
  /\ closed' = closed \cup {node[t]}
  /\ threads' = Counted(threads - 1)
  /\ Throw(t, [thr[t] EXCEPT !.stale = @ /\ thr[t].rd.got = 0])
  /\ UNCHANGED <<kernel, clients, heavy, action, nclients, activity, ready, cur, rd, node>>

-----------------------------------------------------------------------------
MainStep ==
  \/ Select \/ AcceptClient \/ RefuseClient \/ AcceptFails
  \/ EndOfList("cleanup", "scan") \/ EndOfList("scan", "select")
  \/ \E c \in Conn : CleanUpSkip(c) \/ Reap(c) \/ ScanSkip(c) \/ SpawnHeavy(c) \/ BeginRead(c)
  \/ MainRecv \/ MainRecvFails

ThreadStep(t) == ThreadRecvFails(t) \/ \E c \in Conn : ThreadRecv(t, c)

Environment ==
  \/ Connect
  \/ \E c \in Conn : HangUp(c)
  \/ \E c \in Conn \cap Talkers, k \in Chunks : Send(c, k)

Next == MainStep \/ (\E t \in Conn : ThreadStep(t)) \/ Environment

Spec == Init /\ [][Next]_vars

(* The operating system runs every thread that is not blocked; nothing makes
   a remote end send or hang up. *)
FairSpec == Spec /\ WF_vars(MainStep) /\ \A t \in Conn : WF_vars(ThreadStep(t))

-----------------------------------------------------------------------------
TypeOK ==
  /\ arrived \in 0 .. MaxConn /\ accepted \in 0 .. arrived
  /\ peer \in [Conn -> {"open", "closed"}]
  /\ inbox \in [Conn -> Seq(Chunks)]
  /\ fdOf \in [Conn -> 0 .. MaxFd]
  /\ open \subseteq Conn /\ clients \subseteq Conn
  /\ closed \subseteq Conn /\ heavy \subseteq Conn /\ action \subseteq Conn
  /\ nclients \in Int /\ activity \in Int
  /\ ready \subseteq Fd \cup {Listen}
  /\ pc \in {"select", "accept", "cleanup", "scan", "recv", "crashed"}
  /\ cur \in 0 .. MaxConn
  /\ rd \in Progress
  /\ thr \in [Conn -> Thread]
  /\ threads \in 0 .. ThreadMod - 1
  /\ node \in [Conn -> Conn]
  /\ told \in [Conn -> 0 .. 2]

-----------------------------------------------------------------------------
(* Properties.  Erasing a list node that a thread still points to lets that
   memory become another client's: Intact says it has not happened. *)
Intact == \A t \in Conn : node[t] = t

(* The process holds a descriptor exactly for the clients in m_clients, and
   no two of them share a number: clean_up closes and erases the same client,
   and select() is never given a closed descriptor, for which it would return
   -1 and end run_server with SERVER_SELECT_ERROR. *)
OpenIffListed ==
  /\ open = clients
  /\ \A c, d \in clients : fdOf[c] = fdOf[d] => c = d

(* m_number_of_clients is the length of m_clients whatever mixture of accepts,
   refusals and clean-ups came before. *)
ClientCountExact == nclients = Cardinality(clients)

(* Bytes of one socket are never taken by two readers (the main thread and a
   heavy thread, or two heavy threads), so messages are not torn apart, unless
   a thread has outlived the list node it was started for. *)
Dangling(t) == thr[t].st = "recv" /\ t \notin clients
Readers(f) == {t \in Conn : Serving(t) /\ Socket(t) = f}
                \cup {t \in {Listen} : pc = "recv" /\ fdOf[cur] = f}
SingleReader ==
  (\A t \in Conn : ~Dangling(t)) => \A f \in Fd : Cardinality(Readers(f)) <= 1

(* A client served by the main thread is reported closed to the context once,
   when it has hung up, and not again however long its record stays. *)
ReportedOnce ==
  Intact => \A c \in clients \ heavy : told[c] = IF c \in closed THEN 1 ELSE 0

(* m_threads_count is the number of heavy threads until one of them leaves
   without reporting its client closed, or reports it and goes on. *)
ThreadCountExact ==
  (/\ Intact
   /\ \A t \in Conn : thr[t].st = "gone" => told[t] = 1
   /\ \A t \in Conn : thr[t].st = "recv" => told[t] = 0)
  => threads = Cardinality({t \in Conn : thr[t].st = "recv"}) % ThreadMod

(* clean_up erases none but heavy clients.  A light client that hung up stays
   readable, so select() counts it, so m_activity is positive after every
   accept and clean_up is not called: its record and its descriptor are kept
   for the life of the process. *)
OnlyHeavyReaped == [][Intact => clients \ clients' \subseteq heavy]_vars

(* Each light client that has hung up takes one of the BackLog places for as
   long as the server runs: with BackLog - 1 of them every newcomer is turned
   away, whatever number of clients is really connected. *)
DeadWeight == (clients \cap closed) \ heavy
DeadWeightBlocks ==
  [][Intact /\ Cardinality(DeadWeight) >= BackLog - 1 => clients' \subseteq clients]_vars

(* A heavy thread that is still running after it closed its client (its last
   message came in several pieces, so `result' is stale in the catch clause)
   never returns: it goes round on the end of file for ever. *)
ZombieNeverExits ==
  [][Intact => \A t \in clients \cap closed : thr[t].st = "recv" => thr'[t].st = "recv"]_vars

(* Only a client that has sent part of a message and then falls silent can
   keep the main thread from ever getting to the next connection, short of
   the process dying or having no descriptor left. *)
Stalled == pc = "recv" /\ inbox[cur] = <<>> /\ peer[cur] = "open"
NewcomersServed ==
  \A n \in Conn : (arrived >= n) ~>
    (accepted >= n \/ FreeFds = {} \/ ~Running \/ []Stalled)

(* Every client that hangs up is reported closed, unless its heavy thread has
   returned on a malformed message: m_in_action then keeps it from being read
   by anyone. *)
Abandoned(c) == thr[c].st = "gone" /\ c \notin closed
HangUpReported ==
  \A c \in Conn : (c \in clients /\ peer[c] = "closed") ~>
    (told[c] > 0 \/ Abandoned(c) \/ ~Running \/ []Stalled)
=============================================================================
