-------------------------- MODULE ServerTCP_proofs --------------------------
(***************************************************************************)
(* Theorems about the reactor, for any number of connections, descriptors  *)
(* and threads and whatever recv() returns.                                *)
(***************************************************************************)
EXTENDS ServerTCP, FiniteSetTheorems, TLAPS

-----------------------------------------------------------------------------
(* Type correctness.  What accept() takes from the queue is there, the main
   thread reads a client that exists, and every client has a descriptor. *)

TypeInv ==
  /\ TypeOK
  /\ pc = "accept" => accepted < arrived
  /\ pc = "recv" => cur \in Conn
  /\ \A c \in clients : fdOf[c] \in Fd

(* The listening socket is no client's descriptor. *)
LEMMA ListenApart == Listen \notin Fd /\ Fd \subseteq 0 .. MaxFd
BY ConstantsAssumption DEF Listen, Fd

(* There are finitely many descriptors. *)
LEMMA FiniteFds == IsFiniteSet(Fd) /\ IsFiniteSet(Fd \cup {Listen})
<1>1. IsFiniteSet(Fd)
  BY ConstantsAssumption, FS_Interval DEF Fd
<1> QED
  BY <1>1, FS_AddElement

(* A position of m_clients is a value of the loop position. *)
LEMMA Positions == Conn \subseteq 0 .. MaxConn
BY ConstantsAssumption DEF Conn

(* accept() has a connection to return when select() reported one. *)
LEMMA NewcomerExists ==
  ASSUME TypeInv, pc = "accept"
  PROVE  /\ accepted + 1 \in Conn
         /\ accepted + 1 <= arrived
<1>1. MaxConn \in Nat
  BY ConstantsAssumption
<1>2. arrived \in 0 .. MaxConn /\ accepted \in 0 .. arrived /\ accepted < arrived
  BY DEF TypeInv, TypeOK
<1> QED
  BY <1>1, <1>2 DEF Conn

(* The result of recv() advances a message without leaving its type. *)
LEMMA FeedType ==
  ASSUME NEW r \in Progress, NEW k \in Chunks
  PROVE  Feed(r, k) \in Progress
BY ConstantsAssumption DEF Feed, Progress

(* The catch clause of read_incomming_heavy leaves a thread a thread. *)
LEMMA CaughtType ==
  ASSUME NEW th \in Thread
  PROVE  Caught(th) \in Thread
<1>1. th.depth \in Nat /\ Idle \in Progress
  BY DEF Thread, Progress, Idle
<1>2. CASE th.stale
  BY <1>1, <1>2 DEF Caught, Thread
<1>3. CASE ~th.stale /\ th.depth > 1
  BY <1>1, <1>3 DEF Caught, Thread
<1>4. CASE ~th.stale /\ ~(th.depth > 1)
  BY <1>1, <1>4 DEF Caught, Thread
<1> QED
  BY <1>2, <1>3, <1>4

(* m_threads_count stays within its width. *)
LEMMA CountedType ==
  ASSUME NEW n \in Int
  PROVE  Counted(n) \in 0 .. ThreadMod - 1
BY ConstantsAssumption DEF Counted

(* Reporting a client leaves the upcall counters in their range. *)
LEMMA ReportType ==
  ASSUME told \in [Conn -> 0 .. 2], NEW c \in Conn, Report(c)
  PROVE  told' \in [Conn -> 0 .. 2]
BY DEF Report

(* The system starts in a state of the right type. *)
LEMMA InitType == Init => TypeInv
BY ConstantsAssumption DEF Init, TypeInv, TypeOK, Conn, Idle, NoThread, Thread, Progress

(* Every step of the code and of its environment preserves the types. *)
LEMMA StepType == TypeInv /\ [Next]_vars => TypeInv'
<1> SUFFICES ASSUME TypeInv, [Next]_vars PROVE TypeInv'
  OBVIOUS
<1>0. MaxConn \in Nat /\ MaxFd \in Nat
  BY ConstantsAssumption
<1> USE <1>0 DEF TypeInv, TypeOK, kernel, flags, main
<1>1. CASE Connect
  BY <1>1 DEF Connect
<1>2. ASSUME NEW c \in Conn, NEW k \in Chunks, Send(c, k) PROVE TypeInv'
  BY <1>2 DEF Send
<1>3. ASSUME NEW c \in Conn, HangUp(c) PROVE TypeInv'
  BY <1>3 DEF HangUp
<1>4. CASE Select
  <2>1. ReadyFds \subseteq Fd \cup {Listen} /\ (Listen \in ReadyFds => accepted < arrived)
    BY ListenApart DEF ReadyFds, ClientFds
  <2>2. Cardinality(ReadyFds) \in Int
    BY <2>1, FiniteFds, FS_Subset, FS_CardinalityType
  <2> QED
    BY <1>4, <2>1, <2>2 DEF Select
<1>5. CASE AcceptClient
  <2> DEFINE c == accepted + 1
  <2>1. c \in Conn
    BY <1>5, NewcomerExists DEF AcceptClient
  <2>2. PICK f \in Fd : fdOf' = [fdOf EXCEPT ![c] = f]
    BY <1>5 DEF AcceptClient, FreeFds
  <2>3. node' \in [Conn -> Conn]
    BY <1>5, <2>1 DEF AcceptClient
  <2>4. open' \subseteq Conn /\ clients' = clients \cup {c} /\ accepted' = c
    BY <1>5, <2>1 DEF AcceptClient
  <2>5. nclients' \in Int /\ activity' \in Int /\ pc' \in {"scan", "cleanup"}
    BY <1>5 DEF AcceptClient, ClientUp, AfterAccept
  <2>6. fdOf' \in [Conn -> 0 .. MaxFd] /\ \A d \in clients' : fdOf'[d] \in Fd
    BY <2>1, <2>2, <2>4, ListenApart
  <2>7. c \in 0 .. arrived
    BY <1>5 DEF AcceptClient
  <2> HIDE DEF c
  <2> QED
    BY <1>5, <2>1, <2>3, <2>4, <2>5, <2>6, <2>7 DEF AcceptClient
<1>6. CASE RefuseClient
  <2>1. accepted + 1 \in Conn /\ accepted + 1 <= arrived
    BY <1>6, NewcomerExists DEF RefuseClient
  <2>2. told' \in [Conn -> 0 .. 2]
    BY <1>6, <2>1, ReportType DEF RefuseClient
  <2>3. activity' \in Int /\ pc' \in {"scan", "cleanup"}
    BY <1>6 DEF RefuseClient, AfterAccept
  <2> QED
    BY <1>6, <2>1, <2>2, <2>3 DEF RefuseClient
<1>7. CASE AcceptFails
  BY <1>7 DEF AcceptFails, AfterAccept
<1>8. ASSUME NEW from, NEW to \in {"scan", "select"}, EndOfList(from, to) PROVE TypeInv'
  BY <1>8 DEF EndOfList
<1>9. ASSUME NEW c \in Conn, CleanUpSkip(c) PROVE TypeInv'
  BY Positions, <1>9 DEF CleanUpSkip
<1>10. ASSUME NEW c \in Conn, Reap(c) PROVE TypeInv'
  <2>1. open' \subseteq Conn /\ clients' \subseteq clients /\ ready' \subseteq Fd \cup {Listen}
    BY <1>10 DEF Reap
  <2>2. nclients' \in Int
    BY <1>10 DEF Reap, ClientDown
  <2> QED
    BY <1>10, <2>1, <2>2, Positions DEF Reap
<1>11. ASSUME NEW c \in Conn, ScanSkip(c) PROVE TypeInv'
  BY Positions, <1>11 DEF ScanSkip
<1>12. ASSUME NEW c \in Conn, SpawnHeavy(c) PROVE TypeInv'
  <2>1. threads' \in 0 .. ThreadMod - 1
    BY <1>12, CountedType DEF SpawnHeavy
  <2>2. thr' \in [Conn -> Thread]
    BY <1>12 DEF SpawnHeavy, Thread, Progress, Idle
  <2> QED
    BY <1>12, <2>1, <2>2, Positions DEF SpawnHeavy
<1>13. ASSUME NEW c \in Conn, BeginRead(c) PROVE TypeInv'
  BY Positions, <1>13 DEF BeginRead, Idle, Progress
<1>14. CASE MainRecv
  <2>1. Head(inbox[cur]) \in Chunks /\ Tail(inbox[cur]) \in Seq(Chunks)
    BY <1>14 DEF MainRecv
  <2>2. Feed(rd, Head(inbox[cur])) \in Progress /\ Idle \in Progress
    BY <2>1, FeedType DEF Idle, Progress
  <2>3. inbox' \in [Conn -> Seq(Chunks)]
    BY <1>14, <2>1 DEF MainRecv
  <2>4. rd' \in Progress /\ activity' \in Int /\ heavy' \subseteq Conn /\ pc' \in {"scan", "recv"}
    BY <1>14, <2>2 DEF MainRecv
  <2> QED
    BY <1>14, <2>3, <2>4 DEF MainRecv
<1>15. CASE MainRecvFails
  <2>1. told' \in [Conn -> 0 .. 2]
    BY <1>15, ReportType DEF MainRecvFails
  <2> QED
    BY <1>15, <2>1 DEF MainRecvFails, Idle, Progress
<1>16. ASSUME NEW t \in Conn, NEW c \in Conn, ThreadRecv(t, c) PROVE TypeInv'
  <2>1. Head(inbox[c]) \in Chunks /\ Tail(inbox[c]) \in Seq(Chunks)
    BY <1>16 DEF ThreadRecv
  <2>2. thr[t] \in Thread /\ thr[t].rd \in Progress /\ thr[t].stale \in BOOLEAN /\ thr[t].rd.got \in Nat
    BY DEF Thread, Progress
  <2>3. Feed(thr[t].rd, Head(inbox[c])) \in Progress /\ Idle \in Progress
    BY <2>1, <2>2, FeedType DEF Idle, Progress
  <2>4. inbox' \in [Conn -> Seq(Chunks)]
    BY <1>16, <2>1 DEF ThreadRecv
  <2>5. thr' \in [Conn -> Thread] /\ pc' \in {pc, "crashed"}
    <3> DEFINE r == Feed(thr[t].rd, Head(inbox[c]))
               stale == thr[t].stale \/ thr[t].rd.got > 0
    <3>1. CASE Malformed(r)
      <4>1. Throw(t, thr[t])
        BY <1>16, <3>1 DEF ThreadRecv
      <4> QED
        BY <2>2, <4>1, CaughtType DEF Throw
    <3>2. ASSUME NEW p \in Progress, thr' = [thr EXCEPT ![t].rd = p, ![t].stale = stale]
          PROVE  thr' \in [Conn -> Thread]
      BY <2>2, <3>2 DEF Thread
    <3>3. CASE ~Malformed(r)
      BY <1>16, <2>3, <3>2, <3>3 DEF ThreadRecv
    <3> QED
      BY <3>1, <3>3
  <2> QED
    BY <1>16, <2>4, <2>5 DEF ThreadRecv
<1>17. ASSUME NEW t \in Conn, ThreadRecvFails(t) PROVE TypeInv'
  <2>1. told' \in [Conn -> 0 .. 2]
    BY <1>17, ReportType DEF ThreadRecvFails
  <2>2. threads' \in 0 .. ThreadMod - 1
    BY <1>17, CountedType DEF ThreadRecvFails
  <2>3. thr[t] \in Thread
    OBVIOUS
  <2>4. [thr[t] EXCEPT !.stale = @ /\ thr[t].rd.got = 0] \in Thread
    BY <2>3 DEF Thread
  <2>5. thr' \in [Conn -> Thread] /\ pc' \in {pc, "crashed"}
    BY <1>17, <2>4, CaughtType DEF ThreadRecvFails, Throw
  <2> QED
    BY <1>17, <2>1, <2>2, <2>5 DEF ThreadRecvFails
<1>18. CASE UNCHANGED vars
  BY <1>18 DEF vars
<1> QED
  BY <1>1, <1>2, <1>3, <1>4, <1>5, <1>6, <1>7, <1>8, <1>9, <1>10, <1>11, <1>12, <1>13,
     <1>14, <1>15, <1>16, <1>17, <1>18
  DEF Next, MainStep, ThreadStep, Environment

(* The state always has its type, for every value of the constants. *)
THEOREM TypeCorrect == Spec => []TypeOK
<1>1. TypeInv => TypeOK
  BY DEF TypeInv
<1> QED
  BY <1>1, InitType, StepType, PTL DEF Spec

-----------------------------------------------------------------------------
(* m_clients, the descriptors and the count of clients move together. *)

ListInv ==
  /\ OpenIffListed
  /\ \A c \in clients : c <= accepted
  /\ pc = "recv" => cur \in clients
  /\ ClientCountExact

(* Any set of connections is finite. *)
LEMMA FiniteConn == \A S \in SUBSET Conn : IsFiniteSet(S)
<1>1. IsFiniteSet(Conn)
  BY ConstantsAssumption, FS_Interval DEF Conn
<1> QED
  BY <1>1, FS_Subset

(* clean_up finds by its socket the very client it stands on. *)
LEMMA ReapsItself ==
  ASSUME OpenIffListed, TypeOK, NEW c \in clients
  PROVE  /\ Released(c) = {c}
         /\ (CHOOSE d \in clients : /\ fdOf[d] = fdOf[c]
                                    /\ \A e \in clients : fdOf[e] = fdOf[c] => d <= e) = c
<1>1. Released(c) = {c}
  BY DEF OpenIffListed, Released, Owner
<1>0. c <= c
  BY DEF TypeOK, Conn
<1> DEFINE P(d) == fdOf[d] = fdOf[c] /\ \A e \in clients : fdOf[e] = fdOf[c] => d <= e
<1>2. ASSUME NEW d \in clients, P(d) PROVE d = c
  BY <1>2 DEF OpenIffListed
<1>3. P(c)
  BY <1>0 DEF OpenIffListed
<1>4. (CHOOSE d \in clients : P(d)) = c
  <2> HIDE DEF P
  <2> QED
    BY <1>2, <1>3
<1> QED
  BY <1>1, <1>4

(* Accepting, refusing, reaping and every other step keep the list, the
   descriptors and the count together. *)
LEMMA StepList == TypeInv /\ ListInv /\ [Next]_vars => ListInv'
<1> SUFFICES ASSUME TypeInv, ListInv, [Next]_vars PROVE ListInv'
  OBVIOUS
<1>0. MaxConn \in Nat /\ clients \subseteq Conn /\ nclients \in Int /\ fdOf \in [Conn -> 0 .. MaxFd]
  BY ConstantsAssumption DEF TypeInv, TypeOK
<1>1. ASSUME UNCHANGED <<open, clients, fdOf, accepted, nclients>>, pc' = "recv" => cur' \in clients
      PROVE  ListInv'
  <2>1. OpenIffListed' /\ ClientCountExact' /\ \A c \in clients' : c <= accepted'
    BY <1>1 DEF ListInv, OpenIffListed, ClientCountExact
  <2> QED
    BY <1>1, <2>1 DEF ListInv
<1>2. CASE AcceptClient
  <2> DEFINE c == accepted + 1
  <2>1. c \in Conn /\ c \notin clients
    BY <1>2, <1>0 DEF AcceptClient, Conn, ListInv, TypeInv, TypeOK
  <2>2. clients' = clients \cup {c} /\ open' = open \cup {c} /\ accepted' = c /\ nclients' = nclients + 1
    BY <1>2 DEF AcceptClient, ClientUp
  <2>3. PICK f \in FreeFds : fdOf' = [fdOf EXCEPT ![c] = f]
    BY <1>2 DEF AcceptClient
  <2>4. \A d \in clients : fdOf[d] # f
    BY <2>3 DEF FreeFds, Owner, ListInv, OpenIffListed
  <2>5. fdOf'[c] = f /\ \A d \in clients : fdOf'[d] = fdOf[d]
    BY <1>0, <2>1, <2>3
  <2>6. OpenIffListed'
    BY <2>1, <2>2, <2>4, <2>5 DEF ListInv, OpenIffListed
  <2>7. ClientCountExact'
    BY <2>1, <2>2, <1>0, FiniteConn, FS_AddElement DEF ListInv, ClientCountExact
  <2>8. \A d \in clients' : d <= accepted'
    BY <2>2, <1>0 DEF ListInv, Conn, TypeInv, TypeOK
  <2>9. pc' # "recv"
    BY <1>2 DEF AcceptClient, AfterAccept
  <2> QED
    BY <2>6, <2>7, <2>8, <2>9 DEF ListInv
<1>3. ASSUME NEW c \in Conn, Reap(c) PROVE ListInv'
  <2>1. c \in clients
    BY <1>3 DEF Reap, IsNext, Ahead
  <2>2. open' = open \ {c} /\ clients' = clients \ {c} /\ nclients' = nclients - 1
    BY <1>3, <2>1, ReapsItself DEF Reap, ClientDown, ListInv, TypeInv
  <2>3. UNCHANGED <<fdOf, accepted>> /\ pc' # "recv"
    BY <1>3 DEF Reap
  <2>4. ClientCountExact'
    BY <2>1, <2>2, <1>0, FiniteConn, FS_RemoveElement DEF ListInv, ClientCountExact
  <2> QED
    BY <2>2, <2>3, <2>4 DEF ListInv, OpenIffListed
<1>4. CASE RefuseClient
  <2>1. UNCHANGED <<open, clients, fdOf, nclients>> /\ accepted' = accepted + 1 /\ pc' # "recv"
    BY <1>4 DEF RefuseClient, AfterAccept
  <2>2. \A c \in clients : c <= accepted'
    BY <2>1, <1>0 DEF ListInv, Conn, TypeInv, TypeOK
  <2> QED
    BY <2>1, <2>2 DEF ListInv, OpenIffListed, ClientCountExact
<1>5. CASE Environment
  BY <1>1, <1>5 DEF Environment, Connect, HangUp, Send, kernel, main, ListInv
<1>6. ASSUME NEW t \in Conn, ThreadStep(t) PROVE ListInv'
  BY <1>1, <1>6 DEF ThreadStep, ThreadRecv, ThreadRecvFails, Throw, kernel, main, ListInv
<1>7. CASE Select \/ AcceptFails
  BY <1>1, <1>7 DEF Select, AcceptFails, AfterAccept, kernel, main, ListInv
<1>8. CASE EndOfList("cleanup", "scan") \/ EndOfList("scan", "select")
  BY <1>1, <1>8 DEF EndOfList, kernel, main, ListInv
<1>9. ASSUME NEW c \in Conn, CleanUpSkip(c) \/ ScanSkip(c) \/ SpawnHeavy(c) PROVE ListInv'
  BY <1>1, <1>9 DEF CleanUpSkip, ScanSkip, SpawnHeavy, kernel, main, ListInv
<1>10. ASSUME NEW c \in Conn, BeginRead(c) PROVE ListInv'
  BY <1>1, <1>10 DEF BeginRead, IsNext, Ahead, kernel, main, ListInv
<1>11. CASE MainRecv \/ MainRecvFails
  BY <1>1, <1>11 DEF MainRecv, MainRecvFails, kernel, main, ListInv
<1>12. CASE UNCHANGED vars
  BY <1>1, <1>12 DEF vars, kernel, main, ListInv
<1> QED
  BY <1>2, <1>3, <1>4, <1>5, <1>6, <1>7, <1>8, <1>9, <1>10, <1>11, <1>12
  DEF Next, MainStep

(* The server starts with no client. *)
LEMMA InitList == Init => ListInv
BY FS_EmptySet DEF Init, ListInv, OpenIffListed, ClientCountExact

(* The process never gives select() a descriptor it has closed, keeps none
   but its clients', and no two clients share one. *)
THEOREM DescriptorsListed == Spec => []OpenIffListed
<1>1. ListInv => OpenIffListed
  BY DEF ListInv
<1> QED
  BY <1>1, InitType, StepType, InitList, StepList, PTL DEF Spec

(* m_number_of_clients is the length of m_clients. *)
THEOREM ClientsCounted == Spec => []ClientCountExact
<1>1. ListInv => ClientCountExact
  BY DEF ListInv
<1> QED
  BY <1>1, InitType, StepType, InitList, StepList, PTL DEF Spec

-----------------------------------------------------------------------------
(* Who is reaped.  A light client is closed only by an end of file that stays
   in its socket, so every later select() reports its descriptor: when the
   accept branch has taken the listening socket off m_activity, that
   descriptor is still counted in it and clean_up is skipped. *)

ReapInv ==
  /\ \A t \in Conn : t > accepted => node[t] = t
  /\ pc = "accept" => /\ Listen \in ready
                     /\ IsFiniteSet(ready) /\ activity = Cardinality(ready)
  /\ Intact =>
       /\ \A t \in Conn : thr[t].st # "none" => t \in heavy /\ t <= accepted
       /\ \A c \in closed : c <= accepted
       /\ \A c \in DeadWeight : NoReceive(c)
       /\ pc = "accept" => \A c \in DeadWeight : fdOf[c] \in ready
       /\ pc = "cleanup" => DeadWeight = {}

(* Once memory has been given to another client it is never the first one's
   again. *)
LEMMA IntactBefore ==
  ASSUME TypeInv, ReapInv, [Next]_vars, Intact'
  PROVE  Intact
<1>1. CASE AcceptClient
  <2> DEFINE c == accepted + 1
  <2>1. PICK z \in Conn : node' = [t \in Conn |-> IF node[t] = z THEN c ELSE node[t]]
    <3>1. c \in Conn
      BY <1>1, NewcomerExists DEF AcceptClient
    <3>2. \E z \in FreedNodes \cup {c} :
            node' = [t \in Conn |-> IF node[t] = z THEN c ELSE node[t]]
      BY <1>1 DEF AcceptClient
    <3> QED
      BY <3>1, <3>2 DEF FreedNodes
  <2>2. c \in Conn => node[c] = c
    BY <1>1 DEF ReapInv, TypeInv, TypeOK
  <2>3. ASSUME NEW t \in Conn, t # c PROVE node[t] = t
    BY <2>1, <2>3 DEF Intact
  <2> QED
    BY <2>2, <2>3 DEF Intact
<1>2. CASE ~AcceptClient
  <2>1. node' = node
    BY <1>2 DEF Next, MainStep, ThreadStep, Environment, Connect, Send, HangUp, Select, RefuseClient,
       AcceptFails, EndOfList, CleanUpSkip, Reap, ScanSkip, SpawnHeavy, BeginRead, MainRecv,
       MainRecvFails, ThreadRecv, ThreadRecvFails, vars
  <2> QED
    BY <2>1 DEF Intact
<1> QED
  BY <1>1, <1>2

(* The server starts with no dead client. *)
LEMMA InitReap == Init => ReapInv
BY DEF Init, ReapInv, Intact, NoThread, DeadWeight

(* What select() found, when it found a newcomer and dead clients: at least
   one descriptor more than there are dead clients. *)
LEMMA DeadWeightReady ==
  ASSUME TypeInv, ListInv, ReapInv, Intact, pc = "accept"
  PROVE  Cardinality(DeadWeight) <= activity - 1
<1> DEFINE f == [c \in DeadWeight |-> fdOf[c]]
           T == ready \ {Listen}
<1>1. \A c \in DeadWeight : fdOf[c] \in T
  BY ListenApart DEF ReapInv, TypeInv, DeadWeight
<1>2. f \in [DeadWeight -> T]
  BY <1>1
<1>3. \A c, d \in DeadWeight : f[c] = f[d] => c = d
  BY DEF ListInv, OpenIffListed, DeadWeight
<1>4. f \in Injection(DeadWeight, T)
  BY <1>2, <1>3 DEF Injection, IsInjective
<1>5. IsFiniteSet(T) /\ Cardinality(T) = Cardinality(ready) - 1
  BY FS_RemoveElement DEF ReapInv
<1>6. Cardinality(DeadWeight) <= Cardinality(T)
  BY <1>4, <1>5, FS_Injection
<1> QED
  BY <1>5, <1>6 DEF ReapInv

(* clean_up is called only when select() found the newcomer alone: then
   there are no dead clients. *)
LEMMA NoDeadWeight ==
  ASSUME TypeInv, ListInv, ReapInv, Intact, pc = "accept", activity - 1 <= 0
  PROVE  DeadWeight = {}
<1>1. IsFiniteSet(DeadWeight)
  BY FiniteConn DEF DeadWeight, TypeInv, TypeOK
<1>2. Cardinality(DeadWeight) \in Nat /\ Cardinality(DeadWeight) <= activity - 1 /\ activity \in Int
  BY <1>1, DeadWeightReady, FS_CardinalityType DEF TypeInv, TypeOK
<1>3. Cardinality(DeadWeight) = 0
  BY <1>2
<1> QED
  BY <1>1, <1>3, FS_EmptySet

(* A step that changes neither the list nor its flags, takes nothing from the
   socket of a client that hung up, and does not come to an accept or a
   clean-up, leaves the invariant alone. *)
LEMMA SameClients ==
  ASSUME ReapInv, accepted' = accepted,
         UNCHANGED <<clients, closed, heavy, ready, activity, node>>,
         pc' = pc \/ pc' \notin {"accept", "cleanup"},
         UNCHANGED fdOf,
         \A c \in Conn : NoReceive(c) => NoReceive(c)',
         clients \subseteq Conn,
         \A t \in Conn : Intact /\ thr'[t].st # "none" => t \in heavy /\ t <= accepted
  PROVE  ReapInv'
<1>1. Intact' = Intact /\ DeadWeight' = DeadWeight
  BY DEF Intact, DeadWeight
<1>2. \A c \in DeadWeight : c \in Conn
  BY DEF DeadWeight
<1>3. \A t \in Conn : t > accepted' => node'[t] = t
  BY DEF ReapInv
<1>4. pc' = "accept" => Listen \in ready' /\ IsFiniteSet(ready') /\ activity' = Cardinality(ready')
  BY DEF ReapInv
<1>5. ASSUME Intact'
      PROVE  /\ \A t \in Conn : thr'[t].st # "none" => t \in heavy' /\ t <= accepted'
             /\ \A c \in closed' : c <= accepted'
             /\ \A c \in DeadWeight' : NoReceive(c)'
             /\ pc' = "accept" => \A c \in DeadWeight' : fdOf'[c] \in ready'
             /\ pc' = "cleanup" => DeadWeight' = {}
  BY <1>1, <1>2, <1>5 DEF ReapInv
<1> QED
  BY <1>3, <1>4, <1>5 DEF ReapInv

(* The accept branch leaves dead clients as they are, and goes to clean_up
   only when there are none. *)
LEMMA AfterAcceptReap ==
  ASSUME TypeInv, ListInv, ReapInv, Intact, pc = "accept", AfterAccept
  PROVE  /\ pc' \in {"scan", "cleanup"}
         /\ pc' = "cleanup" => DeadWeight = {}
<1>1. pc' = "cleanup" => activity - 1 <= 0
  BY DEF AfterAccept, TypeInv, TypeOK
<1> QED
  BY <1>1, NoDeadWeight DEF AfterAccept

(* A light client that is closed stays readable, whatever step is taken. *)
LEMMA StepReap == TypeInv /\ ListInv /\ ReapInv /\ [Next]_vars => ReapInv'
<1> SUFFICES ASSUME TypeInv, ListInv, ReapInv, [Next]_vars PROVE ReapInv'
  OBVIOUS
<1>0. clients \subseteq Conn /\ accepted \in Nat
  BY DEF TypeInv, TypeOK
<1>0a. \A t \in Conn : Intact /\ thr[t].st # "none" => t \in heavy /\ t <= accepted
  BY DEF ReapInv
<1>1. CASE Connect
  BY <1>1, <1>0, <1>0a, SameClients DEF Connect, flags, main, NoReceive
<1>2. ASSUME NEW c \in Conn, NEW k \in Chunks, Send(c, k) PROVE ReapInv'
  <2>1. \A d \in Conn : NoReceive(d) => NoReceive(d)'
    BY <1>2 DEF Send, NoReceive, TypeInv, TypeOK
  <2> QED
    BY <1>2, <1>0, <1>0a, <2>1, SameClients DEF Send, flags, main
<1>3. ASSUME NEW c \in Conn, HangUp(c) PROVE ReapInv'
  <2>1. \A d \in Conn : NoReceive(d) => NoReceive(d)'
    BY <1>3 DEF HangUp, NoReceive, TypeInv, TypeOK
  <2> QED
    BY <1>3, <1>0, <1>0a, <2>1, SameClients DEF HangUp, flags, main
<1>4. CASE Select
  <2>1. IsFiniteSet(ReadyFds)
    <3>1. ReadyFds \subseteq Fd \cup {Listen}
      BY DEF ReadyFds, ClientFds, TypeInv
    <3> QED
      BY <3>1, FiniteFds, FS_Subset
  <2>2. ASSUME NEW c \in DeadWeight, NoReceive(c) PROVE fdOf[c] \in ReadyFds
    BY <2>2 DEF DeadWeight, ReadyFds, ClientFds, Owner, Readable, NoReceive, ListInv, OpenIffListed
  <2>3. /\ ready' = ReadyFds /\ activity' = Cardinality(ReadyFds)
        /\ pc' = "accept" => Listen \in ReadyFds
        /\ pc' # "cleanup"
        /\ UNCHANGED <<accepted, peer, inbox, fdOf, clients, closed, heavy, thr, node>>
    BY <1>4 DEF Select, kernel, flags
  <2>4. Intact' = Intact /\ DeadWeight' = DeadWeight /\ \A c \in Conn : NoReceive(c)' = NoReceive(c)
    BY <2>3 DEF Intact, DeadWeight, NoReceive
  <2>5. \A c \in DeadWeight : c \in Conn
    BY <1>0 DEF DeadWeight
  <2> QED
    BY <2>1, <2>2, <2>3, <2>4, <2>5 DEF ReapInv
<1>5. CASE AcceptClient
  <2> DEFINE c == accepted + 1
  <2>1. PICK z \in FreedNodes \cup {c} : node' = [t \in Conn |-> IF node[t] = z THEN c ELSE node[t]]
    BY <1>5 DEF AcceptClient
  <2>2. /\ accepted' = c /\ clients' = clients \cup {c} /\ pc = "accept" /\ AfterAccept
        /\ UNCHANGED <<peer, inbox, closed, heavy, thr>>
    BY <1>5 DEF AcceptClient, flags
  <2>3. ASSUME NEW t \in Conn, t > c PROVE node'[t] = t
    <3>1. z <= accepted \/ z = c
      BY <2>1 DEF FreedNodes
    <3>2. node[t] = t /\ t # z
      BY <1>0, <2>3, <3>1 DEF ReapInv, Conn
    <3> QED
      BY <2>1, <3>2
  <2>4. pc' # "accept"
    BY <2>2 DEF AfterAccept
  <2>5. ASSUME Intact'
        PROVE  /\ \A t \in Conn : thr'[t].st # "none" => t \in heavy' /\ t <= accepted'
               /\ \A d \in closed' : d <= accepted'
               /\ \A d \in DeadWeight' : NoReceive(d)'
               /\ pc' = "cleanup" => DeadWeight' = {}
    <3>1. Intact
      BY <2>5, IntactBefore
    <3>2. c \notin closed
      BY <1>0, <3>1 DEF ReapInv
    <3>3. DeadWeight' = DeadWeight
      BY <2>2, <3>2 DEF DeadWeight
    <3>4. \A t \in Conn : t <= accepted => t <= accepted'
      BY <1>0, <2>2 DEF Conn
    <3>5. \A d \in closed : d <= accepted'
      BY <1>0, <3>1, <3>4 DEF ReapInv, TypeInv, TypeOK
    <3>6. pc' = "cleanup" => DeadWeight' = {}
      BY <2>2, <3>1, <3>3, AfterAcceptReap
    <3>7. \A d \in DeadWeight' : NoReceive(d)'
      BY <2>2, <3>1, <3>3 DEF ReapInv, NoReceive
    <3> QED
      BY <2>2, <3>1, <3>4, <3>5, <3>6, <3>7 DEF ReapInv
  <2> QED
    BY <2>2, <2>3, <2>4, <2>5 DEF ReapInv
<1>6. CASE RefuseClient \/ AcceptFails
  <2>1. /\ accepted' >= accepted /\ accepted' \in Nat /\ pc = "accept" /\ AfterAccept
        /\ UNCHANGED <<peer, inbox, clients, closed, heavy, thr, node>>
    BY <1>6, <1>0 DEF RefuseClient, AcceptFails, kernel, flags
  <2>2. Intact' = Intact /\ DeadWeight' = DeadWeight /\ \A c \in Conn : NoReceive(c)' = NoReceive(c)
    BY <2>1 DEF Intact, DeadWeight, NoReceive
  <2>3. \A t \in Conn : t <= accepted => t <= accepted'
    BY <1>0, <2>1 DEF Conn
  <2>4. \A t \in Conn : t > accepted' => t > accepted
    BY <1>0, <2>1 DEF Conn
  <2>5. pc' # "accept"
    BY <2>1 DEF AfterAccept
  <2>6. ASSUME Intact'
        PROVE  /\ \A t \in Conn : thr'[t].st # "none" => t \in heavy' /\ t <= accepted'
               /\ \A d \in closed' : d <= accepted'
               /\ \A d \in DeadWeight' : NoReceive(d)'
               /\ pc' = "cleanup" => DeadWeight' = {}
    <3>1. closed \subseteq Conn /\ DeadWeight \subseteq Conn
      BY DEF TypeInv, TypeOK, DeadWeight
    <3>2. pc' = "cleanup" => DeadWeight = {}
      BY <2>1, <2>2, <2>6, AfterAcceptReap
    <3> QED
      BY <2>1, <2>2, <2>3, <2>6, <3>1, <3>2 DEF ReapInv
  <2> QED
    BY <2>1, <2>4, <2>5, <2>6 DEF ReapInv
<1>7. CASE EndOfList("cleanup", "scan") \/ EndOfList("scan", "select")
  BY <1>7, <1>0, <1>0a, SameClients DEF EndOfList, kernel, flags, NoReceive
<1>8. ASSUME NEW c \in Conn, CleanUpSkip(c) \/ ScanSkip(c) \/ BeginRead(c) PROVE ReapInv'
  BY <1>8, <1>0, <1>0a, SameClients DEF CleanUpSkip, ScanSkip, BeginRead, kernel, flags, NoReceive
<1>9. ASSUME NEW c \in Conn, Reap(c) PROVE ReapInv'
  <2>1. /\ pc = "cleanup" /\ pc' # "accept"
        /\ clients' \subseteq clients
        /\ UNCHANGED <<accepted, peer, inbox, closed, heavy, thr, node>>
    BY <1>9 DEF Reap, flags
  <2>2. Intact' = Intact /\ DeadWeight' \subseteq DeadWeight
    BY <2>1 DEF Intact, DeadWeight
  <2>3. ASSUME Intact' PROVE DeadWeight' = {}
    BY <2>1, <2>2, <2>3 DEF ReapInv
  <2> QED
    BY <2>1, <2>2, <2>3 DEF ReapInv
<1>10. ASSUME NEW c \in Conn, SpawnHeavy(c) PROVE ReapInv'
  <2>1. /\ pc = "scan" /\ pc' = "scan"
        /\ c \in heavy /\ c <= accepted
        /\ thr' = [thr EXCEPT ![c] = [st |-> "recv", rd |-> Idle, depth |-> 1, stale |-> FALSE]]
        /\ UNCHANGED <<accepted, peer, inbox, clients, closed, heavy, node>>
    BY <1>10 DEF SpawnHeavy, kernel, IsNext, Ahead, NeedsThread, ListInv
  <2>2. \A t \in Conn : thr'[t].st # "none" => thr[t].st # "none" \/ t = c
    BY <2>1 DEF TypeInv, TypeOK
  <2>3. Intact' = Intact /\ DeadWeight' = DeadWeight /\ \A d \in Conn : NoReceive(d)' = NoReceive(d)
    BY <2>1 DEF Intact, DeadWeight, NoReceive
  <2>4. DeadWeight \subseteq Conn
    BY <1>0 DEF DeadWeight
  <2> QED
    BY <2>1, <2>2, <2>3, <2>4 DEF ReapInv
<1>11. CASE MainRecv
  <2>1. /\ pc' \in {"scan", "recv"} /\ heavy \subseteq heavy'
        /\ inbox[cur] # <<>> /\ inbox' = [inbox EXCEPT ![cur] = Tail(@)]
        /\ UNCHANGED <<accepted, peer, clients, closed, thr, node>>
    BY <1>11 DEF MainRecv
  <2>2. \A d \in Conn : NoReceive(d) => NoReceive(d)'
    BY <2>1 DEF NoReceive, TypeInv, TypeOK
  <2>3. Intact' = Intact /\ DeadWeight' \subseteq DeadWeight /\ DeadWeight \subseteq Conn
    BY <1>0, <2>1 DEF Intact, DeadWeight
  <2> QED
    BY <2>1, <2>2, <2>3 DEF ReapInv
<1>12. CASE MainRecvFails
  <2>1. /\ pc' = "scan" /\ NoReceive(cur) /\ cur \in clients /\ cur <= accepted
        /\ closed' = closed \cup {cur}
        /\ UNCHANGED <<accepted, peer, inbox, clients, heavy, thr, node>>
    BY <1>12 DEF MainRecvFails, kernel, ListInv
  <2>2. Intact' = Intact /\ DeadWeight' \subseteq DeadWeight \cup {cur}
    BY <2>1 DEF Intact, DeadWeight
  <2>3. \A d \in Conn : NoReceive(d)' = NoReceive(d)
    BY <2>1 DEF NoReceive
  <2>4. DeadWeight' \subseteq Conn
    BY <1>0, <2>1 DEF DeadWeight
  <2> QED
    BY <2>1, <2>2, <2>3, <2>4 DEF ReapInv
<1>13. ASSUME NEW t \in Conn, NEW c \in Conn, ThreadRecv(t, c) PROVE ReapInv'
  <2>1. /\ pc' \in {pc, "crashed"}
        /\ thr[t].st = "recv"
        /\ inbox[c] # <<>> /\ inbox' = [inbox EXCEPT ![c] = Tail(@)]
        /\ UNCHANGED <<accepted, peer, fdOf, clients, closed, heavy, activity, ready, node>>
    BY <1>13 DEF ThreadRecv, Throw, Serving, flags
  <2>2. \A u \in Conn : u # t => thr'[u] = thr[u]
    BY <1>13 DEF ThreadRecv, Throw, TypeInv, TypeOK
  <2>3. \A d \in Conn : NoReceive(d) => NoReceive(d)'
    BY <2>1 DEF NoReceive, TypeInv, TypeOK
  <2>4. \A u \in Conn : Intact /\ thr'[u].st # "none" => u \in heavy /\ u <= accepted
    BY <1>0a, <2>1, <2>2
  <2> QED
    BY <1>0, <2>1, <2>3, <2>4, SameClients
<1>14. ASSUME NEW t \in Conn, ThreadRecvFails(t) PROVE ReapInv'
  <2>1. /\ pc' \in {pc, "crashed"}
        /\ thr[t].st = "recv"
        /\ closed' = closed \cup {node[t]}
        /\ UNCHANGED <<accepted, peer, inbox, fdOf, clients, heavy, activity, ready, node>>
    BY <1>14 DEF ThreadRecvFails, Throw, Serving, kernel
  <2>2. \A u \in Conn : u # t => thr'[u] = thr[u]
    BY <1>14 DEF ThreadRecvFails, Throw, TypeInv, TypeOK
  <2>3. Intact' = Intact /\ \A d \in Conn : NoReceive(d)' = NoReceive(d)
    BY <2>1 DEF Intact, NoReceive
  <2>4. ASSUME Intact PROVE /\ DeadWeight' = DeadWeight
                            /\ \A u \in Conn : thr'[u].st # "none" => u \in heavy /\ u <= accepted
                            /\ \A d \in closed' : d <= accepted
    <3>1. node[t] = t /\ t \in heavy /\ t <= accepted
      BY <1>0a, <2>1, <2>4 DEF Intact
    <3>2. DeadWeight' = DeadWeight
      BY <2>1, <3>1 DEF DeadWeight
    <3>3. \A d \in closed' : d <= accepted
      BY <2>1, <2>4, <3>1 DEF ReapInv
    <3> QED
      BY <1>0a, <2>1, <2>2, <2>4, <3>1, <3>2, <3>3
  <2>5. DeadWeight \subseteq Conn
    BY <1>0 DEF DeadWeight
  <2> QED
    BY <2>1, <2>3, <2>4, <2>5 DEF ReapInv
<1>15. CASE UNCHANGED vars
  BY <1>15, <1>0, <1>0a, SameClients DEF vars, kernel, flags, main, NoReceive
<1> QED
  BY <1>1, <1>2, <1>3, <1>4, <1>5, <1>6, <1>7, <1>8, <1>9, <1>10, <1>11, <1>12, <1>13, <1>14, <1>15
  DEF Next, MainStep, ThreadStep, Environment

(* clean_up erases none but heavy clients: the record and the descriptor of a
   light one are kept for the life of the process. *)
THEOREM LightNeverReaped == Spec => OnlyHeavyReaped
<1> DEFINE Inv == TypeInv /\ ListInv /\ ReapInv
<1>1. Inv /\ [Next]_vars => [Intact => clients \ clients' \subseteq heavy]_vars
  <2> SUFFICES ASSUME Inv, [Next]_vars, Intact, NEW d \in clients, d \notin clients' PROVE d \in heavy
    OBVIOUS
  <2>1. PICK c \in Conn : Reap(c)
    BY DEF Next, MainStep, ThreadStep, Environment, Connect, Send, HangUp, Select, AcceptClient,
       RefuseClient, AcceptFails, EndOfList, CleanUpSkip, ScanSkip, SpawnHeavy, BeginRead, MainRecv,
       MainRecvFails, ThreadRecv, ThreadRecvFails, vars
  <2>2. c \in clients /\ c \in closed /\ pc = "cleanup"
    BY <2>1 DEF Reap, IsNext, Ahead
  <2>3. clients' = clients \ {c}
    BY <2>1, <2>2, ReapsItself DEF Reap, ListInv, TypeInv
  <2> QED
    BY <2>2, <2>3 DEF ReapInv, DeadWeight
<1> QED
  BY <1>1, InitType, StepType, InitList, StepList, InitReap, StepReap, PTL DEF Spec, OnlyHeavyReaped

(* BackLog - 1 light clients that hung up keep every newcomer out, for ever. *)
THEOREM DeadWeightRefuses == Spec => DeadWeightBlocks
<1> DEFINE Inv == TypeInv /\ ListInv /\ ReapInv
           Kept == Intact /\ Cardinality(DeadWeight) >= BackLog - 1 => clients' \subseteq clients
<1>1. Inv /\ [Next]_vars => [Kept]_vars
  <2> SUFFICES ASSUME Inv, [Next]_vars, Intact, Cardinality(DeadWeight) >= BackLog - 1
               PROVE  clients' \subseteq clients
    OBVIOUS
  <2>1. ~AcceptClient
    <3> SUFFICES ASSUME AcceptClient PROVE FALSE
      OBVIOUS
    <3>1. Cardinality(DeadWeight) <= activity - 1 /\ ~(activity >= BackLog)
      BY DeadWeightReady DEF AcceptClient, ConnectionsFull
    <3>2. Cardinality(DeadWeight) \in Nat
      BY FiniteConn, FS_CardinalityType DEF DeadWeight, TypeInv, TypeOK
    <3>3. BackLog \in Nat /\ activity \in Int
      BY ConstantsAssumption DEF TypeInv, TypeOK
    <3> QED
      BY <3>1, <3>2, <3>3
  <2> QED
    BY <2>1 DEF Next, MainStep, ThreadStep, Environment, Connect, Send, HangUp, Select, Reap,
       RefuseClient, AcceptFails, EndOfList, CleanUpSkip, ScanSkip, SpawnHeavy, BeginRead, MainRecv,
       MainRecvFails, ThreadRecv, ThreadRecvFails, vars
<1> QED
  BY <1>1, InitType, StepType, InitList, StepList, InitReap, StepReap, PTL DEF Spec, DeadWeightBlocks

-----------------------------------------------------------------------------
(* Who reads which socket.  A thread belongs to a heavy client, the main thread
   reads a light one, and the record of a listed client is its own. *)

ReaderInv ==
  /\ \A t \in clients : node[t] = t
  /\ \A t \in Conn : thr[t].st # "none" => t \in heavy \cap action
  /\ \A t \in Conn : thr[t].st = "recv" => thr[t].depth > 0
  /\ pc = "recv" => cur \notin heavy

(* The server starts with no thread. *)
LEMMA InitReader == Init => ReaderInv
BY DEF Init, ReaderInv, NoThread

(* A thread that goes on after the catch clause is one with a caller, or one
   that has called itself. *)
LEMMA CaughtAlive ==
  ASSUME NEW th \in Thread, th.st = "recv", th.depth > 0
  PROVE  /\ Caught(th).st \in {"recv", "gone"}
         /\ Caught(th).st = "recv" => Caught(th).depth > 0
         /\ Caught(th).st = "gone" => ~th.stale /\ th.depth = 1
         /\ Caught(th).st = "recv" =>
              Caught(th).rd.got = 0 /\ (Caught(th).stale \/ Caught(th).depth > 1)
<1>1. th.depth \in Nat /\ th.stale \in BOOLEAN /\ th = [st |-> th.st, rd |-> th.rd, depth |-> th.depth, stale |-> th.stale]
  BY DEF Thread
<1>2. CASE th.stale
  BY <1>1, <1>2 DEF Caught, Idle
<1>3. CASE ~th.stale /\ th.depth > 1
  BY <1>1, <1>3 DEF Caught, Idle
<1>4. CASE ~th.stale /\ ~(th.depth > 1)
  BY <1>1, <1>4 DEF Caught, Idle
<1> QED
  BY <1>2, <1>3, <1>4

(* What one recv() does to the thread that made it: it stays in its loop with
   what it has read, or it throws. *)
LEMMA RecvThread ==
  ASSUME TypeInv, NEW t \in Conn, NEW c \in Conn, ThreadRecv(t, c)
  PROVE  /\ thr[t].st = "recv" /\ thr'[t].st \in {"recv", "gone"}
         /\ \A u \in Conn : u # t => thr'[u] = thr[u]
         /\ \/ thr'[t] = Caught(thr[t])
            \/ /\ thr'[t].st = "recv" /\ thr'[t].depth = thr[t].depth
               /\ thr[t].stale => thr'[t].stale
<1> DEFINE r == Feed(thr[t].rd, Head(inbox[c]))
           stale == thr[t].stale \/ thr[t].rd.got > 0
<1>0. thr \in [Conn -> Thread] /\ thr[t] \in Thread /\ thr[t].st = "recv"
  BY DEF ThreadRecv, Serving, TypeInv, TypeOK
<1>1. CASE Malformed(r)
  <2>1. thr' = [thr EXCEPT ![t] = Caught(thr[t])]
    BY <1>1 DEF ThreadRecv, Throw
  <2>2. thr'[t] = Caught(thr[t]) /\ \A u \in Conn : u # t => thr'[u] = thr[u]
    BY <1>0, <2>1
  <2>3. Caught(thr[t]).st \in {"recv", "gone"}
    BY <1>0 DEF Caught, Thread
  <2> QED
    BY <1>0, <2>2, <2>3
<1>2. ASSUME NEW p, thr' = [thr EXCEPT ![t].rd = p, ![t].stale = stale]
      PROVE  /\ thr'[t].st = "recv" /\ thr'[t].depth = thr[t].depth
             /\ thr[t].stale => thr'[t].stale
             /\ \A u \in Conn : u # t => thr'[u] = thr[u]
  BY <1>0, <1>2 DEF Thread
<1>3. CASE ~Malformed(r)
  BY <1>0, <1>2, <1>3 DEF ThreadRecv
<1> QED
  BY <1>1, <1>3

(* And what a failing recv() does. *)
LEMMA RecvFailsThread ==
  ASSUME TypeInv, NEW t \in Conn, ThreadRecvFails(t)
  PROVE  LET th == [thr[t] EXCEPT !.stale = @ /\ thr[t].rd.got = 0] IN
         /\ thr[t].st = "recv" /\ th \in Thread
         /\ th.st = "recv" /\ th.depth = thr[t].depth
         /\ th.stale = (thr[t].stale /\ thr[t].rd.got = 0)
         /\ thr'[t] = Caught(th)
         /\ \A u \in Conn : u # t => thr'[u] = thr[u]
<1> DEFINE th == [thr[t] EXCEPT !.stale = @ /\ thr[t].rd.got = 0]
<1>1. thr \in [Conn -> Thread] /\ thr[t] \in Thread /\ thr[t].st = "recv"
  BY DEF ThreadRecvFails, Serving, TypeInv, TypeOK
<1>2. th \in Thread /\ th.st = "recv" /\ th.depth = thr[t].depth /\ th.stale = (thr[t].stale /\ thr[t].rd.got = 0)
  BY <1>1 DEF Thread
<1>3. thr' = [thr EXCEPT ![t] = Caught(th)]
  BY DEF ThreadRecvFails, Throw
<1> HIDE DEF th
<1>4. thr'[t] = Caught(th) /\ \A u \in Conn : u # t => thr'[u] = thr[u]
  BY <1>1, <1>3
<1> QED
  BY <1>1, <1>2, <1>4 DEF th

(* Threads are started for heavy clients and the main thread reads light ones,
   whatever step is taken. *)
LEMMA StepReader == TypeInv /\ ListInv /\ ReapInv /\ ReaderInv /\ [Next]_vars => ReaderInv'
<1> SUFFICES ASSUME TypeInv, ListInv, ReapInv, ReaderInv, [Next]_vars PROVE ReaderInv'
  OBVIOUS
<1>0. clients \subseteq Conn /\ accepted \in Nat /\ \A t \in clients : t <= accepted
  BY DEF TypeInv, TypeOK, ListInv
<1>1. ASSUME clients' \subseteq clients, UNCHANGED <<node, thr, heavy, action>>, pc' = "recv" => cur' \notin heavy
      PROVE  ReaderInv'
  BY <1>1 DEF ReaderInv
<1>2. CASE AcceptClient
  <2> DEFINE c == accepted + 1
  <2>1. PICK z \in FreedNodes \cup {c} : node' = [t \in Conn |-> IF node[t] = z THEN c ELSE node[t]]
    BY <1>2 DEF AcceptClient
  <2>2. clients' = clients \cup {c} /\ pc' # "recv" /\ c \in Conn /\ UNCHANGED <<thr, heavy, action>>
    BY <1>2, NewcomerExists DEF AcceptClient, AfterAccept, flags
  <2>3. ASSUME NEW t \in clients PROVE node'[t] = t
    <3>1. node[t] = t /\ t # z
      BY <1>0, <2>1 DEF ReaderInv, FreedNodes
    <3> QED
      BY <1>0, <2>1, <3>1
  <2>4. node'[c] = c
    BY <1>0, <2>1, <2>2 DEF ReapInv, Conn
  <2> QED
    BY <2>2, <2>3, <2>4 DEF ReaderInv
<1>3. ASSUME NEW c \in Conn, Reap(c) PROVE ReaderInv'
  BY <1>1, <1>3 DEF Reap, flags
<1>4. CASE RefuseClient \/ AcceptFails
  BY <1>1, <1>4 DEF RefuseClient, AcceptFails, AfterAccept, flags
<1>5. CASE Environment
  BY <1>1, <1>5 DEF Environment, Connect, HangUp, Send, main, flags, ReaderInv
<1>6. CASE Select
  BY <1>1, <1>6 DEF Select, flags
<1>7. CASE EndOfList("cleanup", "scan") \/ EndOfList("scan", "select")
  BY <1>1, <1>7 DEF EndOfList, flags
<1>8. ASSUME NEW c \in Conn, CleanUpSkip(c) \/ ScanSkip(c) \/ BeginRead(c) PROVE ReaderInv'
  BY <1>1, <1>8 DEF CleanUpSkip, ScanSkip, BeginRead, MainReads, flags
<1>9. ASSUME NEW c \in Conn, SpawnHeavy(c) PROVE ReaderInv'
  <2>1. /\ c \in heavy /\ pc' # "recv"
        /\ action' = action \cup {c}
        /\ thr' = [thr EXCEPT ![c] = [st |-> "recv", rd |-> Idle, depth |-> 1, stale |-> FALSE]]
        /\ UNCHANGED <<clients, node, heavy>>
    BY <1>9 DEF SpawnHeavy, NeedsThread
  <2>2. thr'[c].st = "recv" /\ thr'[c].depth = 1 /\ \A t \in Conn : t # c => thr'[t] = thr[t]
    BY <2>1 DEF TypeInv, TypeOK
  <2> QED
    BY <2>1, <2>2 DEF ReaderInv
<1>10. CASE MainRecv
  <2>1. heavy \subseteq heavy' /\ UNCHANGED <<clients, node, thr, action>>
    BY <1>10 DEF MainRecv
  <2>2. pc' = "recv" => heavy' = heavy /\ cur' = cur /\ pc = "recv"
    BY <1>10 DEF MainRecv
  <2> QED
    BY <2>1, <2>2 DEF ReaderInv
<1>11. CASE MainRecvFails
  BY <1>1, <1>11 DEF MainRecvFails, flags
<1>12. ASSUME NEW t \in Conn, NEW c \in Conn, ThreadRecv(t, c) PROVE ReaderInv'
  <2>1. pc' \in {pc, "crashed"} /\ UNCHANGED <<clients, node, heavy, action, cur>>
    BY <1>12 DEF ThreadRecv, Throw, flags
  <2>2. thr[t] \in Thread /\ thr[t].st = "recv"
    BY <1>12, RecvThread DEF TypeInv, TypeOK
  <2>3. thr'[t].st = "recv" => thr'[t].depth > 0
    BY <1>12, <2>2, RecvThread, CaughtAlive DEF ReaderInv
  <2> QED
    BY <1>12, <2>1, <2>2, <2>3, RecvThread DEF ReaderInv
<1>13. ASSUME NEW t \in Conn, ThreadRecvFails(t) PROVE ReaderInv'
  <2> DEFINE th == [thr[t] EXCEPT !.stale = @ /\ thr[t].rd.got = 0]
  <2>1. pc' \in {pc, "crashed"} /\ UNCHANGED <<clients, node, heavy, action, cur>>
    BY <1>13 DEF ThreadRecvFails, Throw
  <2>2. /\ thr[t].st = "recv" /\ th \in Thread /\ th.st = "recv" /\ th.depth = thr[t].depth
        /\ thr'[t] = Caught(th) /\ \A u \in Conn : u # t => thr'[u] = thr[u]
    BY <1>13, RecvFailsThread
  <2> HIDE DEF th
  <2>3. thr'[t].st = "recv" => thr'[t].depth > 0
    BY <2>2, CaughtAlive DEF ReaderInv
  <2> QED
    BY <2>1, <2>2, <2>3 DEF ReaderInv
<1>14. CASE UNCHANGED vars
  BY <1>1, <1>14 DEF vars, main, flags, ReaderInv
<1> QED
  BY <1>2, <1>3, <1>4, <1>5, <1>6, <1>7, <1>8, <1>9, <1>10, <1>11, <1>12, <1>13, <1>14
  DEF Next, MainStep, ThreadStep

(* Two readers of one socket are one and the same. *)
LEMMA ReadersAgree ==
  ASSUME TypeInv, ListInv, ReaderInv, \A t \in Conn : ~Dangling(t),
         NEW f \in Fd, NEW a \in Readers(f), NEW b \in Readers(f)
  PROVE  a = b
<1>1. ASSUME NEW t \in Conn, Serving(t), Socket(t) = f PROVE t \in clients \cap heavy /\ fdOf[t] = f
  BY <1>1 DEF Dangling, Serving, Socket, ReaderInv
<1>2. pc = "recv" => cur \in clients \ heavy
  BY DEF ListInv, ReaderInv
<1>3. \A c, d \in clients : fdOf[c] = fdOf[d] => c = d
  BY DEF ListInv, OpenIffListed
<1>4. \A x \in Readers(f) : \/ x \in Conn /\ Serving(x) /\ Socket(x) = f
                            \/ x = Listen /\ pc = "recv" /\ fdOf[cur] = f
  BY DEF Readers
<1>5. \A x \in Readers(f) : \/ x \in clients \cap heavy /\ fdOf[x] = f
                            \/ x = Listen /\ cur \in clients \ heavy /\ fdOf[cur] = f
  BY <1>1, <1>2, <1>4
<1>6. CASE a \in clients \cap heavy /\ fdOf[a] = f
  BY <1>3, <1>5, <1>6
<1>7. CASE a = Listen /\ cur \in clients \ heavy /\ fdOf[cur] = f
  BY <1>3, <1>5, <1>7
<1> QED
  BY <1>5, <1>6, <1>7

(* Bytes of one socket have one reader, unless a thread has outlived the list
   node it was started for. *)
THEOREM OneReader == Spec => []SingleReader
<1>1. TypeInv /\ ListInv /\ ReaderInv => SingleReader
  <2> SUFFICES ASSUME TypeInv, ListInv, ReaderInv, \A t \in Conn : ~Dangling(t), NEW f \in Fd
               PROVE  Cardinality(Readers(f)) <= 1
    BY DEF SingleReader
  <2>1. CASE Readers(f) = {}
    BY <2>1, FS_EmptySet
  <2>2. ASSUME NEW a \in Readers(f) PROVE Cardinality(Readers(f)) <= 1
    <3>1. Readers(f) = {a}
      BY ReadersAgree
    <3>2. Cardinality({a}) = 1
      BY FS_Singleton
    <3> QED
      BY <3>1, <3>2
  <2> QED
    BY <2>1, <2>2
<1> QED
  BY <1>1, InitType, StepType, InitList, StepList, InitReap, StepReap, InitReader, StepReader, PTL DEF Spec

-----------------------------------------------------------------------------
(* Who is reported closed, and how a thread comes to go on after it: by a call
   of itself, or by a return to a caller whose `result' is positive. *)

GoesOn(th) == th.stale \/ th.depth > 1

Reports ==
  /\ \A c \in clients \ heavy : told[c] = IF c \in closed THEN 1 ELSE 0
  /\ \A c \in clients : told[c] > 0 => c \in closed
  /\ \A c \in Conn : c > accepted => told[c] = 0
  /\ pc = "recv" => cur \notin closed
  /\ \A t \in Conn : thr[t].st = "recv" /\ told[t] > 0 => GoesOn(thr[t])
  /\ \A t \in clients \cap closed :
       thr[t].st = "recv" => thr[t].rd.got = 0 /\ GoesOn(thr[t]) /\ NoReceive(t)
ReportInv == Intact => Reports

(* The server starts with nobody reported. *)
LEMMA InitReport == Init => ReportInv
BY DEF Init, ReportInv, Reports, NoThread, Conn

(* Reporting a client counts it up to two and leaves the others alone. *)
LEMMA ReportCounts ==
  ASSUME told \in [Conn -> 0 .. 2], NEW c \in Conn, Report(c)
  PROVE  /\ told'[c] > 0 /\ (told[c] = 0 => told'[c] = 1) /\ (told[c] > 0 => told'[c] = 2)
         /\ \A d \in Conn : d # c => told'[d] = told[d]
BY DEF Report

(* A step that reports nobody and moves no thread, takes nothing from the
   socket of a client that hung up, and does not begin to read a closed
   client, leaves the reports as they are. *)
LEMMA SameReports ==
  ASSUME TypeInv, Reports, clients' \subseteq clients, accepted' = accepted, heavy \subseteq heavy',
         UNCHANGED <<closed, told, thr>>,
         \A c \in Conn : NoReceive(c) => NoReceive(c)',
         pc' = "recv" => cur' \notin closed
  PROVE  Reports'
BY DEF Reports, GoesOn, TypeInv, TypeOK

(* A light client is reported when it is marked closed and only then, and a
   thread that has reported its client goes on, whatever step is taken. *)
LEMMA StepReport ==
  TypeInv /\ ListInv /\ ReapInv /\ ReaderInv /\ ReportInv /\ [Next]_vars => ReportInv'
<1> SUFFICES ASSUME TypeInv, ListInv, ReapInv, ReaderInv, ReportInv, [Next]_vars, Intact' PROVE Reports'
  BY DEF ReportInv
<1>0. Intact /\ Reports
  BY IntactBefore DEF ReportInv
<1>0a. clients \subseteq Conn /\ accepted \in Nat /\ \A t \in clients : t <= accepted
  BY DEF TypeInv, TypeOK, ListInv
<1>1. CASE Environment
  <2>1. \A c \in Conn : NoReceive(c) => NoReceive(c)'
    BY <1>1 DEF Environment, Connect, Send, HangUp, NoReceive, TypeInv, TypeOK
  <2> QED
    BY <1>0, <1>1, <2>1, SameReports DEF Environment, Connect, HangUp, Send, main, flags, Reports
<1>2. CASE AcceptClient
  <2> DEFINE c == accepted + 1
  <2>1. /\ clients' = clients \cup {c} /\ pc' # "recv" /\ c \in Conn /\ accepted' = c
        /\ UNCHANGED <<peer, inbox, closed, heavy, thr, told>>
    BY <1>2, NewcomerExists DEF AcceptClient, AfterAccept, flags
  <2>2. c \notin closed /\ told[c] = 0 /\ thr[c].st = "none"
    BY <1>0, <1>0a, <2>1 DEF ReapInv, Reports, TypeInv, TypeOK, Thread
  <2>3. \A d \in Conn : d > accepted' => told'[d] = 0
    BY <1>0, <1>0a, <2>1 DEF Reports, Conn
  <2> QED
    BY <1>0, <2>1, <2>2, <2>3 DEF Reports, NoReceive, GoesOn
<1>3. CASE RefuseClient
  <2> DEFINE c == accepted + 1
  <2>1. /\ pc' # "recv" /\ c \in Conn /\ accepted' = c /\ Report(c) /\ c \notin clients /\ thr[c].st = "none"
        /\ UNCHANGED <<peer, inbox, clients, closed, heavy, thr>>
    BY <1>0, <1>0a, <1>3, NewcomerExists DEF RefuseClient, AfterAccept, flags, ReapInv, TypeInv, TypeOK, Thread
  <2>2. \A d \in Conn : d # c => told'[d] = told[d]
    BY <2>1, ReportCounts DEF TypeInv, TypeOK
  <2>3. \A d \in Conn : d > accepted' => told'[d] = 0
    BY <1>0, <1>0a, <2>1, <2>2 DEF Reports, Conn
  <2> QED
    BY <1>0, <1>0a, <2>1, <2>2, <2>3 DEF Reports, NoReceive, GoesOn
<1>4. CASE AcceptFails
  BY <1>0, <1>4, SameReports DEF AcceptFails, AfterAccept, kernel, flags, NoReceive
<1>5. ASSUME NEW c \in Conn, Reap(c) PROVE Reports'
  BY <1>0, <1>5, SameReports DEF Reap, flags, NoReceive
<1>6. CASE Select \/ EndOfList("cleanup", "scan") \/ EndOfList("scan", "select")
  BY <1>0, <1>6, SameReports DEF Select, EndOfList, kernel, flags, NoReceive
<1>7. ASSUME NEW c \in Conn, CleanUpSkip(c) \/ ScanSkip(c) \/ BeginRead(c) PROVE Reports'
  BY <1>0, <1>7, SameReports DEF CleanUpSkip, ScanSkip, BeginRead, MainReads, kernel, flags, NoReceive
<1>8. ASSUME NEW c \in Conn, SpawnHeavy(c) PROVE Reports'
  <2>1. /\ c \in clients \cap heavy /\ c \notin closed \cup action /\ pc' # "recv"
        /\ thr' = [thr EXCEPT ![c] = [st |-> "recv", rd |-> Idle, depth |-> 1, stale |-> FALSE]]
        /\ UNCHANGED <<accepted, peer, inbox, clients, closed, heavy, told>>
    BY <1>8 DEF SpawnHeavy, NeedsThread, IsNext, Ahead, kernel
  <2>2. \A t \in Conn : t # c => thr'[t] = thr[t]
    BY <2>1 DEF TypeInv, TypeOK
  <2> QED
    BY <1>0, <2>1, <2>2 DEF Reports, NoReceive, GoesOn
<1>9. CASE MainRecv
  <2>1. \A d \in Conn : NoReceive(d) => NoReceive(d)'
    BY <1>9 DEF MainRecv, NoReceive, TypeInv, TypeOK
  <2> QED
    BY <1>0, <1>9, <2>1, SameReports DEF MainRecv, Reports
<1>10. CASE MainRecvFails
  <2>1. /\ pc' # "recv" /\ cur \in clients \ heavy /\ cur \notin closed
        /\ closed' = closed \cup {cur} /\ Report(cur)
        /\ UNCHANGED <<accepted, peer, inbox, clients, heavy, thr>>
    BY <1>0, <1>10 DEF MainRecvFails, kernel, ListInv, ReaderInv, Reports
  <2>2. told[cur] = 0 /\ thr[cur].st = "none"
    BY <1>0, <1>0a, <2>1 DEF Reports, ReaderInv, TypeInv, TypeOK, Thread
  <2>3. told'[cur] = 1 /\ \A d \in Conn : d # cur => told'[d] = told[d]
    BY <1>0a, <2>1, <2>2, ReportCounts DEF TypeInv, TypeOK
  <2>4. \A d \in Conn : d > accepted => d # cur
    BY <1>0a, <2>1 DEF Conn
  <2> QED
    BY <1>0, <1>0a, <2>1, <2>2, <2>3, <2>4 DEF Reports, NoReceive, GoesOn
<1>11. ASSUME NEW t \in Conn, NEW c \in Conn, ThreadRecv(t, c) PROVE Reports'
  <2>1. /\ pc' \in {pc, "crashed"} /\ c \in open /\ fdOf[c] = fdOf[t]
        /\ inbox[c] # <<>> /\ inbox' = [inbox EXCEPT ![c] = Tail(@)]
        /\ UNCHANGED <<accepted, peer, clients, closed, heavy, told, cur>>
    BY <1>0, <1>11 DEF ThreadRecv, Throw, Socket, Owner, Intact, flags
  <2>2. thr[t] \in Thread /\ thr[t].st = "recv" /\ thr[t].depth > 0
    BY <1>11, RecvThread DEF TypeInv, TypeOK, ReaderInv
  <2>3. GoesOn(thr[t]) => thr'[t].st = "recv" /\ GoesOn(thr'[t])
    BY <1>11, <2>2, RecvThread, CaughtAlive DEF GoesOn
  <2>4. t \in clients => ~NoReceive(t)
    BY <2>1 DEF ListInv, OpenIffListed, NoReceive
  <2>5. \A d \in Conn : NoReceive(d) => NoReceive(d)'
    BY <2>1 DEF NoReceive, TypeInv, TypeOK
  <2>6. \A u \in Conn : u # t => thr'[u] = thr[u]
    BY <1>11, RecvThread
  <2> QED
    BY <1>0, <1>0a, <2>1, <2>2, <2>3, <2>4, <2>5, <2>6 DEF Reports
<1>12. ASSUME NEW t \in Conn, ThreadRecvFails(t) PROVE Reports'
  <2> DEFINE th == [thr[t] EXCEPT !.stale = @ /\ thr[t].rd.got = 0]
  <2>1. /\ pc' \in {pc, "crashed"} /\ Report(t) /\ closed' = closed \cup {t}
        /\ \A c \in Owner(fdOf[t]) : NoReceive(c)
        /\ UNCHANGED <<accepted, peer, inbox, clients, heavy, cur>>
    BY <1>0, <1>12 DEF ThreadRecvFails, Throw, Socket, Intact, kernel
  <2>2. /\ thr[t].st = "recv" /\ th \in Thread /\ th.st = "recv" /\ th.depth = thr[t].depth
        /\ thr'[t] = Caught(th) /\ \A u \in Conn : u # t => thr'[u] = thr[u]
    BY <1>12, RecvFailsThread
  <2> HIDE DEF th
  <2>3. th.depth > 0
    BY <2>2 DEF ReaderInv
  <2>4. thr'[t].st = "recv" => thr'[t].rd.got = 0 /\ GoesOn(thr'[t])
    BY <2>2, <2>3, CaughtAlive DEF GoesOn
  <2>5. t \in clients => NoReceive(t)
    BY <2>1 DEF Owner, ListInv, OpenIffListed
  <2>6. t \in heavy /\ t <= accepted
    BY <1>0, <2>2 DEF ReapInv
  <2>7. \A d \in Conn : d # t => told'[d] = told[d]
    BY <2>1, ReportCounts DEF TypeInv, TypeOK
  <2>8. \A d \in Conn : d > accepted => d # t
    BY <1>0a, <2>6 DEF Conn
  <2>9. pc = "recv" => cur # t
    BY <2>6 DEF ReaderInv
  <2> QED
    BY <1>0, <1>0a, <2>1, <2>2, <2>4, <2>5, <2>6, <2>7, <2>8, <2>9 DEF Reports, NoReceive
<1>13. CASE UNCHANGED vars
  BY <1>0, <1>13, SameReports DEF vars, kernel, main, flags, NoReceive, Reports
<1> QED
  BY <1>1, <1>2, <1>3, <1>4, <1>5, <1>6, <1>7, <1>8, <1>9, <1>10, <1>11, <1>12, <1>13
  DEF Next, MainStep, ThreadStep

(* A client served by the main thread is reported closed once. *)
THEOREM LightReportedOnce == Spec => []ReportedOnce
<1>1. ReportInv => ReportedOnce
  BY DEF ReportInv, Reports, ReportedOnce
<1> QED
  BY <1>1, InitType, StepType, InitList, StepList, InitReap, StepReap, InitReader, StepReader,
     InitReport, StepReport, PTL DEF Spec

(* A thread that still runs after it closed its client never returns. *)
THEOREM ZombiesStay == Spec => ZombieNeverExits
<1> DEFINE Inv == TypeInv /\ ListInv /\ ReapInv /\ ReaderInv /\ ReportInv
           Stays == Intact => \A t \in clients \cap closed : thr[t].st = "recv" => thr'[t].st = "recv"
<1>1. Inv /\ [Next]_vars => [Stays]_vars
  <2> SUFFICES ASSUME Inv, [Next]_vars, Intact, NEW t \in clients \cap closed, thr[t].st = "recv"
               PROVE  thr'[t].st = "recv"
    OBVIOUS
  <2>0. t \in Conn /\ Reports /\ thr[t].depth > 0
    BY DEF TypeInv, TypeOK, ReportInv, ReaderInv
  <2>1. ASSUME NEW u \in Conn, NEW c \in Conn, ThreadRecv(u, c) PROVE thr'[t].st = "recv"
    <3>1. u # t
      BY <2>0, <2>1 DEF ThreadRecv, Socket, Owner, Intact, ListInv, OpenIffListed, Reports, NoReceive
    <3> QED
      BY <2>0, <2>1, <3>1, RecvThread
  <2>2. ASSUME NEW u \in Conn, ThreadRecvFails(u), u # t PROVE thr'[t].st = "recv"
    BY <2>0, <2>2, RecvFailsThread
  <2>3. ASSUME ThreadRecvFails(t) PROVE thr'[t].st = "recv"
    <3> DEFINE th == [thr[t] EXCEPT !.stale = @ /\ thr[t].rd.got = 0]
    <3>1. /\ th \in Thread /\ th.st = "recv" /\ th.depth = thr[t].depth /\ thr'[t] = Caught(th)
          /\ th.stale = (thr[t].stale /\ thr[t].rd.got = 0)
      BY <2>0, <2>3, RecvFailsThread
    <3>2. thr[t].rd.got = 0 /\ GoesOn(thr[t])
      BY <2>0 DEF Reports
    <3>3. th.stale \/ th.depth > 1
      BY <3>1, <3>2 DEF GoesOn
    <3> HIDE DEF th
    <3>4. th.depth > 0
      BY <2>0, <3>1
    <3>5. Caught(th).st = "recv"
      BY <3>1, <3>3, <3>4, CaughtAlive
    <3> QED
      BY <3>1, <3>5
  <2>4. ASSUME NEW c \in Conn, SpawnHeavy(c) PROVE thr'[t].st = "recv"
    <3>1. c # t
      BY <2>4 DEF SpawnHeavy, NeedsThread
    <3> QED
      BY <2>0, <2>4, <3>1 DEF SpawnHeavy, TypeInv, TypeOK
  <2>5. ASSUME UNCHANGED thr PROVE thr'[t].st = "recv"
    BY <2>5
  <2> QED
    BY <2>1, <2>2, <2>3, <2>4, <2>5 DEF Next, MainStep, ThreadStep, Environment, Connect, Send, HangUp,
       Select, AcceptClient, RefuseClient, AcceptFails, EndOfList, CleanUpSkip, Reap, ScanSkip, BeginRead,
       MainRecv, MainRecvFails, vars
<1> QED
  BY <1>1, InitType, StepType, InitList, StepList, InitReap, StepReap, InitReader, StepReader,
     InitReport, StepReport, PTL DEF Spec, ZombieNeverExits

-----------------------------------------------------------------------------
(* Counting modulo the width of m_threads_count. *)

(* Multiples of M lie M apart. *)
LEMMA Multiples ==
  ASSUME NEW M \in Nat \ {0}, NEW a \in Int, NEW b \in Int, a < b
  PROVE  M * a + M <= M * b
<1>1. PICK d \in Nat : b = a + 1 + d
  BY b - a - 1 \in Nat
<1>2. M * b = M * a + M + M * d
  BY <1>1
<1>3. M * d \in Nat
  OBVIOUS
<1> QED
  BY <1>2, <1>3

(* Quotient and remainder make up the dividend, *)
LEMMA Division ==
  ASSUME NEW M \in Nat \ {0}, NEW x \in Int
  PROVE  x % M \in 0 .. M - 1 /\ x \div M \in Int /\ x = M * (x \div M) + (x % M)
OBVIOUS

(* and no others do. *)
LEMMA RemainderUnique ==
  ASSUME NEW M \in Nat \ {0}, NEW q \in Int, NEW r \in 0 .. M - 1, NEW x \in Int, x = M * q + r
  PROVE  x % M = r
<1> DEFINE p == x \div M
           s == x % M
<1>1. p \in Int /\ s \in 0 .. M - 1 /\ x = M * p + s
  BY Division
<1> HIDE DEF p, s
<1>2. M * p \in Int /\ M * q \in Int
  BY <1>1
<1>3. ~ p < q
  <2>1. p < q => M * p + M <= M * q
    BY <1>1, Multiples
  <2> QED
    BY <2>1, <1>1, <1>2
<1>4. ~ q < p
  <2>1. q < p => M * q + M <= M * p
    BY <1>1, Multiples
  <2> QED
    BY <2>1, <1>1, <1>2
<1>5. p = q
  BY <1>1, <1>3, <1>4
<1> QED
  BY <1>1, <1>2, <1>5 DEF s

(* One up or one down from a remainder is one up or down from the number. *)
LEMMA RemainderStep ==
  ASSUME NEW M \in Nat \ {0}, NEW k \in Int, NEW d \in {-1, 1}
  PROVE  ((k % M) + d) % M = (k + d) % M
<1> DEFINE q == k \div M
           r == k % M
           u == (r + d) \div M
           y == (r + d) % M
<1>1. q \in Int /\ r \in 0 .. M - 1 /\ k = M * q + r
  BY Division
<1>2. u \in Int /\ y \in 0 .. M - 1 /\ r + d = M * u + y
  BY Division, <1>1
<1> HIDE DEF q, r, u, y
<1>3. k + d = M * (q + u) + y
  <2>1. M * (q + u) = M * q + M * u
    BY <1>1, <1>2
  <2> QED
    BY <2>1, <1>1, <1>2
<1>4. (k + d) % M = y
  BY RemainderUnique, <1>1, <1>2, <1>3
<1> QED
  BY <1>4 DEF r, y

-----------------------------------------------------------------------------
(* The number of heavy threads. *)

Working == {t \in Conn : thr[t].st = "recv"}
Tidy ==
  /\ Intact
  /\ \A t \in Conn : thr[t].st = "gone" => told[t] = 1
  /\ \A t \in Conn : thr[t].st = "recv" => told[t] = 0

(* A thread that went on after its report, or left without one, is never
   tidied up after. *)
LEMMA TidyBefore ==
  ASSUME TypeInv, ListInv, ReapInv, ReaderInv, ReportInv, [Next]_vars, Tidy'
  PROVE  Tidy
<1>1. Intact /\ Intact' /\ Reports
  BY IntactBefore DEF Tidy, ReportInv
<1>0. /\ clients \subseteq Conn /\ accepted \in Nat /\ told \in [Conn -> 0 .. 2] /\ thr \in [Conn -> Thread]
      /\ \A t \in Conn : thr[t] \in Thread
  BY DEF TypeInv, TypeOK
<1>2. ASSUME NEW t \in Conn, thr[t].st # "none", thr'[t] = thr[t], told'[t] = told[t]
      PROVE  (thr[t].st = "gone" => told[t] = 1) /\ (thr[t].st = "recv" => told[t] = 0)
  BY <1>2 DEF Tidy
<1>3. ASSUME NEW t \in Conn, ThreadRecvFails(t) PROVE Tidy
  <2> DEFINE th == [thr[t] EXCEPT !.stale = @ /\ thr[t].rd.got = 0]
  <2>1. Report(t)
    BY <1>1, <1>3 DEF ThreadRecvFails, Intact
  <2>2. /\ thr[t].st = "recv" /\ th \in Thread /\ th.st = "recv" /\ th.depth = thr[t].depth
        /\ thr'[t] = Caught(th) /\ \A u \in Conn : u # t => thr'[u] = thr[u]
    BY <1>3, RecvFailsThread
  <2> HIDE DEF th
  <2>3. /\ told'[t] > 0 /\ (told[t] > 0 => told'[t] = 2)
        /\ \A d \in Conn : d # t => told'[d] = told[d]
    BY <1>0, <2>1, ReportCounts
  <2>4. thr'[t].st \in {"recv", "gone"}
    BY <2>2, CaughtAlive DEF ReaderInv
  <2>5. told[t] = 0
    BY <1>0, <2>3, <2>4 DEF Tidy
  <2> QED
    BY <1>1, <1>2, <2>2, <2>3, <2>5 DEF Tidy
<1>4. ASSUME NEW t \in Conn, NEW c \in Conn, ThreadRecv(t, c) PROVE Tidy
  <2>1. thr[t].st = "recv" /\ thr'[t].st \in {"recv", "gone"} /\ \A u \in Conn : u # t => thr'[u] = thr[u]
    BY <1>4, RecvThread
  <2>2. thr'[t].st = "gone" => ~GoesOn(thr[t])
    BY <1>0, <1>4, <2>1, RecvThread, CaughtAlive DEF GoesOn, ReaderInv, Thread
  <2>3. UNCHANGED told
    BY <1>4 DEF ThreadRecv
  <2>4. told[t] = 0
    BY <1>0, <1>1, <2>1, <2>2, <2>3 DEF Tidy, Reports
  <2> QED
    BY <1>1, <1>2, <2>1, <2>3, <2>4 DEF Tidy
<1>5. ASSUME NEW c \in Conn, SpawnHeavy(c) PROVE Tidy
  <2>1. thr[c].st = "none" /\ UNCHANGED told
    BY <1>0, <1>5 DEF SpawnHeavy, NeedsThread, ReaderInv
  <2>2. \A u \in Conn : u # c => thr'[u] = thr[u]
    BY <1>0, <1>5 DEF SpawnHeavy
  <2> QED
    BY <1>1, <1>2, <2>1, <2>2 DEF Tidy
<1>6. CASE MainRecvFails
  <2>1. cur \in Conn /\ thr[cur].st = "none" /\ Report(cur) /\ UNCHANGED thr
    BY <1>0, <1>6 DEF MainRecvFails, ListInv, ReaderInv, Thread
  <2>2. \A d \in Conn : d # cur => told'[d] = told[d]
    BY <1>0, <2>1, ReportCounts
  <2> QED
    BY <1>1, <1>2, <2>1, <2>2 DEF Tidy
<1>7. CASE RefuseClient
  <2> DEFINE c == accepted + 1
  <2>1. c \in Conn /\ thr[c].st = "none" /\ Report(c) /\ UNCHANGED thr
    BY <1>0, <1>1, <1>7, NewcomerExists DEF RefuseClient, ReapInv, Thread
  <2>2. \A d \in Conn : d # c => told'[d] = told[d]
    BY <1>0, <2>1, ReportCounts
  <2> QED
    BY <1>1, <1>2, <2>1, <2>2 DEF Tidy
<1>8. CASE UNCHANGED <<thr, told>>
  BY <1>1, <1>8 DEF Tidy
<1> QED
  BY <1>3, <1>4, <1>5, <1>6, <1>7, <1>8 DEF Next, MainStep, ThreadStep, Environment, Connect, Send, HangUp,
     Select, AcceptClient, AcceptFails, EndOfList, CleanUpSkip, Reap, ScanSkip, BeginRead, MainRecv, vars

(* Threads are counted when they start and when they leave with a report. *)
LEMMA StepCount ==
  TypeInv /\ ListInv /\ ReapInv /\ ReaderInv /\ ReportInv /\ ThreadCountExact /\ [Next]_vars => ThreadCountExact'
<1> SUFFICES ASSUME TypeInv, ListInv, ReapInv, ReaderInv, ReportInv, ThreadCountExact, [Next]_vars, Tidy'
             PROVE  threads' = Cardinality(Working') % ThreadMod
  BY DEF ThreadCountExact, Tidy, Working
<1>0. Tidy /\ Intact /\ ThreadMod \in Nat \ {0}
  BY TidyBefore, ConstantsAssumption DEF Tidy
<1>1. threads = Cardinality(Working) % ThreadMod
  BY <1>0 DEF ThreadCountExact, Tidy, Working
<1>2. IsFiniteSet(Working) /\ Cardinality(Working) \in Nat
  BY FiniteConn, FS_CardinalityType DEF Working
<1>3. thr \in [Conn -> Thread] /\ \A t \in Conn : thr[t] \in Thread
  BY DEF TypeInv, TypeOK
<1>4. ASSUME NEW c \in Conn, SpawnHeavy(c) PROVE threads' = Cardinality(Working') % ThreadMod
  <2>1. c \notin Working
    BY <1>3, <1>4 DEF SpawnHeavy, NeedsThread, ReaderInv, Working
  <2>2. thr'[c].st = "recv" /\ \A u \in Conn : u # c => thr'[u] = thr[u]
    BY <1>3, <1>4 DEF SpawnHeavy
  <2>3. Working' = Working \cup {c}
    BY <2>2 DEF Working
  <2>4. Cardinality(Working') = Cardinality(Working) + 1
    BY <1>2, <2>1, <2>3, FS_AddElement
  <2>5. threads' = (threads + 1) % ThreadMod
    BY <1>4 DEF SpawnHeavy, Counted
  <2> QED
    BY <1>0, <1>1, <1>2, <2>4, <2>5, RemainderStep
<1>5. ASSUME NEW t \in Conn, ThreadRecvFails(t) PROVE threads' = Cardinality(Working') % ThreadMod
  <2> DEFINE th == [thr[t] EXCEPT !.stale = @ /\ thr[t].rd.got = 0]
  <2>1. Report(t) /\ threads' = (threads - 1) % ThreadMod
    BY <1>0, <1>5 DEF ThreadRecvFails, Intact, Counted
  <2>2. /\ thr[t].st = "recv" /\ th \in Thread /\ th.st = "recv" /\ th.depth = thr[t].depth
        /\ thr'[t] = Caught(th) /\ \A u \in Conn : u # t => thr'[u] = thr[u]
    BY <1>5, RecvFailsThread
  <2> HIDE DEF th
  <2>3. thr'[t].st \in {"recv", "gone"} /\ told'[t] > 0
    BY <2>1, <2>2, CaughtAlive, ReportCounts DEF ReaderInv, TypeInv, TypeOK
  <2>4. thr'[t].st = "gone"
    BY <2>3 DEF Tidy
  <2>5. Working' = Working \ {t} /\ t \in Working
    BY <2>2, <2>4 DEF Working
  <2>6. Cardinality(Working') = Cardinality(Working) - 1
    BY <1>2, <2>5, FS_RemoveElement
  <2> DEFINE k == Cardinality(Working)
  <2>7. ((k % ThreadMod) + (-1)) % ThreadMod = (k + (-1)) % ThreadMod
    BY <1>0, <1>2, RemainderStep
  <2>8. k % ThreadMod \in Int /\ k \in Int
    BY <1>0, <1>2
  <2>9. (k % ThreadMod) - 1 = (k % ThreadMod) + (-1) /\ k - 1 = k + (-1)
    BY <2>8
  <2> QED
    BY <1>1, <2>1, <2>6, <2>7, <2>9
<1>6. ASSUME NEW t \in Conn, NEW c \in Conn, ThreadRecv(t, c) PROVE threads' = Cardinality(Working') % ThreadMod
  <2>1. thr[t].st = "recv" /\ thr'[t].st \in {"recv", "gone"} /\ \A u \in Conn : u # t => thr'[u] = thr[u]
    BY <1>6, RecvThread
  <2>2. UNCHANGED <<told, threads>>
    BY <1>6 DEF ThreadRecv
  <2>3. thr'[t].st = "recv"
    BY <1>0, <2>1, <2>2 DEF Tidy
  <2>4. Working' = Working
    BY <2>1, <2>3 DEF Working
  <2> QED
    BY <1>1, <2>2, <2>4
<1>7. CASE UNCHANGED <<thr, threads>>
  BY <1>1, <1>7 DEF Working
<1> QED
  BY <1>4, <1>5, <1>6, <1>7 DEF Next, MainStep, ThreadStep, Environment, Connect, Send, HangUp, Select,
     AcceptClient, RefuseClient, AcceptFails, EndOfList, CleanUpSkip, Reap, ScanSkip, BeginRead, MainRecv,
     MainRecvFails, vars

(* The server starts with no thread. *)
LEMMA InitCount == Init => ThreadCountExact
<1> SUFFICES ASSUME Init PROVE threads = Cardinality(Working) % ThreadMod
  BY DEF ThreadCountExact, Working
<1>1. Working = {} /\ threads = 0
  BY DEF Init, Working, NoThread
<1>2. Cardinality(Working) = 0
  BY <1>1, FS_EmptySet
<1>3. ThreadMod \in Nat \ {0}
  BY ConstantsAssumption
<1> QED
  BY <1>1, <1>2, <1>3

(* m_threads_count is the number of heavy threads, modulo its width, until one
   leaves without reporting its client closed, or goes on after that. *)
THEOREM ThreadsCounted == Spec => []ThreadCountExact
BY InitType, StepType, InitList, StepList, InitReap, StepReap, InitReader, StepReader,
   InitReport, StepReport, InitCount, StepCount, PTL DEF Spec
=============================================================================
