---------------------------- MODULE Broker_proofs ----------------------------
(***************************************************************************)
(* Theorems about the subscriber lists, the list of publications and the   *)
(* threads that work on them, for any number of sockets, workers and       *)
(* topics.                                                                 *)
(***************************************************************************)
EXTENDS Broker, FiniteSetTheorems, FunctionTheorems, SequenceTheorems, TLAPS

-----------------------------------------------------------------------------
(* Lists after erasures.  The place that a kept node moves up to is its rank
   among the kept ones. *)

Rank(K, k) == Cardinality({j \in K : j <= k})

(* A rank is a place in the list that is left. *)
LEMMA RankType ==
  ASSUME NEW K \in SUBSET Nat, IsFiniteSet(K), NEW k \in K
  PROVE  Rank(K, k) \in 1 .. Cardinality(K)
<1> DEFINE B == {j \in K : j <= k}
<1>1. IsFiniteSet(B) /\ Cardinality(B) <= Cardinality(K) /\ Cardinality(B) \in Nat /\ Cardinality(K) \in Nat
  BY FS_Subset, FS_CardinalityType
<1>2. k \in B
  OBVIOUS
<1>3. Cardinality(B) # 0
  BY <1>1, <1>2, FS_EmptySet
<1> QED
  BY <1>1, <1>3 DEF Rank

(* Erasing keeps the order of the nodes. *)
LEMMA RankGrows ==
  ASSUME NEW K \in SUBSET Nat, IsFiniteSet(K), NEW k \in K, NEW l \in K, k < l
  PROVE  Rank(K, k) < Rank(K, l)
<1> DEFINE B == {j \in K : j <= k}
           C == {j \in K : j <= l}
<1>0. \A j \in K : j \in Nat
  OBVIOUS
<1>0a. \A j \in K : j <= k => j <= l
  BY <1>0
<1>0b. l <= l /\ ~(l <= k)
  BY <1>0
<1>1. B \subseteq C /\ l \in C /\ l \notin B /\ C \subseteq K
  BY <1>0a, <1>0b
<1>2. IsFiniteSet(C)
  BY <1>1, FS_Subset
<1>3. IsFiniteSet(B) /\ Cardinality(B) <= Cardinality(C) /\ (Cardinality(B) = Cardinality(C) => B = C)
  BY <1>1, <1>2, FS_Subset
<1>4. Cardinality(B) \in Nat /\ Cardinality(C) \in Nat
  BY <1>2, <1>3, FS_CardinalityType
<1> QED
  BY <1>1, <1>3, <1>4 DEF Rank

(* No two nodes move to one place. *)
LEMMA RankInjective ==
  ASSUME NEW K \in SUBSET Nat, IsFiniteSet(K), NEW k \in K, NEW l \in K, Rank(K, k) = Rank(K, l)
  PROVE  k = l
<1>1. Rank(K, k) \in Int /\ Rank(K, l) \in Int
  BY RankType, FS_CardinalityType
<1>2. k < l => Rank(K, k) < Rank(K, l)
  BY RankGrows
<1>3. l < k => Rank(K, l) < Rank(K, k)
  BY RankGrows
<1> QED
  BY <1>1, <1>2, <1>3

(* Each place in the list that is left is some node's. *)
LEMMA NthNode ==
  ASSUME NEW K \in SUBSET Nat, IsFiniteSet(K), NEW n \in 1 .. Cardinality(K)
  PROVE  Nth(K, n) \in K /\ Rank(K, Nth(K, n)) = n
<1> DEFINE T == 1 .. Cardinality(K)
           f == [k \in K |-> Rank(K, k)]
<1>1. Cardinality(K) \in Nat
  BY FS_CardinalityType
<1>2. IsFiniteSet(T) /\ Cardinality(T) = Cardinality(K)
  BY <1>1, FS_Interval
<1>3. f \in [K -> T] /\ \A k, l \in K : f[k] = f[l] => k = l
  BY RankType, RankInjective
<1>4. f \in Injection(K, T)
  BY <1>3 DEF Injection, IsInjective
<1>5. f \in Surjection(K, T)
  BY <1>2, <1>4, FS_Injection
<1>6. \E k \in K : Rank(K, k) = n
  BY <1>5 DEF Surjection
<1> QED
  BY <1>6 DEF Nth, Rank

(* And a node stands at its rank. *)
LEMMA NthOfRank ==
  ASSUME NEW K \in SUBSET Nat, IsFiniteSet(K), NEW k \in K
  PROVE  Nth(K, Rank(K, k)) = k
<1> DEFINE n == Rank(K, k)
<1>1. n \in 1 .. Cardinality(K)
  BY RankType
<1>2. Nth(K, n) \in K /\ Rank(K, Nth(K, n)) = n
  BY <1>1, NthNode
<1> DEFINE l == Nth(K, n)
<1> HIDE DEF l
<1>3. l \in K /\ Rank(K, l) = Rank(K, k)
  BY <1>2 DEF l
<1>4. l = k
  BY <1>3, RankInjective
<1> QED
  BY <1>4 DEF l

(* A set of places in a list is a finite set of numbers. *)
LEMMA Places ==
  ASSUME NEW n \in Nat, NEW K \in SUBSET (1 .. n)
  PROVE  K \in SUBSET Nat /\ IsFiniteSet(K) /\ Cardinality(K) \in 0 .. n
<1>1. IsFiniteSet(1 .. n) /\ Cardinality(1 .. n) = n
  BY FS_Interval
<1>2. IsFiniteSet(K) /\ Cardinality(K) <= n /\ Cardinality(K) \in Nat
  BY <1>1, FS_Subset, FS_CardinalityType
<1>3. \A k \in K : k \in Nat
  OBVIOUS
<1> QED
  BY <1>2, <1>3

(* What is left of a list is a list of what was in it, in the same order. *)
LEMMA KeptList ==
  ASSUME NEW S, NEW q \in Seq(S), NEW K \in SUBSET (1 .. Len(q))
  PROVE  /\ Kept(q, K) \in Seq(S)
         /\ Len(Kept(q, K)) = Cardinality(K)
         /\ Len(Kept(q, K)) <= Len(q)
         /\ \A i \in 1 .. Cardinality(K) : /\ Nth(K, i) \in K
                                          /\ Rank(K, Nth(K, i)) = i
                                          /\ Kept(q, K)[i] = q[Nth(K, i)]
         /\ \A k \in K : /\ Rank(K, k) \in 1 .. Cardinality(K)
                         /\ Kept(q, K)[Rank(K, k)] = q[k]
<1>1. K \in SUBSET Nat /\ IsFiniteSet(K) /\ Cardinality(K) \in 0 .. Len(q)
  BY Places
<1>2. \A i \in 1 .. Cardinality(K) : Nth(K, i) \in K /\ Rank(K, Nth(K, i)) = i
  BY <1>1, NthNode
<1>3. \A i \in 1 .. Cardinality(K) : q[Nth(K, i)] \in S
  <2>1. \A k \in K : q[k] \in S
    BY ElementOfSeq
  <2> QED
    BY <1>2, <2>1
<1>4. Kept(q, K) \in Seq(S) /\ Len(Kept(q, K)) = Cardinality(K)
  BY <1>1, <1>3 DEF Kept
<1>5. \A i \in 1 .. Cardinality(K) : Kept(q, K)[i] = q[Nth(K, i)]
  BY DEF Kept
<1>6. \A k \in K : Rank(K, k) \in 1 .. Cardinality(K) /\ Nth(K, Rank(K, k)) = k
  BY <1>1, RankType, NthOfRank
<1> QED
  BY <1>1, <1>2, <1>4, <1>5, <1>6

(* An iterator that is moved stands before the nodes it stood before, and
   behind those it stood behind. *)
LEMMA MovedPlace ==
  ASSUME NEW n \in Nat, NEW K \in SUBSET (1 .. n), NEW at \in Nat
  PROVE  /\ Moved(at, K) \in 1 .. Cardinality(K) + 1
         /\ \A k \in K : k < at <=> Rank(K, k) < Moved(at, K)
<1> DEFINE B == {k \in K : k < at}
<1>1. K \in SUBSET Nat /\ IsFiniteSet(K) /\ Cardinality(K) \in Nat
  BY Places
<1>0. \A k \in K : k \in Nat
  OBVIOUS
<1>2. IsFiniteSet(B) /\ Cardinality(B) <= Cardinality(K) /\ Cardinality(B) \in Nat
  BY <1>1, FS_Subset, FS_CardinalityType
<1>3. ASSUME NEW k \in K, k < at PROVE Rank(K, k) <= Cardinality(B)
  <2>0. \A j \in K : j <= k => j < at
    BY <1>0, <1>3
  <2>1. {j \in K : j <= k} \subseteq B
    BY <2>0
  <2> QED
    BY <1>2, <2>1, FS_Subset DEF Rank
<1>4. ASSUME NEW k \in K, ~(k < at) PROVE Cardinality(B) < Rank(K, k)
  <2> DEFINE C == {j \in K : j <= k}
  <2>0. k <= k /\ \A j \in K : j < at => j <= k
    BY <1>0, <1>4
  <2>1. B \subseteq C /\ k \in C /\ k \notin B /\ C \subseteq K
    BY <1>4, <2>0
  <2>2. IsFiniteSet(C) /\ Cardinality(C) \in Nat
    BY <1>1, <2>1, FS_Subset, FS_CardinalityType
  <2>3. Cardinality(B) <= Cardinality(C) /\ (Cardinality(B) = Cardinality(C) => B = C)
    BY <2>1, <2>2, FS_Subset
  <2> QED
    BY <1>2, <2>1, <2>2, <2>3 DEF Rank
<1>5. \A k \in K : Rank(K, k) \in Nat
  BY <1>1, RankType
<1> QED
  BY <1>1, <1>2, <1>3, <1>4, <1>5 DEF Moved

(* Erasing one node moves those behind it up by one place. *)
LEMMA OneErased ==
  ASSUME NEW n \in Nat, NEW e \in 1 .. n, NEW i \in 1 .. n - 1
  PROVE  /\ Cardinality((1 .. n) \ {e}) = n - 1
         /\ Nth((1 .. n) \ {e}, i) = IF i < e THEN i ELSE i + 1
<1> DEFINE K == (1 .. n) \ {e}
           k == IF i < e THEN i ELSE i + 1
<1>1. IsFiniteSet(1 .. n) /\ Cardinality(1 .. n) = n
  BY FS_Interval
<1>2. IsFiniteSet(K) /\ Cardinality(K) = n - 1
  BY <1>1, FS_RemoveElement
<1>3. K \in SUBSET Nat /\ k \in K
  OBVIOUS
<1>4. Rank(K, k) = i
  <2>1. CASE i < e
    <3>1. \A j \in Int : j \in K /\ j <= k <=> j \in 1 .. i
      BY <2>1
    <3>2. {j \in K : j <= k} = 1 .. i
      BY <3>1
    <3>3. Cardinality(1 .. i) = i
      BY FS_Interval
    <3> QED
      BY <3>2, <3>3 DEF Rank
  <2>2. CASE ~(i < e)
    <3>1. \A j \in Int : j \in K /\ j <= k <=> j \in (1 .. i + 1) \ {e}
      BY <2>2
    <3>2. {j \in K : j <= k} = (1 .. i + 1) \ {e}
      BY <3>1
    <3>3. IsFiniteSet(1 .. i + 1) /\ Cardinality(1 .. i + 1) = i + 1 /\ e \in 1 .. i + 1
      BY <2>2, FS_Interval
    <3> DEFINE T == 1 .. i + 1
    <3>4. Cardinality(T \ {e}) = Cardinality(T) - 1
      <4> HIDE DEF T
      <4>1. IsFiniteSet(T) /\ e \in T
        BY <3>3 DEF T
      <4> QED
        BY <4>1, FS_RemoveElement
    <3>5. Rank(K, k) = Cardinality(T \ {e}) /\ Cardinality(T) = i + 1
      BY <3>2, <3>3 DEF Rank
    <3> HIDE DEF T
    <3> QED
      BY <3>4, <3>5
  <2> QED
    BY <2>1, <2>2
<1> HIDE DEF k
<1>5. Nth(K, i) = k
  BY <1>2, <1>3, <1>4, NthOfRank
<1> QED
  BY <1>2, <1>5 DEF k

-----------------------------------------------------------------------------
(* Type correctness.  Callbacks have a socket, iterators a place, and the
   notifier sends a publication that is on its list. *)

Job == [st : Callback, sock : Sock \cup {NoSock}, topic : Topic,
        at : Nat, left : 0 .. Removals, reader : BOOLEAN]
Removed == {"viewers", "stop", "removed"}

Jobs == {j \in Job : /\ j.at > 0
                     /\ j.st # "idle" => j.sock \in Sock
                     /\ j.st \in Removed => j.left > 0}

TypeInv ==
  /\ TypeOK
  /\ \A t \in Topic : Len(subs[t]) <= MaxSubs
  /\ job \in [Worker -> Jobs]
  /\ ntf.at > 0 /\ ntf.k > 0
  /\ ntf.st = "send" => ntf.k <= Len(objects)

(* A worker at rest has a job of the right type. *)
LEMMA RestingType == Resting \in Jobs /\ Resting.at = 1 /\ Resting.st = "idle"
BY BrokerAssumption DEF Resting, Jobs, Job, Removed, Callback, Removals

(* So has one whose iterator is moved, or that goes on to another state. *)
LEMMA JobGoes ==
  ASSUME NEW j \in Jobs, NEW at \in Nat \ {0}
  PROVE  /\ [j EXCEPT !.at = at] \in Jobs
         /\ \A st \in Callback :
              j.st # "idle" /\ (st \in Removed => j.left > 0) =>
                [j EXCEPT !.st = st] \in Jobs /\ [j EXCEPT !.st = st, !.at = at] \in Jobs
<1>1. /\ j \in Job /\ j.at > 0 /\ j.at \in Nat /\ (j.st # "idle" => j.sock \in Sock)
      /\ j.st \in Removed => j.left > 0
  BY DEF Jobs, Job
<1>2. ASSUME NEW k \in Job, k.at = j.at \/ k.at = at, k.sock = j.sock, k.left = j.left,
             k.st = j.st \/ (j.st # "idle" /\ (k.st \in Removed => j.left > 0))
      PROVE  k \in Jobs
  BY <1>1, <1>2 DEF Jobs
<1>3. [j EXCEPT !.at = at] \in Jobs
  <2> DEFINE k == [j EXCEPT !.at = at]
  <2>1. k \in Job /\ k.at = at /\ k.sock = j.sock /\ k.left = j.left /\ k.st = j.st
    BY <1>1 DEF Job
  <2> HIDE DEF k
  <2>2. k \in Jobs
    BY <1>2, <2>1
  <2> QED
    BY <2>2 DEF k
<1>4. ASSUME NEW st \in Callback, j.st # "idle", st \in Removed => j.left > 0
      PROVE  [j EXCEPT !.st = st] \in Jobs /\ [j EXCEPT !.st = st, !.at = at] \in Jobs
  <2> DEFINE k == [j EXCEPT !.st = st]
             l == [j EXCEPT !.st = st, !.at = at]
  <2>1. k \in Job /\ k.at = j.at /\ k.sock = j.sock /\ k.left = j.left /\ k.st = st
    BY <1>1 DEF Job
  <2>2. l \in Job /\ l.at = at /\ l.sock = j.sock /\ l.left = j.left /\ l.st = st
    BY <1>1 DEF Job
  <2> HIDE DEF k, l
  <2>3. k \in Jobs /\ l \in Jobs
    BY <1>2, <1>4, <2>1, <2>2
  <2> QED
    BY <2>3 DEF k, l
<1> QED
  BY <1>3, <1>4

(* The system starts in a state of the right type. *)
LEMMA InitType == Init => TypeInv
<1> SUFFICES ASSUME Init PROVE TypeInv
  OBVIOUS
<1>1. Resting \in Jobs /\ Resting \in Job
  BY RestingType DEF Jobs
<1>2. subs \in [Topic -> Seq(Sock)] /\ \A t \in Topic : Len(subs[t]) = 0
  BY DEF Init
<1>3. job \in [Worker -> Job] /\ job \in [Worker -> Jobs]
  BY <1>1 DEF Init
<1>4. Len(objects) = 0 /\ objects \in Seq([id : 1 .. MaxPub, topic : Topic, published : BOOLEAN])
  BY DEF Init
<1>5. /\ conn \in [Sock -> {"free", "up", "gone", "closed"}]
      /\ out \in [Sock -> 0 .. MaxOut] /\ broken \subseteq Sock /\ alive \in BOOLEAN
      /\ last \in [Sock -> 0 .. MaxPub] /\ owed \subseteq Sock /\ held \in [Sock -> Nat]
      /\ asked \in {"none", "start", "stop"} /\ torn \in BOOLEAN /\ pubs \in 0 .. MaxPub
  <2>1. MaxOut \in Nat /\ MaxPub \in Nat /\ 0 \in 0 .. MaxOut /\ 0 \in 0 .. MaxPub
    BY BrokerAssumption
  <2>2. out = [s \in Sock |-> 0] /\ last = [s \in Sock |-> 0] /\ pubs = 0
    BY DEF Init
  <2>3. out \in [Sock -> 0 .. MaxOut] /\ last \in [Sock -> 0 .. MaxPub] /\ pubs \in 0 .. MaxPub
    BY <2>1, <2>2
  <2> QED
    BY <2>3 DEF Init
<1>6. ntf = [st |-> "wait", k |-> 1, at |-> 1]
  BY DEF Init
<1>7. TypeOK
  BY <1>2, <1>3, <1>4, <1>5, <1>6 DEF TypeOK, Job
<1> QED
  BY <1>1, <1>2, <1>3, <1>4, <1>6, <1>7, BrokerAssumption DEF TypeInv

(* send() keeps the types, whichever way it ends. *)
LEMMA TransmitType ==
  ASSUME TypeOK, NEW s \in Sock, Transmit(s)
  PROVE  /\ conn' \in [Sock -> {"free", "up", "gone", "closed"}] /\ conn' = conn
         /\ out' \in [Sock -> 0 .. MaxOut] /\ broken' \subseteq Sock /\ alive' \in BOOLEAN
<1>1. MaxOut \in Nat
  BY BrokerAssumption
<1>2. CASE conn[s] = "up" /\ out[s] < MaxOut /\ out' = [out EXCEPT ![s] = @ + 1] /\ UNCHANGED <<conn, broken, alive>>
  BY <1>1, <1>2 DEF TypeOK
<1>3. CASE UNCHANGED <<conn, out, alive>> /\ broken' = broken \cup {s}
  BY <1>3 DEF TypeOK
<1>4. CASE UNCHANGED <<conn, out, broken>> /\ alive' \in BOOLEAN
  BY <1>4 DEF TypeOK
<1>5. CASE UNCHANGED sockets
  BY <1>5 DEF TypeOK, sockets
<1> QED
  BY <1>2, <1>3, <1>4, <1>5 DEF Transmit

(* So does erasing nodes of a list. *)
LEMMA EraseType ==
  ASSUME TypeInv, NEW w \in Worker, NEW t \in Topic, NEW K \in SUBSET (1 .. Len(subs[t])),
         NEW next \in Jobs, Erase(w, t, K, next)
  PROVE  /\ subs' \in [Topic -> Seq(Sock)] /\ \A u \in Topic : Len(subs'[u]) <= MaxSubs
         /\ job' \in [Worker -> Jobs]
         /\ ntf' \in [st : {"wait", "scan", "send"}, k : Nat, at : Nat]
         /\ ntf'.at > 0 /\ ntf'.k = ntf.k /\ ntf'.st = ntf.st
         /\ owed' \subseteq Sock /\ torn' \in BOOLEAN /\ alive' \in BOOLEAN
<1>1. subs \in [Topic -> Seq(Sock)] /\ subs[t] \in Seq(Sock) /\ Len(subs[t]) \in Nat /\ MaxSubs \in Nat
  BY BrokerAssumption DEF TypeInv, TypeOK
<1>2. Kept(subs[t], K) \in Seq(Sock) /\ Len(Kept(subs[t], K)) <= Len(subs[t]) /\ Len(Kept(subs[t], K)) \in Nat
  BY <1>1, KeptList, LenProperties
<1>3. subs' = [subs EXCEPT ![t] = Kept(subs[t], K)]
  BY DEF Erase
<1>4. subs' \in [Topic -> Seq(Sock)] /\ \A u \in Topic : Len(subs'[u]) <= MaxSubs
  BY <1>1, <1>2, <1>3 DEF TypeInv, TypeOK
<1>5. ASSUME NEW at \in Nat PROVE Moved(at, K) \in Nat \ {0}
  <2>1. Cardinality(K) \in Nat
    BY <1>1, Places
  <2>2. Moved(at, K) \in 1 .. Cardinality(K) + 1
    BY <1>1, MovedPlace
  <2> QED
    BY <2>1, <2>2
<1>6. ASSUME NEW v \in Worker PROVE [job[v] EXCEPT !.at = Moved(job[v].at, K)] \in Jobs /\ job[v] \in Jobs
  <2>1. job[v] \in Jobs /\ job[v].at \in Nat
    BY DEF TypeInv, Jobs, Job
  <2> QED
    BY <1>5, <2>1, JobGoes
<1>7. job' \in [Worker -> Jobs]
  BY <1>6 DEF Erase
<1>8. /\ ntf' \in [st : {"wait", "scan", "send"}, k : Nat, at : Nat]
      /\ ntf'.at > 0 /\ ntf'.k = ntf.k /\ ntf'.st = ntf.st
  <2>1. ntf \in [st : {"wait", "scan", "send"}, k : Nat, at : Nat] /\ ntf.at > 0 /\ ntf.at \in Nat
    BY DEF TypeInv, TypeOK
  <2>2. Moved(ntf.at, K) \in Nat \ {0}
    BY <1>5, <2>1
  <2>3. ntf' = ntf \/ ntf' = [ntf EXCEPT !.at = Moved(ntf.at, K)]
    BY DEF Erase
  <2> HIDE DEF Moved
  <2> QED
    BY <2>1, <2>2, <2>3
<1>9. owed' \subseteq Sock /\ torn' \in BOOLEAN /\ alive' \in BOOLEAN
  BY DEF Erase, TypeInv, TypeOK
<1> QED
  BY <1>4, <1>7, <1>8, <1>9

(* A finite set of numbers has a least one. *)
LEMMA LeastNumber ==
  ASSUME NEW K \in SUBSET Nat, IsFiniteSet(K), K # {}
  PROVE  \E k \in K : \A m \in K : k <= m
<1>1. Cardinality(K) \in Nat /\ Cardinality(K) # 0
  BY FS_CardinalityType, FS_EmptySet
<1> DEFINE k == Nth(K, 1)
<1>2. k \in K /\ Rank(K, k) = 1
  BY <1>1, NthNode
<1> HIDE DEF k
<1>3. ASSUME NEW m \in K PROVE ~(m < k)
  BY <1>1, <1>2, RankGrows, RankType
<1>4. \A j \in K : j \in Nat
  OBVIOUS
<1> QED
  BY <1>2, <1>3, <1>4

(* The entries of a socket in the subscriber lists are finitely many. *)
LEMMA FiniteEntries ==
  ASSUME NEW s
  PROVE  /\ Entries(s) \subseteq Topic \X (1 .. MaxSubs)
         /\ IsFiniteSet(Entries(s)) /\ Cardinality(Entries(s)) \in Nat
         /\ IsFiniteSet(Entries(s)') /\ Cardinality(Entries(s)') \in Nat
<1>1. IsFiniteSet(Topic) /\ IsFiniteSet(1 .. MaxSubs)
  BY BrokerAssumption, FS_Interval DEF Topic
<1>2. IsFiniteSet(Topic \X (1 .. MaxSubs))
  BY <1>1, FS_Product
<1>3. Entries(s) \subseteq Topic \X (1 .. MaxSubs) /\ Entries(s)' \subseteq Topic \X (1 .. MaxSubs)
  BY DEF Entries
<1> QED
  BY <1>2, <1>3, FS_Subset, FS_CardinalityType

(* remove_subscriber has a first entry to erase when there is one. *)
LEMMA FirstEntry ==
  ASSUME NEW s, Entries(s) # {}
  PROVE  /\ First(s) \in Entries(s)
         /\ First(s)[1] \in Topic /\ First(s)[2] \in 1 .. MaxSubs /\ First(s)[2] <= Len(subs[First(s)[1]])
         /\ subs[First(s)[1]][First(s)[2]] = s
<1> DEFINE T == {t \in Topic : \E i \in 1 .. MaxSubs : <<t, i>> \in Entries(s)}
<1>0. Topics \in Nat /\ MaxSubs \in Nat
  BY BrokerAssumption
<1>1. \A e \in Entries(s) : e \in Topic \X (1 .. MaxSubs) /\ e = <<e[1], e[2]>>
  BY FiniteEntries
<1>2. T # {} /\ T \in SUBSET Nat /\ IsFiniteSet(T)
  <2>1. T # {}
    BY <1>1
  <2>2. T \in SUBSET (1 .. Topics)
    BY DEF Topic
  <2> QED
    BY <1>0, <2>1, <2>2, Places
<1>3. PICK t \in T : \A u \in T : t <= u
  BY <1>2, LeastNumber
<1> DEFINE I == {i \in 1 .. MaxSubs : <<t, i>> \in Entries(s)}
<1>4. I # {} /\ I \in SUBSET Nat /\ IsFiniteSet(I)
  BY <1>0, Places
<1>5. PICK i \in I : \A j \in I : i <= j
  BY <1>4, LeastNumber
<1>6. <<t, i>> \in Entries(s) /\ \A d \in Entries(s) : t < d[1] \/ (t = d[1] /\ i <= d[2])
  <2>1. ASSUME NEW d \in Entries(s) PROVE t < d[1] \/ (t = d[1] /\ i <= d[2])
    <3>1. d[1] \in T /\ d[1] \in Int /\ t \in Int /\ d = <<d[1], d[2]>> /\ d[2] \in 1 .. MaxSubs
      BY <1>1, <1>2
    <3>2. t <= d[1]
      BY <1>3, <3>1
    <3>3. t = d[1] => d[2] \in I
      BY <3>1
    <3>4. t = d[1] => i <= d[2]
      BY <1>5, <3>3
    <3> QED
      BY <3>1, <3>2, <3>4
  <2> QED
    BY <2>1
<1>7. First(s) \in Entries(s)
  <2> DEFINE P(e) == \A d \in Entries(s) : e[1] < d[1] \/ (e[1] = d[1] /\ e[2] <= d[2])
  <2>1. <<t, i>> \in Entries(s) /\ P(<<t, i>>)
    BY <1>6
  <2> HIDE DEF P
  <2>2. (CHOOSE e \in Entries(s) : P(e)) \in Entries(s)
    BY <2>1
  <2> QED
    BY <2>2 DEF First, P
<1> QED
  BY <1>1, <1>7 DEF Entries

(* What any client may ask for, of any topic. *)
Takes(w, s) == \E t \in Topic : Subscribe(w, s, t) \/ Publish(w, s, t)

(* The type invariant holds in every reachable state, whatever the topics are
   that clients subscribe and publish to. *)
LEMMA AnyStepType ==
  ASSUME TypeInv, [Next]_vars \/ \E w \in Worker, s \in Sock : Takes(w, s)
  PROVE  TypeInv'
<1> USE BrokerAssumption
<1>0. /\ TypeOK /\ \A t \in Topic : Len(subs[t]) <= MaxSubs
      /\ job \in [Worker -> Jobs]
      /\ ntf.at > 0 /\ ntf.k > 0 /\ (ntf.st = "send" => ntf.k <= Len(objects))
  BY DEF TypeInv
<1>0a. \A t \in Topic : subs[t] \in Seq(Sock) /\ Len(subs[t]) \in Nat
  BY <1>0, LenProperties DEF TypeOK
<1>1. ASSUME NEW w \in Worker, NEW j \in Jobs, job' = [job EXCEPT ![w] = j]
      PROVE  job' \in [Worker -> Jobs]
  BY <1>0, <1>1
<1>2. ASSUME NEW w \in Worker, NEW st \in Callback, job[w].st # "idle", st \in Removed => job[w].left > 0,
             job' = [job EXCEPT ![w].st = st, ![w].at = 1]
      PROVE  job' \in [Worker -> Jobs]
  <2>1. job[w] \in Jobs
    BY <1>0
  <2>2. [job[w] EXCEPT !.st = st, !.at = 1] \in Jobs
    <3>1. 1 \in Nat \ {0}
      OBVIOUS
    <3>2. job[w].st # "idle" /\ (st \in Removed => job[w].left > 0) => [job[w] EXCEPT !.st = st, !.at = 1] \in Jobs
      BY ONLY <2>1, <3>1, JobGoes, st \in Callback
    <3> QED
      BY <1>2, <3>2
  <2>3. job' = [job EXCEPT ![w] = [job[w] EXCEPT !.st = st, !.at = 1]]
    BY <1>2
  <2> QED
    BY <1>1, <2>2, <2>3
<1>3. (job' \in [Worker -> Jobs] => job' \in [Worker -> Job]) /\ Resting \in Jobs
  BY RestingType DEF Jobs
<1>4. ASSUME NEW w \in Worker, Continue(w) PROVE TypeInv'
  <2>0. /\ job[w] \in Jobs /\ job[w].at \in Nat \ {0} /\ job[w].left \in 0 .. Removals /\ job[w].topic \in Topic
        /\ job[w].st # "idle" => job[w].sock \in Sock
        /\ job[w].st \in Removed => job[w].left > 0
    BY <1>0 DEF Jobs, Job
  <2>1. CASE SendName(w)
    <3>1. job[w].sock \in Sock /\ job[w].st # "idle"
      BY <2>0, <2>1 DEF SendName, At
    <3>2. /\ conn' \in [Sock -> {"free", "up", "gone", "closed"}]
          /\ out' \in [Sock -> 0 .. MaxOut] /\ broken' \subseteq Sock /\ alive' \in BOOLEAN
      BY <1>0, <2>1, <3>1, TransmitType DEF SendName
    <3>3. job' = Goes(w, "start") \/ job' = Goes(w, "unique")
      BY <2>1 DEF SendName
    <3>4. job' \in [Worker -> Jobs]
      BY <1>2, <3>1, <3>3 DEF Goes, Callback, Removed
    <3>5. asked' \in {"none", "start", "stop"} /\ UNCHANGED <<subs, objects, pubs, ntf, torn, last, owed, held>>
      BY <1>0, <2>1 DEF SendName, TypeOK
    <3> QED
      BY <1>0, <1>3, <3>2, <3>4, <3>5 DEF TypeInv, TypeOK, Job
  <2>2. CASE SendOrder(w)
    <3>1. Order(w) \in Topic /\ job[w].st # "idle"
      BY <2>2 DEF SendOrder, Order, Ordering
    <3>2. subs[Order(w)][job[w].at] \in Sock
      BY <1>0a, <2>0, <2>2, <3>1, ElementOfSeq DEF SendOrder
    <3>3. /\ conn' \in [Sock -> {"free", "up", "gone", "closed"}]
          /\ out' \in [Sock -> 0 .. MaxOut] /\ broken' \subseteq Sock /\ alive' \in BOOLEAN
      BY <1>0, <2>2, <3>2, TransmitType DEF SendOrder
    <3>4. job' \in [Worker -> Jobs]
      <4> DEFINE n == job[w].at + 1
      <4>0. n \in Nat \ {0}
        BY <2>0
      <4> HIDE DEF n
      <4>1. [job[w] EXCEPT !.at = n] \in Jobs
        BY ONLY <2>0, <4>0, JobGoes
      <4> QED
        BY <1>1, <2>2, <4>1 DEF SendOrder, n
    <3>5. UNCHANGED <<subs, objects, pubs, ntf, torn, last, owed, held, asked>>
      BY <2>2 DEF SendOrder, history
    <3> QED
      BY <1>0, <1>3, <3>3, <3>4, <3>5 DEF TypeInv, TypeOK, Job
  <2>3. CASE MakeUnique(w)
    <3> DEFINE t == job[w].topic
               K == Unique(subs[t])
               next == [job[w] EXCEPT !.st = "reply"]
    <3>1. t \in Topic /\ K \in SUBSET (1 .. Len(subs[t]))
      BY <2>0 DEF Unique
    <3>1a. next \in Jobs
      BY <2>0, <2>3, JobGoes DEF MakeUnique, At, Callback, Removed
    <3>2. Erase(w, t, K, next)
      BY <2>3 DEF MakeUnique
    <3>3. UNCHANGED <<conn, out, broken, objects, pubs, last, held, asked>>
      BY <2>3 DEF MakeUnique
    <3> HIDE DEF t, K, next
    <3>4. /\ subs' \in [Topic -> Seq(Sock)] /\ \A u \in Topic : Len(subs'[u]) <= MaxSubs
          /\ job' \in [Worker -> Jobs]
          /\ ntf' \in [st : {"wait", "scan", "send"}, k : Nat, at : Nat]
          /\ ntf'.at > 0 /\ ntf'.k = ntf.k /\ ntf'.st = ntf.st
          /\ owed' \subseteq Sock /\ torn' \in BOOLEAN /\ alive' \in BOOLEAN
      BY <3>1, <3>1a, <3>2, EraseType
    <3> QED
      BY <1>0, <1>3, <3>3, <3>4 DEF TypeInv, TypeOK, Job
  <2>4. CASE RemoveFirst(w)
    <3> DEFINE e == First(job[w].sock)
               t == e[1]
               K == (1 .. Len(subs[t])) \ {e[2]}
               next == [job[w] EXCEPT !.st = IF t = View THEN "viewers" ELSE "removed"]
    <3>1. t \in Topic
      BY <2>4, FirstEntry DEF RemoveFirst
    <3>2. K \in SUBSET (1 .. Len(subs[t])) /\ next \in Jobs
      <4>1. job[w].st # "idle" /\ job[w].left > 0
        BY <2>4 DEF RemoveFirst, At
      <4>2. "viewers" \in Callback /\ "removed" \in Callback
        BY DEF Callback
      <4> QED
        BY <2>0, <4>1, <4>2, JobGoes
    <3>3. Erase(w, t, K, next)
      BY <2>4 DEF RemoveFirst
    <3>4. UNCHANGED <<conn, out, broken, objects, pubs, last, held, asked>>
      BY <2>4 DEF RemoveFirst
    <3> HIDE DEF t, K, next
    <3>5. /\ subs' \in [Topic -> Seq(Sock)] /\ \A u \in Topic : Len(subs'[u]) <= MaxSubs
          /\ job' \in [Worker -> Jobs]
          /\ ntf' \in [st : {"wait", "scan", "send"}, k : Nat, at : Nat]
          /\ ntf'.at > 0 /\ ntf'.k = ntf.k /\ ntf'.st = ntf.st
          /\ owed' \subseteq Sock /\ torn' \in BOOLEAN /\ alive' \in BOOLEAN
      BY <3>1, <3>2, <3>3, EraseType
    <3> QED
      BY <1>0, <1>3, <3>4, <3>5 DEF TypeInv, TypeOK, Job
  <2>5. CASE Reply(w)
    <3>1. job[w].sock \in Sock
      BY <2>0, <2>5 DEF Reply, At
    <3>2. /\ conn' \in [Sock -> {"free", "up", "gone", "closed"}]
          /\ out' \in [Sock -> 0 .. MaxOut] /\ broken' \subseteq Sock /\ alive' \in BOOLEAN
      BY <1>0, <2>5, <3>1, TransmitType DEF Reply
    <3>3. job' \in [Worker -> Jobs]
      BY <1>1, <1>3, <2>5 DEF Reply
    <3>4. UNCHANGED <<subs, objects, pubs, ntf, torn, last, owed, held, asked>>
      BY <2>5 DEF Reply, history
    <3> QED
      BY <1>0, <1>3, <3>2, <3>3, <3>4 DEF TypeInv, TypeOK, Job
  <2>6. CASE OrderSent(w) \/ NoneToRemove(w) \/ CheckViewers(w)
    <3>1. job[w].st # "idle" /\ (job[w].st = "start" \/ job[w].left > 0)
      BY <2>0, <2>6 DEF OrderSent, Ordering, NoneToRemove, CheckViewers, At, Removed
    <3>2. \/ job' = Goes(w, "unique")
          \/ job[w].st # "start" /\ (job' = Goes(w, "stop") \/ job' = Goes(w, "removed"))
      BY <2>6 DEF OrderSent, NoneToRemove, CheckViewers, At
    <3>3. job' \in [Worker -> Jobs]
      BY <1>2, <3>1, <3>2 DEF Goes, Callback, Removed
    <3>4. /\ asked' \in {"none", "start", "stop"}
          /\ UNCHANGED <<conn, out, broken, alive, subs, objects, pubs, ntf, torn, last, owed, held>>
      BY <1>0, <2>6 DEF OrderSent, NoneToRemove, CheckViewers, TypeOK, sockets, history
    <3> QED
      BY <1>0, <1>3, <3>3, <3>4 DEF TypeInv, TypeOK, Job
  <2>7. CASE RemovalDone(w)
    <3>1. job' \in [Worker -> Jobs]
      <4>1. [job[w] EXCEPT !.st = "remove", !.left = job[w].left - 1] \in Jobs
        <5> DEFINE k == [job[w] EXCEPT !.st = "remove", !.left = job[w].left - 1]
        <5>1. job[w].left > 0 /\ job[w].sock \in Sock /\ job[w] \in Job
          BY <2>0, <2>7 DEF RemovalDone, At, Removed, Jobs
        <5>1a. job[w].left - 1 \in 0 .. Removals
          BY <2>0, <5>1 DEF Removals
        <5>2. k \in Job /\ k.at = job[w].at /\ k.sock = job[w].sock /\ k.st = "remove"
          BY <5>1, <5>1a DEF Job, Callback
        <5> HIDE DEF k
        <5>3. k \in Jobs
          BY <2>0, <5>1, <5>2 DEF Jobs, Removed
        <5> QED
          BY <5>3 DEF k
      <4> QED
        BY <1>1, <2>7, <4>1 DEF RemovalDone
    <3>2. UNCHANGED <<conn, out, broken, alive, subs, objects, pubs, ntf, torn, last, owed, held, asked>>
      BY <2>7 DEF RemovalDone, sockets, history
    <3> QED
      BY <1>0, <1>3, <3>1, <3>2 DEF TypeInv, TypeOK, Job
  <2>8. CASE MarkClosed(w)
    <3>1. job' \in [Worker -> Jobs]
      BY <1>1, <1>3, <2>8 DEF MarkClosed
    <3>2. conn' \in [Sock -> {"free", "up", "gone", "closed"}]
      BY <1>0, <2>8 DEF MarkClosed, TypeOK
    <3>3. UNCHANGED <<out, broken, alive, subs, objects, pubs, ntf, torn, last, owed, held, asked>>
      BY <2>8 DEF MarkClosed, history
    <3> QED
      BY <1>0, <1>3, <3>1, <3>2, <3>3 DEF TypeInv, TypeOK, Job
  <2> QED
    BY <1>4, <2>1, <2>2, <2>3, <2>4, <2>5, <2>6, <2>7, <2>8 DEF Continue
<1>5. ASSUME NEW w \in Worker, NEW s \in Sock, Begin(w, s) \/ Takes(w, s) PROVE TypeInv'
  <2>0. Resting \in Job /\ Resting.at = 1
    BY <1>3, RestingType DEF Jobs
  <2>1. ASSUME NEW j \in Job, j.at = 1, j.sock = s, j.st \notin Removed, job' = [job EXCEPT ![w] = j]
        PROVE  job' \in [Worker -> Jobs]
    <3>1. j \in Jobs
      BY <2>1 DEF Jobs
    <3> QED
      BY <1>1, <2>1, <3>1
  <2>2. ASSUME NEW t \in Topic, Subscribe(w, s, t) PROVE TypeInv'
    <3>1. t \in Topic /\ subs' = [subs EXCEPT ![t] = Append(subs[t], s)] /\ Len(subs[t]) < MaxSubs
      BY <2>2 DEF Subscribe
    <3>2. Append(subs[t], s) \in Seq(Sock) /\ Len(Append(subs[t], s)) = Len(subs[t]) + 1
      BY <1>0a, <3>1
    <3> DEFINE q == Append(subs[t], s)
    <3>3. q \in Seq(Sock) /\ Len(q) <= MaxSubs /\ subs' = [subs EXCEPT ![t] = q]
      BY <1>0a, <3>1, <3>2
    <3> HIDE DEF q
    <3>4. subs' \in [Topic -> Seq(Sock)] /\ \A u \in Topic : Len(subs'[u]) <= MaxSubs
      BY <1>0, <3>1, <3>3 DEF TypeOK
    <3>5. job' \in [Worker -> Jobs]
      <4> DEFINE j == [Resting EXCEPT !.st = "name", !.sock = s, !.topic = t, !.reader = TRUE]
      <4>1. j \in Job /\ j.at = 1 /\ j.sock = s /\ j.st = "name"
        BY <2>0, <3>1 DEF Job, Callback
      <4>2. job' = [job EXCEPT ![w] = j]
        BY <2>2 DEF Subscribe
      <4> HIDE DEF j
      <4> QED
        BY <2>1, <4>1, <4>2 DEF Removed
    <3>6. UNCHANGED <<conn, out, broken, alive, objects, pubs, ntf, torn, last, owed, held, asked>>
      BY <2>2 DEF Subscribe, sockets, history
    <3> QED
      BY <1>0, <1>3, <3>4, <3>5, <3>6 DEF TypeInv, TypeOK, Job
  <2>3. ASSUME NEW t \in Topic, Publish(w, s, t) PROVE TypeInv'
    <3> DEFINE o == [id |-> pubs + 1, topic |-> t, published |-> FALSE]
               Obj == [id : 1 .. MaxPub, topic : Topic, published : BOOLEAN]
    <3>1. pubs + 1 \in 0 .. MaxPub /\ o \in Obj /\ pubs' = pubs + 1
      BY <1>0, <2>3 DEF Publish, TypeOK
    <3> HIDE DEF o
    <3>2. objects' = Append(objects, o) /\ objects \in Seq(Obj)
      BY <1>0, <2>3 DEF Publish, Queued, TypeOK, o
    <3>3. objects' \in Seq(Obj) /\ Len(objects') = Len(objects) + 1 /\ Len(objects) \in Nat
      BY <3>1, <3>2
    <3>4. UNCHANGED <<conn, out, broken, alive, subs, job, ntf, torn, last, owed, held, asked>>
      BY <2>3 DEF Publish, sockets, history
    <3>5. ntf'.st = "send" => ntf'.k <= Len(objects')
      BY <1>0, <3>3, <3>4 DEF TypeOK
    <3> QED
      BY <1>0, <1>3, <3>1, <3>3, <3>4, <3>5 DEF TypeInv, TypeOK, Job
  <2>4. CASE NoAction(w, s) \/ HungUp(w, s) \/ HungUpAgain(w, s)
    <3> DEFINE j == [Resting EXCEPT !.st = "reply", !.sock = s, !.reader = TRUE]
               k == [Resting EXCEPT !.st = "remove", !.sock = s, !.left = Removals, !.reader = TRUE]
               l == [Resting EXCEPT !.st = "remove", !.sock = s, !.left = Removals, !.reader = FALSE]
    <3>1. j \in Job /\ j.at = 1 /\ j.sock = s /\ j.st = "reply"
      BY <2>0 DEF Job, Callback
    <3>2. k \in Job /\ k.at = 1 /\ k.sock = s /\ k.st = "remove"
      BY <2>0, 2 \in 0 .. 2 DEF Job, Callback, Removals
    <3>3. l \in Job /\ l.at = 1 /\ l.sock = s /\ l.st = "remove"
      BY <2>0, 2 \in 0 .. 2 DEF Job, Callback, Removals
    <3>4. job' = [job EXCEPT ![w] = j] \/ job' = [job EXCEPT ![w] = k] \/ job' = [job EXCEPT ![w] = l]
      BY <1>0, <2>4 DEF NoAction, HungUp, HungUpAgain, Starts
    <3> HIDE DEF j, k, l
    <3>5. job' \in [Worker -> Jobs]
      BY <2>1, <3>1, <3>2, <3>3, <3>4 DEF Removed
    <3>6. held' \in [Sock -> Nat]
      <4>1. held \in [Sock -> Nat] /\ Cardinality(Entries(s)) \in Nat
        BY <1>0, FiniteEntries DEF TypeOK
      <4>2. held' = held \/ held' = [held EXCEPT ![s] = Cardinality(Entries(s))]
        BY <2>4 DEF NoAction, HungUp, HungUpAgain, history
      <4> QED
        BY <4>1, <4>2
    <3>7. UNCHANGED <<conn, out, broken, alive, subs, objects, pubs, ntf, torn, last, owed, asked>>
      BY <2>4 DEF NoAction, HungUp, HungUpAgain, sockets, history
    <3> QED
      BY <1>0, <1>3, <3>5, <3>6, <3>7 DEF TypeInv, TypeOK, Job
  <2> QED
    BY <1>5, <2>2, <2>3, <2>4 DEF Begin, Takes
<1>6. ASSUME NEW s \in Sock, NewClient(s) \/ CleanUp(s) \/ Peer(s) PROVE TypeInv'
  <2>1. 1 \in 0 .. MaxOut /\ 0 \in 0 .. MaxOut /\ 0 \in 0 .. MaxPub
    OBVIOUS
  <2>2. UNCHANGED <<alive, subs, objects, pubs, job, ntf, torn, owed, asked>>
    BY <1>6 DEF NewClient, CleanUp, Peer, PeerReads, PeerHangsUp, history
  <2>3. CASE NewClient(s)
    <3>1. /\ conn' \in [Sock -> {"free", "up", "gone", "closed"}] /\ out' \in [Sock -> 0 .. MaxOut]
          /\ last' \in [Sock -> 0 .. MaxPub] /\ held' \in [Sock -> Nat] /\ broken' = broken
      BY <1>0, <2>1, <2>3 DEF NewClient, TypeOK
    <3> QED
      BY <1>0, <2>2, <3>1 DEF TypeInv, TypeOK
  <2>4. CASE CleanUp(s) \/ Peer(s)
    <3>1. /\ conn' \in [Sock -> {"free", "up", "gone", "closed"}] /\ broken' \subseteq Sock
          /\ last' = last /\ held' = held
      BY <1>0, <2>1, <2>4 DEF CleanUp, Peer, PeerReads, PeerHangsUp, TypeOK, history
    <3>2. out' \in [Sock -> 0 .. MaxOut]
      <4>1. out \in [Sock -> 0 .. MaxOut]
        BY <1>0 DEF TypeOK
      <4>2. \/ out' = out
            \/ out' = [out EXCEPT ![s] = 0]
            \/ out[s] > 0 /\ out' = [out EXCEPT ![s] = out[s] - 1]
        BY <2>4 DEF CleanUp, Peer, PeerReads, PeerHangsUp
      <4> QED
        BY <2>1, <4>1, <4>2
    <3> QED
      BY <1>0, <2>2, <3>1, <3>2 DEF TypeInv, TypeOK
  <2> QED
    BY <1>6, <2>3, <2>4
<1>7. CASE NotifierStep
  <2> DEFINE Obj == [id : 1 .. MaxPub, topic : Topic, published : BOOLEAN]
             Ntf == [st : {"wait", "scan", "send"}, k : Nat, at : Nat]
  <2>0. ntf \in Ntf /\ ntf.k \in Nat /\ ntf.at \in Nat /\ objects \in Seq(Obj) /\ Len(objects) \in Nat
    BY <1>0, LenProperties DEF TypeOK
  <2>0a. ntf.at > 0 /\ ntf.k > 0
    BY <1>0
  <2>1. CASE Wake \/ EndOfObjects
    <3>1. ntf' \in Ntf /\ ntf'.at > 0 /\ ntf'.k > 0 /\ ntf'.st # "send"
      <4>1. ntf' = [ntf EXCEPT !.st = "wait"] \/ ntf' = [ntf EXCEPT !.st = "scan", !.k = 1]
        BY <2>1 DEF Wake, EndOfObjects
      <4>2. CASE ntf' = [ntf EXCEPT !.st = "wait"]
        <5>1. ntf' \in Ntf /\ ntf'.at = ntf.at /\ ntf'.k = ntf.k /\ ntf'.st = "wait"
          BY <2>0, <4>2
        <5> QED
          BY <2>0a, <5>1
      <4>3. CASE ntf' = [ntf EXCEPT !.st = "scan", !.k = 1]
        <5>1. ntf' \in Ntf /\ ntf'.at = ntf.at /\ ntf'.k = 1 /\ ntf'.st = "scan"
          BY <2>0, <4>3
        <5> QED
          BY <2>0a, <5>1
      <4> QED
        BY <4>1, <4>2, <4>3
    <3>2. UNCHANGED <<conn, out, broken, alive, subs, objects, pubs, job, torn, last, owed, held, asked>>
      BY <2>1 DEF Wake, EndOfObjects, sockets, history
    <3> QED
      BY <1>0, <3>1, <3>2 DEF TypeInv, TypeOK
  <2>2. CASE ErasePublished
    <3>1. ntf' \in Ntf /\ ntf'.at > 0 /\ ntf'.k > 0 /\ ntf'.st # "send"
      BY <1>0, <2>0, <2>2 DEF ErasePublished
    <3>2. objects' \in Seq(Obj)
      BY <2>0, <2>2, KeptList DEF ErasePublished
    <3>3. UNCHANGED <<conn, out, broken, alive, subs, pubs, job, torn, last, owed, held, asked>>
      BY <2>2 DEF ErasePublished, sockets, history
    <3> QED
      BY <1>0, <3>1, <3>2, <3>3 DEF TypeInv, TypeOK
  <2>3. CASE TakeTopic
    <3>1. ntf' \in Ntf /\ ntf'.at > 0 /\ ntf'.k = ntf.k
      <4>1. ntf' = [ntf EXCEPT !.st = "send", !.at = 1]
        BY <2>3 DEF TakeTopic
      <4>2. ntf' \in Ntf /\ ntf'.at = 1 /\ ntf'.k = ntf.k
        BY <2>0, <4>1
      <4> QED
        BY <4>2
    <3>1a. ntf.k \in 1 .. Len(objects) /\ ntf.k <= Len(objects) /\ ntf.k > 0
      BY <1>0, <2>0, <2>3 DEF TakeTopic
    <3>2. objects[ntf.k].topic \in Topic
      <4>1. objects[ntf.k] \in Obj
        BY <2>0, <3>1a, ElementOfSeq
      <4> QED
        BY <4>1
    <3>3. owed' \subseteq Sock
      BY <1>0a, <2>3, <3>2, ElementOfSeq DEF TakeTopic, Listeners
    <3>4. UNCHANGED <<conn, out, broken, alive, subs, objects, pubs, job, torn, last, held, asked>>
      BY <2>3 DEF TakeTopic, sockets
    <3> QED
      BY <1>0, <2>0, <3>1, <3>1a, <3>3, <3>4 DEF TypeInv, TypeOK
  <2>4. CASE SendPublication
    <3> DEFINE s == Audience[ntf.at]
    <3>0. ntf.k \in 1 .. Len(objects)
      BY <1>0, <2>0, <2>4 DEF SendPublication, Sending
    <3>1. objects[ntf.k] \in Obj
      BY <2>0, <3>0, ElementOfSeq
    <3>2. Audience \in Seq(Sock) /\ Len(Audience) \in Nat /\ objects[ntf.k].id \in 0 .. MaxPub
      <4>1. objects[ntf.k].topic \in Topic /\ objects[ntf.k].id \in 1 .. MaxPub
        BY <3>1
      <4> QED
        BY <1>0a, <4>1 DEF Audience
    <3>3. s \in Sock
      BY <1>0, <2>0, <2>4, <3>2, ElementOfSeq DEF SendPublication
    <3>4. /\ Transmit(s) /\ last' = [last EXCEPT ![s] = objects[ntf.k].id] /\ owed' = owed \ {s}
          /\ ntf' = [ntf EXCEPT !.at = @ + 1] /\ UNCHANGED <<subs, objects, pubs, job, torn, held, asked>>
      BY <2>4 DEF SendPublication
    <3> HIDE DEF s
    <3>5. /\ conn' \in [Sock -> {"free", "up", "gone", "closed"}]
          /\ out' \in [Sock -> 0 .. MaxOut] /\ broken' \subseteq Sock /\ alive' \in BOOLEAN
      BY <1>0, <3>3, <3>4, TransmitType
    <3>6. ntf' \in Ntf /\ ntf'.at > 0 /\ ntf'.k = ntf.k /\ ntf'.st = ntf.st
      BY <2>0, <3>4
    <3>7. last' \in [Sock -> 0 .. MaxPub] /\ owed' \subseteq Sock
      BY <1>0, <3>2, <3>3, <3>4 DEF TypeOK
    <3> QED
      BY <1>0, <3>4, <3>5, <3>6, <3>7 DEF TypeInv, TypeOK
  <2>5. CASE SetPublished
    <3>1. ntf' \in Ntf /\ ntf'.at > 0 /\ ntf'.k > 0 /\ ntf'.st # "send"
      <4>1. ntf' = [ntf EXCEPT !.st = "scan", !.k = ntf.k + 1, !.at = 1] /\ ntf.k + 1 \in Nat \ {0}
        BY <2>0, <2>5 DEF SetPublished
      <4> DEFINE n == ntf.k + 1
      <4> HIDE DEF n
      <4>2. ntf' = [ntf EXCEPT !.st = "scan", !.k = n, !.at = 1] /\ n \in Nat \ {0}
        BY <4>1 DEF n
      <4>3. ntf' \in Ntf /\ ntf'.at = 1 /\ ntf'.k = n /\ ntf'.st = "scan"
        BY <2>0, <4>2
      <4> QED
        BY <4>2, <4>3
    <3>1a. ntf.k \in 1 .. Len(objects)
      BY <1>0, <2>0, <2>5 DEF SetPublished, Sending
    <3>2. objects[ntf.k] \in Obj
      BY <2>0, <3>1a, ElementOfSeq
    <3>3. objects' = [objects EXCEPT ![ntf.k] = [objects[ntf.k] EXCEPT !.published = TRUE]]
      BY <2>5 DEF SetPublished
    <3>4. [objects[ntf.k] EXCEPT !.published = TRUE] \in Obj
      BY <3>2
    <3>5. objects' \in Seq(Obj)
      BY <2>0, <3>1a, <3>3, <3>4, ExceptSeq
    <3>6. UNCHANGED <<conn, out, broken, alive, subs, pubs, job, torn, last, owed, held, asked>>
      BY <2>5 DEF SetPublished, sockets, history
    <3> QED
      BY <1>0, <3>1, <3>5, <3>6 DEF TypeInv, TypeOK
  <2> QED
    BY <1>7, <2>1, <2>2, <2>3, <2>4, <2>5 DEF NotifierStep
<1>8. CASE UNCHANGED vars
  BY <1>8 DEF TypeInv, TypeOK, vars, sockets, history
<1> QED
  BY <1>4, <1>5, <1>6, <1>7, <1>8 DEF Next

(* So it does in the broker's own steps. *)
LEMMA StepType == TypeInv /\ [Next]_vars => TypeInv'
BY AnyStepType

(* Every variable keeps its type. *)
THEOREM BrokerTypeCorrect == Spec => []TypeOK
<1>1. TypeInv => TypeOK
  BY DEF TypeInv
<1> QED
  BY <1>1, InitType, StepType, PTL DEF Spec

(* What the scripts of module Scripts do to the server goes beyond Next in two
   ways: a client may ask for any topic, Listened and Published or not, and a
   peer reads several messages at a time. *)
Requests(w, s) == Takes(w, s) \/ NoAction(w, s) \/ HungUp(w, s) \/ HungUpAgain(w, s)
Drains == UNCHANGED <<conn, broken, alive, subs, objects, pubs, job, ntf, torn, history>>
AnyStep ==
  \/ NotifierStep
  \/ \E w \in Worker : Continue(w) \/ \E s \in Sock : Requests(w, s)
  \/ \E s \in Sock : NewClient(s) \/ CleanUp(s) \/ Peer(s)
  \/ Drains

(* The Broker's own clients are among these. *)
LEMMA NextIsAny == [Next]_vars => [AnyStep]_vars
BY BrokerAssumption DEF Next, Begin, AnyStep, Requests, Takes
-----------------------------------------------------------------------------
(* The list of publications.  What the notifier has sent to everybody stands in
   front of what it has not, and it works on the first of the latter, or is at
   the front to erase one of the former. *)

Obj == [id : 1 .. MaxPub, topic : Topic, published : BOOLEAN]
Fronted(q, m) == \A i \in 1 .. Len(q) : q[i].published <=> i <= m
Rest(q, m) == [i \in 1 .. Len(q) - m |-> q[m + i].id]

QueueInv ==
  \E m \in 0 .. Len(objects) :
    /\ Fronted(objects, m)
    /\ ntf.st = "send" => ntf.k = m + 1
    /\ ntf.st = "scan" => ntf.k \in {1, m + 1}

(* The published objects are as many as stand in front. *)
LEMMA CountFront ==
  ASSUME NEW q \in Seq(Obj), NEW m \in 0 .. Len(q), Fronted(q, m)
  PROVE  Cardinality({i \in 1 .. Len(q) : q[i].published}) = m
<1>1. Len(q) \in Nat
  BY LenProperties
<1>2. \A i \in 1 .. Len(q) : q[i].published <=> i \in 1 .. m
  BY <1>1 DEF Fronted
<1>3. 1 .. m \subseteq 1 .. Len(q)
  BY <1>1
<1>4. {i \in 1 .. Len(q) : q[i].published} = 1 .. m
  BY <1>2, <1>3
<1>5. Cardinality(1 .. m) = m
  BY FS_Interval
<1> QED
  BY <1>4, <1>5

(* The rest of a list of publications is a list of numbers. *)
LEMMA RestType ==
  ASSUME NEW q \in Seq(Obj), NEW m \in 0 .. Len(q)
  PROVE  /\ Rest(q, m) \in Seq(Nat) /\ Len(Rest(q, m)) = Len(q) - m
         /\ \A i \in 1 .. Len(q) - m : Rest(q, m)[i] = q[m + i].id
<1>1. Len(q) \in Nat
  BY LenProperties
<1>2. \A i \in 1 .. Len(q) : q[i].id \in Nat
  <2>1. \A i \in 1 .. Len(q) : q[i] \in Obj
    BY ElementOfSeq
  <2>2. \A o \in Obj : o.id \in Nat
    BY BrokerAssumption DEF Obj
  <2> QED
    BY <2>1, <2>2
<1>3. \A i \in 1 .. Len(q) - m : m + i \in 1 .. Len(q)
  BY <1>1
<1>4. \A i \in 1 .. Len(q) - m : q[m + i].id \in Nat
  BY <1>2, <1>3
<1>5. Len(q) - m \in Nat
  BY <1>1
<1> QED
  BY <1>4, <1>5 DEF Rest

(* A new publication goes to the end. *)
LEMMA RestAppended ==
  ASSUME NEW q \in Seq(Obj), NEW m \in 0 .. Len(q), Fronted(q, m), NEW o \in Obj, ~o.published
  PROVE  /\ Append(q, o) \in Seq(Obj) /\ m \in 0 .. Len(Append(q, o)) /\ Fronted(Append(q, o), m)
         /\ Rest(Append(q, o), m) = Append(Rest(q, m), o.id)
<1> DEFINE a == Append(q, o)
<1>1. /\ Len(q) \in Nat /\ a \in Seq(Obj) /\ Len(a) = Len(q) + 1
      /\ \A i \in 1 .. Len(q) : a[i] = q[i]
      /\ a[Len(q) + 1] = o
  BY LenProperties, AppendProperties
<1> HIDE DEF a
<1>2. Fronted(a, m)
  <2>1. ASSUME NEW i \in 1 .. Len(a) PROVE a[i].published <=> i <= m
    <3>1. CASE i \in 1 .. Len(q)
      BY <1>1, <3>1 DEF Fronted
    <3>2. CASE i = Len(q) + 1
      BY <1>1, <3>2
    <3> QED
      BY <1>1, <3>1, <3>2
  <2> QED
    BY <2>1 DEF Fronted
<1>3. m \in 0 .. Len(a)
  BY <1>1
<1>4. o.id \in Nat
  BY BrokerAssumption DEF Obj
<1>5. Rest(a, m) = Append(Rest(q, m), o.id)
  <2> DEFINE r == Rest(q, m)
             b == Append(r, o.id)
             c == Rest(a, m)
  <2>1. r \in Seq(Nat) /\ Len(r) = Len(q) - m /\ \A i \in 1 .. Len(q) - m : r[i] = q[m + i].id
    BY RestType
  <2>2. c \in Seq(Nat) /\ Len(c) = Len(a) - m /\ \A i \in 1 .. Len(a) - m : c[i] = a[m + i].id
    BY <1>1, <1>3, RestType
  <2> HIDE DEF r, c
  <2>3. b \in Seq(Nat) /\ Len(b) = Len(r) + 1 /\ (\A i \in 1 .. Len(r) : b[i] = r[i]) /\ b[Len(r) + 1] = o.id
    BY <1>4, <2>1, AppendProperties
  <2> HIDE DEF b
  <2>n. /\ Len(q) \in Nat /\ m \in 0 .. Len(q) /\ Len(a) = Len(q) + 1
        /\ Len(r) = Len(q) - m /\ Len(b) = Len(r) + 1 /\ Len(c) = Len(a) - m
    BY <1>1, <2>1, <2>2, <2>3
  <2>4. Len(b) = Len(c)
    BY ONLY <2>n
  <2>5. ASSUME NEW i \in 1 .. Len(b) PROVE b[i] = c[i]
    <3>1. i \in 1 .. Len(a) - m /\ (i \in 1 .. Len(r) \/ i = Len(r) + 1)
      BY ONLY <2>n, i \in 1 .. Len(b)
    <3>2. c[i] = a[m + i].id
      BY ONLY <3>1, <2>2
    <3>3. CASE i \in 1 .. Len(r)
      <4>1. m + i \in 1 .. Len(q) /\ i \in 1 .. Len(q) - m
        BY ONLY <2>n, <3>3
      <4>2. b[i] = q[m + i].id
        BY ONLY <2>1, <2>3, <3>3, <4>1
      <4> QED
        BY ONLY <1>1, <3>2, <4>1, <4>2
    <3>4. CASE i = Len(r) + 1
      <4>1. m + i = Len(q) + 1
        BY ONLY <2>n, <3>4
      <4> QED
        BY ONLY <1>1, <2>3, <3>2, <3>4, <4>1
    <3> QED
      BY ONLY <3>1, <3>3, <3>4
  <2>6. b = c
    BY <2>2, <2>3, <2>4, <2>5, SeqEqual
  <2> QED
    BY <2>6 DEF b, c, r
<1> QED
  BY <1>1, <1>2, <1>3, <1>5 DEF a

(* Erasing the object in front leaves the rest alone. *)
LEMMA RestErased ==
  ASSUME NEW q \in Seq(Obj), NEW m \in 1 .. Len(q), Fronted(q, m)
  PROVE  LET a == Kept(q, (1 .. Len(q)) \ {1}) IN
         /\ a \in Seq(Obj) /\ m - 1 \in 0 .. Len(a) /\ Fronted(a, m - 1)
         /\ Rest(a, m - 1) = Rest(q, m)
<1> DEFINE n == Len(q)
           K == (1 .. n) \ {1}
           a == Kept(q, K)
<1>1. n \in Nat /\ 1 \in 1 .. n /\ m \in Nat /\ m <= n /\ m > 0
  BY LenProperties
<1>2. a \in Seq(Obj) /\ Len(a) = Cardinality(K) /\ \A i \in 1 .. Cardinality(K) : a[i] = q[Nth(K, i)]
  BY KeptList
<1>4. ASSUME NEW i \in 1 .. n - 1 PROVE Nth(K, i) = i + 1
  <2>1. Nth(K, i) = IF i < 1 THEN i ELSE i + 1
    BY <1>1, OneErased
  <2> HIDE DEF K
  <2> QED
    BY <1>1, <2>1
<1>5. Cardinality(K) = n - 1
  <2>1. IsFiniteSet(1 .. n) /\ Cardinality(1 .. n) = n
    BY <1>1, FS_Interval
  <2> DEFINE T == 1 .. n
  <2> HIDE DEF T
  <2>2. IsFiniteSet(T) /\ 1 \in T /\ Cardinality(T) = n
    BY <1>1, <2>1 DEF T
  <2>3. Cardinality(T \ {1}) = Cardinality(T) - 1
    BY <2>2, FS_RemoveElement
  <2> QED
    BY <2>2, <2>3 DEF T
<1>6. Len(a) = n - 1 /\ \A i \in 1 .. n - 1 : a[i] = q[i + 1]
  BY <1>2, <1>4, <1>5
<1> HIDE DEF n, a
<1>7. m - 1 \in 0 .. Len(a)
  BY <1>1, <1>6
<1>8. Fronted(a, m - 1)
  <2>1. ASSUME NEW i \in 1 .. Len(a) PROVE a[i].published <=> i <= m - 1
    <3>1. i + 1 \in 1 .. n /\ a[i] = q[i + 1] /\ i \in Nat
      BY <1>1, <1>6
    <3>2. q[i + 1].published <=> i + 1 <= m
      BY <3>1 DEF Fronted, n
    <3> QED
      BY <1>1, <3>1, <3>2
  <2> QED
    BY <2>1 DEF Fronted
<1>9. Rest(a, m - 1) = Rest(q, m)
  <2>1. Len(a) - (m - 1) = n - m
    BY <1>1, <1>6
  <2>2. \A i \in 1 .. n - m : a[(m - 1) + i] = q[m + i]
    <3>1. \A i \in 1 .. n - m : (m - 1) + i \in 1 .. n - 1 /\ ((m - 1) + i) + 1 = m + i
      BY <1>1
    <3> QED
      BY <1>6, <3>1
  <2> QED
    BY <2>1, <2>2 DEF Rest, n
<1> QED
  BY <1>2, <1>7, <1>8, <1>9 DEF a, n

(* Marking the first object of the rest takes it out of the rest. *)
LEMMA RestMarked ==
  ASSUME NEW q \in Seq(Obj), NEW m \in 0 .. Len(q), Fronted(q, m), m + 1 <= Len(q)
  PROVE  LET a == [q EXCEPT ![m + 1].published = TRUE] IN
         /\ a \in Seq(Obj) /\ m + 1 \in 0 .. Len(a) /\ Fronted(a, m + 1)
         /\ Rest(q, m) # <<>> /\ Head(Rest(q, m)) = q[m + 1].id
         /\ Rest(a, m + 1) = Tail(Rest(q, m))
<1> DEFINE n == Len(q)
           k == m + 1
           o == [q[k] EXCEPT !.published = TRUE]
           a == [q EXCEPT ![k] = o]
<1>1. n \in Nat /\ m \in Nat /\ k \in 1 .. n
  BY LenProperties
<1>2. q[k] \in Obj
  BY <1>1, ElementOfSeq
<1>3. o \in Obj /\ o.published
  BY <1>2 DEF Obj
<1> HIDE DEF o
<1>4. a \in Seq(Obj) /\ Len(a) = n /\ \A j \in 1 .. n : a[j] = IF j = k THEN o ELSE q[j]
  BY <1>1, <1>3, ExceptSeq
<1> HIDE DEF a, n
<1>5. Fronted(a, k)
  <2>1. ASSUME NEW i \in 1 .. Len(a) PROVE a[i].published <=> i <= k
    <3>1. CASE i = k
      BY <1>1, <1>3, <1>4, <3>1
    <3>2. CASE i # k
      BY <1>1, <1>4, <3>2 DEF Fronted, n
    <3> QED
      BY <3>1, <3>2
  <2> QED
    BY <2>1 DEF Fronted
<1> DEFINE r == Rest(q, m)
           b == Rest(a, k)
<1>6. r \in Seq(Nat) /\ Len(r) = n - m /\ \A i \in 1 .. n - m : r[i] = q[m + i].id
  BY RestType DEF n
<1>7. b \in Seq(Nat) /\ Len(b) = n - k /\ \A i \in 1 .. n - k : b[i] = a[k + i].id
  <2>1. k \in 0 .. Len(a)
    BY <1>1, <1>4
  <2> QED
    BY <1>4, <2>1, RestType
<1> HIDE DEF r, b
<1>8. r # <<>> /\ Head(r) = r[1] /\ r[1] = q[m + 1].id
  BY <1>1, <1>6, HeadTailProperties
<1>9. /\ Tail(r) \in Seq(Nat) /\ Len(Tail(r)) = Len(r) - 1
      /\ \A i \in 1 .. Len(Tail(r)) : Tail(r)[i] = r[i + 1]
  BY <1>6, <1>8, HeadTailProperties
<1>10. ASSUME NEW i \in 1 .. Len(b) PROVE b[i] = Tail(r)[i]
  <2>1. i \in 1 .. n - k /\ i + 1 \in 1 .. n - m /\ i \in 1 .. Len(Tail(r)) /\ k + i = m + (i + 1) /\ k + i \in 1 .. n /\ k + i # k
    BY <1>1, <1>6, <1>7, <1>9
  <2>2. b[i] = q[k + i].id
    BY <1>4, <1>7, <2>1
  <2>3. Tail(r)[i] = q[k + i].id
    BY <1>6, <1>9, <2>1
  <2> QED
    BY <2>2, <2>3
<1>11. Len(b) = Len(Tail(r))
  BY <1>1, <1>6, <1>7, <1>9
<1>12. b = Tail(r)
  BY <1>7, <1>9, <1>10, <1>11, SeqEqual
<1>13. k \in 0 .. Len(a)
  BY <1>1, <1>4
<1> QED
  BY <1>4, <1>5, <1>8, <1>12, <1>13 DEF a, b, r, o

(* What the refinement mapping makes of the list, before and after a step. *)
LEMMA MappedQueue ==
  ASSUME objects \in Seq(Obj), NEW m \in 0 .. Len(objects), Fronted(objects, m)
  PROVE  Waiting = Rest(objects, m)
BY CountFront DEF Waiting, Sent, Rest

(* The same of the objects as they are after a step. *)
LEMMA MappedQueueAfter ==
  ASSUME objects' \in Seq(Obj), NEW m \in 0 .. Len(objects'), Fronted(objects', m)
  PROVE  Waiting' = Rest(objects', m)
BY CountFront DEF Waiting, Sent, Rest

(* Erasing nodes under the notifier moves its iterator over a list of
   subscribers, not the one over the publications. *)
LEMMA EraseKeepsPublication ==
  ASSUME TypeOK, NEW w, NEW t, NEW K, NEW next, Erase(w, t, K, next)
  PROVE  ntf'.st = ntf.st /\ ntf'.k = ntf.k
BY DEF Erase, TypeOK

(* The callbacks, and the peers, leave the notifier and its list alone, except
   that a client may publish. *)
LEMMA OthersKeepQueue ==
  ASSUME TypeOK,
         \/ \E w \in Worker : Continue(w)
         \/ \E w \in Worker, s \in Sock : NoAction(w, s) \/ HungUp(w, s) \/ HungUpAgain(w, s)
         \/ \E w \in Worker, s \in Sock, t \in Topic : Subscribe(w, s, t)
         \/ \E s \in Sock : CleanUp(s) \/ Peer(s)
  PROVE  objects' = objects /\ pubs' = pubs /\ last' = last /\ ntf'.st = ntf.st /\ ntf'.k = ntf.k
<1>1. ASSUME NEW w \in Worker, MakeUnique(w) \/ RemoveFirst(w)
      PROVE  objects' = objects /\ pubs' = pubs /\ last' = last /\ ntf'.st = ntf.st /\ ntf'.k = ntf.k
  BY <1>1, EraseKeepsPublication DEF MakeUnique, RemoveFirst
<1>2. CASE UNCHANGED <<objects, pubs, last, ntf>>
  BY <1>2
<1> QED
  BY <1>1, <1>2 DEF Continue, SendName, SendOrder, OrderSent, Reply, NoneToRemove, CheckViewers, RemovalDone,
     MarkClosed, Subscribe, NoAction, HungUp, HungUpAgain, CleanUp, Peer, PeerReads, PeerHangsUp, history

(* The invariant holds in every reachable state, and every step is a step of
   the queue, or leaves it alone. *)
LEMMA StepQueue ==
  ASSUME TypeInv, TypeInv', QueueInv, [AnyStep]_vars
  PROVE  QueueInv' /\ [Dispatch!Next]_(Dispatch!vars)
<1>0. /\ objects \in Seq(Obj) /\ objects' \in Seq(Obj) /\ Len(objects) \in Nat /\ Len(objects') \in Nat /\ pubs \in Nat
      /\ TypeOK /\ ntf.st \in {"wait", "scan", "send"} /\ ntf.k \in Nat \ {0} /\ (ntf.st = "send" => ntf.k <= Len(objects))
  <2>1. TypeOK /\ TypeOK' /\ ntf.k > 0 /\ (ntf.st = "send" => ntf.k <= Len(objects))
    BY DEF TypeInv
  <2>2. objects \in Seq(Obj) /\ objects' \in Seq(Obj) /\ pubs \in 0 .. MaxPub
    BY <2>1 DEF TypeOK, Obj
  <2>3. ntf.st \in {"wait", "scan", "send"} /\ ntf.k \in Nat
    BY <2>1 DEF TypeOK
  <2> QED
    BY <2>1, <2>2, <2>3, LenProperties
<1>1. PICK m \in 0 .. Len(objects) : /\ Fronted(objects, m)
                                     /\ ntf.st = "send" => ntf.k = m + 1
                                     /\ ntf.st = "scan" => ntf.k \in {1, m + 1}
  BY DEF QueueInv
<1>2. Waiting = Rest(objects, m)
  BY <1>0, <1>1, MappedQueue
<1>3. ASSUME objects' = objects PROVE Waiting' = Waiting
  BY <1>3 DEF Waiting, Sent
<1>4. ASSUME objects' = objects, pubs' = pubs, last' = last, ntf'.st = ntf.st, ntf'.k = ntf.k
      PROVE  QueueInv' /\ [Dispatch!Next]_(Dispatch!vars)
  BY <1>1, <1>3, <1>4 DEF QueueInv, Dispatch!vars
<1>5. ASSUME NEW w \in Worker, Continue(w) PROVE QueueInv' /\ [Dispatch!Next]_(Dispatch!vars)
  <2>1. objects' = objects /\ pubs' = pubs /\ last' = last /\ ntf'.st = ntf.st /\ ntf'.k = ntf.k
    BY <1>0, <1>5, OthersKeepQueue
  <2> QED
    BY <1>4, <2>1
<1>6. ASSUME NEW w \in Worker, NEW s \in Sock, Requests(w, s) PROVE QueueInv' /\ [Dispatch!Next]_(Dispatch!vars)
  <2>1. ASSUME NEW t \in Topic, Publish(w, s, t) PROVE QueueInv' /\ [Dispatch!Next]_(Dispatch!vars)
    <3> DEFINE o == [id |-> pubs + 1, topic |-> t, published |-> FALSE]
    <3>1. o \in Obj /\ ~o.published /\ o.id = pubs + 1
      BY <1>0, <2>1, BrokerAssumption DEF Publish, Obj
    <3>2. objects' = Append(objects, o) /\ pubs' = pubs + 1 /\ UNCHANGED <<ntf, last>>
      BY <2>1 DEF Publish, Queued, history
    <3> HIDE DEF o
    <3>3. /\ m \in 0 .. Len(objects') /\ Fronted(objects', m)
          /\ Rest(objects', m) = Append(Rest(objects, m), o.id)
      BY <1>0, <1>1, <3>1, <3>2, RestAppended
    <3>4. QueueInv'
      BY <1>1, <3>2, <3>3 DEF QueueInv
    <3>5. Waiting' = Append(Waiting, pubs + 1)
      BY <1>0, <1>2, <3>1, <3>3, MappedQueueAfter
    <3>6. Dispatch!Enqueue
      BY <3>2, <3>5 DEF Dispatch!Enqueue
    <3> QED
      BY <3>4, <3>6 DEF Dispatch!Next
  <2>2. CASE \/ \E t \in Topic : Subscribe(w, s, t)
             \/ NoAction(w, s) \/ HungUp(w, s) \/ HungUpAgain(w, s)
    <3>1. objects' = objects /\ pubs' = pubs /\ last' = last /\ ntf'.st = ntf.st /\ ntf'.k = ntf.k
      BY <1>0, <2>2, OthersKeepQueue
    <3> QED
      BY <1>4, <3>1
  <2> QED
    BY <1>6, <2>1, <2>2 DEF Requests, Takes
<1>7. ASSUME NEW s \in Sock, NewClient(s) PROVE QueueInv' /\ [Dispatch!Next]_(Dispatch!vars)
  <2>1. UNCHANGED <<objects, pubs, ntf>> /\ last' = [last EXCEPT ![s] = 0]
    BY <1>7 DEF NewClient
  <2>2. QueueInv'
    BY <1>1, <2>1 DEF QueueInv
  <2>3. Dispatch!Renew(s)
    BY <1>3, <2>1 DEF Dispatch!Renew
  <2> QED
    BY <2>2, <2>3 DEF Dispatch!Next
<1>8. ASSUME NEW s \in Sock, CleanUp(s) \/ Peer(s) PROVE QueueInv' /\ [Dispatch!Next]_(Dispatch!vars)
  <2>1. objects' = objects /\ pubs' = pubs /\ last' = last /\ ntf'.st = ntf.st /\ ntf'.k = ntf.k
    BY <1>0, <1>8, OthersKeepQueue, BrokerAssumption
  <2> QED
    BY <1>4, <2>1
<1>9. CASE Wake \/ EndOfObjects
  <2>1. /\ UNCHANGED <<objects, pubs, last>>
        /\ ntf' = [ntf EXCEPT !.st = "wait"] \/ ntf' = [ntf EXCEPT !.st = "scan", !.k = 1]
    BY <1>9 DEF Wake, EndOfObjects, history
  <2>2. ntf'.st = "wait" \/ (ntf'.st = "scan" /\ ntf'.k = 1)
    BY <1>0, <2>1 DEF TypeOK
  <2>3. QueueInv'
    BY <1>1, <2>1, <2>2 DEF QueueInv
  <2> QED
    BY <1>3, <2>1, <2>3 DEF Dispatch!vars
<1>10. CASE ErasePublished
  <2>1. /\ ntf.st = "scan" /\ ntf.k <= Len(objects) /\ objects[ntf.k].published
        /\ objects' = Kept(objects, (1 .. Len(objects)) \ {ntf.k})
        /\ ntf' = [ntf EXCEPT !.st = "wait"] /\ UNCHANGED <<pubs, last>>
    BY <1>10 DEF ErasePublished, Scanning, history
  <2>2. ntf.k = 1 /\ m \in 1 .. Len(objects)
    BY <1>0, <1>1, <2>1 DEF Fronted
  <2>3. /\ m - 1 \in 0 .. Len(objects') /\ Fronted(objects', m - 1)
        /\ Rest(objects', m - 1) = Rest(objects, m)
    BY <1>0, <1>1, <2>1, <2>2, RestErased
  <2>4. ntf'.st = "wait"
    BY <1>0, <2>1 DEF TypeOK
  <2>5. QueueInv'
    BY <2>3, <2>4 DEF QueueInv
  <2>6. Waiting' = Waiting
    BY <1>0, <1>2, <2>3, MappedQueueAfter
  <2> QED
    BY <2>1, <2>5, <2>6 DEF Dispatch!vars
<1>11. CASE TakeTopic
  <2>1. /\ ntf.st = "scan" /\ ntf.k <= Len(objects) /\ ~objects[ntf.k].published
        /\ ntf' = [ntf EXCEPT !.st = "send", !.at = 1] /\ UNCHANGED <<objects, pubs, last>>
    BY <1>11 DEF TakeTopic, Scanning
  <2>2. ntf.k = m + 1
    BY <1>0, <1>1, <2>1 DEF Fronted
  <2>3. ntf'.st = "send" /\ ntf'.k = ntf.k
    BY <1>0, <2>1 DEF TypeOK
  <2>4. QueueInv'
    BY <1>1, <2>1, <2>2, <2>3 DEF QueueInv
  <2> QED
    BY <1>3, <2>1, <2>4 DEF Dispatch!vars
<1>12. CASE SendPublication
  <2> DEFINE s == Audience[ntf.at]
  <2>1. /\ ntf.st = "send" /\ ntf.at <= Len(Audience)
        /\ last' = [last EXCEPT ![s] = objects[ntf.k].id]
        /\ ntf' = [ntf EXCEPT !.at = @ + 1] /\ UNCHANGED <<objects, pubs>>
    BY <1>12 DEF SendPublication, Sending
  <2>2. s \in Sock
    <3>1. ntf.k \in 1 .. Len(objects)
      BY <1>0, <2>1
    <3>2. objects[ntf.k] \in Obj
      BY <1>0, <3>1, ElementOfSeq
    <3>3. objects[ntf.k].topic \in Topic
      BY <3>2 DEF Obj
    <3>4. Audience \in Seq(Sock) /\ ntf.at \in Nat /\ ntf.at > 0
      BY <3>3 DEF TypeInv, TypeOK, Audience
    <3> QED
      BY <2>1, <3>4, ElementOfSeq, LenProperties
  <2> HIDE DEF s
  <2>3. ntf'.st = ntf.st /\ ntf'.k = ntf.k
    BY <1>0, <2>1 DEF TypeOK
  <2>4. QueueInv'
    BY <1>1, <2>1, <2>3 DEF QueueInv
  <2>5. m + 1 <= Len(objects) /\ ntf.k = m + 1
    BY <1>0, <1>1, <2>1
  <2>6. Waiting # <<>> /\ Head(Waiting) = objects[ntf.k].id
    BY <1>0, <1>1, <1>2, <2>5, RestMarked
  <2>7. Dispatch!Send(s)
    BY <1>3, <2>1, <2>6 DEF Dispatch!Send
  <2> QED
    BY <2>2, <2>4, <2>7 DEF Dispatch!Next
<1>13. CASE SetPublished
  <2>1. /\ ntf.st = "send" /\ objects' = [objects EXCEPT ![ntf.k].published = TRUE]
        /\ ntf' = [ntf EXCEPT !.st = "scan", !.k = @ + 1, !.at = 1] /\ UNCHANGED <<pubs, last>>
    BY <1>13 DEF SetPublished, Sending, history
  <2>2. m + 1 <= Len(objects) /\ ntf.k = m + 1
    BY <1>0, <1>1, <2>1
  <2>3. ntf'.st = "scan" /\ ntf'.k = (m + 1) + 1
    BY <1>0, <2>1, <2>2 DEF TypeOK
  <2>4. /\ m + 1 \in 0 .. Len(objects') /\ Fronted(objects', m + 1)
        /\ Rest(objects, m) # <<>> /\ Rest(objects', m + 1) = Tail(Rest(objects, m))
    BY <1>0, <1>1, <2>1, <2>2, RestMarked
  <2>5. QueueInv'
    BY <2>3, <2>4 DEF QueueInv
  <2>6. Waiting # <<>> /\ Waiting' = Tail(Waiting)
    BY <1>0, <1>2, <2>4, MappedQueueAfter
  <2>7. Dispatch!Finish
    BY <2>1, <2>6 DEF Dispatch!Finish
  <2> QED
    BY <2>5, <2>7 DEF Dispatch!Next
<1>14. CASE UNCHANGED vars \/ Drains
  BY <1>4, <1>14 DEF vars, history, Drains
<1> QED
  BY <1>5, <1>6, <1>7, <1>8, <1>9, <1>10, <1>11, <1>12, <1>13, <1>14 DEF AnyStep, NotifierStep

(* At the start nothing has been published. *)
LEMMA InitQueue == Init => QueueInv /\ Dispatch!Init
<1> SUFFICES ASSUME Init PROVE QueueInv /\ Dispatch!Init
  OBVIOUS
<1>1. objects = <<>> /\ Len(objects) = 0 /\ ntf.st = "wait"
  BY DEF Init
<1>2. objects \in Seq(Obj) /\ 0 \in 0 .. Len(objects) /\ Fronted(objects, 0)
  BY <1>1 DEF Fronted
<1>3. QueueInv
  BY <1>1, <1>2 DEF QueueInv
<1>4. Waiting = Rest(objects, 0)
  BY <1>2, MappedQueue
<1>5. Rest(objects, 0) \in Seq(Nat) /\ Len(Rest(objects, 0)) = 0
  <2>1. Len(objects) - 0 = 0
    BY <1>1
  <2> QED
    BY <1>2, <2>1, RestType
<1>6. Waiting = <<>>
  BY <1>4, <1>5
<1> QED
  BY <1>3, <1>6 DEF Init, Dispatch!Init

(* The notifier implements the queue of FifoDispatch: whatever the callbacks do
   to the lists of subscribers meanwhile, publications are sent one after the
   other in the order in which is_publish accepted them. *)
THEOREM BrokerIsAQueue == Spec => DispatchedInOrder
<1>1. Init => TypeInv /\ QueueInv /\ Dispatch!Init
  BY InitType, InitQueue
<1>2. TypeInv /\ QueueInv /\ [Next]_vars => TypeInv' /\ QueueInv' /\ [Dispatch!Next]_(Dispatch!vars)
  BY StepType, StepQueue, NextIsAny
<1> QED
  BY <1>1, <1>2, PTL DEF Spec, DispatchedInOrder, Dispatch!Spec
-----------------------------------------------------------------------------
(* The listeners of a publication.  Those the notifier has still to send to are
   in the list, and none of them stands in front of its iterator. *)

Served(q, at, who) ==
  /\ at <= Len(q) + 1
  /\ who \subseteq {q[i] : i \in 1 .. Len(q)}
  /\ \A i \in 1 .. Len(q) : i < at => q[i] \notin who

ServedInv == ntf.st = "send" => Served(Audience, ntf.at, owed)

(* Erasing nodes of the list and moving the iterator keeps that so. *)
LEMMA ServedErased ==
  ASSUME NEW q \in Seq(Sock), NEW at \in Nat, NEW who, Served(q, at, who), NEW K \in SUBSET (1 .. Len(q))
  PROVE  Served(Kept(q, K), Moved(at, K), who \cap {q[k] : k \in K})
<1> DEFINE r == Kept(q, K)
           c == Cardinality(K)
           rest == who \cap {q[k] : k \in K}
<1>0. Len(q) \in Nat
  BY LenProperties
<1>1. /\ Len(r) = c /\ c \in Nat
      /\ \A i \in 1 .. c : Nth(K, i) \in K /\ Rank(K, Nth(K, i)) = i /\ r[i] = q[Nth(K, i)]
      /\ \A k \in K : Rank(K, k) \in 1 .. c /\ r[Rank(K, k)] = q[k]
  BY <1>0, KeptList, Places
<1>2. Moved(at, K) \in 1 .. c + 1 /\ \A k \in K : k < at <=> Rank(K, k) < Moved(at, K)
  BY <1>0, MovedPlace
<1> HIDE DEF r, c
<1>3. Moved(at, K) <= Len(r) + 1
  BY <1>1, <1>2
<1>4. rest \subseteq {r[i] : i \in 1 .. Len(r)}
  <2>1. ASSUME NEW k \in K PROVE \E i \in 1 .. Len(r) : q[k] = r[i]
    <3>1. Rank(K, k) \in 1 .. Len(r) /\ r[Rank(K, k)] = q[k]
      BY <1>1
    <3> QED
      BY <3>1
  <2> QED
    BY <2>1
<1>5. ASSUME NEW i \in 1 .. Len(r), i < Moved(at, K) PROVE r[i] \notin who
  <2>1. Nth(K, i) \in K /\ Rank(K, Nth(K, i)) = i /\ r[i] = q[Nth(K, i)]
    BY <1>1, <1>5
  <2>2. Nth(K, i) < at /\ Nth(K, i) \in 1 .. Len(q)
    BY <1>2, <1>5, <2>1
  <2> QED
    BY <2>1, <2>2 DEF Served
<1> QED
  BY <1>3, <1>4, <1>5 DEF Served, r

(* The notifier's list, and whether a callback of topic t works on it. *)
LEMMA AudienceType ==
  ASSUME TypeInv, ntf.st = "send"
  PROVE  /\ ntf.k \in 1 .. Len(objects) /\ objects[ntf.k].topic \in Topic
         /\ Audience \in Seq(Sock) /\ Len(Audience) \in Nat /\ ntf.at \in Nat
         /\ \A t : Notifies(t) <=> t = objects[ntf.k].topic
<1>1. objects \in Seq(Obj) /\ ntf.k \in 1 .. Len(objects) /\ ntf.at \in Nat /\ subs \in [Topic -> Seq(Sock)]
  BY LenProperties DEF TypeInv, TypeOK, Obj
<1>2. objects[ntf.k] \in Obj
  BY <1>1, ElementOfSeq
<1>3. objects[ntf.k].topic \in Topic
  BY <1>2 DEF Obj
<1> QED
  BY <1>1, <1>3, LenProperties DEF Audience, Notifies

(* Erase keeps the invariant. *)
LEMMA EraseServed ==
  ASSUME TypeInv, ServedInv, NEW w, NEW t \in Topic, NEW K \in SUBSET (1 .. Len(subs[t])), NEW next,
         Erase(w, t, K, next), objects' = objects
  PROVE  ServedInv'
<1> SUFFICES ASSUME ntf'.st = "send" PROVE Served(Audience', ntf'.at, owed')
  BY DEF ServedInv
<1>1. TypeOK /\ ntf'.st = ntf.st /\ ntf'.k = ntf.k
  BY EraseKeepsPublication DEF TypeInv
<1>2. ntf.st = "send" /\ Served(Audience, ntf.at, owed)
  BY <1>1 DEF ServedInv
<1>3. /\ objects[ntf.k].topic \in Topic /\ Audience \in Seq(Sock) /\ ntf.at \in Nat
      /\ Notifies(t) <=> t = objects[ntf.k].topic
  BY <1>2, AudienceType
<1>4. subs' = [subs EXCEPT ![t] = Kept(subs[t], K)] /\ subs \in [Topic -> Seq(Sock)]
  BY <1>1 DEF Erase, TypeOK
<1>5. Audience' = subs'[objects[ntf.k].topic]
  BY <1>1 DEF Audience
<1>6. CASE t = objects[ntf.k].topic
  <2>1. Audience = subs[t] /\ Audience' = Kept(subs[t], K)
    BY <1>3, <1>4, <1>5, <1>6 DEF Audience
  <2>2. ntf' = [ntf EXCEPT !.at = Moved(ntf.at, K)] /\ owed' = owed \cap {subs[t][k] : k \in K}
    BY <1>3, <1>6 DEF Erase
  <2>3. ntf'.at = Moved(ntf.at, K)
    BY <1>1, <2>2 DEF TypeOK
  <2>4. Served(Kept(subs[t], K), Moved(ntf.at, K), owed \cap {subs[t][k] : k \in K})
    BY <1>2, <1>3, <2>1, ServedErased
  <2> QED
    BY <2>1, <2>2, <2>3, <2>4
<1>7. CASE t # objects[ntf.k].topic
  <2>1. Audience' = Audience
    BY <1>3, <1>4, <1>5, <1>7 DEF Audience
  <2>2. ntf' = ntf /\ owed' = owed
    BY <1>3, <1>7 DEF Erase
  <2> QED
    BY <1>2, <2>1, <2>2
<1> QED
  BY <1>6, <1>7

(* The invariant holds in every reachable state. *)
LEMMA StepServed ==
  ASSUME TypeInv, ServedInv, [AnyStep]_vars
  PROVE  ServedInv'
<1>1. CASE UNCHANGED <<subs, objects, ntf, owed>>
  BY <1>1 DEF ServedInv, Audience
<1>2. ASSUME NEW w \in Worker, Continue(w) PROVE ServedInv'
  <2>0. job[w] \in Jobs /\ job[w].topic \in Topic
    BY DEF TypeInv, Jobs, Job
  <2>1. CASE MakeUnique(w)
    <3> DEFINE t == job[w].topic
    <3>1. Unique(subs[t]) \subseteq 1 .. Len(subs[t])
      BY DEF Unique
    <3> QED
      BY <2>0, <2>1, <3>1, EraseServed DEF MakeUnique
  <2>2. CASE RemoveFirst(w)
    <3>1. First(job[w].sock)[1] \in Topic
      BY <2>2, FirstEntry DEF RemoveFirst
    <3> QED
      BY <2>2, <3>1, EraseServed DEF RemoveFirst
  <2> QED
    BY <1>1, <1>2, <2>1, <2>2 DEF Continue, SendName, SendOrder, OrderSent, Reply, NoneToRemove, CheckViewers,
       RemovalDone, MarkClosed, history
<1>3. ASSUME NEW w \in Worker, NEW s \in Sock, Requests(w, s) PROVE ServedInv'
  <2>1. ASSUME NEW t \in Topic, Subscribe(w, s, t) PROVE ServedInv'
    <3> SUFFICES ASSUME ntf.st = "send" PROVE Served(Audience', ntf'.at, owed')
      BY <2>1 DEF ServedInv, Subscribe, history
    <3>1. /\ subs' = [subs EXCEPT ![t] = Append(subs[t], s)] /\ UNCHANGED <<objects, ntf, owed>>
      BY <2>1 DEF Subscribe, history
    <3>2. /\ objects[ntf.k].topic \in Topic /\ Audience \in Seq(Sock) /\ Len(Audience) \in Nat /\ ntf.at \in Nat
          /\ Served(Audience, ntf.at, owed)
      BY AudienceType DEF ServedInv
    <3>3. Audience' = Audience \/ Audience' = Append(Audience, s)
      BY <3>1, <3>2 DEF Audience, TypeInv, TypeOK
    <3>4. Served(Append(Audience, s), ntf.at, owed)
      <4> DEFINE q == Append(Audience, s)
      <4>1. Len(q) = Len(Audience) + 1 /\ (\A i \in 1 .. Len(Audience) : q[i] = Audience[i]) /\ q[Len(Audience) + 1] = s
        BY <3>2, AppendProperties
      <4> HIDE DEF q
      <4>2. owed \subseteq {q[i] : i \in 1 .. Len(q)}
        <5>1. \A i \in 1 .. Len(Audience) : i \in 1 .. Len(q)
          BY <3>2, <4>1
        <5> QED
          BY <3>2, <4>1, <5>1 DEF Served
      <4>3. \A i \in 1 .. Len(q) : i < ntf.at => i \in 1 .. Len(Audience)
        BY <3>2, <4>1 DEF Served
      <4>4. ntf.at <= Len(q) + 1
        BY <3>2, <4>1 DEF Served
      <4>5. \A i \in 1 .. Len(q) : i < ntf.at => q[i] \notin owed
        BY <3>2, <4>1, <4>3 DEF Served
      <4> QED
        BY <4>2, <4>4, <4>5 DEF Served, q
    <3> QED
      BY <3>1, <3>2, <3>3, <3>4
  <2>2. ASSUME NEW t \in Topic, Publish(w, s, t) PROVE ServedInv'
    <3> SUFFICES ASSUME ntf.st = "send" PROVE Served(Audience', ntf'.at, owed')
      BY <2>2 DEF ServedInv, Publish
    <3> DEFINE o == [id |-> pubs + 1, topic |-> t, published |-> FALSE]
    <3>1. objects' = Append(objects, o) /\ UNCHANGED <<subs, ntf, owed>>
      BY <2>2 DEF Publish, Queued, history
    <3> HIDE DEF o
    <3>2. ntf.k \in 1 .. Len(objects) /\ objects \in Seq(Obj)
      BY AudienceType DEF TypeInv, TypeOK, Obj
    <3>3. objects'[ntf.k] = objects[ntf.k]
      BY <3>1, <3>2
    <3> QED
      BY <3>1, <3>3 DEF ServedInv, Audience
  <2> QED
    BY <1>1, <1>3, <2>1, <2>2 DEF Requests, Takes, NoAction, HungUp, HungUpAgain, history
<1>4. CASE Wake \/ EndOfObjects \/ ErasePublished \/ SetPublished
  <2>1. ntf \in [st : {"wait", "scan", "send"}, k : Nat, at : Nat]
    BY DEF TypeInv, TypeOK
  <2>2. ntf'.st # "send"
    BY <1>4, <2>1 DEF Wake, EndOfObjects, ErasePublished, SetPublished
  <2> QED
    BY <2>2 DEF ServedInv
<1>5. CASE TakeTopic
  <2>1. /\ ntf.k <= Len(objects) /\ ntf' = [ntf EXCEPT !.st = "send", !.at = 1]
        /\ owed' = Listeners(objects[ntf.k].topic) /\ UNCHANGED <<subs, objects>>
    BY <1>5 DEF TakeTopic
  <2>2. objects \in Seq(Obj) /\ ntf.k \in 1 .. Len(objects)
    BY <2>1, LenProperties DEF TypeInv, TypeOK, Obj
  <2>3. objects[ntf.k] \in Obj
    BY <2>2, ElementOfSeq
  <2>4. subs[objects[ntf.k].topic] \in Seq(Sock)
    BY <2>3 DEF TypeInv, TypeOK, Obj
  <2>5. ntf'.at = 1 /\ ntf'.k = ntf.k
    BY <2>1 DEF TypeInv, TypeOK
  <2>6. Audience' = subs[objects[ntf.k].topic]
    BY <2>1, <2>5 DEF Audience
  <2>7. Len(Audience') \in Nat
    BY <2>4, <2>6, LenProperties
  <2> QED
    BY <2>1, <2>5, <2>6, <2>7 DEF ServedInv, Served, Listeners
<1>6. CASE SendPublication
  <2>1. /\ ntf.st = "send" /\ ntf.at <= Len(Audience) /\ ntf' = [ntf EXCEPT !.at = ntf.at + 1]
        /\ owed' = owed \ {Audience[ntf.at]} /\ UNCHANGED <<subs, objects>>
    BY <1>6 DEF SendPublication, Sending
  <2>2. Audience \in Seq(Sock) /\ Len(Audience) \in Nat /\ ntf.at \in Nat /\ Served(Audience, ntf.at, owed)
    BY <2>1, AudienceType DEF ServedInv
  <2>3. ntf'.at = ntf.at + 1 /\ ntf'.k = ntf.k
    BY <2>1 DEF TypeInv, TypeOK
  <2>4. Audience' = Audience
    BY <2>1, <2>3 DEF Audience
  <2>5. ASSUME NEW i \in 1 .. Len(Audience), i < ntf.at + 1 PROVE Audience[i] \notin owed'
    <3>1. i < ntf.at \/ i = ntf.at
      BY <2>2, <2>5
    <3> QED
      BY <2>1, <2>2, <3>1 DEF Served
  <2>6. Served(Audience, ntf.at + 1, owed')
    <3>1. owed' \subseteq owed
      BY <2>1
    <3>2. owed' \subseteq {Audience[i] : i \in 1 .. Len(Audience)}
      BY <2>2, <3>1 DEF Served
    <3>3. ntf.at + 1 <= Len(Audience) + 1
      BY <2>1, <2>2
    <3> QED
      BY <2>5, <3>2, <3>3 DEF Served
  <2> QED
    BY <2>3, <2>4, <2>6 DEF ServedInv
<1> QED
  BY <1>1, <1>2, <1>3, <1>4, <1>5, <1>6 DEF AnyStep, Drains, NotifierStep, NewClient, CleanUp, Peer, PeerReads, PeerHangsUp,
     vars, history

(* Who is still to be sent to stands where the iterator has not been. *)
LEMMA ServedLater == TypeInv /\ ServedInv => EveryListenerServed
<1> SUFFICES ASSUME TypeInv, ServedInv, ntf.st = "send", NEW s \in owed
             PROVE  s \in {Audience[i] : i \in ntf.at .. Len(Audience)}
  BY DEF EveryListenerServed, Sending
<1>1. Len(Audience) \in Nat /\ ntf.at \in Nat
  BY AudienceType
<1>2. PICK i \in 1 .. Len(Audience) : s = Audience[i]
  BY DEF ServedInv, Served
<1>3. ~(i < ntf.at)
  BY <1>2 DEF ServedInv, Served
<1>4. i \in ntf.at .. Len(Audience)
  BY <1>1, <1>3
<1> QED
  BY <1>2, <1>4

(* No listener is passed over: who was in the list when the notifier took up a
   publication, and was not erased since, is still to come until it is sent to,
   though callbacks erase and append nodes meanwhile. *)
THEOREM ListenersServed == Spec => []EveryListenerServed
<1>1. Init => ServedInv
  BY DEF Init, ServedInv
<1>2. TypeInv /\ ServedInv /\ [Next]_vars => ServedInv'
  BY StepServed, NextIsAny
<1> QED
  BY <1>1, <1>2, InitType, StepType, ServedLater, PTL DEF Spec
-----------------------------------------------------------------------------
(* Subscriptions of a socket.  Erasing nodes of a list adds none to anybody's,
   and takes away one at least from whoever loses a node. *)
LEMMA ErasedEntries ==
  ASSUME TypeInv, NEW t \in Topic, NEW K \in SUBSET (1 .. Len(subs[t])),
         subs' = [subs EXCEPT ![t] = Kept(subs[t], K)], NEW s
  PROVE  /\ Cardinality(Entries(s))' \in Nat /\ Cardinality(Entries(s)) \in Nat
         /\ Cardinality(Entries(s))' <= Cardinality(Entries(s))
         /\ (\E i \in 1 .. Len(subs[t]) : i \notin K /\ subs[t][i] = s) =>
              Cardinality(Entries(s))' < Cardinality(Entries(s))
<1> DEFINE E == Entries(s)
           E1 == Entries(s)'
           T == {e \in E : e[1] = t => e[2] \in K}
           c == Cardinality(K)
<1>1. /\ subs \in [Topic -> Seq(Sock)] /\ subs[t] \in Seq(Sock) /\ Len(subs[t]) \in Nat /\ Len(subs[t]) <= MaxSubs
      /\ MaxSubs \in Nat
  BY BrokerAssumption, LenProperties DEF TypeInv, TypeOK
<1>2. /\ Len(Kept(subs[t], K)) = c /\ c \in Nat
      /\ \A i \in 1 .. c : Nth(K, i) \in K /\ Rank(K, Nth(K, i)) = i /\ Kept(subs[t], K)[i] = subs[t][Nth(K, i)]
  BY <1>1, KeptList, Places
<1>3. subs'[t] = Kept(subs[t], K) /\ \A u \in Topic : u # t => subs'[u] = subs[u]
  BY <1>1
<1>4. IsFiniteSet(E) /\ Cardinality(E) \in Nat
  BY FiniteEntries
<1>5. IsFiniteSet(E1) /\ Cardinality(E1) \in Nat
  BY FiniteEntries
<1>6. T \subseteq E
  OBVIOUS
<1>7. IsFiniteSet(T) /\ Cardinality(T) <= Cardinality(E) /\ (Cardinality(E) = Cardinality(T) => E = T)
  BY <1>4, <1>6, FS_Subset
<1>8. Cardinality(T) \in Nat
  BY <1>7, FS_CardinalityType
<1> DEFINE F(e) == IF e[1] = t THEN <<t, Nth(K, e[2])>> ELSE e
           f == [e \in E1 |-> F(e)]
<1>9. ASSUME NEW e \in E1
      PROVE  /\ e = <<e[1], e[2]>> /\ e[1] \in Topic
             /\ e[1] = t => e[2] \in 1 .. c
             /\ F(e) \in T /\ F(e)[1] = e[1]
  <2>1. e \in Topic \X (1 .. MaxSubs) /\ e[2] <= Len(subs'[e[1]]) /\ subs'[e[1]][e[2]] = s
    BY DEF Entries
  <2>2. e = <<e[1], e[2]>> /\ e[1] \in Topic /\ e[2] \in 1 .. MaxSubs
    BY <2>1
  <2>3. CASE e[1] = t
    <3> DEFINE k == Nth(K, e[2])
    <3>1. e[2] \in 1 .. c
      BY <1>2, <1>3, <2>1, <2>2, <2>3
    <3>2. k \in K /\ subs[t][k] = s
      BY <1>2, <1>3, <2>1, <2>3, <3>1
    <3>4. F(e) = <<t, k>>
      BY <2>3
    <3> HIDE DEF k
    <3>3. k \in 1 .. MaxSubs /\ k <= Len(subs[t])
      <4>1. k \in 1 .. Len(subs[t])
        BY <3>2
      <4> QED
        BY <1>1, <4>1
    <3>5. <<t, k>> \in E
      BY <3>2, <3>3 DEF Entries
    <3> QED
      BY <2>2, <2>3, <3>1, <3>2, <3>4, <3>5
  <2>4. CASE e[1] # t
    <3>1. F(e) = e
      BY <2>4
    <3>2. e \in E
      BY <1>3, <2>1, <2>2, <2>4 DEF Entries
    <3> QED
      BY <2>2, <2>4, <3>1, <3>2
  <2> QED
    BY <2>3, <2>4
<1>10. ASSUME NEW e \in E1, NEW d \in E1, F(e) = F(d) PROVE e = d
  <2>1. e[1] = d[1]
    BY <1>9, <1>10
  <2>2. CASE e[1] = t
    <3>1. Nth(K, e[2]) = Nth(K, d[2])
      BY <1>10, <2>1, <2>2
    <3>2. e[2] \in 1 .. c /\ d[2] \in 1 .. c
      BY <1>9, <2>1, <2>2
    <3>3. e[2] = d[2]
      BY <1>2, <3>1, <3>2
    <3> QED
      BY <1>9, <2>1, <3>3
  <2>3. CASE e[1] # t
    BY <1>10, <2>1, <2>3
  <2> QED
    BY <2>2, <2>3
<1> HIDE DEF E, E1, T, F
<1>11. f \in Injection(E1, T)
  BY <1>9, <1>10 DEF Injection, IsInjective
<1>12. Cardinality(E1) <= Cardinality(T)
  BY <1>7, <1>11, FS_Injection
<1>13. ASSUME NEW i \in 1 .. Len(subs[t]), i \notin K, subs[t][i] = s PROVE Cardinality(T) < Cardinality(E)
  <2>1. <<t, i>> \in E /\ <<t, i>> \notin T
    BY <1>1, <1>13 DEF E, T, Entries
  <2> QED
    BY <1>4, <1>7, <1>8, <2>1
<1> QED
  BY <1>4, <1>5, <1>7, <1>8, <1>12, <1>13 DEF E, E1

(* Subscribing changes nobody else's. *)
LEMMA AppendedEntries ==
  ASSUME TypeInv, NEW t \in Topic, NEW s \in Sock, subs' = [subs EXCEPT ![t] = Append(subs[t], s)],
         NEW u \in Sock, u # s
  PROVE  Entries(u)' = Entries(u)
<1>1. subs \in [Topic -> Seq(Sock)] /\ subs[t] \in Seq(Sock) /\ Len(subs[t]) \in Nat
  BY LenProperties DEF TypeInv, TypeOK
<1>2. /\ Len(subs'[t]) = Len(subs[t]) + 1
      /\ \A i \in 1 .. Len(subs[t]) : subs'[t][i] = subs[t][i]
      /\ subs'[t][Len(subs[t]) + 1] = s
      /\ \A v \in Topic : v # t => subs'[v] = subs[v]
  BY <1>1, AppendProperties
<1>3. ASSUME NEW e \in Topic \X (1 .. MaxSubs)
      PROVE  e[2] <= Len(subs'[e[1]]) /\ subs'[e[1]][e[2]] = u <=> e[2] <= Len(subs[e[1]]) /\ subs[e[1]][e[2]] = u
  <2>1. e[1] \in Topic /\ e[2] \in 1 .. MaxSubs /\ e[2] \in Nat /\ e[2] > 0
    BY BrokerAssumption
  <2>2. CASE e[1] = t
    <3>1. CASE e[2] \in 1 .. Len(subs[t])
      BY <1>1, <1>2, <2>1, <2>2, <3>1
    <3>2. CASE e[2] = Len(subs[t]) + 1
      BY <1>1, <1>2, <2>1, <2>2, <3>2
    <3>3. CASE e[2] > Len(subs[t]) + 1
      BY <1>1, <1>2, <2>1, <2>2, <3>3
    <3> QED
      BY <1>1, <2>1, <3>1, <3>2, <3>3
  <2>3. CASE e[1] # t
    BY <1>2, <2>1, <2>3
  <2> QED
    BY <2>2, <2>3
<1> QED
  BY <1>3 DEF Entries
-----------------------------------------------------------------------------
(* Subscriptions left behind.  A callback that reads from a socket, or reports
   its hang-up, has it to itself, and each removal it has been through has taken
   one of the subscriptions the socket had when it hung up. *)

Less(h, n) == IF h > n THEN h - n ELSE 0
Removing(w) == job[w].st = "remove" \/ job[w].st \in Removed
Done(w) == Removals - job[w].left + IF job[w].st = "remove" THEN 0 ELSE 1

LeftBehind(s) == conn[s] = "closed" => Cardinality(Entries(s)) <= Less(held[s], Removals)

HeldFor(w) ==
  /\ job[w].reader =>
       /\ job[w].st # "idle"
       /\ conn[job[w].sock] \in {"up", "gone"}
       /\ Removing(w) => /\ conn[job[w].sock] = "gone"
                         /\ Cardinality(Entries(job[w].sock)) <= Less(held[job[w].sock], Done(w))
  /\ job[w].st \in {"name", "start", "unique", "reply"} => job[w].reader

HeldInv ==
  /\ \A s \in Sock : LeftBehind(s)
  /\ \A w \in Worker : HeldFor(w)
  /\ \A v, w \in Worker : job[v].reader /\ job[w].reader /\ job[v].sock = job[w].sock => v = w

(* A removal takes one from a positive number of subscriptions. *)
LEMMA OneLess ==
  ASSUME NEW h \in Nat, NEW n \in Nat, NEW c \in Nat, NEW d \in Nat, c <= Less(h, n), d < c
  PROVE  d <= Less(h, n + 1)
BY DEF Less

(* Workers and sockets that a step does not concern stay as they were. *)
SameJob(v) == /\ job'[v].st = job[v].st /\ job'[v].sock = job[v].sock
              /\ job'[v].left = job[v].left /\ job'[v].reader = job[v].reader
Keeps(s) == /\ conn'[s] = conn[s] /\ held'[s] = held[s]
            /\ Cardinality(Entries(s))' <= Cardinality(Entries(s))

(* HeldInv survives a step in which at most one job changes, to one that still
   knows its socket, and every socket is left alone, answers again, or is left
   behind as the callbacks leave one. *)
LEMMA SameHeld ==
  ASSUME TypeInv, TypeInv', HeldInv, NEW W \in SUBSET Worker, \A v, w \in W : v = w,
         \A v \in Worker \ W : SameJob(v),
         \A w \in W : /\ HeldFor(w)'
                      /\ \A v \in Worker \ W : job'[w].reader /\ job[v].reader => job[v].sock # job'[w].sock,
         \A s \in Sock : \/ Keeps(s)
                         \/ conn[s] = "up" /\ conn'[s] \in {"up", "gone"}
                         \/ LeftBehind(s)' /\ \A v \in Worker \ W : job[v].reader => job[v].sock # s
  PROVE  HeldInv'
<1>0. ASSUME NEW s \in Sock PROVE /\ Cardinality(Entries(s)) \in Nat /\ Cardinality(Entries(s)') \in Nat
                                  /\ held[s] \in Nat /\ held'[s] \in Nat
  BY FiniteEntries DEF TypeInv, TypeOK
<1>1. ASSUME NEW s \in Sock PROVE LeftBehind(s)'
  <2>1. CASE Keeps(s)
    <3>1. LeftBehind(s) /\ conn'[s] = conn[s] /\ held'[s] = held[s]
      BY <2>1 DEF HeldInv, Keeps
    <3>2. conn[s] = "closed" => Cardinality(Entries(s))' <= Less(held[s], Removals)
      BY <1>0, <2>1, <3>1 DEF LeftBehind, Keeps, Less, Removals
    <3> QED
      BY <3>1, <3>2 DEF LeftBehind
  <2>2. CASE conn'[s] \in {"up", "gone"}
    BY <2>2 DEF LeftBehind
  <2> QED
    BY <2>1, <2>2
<1>2. ASSUME NEW v \in Worker \ W PROVE HeldFor(v)'
  <2>1. SameJob(v) /\ HeldFor(v) /\ job[v] \in Jobs
    BY DEF HeldInv, TypeInv
  <2>2. (Removing(v) <=> Removing(v)') /\ Done(v)' = Done(v)
    BY <2>1 DEF SameJob, Removing, Done
  <2>3. CASE job[v].reader
    <3>1. job[v].sock \in Sock /\ job[v].left \in 0 .. Removals
      BY <2>1, <2>3 DEF HeldFor, Jobs, Job
    <3>2. Done(v) \in Nat
      BY <3>1 DEF Done, Removals
    <3>3. PICK s \in Sock : s = job[v].sock /\ s = job'[v].sock
      BY <2>1, <3>1 DEF SameJob
    <3>4. CASE Keeps(s)
      <4>1. conn'[s] \in {"up", "gone"} /\ (Removing(v) => conn'[s] = "gone")
        BY <2>1, <2>3, <3>3, <3>4 DEF HeldFor, Keeps
      <4>2. Removing(v) => Cardinality(Entries(s)) <= Less(held[s], Done(v))
        BY <2>1, <2>3, <3>3 DEF HeldFor
      <4>3. Less(held[s], Done(v)) \in Nat /\ Less(held'[s], Done(v)) = Less(held[s], Done(v))
        BY <1>0, <3>2, <3>4 DEF Less, Keeps
      <4>4. Removing(v) => Cardinality(Entries(s)') <= Less(held'[s], Done(v))
        BY <1>0, <3>4, <4>2, <4>3 DEF Keeps
      <4> QED
        BY <2>1, <2>2, <3>3, <4>1, <4>4 DEF HeldFor, SameJob
    <3>5. CASE conn[s] = "up" /\ conn'[s] \in {"up", "gone"}
      BY <2>1, <2>2, <2>3, <3>3, <3>5 DEF HeldFor, SameJob
    <3> QED
      BY <2>3, <3>3, <3>4, <3>5
  <2>4. CASE ~job[v].reader
    BY <2>1, <2>4 DEF HeldFor, SameJob
  <2> QED
    BY <2>3, <2>4
<1>3. ASSUME NEW v \in Worker, NEW w \in Worker, job'[v].reader, job'[w].reader, job'[v].sock = job'[w].sock
      PROVE  v = w
  <2>1. CASE v \in W \/ w \in W
    BY <1>3, <2>1 DEF SameJob
  <2>2. CASE v \notin W /\ w \notin W
    BY <1>3, <2>2 DEF SameJob, HeldInv
  <2> QED
    BY <2>1, <2>2
<1>4. \A w \in Worker : HeldFor(w)'
  BY <1>2
<1> QED
  BY <1>1, <1>3, <1>4 DEF HeldInv
(* Erasing moves the other workers' iterators, and nothing else of theirs. *)
LEMMA EraseJobs ==
  ASSUME TypeInv, NEW w \in Worker, NEW t, NEW K, NEW next, Erase(w, t, K, next)
  PROVE  job'[w] = next /\ \A v \in Worker \ {w} : SameJob(v)
<1>1. \A v \in Worker : job[v] \in Job
  BY DEF TypeInv, Jobs
<1>2. ASSUME NEW v \in Worker \ {w} PROVE SameJob(v)
  <2>1. job'[v] = job[v] \/ job'[v] = [job[v] EXCEPT !.at = Moved(job[v].at, K)]
    BY DEF Erase
  <2> QED
    BY <1>1, <2>1 DEF SameJob, Job
<1>3. job'[w] = next
  BY DEF Erase
<1> QED
  BY <1>2, <1>3

(* The ways in which a callback goes on: it answers its client, or it removes,
   with as many removals done as before, or with one more. *)
Reads(w) == job[w].st \in {"name", "start", "unique", "reply"}
GoesReading(w) == Reads(w) /\ Reads(w)'
GoesRemoving(w) == Removing(w) /\ Removing(w)' /\ Done(w)' = Done(w)
RemovesOne(w) ==
  /\ Removing(w) /\ Removing(w)' /\ Done(w)' = Done(w) + 1
  /\ \A s \in Sock : s = job[w].sock =>
       Cardinality(Entries(s)') = 0 \/ Cardinality(Entries(s)') < Cardinality(Entries(s))

(* A job that goes on reading or removing still knows what it did of its
   socket. *)
LEMMA HeldForGoes ==
  ASSUME TypeInv, NEW w \in Worker, HeldFor(w), \A s \in Sock : Keeps(s),
         job'[w].sock = job[w].sock, job'[w].reader = job[w].reader,
         GoesReading(w) \/ GoesRemoving(w) \/ RemovesOne(w)
  PROVE  HeldFor(w)'
<1>1. CASE GoesReading(w)
  <2>1. ~Removing(w)' /\ job'[w].st # "idle" /\ (job'[w].st \in {"name", "start", "unique", "reply"} => job'[w].reader)
    BY <1>1 DEF GoesReading, Reads, Removing, Removed, HeldFor
  <2>2. ASSUME job[w].reader PROVE conn'[job'[w].sock] \in {"up", "gone"}
    <3>1. job[w].sock \in Sock
      BY <2>2 DEF HeldFor, TypeInv, Jobs
    <3>2. PICK s \in Sock : s = job[w].sock
      BY <3>1
    <3>3. conn'[s] = conn[s]
      BY DEF Keeps
    <3> QED
      BY <2>2, <3>2, <3>3 DEF HeldFor
  <2> QED
    BY <2>1, <2>2 DEF HeldFor
<1>2. CASE GoesRemoving(w) \/ RemovesOne(w)
  <2>1. Removing(w) /\ Removing(w)' /\ Done(w)' \in {Done(w), Done(w) + 1}
    BY <1>2 DEF GoesRemoving, RemovesOne
  <2>2. job'[w].st \notin {"idle", "name", "start", "unique", "reply"}
    BY <2>1 DEF Removing, Removed
  <2>3. CASE job[w].reader
    <3>1. job[w].sock \in Sock /\ job[w].left \in 0 .. Removals
      BY <2>3 DEF HeldFor, TypeInv, Jobs, Job
    <3>2. PICK s \in Sock : s = job[w].sock /\ s = job'[w].sock
      BY <3>1
    <3>3. /\ Keeps(s) /\ Cardinality(Entries(s)) \in Nat /\ Cardinality(Entries(s)') \in Nat
          /\ held[s] \in Nat /\ Done(w) \in Nat
      BY <3>1, FiniteEntries DEF TypeInv, TypeOK, Done, Removals
    <3>4. conn[s] = "gone" /\ Cardinality(Entries(s)) <= Less(held[s], Done(w))
      BY <2>1, <2>3, <3>2 DEF HeldFor
    <3>5. Cardinality(Entries(s)') <= Less(held[s], Done(w)')
      <4>1. CASE Done(w)' = Done(w)
        <5>1. Less(held[s], Done(w)) \in Nat
          BY <3>3 DEF Less
        <5> QED
          BY <3>3, <3>4, <4>1, <5>1 DEF Keeps
      <4>2. CASE RemovesOne(w) /\ Cardinality(Entries(s)') = 0
        <5>1. Done(w)' \in Nat
          BY <2>1, <3>3
        <5>2. Less(held[s], Done(w)') >= 0
          BY <3>3, <5>1 DEF Less
        <5> QED
          BY <4>2, <5>2
      <4>3. CASE RemovesOne(w) /\ Cardinality(Entries(s)') < Cardinality(Entries(s))
        BY <3>3, <3>4, <4>3, OneLess DEF RemovesOne
      <4> QED
        BY <1>2, <3>2, <4>1, <4>2, <4>3 DEF GoesRemoving, RemovesOne
    <3>6. conn'[s] = "gone" /\ held'[s] = held[s]
      BY <3>3, <3>4 DEF Keeps
    <3> QED
      BY <2>1, <2>2, <2>3, <3>2, <3>5, <3>6 DEF HeldFor
  <2> QED
    BY <2>2, <2>3 DEF HeldFor
<1> QED
  BY <1>1, <1>2

(* A callback that goes on keeps the invariant. *)
LEMMA ContinueHeld ==
  ASSUME TypeInv, TypeInv', HeldInv, NEW w \in Worker, Continue(w)
  PROVE  HeldInv'
<1>0. /\ job[w] \in Job /\ job[w].left \in 0 .. Removals /\ HeldFor(w) /\ job \in [Worker -> Jobs]
      /\ job[w].reader => job[w].sock \in Sock
  BY DEF TypeInv, HeldInv, HeldFor, Jobs, Job
<1>1. ASSUME NEW s \in Sock, UNCHANGED <<conn, held, subs>> PROVE Keeps(s)
  <2>1. Entries(s)' = Entries(s) /\ Cardinality(Entries(s)) \in Nat
    BY <1>1, FiniteEntries DEF Entries
  <2> QED
    BY <1>1, <2>1 DEF Keeps
<1>2. ASSUME \A v \in Worker \ {w} : SameJob(v), \A s \in Sock : Keeps(s),
             job'[w].sock = job[w].sock, job'[w].reader = job[w].reader,
             GoesReading(w) \/ GoesRemoving(w) \/ RemovesOne(w)
      PROVE  HeldInv'
  <2>1. \A v \in Worker \ {w} : job'[w].reader /\ job[v].reader => job[v].sock # job'[w].sock
    BY <1>2 DEF HeldInv
  <2>2. HeldFor(w)'
    BY <1>0, <1>2, HeldForGoes
  <2> DEFINE W == {w}
  <2>3. W \in SUBSET Worker /\ \A u, v \in W : u = v
    OBVIOUS
  <2>4. /\ \A v \in Worker \ W : SameJob(v)
        /\ \A u \in W : /\ HeldFor(u)'
                         /\ \A v \in Worker \ W : job'[u].reader /\ job[v].reader => job[v].sock # job'[u].sock
    BY <1>2, <2>1, <2>2
  <2> HIDE DEF W
  <2> QED
    BY <1>2, <2>3, <2>4, SameHeld
<1>3. ASSUME NEW t \in Topic, NEW K \in SUBSET (1 .. Len(subs[t])), NEW next, Erase(w, t, K, next),
             UNCHANGED <<conn, held>>, NEW s \in Sock
      PROVE  Keeps(s)
  <2>1. subs' = [subs EXCEPT ![t] = Kept(subs[t], K)]
    BY <1>3 DEF Erase
  <2> QED
    BY <1>3, <2>1, ErasedEntries DEF Keeps
<1>4. ASSUME UNCHANGED <<conn, held, subs>>, \A v \in Worker \ {w} : SameJob(v),
             job'[w].sock = job[w].sock, job'[w].reader = job[w].reader,
             \/ Reads(w) /\ Reads(w)'
             \/ job[w].st \in Removed /\ job'[w].st \in Removed /\ job'[w].left = job[w].left
             \/ job[w].st \in Removed /\ job'[w].st = "remove" /\ job'[w].left = job[w].left - 1
             \/ /\ job[w].st = "remove" /\ job'[w].st \in Removed /\ job'[w].left = job[w].left
                /\ Entries(job[w].sock) = {}
      PROVE  HeldInv'
  <2>3. CASE Reads(w) /\ Reads(w)'
    <3>1. GoesReading(w)
      BY <1>4, <2>3 DEF GoesReading, Reads
    <3> QED
      BY <1>1, <1>2, <1>4, <3>1
  <2>4. CASE job[w].st \in Removed /\ job'[w].st \in Removed /\ job'[w].left = job[w].left
    <3>1. GoesRemoving(w)
      BY <1>4, <2>4 DEF GoesRemoving, Removing, Done, Removed
    <3> QED
      BY <1>1, <1>2, <1>4, <3>1
  <2>5. CASE job[w].st \in Removed /\ job'[w].st = "remove" /\ job'[w].left = job[w].left - 1
    <3>1. GoesRemoving(w)
      BY <1>0, <1>4, <2>5 DEF GoesRemoving, Removing, Done, Removed, Removals
    <3> QED
      BY <1>1, <1>2, <1>4, <3>1
  <2>6. CASE job[w].st = "remove" /\ job'[w].st \in Removed /\ job'[w].left = job[w].left /\ Entries(job[w].sock) = {}
    <3>1. Removing(w) /\ Removing(w)' /\ Done(w)' = Done(w) + 1
      BY <1>0, <1>4, <2>6 DEF Removing, Done, Removed, Removals
    <3>2. ASSUME NEW s \in Sock, s = job[w].sock PROVE Cardinality(Entries(s)') = 0
      <4>1. Entries(s)' = Entries(s)
        BY <1>4 DEF Entries
      <4>2. Entries(s)' = {}
        BY <2>6, <3>2, <4>1
      <4> QED
        BY <4>2, FS_EmptySet
    <3>3. RemovesOne(w)
      BY <3>1, <3>2 DEF RemovesOne
    <3> QED
      BY <1>1, <1>2, <1>4, <3>3
  <2> QED
    BY <1>4, <2>3, <2>4, <2>5, <2>6
<1>5. ASSUME NEW st, job' = Goes(w, st)
      PROVE  /\ \A v \in Worker \ {w} : SameJob(v)
             /\ job'[w].sock = job[w].sock /\ job'[w].reader = job[w].reader
             /\ job'[w].st = st /\ job'[w].left = job[w].left
  <2>1. \A v \in Worker \ {w} : SameJob(v)
    BY <1>0, <1>5 DEF Goes, SameJob
  <2>2. job'[w] = [job[w] EXCEPT !.st = st, !.at = 1]
    BY <1>0, <1>5 DEF Goes
  <2> QED
    BY <1>0, <2>1, <2>2 DEF Job
<1>6. CASE SendName(w)
  <2>1. /\ UNCHANGED <<conn, held, subs>> /\ job[w].st = "name"
        /\ job' = Goes(w, "start") \/ job' = Goes(w, "unique")
    BY <1>6 DEF SendName, At, Transmit, sockets
  <2>2. Reads(w)
    BY <2>1 DEF Reads
  <2>3. ASSUME NEW st \in {"start", "unique"}, job' = Goes(w, st) PROVE HeldInv'
    <3>1. Reads(w)'
      BY <1>5, <2>3 DEF Reads
    <3> QED
      BY <1>4, <1>5, <2>1, <2>2, <2>3, <3>1
  <2> QED
    BY <2>1, <2>3
<1>7. CASE SendOrder(w)
  <2>1. UNCHANGED <<conn, held, subs>> /\ job' = [job EXCEPT ![w].at = @ + 1] /\ job[w].st \in {"start", "stop"}
    BY <1>7 DEF SendOrder, Ordering, Transmit, sockets, history
  <2>2. \A v \in Worker \ {w} : SameJob(v)
    BY <1>0, <2>1 DEF SameJob
  <2>3. job'[w] = [job[w] EXCEPT !.at = @ + 1]
    BY <1>0, <2>1
  <2>4. job'[w].sock = job[w].sock /\ job'[w].reader = job[w].reader /\ job'[w].st = job[w].st /\ job'[w].left = job[w].left
    BY <1>0, <2>3 DEF Job
  <2>5. (Reads(w) /\ Reads(w)') \/ (job[w].st \in Removed /\ job'[w].st \in Removed)
    BY <2>1, <2>4 DEF Reads, Removed
  <2> QED
    BY <1>4, <2>1, <2>2, <2>4, <2>5
<1>8. CASE OrderSent(w)
  <2>1. /\ UNCHANGED <<conn, held, subs>>
        /\ \/ job[w].st = "start" /\ job' = Goes(w, "unique")
           \/ job[w].st = "stop" /\ job' = Goes(w, "removed")
    BY <1>8 DEF OrderSent, Ordering, sockets, history
  <2>2. CASE job[w].st = "start" /\ job' = Goes(w, "unique")
    <3>1. Reads(w) /\ Reads(w)'
      BY <1>5, <2>2 DEF Reads
    <3> QED
      BY <1>4, <1>5, <2>1, <2>2, <3>1
  <2>3. CASE job[w].st = "stop" /\ job' = Goes(w, "removed")
    <3>1. job[w].st \in Removed /\ job'[w].st \in Removed
      BY <1>5, <2>3 DEF Removed
    <3> QED
      BY <1>4, <1>5, <2>1, <2>3, <3>1
  <2> QED
    BY <2>1, <2>2, <2>3
<1>9. CASE CheckViewers(w)
  <2>1. /\ UNCHANGED <<conn, held, subs>> /\ job[w].st \in Removed
        /\ job' = Goes(w, "stop") \/ job' = Goes(w, "removed")
    BY <1>9 DEF CheckViewers, At, Removed, sockets
  <2>2. ASSUME NEW st \in Removed, job' = Goes(w, st) PROVE HeldInv'
    BY <1>4, <1>5, <2>1, <2>2
  <2> QED
    BY <2>1, <2>2 DEF Removed
<1>10. CASE NoneToRemove(w)
  <2>1. /\ UNCHANGED <<conn, held, subs>> /\ job[w].st = "remove" /\ Entries(job[w].sock) = {}
        /\ job' = Goes(w, "removed")
    BY <1>10 DEF NoneToRemove, At, sockets, history
  <2>2. job'[w].st \in Removed
    BY <1>5, <2>1 DEF Removed
  <2> QED
    BY <1>4, <1>5, <2>1, <2>2
<1>11. CASE RemovalDone(w)
  <2>1. /\ UNCHANGED <<conn, held, subs>> /\ job[w].st \in Removed
        /\ job' = [job EXCEPT ![w].st = "remove", ![w].left = @ - 1]
    BY <1>11 DEF RemovalDone, At, Removed, sockets, history
  <2>2. \A v \in Worker \ {w} : SameJob(v)
    BY <1>0, <2>1 DEF SameJob
  <2>3. job'[w] = [job[w] EXCEPT !.st = "remove", !.left = @ - 1]
    BY <1>0, <2>1
  <2>4. job'[w].sock = job[w].sock /\ job'[w].reader = job[w].reader /\ job'[w].st = "remove" /\ job'[w].left = job[w].left - 1
    BY <1>0, <2>3 DEF Job
  <2> QED
    BY <1>4, <2>1, <2>2, <2>4
<1>12. CASE MakeUnique(w)
  <2> DEFINE t == job[w].topic
             K == Unique(subs[t])
             next == [job[w] EXCEPT !.st = "reply"]
  <2>1. t \in Topic /\ K \in SUBSET (1 .. Len(subs[t]))
    BY <1>0 DEF Job, Unique
  <2>2. Erase(w, t, K, next) /\ UNCHANGED <<conn, held>> /\ job[w].st = "unique"
    BY <1>12 DEF MakeUnique, At
  <2>3. next.st = "reply" /\ next.sock = job[w].sock /\ next.reader = job[w].reader
    BY <1>0 DEF Job
  <2> HIDE DEF t, K, next
  <2>4. job'[w] = next /\ \A v \in Worker \ {w} : SameJob(v)
    BY <2>2, EraseJobs
  <2>5. \A s \in Sock : Keeps(s)
    BY <1>3, <2>1, <2>2
  <2>6. GoesReading(w)
    BY <2>2, <2>3, <2>4 DEF GoesReading, Reads
  <2> QED
    BY <1>2, <2>3, <2>4, <2>5, <2>6
<1>13. CASE RemoveFirst(w)
  <2> DEFINE e == First(job[w].sock)
             t == e[1]
             K == (1 .. Len(subs[t])) \ {e[2]}
             next == [job[w] EXCEPT !.st = IF t = View THEN "viewers" ELSE "removed"]
  <2>1. /\ t \in Topic /\ e[2] \in 1 .. MaxSubs /\ e[2] <= Len(subs[t]) /\ subs[t][e[2]] = job[w].sock
        /\ job[w].st = "remove"
    BY <1>13, FirstEntry DEF RemoveFirst, At
  <2>2. Erase(w, t, K, next) /\ UNCHANGED <<conn, held>>
    BY <1>13 DEF RemoveFirst
  <2>3. next.st \in Removed /\ next.sock = job[w].sock /\ next.reader = job[w].reader /\ next.left = job[w].left
    BY <1>0 DEF Job, Removed
  <2>4. K \in SUBSET (1 .. Len(subs[t])) /\ e[2] \in 1 .. Len(subs[t]) /\ e[2] \notin K
    <3>1. Len(subs[t]) \in Nat
      BY <2>1, LenProperties DEF TypeInv, TypeOK
    <3> HIDE DEF e
    <3> QED
      BY <2>1, <3>1
  <2> HIDE DEF e, t, K, next
  <2>5. job'[w] = next /\ \A v \in Worker \ {w} : SameJob(v)
    BY <2>2, EraseJobs
  <2>6. \A s \in Sock : Keeps(s)
    BY <1>3, <2>1, <2>2, <2>4
  <2>7. Removing(w) /\ Removing(w)' /\ Done(w)' = Done(w) + 1
    BY <1>0, <2>1, <2>3, <2>5 DEF Removing, Done, Removed, Removals
  <2>8. ASSUME NEW s \in Sock, s = job[w].sock PROVE Cardinality(Entries(s)') < Cardinality(Entries(s))
    <3>1. subs' = [subs EXCEPT ![t] = Kept(subs[t], K)]
      BY <2>2 DEF Erase
    <3> QED
      BY <2>1, <2>4, <2>8, <3>1, ErasedEntries
  <2>9. RemovesOne(w)
    BY <2>7, <2>8 DEF RemovesOne
  <2> QED
    BY <1>2, <2>3, <2>5, <2>6, <2>9
<1>14. CASE Reply(w) \/ MarkClosed(w)
  <2>1. job'[w].reader = FALSE /\ job'[w].st = "idle" /\ \A v \in Worker \ {w} : SameJob(v)
    BY <1>0, <1>14 DEF Reply, MarkClosed, Resting, SameJob
  <2>2. HeldFor(w)'
    BY <2>1 DEF HeldFor
  <2>3. held' = held /\ subs' = subs
    BY <1>14 DEF Reply, MarkClosed, history
  <2>4. CASE conn' = conn
    <3>1. \A s \in Sock : Keeps(s)
      BY <1>1, <2>3, <2>4
    <3> DEFINE W == {w}
    <3>2. W \in SUBSET Worker /\ (\A u, v \in W : u = v) /\ \A v \in Worker \ W : SameJob(v)
      BY <2>1
    <3>3. \A u \in W : HeldFor(u)' /\ ~job'[u].reader
      BY <2>1, <2>2
    <3> HIDE DEF W
    <3> QED
      BY <3>1, <3>2, <3>3, SameHeld
  <2>5. CASE MarkClosed(w) /\ job[w].reader
    <3>1. PICK s \in Sock : s = job[w].sock
      BY <1>0, <2>5
    <3>2. conn' = [conn EXCEPT ![s] = "closed"] /\ job[w].st = "remove" /\ job[w].left = 0
      BY <2>5, <3>1 DEF MarkClosed, At
    <3>3. Done(w) = Removals
      BY <3>2 DEF Done, Removals
    <3>4. Cardinality(Entries(s)) <= Less(held[s], Removals)
      BY <1>0, <2>5, <3>1, <3>2, <3>3 DEF HeldFor, Removing
    <3>5. Entries(s)' = Entries(s)
      BY <2>3 DEF Entries
    <3>6. LeftBehind(s)'
      BY <2>3, <3>4, <3>5 DEF LeftBehind
    <3>7. \A v \in Worker \ {w} : job[v].reader => job[v].sock # s
      BY <2>5, <3>1 DEF HeldInv
    <3>8. ASSUME NEW u \in Sock, u # s PROVE Keeps(u)
      <4>1. Entries(u)' = Entries(u) /\ Cardinality(Entries(u)) \in Nat
        BY <2>3, FiniteEntries DEF Entries
      <4> QED
        BY <2>3, <3>2, <3>8, <4>1 DEF Keeps, TypeInv, TypeOK
    <3> DEFINE W == {w}
    <3>9. /\ W \in SUBSET Worker /\ (\A u, v \in W : u = v) /\ \A v \in Worker \ W : SameJob(v)
          /\ \A v \in Worker \ W : job[v].reader => job[v].sock # s
      BY <2>1, <3>7
    <3>10. \A u \in W : HeldFor(u)' /\ ~job'[u].reader
      BY <2>1, <2>2
    <3> HIDE DEF W
    <3> QED
      BY <3>6, <3>8, <3>9, <3>10, SameHeld
  <2> QED
    BY <1>14, <2>4, <2>5 DEF Reply, MarkClosed, Transmit, sockets
<1> QED
  BY <1>6, <1>7, <1>8, <1>9, <1>10, <1>11, <1>12, <1>13, <1>14 DEF Continue
(* So does the start of a callback. *)
LEMMA BeginHeld ==
  ASSUME TypeInv, TypeInv', HeldInv, NEW w \in Worker, NEW s \in Sock, Requests(w, s)
  PROVE  HeldInv'
<1> DEFINE W == {w}
<1>0. job \in [Worker -> Jobs] /\ W \in SUBSET Worker /\ (\A u, v \in W : u = v) /\ held \in [Sock -> Nat]
  BY DEF TypeInv, TypeOK
<1>1. ASSUME NEW u \in Sock, Entries(u)' = Entries(u), conn'[u] = conn[u], held'[u] = held[u] PROVE Keeps(u)
  <2>1. Cardinality(Entries(u)) \in Nat
    BY FiniteEntries
  <2> QED
    BY <1>1, <2>1 DEF Keeps
<1>2. subs' = subs => \A u \in Sock : Entries(u)' = Entries(u)
  BY DEF Entries
<1>3. ASSUME NEW j, job' = [job EXCEPT ![w] = j] PROVE job'[w] = j /\ \A v \in Worker \ W : SameJob(v)
  BY <1>0, <1>3 DEF SameJob
<1>4. Resting \in Job
  BY RestingType DEF Jobs
<1>5. ASSUME job'[w].reader, job'[w].st \in {"name", "reply"}, job'[w].sock = s, conn'[s] \in {"up", "gone"}
      PROVE  HeldFor(w)'
  <2>1. ~Removing(w)'
    BY <1>5 DEF Removing, Removed
  <2> QED
    BY <1>5, <2>1 DEF HeldFor
<1>6. ~Reading(s) => \A v \in Worker \ W : job[v].reader => job[v].sock # s
  BY DEF Reading
<1>7. ASSUME NEW t \in Topic, Subscribe(w, s, t) PROVE HeldInv'
  <2> DEFINE j == [Resting EXCEPT !.st = "name", !.sock = s, !.topic = t, !.reader = TRUE]
  <2>1. j.reader /\ j.st = "name" /\ j.sock = s
    BY <1>4 DEF Job
  <2>2. job' = [job EXCEPT ![w] = j] /\ UNCHANGED <<conn, held>> /\ conn[s] \in {"up", "gone"} /\ ~Reading(s)
    BY <1>7 DEF Subscribe, Readable, sockets, history
  <2> HIDE DEF j
  <2>3. job'[w].reader /\ job'[w].st = "name" /\ job'[w].sock = s /\ \A v \in Worker \ W : SameJob(v)
    BY <1>3, <2>1, <2>2
  <2>4. HeldFor(w)'
    BY <1>5, <2>2, <2>3
  <2>5. t \in Topic /\ subs' = [subs EXCEPT ![t] = Append(subs[t], s)]
    BY <1>7 DEF Subscribe
  <2>6. ASSUME NEW u \in Sock, u # s PROVE Keeps(u)
    <3>1. Entries(u)' = Entries(u)
      BY <2>5, <2>6, AppendedEntries
    <3> QED
      BY <1>1, <2>2, <3>1
  <2>7. \A u \in W : /\ HeldFor(u)'
                     /\ \A v \in Worker \ W : job'[u].reader /\ job[v].reader => job[v].sock # job'[u].sock
    BY <1>6, <2>2, <2>3, <2>4
  <2>8. \A u \in Sock : \/ Keeps(u)
                        \/ LeftBehind(u)' /\ \A v \in Worker \ W : job[v].reader => job[v].sock # u
    BY <1>6, <2>2, <2>6 DEF LeftBehind
  <2> HIDE DEF W
  <2> QED
    BY <1>0, <2>3, <2>7, <2>8, SameHeld
<1>8. ASSUME NEW t \in Topic, Publish(w, s, t) PROVE HeldInv'
  <2>1. UNCHANGED <<conn, held, subs, job>>
    BY <1>8 DEF Publish, sockets, history
  <2>2. \A u \in Sock : Keeps(u)
    BY <1>1, <1>2, <2>1
  <2>3. {} \in SUBSET Worker /\ (\A u, v \in {} : u = v) /\ \A v \in Worker \ {} : SameJob(v)
    BY <2>1 DEF SameJob
  <2> QED
    BY <2>2, <2>3, SameHeld
<1>9. CASE NoAction(w, s)
  <2> DEFINE j == [Resting EXCEPT !.st = "reply", !.sock = s, !.reader = TRUE]
  <2>1. j.reader /\ j.st = "reply" /\ j.sock = s
    BY <1>4 DEF Job
  <2>2. job' = [job EXCEPT ![w] = j] /\ UNCHANGED <<conn, held, subs>> /\ conn[s] \in {"up", "gone"} /\ ~Reading(s)
    BY <1>9 DEF NoAction, Readable, Starts, sockets, history
  <2> HIDE DEF j
  <2>3. job'[w].reader /\ job'[w].st = "reply" /\ job'[w].sock = s /\ \A v \in Worker \ W : SameJob(v)
    BY <1>3, <2>1, <2>2
  <2>4. HeldFor(w)'
    BY <1>5, <2>2, <2>3
  <2>5. \A u \in W : /\ HeldFor(u)'
                     /\ \A v \in Worker \ W : job'[u].reader /\ job[v].reader => job[v].sock # job'[u].sock
    BY <1>6, <2>2, <2>3, <2>4
  <2>6. \A u \in Sock : Keeps(u)
    BY <1>1, <1>2, <2>2
  <2> HIDE DEF W
  <2> QED
    BY <1>0, <2>3, <2>5, <2>6, SameHeld
<1>10. CASE HungUp(w, s)
  <2> DEFINE j == [Resting EXCEPT !.st = "remove", !.sock = s, !.left = Removals, !.reader = TRUE]
  <2>1. j.reader /\ j.st = "remove" /\ j.sock = s /\ j.left = Removals
    BY <1>4 DEF Job
  <2>2. /\ job' = [job EXCEPT ![w] = j] /\ UNCHANGED <<conn, subs>> /\ conn[s] = "gone" /\ ~Reading(s)
        /\ held' = [held EXCEPT ![s] = Cardinality(Entries(s))]
    BY <1>0, <1>10 DEF HungUp, Starts, sockets
  <2> HIDE DEF j
  <2>3. /\ job'[w].reader /\ job'[w].st = "remove" /\ job'[w].sock = s /\ job'[w].left = Removals
        /\ \A v \in Worker \ W : SameJob(v)
    BY <1>3, <2>1, <2>2
  <2>4. Cardinality(Entries(s)) \in Nat /\ Entries(s)' = Entries(s) /\ held'[s] = Cardinality(Entries(s))
    BY <1>0, <1>2, <2>2, FiniteEntries
  <2>5. Done(w)' = 0
    BY <2>3 DEF Done, Removals
  <2>6. Cardinality(Entries(s)') <= Less(held'[s], 0)
    BY <2>4 DEF Less
  <2>7. HeldFor(w)'
    BY <2>2, <2>3, <2>5, <2>6 DEF HeldFor
  <2>8. \A u \in W : /\ HeldFor(u)'
                     /\ \A v \in Worker \ W : job'[u].reader /\ job[v].reader => job[v].sock # job'[u].sock
    BY <1>6, <2>2, <2>3, <2>7
  <2>9. \A u \in Sock : u # s => Keeps(u)
    BY <1>0, <1>1, <1>2, <2>2
  <2>10. LeftBehind(s)' /\ \A v \in Worker \ W : job[v].reader => job[v].sock # s
    BY <1>6, <2>2 DEF LeftBehind
  <2> HIDE DEF W
  <2> QED
    BY <1>0, <2>3, <2>8, <2>9, <2>10, SameHeld
<1>11. CASE HungUpAgain(w, s)
  <2> DEFINE j == [Resting EXCEPT !.st = "remove", !.sock = s, !.left = Removals, !.reader = FALSE]
  <2>1. ~j.reader /\ j.st = "remove"
    BY <1>4 DEF Job
  <2>2. job' = [job EXCEPT ![w] = j] /\ UNCHANGED <<conn, held, subs>>
    BY <1>0, <1>11 DEF HungUpAgain, Starts, sockets, history
  <2> HIDE DEF j
  <2>3. ~job'[w].reader /\ job'[w].st = "remove" /\ \A v \in Worker \ W : SameJob(v)
    BY <1>3, <2>1, <2>2
  <2>4. \A u \in W : HeldFor(u)' /\ ~job'[u].reader
    BY <2>3 DEF HeldFor
  <2>5. \A u \in Sock : Keeps(u)
    BY <1>1, <1>2, <2>2
  <2> HIDE DEF W
  <2> QED
    BY <1>0, <2>3, <2>4, <2>5, SameHeld
<1> QED
  BY <1>7, <1>8, <1>9, <1>10, <1>11 DEF Requests, Takes

(* And so do the sockets' coming and going, and the notifier. *)
LEMMA StepHeld ==
  ASSUME TypeInv, TypeInv', HeldInv, [AnyStep]_vars
  PROVE  HeldInv'
<1>1. ASSUME NEW u \in Sock, subs' = subs, conn'[u] = conn[u], held'[u] = held[u] PROVE Keeps(u)
  <2>1. Cardinality(Entries(u)) \in Nat /\ Entries(u)' = Entries(u)
    BY <1>1, FiniteEntries DEF Entries
  <2> QED
    BY <1>1, <2>1 DEF Keeps
<1>2. ASSUME job' = job, \A s \in Sock : \/ Keeps(s)
                                         \/ conn[s] = "up" /\ conn'[s] \in {"up", "gone"}
                                         \/ conn[s] \notin {"up", "gone"} /\ conn'[s] # "closed"
      PROVE  HeldInv'
  <2>1. ASSUME NEW s \in Sock, conn[s] \notin {"up", "gone"}, NEW v \in Worker, job[v].reader PROVE job[v].sock # s
    BY <2>1 DEF HeldInv, HeldFor
  <2>2. \A s \in Sock : \/ Keeps(s)
                        \/ conn[s] = "up" /\ conn'[s] \in {"up", "gone"}
                        \/ LeftBehind(s)' /\ \A v \in Worker : job[v].reader => job[v].sock # s
    BY <1>2, <2>1 DEF LeftBehind
  <2>3. {} \in SUBSET Worker /\ (\A u, v \in {} : u = v) /\ (\A v \in Worker : SameJob(v)) /\ Worker \ {} = Worker
    BY <1>2 DEF SameJob
  <2> QED
    BY <2>2, <2>3, SameHeld
<1>3. ASSUME NEW s \in Sock, NewClient(s) \/ CleanUp(s) \/ Peer(s) PROVE HeldInv'
  <2>1. conn \in [Sock -> {"free", "up", "gone", "closed"}] /\ held \in [Sock -> Nat]
    BY DEF TypeInv, TypeOK
  <2>2. UNCHANGED <<job, subs>> /\ (held' = held \/ held' = [held EXCEPT ![s] = 0])
    BY <1>3 DEF NewClient, CleanUp, Peer, PeerReads, PeerHangsUp, history
  <2>3. \/ conn' = conn /\ held' = held
        \/ conn[s] = "up" /\ conn' = [conn EXCEPT ![s] = "gone"]
        \/ conn[s] = "free" /\ conn' = [conn EXCEPT ![s] = "up"]
        \/ conn[s] = "closed" /\ conn' = [conn EXCEPT ![s] = "free"]
    BY <1>3 DEF NewClient, CleanUp, Peer, PeerReads, PeerHangsUp, history
  <2>4. \A u \in Sock : u # s => Keeps(u)
    BY <1>1, <2>1, <2>2, <2>3
  <2>5. \/ Keeps(s)
        \/ conn[s] = "up" /\ conn'[s] \in {"up", "gone"}
        \/ conn[s] \notin {"up", "gone"} /\ conn'[s] # "closed"
    BY <1>1, <2>1, <2>2, <2>3
  <2> QED
    BY <1>2, <2>2, <2>4, <2>5
<1>4. CASE NotifierStep \/ Drains \/ UNCHANGED vars
  <2>1. UNCHANGED <<conn, held, subs, job>>
    BY <1>4 DEF Drains, NotifierStep, Wake, ErasePublished, TakeTopic, SendPublication, SetPublished, EndOfObjects, Transmit,
       vars, sockets, history
  <2> QED
    BY <1>1, <1>2, <2>1
<1> QED
  BY <1>3, <1>4, ContinueHeld, BeginHeld DEF AnyStep

(* At the start there are no callbacks and no subscriptions. *)
LEMMA InitHeld == Init => HeldInv
<1> SUFFICES ASSUME Init PROVE HeldInv
  OBVIOUS
<1>1. \A w \in Worker : ~job[w].reader /\ job[w].st = "idle"
  BY DEF Init, Resting
<1>2. \A s \in Sock : conn[s] # "closed"
  BY DEF Init
<1> QED
  BY <1>1, <1>2 DEF HeldInv, HeldFor, LeftBehind

(* Reporting a hang-up erases two subscriptions: a client that had at most two
   is forgotten when its socket is closed, and of one with more at most all but
   two stay behind, though other callbacks work on the lists meanwhile. *)
THEOREM ClosedIsForgotten == Spec => []ForgottenUpToTwo
<1>1. HeldInv => ForgottenUpToTwo
  BY DEF HeldInv, LeftBehind, ForgottenUpToTwo, Less, Removals
<1>2. TypeInv /\ HeldInv /\ [Next]_vars => HeldInv'
  BY StepHeld, StepType, NextIsAny
<1> QED
  BY <1>1, <1>2, InitType, StepType, InitHeld, PTL DEF Spec

(* send() ends the process only over a socket whose hang-up is still to be
   reported, or that left subscriptions behind. *)
LEMMA SendDies ==
  ASSUME TypeInv, HeldInv, NEW s \in Sock, Transmit(s), alive, ~alive', Entries(s) # {} \/ conn[s] # "closed"
  PROVE  s \in broken /\ ~Forgotten(s)
<1>1. conn[s] \in {"gone", "closed"} /\ s \in broken
  BY DEF Transmit, sockets
<1>2. ASSUME conn[s] = "closed" PROVE ~(held[s] <= 2)
  <2>1. IsFiniteSet(Entries(s)) /\ Cardinality(Entries(s)) \in Nat /\ Entries(s) # {}
    BY <1>2, FiniteEntries
  <2>2. Cardinality(Entries(s)) # 0
    BY <2>1, FS_EmptySet
  <2>3. Cardinality(Entries(s)) <= Less(held[s], 2)
    BY <1>2 DEF HeldInv, LeftBehind, Removals
  <2>4. held[s] \in Nat
    BY DEF TypeInv, TypeOK
  <2> QED
    BY <2>1, <2>2, <2>3, <2>4 DEF Less
<1> QED
  BY <1>1, <1>2 DEF Forgotten

(* Who stands in a list has an entry. *)
LEMMA ListedHasEntry ==
  ASSUME TypeInv, NEW t \in Topic, NEW i \in Nat \ {0}, i <= Len(subs[t])
  PROVE  subs[t][i] \in Sock /\ Entries(subs[t][i]) # {}
<1>1. subs[t] \in Seq(Sock) /\ Len(subs[t]) <= MaxSubs /\ Len(subs[t]) \in Nat /\ MaxSubs \in Nat
  BY LenProperties, BrokerAssumption DEF TypeInv, TypeOK
<1>2. i \in 1 .. Len(subs[t]) /\ i \in 1 .. MaxSubs
  BY <1>1
<1>3. subs[t][i] \in Sock
  BY <1>1, <1>2, ElementOfSeq
<1>4. <<t, i>> \in Entries(subs[t][i])
  BY <1>1, <1>2 DEF Entries
<1> QED
  BY <1>3, <1>4

(* Where no node was erased under an iterator, a step that ends the process does
   it with a send() to a broken socket that has not been forgotten. *)
LEMMA StepDies ==
  ASSUME TypeInv, HeldInv, [AnyStep]_vars, alive, ~alive', ~torn'
  PROVE  \E s \in broken : SentTo(s) /\ ~Forgotten(s)
<1>1. ASSUME NEW w \in Worker, Continue(w) PROVE \E s \in broken : SentTo(s) /\ ~Forgotten(s)
  <2>0. job[w] \in Jobs /\ job[w] \in Job /\ HeldFor(w) /\ job[w].at \in Nat \ {0}
    BY DEF TypeInv, HeldInv, Jobs, Job
  <2>1. CASE SendName(w) \/ Reply(w)
    <3>1. job[w].st \in {"name", "reply"} /\ Transmit(job[w].sock)
      BY <2>1 DEF SendName, Reply, At
    <3>2. job[w].sock \in Sock /\ conn[job[w].sock] # "closed"
      BY <2>0, <3>1 DEF HeldFor, Jobs
    <3>3. job[w].sock \in broken /\ ~Forgotten(job[w].sock)
      BY <3>1, <3>2, SendDies
    <3>4. job'[w].st \in {"start", "unique", "idle"}
      BY <2>1 DEF SendName, Reply, Goes, Resting, TypeInv, TypeOK
    <3>5. SentTo(job[w].sock)
      BY <3>1, <3>4 DEF SentTo, StandsBefore
    <3> QED
      BY <3>3, <3>5
  <2>2. CASE SendOrder(w)
    <3>1. Order(w) \in Topic /\ job[w].at <= Len(subs[Order(w)]) /\ Transmit(subs[Order(w)][job[w].at])
      BY <2>2, BrokerAssumption DEF SendOrder, Order
    <3>2. subs[Order(w)][job[w].at] \in Sock /\ Entries(subs[Order(w)][job[w].at]) # {}
      BY <2>0, <3>1, ListedHasEntry
    <3>3. subs[Order(w)][job[w].at] \in broken /\ ~Forgotten(subs[Order(w)][job[w].at])
      BY <3>1, <3>2, SendDies
    <3>4. job'[w].at = job[w].at + 1 /\ Ordering(w)
      BY <2>0, <2>2 DEF SendOrder, TypeInv, TypeOK, Jobs
    <3>5. job'[w] # job[w]
      BY <2>0, <3>4
    <3>6. SentTo(subs[Order(w)][job[w].at])
      BY <3>1, <3>4, <3>5 DEF SentTo, StandsBefore
    <3> QED
      BY <3>3, <3>6
  <2>3. ASSUME NEW t, NEW K, NEW next, Erase(w, t, K, next) PROVE FALSE
    BY <2>3 DEF Erase
  <2> QED
    BY <1>1, <2>1, <2>2, <2>3 DEF Continue, OrderSent, MakeUnique, RemoveFirst, NoneToRemove, CheckViewers, RemovalDone,
       MarkClosed, sockets
<1>2. CASE SendPublication
  <2>1. ntf.st = "send" /\ ntf.at <= Len(Audience) /\ Transmit(Audience[ntf.at])
    BY <1>2 DEF SendPublication, Sending
  <2>2. objects[ntf.k].topic \in Topic /\ ntf.at \in Nat \ {0} /\ Audience = subs[objects[ntf.k].topic]
    BY <2>1, AudienceType DEF Audience, TypeInv
  <2>3. Audience[ntf.at] \in Sock /\ Entries(Audience[ntf.at]) # {}
    BY <2>1, <2>2, ListedHasEntry
  <2>4. Audience[ntf.at] \in broken /\ ~Forgotten(Audience[ntf.at])
    BY <2>1, <2>3, SendDies
  <2>5. ntf'.at = ntf.at + 1
    BY <1>2 DEF SendPublication, TypeInv, TypeOK
  <2>6. ntf' # ntf
    BY <2>2, <2>5
  <2>7. SentTo(Audience[ntf.at])
    BY <1>2, <2>1, <2>6 DEF SentTo, SendPublication
  <2> QED
    BY <2>4, <2>7
<1>3. CASE UNCHANGED alive
  BY <1>3
<1> QED
  BY <1>1, <1>2, <1>3 DEF AnyStep, Drains, NotifierStep, Wake, ErasePublished, TakeTopic, SetPublished, EndOfObjects,
     Requests, Takes, Subscribe, Publish, NoAction, HungUp, HungUpAgain, NewClient, CleanUp, Peer, PeerReads, PeerHangsUp,
     vars, sockets

(* A client that has been forgotten does no harm: what ends the process, when no
   node was erased under an iterator, is a send() to a peer whose hang-up is
   still to be reported, or that had more than two subscriptions. *)
THEOREM ForgottenIsHarmless == Spec => DiesOfTheUnforgotten
<1>1. TypeInv /\ HeldInv /\ [Next]_vars =>
        [alive /\ ~alive' /\ ~torn' => \E s \in broken : SentTo(s) /\ ~Forgotten(s)]_vars
  BY StepDies, NextIsAny
<1>2. TypeInv /\ HeldInv /\ [Next]_vars => HeldInv'
  BY StepHeld, StepType, NextIsAny
<1> QED
  BY <1>1, <1>2, InitType, StepType, InitHeld, PTL DEF Spec, DiesOfTheUnforgotten
-----------------------------------------------------------------------------
(* The camera's orders, in a server whose only worker is the main thread.  The
   last order says "askstream" exactly when somebody is listed as a viewer,
   except between the change of the list and the order that follows it. *)

Ordered == asked = "start" <=> subs[View] # <<>>
NewViewer == job[Main].st = "name" /\ job[Main].topic = View

StreamInv ==
  Worker = {Main} =>
    /\ NewViewer => subs[View] # <<>>
    /\ job[Main].st = "viewers" => asked = "start"
    /\ NewViewer \/ job[Main].st = "viewers" \/ Ordered

(* unique() leaves no list empty that was not. *)
LEMMA UniqueKeepsFirst ==
  ASSUME NEW q \in Seq(Sock)
  PROVE  Kept(q, Unique(q)) = <<>> <=> q = <<>>
<1> DEFINE K == Unique(q)
<1>1. Len(q) \in Nat /\ K \in SUBSET (1 .. Len(q)) /\ (q = <<>> <=> Len(q) = 0)
  BY LenProperties, EmptySeq DEF Unique
<1>2. Kept(q, K) \in Seq(Sock) /\ Len(Kept(q, K)) = Cardinality(K) /\ Len(Kept(q, K)) <= Len(q)
  BY <1>1, KeptList
<1>3. IsFiniteSet(K) /\ Cardinality(K) \in Nat
  BY <1>1, Places
<1>4. Len(q) > 0 => 1 \in K
  BY <1>1 DEF Unique
<1>5. Len(q) > 0 => Cardinality(K) # 0
  BY <1>3, <1>4, FS_EmptySet
<1> HIDE DEF K
<1>6. Kept(q, K) = <<>> <=> Cardinality(K) = 0
  BY <1>2, <1>3, EmptySeq
<1>7. Len(q) = 0 => Cardinality(K) = 0
  BY <1>1, <1>2, <1>3
<1> QED
  BY <1>1, <1>3, <1>5, <1>6, <1>7 DEF K

(* The invariant holds in every reachable state. *)
LEMMA StepStream ==
  ASSUME TypeInv, StreamInv, [AnyStep]_vars
  PROVE  StreamInv'
<1> SUFFICES ASSUME Worker = {Main}
             PROVE  /\ NewViewer' => subs'[View] # <<>>
                    /\ job'[Main].st = "viewers" => asked' = "start"
                    /\ NewViewer' \/ job'[Main].st = "viewers" \/ Ordered'
  BY DEF StreamInv
<1>0. /\ Main \in Worker /\ View \in Topic /\ job \in [Worker -> Jobs] /\ job[Main] \in Job
      /\ subs \in [Topic -> Seq(Sock)]
      /\ NewViewer => subs[View] # <<>>
      /\ job[Main].st = "viewers" => asked = "start"
      /\ NewViewer \/ job[Main].st = "viewers" \/ Ordered
  BY BrokerAssumption DEF TypeInv, TypeOK, StreamInv, Jobs
<1>1. ASSUME UNCHANGED <<asked, subs>>, ~NewViewer, job[Main].st # "viewers",
             job'[Main].st \notin {"name", "viewers"}
      PROVE  StreamInv'
  BY <1>0, <1>1 DEF StreamInv, NewViewer, Ordered
<1>1a. ASSUME NEW st, job' = Goes(Main, st) PROVE job'[Main].st = st /\ job'[Main].topic = job[Main].topic
  <2>1. job'[Main] = [job[Main] EXCEPT !.st = st, !.at = 1]
    BY <1>0, <1>1a DEF Goes
  <2> QED
    BY <1>0, <2>1 DEF Job
<1>2. ASSUME Continue(Main) PROVE StreamInv'
  <2>1. CASE SendName(Main)
    <3>1. /\ job[Main].st = "name" /\ subs' = subs /\ job'[Main].st \in {"start", "unique"}
          /\ IF job[Main].topic = View THEN asked' = "start" ELSE UNCHANGED asked
      BY <1>1a, <2>1 DEF SendName, At
    <3> QED
      BY <1>0, <3>1 DEF StreamInv, NewViewer, Ordered
  <2>2. CASE SendOrder(Main) \/ OrderSent(Main) \/ Reply(Main) \/ NoneToRemove(Main) \/ RemovalDone(Main)
             \/ MarkClosed(Main)
    <3>1. /\ UNCHANGED <<asked, subs>> /\ job[Main].st \notin {"name", "viewers"}
      BY <2>2 DEF SendOrder, OrderSent, Ordering, Reply, NoneToRemove, RemovalDone, MarkClosed, At, history
    <3>2. job'[Main].st \notin {"name", "viewers"}
      BY <1>0, <2>2 DEF SendOrder, OrderSent, Ordering, Reply, NoneToRemove, RemovalDone, MarkClosed, Goes, Resting, Job
    <3> QED
      BY <1>1, <3>1, <3>2 DEF NewViewer
  <2>3. CASE MakeUnique(Main)
    <3> DEFINE t == job[Main].topic
    <3>1. /\ job[Main].st = "unique" /\ asked' = asked /\ t \in Topic
          /\ Erase(Main, t, Unique(subs[t]), [job[Main] EXCEPT !.st = "reply"])
      BY <1>0, <2>3 DEF MakeUnique, At, Job
    <3>2. job'[Main].st = "reply"
      BY <1>0, <3>1 DEF Erase, Job
    <3>3. subs' = [subs EXCEPT ![t] = Kept(subs[t], Unique(subs[t]))]
      BY <3>1 DEF Erase
    <3>4. subs'[View] = <<>> <=> subs[View] = <<>>
      BY <1>0, <3>1, <3>3, UniqueKeepsFirst
    <3> QED
      BY <1>0, <3>1, <3>2, <3>4 DEF StreamInv, NewViewer, Ordered
  <2>4. CASE RemoveFirst(Main)
    <3> DEFINE e == First(job[Main].sock)
               next == [job[Main] EXCEPT !.st = IF e[1] = View THEN "viewers" ELSE "removed"]
    <3>1. /\ job[Main].st = "remove" /\ asked' = asked /\ e[1] \in Topic
          /\ e[2] \in 1 .. MaxSubs /\ e[2] <= Len(subs[e[1]])
          /\ Erase(Main, e[1], (1 .. Len(subs[e[1]])) \ {e[2]}, next)
      BY <2>4, FirstEntry DEF RemoveFirst, At
    <3>2. next.st = IF e[1] = View THEN "viewers" ELSE "removed"
      BY <1>0 DEF Job
    <3>3. job'[Main] = next /\ \A u \in Topic : u # e[1] => subs'[u] = subs[u]
      BY <1>0, <3>1 DEF Erase
    <3> HIDE DEF next
    <3>4. CASE e[1] = View
      <4>1. Len(subs[View]) > 0
        BY <3>1, <3>4, BrokerAssumption, LenProperties, <1>0
      <4>2. subs[View] # <<>>
        BY <4>1
      <4>3. asked = "start"
        BY <1>0, <3>1, <4>2 DEF NewViewer, Ordered
      <4> QED
        BY <3>1, <3>2, <3>3, <3>4, <4>3 DEF StreamInv, NewViewer
    <3>5. CASE e[1] # View
      BY <1>0, <3>1, <3>2, <3>3, <3>5 DEF StreamInv, NewViewer, Ordered
    <3> QED
      BY <3>4, <3>5
  <2>5. CASE CheckViewers(Main)
    <3>1. /\ job[Main].st = "viewers" /\ subs' = subs /\ job'[Main].st \in {"stop", "removed"}
          /\ IF subs[View] = <<>> THEN asked' = "stop" ELSE UNCHANGED asked
      BY <1>1a, <2>5 DEF CheckViewers, At, LastViewer
    <3> QED
      BY <1>0, <3>1 DEF StreamInv, NewViewer, Ordered
  <2> QED
    BY <1>2, <2>1, <2>2, <2>3, <2>4, <2>5 DEF Continue
<1>3. ASSUME NEW s \in Sock, Requests(Main, s) PROVE StreamInv'
  <2>1. job[Main].st = "idle" /\ asked' = asked
    BY <1>3 DEF Requests, Takes, Subscribe, Publish, NoAction, HungUp, HungUpAgain, Idle, history
  <2>2. ASSUME NEW t \in Topic, Subscribe(Main, s, t) PROVE StreamInv'
    <3>1. t \in Topic /\ subs' = [subs EXCEPT ![t] = Append(subs[t], s)]
      BY <2>2 DEF Subscribe
    <3>2. Resting \in Job
      BY RestingType DEF Jobs
    <3>3. job'[Main].st = "name" /\ job'[Main].topic = t
      BY <1>0, <2>2, <3>2 DEF Subscribe, Job
    <3>4. CASE t = View
      <4>1. subs'[View] # <<>>
        <5>1. subs'[View] = Append(subs[View], s) /\ subs[View] \in Seq(Sock)
          BY <1>0, <3>1, <3>4
        <5>2. Len(subs'[View]) = Len(subs[View]) + 1 /\ Len(subs[View]) \in Nat
          BY <5>1, AppendProperties, LenProperties
        <5>3. Len(subs'[View]) # 0
          BY <5>2
        <5> QED
          BY <5>3
      <4> QED
        BY <3>3, <3>4, <4>1 DEF StreamInv, NewViewer
    <3>5. CASE t # View
      BY <1>0, <2>1, <3>1, <3>3, <3>5 DEF StreamInv, NewViewer, Ordered
    <3> QED
      BY <3>4, <3>5
  <2>3. CASE \/ \E t \in Topic : Publish(Main, s, t)
             \/ NoAction(Main, s) \/ HungUp(Main, s) \/ HungUpAgain(Main, s)
    <3>1. subs' = subs
      BY <2>3 DEF Publish, NoAction, HungUp, HungUpAgain
    <3>2. job'[Main].st \in {"idle", "reply", "remove"}
      <4> DEFINE j == [Resting EXCEPT !.st = "reply", !.sock = s, !.reader = TRUE]
                 k == [Resting EXCEPT !.st = "remove", !.sock = s, !.left = Removals, !.reader = TRUE]
                 l == [Resting EXCEPT !.st = "remove", !.sock = s, !.left = Removals, !.reader = FALSE]
      <4>1. j.st = "reply" /\ k.st = "remove" /\ l.st = "remove"
        BY RestingType DEF Jobs, Job
      <4>2. \/ job' = job
            \/ job' = [job EXCEPT ![Main] = j]
            \/ job' = [job EXCEPT ![Main] = k]
            \/ job' = [job EXCEPT ![Main] = l]
        <5>1. CASE HungUp(Main, s)
          BY <1>0, <5>1 DEF HungUp, Starts, Resting
        <5>2. CASE HungUpAgain(Main, s)
          BY <1>0, <5>2 DEF HungUpAgain, Starts, Resting
        <5> QED
          BY <2>3, <5>1, <5>2 DEF Publish, NoAction, Starts
      <4> HIDE DEF j, k, l
      <4> QED
        BY <1>0, <2>1, <4>1, <4>2
    <3> QED
      BY <1>1, <2>1, <3>1, <3>2 DEF NewViewer
  <2> QED
    BY <1>3, <2>2, <2>3 DEF Requests, Takes
<1>4. ASSUME UNCHANGED <<asked, subs, job>> PROVE StreamInv'
  BY <1>0, <1>4 DEF StreamInv, NewViewer, Ordered
<1>5. StreamInv'
  <2>1. ASSUME NEW w \in Worker, Continue(w) \/ \E s \in Sock : Requests(w, s) PROVE StreamInv'
    <3>1. w = Main
      OBVIOUS
    <3> QED
      BY <1>2, <1>3, <2>1, <3>1
  <2>2. ASSUME NEW s \in Sock, NewClient(s) \/ CleanUp(s) \/ Peer(s) PROVE StreamInv'
    BY <1>4, <2>2 DEF NewClient, CleanUp, Peer, PeerReads, PeerHangsUp, history
  <2>3. CASE NotifierStep \/ Drains \/ UNCHANGED vars
    BY <1>4, <2>3 DEF Drains, NotifierStep, Wake, ErasePublished, TakeTopic, SendPublication, SetPublished,
       EndOfObjects, vars, history
  <2> QED
    BY <2>1, <2>2, <2>3 DEF AnyStep
<1> QED
  BY <1>5 DEF StreamInv

(* At the start nobody is listed and no order was given. *)
LEMMA InitStream == Init => StreamInv
<1> SUFFICES ASSUME Init PROVE Ordered /\ job[Main].st = "idle"
  BY DEF StreamInv, NewViewer
<1>1. asked = "none" /\ subs[View] = <<>> /\ job[Main] = Resting
  BY BrokerAssumption DEF Init
<1> QED
  BY <1>1, RestingType DEF Ordered

(* Between callbacks nothing of a change of the viewers is left to do. *)
LEMMA StreamBetween == StreamInv => StreamFollowsViewers
BY DEF StreamInv, StreamFollowsViewers, NewViewer, Ordered, Idle

(* Between callbacks of a server without heavy clients, the camera has been told
   to stream exactly when somebody is listed as a viewer. *)
THEOREM StreamOrdered == Spec => []StreamFollowsViewers
<1>1. TypeInv /\ StreamInv /\ [Next]_vars => StreamInv'
  BY StepStream, NextIsAny
<1> QED
  BY <1>1, InitStream, StreamBetween, InitType, StepType, PTL DEF Spec
=============================================================================
