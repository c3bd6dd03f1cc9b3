-------------------------- MODULE ListRace_proofs --------------------------
(* The theorems about ListRace: for any number of appending threads and of
   publications, what the races on m_objects can do and what they cannot. *)
EXTENDS ListRace, TLAPS, FiniteSetTheorems, WellFoundedInduction

-----------------------------------------------------------------------------
(* The invariants. *)

Sound == 0 .. made   \* the header and the nodes made so far
ListTypes ==
  /\ made \in 0 .. MaxPub /\ size \in Nat
  /\ next \in [Place -> Sound] /\ prev \in [Place -> Sound]
  /\ published \subseteq 1 .. made /\ freed \subseteq 1 .. made
  /\ app \in [Appender -> [st : {"idle", "tail", "header", "load", "store"},
                           node : Sound, tail : Sound, n : Nat]]
  /\ ntf \in [st : {"look", "store", "unlink", "forward", "back"},
              at : Sound, next : Sound, prev : Sound, n : Nat]
  /\ alive \in BOOLEAN /\ crossed \in BOOLEAN /\ cut \in BOOLEAN /\ skew \in BOOLEAN
  /\ \A a \in Appender : Linking(a) => app[a].node # Header
  /\ ntf.st # "look" => ntf.at # Header

(* An iterator that is not at the end found the counter above zero, and since
   then only appends have stored to it. *)
CountedUp ==
  /\ ntf.st = "look" /\ ntf.at # Header => size > 0
  /\ ntf.st = "store" => ntf.n > 0

(* Whatever overlaps: links lead from earlier nodes to later ones, never from a
   node that was not erased to one that was, and a node knows the one that leads
   to it, but for the node behind the one being unlinked. *)
Fresh == {app[a].node : a \in {b \in Appender : app[b].st = "tail"}}
Links ==
  \A x \in Sound \ freed :
    /\ next[x] \notin freed /\ next[x] \notin Fresh
    /\ next[x] # Header =>
         /\ x < next[x]
         /\ prev[next[x]] = x \/ (ntf.st = "back" /\ x = ntf.prev /\ next[x] = ntf.next)
Later == \A x \in Sound \ {Header} : prev[x] < x
FreshNodes ==
  /\ \A a, b \in Appender : app[a].st = "tail" /\ app[b].st = "tail" /\ app[a].node = app[b].node => a = b
  /\ \A a \in Appender : app[a].st = "tail" =>
       app[a].node \notin freed /\ prev[app[a].node] = app[a].tail
Iterator ==
  /\ ntf.at \notin freed /\ ntf.at \notin Fresh
  /\ Unlinking =>
       /\ ntf.prev = prev[ntf.at] /\ ntf.next \notin freed /\ ntf.next \notin Fresh
       /\ ntf.next # Header => ntf.at < ntf.next /\ prev[ntf.next] = ntf.at
  /\ ntf.st = "back" => \A x \in Sound \ freed : next[x] # ntf.at

ChainInv == ListTypes /\ CountedUp /\ Links /\ Later /\ FreshNodes /\ Iterator

(* The counter, with the nodes it is still to count and to count out. *)
CountInv ==
  ~skew =>
    size + Cardinality(Counting({"tail", "header", "load", "store"})) + Cardinality(freed)
      + (IF ntf.st \in {"unlink", "forward", "back"} THEN 1 ELSE 0) = made

(* The list is empty to a walk only while the iterator is at its end. *)
EmptyInv == next[Header] = Header /\ ~Unlinking => ntf.st = "look" /\ ntf.at = Header

(* While no two appends have overlapped, nor an erasure of the last node and an
   append, the list is whole: every node that was linked and not erased is
   linked both ways, the last one is the one the header leads back to, and what
   erase() has read of the neighbours is still so. *)
Held == Listed \ freed
Ring == Held \cup {Header}
Backed ==
  \A x \in Held : ~(ntf.st = "back" /\ x \in {ntf.at, ntf.next}) =>
    prev[x] \in Ring /\ next[prev[x]] = x
Onward == \A x \in Ring : next[x] \in Ring
HeaderDue == \E a \in Appender : app[a].st = "header"
BackDue == ntf.st = "back" /\ ntf.next = Header
Tail ==
  /\ \A a \in Appender : app[a].st = "header" =>
       /\ app[a].node \in Held /\ next[app[a].node] = Header
       /\ \A x \in Ring : next[x] = Header => x = app[a].node
  /\ ~HeaderDue /\ ~BackDue =>
       /\ prev[Header] \in Ring /\ next[prev[Header]] = Header
       /\ \A x \in Ring : next[x] = Header => x = prev[Header]
  /\ BackDue => \A x \in Ring : next[x] = Header => x \in {ntf.at, ntf.prev}
  /\ \A a \in Appender : app[a].st = "tail" =>
       app[a].tail = prev[Header] /\ next[app[a].node] = Header
Erasing ==
  Unlinking =>
    /\ next[ntf.at] = ntf.next /\ ntf.prev \in Ring
    /\ ntf.next = Header => \A a \in Appender : ~Linking(a)
    /\ \A a \in Appender : app[a].st = "header" => app[a].node # ntf.at
    /\ ntf.st = "back" => next[ntf.prev] = ntf.next
OneAppend == \A a, b \in Appender : Linking(a) /\ Linking(b) => a = b
Whole == Backed /\ Onward /\ Tail /\ Erasing /\ OneAppend
WholeInv == ~crossed /\ ~cut => Whole

-----------------------------------------------------------------------------
(* Types and links, whatever overlaps. *)

(* The empty list. *)
LEMMA ChainInit == Init => ChainInv
<1>1. SUFFICES ASSUME Init PROVE ChainInv
  OBVIOUS
<1>2. /\ made = 0 /\ size = 0 /\ published = {} /\ freed = {} /\ alive = TRUE
      /\ crossed = FALSE /\ cut = FALSE /\ skew = FALSE
      /\ next = [x \in Place |-> 0] /\ prev = [x \in Place |-> 0]
      /\ app = [a \in Appender |-> [st |-> "idle", node |-> 0, tail |-> 0, n |-> 0]]
      /\ ntf = [st |-> "look", at |-> 0, next |-> 0, prev |-> 0, n |-> 0]
  BY <1>1 DEF Init, Header
<1>3. Sound = {0} /\ 0 \in Sound /\ MaxPub \in Nat
  BY <1>2, ListRaceAssumption DEF Sound
<1>4. 0 \in Place
  BY DEF Place, Header
<1>5. ListTypes
  <2>1. app \in [Appender -> [st : {"idle", "tail", "header", "load", "store"},
                              node : Sound, tail : Sound, n : Nat]]
    BY <1>2, <1>3
  <2>2. ntf \in [st : {"look", "store", "unlink", "forward", "back"},
                 at : Sound, next : Sound, prev : Sound, n : Nat]
    BY <1>2, <1>3
  <2>3. next \in [Place -> Sound] /\ prev \in [Place -> Sound]
    BY <1>2, <1>3
  <2>4. \A a \in Appender : ~Linking(a)
    BY <1>2 DEF Linking
  <2>5. made \in 0 .. MaxPub /\ published \subseteq 1 .. made /\ freed \subseteq 1 .. made /\ size \in Nat
    BY <1>2, <1>3
  <2>6. ntf.st = "look"
    BY <1>2
  <2> QED
    BY <1>2, <2>1, <2>2, <2>3, <2>4, <2>5, <2>6 DEF ListTypes
<1>6. \A x : x \notin Fresh
  BY <1>2 DEF Fresh
<1>7. Links
  BY <1>2, <1>3, <1>4, <1>6 DEF Links, Header
<1>8. CountedUp /\ Later /\ FreshNodes /\ Iterator
  BY <1>2, <1>3, <1>6 DEF CountedUp, Later, FreshNodes, Iterator, Unlinking, Header
<1> QED
  BY <1>5, <1>7, <1>8 DEF ChainInv

(* An append makes its node behind all others, and nothing leads to it yet. *)
LEMMA MakeChain ==
  ASSUME ChainInv, NEW a \in Appender, Make(a)
  PROVE  ChainInv'
<1> DEFINE x == made + 1
           p == prev[Header]
<1>1. /\ made \in Nat /\ MaxPub \in Nat /\ made < MaxPub /\ made' = x /\ Header = 0
      /\ next \in [Place -> Sound] /\ prev \in [Place -> Sound] /\ ListTypes
  BY ListRaceAssumption DEF ChainInv, ListTypes, Make, Header
<1>2. /\ x \in Place /\ 0 \in Place /\ \A y \in Sound : y \in Place /\ y # x /\ y \in Nat /\ y < x
      /\ p \in Sound
  BY <1>1 DEF Place, Node, Header, Sound
<1>3. Sound' = Sound \cup {x} /\ x \notin Sound
  BY <1>1 DEF Sound
<1>4. /\ next' = [next EXCEPT ![x] = 0] /\ prev' = [prev EXCEPT ![x] = p]
      /\ app' = [app EXCEPT ![a] = [st |-> "tail", node |-> x, tail |-> p, n |-> 0]]
      /\ app[a].st = "idle"
      /\ UNCHANGED <<size, published, freed, ntf, alive, skew>>
  BY <1>1 DEF Make, Appending
<1> HIDE DEF x, p
<1>5. /\ next'[x] = 0 /\ prev'[x] = p
      /\ \A y \in Sound : next'[y] = next[y] /\ prev'[y] = prev[y]
      /\ next' \in [Place -> Sound'] /\ prev' \in [Place -> Sound']
  <2>1. 0 \in Sound'
    BY <1>1, <1>3 DEF Sound
  <2>2. \A y \in Place : next'[y] \in Sound' /\ prev'[y] \in Sound'
    BY <1>1, <1>2, <1>3, <1>4, <2>1
  <2>3. next' \in [Place -> Sound'] /\ prev' \in [Place -> Sound']
    BY <1>1, <1>4, <2>2
  <2> QED
    BY <1>1, <1>2, <1>4, <2>3
<1>6. /\ app' \in [Appender -> [st : {"idle", "tail", "header", "load", "store"},
                              node : Sound', tail : Sound', n : Nat]]
      /\ app'[a] = [st |-> "tail", node |-> x, tail |-> p, n |-> 0]
      /\ \A b \in Appender \ {a} : app'[b] = app[b]
  BY <1>1, <1>2, <1>3, <1>4 DEF ListTypes
<1>7. ListTypes'
  <2>1. ntf' \in [st : {"look", "store", "unlink", "forward", "back"},
                 at : Sound', next : Sound', prev : Sound', n : Nat]
    BY <1>1, <1>3, <1>4 DEF ListTypes
  <2>2. published' \subseteq 1 .. made' /\ freed' \subseteq 1 .. made' /\ made' \in 0 .. MaxPub
    BY <1>1, <1>2, <1>4 DEF ListTypes, x
  <2>3. \A b \in Appender : Linking(b)' => app'[b].node # Header
    BY <1>1, <1>2, <1>6 DEF ListTypes, Linking
  <2>4. crossed' \in BOOLEAN /\ cut' \in BOOLEAN
    BY Zenon DEF Make
  <2> QED
    BY <1>1, <1>4, <1>5, <1>6, <2>1, <2>2, <2>3, <2>4 DEF ListTypes
<1>8. Fresh' \subseteq Fresh \cup {x}
  BY <1>6 DEF Fresh
<1>9. x \notin freed /\ \A b \in Appender : app[b].node # x /\ app[b].node \in Sound
  BY <1>1, <1>2, <1>3 DEF ListTypes, Sound
<1>10. Links'
  <2>1. ASSUME NEW y \in Sound \ freed
        PROVE  /\ next'[y] \notin freed /\ next'[y] \notin Fresh'
               /\ next'[y] # 0 =>
                    /\ y < next'[y]
                    /\ prev'[next'[y]] = y \/ (ntf.st = "back" /\ y = ntf.prev /\ next'[y] = ntf.next)
    <3> DEFINE z == next[y]
    <3>1. next'[y] = z /\ z \in Sound /\ z # x /\ prev'[z] = prev[z]
      <4>1. y \in Place
        BY <1>2
      <4>2. z \in Sound
        BY <1>1, <4>1
      <4> QED
        BY <1>2, <1>5, <4>2
    <3>2. /\ z \notin freed /\ z \notin Fresh
          /\ z # 0 => y < z /\ (prev[z] = y \/ (ntf.st = "back" /\ y = ntf.prev /\ z = ntf.next))
      BY <1>1 DEF ChainInv, Links
    <3> HIDE DEF z
    <3> QED
      BY <1>8, <3>1, <3>2
  <2>2. 0 \notin freed /\ 0 \notin Fresh'
    <3>1. 0 \notin freed
      BY <1>1 DEF ListTypes
    <3> QED
      BY <1>1, <1>6, <3>1, <1>7 DEF Fresh, ListTypes, Linking
  <2> QED
    <3>1. ASSUME NEW y \in Sound' \ freed' PROVE y = x \/ y \in Sound \ freed
      BY <1>3, <1>4
    <3>2. Links' <=> \A y \in Sound' \ freed' :
                       /\ next'[y] \notin freed' /\ next'[y] \notin Fresh'
                       /\ next'[y] # 0 =>
                            /\ y < next'[y]
                            /\ prev'[next'[y]] = y \/ (ntf'.st = "back" /\ y = ntf'.prev /\ next'[y] = ntf'.next)
      BY <1>1 DEF Links
    <3> QED
      BY <1>4, <1>5, <2>1, <2>2, <3>1, <3>2
<1>11. Later'
  BY <1>1, <1>2, <1>3, <1>5 DEF Later, ChainInv
<1>12. FreshNodes'
  BY <1>4, <1>5, <1>6, <1>9 DEF FreshNodes, ChainInv
<1>13. Iterator'
  <2>1. /\ ntf.at \in Sound /\ ntf.next \in Sound
        /\ Unlinking => prev'[ntf.at] = prev[ntf.at] /\ prev'[ntf.next] = prev[ntf.next]
    BY <1>1, <1>5 DEF ListTypes
  <2>2. ntf.at \notin Fresh' /\ (Unlinking => ntf.next \notin Fresh')
    BY <1>3, <1>8, <2>1 DEF ChainInv, Iterator
  <2>3. ntf.st = "back" => \A y \in Sound' \ freed : next'[y] # ntf.at
    <3>1. ntf.st = "back" => ntf.at # 0
      BY <1>1 DEF ListTypes
    <3> QED
      BY <1>3, <1>5, <3>1 DEF ChainInv, Iterator
  <2> QED
    BY <1>4, <2>1, <2>2, <2>3 DEF Iterator, Unlinking, ChainInv
<1>14. CountedUp'
  BY <1>4 DEF CountedUp, ChainInv
<1> QED
  BY <1>7, <1>10, <1>11, <1>12, <1>13, <1>14 DEF ChainInv

(* What is known of the link behind a node that was not erased. *)
LEMMA LinkFacts ==
  ASSUME ChainInv, NEW x \in Sound, x \notin freed
  PROVE  /\ next[x] \in Sound /\ next[x] \notin freed /\ next[x] \notin Fresh
         /\ next[x] # Header =>
              x < next[x] /\ (prev[next[x]] = x \/ (ntf.st = "back" /\ x = ntf.prev /\ next[x] = ntf.next))
<1>1. \A y \in Sound : y \in Place
  BY ListRaceAssumption DEF Sound, Place, Node, Header, ChainInv, ListTypes
<1> QED
  BY <1>1 DEF ChainInv, ListTypes, Links

(* Numbers of nodes, and what is not among them. *)
LEMMA Nodes ==
  ASSUME ChainInv
  PROVE  /\ made \in Nat /\ Header = 0 /\ Header \in Sound /\ Header \notin freed /\ Header \notin Fresh
         /\ \A x \in Sound : x \in Nat /\ x \in Place /\ next[x] \in Sound /\ prev[x] \in Sound
         /\ freed \subseteq Sound
<1>1. ListTypes /\ MaxPub \in Nat /\ made \in Nat /\ made <= MaxPub
  BY ListRaceAssumption DEF ChainInv, ListTypes
<1>2. \A x \in Sound : x \in Nat /\ x \in Place
  BY <1>1 DEF Sound, Place, Node, Header
<1>3. Header = 0 /\ Header \in Sound
  BY <1>1 DEF Sound, Header
<1>4. \A x \in 1 .. made : x \in Sound /\ x # 0
  BY <1>1 DEF Sound
<1>5. Header \notin freed
  BY <1>1, <1>3, <1>4 DEF ListTypes
<1>6. Header \notin Fresh
  BY <1>1 DEF Fresh, ListTypes, Linking
<1> QED
  BY <1>1, <1>2, <1>3, <1>4, <1>5, <1>6 DEF ListTypes

(* The steps of an append that link its node. *)
LEMMA LinkTailChain ==
  ASSUME ChainInv, NEW a \in Appender, LinkTail(a)
  PROVE  ChainInv'
<1> DEFINE x == app[a].node
           t == app[a].tail
<1>1. /\ app[a].st = "tail" /\ next' = [next EXCEPT ![t] = x] /\ app' = [app EXCEPT ![a].st = "header"]
      /\ UNCHANGED <<prev, size, made, published, freed, ntf, history>> /\ alive' \in BOOLEAN
  BY DEF LinkTail, Linked, Appending
<1>2. ListTypes /\ Sound' = Sound
  BY <1>1 DEF ChainInv, Sound
<1>3. x \in Sound /\ t \in Sound /\ x # Header /\ x \in Fresh /\ x \notin freed /\ prev[x] = t
  BY <1>1, <1>2 DEF ListTypes, Fresh, Linking, ChainInv, FreshNodes
<1>4. t < x
  BY <1>3 DEF ChainInv, Later
<1>5. /\ app' \in [Appender -> [st : {"idle", "tail", "header", "load", "store"},
                              node : Sound, tail : Sound, n : Nat]]
      /\ app'[a].st = "header" /\ app'[a].node = x /\ \A b \in Appender \ {a} : app'[b] = app[b]
  BY <1>1, <1>2 DEF ListTypes
<1> HIDE DEF x, t
<1>6. /\ next' \in [Place -> Sound] /\ next'[t] = x /\ \A y \in Sound \ {t} : next'[y] = next[y]
  BY <1>1, <1>2, <1>3, Nodes DEF ListTypes
<1>7. Fresh' \subseteq Fresh /\ x \notin Fresh'
  BY <1>1, <1>5 DEF Fresh, ChainInv, FreshNodes, x
<1>8. ListTypes'
  BY <1>1, <1>2, <1>3, <1>5, <1>6 DEF ListTypes, Linking, history
<1>9. Links'
  <2>1. ASSUME NEW y \in Sound \ freed
        PROVE  /\ next'[y] \notin freed /\ next'[y] \notin Fresh'
               /\ next'[y] # Header =>
                    /\ y < next'[y]
                    /\ prev[next'[y]] = y \/ (ntf.st = "back" /\ y = ntf.prev /\ next'[y] = ntf.next)
    <3>1. CASE y = t
      BY <1>3, <1>4, <1>6, <1>7, <3>1
    <3>2. CASE y # t
      BY <1>6, <1>7, <3>2, LinkFacts
    <3> QED
      BY <3>1, <3>2
  <2> QED
    BY <1>1, <1>2, <2>1 DEF Links
<1>10. FreshNodes'
  BY <1>1, <1>5 DEF ChainInv, FreshNodes
<1>11. Iterator'
  <2>1. \A y \in Sound \ freed : ntf.st = "back" => next'[y] # ntf.at
    BY <1>3, <1>6 DEF ChainInv, Iterator
  <2> QED
    BY <1>1, <1>2, <1>7, <2>1 DEF ChainInv, Iterator, Unlinking
<1> QED
  BY <1>1, <1>2, <1>8, <1>9, <1>10, <1>11 DEF ChainInv, Later, CountedUp

(* The header is led back to the node: no other node's links change. *)
LEMMA LinkHeaderChain ==
  ASSUME ChainInv, NEW a \in Appender, LinkHeader(a)
  PROVE  ChainInv'
<1> DEFINE x == app[a].node
<1>1. /\ app[a].st = "header" /\ prev' = [prev EXCEPT ![Header] = x] /\ app' = [app EXCEPT ![a].st = "load"]
      /\ UNCHANGED <<next, size, made, published, freed, ntf, alive, history>>
  BY DEF LinkHeader, Appending
<1>2. ListTypes /\ Sound' = Sound
  BY <1>1 DEF ChainInv, Sound
<1>3. x \in Sound
  BY <1>2 DEF ListTypes
<1>4. /\ app' \in [Appender -> [st : {"idle", "tail", "header", "load", "store"},
                              node : Sound, tail : Sound, n : Nat]]
      /\ app'[a].st = "load" /\ app'[a].node = x /\ \A b \in Appender \ {a} : app'[b] = app[b]
  BY <1>1, <1>2 DEF ListTypes
<1> HIDE DEF x
<1>5. /\ prev' \in [Place -> Sound] /\ \A y \in Sound \ {Header} : prev'[y] = prev[y]
  BY <1>1, <1>2, <1>3, Nodes DEF ListTypes
<1>6. Fresh' = Fresh
  BY <1>1, <1>4 DEF Fresh
<1>7. ListTypes'
  BY <1>1, <1>2, <1>4, <1>5 DEF ListTypes, Linking, history
<1>8. Links'
  <2>1. ASSUME NEW y \in Sound \ freed
        PROVE  /\ next[y] \notin freed /\ next[y] \notin Fresh
               /\ next[y] # Header =>
                    /\ y < next[y]
                    /\ prev'[next[y]] = y \/ (ntf.st = "back" /\ y = ntf.prev /\ next[y] = ntf.next)
    BY <1>5, LinkFacts
  <2> QED
    BY <1>1, <1>2, <1>6, <2>1 DEF Links
<1>9. Later'
  BY <1>2, <1>5 DEF ChainInv, Later
<1>10. FreshNodes'
  <2>1. ASSUME NEW b \in Appender, app'[b].st = "tail"
        PROVE  app[b] = app'[b] /\ prev'[app[b].node] = prev[app[b].node]
    BY <1>2, <1>4, <1>5, <2>1 DEF ListTypes, Linking
  <2> QED
    BY <1>1, <2>1 DEF ChainInv, FreshNodes
<1>11. Iterator'
  <2>1. Unlinking => prev'[ntf.at] = prev[ntf.at]
    BY <1>2, <1>5 DEF ListTypes, Unlinking
  <2>2. Unlinking /\ ntf.next # Header => prev'[ntf.next] = prev[ntf.next]
    BY <1>2, <1>5 DEF ListTypes, Unlinking
  <2> QED
    BY <1>1, <1>2, <1>6, <2>1, <2>2 DEF ChainInv, Iterator, Unlinking
<1> QED
  BY <1>1, <1>7, <1>8, <1>9, <1>10, <1>11 DEF ChainInv, CountedUp

(* The counter's update touches no link. *)
LEMMA SizeChain ==
  ASSUME ChainInv, NEW a \in Appender, LoadSize(a) \/ StoreSize(a)
  PROVE  ChainInv'
<1>1. /\ ListTypes /\ Sound' = Sound
      /\ UNCHANGED <<next, prev, made, published, freed, ntf, alive, crossed, cut>>
  BY DEF LoadSize, StoreSize, memory, history, ChainInv, Sound
<1>2. \E r \in [st : {"idle", "tail", "header", "load", "store"}, node : Sound, tail : Sound, n : Nat] :
        /\ app' = [app EXCEPT ![a] = r] /\ r.st \in {"store", "idle"} /\ app[a].st \in {"load", "store"}
  <2>1. CASE LoadSize(a)
    <3>1. [app[a] EXCEPT !.st = "store", !.n = size]
            \in [st : {"idle", "tail", "header", "load", "store"}, node : Sound, tail : Sound, n : Nat]
      BY <1>1 DEF ListTypes
    <3> QED
      BY <1>1, <2>1, <3>1 DEF LoadSize, Appending, ListTypes
  <2>2. CASE StoreSize(a)
    <3>1. [app[a] EXCEPT !.st = "idle"]
            \in [st : {"idle", "tail", "header", "load", "store"}, node : Sound, tail : Sound, n : Nat]
      BY <1>1 DEF ListTypes
    <3> QED
      BY <1>1, <2>2, <3>1 DEF StoreSize, Appending, ListTypes
  <2> QED
    BY <2>1, <2>2
<1>3. /\ app' \in [Appender -> [st : {"idle", "tail", "header", "load", "store"},
                              node : Sound, tail : Sound, n : Nat]]
      /\ app'[a].st \in {"store", "idle"} /\ app[a].st \in {"load", "store"}
      /\ \A b \in Appender \ {a} : app'[b] = app[b]
  BY <1>1, <1>2 DEF ListTypes
<1>4. /\ size' \in Nat /\ skew' \in BOOLEAN
      /\ size' = size \/ size' > 0
  <2>1. CASE LoadSize(a)
    BY <1>1, <2>1 DEF LoadSize, memory, history, ListTypes
  <2>2. CASE StoreSize(a)
    <3>1. app[a].n \in Nat /\ size' = app[a].n + 1
      BY <1>1, <2>2 DEF StoreSize, ListTypes
    <3>2. skew' \in BOOLEAN
      BY <2>2, Zenon DEF StoreSize
    <3> QED
      BY <3>1, <3>2
  <2> QED
    BY <2>1, <2>2
<1>5. Fresh' = Fresh
  BY <1>3 DEF Fresh
<1>6. ListTypes'
  BY <1>1, <1>3, <1>4 DEF ListTypes, Linking
<1>7. FreshNodes'
  BY <1>1, <1>3 DEF ChainInv, FreshNodes
<1> QED
  BY <1>1, <1>4, <1>5, <1>6, <1>7 DEF ChainInv, Links, Later, Iterator, CountedUp, Unlinking

(* The notifier's walk. *)
LEMMA WalkChain ==
  ASSUME ChainInv, Wake \/ SendPublication \/ EraseLoad \/ EraseStore
  PROVE  ChainInv'
<1> DEFINE rec == [st : {"look", "store", "unlink", "forward", "back"},
                   at : Sound, next : Sound, prev : Sound, n : Nat]
<1>1. /\ ListTypes /\ CountedUp /\ ntf \in rec /\ ntf.at \in Sound /\ ntf.at \notin freed /\ ntf.at \notin Fresh
      /\ UNCHANGED <<next, prev, made, freed, app, alive, crossed, cut>>
  BY DEF Wake, SendPublication, EraseLoad, EraseStore, memory, history, ChainInv, ListTypes, Iterator
<1>2. Sound' = Sound /\ Fresh' = Fresh
  BY <1>1 DEF Sound, Fresh
<1>3. /\ ntf' \in rec /\ ntf'.at \notin freed /\ ntf'.at \notin Fresh
      /\ ntf'.st \in {"look", "store", "unlink"} /\ ntf.st \in {"look", "store"}
      /\ (ntf'.st # "look" => ntf'.at # Header)
      /\ size' \in Nat /\ published' \subseteq 1 .. made /\ skew' \in BOOLEAN
      /\ (ntf'.st = "look" /\ ntf'.at # Header => size' > 0)
      /\ (ntf'.st = "store" => ntf'.n > 0)
  <2>1. CASE Wake
    <3>1. next[Header] \in Sound /\ next[Header] \notin freed /\ next[Header] \notin Fresh
      BY Nodes, LinkFacts
    <3>2. /\ ntf' = [ntf EXCEPT !.at = next[Header]] /\ ntf.st = "look"
          /\ UNCHANGED <<size, published, skew>> /\ size # 0
      BY <2>1 DEF Wake, Notifying, memory, history, Worth
    <3>3. ntf' \in rec /\ ntf'.at = next[Header] /\ ntf'.st = "look"
      BY <1>1, <3>1, <3>2
    <3> QED
      BY <1>1, <3>1, <3>2, <3>3 DEF ListTypes
  <2>2. CASE SendPublication
    <3>1. next[ntf.at] \in Sound /\ next[ntf.at] \notin freed /\ next[ntf.at] \notin Fresh
      BY <1>1, LinkFacts
    <3>2. /\ ntf' = [ntf EXCEPT !.at = next[ntf.at]] /\ ntf.st = "look" /\ ntf.at # Header
          /\ UNCHANGED <<size, skew>> /\ published' = published \cup {ntf.at}
      BY <1>1, <2>2 DEF SendPublication, Notifying, memory, history
    <3>3. ntf' \in rec /\ ntf'.at = next[ntf.at] /\ ntf'.st = "look"
      BY <1>1, <3>1, <3>2
    <3>4. ntf.at \in 1 .. made /\ size > 0
      BY <1>1, <3>2, Nodes DEF Sound, CountedUp
    <3> QED
      BY <1>1, <3>1, <3>2, <3>3, <3>4 DEF ListTypes
  <2>3. CASE EraseLoad
    <3>1. /\ ntf' = [ntf EXCEPT !.st = "store", !.n = size] /\ ntf.st = "look" /\ ntf.at # Header
          /\ UNCHANGED <<size, published, skew>>
      BY <2>3 DEF EraseLoad, Notifying, memory, history
    <3>2. size \in Nat /\ size > 0
      BY <1>1, <3>1 DEF ListTypes, CountedUp
    <3>3. ntf' \in rec /\ ntf'.at = ntf.at /\ ntf'.st = "store" /\ ntf'.n = size
      BY <1>1, <3>1, <3>2
    <3> QED
      BY <1>1, <3>1, <3>2, <3>3 DEF ListTypes
  <2>4. CASE EraseStore
    <3>1. /\ ntf' = [ntf EXCEPT !.st = "unlink"] /\ ntf.st = "store"
          /\ UNCHANGED published /\ size' = ntf.n - 1
      BY <2>4 DEF EraseStore, Goes, Notifying
    <3>2. skew' \in BOOLEAN
      BY <2>4, Zenon DEF EraseStore
    <3>3. ntf' \in rec /\ ntf'.at = ntf.at /\ ntf'.st = "unlink"
      BY <1>1, <3>1
    <3>4. size' \in Nat
      BY <1>1, <3>1 DEF CountedUp
    <3> QED
      BY <1>1, <3>1, <3>2, <3>3, <3>4 DEF ListTypes
  <2> QED
    BY <2>1, <2>2, <2>3, <2>4
<1>4. ListTypes'
  BY <1>1, <1>2, <1>3 DEF ListTypes, Linking
<1>5. Iterator' /\ CountedUp'
  BY <1>1, <1>2, <1>3 DEF Iterator, CountedUp, Unlinking
<1>6. Links'
  BY <1>1, <1>2, <1>3 DEF ChainInv, Links
<1> QED
  BY <1>1, <1>2, <1>4, <1>5, <1>6 DEF ChainInv, Later, FreshNodes

(* The steps that unlink a node. *)
LEMMA UnlinkChain ==
  ASSUME ChainInv, Unlink
  PROVE  ChainInv'
<1> DEFINE rec == [st : {"look", "store", "unlink", "forward", "back"},
                   at : Sound, next : Sound, prev : Sound, n : Nat]
           x == ntf.at
<1>1. /\ ListTypes /\ ntf \in rec /\ x \in Sound /\ x \notin freed /\ x \notin Fresh
      /\ UNCHANGED <<next, prev, size, made, published, freed, app, alive, crossed, skew>>
      /\ ntf' = [ntf EXCEPT !.st = "forward", !.next = next[x], !.prev = prev[x]] /\ ntf.st = "unlink"
      /\ x # Header
  BY DEF Unlink, Notifying, memory, ChainInv, ListTypes, Iterator
<1>2. Sound' = Sound /\ Fresh' = Fresh
  BY <1>1 DEF Sound, Fresh
<1>3. /\ ntf' \in rec /\ ntf'.at = x /\ ntf'.st = "forward" /\ ntf'.next = next[x] /\ ntf'.prev = prev[x]
  BY <1>1, Nodes
<1>4. /\ next[x] \in Sound /\ next[x] \notin freed /\ next[x] \notin Fresh
      /\ next[x] # Header => x < next[x] /\ prev[next[x]] = x
  BY <1>1, LinkFacts
<1>5. ListTypes'
  <2>1. cut' \in BOOLEAN
    BY Zenon DEF Unlink
  <2> QED
    BY <1>1, <1>2, <1>3, <2>1 DEF ListTypes, Linking
<1>6. Iterator' /\ CountedUp'
  BY <1>1, <1>2, <1>3, <1>4 DEF Iterator, CountedUp, Unlinking
<1>7. Links'
  BY <1>1, <1>2, <1>3 DEF ChainInv, Links
<1> QED
  BY <1>1, <1>2, <1>5, <1>6, <1>7 DEF ChainInv, Later, FreshNodes

(* The node in front is led past the one being erased: if it was not to be
   erased, it leads on to one that is not to be either. *)
LEMMA UnlinkForwardChain ==
  ASSUME ChainInv, UnlinkForward
  PROVE  ChainInv'
<1> DEFINE rec == [st : {"look", "store", "unlink", "forward", "back"},
                   at : Sound, next : Sound, prev : Sound, n : Nat]
           x == ntf.at
           p == ntf.prev
           y == ntf.next
<1>1. /\ ListTypes /\ ntf \in rec /\ x \in Sound /\ x \notin freed /\ x \notin Fresh /\ p \in Sound /\ y \in Sound
      /\ UNCHANGED <<prev, size, made, published, freed, app, alive, history>>
      /\ ntf' = [ntf EXCEPT !.st = "back"] /\ ntf.st = "forward"
      /\ next' = [next EXCEPT ![p] = y] /\ x # Header
      /\ p = prev[x] /\ y \notin freed /\ y \notin Fresh /\ (y # Header => x < y /\ prev[y] = x)
  BY DEF UnlinkForward, Goes, Notifying, ChainInv, ListTypes, Iterator, Unlinking
<1>2. Sound' = Sound /\ Fresh' = Fresh
  BY <1>1 DEF Sound, Fresh
<1>3. p < x /\ (y # Header => p < y) /\ y # x
  BY <1>1, Nodes DEF ChainInv, Later
<1>4. /\ ntf' \in rec /\ ntf'.at = x /\ ntf'.st = "back" /\ ntf'.next = y /\ ntf'.prev = p
  BY <1>1
<1> HIDE DEF x, p, y
<1>5. next' \in [Place -> Sound] /\ next'[p] = y /\ \A z \in Sound \ {p} : next'[z] = next[z]
  BY <1>1, Nodes DEF ListTypes
<1>6. ListTypes'
  BY <1>1, <1>2, <1>4, <1>5 DEF ListTypes, Linking, history
<1>7. Links'
  <2>1. ASSUME NEW z \in Sound \ freed
        PROVE  /\ next'[z] \notin freed /\ next'[z] \notin Fresh
               /\ next'[z] # Header =>
                    /\ z < next'[z]
                    /\ prev[next'[z]] = z \/ (z = p /\ next'[z] = y)
    <3>1. CASE z = p
      BY <1>1, <1>3, <1>5, <3>1
    <3>2. CASE z # p
      BY <1>1, <1>5, <3>2, LinkFacts
    <3> QED
      BY <3>1, <3>2
  <2> QED
    BY <1>1, <1>2, <1>4, <2>1 DEF Links
<1>8. Iterator'
  <2>1. ASSUME NEW z \in Sound \ freed PROVE next'[z] # x
    <3>1. CASE z = p
      BY <1>3, <1>5, <3>1
    <3>2. CASE z # p
      BY <1>1, <1>5, <3>2, LinkFacts
    <3> QED
      BY <3>1, <3>2
  <2> QED
    BY <1>1, <1>2, <1>4, <2>1 DEF Iterator, Unlinking
<1>9. CountedUp'
  BY <1>4 DEF CountedUp
<1> QED
  BY <1>1, <1>2, <1>6, <1>7, <1>8, <1>9 DEF ChainInv, Later, FreshNodes

(* The node is freed, and no node that stays leads to it. *)
LEMMA UnlinkBackChain ==
  ASSUME ChainInv, UnlinkBack
  PROVE  ChainInv' /\ freed' = freed \cup {ntf.at} /\ ntf.at \notin freed
<1> DEFINE rec == [st : {"look", "store", "unlink", "forward", "back"},
                   at : Sound, next : Sound, prev : Sound, n : Nat]
           x == ntf.at
           p == ntf.prev
           y == ntf.next
<1>1. /\ ListTypes /\ ntf \in rec /\ x \in Sound /\ x \notin freed /\ x \notin Fresh /\ p \in Sound /\ y \in Sound
      /\ UNCHANGED <<next, size, made, published, app, alive, history>>
      /\ ntf' = [ntf EXCEPT !.st = "look", !.at = Header] /\ ntf.st = "back"
      /\ prev' = [prev EXCEPT ![y] = p] /\ x # Header /\ freed' = freed \cup {x}
      /\ p = prev[x] /\ y \notin freed /\ y \notin Fresh /\ (y # Header => x < y /\ prev[y] = x)
      /\ \A z \in Sound \ freed : next[z] # x
  BY DEF UnlinkBack, Relinked, Notifying, ChainInv, ListTypes, Iterator, Unlinking
<1>2. Sound' = Sound /\ Fresh' = Fresh
  BY <1>1 DEF Sound, Fresh
<1>3. p < x /\ (y # Header => p < y)
  BY <1>1, Nodes DEF ChainInv, Later
<1>4. ntf' \in rec /\ ntf'.at = Header /\ ntf'.st = "look"
  BY <1>1, Nodes
<1> HIDE DEF x, p, y
<1>5. prev' \in [Place -> Sound] /\ prev'[y] = p /\ \A z \in Sound \ {y} : prev'[z] = prev[z]
  BY <1>1, Nodes DEF ListTypes
<1>6. ListTypes'
  <2>1. x \in 1 .. made
    BY <1>1, Nodes DEF Sound
  <2> QED
    BY <1>1, <1>2, <1>4, <1>5, <2>1 DEF ListTypes, Linking, history
<1>7. Links'
  <2>1. ASSUME NEW z \in Sound \ freed'
        PROVE  /\ next[z] \notin freed' /\ next[z] \notin Fresh
               /\ next[z] # Header => z < next[z] /\ prev'[next[z]] = z
    <3>1. /\ z \in Sound /\ z \notin freed /\ z # x /\ next[z] # x /\ next[z] \in Sound
          /\ next[z] \notin freed /\ next[z] \notin Fresh
          /\ next[z] # Header => z < next[z] /\ (prev[next[z]] = z \/ (z = p /\ next[z] = y))
      BY <1>1, LinkFacts DEF p, y
    <3>2. ASSUME next[z] # Header PROVE prev'[next[z]] = z
      <4>1. CASE next[z] = y
        BY <1>1, <1>5, <3>1, <3>2, <4>1
      <4>2. CASE next[z] # y
        BY <1>5, <3>1, <3>2, <4>2
      <4> QED
        BY <4>1, <4>2
    <3> QED
      BY <1>1, <3>1, <3>2
  <2> QED
    BY <1>1, <1>2, <2>1 DEF Links
<1>8. Later'
  <2>1. ASSUME NEW z \in Sound \ {Header} PROVE prev'[z] < z
    BY <1>3, <1>5 DEF ChainInv, Later
  <2> QED
    BY <1>2, <2>1 DEF Later
<1>9. FreshNodes'
  <2>1. ASSUME NEW b \in Appender, app[b].st = "tail"
        PROVE  app[b].node \in Sound /\ app[b].node # y /\ app[b].node # x
    BY <1>1, <2>1 DEF Fresh, ListTypes
  <2> QED
    BY <1>1, <1>5, <2>1 DEF ChainInv, FreshNodes
<1>10. Iterator' /\ CountedUp'
  BY <1>1, <1>2, <1>4, Nodes DEF Iterator, CountedUp, Unlinking
<1> QED
  BY <1>1, <1>6, <1>7, <1>8, <1>9, <1>10 DEF ChainInv, x

(* The links stay sound whatever overlaps. *)
LEMMA ChainStep == ChainInv /\ [Next]_vars => ChainInv'
<1>1. SUFFICES ASSUME ChainInv, [Next]_vars PROVE ChainInv'
  OBVIOUS
<1>2. CASE UNCHANGED vars
  BY <1>1, <1>2 DEF vars, memory, history, ChainInv, ListTypes, Sound, Linking, CountedUp, Links, Later, FreshNodes,
     Fresh, Iterator, Unlinking
<1>3. CASE Notify
  BY <1>1, <1>3, WalkChain, UnlinkChain, UnlinkForwardChain, UnlinkBackChain DEF Notify, Erase
<1>4. ASSUME NEW a \in Appender, EmplaceBack(a) PROVE ChainInv'
  BY <1>1, <1>4, MakeChain, LinkTailChain, LinkHeaderChain, SizeChain DEF EmplaceBack
<1> QED
  BY <1>1, <1>2, <1>3, <1>4 DEF Next

-----------------------------------------------------------------------------
(* The counter. *)

Under == Counting({"tail", "header", "load", "store"})
Out == IF ntf.st \in {"unlink", "forward", "back"} THEN 1 ELSE 0

(* The sets that are counted are finite. *)
LEMMA FiniteCounts ==
  ASSUME ChainInv
  PROVE  /\ IsFiniteSet(Under) /\ Cardinality(Under) \in Nat
         /\ IsFiniteSet(freed) /\ Cardinality(freed) \in Nat
<1>1. IsFiniteSet(Appender) /\ Under \subseteq Appender
  BY ListRaceAssumption DEF Under, Counting
<1>2. IsFiniteSet(1 .. made) /\ freed \subseteq 1 .. made
  BY FS_Interval DEF ChainInv, ListTypes
<1> QED
  BY <1>1, <1>2, FS_Subset, FS_CardinalityType

(* Each step changes the counter and what it is still to count together. *)
LEMMA CountStep == ChainInv /\ CountInv /\ [Next]_vars => CountInv'
<1>1. SUFFICES ASSUME ChainInv, CountInv, [Next]_vars, ~skew'
               PROVE  size' + Cardinality(Under') + Cardinality(freed') + Out' = made'
  BY DEF CountInv, Under, Out
<1>0. /\ ~skew => size + Cardinality(Under) + Cardinality(freed) + Out = made
      /\ size \in Nat /\ made \in Nat /\ Cardinality(Under) \in Nat /\ Cardinality(freed) \in Nat
      /\ Out \in {0, 1} /\ Out' \in {0, 1}
  BY <1>1, FiniteCounts, Nodes DEF CountInv, Under, Out, ChainInv, ListTypes
<1>2. ASSUME UNCHANGED <<size, skew, made, freed>>, Under' = Under, Out' = Out
      PROVE  size' + Cardinality(Under') + Cardinality(freed') + Out' = made'
  BY <1>0, <1>1, <1>2
<1>3. CASE UNCHANGED vars
  BY <1>2, <1>3 DEF vars, memory, history, Under, Counting, Out
<1>4. ASSUME NEW a \in Appender, EmplaceBack(a)
      PROVE  size' + Cardinality(Under') + Cardinality(freed') + Out' = made'
  <2>1. Out' = Out /\ freed' = freed
    BY <1>4 DEF EmplaceBack, Make, LinkTail, LinkHeader, LoadSize, StoreSize, Out
  <2>2. app \in [Appender -> [st : {"idle", "tail", "header", "load", "store"},
                              node : Sound, tail : Sound, n : Nat]]
    BY <1>1 DEF ChainInv, ListTypes
  <2>3. CASE Make(a)
    <3>1. app[a].st = "idle" /\ app'[a].st = "tail" /\ \A b \in Appender \ {a} : app'[b] = app[b]
      BY <2>2, <2>3 DEF Make, Appending
    <3>2. Under' = Under \cup {a} /\ a \notin Under
      BY <3>1 DEF Under, Counting
    <3>3. Cardinality(Under') = Cardinality(Under) + 1
      BY <1>1, <3>2, FiniteCounts, FS_AddElement
    <3>4. ~skew /\ size' = size /\ made' = made + 1
      BY <1>1, <2>3 DEF Make
    <3> QED
      BY <1>0, <2>1, <3>3, <3>4
  <2>4. CASE LinkTail(a) \/ LinkHeader(a) \/ LoadSize(a)
    <3>1. app[a].st \in {"tail", "header", "load"} /\ app'[a].st \in {"header", "load", "store"}
          /\ \A b \in Appender \ {a} : app'[b] = app[b]
      BY <2>2, <2>4 DEF LinkTail, LinkHeader, LoadSize, Appending
    <3>2. Under' = Under
      BY <3>1 DEF Under, Counting
    <3>3. UNCHANGED <<size, skew, made, freed>>
      BY <2>1, <2>4 DEF LinkTail, LinkHeader, LoadSize, history, memory
    <3> QED
      BY <1>2, <2>1, <3>2, <3>3
  <2>5. CASE StoreSize(a)
    <3>1. app[a].st = "store" /\ app'[a].st = "idle" /\ \A b \in Appender \ {a} : app'[b] = app[b]
      BY <2>2, <2>5 DEF StoreSize, Appending
    <3>2. Under' = Under \ {a} /\ a \in Under
      BY <3>1 DEF Under, Counting
    <3>3. Cardinality(Under') = Cardinality(Under) - 1
      BY <1>1, <3>2, FiniteCounts, FS_RemoveElement
    <3>4. ~skew /\ size' = size + 1 /\ made' = made
      BY <1>1, <2>5 DEF StoreSize
    <3> QED
      BY <1>0, <2>1, <3>3, <3>4
  <2> QED
    BY <1>4, <2>3, <2>4, <2>5 DEF EmplaceBack
<1>5. CASE Notify
  <2>1. Under' = Under /\ made' = made
    BY <1>5 DEF Notify, Erase, Wake, SendPublication, EraseLoad, EraseStore, Unlink, UnlinkForward, UnlinkBack,
       Under, Counting
  <2>2. ntf \in [st : {"look", "store", "unlink", "forward", "back"},
                 at : Sound, next : Sound, prev : Sound, n : Nat]
    BY <1>1 DEF ChainInv, ListTypes
  <2>3. CASE Wake \/ SendPublication \/ EraseLoad
    <3>1. ntf.st = "look" /\ ntf'.st \in {"look", "store"} /\ UNCHANGED <<size, skew, freed>>
      BY <2>2, <2>3 DEF Wake, SendPublication, EraseLoad, Notifying, memory, history
    <3> QED
      BY <1>2, <2>1, <3>1 DEF Out
  <2>4. CASE EraseStore
    <3>1. ntf.st = "store" /\ ntf'.st = "unlink" /\ size' = size - 1 /\ ~skew /\ freed' = freed
      BY <1>1, <2>2, <2>4 DEF EraseStore, Goes, Notifying
    <3>2. Out = 0 /\ Out' = 1
      BY <3>1 DEF Out
    <3> QED
      BY <1>0, <2>1, <3>1, <3>2
  <2>5. CASE Unlink \/ UnlinkForward
    <3>1. /\ ntf.st \in {"unlink", "forward"} /\ ntf'.st \in {"forward", "back"}
          /\ UNCHANGED <<size, skew, freed>>
      BY <2>2, <2>5 DEF Unlink, UnlinkForward, Goes, Notifying, memory, history
    <3> QED
      BY <1>2, <2>1, <3>1 DEF Out
  <2>6. CASE UnlinkBack
    <3>1. ntf.st = "back" /\ ntf'.st = "look" /\ UNCHANGED <<size, skew>>
      BY <2>2, <2>6 DEF UnlinkBack, Notifying, history
    <3>2. freed' = freed \cup {ntf.at} /\ ntf.at \notin freed
      BY <1>1, <2>6, UnlinkBackChain
    <3>3. Cardinality(freed') = Cardinality(freed) + 1
      BY <1>1, <3>2, FiniteCounts, FS_AddElement
    <3>4. Out = 1 /\ Out' = 0
      BY <3>1 DEF Out
    <3> QED
      BY <1>0, <1>1, <2>1, <3>1, <3>3, <3>4
  <2> QED
    BY <1>5, <2>3, <2>4, <2>5, <2>6 DEF Notify, Erase
<1> QED
  BY <1>1, <1>3, <1>4, <1>5 DEF Next

(* The counter never goes below zero, for all the races on it, because an
   erasure begins only where it was seen above; and it is exact as long as no
   update was lost and none is under way, since no node is erased twice. *)
THEOREM CounterStaysExact == Spec => []CounterExact
<1>1. Init => CountInv
  <2>1. SUFFICES ASSUME Init PROVE size + Cardinality(Under) + Cardinality(freed) + Out = made
    BY DEF CountInv, Under, Out
  <2>2. Under = {} /\ freed = {} /\ Out = 0 /\ size = 0 /\ made = 0
    BY <2>1 DEF Init, Under, Counting, Out
  <2> QED
    BY <2>2, FS_EmptySet
<1>2. Spec => []ChainInv /\ []CountInv
  BY <1>1, ChainInit, ChainStep, CountStep, PTL DEF Spec
<1>3. ChainInv /\ CountInv => CounterExact
  <2> SUFFICES ASSUME ChainInv, CountInv PROVE CounterExact
    OBVIOUS
  <2>1. size >= 0
    BY DEF ChainInv, ListTypes
  <2>2. ASSUME ~skew, ntf.st # "store", Counting({"store"}) = {}
        PROVE  size + Cardinality(Counting({"tail", "header", "load"}))
                 = made - Cardinality(freed) - (IF ntf.st = "unlink" \/ Unlinking THEN 1 ELSE 0)
    <3>1. Counting({"tail", "header", "load"}) = Under
      BY <2>2 DEF Counting, Under
    <3>2. size + Cardinality(Under) + Cardinality(freed) + Out = made
      BY <2>2 DEF CountInv, Under, Out
    <3>3. (IF ntf.st = "unlink" \/ Unlinking THEN 1 ELSE 0) = Out /\ Out \in {0, 1}
      BY DEF Out, Unlinking
    <3>4. size \in Nat /\ made \in Nat /\ Cardinality(Under) \in Nat /\ Cardinality(freed) \in Nat
      BY FiniteCounts, Nodes DEF ChainInv, ListTypes
    <3> QED
      BY <3>1, <3>2, <3>3, <3>4
  <2> QED
    BY <2>1, <2>2 DEF CounterExact
<1> QED
  BY <1>2, <1>3, PTL

-----------------------------------------------------------------------------
(* The ends of the list. *)

(* Only an erasure in front makes the list empty to a walk, and it leaves the
   iterator at the end. *)
LEMMA EmptyStep == ChainInv /\ EmptyInv /\ [Next]_vars => EmptyInv'
<1>1. SUFFICES ASSUME ChainInv, EmptyInv, [Next]_vars, next'[Header] = Header, ~Unlinking'
               PROVE  ntf'.st = "look" /\ ntf'.at = Header
  BY DEF EmptyInv
<1>2. /\ ntf \in [st : {"look", "store", "unlink", "forward", "back"},
                  at : Sound, next : Sound, prev : Sound, n : Nat]
      /\ next \in [Place -> Sound] /\ Header \in Place
  BY <1>1, Nodes DEF ChainInv, ListTypes
<1>3. ASSUME next[Header] = Header, ~Unlinking PROVE ntf.st = "look" /\ ntf.at = Header
  BY <1>1, <1>3 DEF EmptyInv
<1>4. CASE UNCHANGED vars
  BY <1>1, <1>3, <1>4 DEF vars, memory, Unlinking
<1>5. ASSUME NEW a \in Appender, EmplaceBack(a) PROVE ntf'.st = "look" /\ ntf'.at = Header
  <2>1. ntf' = ntf
    BY <1>5 DEF EmplaceBack, Make, LinkTail, LinkHeader, LoadSize, StoreSize
  <2>2. next'[Header] = Header => next[Header] = Header
    <3>1. CASE Make(a)
      <4>1. made + 1 # Header
        BY <1>1, Nodes
      <4> QED
        BY <1>2, <3>1, <4>1 DEF Make
    <3>2. CASE LinkTail(a)
      <4>1. app[a].node # Header
        BY <1>1, <3>2 DEF LinkTail, Appending, ChainInv, ListTypes, Linking
      <4> QED
        BY <1>2, <3>2, <4>1 DEF LinkTail, Linked
    <3>3. CASE LinkHeader(a) \/ LoadSize(a) \/ StoreSize(a)
      BY <3>3 DEF LinkHeader, LoadSize, StoreSize, memory
    <3> QED
      BY <1>5, <3>1, <3>2, <3>3 DEF EmplaceBack
  <2> QED
    BY <1>1, <1>3, <2>1, <2>2 DEF Unlinking
<1>6. CASE Wake \/ SendPublication \/ EraseLoad \/ EraseStore
  <2>1. next' = next /\ ~Unlinking
    BY <1>6 DEF Wake, SendPublication, EraseLoad, EraseStore, Notifying, memory, Unlinking
  <2>2. ntf.st = "look" /\ ntf.at = Header
    BY <1>1, <1>3, <2>1
  <2>3. CASE Wake
    BY <1>1, <1>2, <2>1, <2>2, <2>3 DEF Wake
  <2> QED
    BY <1>6, <2>2, <2>3 DEF SendPublication, EraseLoad, EraseStore, Notifying
<1>7. CASE Unlink \/ UnlinkForward
  BY <1>1, <1>2, <1>7 DEF Unlink, UnlinkForward, Goes, Unlinking
<1>8. CASE UnlinkBack
  BY <1>2, <1>8 DEF UnlinkBack, Notifying
<1> QED
  BY <1>1, <1>4, <1>5, <1>6, <1>7, <1>8 DEF Next, Notify, Erase

(* Two ends of the list that have come apart stay apart, and nothing is
   published any more: what an append links, it links behind the last node. *)
THEOREM ApartStaysApart == Spec => ApartForGood
<1>1. ASSUME ChainInv, EmptyInv, [Next]_vars, Apart
      PROVE  Apart' /\ published' = published
  <2>1. /\ next[Header] = Header /\ prev[Header] # Header /\ ~Unlinking /\ ntf.st = "look" /\ ntf.at = Header
        /\ \A a \in Appender : app[a].st = "tail" => app[a].tail # Header
    BY <1>1 DEF Apart, EmptyInv
  <2>2. /\ ntf \in [st : {"look", "store", "unlink", "forward", "back"},
                    at : Sound, next : Sound, prev : Sound, n : Nat]
        /\ next \in [Place -> Sound] /\ prev \in [Place -> Sound] /\ Header \in Place
        /\ app \in [Appender -> [st : {"idle", "tail", "header", "load", "store"},
                                 node : Sound, tail : Sound, n : Nat]]
    BY <1>1, Nodes DEF ChainInv, ListTypes
  <2>3. CASE UNCHANGED vars
    BY <2>1, <2>3 DEF vars, memory, Apart, Unlinking
  <2>4. CASE Notify
    <3>1. Wake
      BY <2>1, <2>4 DEF Notify, Erase, SendPublication, EraseLoad, EraseStore, Unlink, UnlinkForward, UnlinkBack,
         Notifying
    <3>2. ntf' = [ntf EXCEPT !.at = Header] /\ UNCHANGED <<next, prev, app, published>>
      BY <2>1, <3>1 DEF Wake, memory
    <3> QED
      BY <2>1, <2>2, <3>2 DEF Apart, Unlinking
  <2>5. ASSUME NEW a \in Appender, EmplaceBack(a) PROVE Apart' /\ published' = published
    <3>1. UNCHANGED <<ntf, published>>
      BY <2>5 DEF EmplaceBack, Make, LinkTail, LinkHeader, LoadSize, StoreSize
    <3>2. /\ next'[Header] = Header /\ prev'[Header] # Header
          /\ \A b \in Appender : app'[b].st = "tail" => app'[b].tail # Header
      <4>1. CASE Make(a)
        <5>1. made + 1 # Header
          BY <1>1, Nodes
        <5> QED
          BY <2>1, <2>2, <4>1, <5>1 DEF Make
      <4>2. CASE LinkTail(a)
        BY <2>1, <2>2, <4>2 DEF LinkTail, Linked, Appending
      <4>3. CASE LinkHeader(a)
        <5>1. app[a].node # Header
          BY <1>1, <4>3 DEF LinkHeader, Appending, ChainInv, ListTypes, Linking
        <5> QED
          BY <2>1, <2>2, <4>3, <5>1 DEF LinkHeader
      <4>4. CASE LoadSize(a) \/ StoreSize(a)
        BY <2>1, <2>2, <4>4 DEF LoadSize, StoreSize, memory
      <4> QED
        BY <2>5, <4>1, <4>2, <4>3, <4>4 DEF EmplaceBack
    <3> QED
      BY <2>1, <3>1, <3>2 DEF Apart, Unlinking
  <2> QED
    BY <1>1, <2>3, <2>4, <2>5 DEF Next
<1>2. Init => EmptyInv
  BY DEF Init, EmptyInv
<1>3. Spec => []ChainInv /\ []EmptyInv
  BY <1>2, ChainInit, ChainStep, EmptyStep, PTL DEF Spec
<1>4. ChainInv /\ EmptyInv /\ [Next]_vars => [Apart => Apart' /\ published' = published]_vars
  BY <1>1
<1> QED
  BY <1>3, <1>4, PTL DEF Spec, ApartForGood

-----------------------------------------------------------------------------
(* Nothing is lost but at the end. *)

(* What the list holds. *)
LEMMA HeldNodes ==
  ChainInv =>
    /\ Held = {x \in Sound : x # Header /\ x \notin freed /\ x \notin Fresh}
    /\ Ring = {x \in Sound : x \notin freed /\ x \notin Fresh}
    /\ Header \in Ring /\ ntf.at \in Ring
<1> SUFFICES ASSUME ChainInv
             PROVE  /\ Held = {x \in Sound : x # Header /\ x \notin freed /\ x \notin Fresh}
                    /\ Ring = {x \in Sound : x \notin freed /\ x \notin Fresh}
                    /\ Header \in Ring /\ ntf.at \in Ring
  OBVIOUS
<1>1. Sound = {Header} \cup 1 .. made /\ Header \notin 1 .. made
  BY Nodes DEF Sound, Header
<1>2. Listed = {x \in 1 .. made : x \notin Fresh}
  BY DEF Listed, Fresh
<1>3. Held = {x \in Sound : x # Header /\ x \notin freed /\ x \notin Fresh}
  BY <1>1, <1>2 DEF Held
<1>4. Ring = {x \in Sound : x \notin freed /\ x \notin Fresh}
  BY <1>1, <1>3, Nodes DEF Ring
<1> QED
  BY <1>3, <1>4, Nodes DEF ChainInv, ListTypes, Iterator

(* And what it holds after a step. *)
LEMMA HeldNodesAfter ==
  ASSUME ChainInv'
  PROVE  /\ Held' = {x \in Sound' : x # Header /\ x \notin freed' /\ x \notin Fresh'}
         /\ Ring' = {x \in Sound' : x \notin freed' /\ x \notin Fresh'}
<1>1. (/\ Held = {x \in Sound : x # Header /\ x \notin freed /\ x \notin Fresh}
       /\ Ring = {x \in Sound : x \notin freed /\ x \notin Fresh}
       /\ Header \in Ring /\ ntf.at \in Ring)'
  BY HeldNodes, PTL
<1> QED
  BY <1>1

(* A node is made: the one append under way has read the end of the list. *)
LEMMA MakeWhole ==
  ASSUME ChainInv, Whole, NEW a \in Appender, Make(a), ~crossed', ~cut'
  PROVE  Whole'
<1> DEFINE x == made + 1
<1>1. /\ x \notin Sound /\ Sound' = Sound \cup {x}
  BY Nodes DEF Sound, Make
<1>2. /\ next' = [next EXCEPT ![x] = Header] /\ prev' = [prev EXCEPT ![x] = prev[Header]]
      /\ app' = [app EXCEPT ![a] = [st |-> "tail", node |-> x, tail |-> prev[Header], n |-> 0]]
      /\ app[a].st = "idle" /\ UNCHANGED <<freed, ntf>> /\ made' = x /\ made < MaxPub
      /\ \A b \in Appender : ~Linking(b)
      /\ ~(Unlinking /\ ntf.next = Header)
  BY DEF Make, Appending
<1>3. x \in Place /\ x \notin freed
  BY <1>1, <1>2, ListRaceAssumption, Nodes DEF Place, Node
<1> HIDE DEF x
<1>4. /\ \A y \in Sound : next'[y] = next[y] /\ prev'[y] = prev[y]
      /\ next'[x] = Header
  BY <1>1, <1>2, <1>3, Nodes DEF ChainInv, ListTypes
<1>5. /\ app'[a] = [st |-> "tail", node |-> x, tail |-> prev[Header], n |-> 0]
      /\ \A b \in Appender \ {a} : app'[b] = app[b]
  BY <1>2 DEF ChainInv, ListTypes
<1>6. Fresh' = {x}
  BY <1>2, <1>5 DEF Fresh, Linking
<1>7. Fresh = {}
  BY <1>2 DEF Fresh, Linking
<1>8. Held' = Held /\ Ring' = Ring /\ Ring \subseteq Sound /\ Held \subseteq Ring /\ Header \in Ring
  <2>1. ChainInv'
    BY MakeChain
  <2>2. /\ Held' = {y \in Sound' : y # Header /\ y \notin freed' /\ y \notin Fresh'}
        /\ Ring' = {y \in Sound' : y \notin freed' /\ y \notin Fresh'}
    BY <2>1, HeldNodesAfter
  <2> QED
    BY <1>1, <1>2, <1>6, <1>7, <2>2, HeldNodes
<1>9. Backed'
  BY <1>2, <1>4, <1>8 DEF Whole, Backed
<1>10. Onward'
  BY <1>4, <1>8 DEF Whole, Onward
<1>11. Tail'
  <2>1. ~HeaderDue /\ ~HeaderDue' /\ ~BackDue /\ ~BackDue'
    BY <1>2, <1>5 DEF HeaderDue, BackDue, Linking, Unlinking
  <2>2. prev[Header] \in Ring /\ next[prev[Header]] = Header /\ \A y \in Ring : next[y] = Header => y = prev[Header]
    BY <2>1 DEF Whole, Tail
  <2>3. \A b \in Appender : app'[b].st # "header" /\ (app'[b].st = "tail" => b = a)
    BY <1>2, <1>5 DEF Linking
  <2> QED
    BY <1>4, <1>5, <1>8, <2>1, <2>2, <2>3 DEF Tail
<1>12. Erasing'
  <2>1. \A b \in Appender : app'[b].st # "header"
    BY <1>2, <1>5 DEF Linking
  <2>2. ntf.at \in Sound
    BY HeldNodes
  <2> QED
    BY <1>2, <1>4, <1>8, <2>1, <2>2 DEF Whole, Erasing, Unlinking
<1>13. OneAppend'
  BY <1>2, <1>5 DEF OneAppend, Linking
<1> QED
  BY <1>9, <1>10, <1>11, <1>12, <1>13 DEF Whole

(* Its node is linked behind the last one. *)
LEMMA LinkTailWhole ==
  ASSUME ChainInv, Whole, NEW a \in Appender, LinkTail(a), ~crossed', ~cut'
  PROVE  Whole'
<1> DEFINE x == app[a].node
           t == app[a].tail
<1>1. /\ app[a].st = "tail" /\ next' = [next EXCEPT ![t] = x] /\ app' = [app EXCEPT ![a].st = "header"]
      /\ UNCHANGED <<prev, made, freed, ntf>>
  BY DEF LinkTail, Linked, Appending
<1>2. /\ x \in Sound /\ x # Header /\ x \in Fresh /\ x \notin freed /\ prev[x] = t /\ t = prev[Header]
      /\ next[x] = Header
  BY <1>1 DEF Fresh, Linking, ChainInv, ListTypes, FreshNodes, Whole, Tail
<1>3. \A b \in Appender : Linking(b) => b = a
  BY <1>1 DEF Whole, OneAppend, Linking
<1>4. ~HeaderDue /\ ~(Unlinking /\ ntf.next = Header) /\ ~BackDue
  BY <1>1, <1>3 DEF HeaderDue, BackDue, Linking, Whole, Erasing, Unlinking
<1>5. t \in Ring /\ next[t] = Header /\ \A y \in Ring : next[y] = Header => y = t
  BY <1>2, <1>4 DEF Whole, Tail
<1>6. /\ app'[a].st = "header" /\ app'[a].node = x /\ \A b \in Appender \ {a} : app'[b] = app[b]
  BY <1>1 DEF ChainInv, ListTypes
<1> HIDE DEF x, t
<1>7. Fresh = {x} /\ Fresh' = {}
  BY <1>1, <1>3, <1>6 DEF Fresh, Linking, x
<1>8. /\ Held' = Held \cup {x} /\ Ring' = Ring \cup {x} /\ Header \in Ring /\ ntf.at \in Ring /\ x \notin Ring
      /\ Ring \subseteq Sound /\ Ring = Held \cup {Header} /\ Header \notin Held
  <2>1. ChainInv'
    BY LinkTailChain
  <2>2. /\ Held' = {y \in Sound' : y # Header /\ y \notin freed' /\ y \notin Fresh'}
        /\ Ring' = {y \in Sound' : y \notin freed' /\ y \notin Fresh'}
    BY <2>1, HeldNodesAfter
  <2>3. Sound' = Sound
    BY <1>1 DEF Sound
  <2> QED
    BY <1>1, <1>2, <1>7, <2>2, <2>3, HeldNodes DEF Ring
<1>9. /\ next'[t] = x /\ next'[x] = Header /\ t # x /\ \A y \in Sound \ {t} : next'[y] = next[y]
  <2>1. t # x /\ t \in Place
    BY <1>5, <1>8, Nodes
  <2> QED
    BY <1>1, <1>2, <2>1, Nodes DEF ChainInv, ListTypes
<1>10. Backed'
  <2>1. ASSUME NEW y \in Held, ~(ntf.st = "back" /\ y \in {ntf.at, ntf.next})
        PROVE  prev[y] \in Ring /\ next'[prev[y]] = y
    <3>1. prev[y] \in Ring /\ next[prev[y]] = y
      BY <2>1 DEF Whole, Backed
    <3>2. prev[y] # t
      BY <1>5, <1>8, <3>1
    <3> QED
      BY <1>8, <1>9, <3>1, <3>2
  <2> QED
    BY <1>1, <1>2, <1>5, <1>8, <1>9, <2>1 DEF Backed
<1>11. Onward'
  BY <1>8, <1>9 DEF Whole, Onward
<1>12. Tail'
  <2>1. ASSUME NEW y \in Ring', next'[y] = Header PROVE y = x
    <3>1. CASE y = t
      BY <1>2, <1>9, <2>1, <3>1
    <3>2. CASE y \in Ring \ {t}
      BY <1>5, <1>8, <1>9, <2>1, <3>2
    <3> QED
      BY <1>8, <3>1, <3>2
  <2>2. \A b \in Appender : (app'[b].st = "header" => b = a) /\ app'[b].st # "tail"
    BY <1>3, <1>6 DEF Linking
  <2>3. HeaderDue' /\ ~BackDue'
    BY <1>1, <1>4, <1>6 DEF HeaderDue, BackDue
  <2> QED
    BY <1>6, <1>8, <1>9, <2>1, <2>2, <2>3 DEF Tail
<1>13. Erasing'
  <2>1. SUFFICES ASSUME Unlinking PROVE Erasing'
    BY <1>1 DEF Erasing, Unlinking
  <2>2. /\ next[ntf.at] = ntf.next /\ ntf.prev \in Ring /\ ntf.next # Header
        /\ ntf.st = "back" => next[ntf.prev] = ntf.next
    BY <1>4, <2>1 DEF Whole, Erasing
  <2>3. ntf.at # t /\ next'[ntf.at] = ntf.next
    BY <1>5, <1>8, <1>9, <2>2
  <2>4. ntf.st = "back" => next'[ntf.prev] = ntf.next
    BY <1>5, <1>8, <1>9, <2>2
  <2>5. \A b \in Appender : app'[b].st = "header" => app'[b].node # ntf.at
    BY <1>3, <1>6, <1>8 DEF Linking
  <2> QED
    BY <1>1, <1>8, <2>2, <2>3, <2>4, <2>5 DEF Erasing
<1>14. OneAppend'
  BY <1>3, <1>6 DEF OneAppend, Linking
<1> QED
  BY <1>10, <1>11, <1>12, <1>13, <1>14 DEF Whole

(* The header is led back to it. *)
LEMMA LinkHeaderWhole ==
  ASSUME ChainInv, Whole, NEW a \in Appender, LinkHeader(a), ~crossed', ~cut'
  PROVE  Whole'
<1> DEFINE x == app[a].node
<1>1. /\ app[a].st = "header" /\ prev' = [prev EXCEPT ![Header] = x] /\ app' = [app EXCEPT ![a].st = "load"]
      /\ UNCHANGED <<next, made, freed, ntf>>
  BY DEF LinkHeader, Appending
<1>2. /\ x \in Held /\ next[x] = Header /\ \A y \in Ring : next[y] = Header => y = x
  BY <1>1 DEF Whole, Tail
<1>3. \A b \in Appender : Linking(b) => b = a
  BY <1>1 DEF Whole, OneAppend, Linking
<1>4. ~BackDue
  BY <1>1 DEF BackDue, Linking, Whole, Erasing, Unlinking
<1>6. /\ app'[a].st = "load" /\ \A b \in Appender \ {a} : app'[b] = app[b]
  BY <1>1 DEF ChainInv, ListTypes
<1> HIDE DEF x
<1>7. Fresh' = Fresh
  BY <1>1, <1>6 DEF Fresh
<1>8. /\ Held' = Held /\ Ring' = Ring /\ Header \in Ring
      /\ Ring \subseteq Sound /\ Ring = Held \cup {Header} /\ Header \notin Held
  <2>1. ChainInv'
    BY LinkHeaderChain
  <2>2. /\ Held' = {y \in Sound' : y # Header /\ y \notin freed' /\ y \notin Fresh'}
        /\ Ring' = {y \in Sound' : y \notin freed' /\ y \notin Fresh'}
    BY <2>1, HeldNodesAfter
  <2>3. Sound' = Sound
    BY <1>1 DEF Sound
  <2> QED
    BY <1>1, <1>7, <2>2, <2>3, HeldNodes DEF Ring
<1>9. prev'[Header] = x /\ \A y \in Sound \ {Header} : prev'[y] = prev[y]
  BY <1>1, Nodes DEF ChainInv, ListTypes
<1>10. \A b \in Appender : ~Linking(b)'
  BY <1>3, <1>6 DEF Linking
<1>11. Backed'
  BY <1>1, <1>8, <1>9 DEF Whole, Backed
<1>12. Tail'
  <2>1. \A b \in Appender : app'[b].st # "header" /\ app'[b].st # "tail"
    BY <1>10 DEF Linking
  <2>2. ~BackDue'
    BY <1>1, <1>4 DEF BackDue
  <2> QED
    BY <1>1, <1>2, <1>8, <1>9, <2>1, <2>2 DEF Tail
<1>13. Erasing'
  BY <1>1, <1>8, <1>10 DEF Whole, Erasing, Unlinking, Linking
<1> QED
  BY <1>1, <1>8, <1>10, <1>11, <1>12, <1>13 DEF Whole, Onward, OneAppend

(* What neither links a node nor unlinks one: the counter, the walk. *)
LEMMA KeepsWhole ==
  ASSUME ChainInv, ChainInv', Whole, UNCHANGED <<next, prev, made, freed>>,
         \A a \in Appender :
           IF Linking(a) THEN app'[a] = app[a] ELSE ~Linking(a)',
         ntf' = ntf \/ (~Unlinking /\ ~Unlinking')
  PROVE  Whole'
<1>1. \A a \in Appender :
        /\ Linking(a)' = Linking(a) /\ (app'[a].st = "tail" <=> app[a].st = "tail")
        /\ (app'[a].st = "header" <=> app[a].st = "header")
        /\ Linking(a) => app'[a].node = app[a].node /\ app'[a].tail = app[a].tail
  BY DEF Linking
<1>2. Fresh' = Fresh /\ HeaderDue' = HeaderDue
  BY <1>1 DEF Fresh, HeaderDue, Linking
<1>3. Held' = Held /\ Ring' = Ring /\ Sound' = Sound
  BY <1>2, HeldNodes, HeldNodesAfter DEF Sound
<1>4. ntf' = ntf \/ (ntf.st # "back" /\ ntf'.st # "back" /\ ~Unlinking')
  BY DEF Unlinking
<1>5. BackDue' = BackDue
  BY <1>4 DEF BackDue
<1>6. Backed'
  BY <1>3, <1>4 DEF Whole, Backed
<1>7. Onward'
  BY <1>3 DEF Whole, Onward
<1>8. Tail'
  <2>1. \A a \in Appender : app'[a].st = "header" =>
          /\ app'[a].node \in Held /\ next[app'[a].node] = Header
          /\ \A x \in Ring : next[x] = Header => x = app'[a].node
    BY <1>1 DEF Whole, Tail, Linking
  <2>2. BackDue => \A x \in Ring : next[x] = Header => x \in {ntf'.at, ntf'.prev}
    BY <1>4 DEF Whole, Tail, BackDue
  <2>3. \A a \in Appender : app'[a].st = "tail" =>
          app'[a].tail = prev[Header] /\ next[app'[a].node] = Header
    BY <1>1 DEF Whole, Tail, Linking
  <2>4. ~HeaderDue /\ ~BackDue =>
          /\ prev[Header] \in Ring /\ next[prev[Header]] = Header
          /\ \A x \in Ring : next[x] = Header => x = prev[Header]
    BY DEF Whole, Tail
  <2> QED
    BY <1>2, <1>3, <1>5, <2>1, <2>2, <2>3, <2>4 DEF Tail
<1>9. Erasing'
  <2>1. SUFFICES ASSUME Unlinking' PROVE Erasing'
    BY DEF Erasing
  <2>2. ntf' = ntf /\ Unlinking
    BY <2>1 DEF Unlinking
  <2>3. \A a \in Appender : app'[a].st = "header" => app'[a].node # ntf.at
    BY <1>1, <2>2 DEF Whole, Erasing, Linking
  <2>4. ntf.next = Header => \A a \in Appender : ~Linking(a)'
    BY <1>1, <2>2 DEF Whole, Erasing
  <2> QED
    BY <1>3, <2>2, <2>3, <2>4 DEF Whole, Erasing
<1>10. OneAppend'
  BY <1>1 DEF Whole, OneAppend
<1> QED
  BY <1>6, <1>7, <1>8, <1>9, <1>10 DEF Whole

(* erase() reads the neighbours: had it the last node in hand while an append
   is under way, the two would overlap at the end. *)
LEMMA UnlinkWhole ==
  ASSUME ChainInv, Whole, Unlink, ~crossed', ~cut'
  PROVE  Whole'
<1> DEFINE e == ntf.at
<1>1. /\ ntf.st = "unlink" /\ ntf' = [ntf EXCEPT !.st = "forward", !.next = next[e], !.prev = prev[e]]
      /\ UNCHANGED <<next, prev, made, freed, app>>
      /\ \A a \in Appender : <<app[a].st, e>> \notin {<<"tail", app[a].tail>>, <<"header", app[a].node>>}
  BY DEF Unlink, memory, Notifying
<1>2. ntf'.st = "forward" /\ ntf'.at = e /\ ntf'.next = next[e] /\ ntf'.prev = prev[e]
  BY <1>1 DEF ChainInv, ListTypes
<1>3. \A a \in Appender : /\ app[a].st = "tail" => app[a].tail # e
                          /\ app[a].st = "header" => app[a].node # e
  BY <1>1
<1>4. e \in Held /\ e \in Ring
  BY <1>1, HeldNodes DEF ChainInv, ListTypes, Ring
<1> HIDE DEF e
<1>5. Fresh' = Fresh /\ HeaderDue' = HeaderDue /\ ~BackDue /\ ~BackDue'
  BY <1>1, <1>2 DEF Fresh, HeaderDue, BackDue
<1>6. Held' = Held /\ Ring' = Ring
  <2>1. ChainInv'
    BY UnlinkChain
  <2>2. Sound' = Sound
    BY <1>1 DEF Sound
  <2> QED
    BY <1>1, <1>5, <2>1, <2>2, HeldNodes, HeldNodesAfter
<1>7. prev[e] \in Ring
  BY <1>1, <1>4 DEF Whole, Backed
<1>8. next[e] = Header => \A a \in Appender : ~Linking(a)
  <2> SUFFICES ASSUME next[e] = Header, NEW a \in Appender, Linking(a) PROVE FALSE
    OBVIOUS
  <2>1. CASE app[a].st = "header"
    BY <1>3, <1>4, <2>1 DEF Whole, Tail
  <2>2. CASE app[a].st = "tail"
    <3>1. ~HeaderDue
      BY <2>2 DEF HeaderDue, Whole, OneAppend, Linking
    <3>2. e = prev[Header]
      BY <1>4, <1>5, <3>1 DEF Whole, Tail
    <3> QED
      BY <1>3, <2>2, <3>2 DEF Whole, Tail
  <2> QED
    BY <2>1, <2>2 DEF Linking
<1>9. Backed'
  BY <1>1, <1>2, <1>6 DEF Whole, Backed
<1>10. Onward'
  BY <1>1, <1>6 DEF Whole, Onward
<1>11. Tail'
  BY <1>1, <1>5, <1>6 DEF Whole, Tail
<1>12. Erasing'
  BY <1>1, <1>2, <1>3, <1>6, <1>7, <1>8 DEF Erasing, Linking
<1>13. OneAppend'
  BY <1>1 DEF Whole, OneAppend, Linking
<1> QED
  BY <1>9, <1>10, <1>11, <1>12, <1>13 DEF Whole

(* The node in front is led past the one being erased. *)
LEMMA UnlinkForwardWhole ==
  ASSUME ChainInv, Whole, UnlinkForward, ~crossed', ~cut'
  PROVE  Whole'
<1> DEFINE e == ntf.at
           y == ntf.next
           p == ntf.prev
<1>1. /\ ntf.st = "forward" /\ ntf' = [ntf EXCEPT !.st = "back"] /\ next' = [next EXCEPT ![p] = y]
      /\ UNCHANGED <<prev, made, freed, app>>
  BY DEF UnlinkForward, Goes, Notifying
<1>2. Unlinking /\ ntf'.st = "back" /\ ntf'.at = e /\ ntf'.next = y /\ ntf'.prev = p
  BY <1>1 DEF ChainInv, ListTypes, Unlinking
<1>3. /\ e \in Held /\ e \in Ring /\ next[e] = y /\ p \in Ring /\ p = prev[e] /\ e # Header
      /\ y \notin freed /\ y \notin Fresh
      /\ y # Header => e < y /\ prev[y] = e
  BY <1>1, <1>2, HeldNodes DEF ChainInv, ListTypes, Ring, Iterator, Whole, Erasing
<1>4. next[p] = e
  BY <1>1, <1>3 DEF Whole, Backed
<1>5. /\ y = Header => \A a \in Appender : ~Linking(a)
      /\ \A a \in Appender : app[a].st = "header" => app[a].node # e
  BY <1>2 DEF Whole, Erasing
<1> HIDE DEF e, y, p
<1>6. Fresh' = Fresh /\ HeaderDue' = HeaderDue /\ ~BackDue /\ (BackDue' <=> y = Header)
  BY <1>1, <1>2 DEF Fresh, HeaderDue, BackDue
<1>7. Held' = Held /\ Ring' = Ring /\ Ring \subseteq Sound /\ Ring = Held \cup {Header} /\ Header \notin Held
  <2>1. ChainInv'
    BY UnlinkForwardChain
  <2>2. Sound' = Sound
    BY <1>1 DEF Sound
  <2> QED
    BY <1>1, <1>6, <2>1, <2>2, HeldNodes, HeldNodesAfter DEF Ring
<1>8. /\ next'[p] = y /\ \A x \in Sound \ {p} : next'[x] = next[x]
      /\ y \in Ring /\ p # e
  <2>1. y \in Ring
    BY <1>3 DEF Whole, Onward
  <2>2. p # e
    <3>1. e \in Nat /\ e \in Sound \ {Header}
      BY <1>3, <1>7, Nodes
    <3>2. p < e
      BY <1>3, <3>1 DEF ChainInv, Later
    <3> QED
      BY ONLY <3>1, <3>2
  <2> QED
    BY <1>1, <1>3, <1>7, <2>1, <2>2, Nodes DEF ChainInv, ListTypes
<1>9. Backed'
  <2>1. ASSUME NEW x \in Held, x \notin {e, y}
        PROVE  prev[x] \in Ring /\ next'[prev[x]] = x
    <3>1. prev[x] \in Ring /\ next[prev[x]] = x
      BY <1>1, <2>1 DEF Whole, Backed
    <3>2. prev[x] # p
      BY <1>4, <2>1, <3>1
    <3> QED
      BY <1>7, <1>8, <3>1, <3>2
  <2> QED
    BY <1>1, <1>2, <1>7, <2>1 DEF Backed
<1>10. Onward'
  BY <1>7, <1>8 DEF Whole, Onward
<1>11. Tail'
  <2>1. CASE y = Header
    <3>1. ~HeaderDue /\ BackDue' /\ HeaderDue' = HeaderDue
      BY <1>5, <1>6, <2>1 DEF HeaderDue, Linking
    <3>2. \A x \in Ring : next[x] = Header => x = prev[Header]
      BY <1>6, <3>1 DEF Whole, Tail
    <3>3. \A x \in Ring : next'[x] = Header => x \in {e, p}
      BY <1>3, <1>7, <1>8, <2>1, <3>2
    <3>4. \A a \in Appender : app'[a].st # "header" /\ app'[a].st # "tail"
      BY <1>1, <1>5, <2>1 DEF Linking
    <3> QED
      BY <1>2, <1>7, <3>1, <3>3, <3>4 DEF Tail
  <2>2. CASE y # Header
    <3>1. ~BackDue' /\ HeaderDue' = HeaderDue
      BY <1>6, <2>2
    <3>2. \A x \in Ring : next'[x] = Header <=> next[x] = Header
      BY <1>3, <1>4, <1>7, <1>8, <2>2
    <3>3. \A a \in Appender : app[a].st = "header" => next'[app[a].node] = Header
      BY <1>7, <3>2 DEF Whole, Tail
    <3>4. ~HeaderDue => next'[prev[Header]] = Header
      BY <1>6, <3>2 DEF Whole, Tail
    <3>5. \A a \in Appender : app[a].st = "tail" => next'[app[a].node] = Header
      <4> SUFFICES ASSUME NEW a \in Appender, app[a].st = "tail" PROVE next'[app[a].node] = Header
        OBVIOUS
      <4>1. next[app[a].node] = Header /\ app[a].node \in Sound /\ app[a].node \in Fresh
        BY DEF Whole, Tail, Fresh, ChainInv, ListTypes
      <4>2. app[a].node # p
        BY <1>3, <4>1, HeldNodes
      <4> QED
        BY <1>8, <4>1, <4>2
    <3> QED
      BY <1>1, <1>6, <1>7, <3>1, <3>2, <3>3, <3>4, <3>5 DEF Whole, Tail
  <2> QED
    BY <2>1, <2>2
<1>12. Erasing'
  <2>1. next'[e] = y
    BY <1>3, <1>7, <1>8
  <2> QED
    BY <1>1, <1>2, <1>3, <1>5, <1>7, <1>8, <2>1 DEF Erasing, Linking
<1>13. OneAppend'
  BY <1>1 DEF Whole, OneAppend, Linking
<1> QED
  BY <1>9, <1>10, <1>11, <1>12, <1>13 DEF Whole

(* The node behind is led back past the one being erased, which is freed. *)
LEMMA UnlinkBackWhole ==
  ASSUME ChainInv, Whole, UnlinkBack, ~crossed', ~cut'
  PROVE  Whole'
<1> DEFINE e == ntf.at
           y == ntf.next
           p == ntf.prev
<1>1. /\ ntf.st = "back" /\ ntf' = [ntf EXCEPT !.st = "look", !.at = Header]
      /\ prev' = [prev EXCEPT ![y] = p] /\ freed' = freed \cup {e}
      /\ UNCHANGED <<next, made, app>>
  BY DEF UnlinkBack, Relinked, Notifying
<1>2. Unlinking /\ ntf'.st = "look"
  BY <1>1 DEF ChainInv, ListTypes, Unlinking
<1>3. /\ e \in Held /\ next[e] = y /\ next[p] = y /\ p \in Ring /\ p = prev[e] /\ e # Header
      /\ y \notin freed /\ y \notin Fresh /\ (y # Header => e < y)
      /\ \A x \in Sound \ freed : next[x] # e
  BY <1>1, <1>2, HeldNodes DEF ChainInv, ListTypes, Ring, Iterator, Whole, Erasing
<1>4. /\ y = Header => \A a \in Appender : ~Linking(a)
      /\ \A a \in Appender : app[a].st = "header" => app[a].node # e
  BY <1>2 DEF Whole, Erasing
<1>5. BackDue <=> y = Header
  BY <1>1 DEF BackDue
<1> HIDE DEF e, y, p
<1>6. Fresh' = Fresh /\ HeaderDue' = HeaderDue /\ ~BackDue'
  BY <1>1, <1>2 DEF Fresh, HeaderDue, BackDue
<1>7. /\ Held' = Held \ {e} /\ Ring' = Ring \ {e} /\ Ring \subseteq Sound \ freed /\ Ring = Held \cup {Header}
      /\ Header \notin Held
  <2>1. ChainInv'
    BY UnlinkBackChain
  <2>2. Sound' = Sound
    BY <1>1 DEF Sound
  <2> QED
    BY <1>1, <1>3, <1>6, <2>1, <2>2, HeldNodes, HeldNodesAfter DEF Ring
<1>8. /\ y \in Ring /\ y # e /\ p # e /\ e \in Sound
      /\ prev'[y] = p /\ \A x \in Sound \ {y} : prev'[x] = prev[x]
  <2>1. y \in Ring
    BY <1>3, <1>7 DEF Whole, Onward
  <2>2. e \in Sound /\ e \in Nat /\ p # e
    BY <1>3, <1>7, Nodes DEF ChainInv, Later
  <2>3. y # e
    BY <1>3, <2>2
  <2> QED
    BY <1>1, <1>7, <2>1, <2>2, <2>3, Nodes DEF ChainInv, ListTypes
<1>9. Backed'
  <2>1. ASSUME NEW x \in Held, x # e
        PROVE  prev'[x] \in Ring \ {e} /\ next[prev'[x]] = x
    <3>1. CASE x = y
      BY <1>3, <1>8, <3>1
    <3>2. CASE x # y
      <4>1. prev[x] \in Ring /\ next[prev[x]] = x
        BY <2>1, <3>2 DEF Whole, Backed, e, y
      <4>2. prev[x] # e
        BY <1>3, <3>2, <4>1
      <4> QED
        BY <1>7, <1>8, <3>2, <4>1, <4>2
    <3> QED
      BY <3>1, <3>2
  <2> QED
    BY <1>1, <1>7, <2>1 DEF Backed
<1>10. Onward'
  BY <1>1, <1>3, <1>7 DEF Whole, Onward
<1>11. Tail'
  <2>1. \A a \in Appender : app[a].st = "header" =>
          /\ app[a].node \in Ring \ {e} /\ app[a].node # Header /\ next[app[a].node] = Header
          /\ \A x \in Ring : next[x] = Header => x = app[a].node
    BY <1>4, <1>7 DEF Whole, Tail
  <2>2. ASSUME ~HeaderDue
        PROVE  /\ prev'[Header] \in Ring \ {e} /\ next[prev'[Header]] = Header
               /\ \A x \in Ring \ {e} : next[x] = Header => x = prev'[Header]
    <3>1. CASE y = Header
      <4>1. \A x \in Ring : next[x] = Header => x \in {e, p}
        BY <1>5, <3>1 DEF Whole, Tail, e, p
      <4> QED
        BY <1>3, <1>8, <3>1, <4>1
    <3>2. CASE y # Header
      <4>1. /\ prev[Header] \in Ring /\ next[prev[Header]] = Header
            /\ \A x \in Ring : next[x] = Header => x = prev[Header]
        BY <1>5, <2>2, <3>2 DEF Whole, Tail
      <4>2. prev'[Header] = prev[Header] /\ prev[Header] # e
        BY <1>3, <1>8, <3>2, <4>1, Nodes
      <4> QED
        BY <4>1, <4>2
    <3> QED
      BY <3>1, <3>2
  <2>3. \A a \in Appender : app[a].st = "tail" => app[a].tail = prev'[Header] /\ next[app[a].node] = Header
    <3> SUFFICES ASSUME NEW a \in Appender, app[a].st = "tail"
                 PROVE  app[a].tail = prev'[Header] /\ next[app[a].node] = Header
      OBVIOUS
    <3>1. y # Header
      BY <1>4 DEF Linking
    <3> QED
      BY <1>8, <3>1, Nodes DEF Whole, Tail
  <2> QED
    BY <1>1, <1>6, <1>7, <2>1, <2>2, <2>3 DEF Tail
<1>12. Erasing'
  BY <1>2 DEF Erasing, Unlinking
<1>13. OneAppend'
  BY <1>1 DEF Whole, OneAppend, Linking
<1> QED
  BY <1>9, <1>10, <1>11, <1>12, <1>13 DEF Whole

(* The list stays whole until two appends overlap, or an erasure of the last
   node and an append. *)
LEMMA WholeStep == ChainInv /\ WholeInv /\ [Next]_vars => WholeInv'
<1>1. SUFFICES ASSUME ChainInv, WholeInv, [Next]_vars, ~crossed', ~cut' PROVE Whole'
  BY DEF WholeInv
<1>2. ChainInv'
  BY <1>1, ChainStep
<1>3. ~crossed /\ ~cut
  <2>1. CASE \E a \in Appender : Make(a)
    BY <1>1, <2>1, Zenon DEF Make
  <2>2. CASE Unlink
    BY <1>1, <2>2, Zenon DEF Unlink
  <2>3. CASE UNCHANGED history
    BY <1>1, <2>3 DEF history
  <2>4. ASSUME NEW a \in Appender, EmplaceBack(a), ~Make(a) PROVE UNCHANGED <<crossed, cut>>
    BY <2>4 DEF EmplaceBack, LinkTail, LinkHeader, LoadSize, StoreSize, history
  <2>5. ASSUME Notify, ~Unlink PROVE UNCHANGED <<crossed, cut>>
    BY <2>5 DEF Notify, Wake, SendPublication, Erase, EraseLoad, EraseStore, UnlinkForward, UnlinkBack, history
  <2> QED
    BY <1>1, <2>1, <2>2, <2>3, <2>4, <2>5 DEF Next, vars
<1>4. Whole
  BY <1>1, <1>3 DEF WholeInv
<1>5. CASE UNCHANGED vars
  BY <1>1, <1>2, <1>4, <1>5, KeepsWhole DEF vars, memory, Linking
<1>6. ASSUME NEW a \in Appender, EmplaceBack(a) PROVE Whole'
  <2>1. CASE Make(a)
    BY <1>1, <1>4, <2>1, MakeWhole
  <2>2. CASE LinkTail(a)
    BY <1>1, <1>4, <2>2, LinkTailWhole
  <2>3. CASE LinkHeader(a)
    BY <1>1, <1>4, <2>3, LinkHeaderWhole
  <2>4. CASE LoadSize(a) \/ StoreSize(a)
    <3>1. /\ UNCHANGED <<next, prev, made, freed, ntf>> /\ ~Linking(a) /\ ~Linking(a)'
          /\ \A b \in Appender \ {a} : app'[b] = app[b]
      BY <1>1, <2>4 DEF LoadSize, StoreSize, memory, Appending, Linking, ChainInv, ListTypes
    <3>2. \A b \in Appender : IF Linking(b) THEN app'[b] = app[b] ELSE ~Linking(b)'
      BY <3>1 DEF Linking
    <3> QED
      BY <1>1, <1>2, <1>4, <3>1, <3>2, KeepsWhole
  <2> QED
    BY <1>6, <2>1, <2>2, <2>3, <2>4 DEF EmplaceBack
<1>7. CASE Wake \/ SendPublication \/ EraseLoad \/ EraseStore
  <2>1. UNCHANGED <<next, prev, made, freed, app>>
    BY <1>7 DEF Wake, SendPublication, EraseLoad, EraseStore, memory
  <2>2. ntf.st \in {"look", "store"} /\ ntf'.st \in {"look", "store", "unlink"}
    BY <1>1, <1>7 DEF Wake, SendPublication, EraseLoad, EraseStore, Notifying, Goes, ChainInv, ListTypes
  <2>3. ~Unlinking /\ ~Unlinking' /\ \A b \in Appender : IF Linking(b) THEN app'[b] = app[b] ELSE ~Linking(b)'
    BY <2>1, <2>2 DEF Unlinking, Linking
  <2> QED
    BY <1>1, <1>2, <1>4, <2>1, <2>3, KeepsWhole
<1>8. CASE Unlink
  BY <1>1, <1>4, <1>8, UnlinkWhole
<1>9. CASE UnlinkForward
  BY <1>1, <1>4, <1>9, UnlinkForwardWhole
<1>10. CASE UnlinkBack
  BY <1>1, <1>4, <1>10, UnlinkBackWhole
<1> QED
  BY <1>1, <1>5, <1>6, <1>7, <1>8, <1>9, <1>10 DEF Next, Notify, Erase

(* An empty list is whole. *)
LEMMA WholeInit == Init => WholeInv
<1> SUFFICES ASSUME Init PROVE Whole
  BY DEF WholeInv
<1>1. /\ ntf.st = "look" /\ \A a \in Appender : app[a].st = "idle"
      /\ Header \in Place /\ next[Header] = Header /\ prev[Header] = Header
  BY DEF Init, Place
<1>2. Held = {} /\ Ring = {Header}
  BY ListRaceAssumption DEF Init, Held, Listed, Ring
<1> QED
  BY <1>1, <1>2 DEF Whole, Backed, Onward, Tail, Erasing, OneAppend, HeaderDue, BackDue, Linking, Unlinking

(* A set of nodes has a first one. *)
LEMMA FirstIn ==
  ASSUME NEW S \in SUBSET Nat, S # {}
  PROVE  \E x \in S : \A y \in S : x <= y
<1>1. IsWellFoundedOn(OpToRel(<, Nat), Nat)
  BY NatLessThanWellFounded
<1>2. PICK x \in S : \A y \in S : ~(<<y, x>> \in OpToRel(<, Nat))
  BY <1>1, WFMin
<1>3. ASSUME NEW y \in S PROVE x <= y
  <2>1. y \in Nat /\ x \in Nat
    OBVIOUS
  <2>2. ~(y < x)
    BY <1>2, <2>1 DEF OpToRel
  <2> QED
    BY <2>1, <2>2
<1> QED
  BY <1>3

(* A walk comes to every node that is held, but for the one that its
   predecessor no longer leads to. *)
LEMMA HeldIsReached ==
  ASSUME ChainInv, Whole
  PROVE  Held \ {x \in {ntf.at} : ntf.st = "back"} \subseteq Reached
<1>1. Held \subseteq Node /\ Held \subseteq Sound \ {Header} /\ Ring = Held \cup {Header}
  BY HeldNodes, Nodes DEF Place, Ring
<1>2. ASSUME NEW z0 \in Held \ {x \in {ntf.at} : ntf.st = "back"}, NEW S, Walked(S), z0 \notin S
      PROVE  FALSE
  <2> DEFINE Bad == {z \in Held : z \notin S /\ ~(ntf.st = "back" /\ z = ntf.at)}
  <2>1. Bad \in SUBSET Nat /\ Bad # {}
    BY <1>1, <1>2, Nodes
  <2>2. PICK z \in Bad : \A x \in Bad : z <= x
    <3> HIDE DEF Bad
    <3> QED
      BY <2>1, FirstIn
  <2>3. z \in Held /\ z \notin S /\ ~(ntf.st = "back" /\ z = ntf.at)
    OBVIOUS
  <2>4. \E q \in Ring : next[q] = z /\ q < z /\ ~(ntf.st = "back" /\ q = ntf.at)
    <3>1. CASE ntf.st = "back" /\ z = ntf.next
      <4> DEFINE e == ntf.at
                 p == ntf.prev
      <4>1. next[e] = z /\ p \in Ring /\ next[p] = z /\ p = prev[e] /\ e < z /\ e # Header /\ e \in Sound
        BY <1>1, <2>3, <3>1, HeldNodes DEF Whole, Erasing, Unlinking, ChainInv, Iterator, ListTypes
      <4>2. p < e
        BY <4>1 DEF ChainInv, Later
      <4>3. p \in Nat /\ e \in Nat /\ z \in Nat
        BY <1>1, <2>3, <4>1, Nodes
      <4> HIDE DEF e, p
      <4>4. p < z /\ p # e
        BY ONLY <4>1, <4>2, <4>3
      <4> QED
        BY <4>1, <4>4 DEF e, p
    <3>2. CASE ~(ntf.st = "back" /\ z = ntf.next)
      <4> DEFINE q == prev[z]
      <4>1. q \in Ring /\ next[q] = z
        BY <2>3, <3>2 DEF Whole, Backed
      <4>2. q < z
        BY <1>1, <2>3 DEF ChainInv, Later
      <4>3. ntf.st = "back" => q # ntf.at
        BY <3>2, <4>1 DEF Whole, Erasing, Unlinking
      <4> QED
        BY <4>1, <4>2, <4>3
    <3> QED
      BY <3>1, <3>2
  <2>5. PICK q \in Ring : next[q] = z /\ q < z /\ ~(ntf.st = "back" /\ q = ntf.at)
    BY <2>4
  <2>6. q # Header /\ q \notin S
    BY <1>2, <2>3, <2>5 DEF Walked
  <2>7. q \in Bad
    BY <1>1, <2>5, <2>6
  <2>8. q \in Nat /\ z \in Nat /\ z <= q
    BY <2>1, <2>2, <2>7
  <2> QED
    BY ONLY <2>5, <2>8
<1> QED
  BY <1>1, <1>2 DEF Reached

(* No publication is lost and no link is wrong, however appends, walks and
   erasures overlap, but where two appends do, or an append and the erasure of
   the last node. *)
THEOREM LostNowhereElse == Spec => []LostOnlyAtTheEnd
<1>1. ASSUME ChainInv, WholeInv, ~crossed, ~cut
      PROVE  /\ Listed \ freed \subseteq Reached \cup {x \in {ntf.at} : Unlinking}
             /\ Quiet => /\ Reached = Listed \ freed
                         /\ \A x \in Reached \cup {Header} : prev[next[x]] = x /\ next[prev[x]] = x
  <2>1. Whole
    BY <1>1 DEF WholeInv
  <2>2. Held \ {x \in {ntf.at} : ntf.st = "back"} \subseteq Reached
    BY <1>1, <2>1, HeldIsReached
  <2>3. Held \subseteq Reached \cup {x \in {ntf.at} : Unlinking}
    BY <2>2 DEF Unlinking
  <2>4. ASSUME Quiet
        PROVE  /\ Reached = Held
               /\ \A x \in Reached \cup {Header} : prev[next[x]] = x /\ next[prev[x]] = x
    <3>1. ~HeaderDue /\ ~BackDue /\ ntf.st # "back"
      BY <2>4 DEF Quiet, HeaderDue, BackDue, Linking, Unlinking
    <3>2. Ring \subseteq Place /\ Ring \subseteq Sound \ freed /\ Ring = Held \cup {Header} /\ Header \in Ring
      BY <1>1, HeldNodes, Nodes DEF Ring
    <3>3. Walked(Ring)
      BY <2>1, <3>2 DEF Walked, Whole, Onward
    <3>4. Reached \subseteq Ring \ {Header}
      <4>1. Header \notin Node
        BY ListRaceAssumption DEF Header, Node
      <4> QED
        BY <3>2, <3>3, <4>1 DEF Reached
    <3>5. Reached = Held
      BY <2>2, <3>1, <3>2, <3>4
    <3>6. /\ prev[Header] \in Ring /\ next[prev[Header]] = Header
          /\ \A x \in Ring : next[x] = Header => x = prev[Header]
      BY <2>1, <3>1 DEF Whole, Tail
    <3>7. ASSUME NEW x \in Ring PROVE prev[next[x]] = x /\ next[prev[x]] = x
      <4>1. prev[next[x]] = x
        BY <1>1, <3>1, <3>2, <3>6, LinkFacts
      <4>2. next[prev[x]] = x
        BY <2>1, <3>1, <3>2, <3>6 DEF Whole, Backed
      <4> QED
        BY <4>1, <4>2
    <3> QED
      BY <3>2, <3>5, <3>7
  <2> QED
    BY <2>3, <2>4 DEF Held
<1>2. ChainInv /\ WholeInv => LostOnlyAtTheEnd
  BY <1>1 DEF LostOnlyAtTheEnd
<1> QED
  BY <1>2, ChainInit, ChainStep, WholeInit, WholeStep, PTL DEF Spec
=============================================================================
