--------------------------- MODULE Vehicle_proofs ---------------------------
(* The theorems about Vehicle: for any number of wheels, commands on their way
   and lost writes, the wheels do what they were told. *)
EXTENDS Vehicle, TLAPS

USE VehicleAssumption DEF VehicleAssumption

-----------------------------------------------------------------------------
(* The invariant. *)

(* How often the running action has written to channel c of wheel w. *)
Before(w, c) == w < place.wheel \/ (w = place.wheel /\ c < place.channel)
Over(w, c) ==
  IF running = "none" THEN 4 ELSE IF Before(w, c) THEN place.pass ELSE place.pass - 1

Wrong(w, c) == ~(c \in pwm[w] <=> c \in On(Action(told)))

(* A channel that is not as told has lost every write made to it so far. *)
WritesLost == \A w \in Wheel, c \in Channel : Wrong(w, c) => Over(w, c) <= lost

(* The command sent last is the last one on its way, or the one acted upon. *)
SaidLast ==
  /\ inbox # <<>> => said = inbox[Len(inbox)]
  /\ inbox = <<>> /\ ~missed => said = told

ObeyInv ==
  /\ TypeOK
  /\ running \in {"none", Action(told)}
  /\ WritesLost
  /\ SaidLast

-----------------------------------------------------------------------------
(* Following(place) is the next place, and no place is left out. *)
LEMMA FollowingType ==
  ASSUME TypeOK, place # Last
  PROVE  Following \in [pass : 1 .. Passes, wheel : Wheel, channel : Channel]
<1> DEFINE p == place.pass
           w == place.wheel
           c == place.channel
<1>1. /\ p \in 1 .. 4 /\ w \in 1 .. Wheels /\ c \in 1 .. 3
      /\ place = [pass |-> p, wheel |-> w, channel |-> c]
  BY DEF TypeOK, Passes, Wheel, Channel
<1>2. CASE c < 3
  <2>1. Following = [pass |-> p, wheel |-> w, channel |-> c + 1]
    BY <1>1, <1>2 DEF Following
  <2>2. QED
    BY <1>1, <1>2, <2>1 DEF Passes, Wheel, Channel
<1>3. CASE ~(c < 3) /\ w < Wheels
  <2>1. Following = [pass |-> p, wheel |-> w + 1, channel |-> 1]
    BY <1>1, <1>3 DEF Following
  <2>2. QED
    BY <1>1, <1>3, <2>1 DEF Passes, Wheel, Channel
<1>4. CASE ~(c < 3) /\ ~(w < Wheels)
  <2>1. c = 3 /\ w = Wheels
    BY <1>1, <1>4
  <2>2. p # 4
    BY <1>1, <2>1 DEF Last, Passes
  <2>3. Following = [pass |-> p + 1, wheel |-> 1, channel |-> 1]
    BY <1>4 DEF Following
  <2>4. QED
    BY <1>1, <2>2, <2>3 DEF Passes, Wheel, Channel
<1>5. QED
  BY <1>2, <1>3, <1>4

LEMMA FourNames == Len(Names) = 4
BY DEF Names

LEMMA StartType == Start \in [pass : 1 .. Passes, wheel : Wheel, channel : Channel]
BY DEF Start, Passes, Wheel, Channel

(* A step of the action adds a write to the channel at its place, and to no other. *)
LEMMA OneWrite ==
  ASSUME TypeOK, running # "none", GoOn, NEW w \in Wheel, NEW c \in Channel
  PROVE  /\ w = place.wheel /\ c = place.channel => Over(w, c)' <= Over(w, c) + 1
         /\ ~(w = place.wheel /\ c = place.channel) => Over(w, c)' = Over(w, c)
<1>1. CASE place = Last
  BY <1>1 DEF TypeOK, GoOn, Over, Before, Last, Passes, Wheel, Channel
<1>2. CASE place # Last /\ place.channel < 3
  BY <1>2 DEF TypeOK, GoOn, Following, Over, Before, Passes, Wheel, Channel
<1>3. CASE place # Last /\ ~(place.channel < 3) /\ place.wheel < Wheels
  <2>1. /\ place'.pass = place.pass
        /\ place'.wheel = place.wheel + 1 /\ place'.channel = 1
    BY <1>3 DEF TypeOK, GoOn, Following
  <2>2. QED
    BY <1>3, <2>1 DEF TypeOK, GoOn, Over, Before, Passes, Wheel, Channel
<1>4. CASE place # Last /\ ~(place.channel < 3) /\ ~(place.wheel < Wheels)
  BY <1>4 DEF TypeOK, GoOn, Following, Over, Before, Passes, Wheel, Channel
<1>5. QED
  BY <1>1, <1>2, <1>3, <1>4

LEMMA GoOnType ==
  ASSUME TypeOK, running # "none", GoOn
  PROVE  /\ running' \in {"none", running}
         /\ place' \in [pass : 1 .. Passes, wheel : Wheel, channel : Channel]
BY FollowingType, StartType DEF GoOn

-----------------------------------------------------------------------------
LEMMA ObeyInit == Init => ObeyInv
<1> SUFFICES ASSUME Init PROVE ObeyInv
  OBVIOUS
<1>1. TypeOK
  <2>0. loaded \in 0 .. Len(Names) /\ validation \in BOOLEAN
    <3>1. 0 \in 0 .. Len(Names) /\ FALSE \in BOOLEAN
      BY FourNames
    <3> QED
      BY <3>1 DEF Init
  <2>1. pwm \in [Wheel -> SUBSET Channel]
    BY DEF Init
  <2>2. inbox \in Seq(Command) /\ Len(inbox) <= MaxInbox
    BY DEF Init
  <2>3. place \in [pass : 1 .. Passes, wheel : Wheel, channel : Channel]
    BY StartType DEF Init
  <2>4. lost \in 0 .. MaxLost /\ running \in {"none", "ok_drive", "stop_drive"}
    BY DEF Init
  <2>5. told \in Command /\ said \in Command /\ missed \in BOOLEAN
    BY DEF Init, Command
  <2>6. QED
    BY <2>0, <2>1, <2>2, <2>3, <2>4, <2>5 DEF TypeOK
<1>2. running \in {"none", Action(told)} /\ SaidLast
  BY DEF Init, SaidLast
<1>3. WritesLost
  BY DEF Init, WritesLost, Wrong, On, Action
<1>4. QED
  BY <1>1, <1>2, <1>3 DEF ObeyInv

LEMMA ObeySends ==
  ASSUME ObeyInv, NEW c \in Command, ServerSends(c)
  PROVE  ObeyInv'
<1>1. TypeOK'
  BY DEF ObeyInv, TypeOK, ServerSends, car, loader
<1>2. (running \in {"none", Action(told)})' /\ WritesLost'
  BY DEF ObeyInv, WritesLost, Wrong, Over, Before, ServerSends, car, Action
<1>3. SaidLast'
  BY DEF ObeyInv, TypeOK, SaidLast, ServerSends, car
<1>4. QED
  BY <1>1, <1>2, <1>3 DEF ObeyInv

LEMMA ObeyLost ==
  ASSUME ObeyInv, ConnectionLost
  PROVE  ObeyInv'
<1>1. TypeOK'
  BY DEF ObeyInv, TypeOK, ConnectionLost, car, loader
<1>2. (running \in {"none", Action(told)})' /\ WritesLost'
  BY DEF ObeyInv, WritesLost, Wrong, Over, Before, ConnectionLost, car, Action
<1>3. SaidLast'
  BY DEF SaidLast, ConnectionLost
<1>4. QED
  BY <1>1, <1>2, <1>3 DEF ObeyInv

(* What is left of the commands after the first n of them. *)
LEMMA Remaining ==
  ASSUME NEW q \in Seq(Command), NEW n \in 1 .. Len(q)
  PROVE  /\ SubSeq(q, n + 1, Len(q)) \in Seq(Command)
         /\ Len(SubSeq(q, n + 1, Len(q))) = Len(q) - n
         /\ n < Len(q) => SubSeq(q, n + 1, Len(q))[Len(q) - n] = q[Len(q)]
<1>1. Len(q) \in Nat /\ n \in Nat /\ 1 <= n /\ n <= Len(q)
  OBVIOUS
<1>2. /\ SubSeq(q, n + 1, Len(q)) \in Seq(Command)
      /\ Len(SubSeq(q, n + 1, Len(q))) = Len(q) - n
  BY <1>1
<1>3. ASSUME n < Len(q) PROVE SubSeq(q, n + 1, Len(q))[Len(q) - n] = q[Len(q)]
  <2>1. Len(q) - n \in 1 .. Len(SubSeq(q, n + 1, Len(q)))
    BY <1>1, <1>2, <1>3
  <2>2. SubSeq(q, n + 1, Len(q))[Len(q) - n] = q[n + 1 + (Len(q) - n) - 1]
    BY <1>1, <2>1
  <2>3. n + 1 + (Len(q) - n) - 1 = Len(q)
    BY ONLY <1>1
  <2> QED
    BY ONLY <2>2, <2>3
<1> QED
  BY <1>2, <1>3

LEMMA ObeyHandler ==
  ASSUME ObeyInv, NEW n \in 1 .. MaxInbox, DataHandler(n)
  PROVE  ObeyInv'
<1>0. /\ inbox \in Seq(Command) /\ n \in 1 .. Len(inbox)
      /\ Head(inbox) = inbox[1] /\ Head(inbox) \in Command
  BY DEF ObeyInv, TypeOK, DataHandler
<1>1. TypeOK'
  <2>1. (inbox \in Seq(Command) /\ Len(inbox) <= MaxInbox)'
    BY <1>0, Remaining DEF ObeyInv, TypeOK, DataHandler
  <2>2. (loaded \in 0 .. Len(Names) /\ validation \in BOOLEAN)'
    BY DEF ObeyInv, TypeOK, DataHandler, loader
  <2>3. missed' \in BOOLEAN
    <3>1. (n > 1) \in BOOLEAN
      OBVIOUS
    <3>2. CASE Heeded(Head(inbox))
      BY <3>1, <3>2, Zenon DEF DataHandler
    <3>3. CASE ~Heeded(Head(inbox))
      BY <3>3 DEF DataHandler
    <3> QED
      BY <3>2, <3>3
  <2> QED
    BY <1>0, <2>1, <2>2, <2>3, StartType DEF ObeyInv, TypeOK, DataHandler, Action
<1>2. (running \in {"none", Action(told)})'
  BY DEF ObeyInv, DataHandler, Action
<1>3. WritesLost'
  <2>1. CASE Heeded(Head(inbox))
    BY <2>1 DEF DataHandler, WritesLost, Over, Before, Start, Wheel, Channel, Action
  <2>2. CASE ~Heeded(Head(inbox))
    BY <2>2 DEF ObeyInv, DataHandler, WritesLost, Wrong, Over, Before, Action
  <2> QED
    BY <2>1, <2>2
<1>4. SaidLast'
  <2> DEFINE q == SubSeq(inbox, n + 1, Len(inbox))
  <2>0. /\ inbox' = q /\ said' = said
        /\ missed' \/ (told' = inbox[1] /\ missed' = (n > 1))
    BY <1>0 DEF DataHandler
  <2>a. inbox # <<>> /\ said = inbox[Len(inbox)]
    BY <1>0 DEF ObeyInv, SaidLast
  <2>b. /\ q \in Seq(Command) /\ Len(q) = Len(inbox) - n
        /\ n < Len(inbox) => q[Len(inbox) - n] = inbox[Len(inbox)]
    BY <1>0, Remaining
  <2> HIDE DEF q
  <2>1. CASE n < Len(inbox)
    <3>1. Len(q) # 0
      BY <1>0, <2>b, <2>1
    <3>2. q # <<>>
      BY <3>1
    <3> QED
      BY <2>0, <2>a, <2>b, <2>1, <3>2 DEF SaidLast
  <2>2. CASE n = Len(inbox)
    <3>1. q = <<>>
      BY <1>0, <2>b, <2>2
    <3>2. n = 1 \/ n > 1
      BY <1>0
    <3>3. CASE n = 1
      BY <2>0, <2>a, <2>2, <3>1, <3>3 DEF SaidLast
    <3>4. CASE n > 1
      BY <2>0, <3>1, <3>4 DEF SaidLast
    <3> QED
      BY <3>2, <3>3, <3>4
  <2> QED
    BY <1>0, <2>1, <2>2
<1>5. QED
  BY <1>1, <1>2, <1>3, <1>4 DEF ObeyInv

LEMMA ObeyCut ==
  ASSUME ObeyInv, SegmentCut
  PROVE  ObeyInv'
<1>1. TypeOK'
  BY DEF ObeyInv, TypeOK, SegmentCut, car, loader
<1>2. (running \in {"none", Action(told)})' /\ WritesLost'
  BY DEF ObeyInv, WritesLost, Wrong, Over, Before, SegmentCut, car, Action
<1>3. SaidLast'
  BY DEF ObeyInv, TypeOK, SaidLast, SegmentCut
<1>4. QED
  BY <1>1, <1>2, <1>3 DEF ObeyInv

(* A write that arrives puts its channel right. *)
LEMMA ObeySetPWM ==
  ASSUME ObeyInv, SetPWM
  PROVE  ObeyInv'
<1>0. TypeOK /\ running # "none" /\ GoOn /\ running = Action(told)
  BY DEF ObeyInv, SetPWM
<1>1. TypeOK'
  <2>1. pwm' \in [Wheel -> SUBSET Channel]
    BY <1>0 DEF TypeOK, SetPWM, On, Channel
  <2>2. QED
    BY <1>0, <2>1, GoOnType DEF TypeOK, SetPWM, loader
<1>2. (running \in {"none", Action(told)})'
  BY <1>0, GoOnType DEF SetPWM, Action
<1>3. WritesLost'
  <2> SUFFICES ASSUME NEW w \in Wheel, NEW c \in Channel, Wrong(w, c)'
               PROVE  Over(w, c)' <= lost'
    BY DEF WritesLost
  <2>1. ~(w = place.wheel /\ c = place.channel)
    BY <1>0 DEF TypeOK, SetPWM, Wrong, Action
  <2>2. Wrong(w, c)
    BY <1>0, <2>1 DEF TypeOK, SetPWM, Wrong, Action
  <2>3. QED
    BY <1>0, <2>1, <2>2, OneWrite DEF ObeyInv, WritesLost, SetPWM
<1>4. SaidLast'
  BY DEF ObeyInv, SaidLast, SetPWM
<1>5. QED
  BY <1>1, <1>2, <1>3, <1>4 DEF ObeyInv

(* A write that is lost is counted. *)
LEMMA ObeySetPWMLost ==
  ASSUME ObeyInv, SetPWMLost
  PROVE  ObeyInv'
<1>0. TypeOK /\ running # "none" /\ GoOn /\ running = Action(told) /\ lost \in Nat /\ lost' = lost + 1
  BY DEF ObeyInv, TypeOK, SetPWMLost
<1>1. TypeOK'
  BY <1>0, GoOnType DEF TypeOK, SetPWMLost, loader
<1>2. (running \in {"none", Action(told)})'
  BY <1>0, GoOnType DEF SetPWMLost, Action
<1>3. WritesLost'
  <2> SUFFICES ASSUME NEW w \in Wheel, NEW c \in Channel, Wrong(w, c)'
               PROVE  Over(w, c)' <= lost'
    BY DEF WritesLost
  <2>1. Wrong(w, c)
    BY DEF SetPWMLost, Wrong, Action, On
  <2>2. Over(w, c) <= lost /\ Over(w, c) \in Int
    BY <1>0, <2>1 DEF ObeyInv, WritesLost, Over, TypeOK, Passes
  <2>3. Over(w, c)' \in Int
    BY <1>1 DEF Over, TypeOK, Passes
  <2>4. QED
    BY <1>0, <2>2, <2>3, OneWrite
<1>4. SaidLast'
  BY DEF ObeyInv, SaidLast, SetPWMLost
<1>5. QED
  BY <1>1, <1>2, <1>3, <1>4 DEF ObeyInv

(* The loader touches neither the wheels nor what is on its way. *)
LEMMA ObeyLoader ==
  ASSUME ObeyInv, LoaderStep
  PROVE  ObeyInv'
<1>1. UNCHANGED <<pwm, running, place, lost, inbox, told, said, missed>>
  BY DEF LoaderStep, LoaderStarts, TopicAdded, LoaderEnds, car
<1>2. (loaded \in 0 .. Len(Names) /\ validation \in BOOLEAN)'
  <2>1. loaded \in 0 .. 4 /\ validation \in BOOLEAN
    BY FourNames DEF ObeyInv, TypeOK
  <2>2. loaded' \in 0 .. 4
    BY <2>1, FourNames DEF LoaderStep, LoaderStarts, TopicAdded, LoaderEnds
  <2>3. validation' \in BOOLEAN
    BY <2>1 DEF LoaderStep, LoaderStarts, TopicAdded, LoaderEnds
  <2> QED
    BY <2>2, <2>3, FourNames
<1>3. TypeOK' /\ SaidLast' /\ (running \in {"none", Action(told)})'
  BY <1>1, <1>2 DEF ObeyInv, TypeOK, SaidLast, Action
<1>4. WritesLost'
  BY <1>1 DEF ObeyInv, WritesLost, Wrong, Over, Before, Action, On
<1> QED
  BY <1>3, <1>4 DEF ObeyInv

LEMMA ObeyNext == ObeyInv /\ [Next]_vars => ObeyInv'
<1> SUFFICES ASSUME ObeyInv, [Next]_vars PROVE ObeyInv'
  OBVIOUS
<1>1. CASE SetPWM
  BY <1>1, ObeySetPWM
<1>2. CASE SetPWMLost
  BY <1>2, ObeySetPWMLost
<1>3. CASE SegmentCut
  BY <1>3, ObeyCut
<1>4. ASSUME NEW n \in 1 .. MaxInbox, DataHandler(n) PROVE ObeyInv'
  BY <1>4, ObeyHandler
<1>5. CASE ConnectionLost
  BY <1>5, ObeyLost
<1>6. ASSUME NEW c \in Command, ServerSends(c) PROVE ObeyInv'
  BY <1>6, ObeySends
<1>a. CASE LoaderStep
  BY <1>a, ObeyLoader
<1>7. CASE UNCHANGED vars
  <2>0. loaded' = loaded /\ validation' = validation
    BY <1>7 DEF vars, loader
  <2>1. /\ pwm' = pwm /\ inbox' = inbox /\ running' = running /\ place' = place
        /\ lost' = lost /\ told' = told /\ said' = said /\ missed' = missed
    BY <1>7 DEF vars, car
  <2>2. TypeOK' /\ SaidLast' /\ (running \in {"none", Action(told)})'
    BY <2>0, <2>1 DEF ObeyInv, TypeOK, SaidLast, Action
  <2>3. WritesLost'
    BY <2>1 DEF ObeyInv, WritesLost, Wrong, Over, Before, Action, On
  <2>4. QED
    BY <2>2, <2>3 DEF ObeyInv
<1>8. QED
  BY <1>1, <1>2, <1>3, <1>4, <1>5, <1>6, <1>7, <1>a DEF Next, AsyncStep

LEMMA ObeyImplies == ObeyInv => WheelsObey
<1> SUFFICES ASSUME ObeyInv, running = "none", inbox = <<>>, ~missed, lost <= 3
             PROVE  IF said = "stop" THEN Standing ELSE Driving
  BY DEF WheelsObey
<1>1. said = told /\ told \in Command /\ lost \in Nat
  BY DEF ObeyInv, SaidLast, TypeOK
<1>2. \A w \in Wheel, c \in Channel : c \in pwm[w] <=> c \in On(Action(told))
  BY <1>1 DEF ObeyInv, WritesLost, Wrong, Over
<1>3. \A w \in Wheel : pwm[w] \subseteq Channel
  BY DEF ObeyInv, TypeOK
<1>4. \A w \in Wheel : pwm[w] = On(Action(told))
  <2>1. On(Action(told)) \subseteq Channel
    BY DEF On, Channel
  <2>2. QED
    BY <1>2, <1>3, <2>1
<1>5. QED
  BY <1>1, <1>4 DEF On, Action, Standing, Driving, Command

(* The variables of Vehicle keep their types, the place of an action in its
   four passes over the wheels included. *)
THEOREM VehicleTypes == Spec => []TypeOK
<1>1. ObeyInv => TypeOK
  BY DEF ObeyInv
<1>2. QED
  BY ObeyInit, ObeyNext, <1>1, PTL DEF Spec

(* Whatever is sent, joined, cut and lost: when all has been read, and the last
   command was not hidden in a segment nor swallowed while topics were loaded, the
   wheels do what was said last, though any three writes were lost on the bus (ok_drive and stop_drive of main.cpp). *)
THEOREM CarObeys == Spec => []WheelsObey
<1>1. QED
  BY ObeyInit, ObeyNext, ObeyImplies, PTL DEF Spec
=============================================================================
