------------------------------ MODULE Vehicle ------------------------------
(***************************************************************************)
(* The robot's wheels (vehicle_driver.cpp, motor_driver.cpp) and the two   *)
(* commands that turn them (main.cpp), which the AsyncTCP task runs one    *)
(* after the other as data_handler finds them in what comes in, while      *)
(* setup() still loads the topics or when it has.                          *)
(*                                                                         *)
(* A wheel has three channels of the PWM chip.  Each setPWM() is a write   *)
(* on the I2C bus of which nobody asks whether it arrived.                 *)
(***************************************************************************)
EXTENDS Integers, Sequences

CONSTANTS
  Wheels,     \* number of wheels
  MaxLost,    \* writes on the bus that are lost while a command runs
  MaxInbox    \* commands on their way

Wheel == 1 .. Wheels
Channel == 1 .. 3          \* m_a, m_b, m_speed
Command == {"go_forward", "stop"}

ASSUME VehicleAssumption ==
  Wheels \in Nat \ {0} /\ MaxLost \in Nat /\ MaxInbox \in Nat

(* `topics' of main.cpp, in the order in which they are loaded. *)
Names == <<"askstream", "askstopstream", "go_forward", "stop">>

VARIABLES
  loaded,      \* how many of them are in m_topics
  validation,  \* m_is_validation
  pwm,      \* what the chip puts out: the channels of each wheel that are on
  inbox,    \* commands sent to the robot and not yet read
  running,  \* the action that runs: "none", "ok_drive", "stop_drive"
  place,    \* its pass, wheel and channel
  lost,     \* writes of it that were lost
  told,     \* the command acted upon last
  said,     \* the command sent last
  missed    \* the command read last, or lost on the way, was not acted upon

loader == <<loaded, validation>>
car == <<pwm, running, place, lost>>
vars == <<loader, car, inbox, told, said, missed>>

Start == [pass |-> 1, wheel |-> 1, channel |-> 1]

Init ==
  /\ loaded = 0 /\ validation = FALSE
  /\ pwm = [w \in Wheel |-> {}]
  /\ inbox = <<>> /\ running = "none" /\ place = Start /\ lost = 0
  /\ told = "stop" /\ said = "stop" /\ missed = FALSE

-----------------------------------------------------------------------------
(* topic_loader, which the Arduino task runs: each topic is subscribed to, again
   and again, before it is put into m_topics. *)
LoaderStarts ==
  /\ ~validation /\ loaded = 0
  /\ validation' = TRUE
  /\ UNCHANGED <<loaded, car, inbox, told, said, missed>>

TopicAdded ==
  /\ validation /\ loaded < Len(Names)
  /\ loaded' = loaded + 1
  /\ UNCHANGED <<validation, car, inbox, told, said, missed>>

LoaderEnds ==
  /\ validation /\ loaded = Len(Names)
  /\ validation' = FALSE
  /\ UNCHANGED <<loaded, car, inbox, told, said, missed>>

Known(c) == \E i \in 1 .. loaded : Names[i] = c
Subscribed(c) == Known(c) \/ (validation /\ loaded < Len(Names) /\ Names[loaded + 1] = c)

-----------------------------------------------------------------------------
(* What the network does: it brings commands, and loses those on their way. *)
ServerSends(c) ==
  /\ Len(inbox) < MaxInbox /\ Subscribed(c)
  /\ inbox' = Append(inbox, c) /\ said' = c
  /\ UNCHANGED <<loader, car, told, missed>>

ConnectionLost ==
  /\ inbox # <<>>
  /\ inbox' = <<>> /\ missed' = TRUE
  /\ UNCHANGED <<loader, car, told, said>>

-----------------------------------------------------------------------------
(* `topics' and `actions' of main.cpp go together by their places. *)
Action_Shifted(c) == "ok_drive"
Action(c) == IF c = "go_forward" THEN "ok_drive" ELSE "stop_drive"

(* data_handler is given the n commands of a segment.  While topics are loaded
   it takes it for a subscription that is confirmed, and validates no subject by
   it.  Else what precedes the first divider is the command, which is acted upon
   if m_topics has it, and what follows is not looked at. *)
Heeded(c) == ~validation /\ Known(c)
DataHandler(n) ==
  /\ running = "none" /\ n \in 1 .. Len(inbox)
  /\ inbox' = SubSeq(inbox, n + 1, Len(inbox))
  /\ IF Heeded(Head(inbox))
     THEN /\ running' = Action(Head(inbox)) /\ told' = Head(inbox)
          /\ place' = Start /\ lost' = 0
          /\ missed' = (n > 1)
     ELSE missed' = TRUE /\ UNCHANGED <<running, place, lost, told>>
  /\ UNCHANGED <<loader, pwm, said>>

(* Of a command that comes in pieces none is understood. *)
SegmentCut ==
  /\ running = "none" /\ inbox # <<>>
  /\ inbox' = Tail(inbox) /\ missed' = TRUE
  /\ UNCHANGED <<loader, car, told, said>>

-----------------------------------------------------------------------------
(* MotorDriver::forth and stop: m_a is written first, then m_b and m_speed. *)
On(action) == IF action = "ok_drive" THEN {2, 3} ELSE {}

(* ok_drive and stop_drive go over the wheels four times. *)
Passes_Twice == 2
Passes == 4

Last_OneMore == [pass |-> Passes + 1, wheel |-> Wheels, channel |-> 3]
Last == [pass |-> Passes, wheel |-> Wheels, channel |-> 3]

Following ==
  IF place.channel < 3 THEN [place EXCEPT !.channel = @ + 1]
  ELSE IF place.wheel < Wheels THEN [place EXCEPT !.wheel = @ + 1, !.channel = 1]
  ELSE [pass |-> place.pass + 1, wheel |-> 1, channel |-> 1]

GoOn ==
  IF place = Last THEN running' = "none" /\ place' = Start
                  ELSE place' = Following /\ UNCHANGED running

SetPWM ==
  /\ running # "none"
  /\ LET c == {place.channel} IN
     pwm' = [pwm EXCEPT ![place.wheel] = (@ \ c) \cup (On(running) \cap c)]
  /\ GoOn
  /\ UNCHANGED <<loader, lost, inbox, told, said, missed>>

SetPWMLost ==
  /\ running # "none" /\ lost < MaxLost
  /\ lost' = lost + 1
  /\ GoOn
  /\ UNCHANGED <<loader, pwm, inbox, told, said, missed>>

AsyncStep == SetPWM \/ SetPWMLost \/ SegmentCut \/ \E n \in 1 .. MaxInbox : DataHandler(n)

LoaderStep == LoaderStarts \/ TopicAdded \/ LoaderEnds

Next == AsyncStep \/ LoaderStep \/ ConnectionLost \/ \E c \in Command : ServerSends(c)

Spec == Init /\ [][Next]_vars

(* The AsyncTCP task is scheduled.  What is asked of it does not wait for the
   loader. *)
FairSpec == Spec /\ WF_vars(AsyncStep)

-----------------------------------------------------------------------------
TypeOK ==
  /\ loaded \in 0 .. Len(Names) /\ validation \in BOOLEAN
  /\ pwm \in [Wheel -> SUBSET Channel]
  /\ inbox \in Seq(Command) /\ Len(inbox) <= MaxInbox
  /\ running \in {"none", "ok_drive", "stop_drive"}
  /\ place \in [pass : 1 .. Passes, wheel : Wheel, channel : Channel]
  /\ lost \in 0 .. MaxLost
  /\ told \in Command /\ said \in Command /\ missed \in BOOLEAN

-----------------------------------------------------------------------------
(* Properties. *)

Standing == \A w \in Wheel : pwm[w] = {}
Driving == \A w \in Wheel : pwm[w] = {2, 3}

(* When all that was sent has been read, and the command read last was neither
   lost in a segment nor taken for a confirmation while topics were loaded,
   every wheel does what was said last, though any three writes of the action
   may have been lost. *)
WheelsObey ==
  running = "none" /\ inbox = <<>> /\ ~missed /\ lost <= 3 =>
    IF said = "stop" THEN Standing ELSE Driving

(* A car that was told to stop stands in the end, unless it is told otherwise,
   the segment or the loader hid the command, or the bus lost too much. *)
StopHeeded ==
  (said = "stop" /\ inbox # <<>>) ~> (Standing \/ said # "stop" \/ missed \/ lost > 3)
=============================================================================
