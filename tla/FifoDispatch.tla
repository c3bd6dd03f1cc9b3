---------------------------- MODULE FifoDispatch ----------------------------
(***************************************************************************)
(* What the notifier promises: publications are numbered as they come, sit *)
(* in a queue, and the one at its head is sent to any sockets, any number  *)
(* of times, until it is done with.  Nothing overtakes and nothing is      *)
(* dropped unsent from the middle.                                         *)
(***************************************************************************)
EXTENDS Integers, Sequences

CONSTANT Sock

VARIABLES
  count,    \* publications so far
  queue,    \* those not done with, by number
  last      \* the publication sent last to each socket, 0 for none

vars == <<count, queue, last>>

Init == count = 0 /\ queue = <<>> /\ last = [s \in Sock |-> 0]

Enqueue ==
  /\ count' = count + 1
  /\ queue' = Append(queue, count + 1)
  /\ UNCHANGED last

Send(s) ==
  /\ queue # <<>>
  /\ last' = [last EXCEPT ![s] = Head(queue)]
  /\ UNCHANGED <<count, queue>>

Finish ==
  /\ queue # <<>>
  /\ queue' = Tail(queue)
  /\ UNCHANGED <<count, last>>

(* The socket is given to a new client. *)
Renew(s) ==
  /\ last' = [last EXCEPT ![s] = 0]
  /\ UNCHANGED <<count, queue>>

Next == Enqueue \/ Finish \/ \E s \in Sock : Send(s) \/ Renew(s)

Spec == Init /\ [][Next]_vars
=============================================================================
