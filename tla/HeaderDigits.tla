---------------------------- MODULE HeaderDigits ----------------------------
(***************************************************************************)
(* The header of a message, character by character: what zeroes_pre        *)
(* (data_worker.py) and pre_msg (remote_ai_client.cpp) write, and what     *)
(* get_total_data_size (tcp_server.hpp) reads.  Framing counts in units and *)
(* takes a header as two of them, whose pieces stand for smaller numbers;  *)
(* here is why it may, and up to which size.                               *)
(***************************************************************************)
EXTENDS Framing

CONSTANT UnitBytes  \* how many bytes a unit of a payload may stand for

(* The numbers have at most seven digits. *)
ASSUME HeaderAssumption == \A n \in UnitBytes : n \in Nat /\ MaxPayload * n < 10^7 - 24

Digit == 0 .. 9
Gt == 10
Lt == 11
Nul == 12

Digits == 5    \* digit_number
NoNumber == -1  \* std::stol throws

-----------------------------------------------------------------------------
(* Writing. *)

Width(n) == CHOOSE w \in 1 .. 8 : n < 10^w /\ (w = 1 \/ n >= 10^(w - 1))
Decimal(n) == [i \in 1 .. Width(n) |-> (n \div 10^(Width(n) - i)) % 10]

(* A number that is too long is not shortened. *)
Zeroes(k) == [i \in 1 .. k |-> 0]
Padded(s, digits) == Zeroes(digits - Len(s)) \o s
ZeroesPre(n, digits) == Padded(Decimal(n + 4 + digits), digits)
ScriptHeader(n) == <<Gt, Gt>> \o ZeroesPre(n, Digits) \o <<Lt, Lt>>

(* The number and what follows it are printed over a header of ten bytes, so
   that the number ends at its seventh: one of more than five digits covers
   the mark in front of it. *)
HeaderSize_WithoutZero == 9
HeaderSize == 10
Blank == <<Gt, Gt, 0, 0, 0, 0, 0, Lt, Lt, Nul>>
RobotHeader(n) ==
  LET text == Decimal(n + HeaderSize) \o <<Lt, Lt, Nul>>
      pos == Len(Blank) - Len(text)
  IN [i \in 1 .. Len(Blank) |-> IF i > pos THEN text[i - pos] ELSE Blank[i]]

-----------------------------------------------------------------------------
(* Reading. *)

(* std::stol: the number at the beginning, if there is one; it is given five
   characters at most. *)
Leading(s) ==
  CHOOSE k \in 0 .. Len(s) : (\A i \in 1 .. k : s[i] \in Digit) /\ (k < Len(s) => s[k + 1] \notin Digit)
Worth(s, i) == IF i <= Leading(s) THEN s[i] * 10^(Leading(s) - i) ELSE 0
Stol(s) ==
  IF Leading(s) = 0 THEN NoNumber
  ELSE Worth(s, 1) + Worth(s, 2) + Worth(s, 3) + Worth(s, 4) + Worth(s, 5)

(* data.find(">>") + 2; when nothing is found the sum wraps around to 1. *)
Found(s) == {p \in 1 .. Len(s) - 1 : s[p] = Gt /\ s[p + 1] = Gt}
NumberAt(s) == IF Found(s) = {} THEN 2 ELSE Least(Found(s)) + 2
TotalDataSize(s) == Stol(SubSeq(s, NumberAt(s), Least({Len(s), NumberAt(s) + Digits - 1})))

-----------------------------------------------------------------------------
(* Properties. *)

(* The bytes of a message whose name is one letter, and of its header. *)
Length(msg, n) == IF msg.kind = "SUB" THEN 9 ELSE 14 + msg.data * n
Lengths == {Length(msg, n) : msg \in Message, n \in UnitBytes}
Headers(l) == {ScriptHeader(l), RobotHeader(l)}
Arrives(l) ==
  \A h \in Headers(l) :
    IF Len(h) + l < 10^Digits THEN TotalDataSize(h) = Len(h) + l ELSE TotalDataSize(h) < Len(h) + l
Understated(l) ==
  \A h \in Headers(l) : \A k \in 0 .. Len(h) : TotalDataSize(SubSeq(h, 1, k)) <= Len(h) + l
Arriving == {l \in Lengths : Arrives(l) /\ Understated(l)}

(* For every message a client sends, and either kind of header, the server
   reads the number of bytes sent, exactly if it has up to five digits; a larger
   message is taken to be smaller than it is, and its end is left over.
   Wherever recv() cuts a header, what is read of it is no number or one that
   is not above the size: the reader does not wait for bytes nobody sends. *)
FiveDigitsArrive ==
  \A i \in 1 .. Len(sent), n \in UnitBytes : Length(sent[i], n) \in Arriving
=============================================================================
