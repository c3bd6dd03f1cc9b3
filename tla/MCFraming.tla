----------------------------- MODULE MCFraming -----------------------------
(* Instances of HeaderDigits, and of Framing with it, for TLC. *)
EXTENDS HeaderDigits

(* Around each power of ten, where the size becomes a digit longer, with 23 or
   24 bytes besides the payload. *)
AroundPowers == {n \in {10^d - k : d \in 1 .. 6, k \in 20 .. 26} : n >= 0} \cup {0, 1, 10^6}
=============================================================================
