------------------------- MODULE HeaderDigits_proofs -------------------------
(***************************************************************************)
(* The size in a header, for messages of any number of bytes up to seven   *)
(* digits and wherever recv() cuts the header.                             *)
(***************************************************************************)
EXTENDS HeaderDigits, Framing_proofs

-----------------------------------------------------------------------------
(* Digits. *)

Quotient(n, e) == n \div 10^e
DigitOf(n, e) == Quotient(n, e) % 10

(* The powers of ten. *)
LEMMA Powers ==
  /\ 10^0 = 1 /\ 10^1 = 10 /\ 10^2 = 100 /\ 10^3 = 1000 /\ 10^4 = 10000
  /\ 10^5 = 100000 /\ 10^6 = 1000000 /\ 10^7 = 10000000 /\ 10^8 = 100000000
BY SMT

(* What is left of a number and the digit taken from it. *)
LEMMA Tenths == ASSUME NEW a \in Nat PROVE a = 10 * (a \div 10) + (a % 10)
OBVIOUS

(* A digit more is ten times as much, and that digit. *)
LEMMA QuotientStep ==
  ASSUME NEW n \in Nat, NEW e \in 0 .. 6
  PROVE  /\ Quotient(n, e) \in Nat /\ Quotient(n, e + 1) \in Nat /\ DigitOf(n, e) \in Digit
         /\ Quotient(n, e) = 10 * Quotient(n, e + 1) + DigitOf(n, e)
<1>1. \A a \in Nat : a \div 10 \in Nat /\ a % 10 \in 0 .. 9 /\ a = 10 * (a \div 10) + (a % 10)
  <2>1. \A a \in Nat : a % 10 \in 0 .. 9
    OBVIOUS
  <2>2. \A a \in Nat : a \div 10 \in Nat
    OBVIOUS
  <2> QED
    <3>1. ASSUME NEW a \in Nat PROVE a \div 10 \in Nat /\ a % 10 \in 0 .. 9 /\ a = 10 * (a \div 10) + (a % 10)
      BY <2>1, <2>2, Tenths, Zenon
    <3> QED
      BY <3>1, Zenon
<1>2. \A a \in Nat : /\ a \div 1 = a
                     /\ a \div 100 = (a \div 10) \div 10
                     /\ a \div 1000 = (a \div 100) \div 10
                     /\ a \div 10000 = (a \div 1000) \div 10
                     /\ a \div 100000 = (a \div 10000) \div 10
                     /\ a \div 1000000 = (a \div 100000) \div 10
                     /\ a \div 10000000 = (a \div 1000000) \div 10
  <2> SUFFICES ASSUME NEW a \in Nat
               PROVE  /\ a \div 1 = a
                      /\ a \div 100 = (a \div 10) \div 10
                      /\ a \div 1000 = (a \div 100) \div 10
                      /\ a \div 10000 = (a \div 1000) \div 10
                      /\ a \div 100000 = (a \div 10000) \div 10
                      /\ a \div 1000000 = (a \div 100000) \div 10
                      /\ a \div 10000000 = (a \div 1000000) \div 10
    OBVIOUS
  <2>1. a \div 100 = (a \div 10) \div 10
    OBVIOUS
  <2>2. a \div 1000 = (a \div 100) \div 10
    OBVIOUS
  <2>3. a \div 10000 = (a \div 1000) \div 10
    OBVIOUS
  <2>4. a \div 100000 = (a \div 10000) \div 10
    OBVIOUS
  <2>5. a \div 1000000 = (a \div 100000) \div 10
    OBVIOUS
  <2>6. a \div 10000000 = (a \div 1000000) \div 10
    OBVIOUS
  <2> QED
    BY <2>1, <2>2, <2>3, <2>4, <2>5, <2>6
<1>3. /\ Quotient(n, 0) = n
      /\ \A i \in 0 .. 6 : Quotient(n, i + 1) = Quotient(n, i) \div 10 /\ Quotient(n, i) \in Nat
  <2>1. \A i \in 0 .. 6 : i = 0 \/ i = 1 \/ i = 2 \/ i = 3 \/ i = 4 \/ i = 5 \/ i = 6
    OBVIOUS
  <2>2. /\ Quotient(n, 0) = n /\ Quotient(n, 1) = n \div 10 /\ Quotient(n, 2) = n \div 100
        /\ Quotient(n, 3) = n \div 1000 /\ Quotient(n, 4) = n \div 10000 /\ Quotient(n, 5) = n \div 100000
        /\ Quotient(n, 6) = n \div 1000000 /\ Quotient(n, 7) = n \div 10000000
    BY <1>2, Powers DEF Quotient
  <2>3. /\ Quotient(n, 0) \in Nat /\ Quotient(n, 1) = Quotient(n, 0) \div 10
        /\ Quotient(n, 2) = Quotient(n, 1) \div 10 /\ Quotient(n, 3) = Quotient(n, 2) \div 10
        /\ Quotient(n, 4) = Quotient(n, 3) \div 10 /\ Quotient(n, 5) = Quotient(n, 4) \div 10
        /\ Quotient(n, 6) = Quotient(n, 5) \div 10 /\ Quotient(n, 7) = Quotient(n, 6) \div 10
    BY <1>2, <2>2
  <2>4. /\ Quotient(n, 1) \in Nat /\ Quotient(n, 2) \in Nat /\ Quotient(n, 3) \in Nat
        /\ Quotient(n, 4) \in Nat /\ Quotient(n, 5) \in Nat /\ Quotient(n, 6) \in Nat
    BY <1>1, <2>3
  <2> QED
    BY <2>1, <2>2, <2>3, <2>4
<1>4. Quotient(n, e) \in Nat /\ Quotient(n, e + 1) = Quotient(n, e) \div 10
  BY <1>3
<1> QED
  BY <1>1, <1>4 DEF DigitOf, Digit

(* std::stol takes all of up to five digits of a number, and gives the part of
   the number that ends with them, without what stands in front of them. *)
LEMMA StolOf ==
  ASSUME NEW s \in Seq(Nat), NEW n \in Nat, NEW r \in 0 .. 5, NEW e \in 0 .. 7,
         Len(s) = r, e >= r, \A i \in 1 .. r : s[i] = DigitOf(n, e - i)
  PROVE  IF r = 0 THEN Stol(s) = NoNumber
         ELSE Stol(s) \in Nat /\ Quotient(n, e - r) = Stol(s) + 10^r * Quotient(n, e)
<1>1. \A i \in 1 .. r : /\ s[i] \in Digit /\ e - i \in 0 .. 6
                        /\ Quotient(n, e - i) \in Nat /\ Quotient(n, e - i + 1) \in Nat
                        /\ Quotient(n, e - i) = 10 * Quotient(n, e - i + 1) + s[i]
  <2>1. ASSUME NEW i \in 1 .. r PROVE e - i \in 0 .. 6
    OBVIOUS
  <2> QED
    BY <2>1, QuotientStep
<1>2. Leading(s) = r
  <2> DEFINE P(k) == (\A i \in 1 .. k : s[i] \in Digit) /\ (k < Len(s) => s[k + 1] \notin Digit)
  <2>1. r \in 0 .. Len(s) /\ P(r)
    BY <1>1
  <2>2. ASSUME NEW k \in 0 .. Len(s), P(k) PROVE k = r
    <3>1. CASE k < r
      <4>1. k + 1 \in 1 .. r
        BY <3>1
      <4> QED
        BY <1>1, <2>2, <3>1, <4>1
    <3> QED
      BY <3>1
  <2>3. Leading(s) = CHOOSE k \in 0 .. Len(s) : P(k)
    BY DEF Leading
  <2> HIDE DEF P
  <2> QED
    BY <2>1, <2>2, <2>3
<1>3. CASE r = 0
  BY <1>2, <1>3 DEF Stol
<1>4. ASSUME r > 0 PROVE Stol(s) \in Nat /\ Quotient(n, e - r) = Stol(s) + 10^r * Quotient(n, e)
  (* What the digits are worth adds up: each is a difference of two quotients. *)
  <2> DEFINE q(i) == Quotient(n, e - i)
             t(i) == 10^(r - i)
             H(i) == IF i <= r THEN t(i) * q(i) ELSE q(r)
  <2>1. ASSUME NEW i \in 1 .. r PROVE s[i] \in 0 .. 9 /\ q(i) \in Nat /\ q(i - 1) \in Nat /\ q(i) = 10 * q(i - 1) + s[i]
    <3>1. e - (i - 1) = e - i + 1
      OBVIOUS
    <3> QED
      BY <1>1, <3>1 DEF Digit
  <2>2. ASSUME NEW i \in 1 .. r PROVE t(i) \in Nat /\ t(i - 1) = 10 * t(i)
    <3>1. r - i \in 0 .. 4 /\ r - (i - 1) = (r - i) + 1
      OBVIOUS
    <3>2. \A k \in 0 .. 4 : k = 0 \/ k = 1 \/ k = 2 \/ k = 3 \/ k = 4
      OBVIOUS
    <3>3. \A k \in 0 .. 4 : 10^k \in Nat /\ 10^(k + 1) = 10 * 10^k
      <4> SUFFICES ASSUME NEW k \in 0 .. 4 PROVE 10^k \in Nat /\ 10^(k + 1) = 10 * 10^k
        OBVIOUS
      <4>0. CASE k = 0
        BY <4>0, Powers
      <4>1. CASE k = 1
        BY <4>1, Powers
      <4>2. CASE k = 2
        BY <4>2, Powers
      <4>3. CASE k = 3
        BY <4>3, Powers
      <4>4. CASE k = 4
        BY <4>4, Powers
      <4> QED
        BY <3>2, <4>0, <4>1, <4>2, <4>3, <4>4
    <3>4. 10^(r - i) \in Nat /\ 10^((r - i) + 1) = 10 * 10^(r - i)
      BY <3>1, <3>3
    <3> QED
      BY <3>1, <3>4
  <2>3. \A i \in 1 .. r : Worth(s, i) = s[i] * t(i)
    BY <1>2 DEF Worth
  <2>4. \A i \in 1 .. 5 : ~(i <= r) => Worth(s, i) = 0
    BY <1>2 DEF Worth
  <2>5. t(r) = 1 /\ t(0) = 10^r /\ q(0) = Quotient(n, e) /\ q(r) = Quotient(n, e - r)
    BY Powers
  <2>6. q(0) \in Nat /\ q(r) \in Nat
    <3>1. q(1 - 1) \in Nat /\ 1 - 1 = 0
      BY <1>4, <2>1
    <3>2. q(r) \in Nat
      BY <1>4, <2>1
    <3> QED
      BY <3>1, <3>2
  <2> HIDE DEF q, t
  <2>7. H(0) = t(0) * q(0) /\ H(5) = q(r)
    <3>1. CASE r = 5
      BY <2>5, <2>6, <3>1
    <3>2. CASE r # 5
      BY <3>2, <1>4
    <3> QED
      BY <1>4, <3>1, <3>2
  <2>8. ASSUME NEW i \in 1 .. 5 PROVE Worth(s, i) \in Nat /\ H(i) \in Int /\ H(i) = H(i - 1) + Worth(s, i)
    <3>1. CASE i <= r
      <4>1. i \in 1 .. r
        BY <3>1
      <4>2. /\ s[i] \in Nat /\ q(i) \in Nat /\ q(i - 1) \in Nat /\ t(i) \in Nat
            /\ q(i) = 10 * q(i - 1) + s[i] /\ t(i - 1) = 10 * t(i) /\ Worth(s, i) = s[i] * t(i)
        <5>1. s[i] \in Nat /\ q(i) \in Nat /\ q(i - 1) \in Nat /\ q(i) = 10 * q(i - 1) + s[i]
          <6>1. s[i] \in 0 .. 9 /\ q(i) \in Nat /\ q(i - 1) \in Nat /\ q(i) = 10 * q(i - 1) + s[i]
            BY <2>1, <4>1
          <6> QED
            BY <6>1
        <5>2. t(i) \in Nat /\ t(i - 1) = 10 * t(i)
          BY <2>2, <4>1
        <5>3. Worth(s, i) = s[i] * t(i)
          BY <2>3, <4>1
        <5> QED
          BY <5>1, <5>2, <5>3
      <4>4. /\ s[i] * t(i) \in Nat /\ t(i) * q(i) \in Int
            /\ t(i) * q(i) = (10 * t(i)) * q(i - 1) + s[i] * t(i)
        <5>1. PICK x \in Nat, y \in Nat, d \in Nat, p \in Nat : x = q(i) /\ y = q(i - 1) /\ d = s[i] /\ p = t(i)
          BY <4>2
        <5>2. x = 10 * y + d
          BY <4>2, <5>1
        <5>3. d * p \in Nat /\ p * x \in Int /\ p * x = (10 * p) * y + d * p
          BY <5>2
        <5> QED
          BY <5>1, <5>3
      <4>5. H(i) = t(i) * q(i) /\ H(i - 1) = t(i - 1) * q(i - 1)
        BY <3>1
      <4> QED
        BY <4>2, <4>4, <4>5
    <3>2. CASE ~(i <= r)
      <4>1. Worth(s, i) = 0 /\ H(i) = q(r)
        BY <2>4, <3>2
      <4>2. H(i - 1) = q(r)
        <5>1. CASE i - 1 <= r
          <6>1. i - 1 = r
            BY <3>2, <5>1
          <6>2. H(i - 1) = t(r) * q(r)
            BY <6>1
          <6> QED
            BY <2>5, <2>6, <6>2
        <5>2. CASE ~(i - 1 <= r)
          BY <5>2
        <5> QED
          BY <5>1, <5>2
      <4> QED
        BY <2>6, <4>1, <4>2
    <3> QED
      BY <3>1, <3>2
  <2>9. Stol(s) = Worth(s, 1) + Worth(s, 2) + Worth(s, 3) + Worth(s, 4) + Worth(s, 5)
    BY <1>2, <1>4 DEF Stol
  <2> HIDE DEF H
  <2>10. /\ Worth(s, 1) \in Nat /\ H(1) \in Int /\ H(1) = H(0) + Worth(s, 1)
         /\ Worth(s, 2) \in Nat /\ H(2) \in Int /\ H(2) = H(1) + Worth(s, 2)
         /\ Worth(s, 3) \in Nat /\ H(3) \in Int /\ H(3) = H(2) + Worth(s, 3)
         /\ Worth(s, 4) \in Nat /\ H(4) \in Int /\ H(4) = H(3) + Worth(s, 4)
         /\ Worth(s, 5) \in Nat /\ H(5) \in Int /\ H(5) = H(4) + Worth(s, 5)
    <3>1. /\ 1 - 1 = 0 /\ 2 - 1 = 1 /\ 3 - 1 = 2 /\ 4 - 1 = 3 /\ 5 - 1 = 4
          /\ 1 \in 1 .. 5 /\ 2 \in 1 .. 5 /\ 3 \in 1 .. 5 /\ 4 \in 1 .. 5 /\ 5 \in 1 .. 5
      OBVIOUS
    <3> QED
      BY <2>8, <3>1
  <2>11. H(0) \in Int
    <3>1. t(0) \in Int
      BY <1>4, <2>2, <2>5, Powers
    <3> QED
      BY <2>6, <2>7, <3>1
  <2>12. Stol(s) \in Nat /\ H(5) = H(0) + Stol(s)
    <3>1. PICK a \in Nat, b \in Nat, c \in Nat, d \in Nat, f \in Nat :
             a = Worth(s, 1) /\ b = Worth(s, 2) /\ c = Worth(s, 3) /\ d = Worth(s, 4) /\ f = Worth(s, 5)
      BY <2>10
    <3>2. PICK v, w, x, y, z \in Int : v = H(1) /\ w = H(2) /\ x = H(3) /\ y = H(4) /\ z = H(5)
      BY <2>10
    <3>3. PICK u \in Int : u = H(0)
      BY <2>11
    <3>4. v = u + a /\ w = v + b /\ x = w + c /\ y = x + d /\ z = y + f
      BY <2>10, <3>1, <3>2, <3>3
    <3>5. Stol(s) = a + b + c + d + f
      BY <2>9, <3>1
    <3>6. z = u + (a + b + c + d + f) /\ a + b + c + d + f \in Nat
      BY <3>4
    <3> QED
      BY <3>2, <3>3, <3>5, <3>6
  <2>13. H(0) = 10^r * Quotient(n, e) /\ H(5) = Quotient(n, e - r)
    BY <2>5, <2>7
  <2> QED
    BY <2>11, <2>12, <2>13
<1> QED
  BY <1>3, <1>4
(* A power of ten is not above a higher one. *)
LEMMA PowersGrow ==
  ASSUME NEW e \in 0 .. 7, NEW f \in 0 .. 7, e <= f
  PROVE  10^e \in Nat /\ 10^f \in Nat /\ 10^e <= 10^f
<1> DEFINE p(k) == 10^k
<1>1. /\ p(0) = 1 /\ p(1) = 10 /\ p(2) = 100 /\ p(3) = 1000 /\ p(4) = 10000
      /\ p(5) = 100000 /\ p(6) = 1000000 /\ p(7) = 10000000
  BY Powers, SMT
<1> HIDE DEF p
<1>2. \A k \in 0 .. 7 : k = 0 \/ k = 1 \/ k = 2 \/ k = 3 \/ k = 4 \/ k = 5 \/ k = 6 \/ k = 7
  OBVIOUS
<1>3. p(e) \in Nat /\ p(f) \in Nat
  BY <1>1, <1>2, SMT
<1>4. p(e) <= p(f)
  BY <1>1, <1>2, SMT
<1> QED
  BY <1>3, <1>4, Zenon DEF p

(* A quotient is not above the number, and nothing of a number is left behind
   its digits. *)
LEMMA QuotientSmall ==
  ASSUME NEW n \in Nat, NEW e \in 0 .. 7
  PROVE  /\ Quotient(n, e) \in Nat /\ Quotient(n, e) <= n
         /\ e = 0 => Quotient(n, e) = n
         /\ e > 0 /\ n > 0 => Quotient(n, e) < n
         /\ n < 10^e => Quotient(n, e) = 0
<1>1. e = 0 \/ e = 1 \/ e = 2 \/ e = 3 \/ e = 4 \/ e = 5 \/ e = 6 \/ e = 7
  BY SMT
<1>2. /\ 10^0 = 1 /\ 10^1 = 10 /\ 10^2 = 100 /\ 10^3 = 1000 /\ 10^4 = 10000
      /\ 10^5 = 100000 /\ 10^6 = 1000000 /\ 10^7 = 10000000
  BY Powers, SMT
<1> DEFINE Small(p, d) ==
             /\ d \in Nat /\ d <= n
             /\ p = 1 => d = n
             /\ p > 1 /\ n > 0 => d < n
             /\ n < p => d = 0
<1> DEFINE S(k) == Small(10^k, n \div 10^k)
<1>3. S(0) /\ S(1) /\ S(2) /\ S(3) /\ S(4) /\ S(5) /\ S(6) /\ S(7)
  <2>1. S(0)
    <3>1. Small(1, n \div 1)
      BY SMT
    <3>2. 10^0 = 1
      BY <1>2, SMT
    <3> QED
      BY <3>1, <3>2, SMT
  <2>2. S(1)
    <3>1. Small(10, n \div 10)
      BY SMT
    <3>2. 10^1 = 10
      BY <1>2, SMT
    <3> QED
      BY <3>1, <3>2, SMT
  <2>3. S(2)
    <3>1. Small(100, n \div 100)
      BY SMT
    <3>2. 10^2 = 100
      BY <1>2, SMT
    <3> QED
      BY <3>1, <3>2, SMT
  <2>4. S(3)
    <3>1. Small(1000, n \div 1000)
      BY SMT
    <3>2. 10^3 = 1000
      BY <1>2, SMT
    <3> QED
      BY <3>1, <3>2, SMT
  <2>5. S(4)
    <3>1. Small(10000, n \div 10000)
      BY SMT
    <3>2. 10^4 = 10000
      BY <1>2, SMT
    <3> QED
      BY <3>1, <3>2, SMT
  <2>6. S(5)
    <3>1. Small(100000, n \div 100000)
      BY SMT
    <3>2. 10^5 = 100000
      BY <1>2, SMT
    <3> QED
      BY <3>1, <3>2, SMT
  <2>7. S(6)
    <3>1. Small(1000000, n \div 1000000)
      BY SMT
    <3>2. 10^6 = 1000000
      BY <1>2, SMT
    <3> QED
      BY <3>1, <3>2, SMT
  <2>8. S(7)
    <3>1. Small(10000000, n \div 10000000)
      BY SMT
    <3>2. 10^7 = 10000000
      BY <1>2, SMT
    <3> QED
      BY <3>1, <3>2, SMT
  <2> HIDE DEF S
  <2> QED
    BY <2>1, <2>2, <2>3, <2>4, <2>5, <2>6, <2>7, <2>8, Zenon
<1>4. S(e)
  <2> HIDE DEF S
  <2> QED
    BY <1>1, <1>3, Zenon
<1> HIDE DEF Small
<1> DEFINE p(k) == 10^k
<1>5. p(e) \in Nat /\ (e = 0 => p(e) = 1) /\ (e > 0 => p(e) > 1)
  <2>1. p(0) = 1 /\ p(1) = 10 /\ p(2) = 100 /\ p(3) = 1000 /\ p(4) = 10000
        /\ p(5) = 100000 /\ p(6) = 1000000 /\ p(7) = 10000000
    BY <1>2, SMT
  <2> HIDE DEF p
  <2> QED
    BY <1>1, <2>1, SMT
<1>6. \A x, d : Small(x, d) => /\ d \in Nat /\ d <= n
                               /\ x = 1 => d = n
                               /\ x > 1 /\ n > 0 => d < n
                               /\ n < x => d = 0
  BY SMT DEF Small
<1> QED
  BY <1>4, <1>5, <1>6, SMT DEF Quotient

(* A number below ten millions has at most seven digits. *)
LEMMA WidthOf ==
  ASSUME NEW n \in Nat, n < 10^7
  PROVE  Width(n) \in 1 .. 7 /\ n < 10^Width(n) /\ (Width(n) = 1 \/ n >= 10^(Width(n) - 1))
<1> DEFINE P(w) == n < 10^w /\ (w = 1 \/ n >= 10^(w - 1))
<1>1. /\ P(1) <=> n < 10
      /\ P(2) <=> (n < 100 /\ n >= 10)
      /\ P(3) <=> (n < 1000 /\ n >= 100)
      /\ P(4) <=> (n < 10000 /\ n >= 1000)
      /\ P(5) <=> (n < 100000 /\ n >= 10000)
      /\ P(6) <=> (n < 1000000 /\ n >= 100000)
      /\ P(7) <=> (n < 10000000 /\ n >= 1000000)
      /\ P(8) => n >= 10000000
  <2>1. /\ 1 - 1 = 0 /\ 2 - 1 = 1 /\ 3 - 1 = 2 /\ 4 - 1 = 3 /\ 5 - 1 = 4 /\ 6 - 1 = 5
        /\ 7 - 1 = 6 /\ 8 - 1 = 7
    BY SMT
  <2> QED
    BY <2>1, Powers, SMT
<1> HIDE DEF P
<1>2. n < 10000000
  BY Powers, SMT
<1>3. \E w \in 1 .. 8 : P(w)
  <2>1. P(1) \/ P(2) \/ P(3) \/ P(4) \/ P(5) \/ P(6) \/ P(7)
    BY <1>1, <1>2, SMT
  <2>2. /\ 1 \in 1 .. 8 /\ 2 \in 1 .. 8 /\ 3 \in 1 .. 8 /\ 4 \in 1 .. 8 /\ 5 \in 1 .. 8
        /\ 6 \in 1 .. 8 /\ 7 \in 1 .. 8
    BY SMT
  <2> QED
    BY <2>1, <2>2, Zenon
<1>4. Width(n) = CHOOSE w \in 1 .. 8 : P(w)
  BY DEF Width, P
<1>5. Width(n) \in 1 .. 8 /\ P(Width(n))
  BY <1>3, <1>4, SMT
<1>6. Width(n) # 8
  BY <1>1, <1>2, <1>5, SMT
<1> QED
  BY <1>5, <1>6, SMT DEF P

(* What the digits of a number are, the least last, and zeros in front. *)
LEMMA DecimalOf ==
  ASSUME NEW n \in Nat, n < 10^7
  PROVE  /\ Decimal(n) \in Seq(Nat) /\ Len(Decimal(n)) = Width(n)
         /\ \A i \in 1 .. Width(n) : Decimal(n)[i] = DigitOf(n, Width(n) - i)
         /\ \A e \in 0 .. 6 : DigitOf(n, e) \in Digit /\ (e >= Width(n) => DigitOf(n, e) = 0)
<1>1. Width(n) \in 1 .. 7 /\ n < 10^Width(n)
  BY WidthOf, SMT
<1>2. ASSUME NEW e \in 0 .. 6 PROVE DigitOf(n, e) \in Digit
  BY QuotientStep, Zenon
<1>3. ASSUME NEW e \in 0 .. 6, e >= Width(n) PROVE DigitOf(n, e) = 0
  <2>1. 10^Width(n) \in Nat /\ 10^e \in Nat /\ 10^Width(n) <= 10^e
    <3>1. Width(n) \in 0 .. 7 /\ e \in 0 .. 7 /\ Width(n) <= e
      BY <1>1, <1>3, SMT
    <3> QED
      BY <3>1, PowersGrow, Zenon
  <2>2. n < 10^e
    BY <1>1, <2>1, SMT
  <2>3. Quotient(n, e) = 0
    <3>1. e \in 0 .. 7
      BY SMT
    <3> QED
      BY <2>2, <3>1, QuotientSmall, Zenon
  <2> QED
    BY <2>3, SMT DEF DigitOf
<1>4. ASSUME NEW i \in 1 .. Width(n) PROVE Width(n) - i \in 0 .. 6
  BY <1>1, SMT
<1>5. \A i \in 1 .. Width(n) : DigitOf(n, Width(n) - i) \in Nat
  BY <1>2, <1>4, SMT DEF Digit
<1>6. Decimal(n) = [i \in 1 .. Width(n) |-> DigitOf(n, Width(n) - i)]
  BY SMT DEF Decimal, DigitOf, Quotient
<1>7. Decimal(n) \in Seq(Nat) /\ Len(Decimal(n)) = Width(n)
  BY <1>1, <1>5, <1>6, SMT
<1>8. \A i \in 1 .. Width(n) : Decimal(n)[i] = DigitOf(n, Width(n) - i)
  BY <1>6, SMT
<1> QED
  BY <1>2, <1>3, <1>7, <1>8, Zenon
-----------------------------------------------------------------------------
(* The headers. *)

(* zeroes_pre: the number with zeros in front, to five digits at least. *)
LEMMA PaddedOf ==
  ASSUME NEW n \in Nat, n < 10^7, NEW d \in 5 .. 7, d = IF Width(n) > 5 THEN Width(n) ELSE 5
  PROVE  /\ Padded(Decimal(n), Digits) \in Seq(Nat) /\ Len(Padded(Decimal(n), Digits)) = d
         /\ \A i \in 1 .. d : Padded(Decimal(n), Digits)[i] = DigitOf(n, d - i)
<1> DEFINE w == Width(n)
           z == Zeroes(Digits - Len(Decimal(n)))
<1>1. /\ Decimal(n) \in Seq(Nat) /\ Len(Decimal(n)) = w /\ w \in 1 .. 7
      /\ \A i \in 1 .. w : Decimal(n)[i] = DigitOf(n, w - i)
      /\ \A e \in 0 .. 6 : e >= w => DigitOf(n, e) = 0
  BY DecimalOf, WidthOf, Zenon
<1>6. d = IF w > 5 THEN w ELSE 5
  OBVIOUS
<1> HIDE DEF w, z
<1>7. z = [i \in 1 .. (5 - w) |-> 0]
  BY <1>1 DEF z, Zeroes, Digits
<1>2. z \in Seq(Nat) /\ Len(z) = d - w /\ \A i \in 1 .. d - w : z[i] = 0
  <2>1. CASE w > 5
    <3>1. 1 .. (5 - w) = 1 .. 0 /\ d - w = 0
      BY <1>1, <1>6, <2>1, SMT
    <3>2. z = [i \in 1 .. 0 |-> 0]
      BY <1>7, <3>1
    <3>3. z \in Seq(Nat) /\ Len(z) = 0
      BY <3>2, SMT
    <3>4. \A i \in 1 .. 0 : FALSE
      BY SMT
    <3> QED
      BY <3>1, <3>3, <3>4, Zenon
  <2>2. CASE ~(w > 5)
    <3>1. z = [i \in 1 .. (d - w) |-> 0] /\ d - w \in Nat
      BY <1>1, <1>6, <1>7, <2>2, SMT
    <3> QED
      BY <3>1, SMT
  <2> QED
    BY <2>1, <2>2
<1>3. Padded(Decimal(n), Digits) = z \o Decimal(n)
  BY DEF Padded, z
<1>9. z \in Seq(Nat) /\ Decimal(n) \in Seq(Nat)
  BY <1>1, <1>2, Zenon
<1>10. w \in 1 .. 7
  BY <1>1, Zenon
<1>8. /\ z \o Decimal(n) \in Seq(Nat) /\ Len(z \o Decimal(n)) = Len(z) + Len(Decimal(n))
      /\ \A i \in 1 .. Len(z) : (z \o Decimal(n))[i] = z[i]
      /\ \A i \in 1 .. Len(Decimal(n)) : (z \o Decimal(n))[Len(z) + i] = Decimal(n)[i]
  BY <1>9, ConcatParts, Zenon
<1>4. z \o Decimal(n) \in Seq(Nat) /\ Len(z \o Decimal(n)) = d
  BY <1>1, <1>2, <1>6, <1>8, SMT
<1>5. ASSUME NEW i \in 1 .. d PROVE (z \o Decimal(n))[i] = DigitOf(n, d - i)
  <2>1. CASE i <= d - w
    <3>1. (z \o Decimal(n))[i] = 0
      BY <1>1, <1>2, <1>8, <2>1, SMT
    <3>2. d - i \in 0 .. 6 /\ d - i >= w
      BY <1>1, <1>6, <2>1, SMT
    <3> QED
      BY <1>1, <3>1, <3>2, Zenon
  <2>2. CASE ~(i <= d - w)
    <3>1. i - (d - w) \in 1 .. w /\ w - (i - (d - w)) = d - i /\ (d - w) + (i - (d - w)) = i
      BY <1>6, <1>10, <2>2, SMT
    <3>3. (z \o Decimal(n))[i] = Decimal(n)[i - (d - w)]
      <4>1. Len(z) + (i - (d - w)) = i /\ i - (d - w) \in 1 .. Len(Decimal(n))
        <5>1. Len(z) = d - w /\ Len(Decimal(n)) = w
          BY <1>1, <1>2, Zenon
        <5> QED
          BY <3>1, <5>1, Zenon
      <4>2. (z \o Decimal(n))[Len(z) + (i - (d - w))] = Decimal(n)[i - (d - w)]
        BY <1>8, <4>1, Zenon
      <4> QED
        BY <4>1, <4>2, Zenon
    <3>2. Decimal(n)[i - (d - w)] = DigitOf(n, w - (i - (d - w)))
      BY <1>1, <3>1, Zenon
    <3> QED
      BY <3>1, <3>2, <3>3, Zenon
  <2> QED
    BY <2>1, <2>2
<1> QED
  BY <1>3, <1>4, <1>5, Zenon

(* The header of the scripts. *)
LEMMA ScriptLaid ==
  ASSUME NEW l \in Nat, l + 9 < 10^7, NEW d \in 5 .. 7, d = IF Width(l + 9) > 5 THEN Width(l + 9) ELSE 5
  PROVE  /\ ScriptHeader(l) \in Seq(Nat) /\ Len(ScriptHeader(l)) = 4 + d
         /\ ScriptHeader(l)[1] = Gt /\ ScriptHeader(l)[2] = Gt
         /\ \A i \in 1 .. d : ScriptHeader(l)[2 + i] = DigitOf(l + 9, d - i)
<1> DEFINE n == l + 9
           p == Padded(Decimal(n), Digits)
           a == <<Gt, Gt>>
           b == <<Lt, Lt>>
<1>1. n \in Nat /\ n < 10^7
  BY SMT
<1>2. p \in Seq(Nat) /\ Len(p) = d /\ \A i \in 1 .. d : p[i] = DigitOf(n, d - i)
  BY <1>1, PaddedOf
<1>3. ScriptHeader(l) = a \o p \o b
  <2>1. l + 4 + 5 = l + 9
    BY SMT
  <2> QED
    BY <2>1 DEF ScriptHeader, ZeroesPre, Digits
<1>4. /\ a \in Seq(Nat) /\ Len(a) = 2 /\ a[1] = Gt /\ a[2] = Gt
      /\ b \in Seq(Nat) /\ Len(b) = 2
  BY SMT DEF Gt, Lt
<1> HIDE DEF n, p, a, b
<1>5. /\ a \o p \o b \in Seq(Nat) /\ Len(a \o p \o b) = 4 + d
      /\ (a \o p \o b)[1] = Gt /\ (a \o p \o b)[2] = Gt
      /\ \A i \in 1 .. d : (a \o p \o b)[2 + i] = p[i]
  <2>1. /\ a \o p \in Seq(Nat) /\ Len(a \o p) = 2 + d /\ (a \o p)[1] = a[1] /\ (a \o p)[2] = a[2]
        /\ \A i \in 1 .. d : (a \o p)[2 + i] = p[i]
    <3>1. /\ a \o p \in Seq(Nat) /\ Len(a \o p) = Len(a) + Len(p)
          /\ \A i \in 1 .. Len(a) : (a \o p)[i] = a[i]
          /\ \A i \in 1 .. Len(p) : (a \o p)[Len(a) + i] = p[i]
      <4>1. a \in Seq(Nat) /\ p \in Seq(Nat)
        BY <1>2, <1>4, Zenon
      <4> QED
        BY <4>1, ConcatParts, Zenon
    <3>2. 1 \in 1 .. 2 /\ 2 \in 1 .. 2
      BY SMT
    <3> QED
      BY <1>2, <1>4, <3>1, <3>2, Zenon
  <2>5. /\ a \o p \o b \in Seq(Nat) /\ Len(a \o p \o b) = Len(a \o p) + Len(b)
        /\ \A j \in 1 .. Len(a \o p) : (a \o p \o b)[j] = (a \o p)[j]
    <3>1. a \o p \in Seq(Nat) /\ b \in Seq(Nat)
      BY <1>4, <2>1, Zenon
    <3> QED
      BY <3>1, ConcatParts, Zenon
  <2>2. \A j \in 1 .. 2 + d : (a \o p \o b)[j] = (a \o p)[j]
    BY <2>1, <2>5, Zenon
  <2>3. a \o p \o b \in Seq(Nat) /\ Len(a \o p \o b) = 4 + d
    BY <1>4, <2>1, <2>5, SMT
  <2>4. 1 \in 1 .. 2 + d /\ 2 \in 1 .. 2 + d /\ \A i \in 1 .. d : 2 + i \in 1 .. 2 + d
    BY SMT
  <2> QED
    BY <1>4, <2>1, <2>2, <2>3, <2>4, Zenon
<1> QED
  BY <1>2, <1>3, <1>5, Zenon DEF n

(* The robot's: the number ends at the seventh byte, and what it does not
   cover of the blank header stays. *)
LEMMA RobotLaid ==
  ASSUME NEW l \in Nat, l + 10 < 10^7
  PROVE  /\ RobotHeader(l) \in Seq(Nat) /\ Len(RobotHeader(l)) = 10
         /\ Width(l + 10) <= 5 =>
              /\ RobotHeader(l)[1] = Gt /\ RobotHeader(l)[2] = Gt
              /\ \A i \in 1 .. 5 : RobotHeader(l)[2 + i] = DigitOf(l + 10, 5 - i)
         /\ Width(l + 10) > 5 =>
              /\ \A i \in 2 .. 10 : RobotHeader(l)[i] # Gt
              /\ \A i \in 1 .. 6 : RobotHeader(l)[1 + i] = DigitOf(l + 10, 6 - i)
<1> DEFINE n == l + 10
           w == Width(n)
           end == <<Lt, Lt, Nul>>
           text == Decimal(n) \o end
           h == RobotHeader(l)
<1>1. n \in Nat /\ n < 10^7
  BY SMT
<1>2. /\ Decimal(n) \in Seq(Nat) /\ Len(Decimal(n)) = w /\ w \in 1 .. 7
      /\ \A i \in 1 .. w : Decimal(n)[i] = DigitOf(n, w - i)
      /\ \A e \in 0 .. 6 : DigitOf(n, e) \in Digit /\ (e >= w => DigitOf(n, e) = 0)
  BY <1>1, DecimalOf, WidthOf, Zenon
<1>3. end \in Seq(Nat) /\ Len(end) = 3 /\ \A i \in 1 .. 3 : end[i] \in {Lt, Nul}
  <2>1. end[1] = Lt /\ end[2] = Lt /\ end[3] = Nul
    BY SMT
  <2>2. \A i \in 1 .. 3 : i = 1 \/ i = 2 \/ i = 3
    BY SMT
  <2>3. end \in Seq(Nat) /\ Len(end) = 3
    BY SMT DEF Lt, Nul
  <2> QED
    BY <2>1, <2>2, <2>3
<1>4. /\ Len(Blank) = 10 /\ Blank \in Seq(Nat) /\ Blank[1] = Gt /\ Blank[2] = Gt
      /\ \A i \in 3 .. 7 : Blank[i] = 0
  BY SMT DEF Blank, Gt, Lt, Nul
<1> HIDE DEF end, w, n
<1>13. /\ text \in Seq(Nat) /\ Len(text) = Len(Decimal(n)) + Len(end)
       /\ \A i \in 1 .. Len(Decimal(n)) : text[i] = Decimal(n)[i]
       /\ \A i \in 1 .. Len(end) : text[Len(Decimal(n)) + i] = end[i]
  <2>1. Decimal(n) \in Seq(Nat) /\ end \in Seq(Nat)
    BY <1>2, <1>3, Zenon
  <2> QED
    BY <2>1, ConcatParts, Zenon DEF text
<1> HIDE DEF text
<1>14. w \in 1 .. 7
  BY <1>2, Zenon
<1>5. /\ text \in Seq(Nat) /\ Len(text) = w + 3
      /\ \A i \in 1 .. w : text[i] = Decimal(n)[i]
      /\ \A i \in w + 1 .. w + 3 : text[i] = end[i - w] /\ i - w \in 1 .. 3
  <2>1. ASSUME NEW i \in w + 1 .. w + 3 PROVE i - w \in 1 .. 3 /\ w + (i - w) = i
    BY <1>2, SMT
  <2>2. Len(text) = w + 3 /\ \A i \in 1 .. w : text[i] = Decimal(n)[i]
    BY <1>2, <1>3, <1>13, Zenon
  <2>3. ASSUME NEW i \in w + 1 .. w + 3 PROVE text[i] = end[i - w]
    BY <1>2, <1>3, <1>13, <2>1, Zenon
  <2> QED
    BY <1>13, <2>1, <2>2, <2>3, Zenon
<1>6. h = [i \in 1 .. 10 |-> IF i > 7 - w THEN text[i - (7 - w)] ELSE Blank[i]]
  <2>1. h = [i \in 1 .. Len(Blank) |->
               IF i > Len(Blank) - Len(text) THEN text[i - (Len(Blank) - Len(text))] ELSE Blank[i]]
    BY DEF RobotHeader, HeaderSize, text, end, n
  <2> HIDE DEF h
  <2>2. Len(Blank) - Len(text) = 7 - w
    BY <1>2, <1>4, <1>5, SMT
  <2> QED
    BY <1>4, <2>1, <2>2
<1> HIDE DEF h
<1>7. ASSUME NEW i \in 1 .. 7, i > 7 - w PROVE h[i] = DigitOf(n, 7 - i) /\ h[i] \in Digit
  <2>1. /\ i - (7 - w) \in 1 .. w /\ w - (i - (7 - w)) = 7 - i /\ i \in 1 .. 10 /\ 7 - i \in 0 .. 6
    BY <1>2, <1>7, SMT
  <2>2. h[i] = text[i - (7 - w)]
    BY <1>6, <1>7, <2>1
  <2> QED
    BY <1>2, <1>5, <2>1, <2>2, Zenon
<1>8. ASSUME NEW i \in 8 .. 10 PROVE h[i] \in {Lt, Nul}
  <2>1. i - (7 - w) \in w + 1 .. w + 3 /\ i \in 1 .. 10 /\ i > 7 - w
    BY <1>2, SMT
  <2>2. h[i] = text[i - (7 - w)]
    BY <1>6, <2>1
  <2> QED
    BY <1>3, <1>5, <2>1, <2>2, Zenon
<1>9. ASSUME NEW i \in 1 .. 10, ~(i > 7 - w) PROVE h[i] = Blank[i]
  BY <1>6, <1>9
<1>10. h \in Seq(Nat) /\ Len(h) = 10
  <2>1. ASSUME NEW i \in 1 .. 10 PROVE h[i] \in Nat
    <3>1. CASE i \in 1 .. 7 /\ i > 7 - w
      BY <1>7, <3>1 DEF Digit
    <3>2. CASE i \in 8 .. 10
      BY <1>8, <3>2 DEF Lt, Nul
    <3>3. CASE ~(i > 7 - w)
      <4>1. h[i] = Blank[i] /\ i \in 1 .. Len(Blank)
        BY <1>4, <1>9, <3>3
      <4> QED
        BY <1>4, <4>1, ElementOfSeq
    <3> QED
      BY <3>1, <3>2, <3>3, SMT
  <2> DEFINE v == [i \in 1 .. 10 |-> h[i]]
  <2>2. h = v
    BY <1>6
  <2>3. v \in Seq(Nat) /\ Len(v) = 10
    BY <2>1, SMT
  <2> QED
    BY <2>2, <2>3
<1>11. ASSUME w <= 5 PROVE h[1] = Gt /\ h[2] = Gt /\ \A i \in 1 .. 5 : h[2 + i] = DigitOf(n, 5 - i)
  <2>1. h[1] = Gt /\ h[2] = Gt
    <3>1. 1 \in 1 .. 10 /\ 2 \in 1 .. 10 /\ ~(1 > 7 - w) /\ ~(2 > 7 - w)
      BY <1>2, <1>11, SMT
    <3> QED
      BY <1>4, <1>9, <3>1
  <2>2. ASSUME NEW i \in 1 .. 5 PROVE h[2 + i] = DigitOf(n, 5 - i)
    <3>1. 2 + i \in 1 .. 7 /\ 2 + i \in 1 .. 10 /\ 2 + i \in 3 .. 7 /\ 7 - (2 + i) = 5 - i /\ 5 - i \in 0 .. 6
      BY SMT
    <3>2. CASE 2 + i > 7 - w
      BY <1>7, <3>1, <3>2
    <3>3. CASE ~(2 + i > 7 - w)
      <4>1. h[2 + i] = 0
        BY <1>4, <1>9, <3>1, <3>3
      <4>2. 5 - i >= w
        BY <1>2, <3>3, SMT
      <4> QED
        BY <1>2, <3>1, <4>1, <4>2
    <3> QED
      BY <3>2, <3>3
  <2> QED
    BY <2>1, <2>2
<1>12. ASSUME w > 5
       PROVE  /\ \A i \in 2 .. 10 : h[i] # Gt
              /\ \A i \in 1 .. 6 : h[1 + i] = DigitOf(n, 6 - i)
  <2>1. ASSUME NEW i \in 2 .. 10 PROVE h[i] # Gt
    <3>1. CASE i \in 8 .. 10
      BY <1>8, <3>1 DEF Gt, Lt, Nul
    <3>2. CASE i \notin 8 .. 10
      <4>1. i \in 1 .. 7 /\ i > 7 - w
        BY <1>12, <1>14, <3>2
      <4>2. h[i] \in Digit
        BY <1>7, <4>1
      <4> QED
        BY <4>2 DEF Digit, Gt
    <3> QED
      BY <3>1, <3>2
  <2>2. ASSUME NEW i \in 1 .. 6 PROVE h[1 + i] = DigitOf(n, 6 - i)
    <3>1. 1 + i \in 1 .. 7 /\ 1 + i > 7 - w /\ 7 - (1 + i) = 6 - i
      BY <1>12, <1>14
    <3> QED
      BY <1>7, <3>1
  <2> QED
    BY <2>1, <2>2
<1> QED
  BY <1>10, <1>11, <1>12, Zenon DEF h, w, n
-----------------------------------------------------------------------------
(* Reading. *)

(* Of two numbers the smaller one. *)
LEMMA LeastOfTwo ==
  ASSUME NEW a \in Nat, NEW b \in Nat
  PROVE  Least({a, b}) = IF a <= b THEN a ELSE b
<1>1. {a, b} \in SUBSET Nat /\ {a, b} # {}
  OBVIOUS
<1>2. Least({a, b}) \in {a, b} /\ \A q \in {a, b} : Least({a, b}) <= q
  BY <1>1, LeastIn
<1>3. Least({a, b}) \in Nat
  BY <1>2
<1> QED
  BY <1>2, <1>3

(* A part of a header in which r digits of the number, from its f-th character
   on, are those of n behind its last e. *)
Shows(s, n, f, e, r) ==
  /\ s \in Seq(Nat) /\ n \in Nat /\ f \in 2 .. 3 /\ e \in 5 .. 7 /\ r \in 0 .. 5
  /\ r = IF Len(s) < f THEN 0 ELSE IF Len(s) < f + 4 THEN Len(s) - f + 1 ELSE 5
  /\ NumberAt(s) = f
  /\ \A i \in 1 .. r : s[f - 1 + i] = DigitOf(n, e - i)

(* get_total_data_size of such a part: all of the number up to the digits that
   are still missing, or what that leaves of it without its beginning. *)
LEMMA ReadsPrefix ==
  ASSUME NEW s, NEW n, NEW f, NEW e, NEW r, Shows(s, n, f, e, r)
  PROVE  /\ r = 0 => TotalDataSize(s) = NoNumber
         /\ r > 0 => TotalDataSize(s) \in Nat /\ TotalDataSize(s) <= Quotient(n, e - r)
         /\ r > 0 /\ Quotient(n, e) = 0 => TotalDataSize(s) = Quotient(n, e - r)
<1> DEFINE k == Len(s)
           m == Least({Len(s), f + 4})
           t == SubSeq(s, f, m)
<1>1. /\ s \in Seq(Nat) /\ n \in Nat /\ f \in 2 .. 3 /\ e \in 5 .. 7 /\ r \in 0 .. 5
      /\ r = IF k < f THEN 0 ELSE IF k < f + 4 THEN k - f + 1 ELSE 5
      /\ NumberAt(s) = f
      /\ \A i \in 1 .. r : s[f - 1 + i] = DigitOf(n, e - i)
  BY DEF Shows
<1>2. k \in Nat /\ f \in Nat
  <2>1. Len(s) \in Nat
    BY <1>1, LenProperties
  <2> QED
    BY <1>1, <2>1
<1>3. m = IF k <= f + 4 THEN k ELSE f + 4
  <2>1. f + 4 \in Nat
    BY <1>2
  <2> QED
    BY <1>2, <2>1, LeastOfTwo
<1> HIDE DEF m, k
<1>4. /\ m \in Nat /\ m <= k
      /\ (IF f <= m THEN m - f + 1 ELSE 0) = r
      /\ \A i \in 1 .. r : f + i - 1 = f - 1 + i /\ f - 1 + i \in 1 .. k
      /\ r > 0 => m - f + 1 = r
  <2>1. m \in Nat /\ m <= k
    BY <1>1, <1>2, <1>3
  <2>2. (IF f <= m THEN m - f + 1 ELSE 0) = r /\ (r > 0 => m - f + 1 = r)
    BY <1>1, <1>2, <1>3
  <2>3. ASSUME NEW i \in 1 .. r PROVE f + i - 1 = f - 1 + i /\ f - 1 + i \in 1 .. k
    BY <1>1, <1>2
  <2> QED
    BY <2>1, <2>2, <2>3
<1>5. t \in Seq(Nat) /\ Len(t) = r /\ \A i \in 1 .. r : t[i] = DigitOf(n, e - i)
  <2>1. ASSUME NEW i \in f .. m PROVE s[i] \in Nat
    <3>1. i \in 1 .. Len(s)
      BY <1>2, <1>4, <2>1 DEF k
    <3> QED
      BY <1>1, <3>1, ElementOfSeq
  <2>2. f \in Int /\ m \in Int
    BY <1>2, <1>4
  <2>3. /\ t \in Seq(Nat) /\ Len(t) = IF f <= m THEN m - f + 1 ELSE 0
        /\ \A i \in 1 .. m - f + 1 : t[i] = s[f + i - 1]
    BY <2>1, <2>2, SubSeqProperties
  <2> HIDE DEF t
  <2>4. ASSUME NEW i \in 1 .. r PROVE t[i] = DigitOf(n, e - i)
    <3>1. r > 0
      BY <1>1, <2>4
    <3>2. t[i] = s[f + i - 1]
      BY <1>4, <2>3, <3>1
    <3>3. f + i - 1 = f - 1 + i /\ f - 1 + i \in 1 .. k
      BY <1>4
    <3> QED
      BY <1>1, <3>2, <3>3
  <2> QED
    BY <1>4, <2>3, <2>4
<1>6. TotalDataSize(s) = Stol(t)
  <2>1. NumberAt(s) + Digits - 1 = f + 4
    BY <1>1, <1>2 DEF Digits
  <2>2. TotalDataSize(s) = Stol(SubSeq(s, NumberAt(s), Least({Len(s), NumberAt(s) + Digits - 1})))
    BY DEF TotalDataSize
  <2> QED
    BY <1>1, <2>1, <2>2, Zenon DEF t, m
<1> HIDE DEF t
<1>7. e \in 0 .. 7 /\ e >= r /\ e - r \in 0 .. 7
  BY <1>1
<1>8. IF r = 0 THEN Stol(t) = NoNumber
      ELSE Stol(t) \in Nat /\ Quotient(n, e - r) = Stol(t) + 10^r * Quotient(n, e)
  BY <1>1, <1>5, <1>7, StolOf
<1>9. Quotient(n, e) \in Nat /\ Quotient(n, e - r) \in Nat
  BY <1>1, <1>7, QuotientSmall
<1>10. 10^r \in Nat
  <2>1. r \in 0 .. 7 /\ r <= r
    BY <1>1
  <2> QED
    BY <2>1, PowersGrow
<1>11. ASSUME r > 0 PROVE /\ Stol(t) \in Nat /\ Stol(t) <= Quotient(n, e - r)
                          /\ Quotient(n, e) = 0 => Stol(t) = Quotient(n, e - r)
  <2>1. PICK v \in Nat, x \in Nat, p \in Nat, y \in Nat :
          v = Stol(t) /\ x = Quotient(n, e) /\ p = 10^r /\ y = Quotient(n, e - r)
    <3>1. Stol(t) \in Nat
      BY <1>8, <1>11
    <3> QED
      BY <1>9, <1>10, <3>1, Zenon
  <2>2. y = v + p * x
    BY <1>8, <1>11, <2>1
  <2>3. p * x \in Nat /\ (x = 0 => p * x = 0)
    OBVIOUS
  <2>4. v <= y /\ (x = 0 => v = y)
    BY <2>2, <2>3
  <2> QED
    BY <2>1, <2>4
<1> QED
  BY <1>1, <1>6, <1>8, <1>11
(* Which is never more than the number. *)
LEMMA ReadsAtMost ==
  ASSUME NEW s, NEW n, NEW f, NEW e, NEW r, Shows(s, n, f, e, r)
  PROVE  /\ TotalDataSize(s) \in Int /\ TotalDataSize(s) <= n
         /\ e > r /\ n > 0 => TotalDataSize(s) < n
<1>1. n \in Nat /\ e \in 5 .. 7 /\ r \in 0 .. 5
  BY DEF Shows
<1>2. e - r \in 0 .. 7 /\ (e > r => e - r > 0)
  BY <1>1, SMT
<1>3. /\ Quotient(n, e - r) \in Nat /\ Quotient(n, e - r) <= n
      /\ e - r > 0 /\ n > 0 => Quotient(n, e - r) < n
  BY <1>1, <1>2, QuotientSmall, Zenon
<1>4. /\ r = 0 => TotalDataSize(s) = NoNumber
      /\ r > 0 => TotalDataSize(s) \in Nat /\ TotalDataSize(s) <= Quotient(n, e - r)
  BY ReadsPrefix, Zenon
<1>5. CASE r = 0
  BY <1>1, <1>4, <1>5 DEF NoNumber
<1>6. CASE r > 0
  BY <1>1, <1>2, <1>3, <1>4, <1>6
<1> QED
  BY <1>1, <1>5, <1>6

(* A header that begins with both marks, the digits of n behind them, is read
   from its third character, wherever recv() cuts it. *)
LEMMA MarkedPart ==
  ASSUME NEW h \in Seq(Nat), NEW n \in Nat, NEW d \in 5 .. 7, n < 10^d, Len(h) >= 2 + d,
         h[1] = Gt, h[2] = Gt, \A i \in 1 .. d : h[2 + i] = DigitOf(n, d - i), NEW k \in 0 .. Len(h)
  PROVE  LET size == TotalDataSize(SubSeq(h, 1, k)) IN
         size \in Int /\ size <= n /\ (k >= 7 => size = Quotient(n, d - 5))
<1> DEFINE s == SubSeq(h, 1, k)
           f == IF k < 2 THEN 2 ELSE 3
           r == IF k < 3 THEN 0 ELSE IF k < 7 THEN k - 2 ELSE 5
<1>1. s \in Seq(Nat) /\ Len(s) = k /\ \A p \in 1 .. k : s[p] = h[p]
  BY FirstOf
<1>2. k \in Nat
  <2>1. Len(h) \in Nat
    BY LenProperties
  <2> QED
    BY <2>1
<1> HIDE DEF s
<1>3. f \in 2 .. 3 /\ r \in 0 .. 5 /\ r = IF k < f THEN 0 ELSE IF k < f + 4 THEN k - f + 1 ELSE 5
  BY <1>2
<1>4. NumberAt(s) = f
  <2>1. CASE k < 2
    <3>1. Found(s) = {}
      BY <1>1, <1>2, <2>1 DEF Found
    <3> QED
      BY <2>1, <3>1 DEF NumberAt
  <2>2. CASE ~(k < 2)
    <3>1. 1 \in 1 .. k - 1 /\ 1 \in 1 .. k /\ 1 + 1 \in 1 .. k /\ 1 + 1 = 2
      BY <1>2, <2>2
    <3>2. 1 \in Found(s)
      BY <1>1, <3>1 DEF Found
    <3>3. Found(s) \in SUBSET Nat /\ \A p \in Found(s) : p >= 1
      <4>1. k - 1 \in Int
        BY <1>2
      <4> QED
        BY <1>1, <4>1 DEF Found
    <3>4. Least(Found(s)) \in Found(s) /\ Least(Found(s)) <= 1
      BY <3>2, <3>3, LeastIn
    <3>5. Least(Found(s)) = 1
      BY <3>3, <3>4
    <3>6. Found(s) # {}
      BY <3>2
    <3> QED
      BY <2>2, <3>5, <3>6 DEF NumberAt
  <2> QED
    BY <2>1, <2>2
<1>5. \A i \in 1 .. r : s[f - 1 + i] = DigitOf(n, d - i)
  <2> SUFFICES ASSUME NEW i \in 1 .. r PROVE s[f - 1 + i] = DigitOf(n, d - i)
    OBVIOUS
  <2>1. f - 1 + i = 2 + i /\ 2 + i \in 1 .. k /\ i \in 1 .. d
    BY <1>2
  <2>2. s[2 + i] = h[2 + i] /\ h[2 + i] = DigitOf(n, d - i)
    BY <1>1, <2>1
  <2> QED
    BY <2>1, <2>2
<1> HIDE DEF f, r
<1>6. Shows(s, n, f, d, r)
  BY <1>1, <1>3, <1>4, <1>5 DEF Shows
<1>7. TotalDataSize(s) \in Int /\ TotalDataSize(s) <= n
  BY <1>6, ReadsAtMost, Zenon
<1>8. ASSUME k >= 7 PROVE TotalDataSize(s) = Quotient(n, d - 5)
  <2>1. r = 5 /\ r > 0 /\ d \in 0 .. 7
    BY <1>2, <1>8 DEF r
  <2>2. Quotient(n, d) = 0
    BY <2>1, QuotientSmall, Zenon
  <2> QED
    <3>1. r > 0 /\ Quotient(n, d) = 0 => TotalDataSize(s) = Quotient(n, d - r)
      BY <1>6, ReadsPrefix, Zenon
    <3> QED
      BY <2>1, <2>2, <3>1, Zenon
<1> QED
  BY <1>7, <1>8, Zenon DEF s

(* A part of a header of the scripts stands for the message's size at most,
   and the whole for the size if that has five digits, else for a smaller one. *)
LEMMA ScriptRead ==
  ASSUME NEW l \in Nat, l + 9 < 10^7, NEW h, h = ScriptHeader(l)
  PROVE  /\ \A k \in 0 .. Len(h) : TotalDataSize(SubSeq(h, 1, k)) <= Len(h) + l
         /\ IF Len(h) + l < 10^Digits THEN TotalDataSize(h) = Len(h) + l ELSE TotalDataSize(h) < Len(h) + l
<1> DEFINE n == l + 9
           d == IF Width(n) > 5 THEN Width(n) ELSE 5
           Size(k) == TotalDataSize(SubSeq(h, 1, k))
<1>1. n \in Nat /\ n < 10^7 /\ n > 0 /\ n = l + 9
  BY SMT
<1>2. /\ Width(n) \in 1 .. 7 /\ n < 10^Width(n) /\ (Width(n) = 1 \/ n >= 10^(Width(n) - 1))
  BY <1>1, WidthOf, Zenon
<1>3. d \in 5 .. 7
  <2> HIDE DEF n
  <2> QED
    BY <1>2, SMT
<1>4. /\ h \in Seq(Nat) /\ Len(h) = 4 + d /\ h[1] = Gt /\ h[2] = Gt
      /\ \A i \in 1 .. d : h[2 + i] = DigitOf(n, d - i)
  BY <1>3, ScriptLaid
<1>5. d = IF Width(n) > 5 THEN Width(n) ELSE 5
  OBVIOUS
<1> HIDE DEF d, n
<1>6. n < 10^d
  <2>1. Width(n) \in 0 .. 7 /\ d \in 0 .. 7 /\ Width(n) <= d
    BY <1>2, <1>3, <1>5, SMT
  <2>2. 10^Width(n) \in Nat /\ 10^d \in Nat /\ 10^Width(n) <= 10^d
    BY <2>1, PowersGrow, Zenon
  <2> QED
    BY <1>1, <1>2, <2>2, SMT
<1>8. ASSUME NEW k \in 0 .. Len(h) PROVE Size(k) \in Int /\ Size(k) <= n /\ (k >= 7 => Size(k) = Quotient(n, d - 5))
  <2>1. Len(h) >= 2 + d
    BY <1>3, <1>4, SMT
  <2> QED
    BY <1>1, <1>3, <1>4, <1>6, <2>1, MarkedPart
<1>9. Len(h) + l = n + d - 5
  BY <1>1, <1>3, <1>4, SMT
<1>10. \A k \in 0 .. Len(h) : Size(k) <= Len(h) + l
  <2> SUFFICES ASSUME NEW k \in 0 .. Len(h) PROVE Size(k) <= Len(h) + l
    OBVIOUS
  <2>1. Size(k) \in Int /\ Size(k) <= n
    BY <1>8
  <2> HIDE DEF Size
  <2> QED
    BY <1>1, <1>3, <1>9, <2>1, SMT
<1>11. TotalDataSize(h) = Quotient(n, d - 5)
  <2>1. Len(h) \in 0 .. Len(h) /\ Len(h) >= 7
    BY <1>3, <1>4, SMT
  <2>2. Size(Len(h)) = Quotient(n, d - 5)
    <3> HIDE DEF Size
    <3> QED
      BY <1>8, <2>1
  <2>3. SubSeq(h, 1, Len(h)) = h
    BY <1>4, SubSeqFull
  <2> QED
    BY <2>2, <2>3
<1>12. IF Len(h) + l < 10^Digits THEN TotalDataSize(h) = Len(h) + l ELSE TotalDataSize(h) < Len(h) + l
  <2>1. 10^Digits = 100000 /\ 10^5 = 100000
    BY Powers, SMT DEF Digits
  <2>2. d - 5 \in 0 .. 7 /\ (d - 5 = 0 \/ d - 5 > 0)
    BY <1>3, SMT
  <2>3. /\ Quotient(n, d - 5) \in Nat
        /\ d - 5 = 0 => Quotient(n, d - 5) = n
        /\ d - 5 > 0 => Quotient(n, d - 5) < n
    BY <1>1, <2>2, QuotientSmall, Zenon
  <2>4. CASE d = 5
    <3>1. Len(h) + l = n /\ n < 100000 /\ d - 5 = 0
      BY <1>1, <1>6, <1>9, <2>1, <2>4, SMT
    <3>2. TotalDataSize(h) = n /\ Len(h) + l < 10^Digits
      BY <1>11, <2>1, <2>3, <3>1, SMT
    <3> QED
      BY <3>1, <3>2, SMT
  <2>5. CASE d # 5
    <3>1. Width(n) > 5 /\ d = Width(n) /\ d - 5 > 0 /\ d - 1 \in 5 .. 6
      BY <1>2, <1>3, <1>5, <2>5, SMT
    <3>2. n >= 10^(d - 1)
      BY <1>2, <3>1
    <3>3. 10^5 <= 10^(d - 1) /\ 10^(d - 1) \in Nat
      <4>1. 5 \in 0 .. 7 /\ d - 1 \in 0 .. 7 /\ 5 <= d - 1
        BY <3>1, SMT
      <4> QED
        BY <4>1, PowersGrow, Zenon
    <3>4. n >= 100000
      BY <1>1, <2>1, <3>2, <3>3, SMT
    <3>5. ~(Len(h) + l < 10^Digits) /\ TotalDataSize(h) < Len(h) + l
      BY <1>1, <1>3, <1>9, <1>11, <2>1, <2>3, <3>1, <3>4, SMT
    <3> QED
      BY <3>5, Zenon
  <2> QED
    BY <2>4, <2>5
<1> QED
  BY <1>10, <1>12

(* The same of a header of the robot, which has the marks in front as long as
   there are five digits at most; else the number is read from its second
   character on, without its last digit. *)
LEMMA RobotRead ==
  ASSUME NEW l \in Nat, l + 10 < 10^7, NEW h, h = RobotHeader(l)
  PROVE  /\ \A k \in 0 .. Len(h) : TotalDataSize(SubSeq(h, 1, k)) <= Len(h) + l
         /\ IF Len(h) + l < 10^Digits THEN TotalDataSize(h) = Len(h) + l ELSE TotalDataSize(h) < Len(h) + l
<1> DEFINE n == l + 10
           w == Width(n)
           Size(k) == TotalDataSize(SubSeq(h, 1, k))
<1>1. n \in Nat /\ n < 10^7 /\ n > 0
  BY SMT
<1>2. w \in 1 .. 7 /\ n < 10^w /\ (w = 1 \/ n >= 10^(w - 1))
  BY <1>1, WidthOf, Zenon
<1>3. h \in Seq(Nat) /\ Len(h) = 10
  BY RobotLaid, Zenon
<1>4. w <= 5 => h[1] = Gt /\ h[2] = Gt /\ \A i \in 1 .. 5 : h[2 + i] = DigitOf(n, 5 - i)
  BY RobotLaid, Zenon
<1>5. w > 5 => (\A i \in 2 .. 10 : h[i] # Gt) /\ \A i \in 1 .. 6 : h[1 + i] = DigitOf(n, 6 - i)
  BY RobotLaid, Zenon
<1>6. Len(h) + l = n
  BY <1>3, SMT
<1>7. Size(10) = TotalDataSize(h)
  BY <1>3, SubSeqFull
<1> HIDE DEF n, w
<1>8. /\ \A k \in 0 .. 10 : Size(k) <= n
      /\ IF n < 10^Digits THEN Size(10) = n ELSE Size(10) < n
  <2>1. CASE w <= 5
    <3>1. w \in 0 .. 7 /\ 5 \in 0 .. 7 /\ 5 \in 5 .. 7
      BY <1>2, SMT
    <3>2. 10^w \in Nat /\ 10^5 \in Nat /\ 10^w <= 10^5
      BY <2>1, <3>1, PowersGrow, Zenon
    <3>3. n < 10^5
      BY <1>1, <1>2, <3>2, SMT
    <3>4. Len(h) >= 2 + 5
      BY <1>3, SMT
    <3>5. ASSUME NEW k \in 0 .. Len(h)
          PROVE  Size(k) \in Int /\ Size(k) <= n /\ (k >= 7 => Size(k) = Quotient(n, 5 - 5))
      BY <1>1, <1>3, <1>4, <2>1, <3>1, <3>3, <3>4, MarkedPart
    <3>6. 10 \in 0 .. Len(h) /\ 10 >= 7 /\ 5 - 5 = 0 /\ 0 \in 0 .. 7
      BY <1>3, SMT
    <3>7. Quotient(n, 0) = n
      BY <1>1, <3>6, QuotientSmall, Zenon
    <3> HIDE DEF Size
    <3>8. Size(10) = n
      BY <3>5, <3>6, <3>7, Zenon
    <3> QED
      BY <1>3, <3>3, <3>5, <3>8, Zenon DEF Digits
  <2>2. CASE w > 5
    <3> DEFINE r(k) == IF k < 2 THEN 0 ELSE IF k < 6 THEN k - 1 ELSE 5
    <3>1. ASSUME NEW k \in 0 .. 10 PROVE Shows(SubSeq(h, 1, k), n, 2, 6, r(k))
      <4> DEFINE s == SubSeq(h, 1, k)
      <4>1. s \in Seq(Nat) /\ Len(s) = k /\ \A p \in 1 .. k : s[p] = h[p]
        <5>1. k \in 0 .. Len(h)
          BY <1>3
        <5> QED
          BY <1>3, <5>1, FirstOf
      <4> HIDE DEF s
      <4>2. Found(s) = {}
        <5> SUFFICES ASSUME NEW p \in 1 .. k - 1, s[p + 1] = Gt PROVE FALSE
          BY <4>1 DEF Found
        <5>1. p + 1 \in 1 .. k /\ p + 1 \in 2 .. 10
          OBVIOUS
        <5> QED
          BY <1>5, <2>2, <4>1, <5>1
      <4>3. NumberAt(s) = 2
        BY <4>2 DEF NumberAt
      <4>4. r(k) \in 0 .. 5 /\ r(k) = IF k < 2 THEN 0 ELSE IF k < 2 + 4 THEN k - 2 + 1 ELSE 5
        OBVIOUS
      <4>5. ASSUME NEW i \in 1 .. r(k) PROVE s[2 - 1 + i] = DigitOf(n, 6 - i)
        <5>1. 2 - 1 + i = 1 + i /\ 1 + i \in 1 .. k /\ i \in 1 .. 6
          OBVIOUS
        <5>2. s[1 + i] = h[1 + i] /\ h[1 + i] = DigitOf(n, 6 - i)
          BY <1>5, <2>2, <4>1, <5>1
        <5> QED
          BY <5>1, <5>2
      <4> HIDE DEF r
      <4>6. Shows(s, n, 2, 6, r(k))
        BY <1>1, <4>1, <4>3, <4>4, <4>5 DEF Shows
      <4> QED
        BY <4>6 DEF s
    <3>2. ASSUME NEW k \in 0 .. 10 PROVE Size(k) \in Int /\ Size(k) < n
      <4>1. 6 > r(k)
        OBVIOUS
      <4> HIDE DEF r
      <4> QED
        BY <1>1, <3>1, <4>1, ReadsAtMost, Zenon
    <3>3. ~(n < 10^Digits)
      <4>1. 5 \in 0 .. 7 /\ w - 1 \in 0 .. 7 /\ 5 <= w - 1
        BY <1>2, <2>2, SMT
      <4>2. 10^5 \in Nat /\ 10^(w - 1) \in Nat /\ 10^5 <= 10^(w - 1)
        BY <4>1, PowersGrow, Zenon
      <4> QED
        BY <1>1, <1>2, <2>2, <4>2, SMT DEF Digits
    <3> HIDE DEF Size
    <3>4. \A k \in 0 .. 10 : Size(k) <= n /\ Size(k) < n
      BY <1>1, <3>2
    <3>5. 10 \in 0 .. 10
      OBVIOUS
    <3> QED
      BY <3>3, <3>4, <3>5, Zenon
  <2> QED
    BY <1>2, <2>1, <2>2
<1> QED
  BY <1>3, <1>6, <1>7, <1>8, Zenon

-----------------------------------------------------------------------------
(* The messages a client may send have at most seven digits. *)
LEMMA LengthOf ==
  ASSUME NEW msg \in Message, NEW n \in UnitBytes
  PROVE  Length(msg, n) \in Nat /\ Length(msg, n) + 10 < 10^7
<1>1. n \in Nat /\ MaxPayload * n < 10^7 - 24 /\ MaxPayload \in Nat
  BY HeaderAssumption, FramingAssumption
<1>2. 10^7 = 10000000
  BY Powers, SMT
<1>3. CASE msg.kind = "SUB"
  <2>1. Length(msg, n) = 9
    BY <1>3 DEF Length
  <2> QED
    BY <1>2, <2>1, SMT
<1>4. CASE msg.kind # "SUB"
  <2>1. Length(msg, n) = 14 + msg.data * n
    BY <1>4 DEF Length
  <2>2. msg.data \in 0 .. MaxPayload
    BY <1>4 DEF Message
  <2>3. PICK a \in Nat, b \in Nat : a = msg.data /\ b = MaxPayload - msg.data
    BY <1>1, <2>2
  <2>4. MaxPayload = a + b
    BY <1>1, <2>2, <2>3
  <2>5. (a + b) * n = a * n + b * n /\ a * n \in Nat /\ b * n \in Nat
    BY <1>1
  <2>6. a * n < 9999976
    BY <1>1, <1>2, <2>4, <2>5, SMT
  <2>7. 14 + a * n \in Nat /\ 14 + a * n + 10 < 10000000
    BY <2>5, <2>6, SMT
  <2> QED
    BY <1>2, <2>1, <2>3, <2>7, SMT
<1> QED
  BY <1>3, <1>4

(* For every message that a client has sent, with either header, the server
   reads the number of bytes sent, exactly if it has up to five digits, and a
   smaller one else; wherever the header is cut, no more than that number. *)
THEOREM SizesArrive == Spec => []FiveDigitsArrive
<1>1. ASSUME NEW msg \in Message, NEW n \in UnitBytes PROVE Length(msg, n) \in Arriving
  <2> DEFINE l == Length(msg, n)
  <2>1. l \in Nat /\ l + 10 < 10^7
    BY LengthOf
  <2>2. l \in Lengths
    BY DEF Lengths
  <2> HIDE DEF l
  <2>3. l + 9 < 10^7
    <3>1. 10^7 \in Int
      BY Powers, SMT
    <3> QED
      BY <2>1, <3>1, SMT
  <2>4. ASSUME NEW h \in Headers(l)
        PROVE  /\ \A k \in 0 .. Len(h) : TotalDataSize(SubSeq(h, 1, k)) <= Len(h) + l
               /\ IF Len(h) + l < 10^Digits THEN TotalDataSize(h) = Len(h) + l
                  ELSE TotalDataSize(h) < Len(h) + l
    <3>1. h = ScriptHeader(l) \/ h = RobotHeader(l)
      BY DEF Headers
    <3> QED
      BY <2>1, <2>3, <3>1, ScriptRead, RobotRead, Zenon
  <2>5. Arrives(l) /\ Understated(l)
    BY <2>4, Zenon DEF Arrives, Understated
  <2> QED
    BY <2>2, <2>5 DEF Arriving, l
<1>2. FlowInv => FiveDigitsArrive
  BY <1>1, ElementOfSeq DEF FlowInv, FiveDigitsArrive
<1> QED
  BY <1>2, FlowKept, PTL
=============================================================================
