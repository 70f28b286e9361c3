--------------------------- MODULE SafeFetchProofs ---------------------------
(***************************************************************************)
(* Theorems about a fetch, for any URLs, redirects, names, addresses and   *)
(* limits.  The hop in hand has been validated and, once its host is       *)
(* resolved, its addresses checked; every hop in the trail has been        *)
(* through both (FetchInv).  What makes that more than bookkeeping is the  *)
(* host that is spelled in numbers: the lemmas on Unpacked show that the   *)
(* validator packs the values of a spelling as a resolver does.            *)
(***************************************************************************)
EXTENDS SafeFetch, SequenceTheorems, TLAPS

-----------------------------------------------------------------------------
(* Hosts spelled in numbers *)

LEMMA PowerIs ==
  /\ Power(0) = 1 /\ Power(1) = Radix /\ Power(2) = Radix * Radix
  /\ Power(3) = Radix * Radix * Radix
  /\ Power(4) = Radix * Radix * Radix * Radix
BY DEF Power

LEMMA Division ==
  ASSUME NEW a \in Nat, NEW d \in Int, d > 0
  PROVE  a \div d \in Nat /\ a % d \in 0 .. d - 1 /\ a = d * (a \div d) + (a % d)
<1>1. a \div d \in Nat
  OBVIOUS
<1>2. a % d \in 0 .. d - 1
  OBVIOUS
<1>3. a = d * (a \div d) + (a % d)
  OBVIOUS
<1> QED BY <1>1, <1>2, <1>3

LEMMA QuotientTwice ==
  ASSUME NEW a \in Nat, NEW m \in Nat \ {0}, NEW n \in Nat \ {0}
  PROVE  (a \div m) \div n = a \div (m * n)
OBVIOUS

LEMMA QuotientBelow ==
  ASSUME NEW a \in Nat, NEW d \in Nat \ {0}, NEW k \in Nat, a < k * d
  PROVE  a \div d < k
OBVIOUS

LEMMA RemainderBelow ==
  ASSUME NEW a \in Nat, NEW d \in Nat \ {0}, a < d
  PROVE  a % d = a
OBVIOUS

\* The digits of a number, put together again, are the number.
LEMMA DigitsAreTheNumber ==
  ASSUME NEW last \in Nat,
         NEW d, d = [k \in 0 .. 3 |-> (last \div Power(k)) % Radix]
  PROVE  /\ \A k \in 0 .. 3 : d[k] \in 0 .. Radix - 1
         /\ last < Power(1) => d[0] = last
         /\ last < Power(2) => d[1] * Radix + d[0] = last
         /\ last < Power(3) => d[2] * Power(2) + d[1] * Radix + d[0] = last
         /\ last < Power(4) => d[3] * Power(3) + d[2] * Power(2) + d[1] * Radix + d[0] = last
<1> DEFINE R == Radix
           q1 == last \div R
           q2 == q1 \div R
           q3 == q2 \div R
<1>1. R \in Nat \ {0, 1} /\ R * R \in Nat \ {0} /\ R * R * R \in Nat \ {0}
  BY UrlAssumption
<1>2. q1 \in Nat /\ q2 \in Nat /\ q3 \in Nat
  BY <1>1, Division
<1>3. last = R * q1 + (last % R) /\ q1 = R * q2 + (q1 % R) /\ q2 = R * q3 + (q2 % R)
  BY <1>1, <1>2, Division
<1>4. q2 = last \div (R * R)
  BY <1>1, QuotientTwice
<1>5. q3 = last \div (R * R * R)
  BY <1>1, <1>4, QuotientTwice
<1>6. last \div 1 = last
  OBVIOUS
<1>7. d[0] = last % R /\ d[1] = q1 % R /\ d[2] = q2 % R /\ d[3] = q3 % R
  BY <1>4, <1>5, <1>6, PowerIs
<1>8. /\ last % R \in 0 .. R - 1 /\ q1 % R \in 0 .. R - 1
      /\ q2 % R \in 0 .. R - 1 /\ q3 % R \in 0 .. R - 1
  BY <1>1, <1>2, Division
<1>9. last < Power(1) => last % R = last
  BY <1>1, PowerIs, RemainderBelow
<1>10. last < Power(2) => q1 % R = q1
  <2>1. last < R * R => q1 < R
    BY <1>1, QuotientBelow
  <2> QED BY <1>1, <1>2, <2>1, PowerIs, RemainderBelow
<1>11. last < Power(3) => q2 % R = q2
  <2>1. last < R * (R * R) => last \div (R * R) < R
    BY <1>1, QuotientBelow
  <2>2. R * (R * R) = R * R * R
    BY <1>1
  <2> QED BY <1>1, <1>2, <1>4, <2>1, <2>2, PowerIs, RemainderBelow
<1>12. last < Power(4) => q3 % R = q3
  <2>1. last < R * (R * R * R) => last \div (R * R * R) < R
    BY <1>1, QuotientBelow
  <2>2. R * (R * R * R) = R * R * R * R
    BY <1>1
  <2> QED BY <1>1, <1>2, <1>5, <2>1, <2>2, PowerIs, RemainderBelow
<1> HIDE DEF q1, q2, q3
<1>13. \A k \in 0 .. 3 : d[k] \in 0 .. R - 1
  BY <1>7, <1>8
<1>14. last = R * q1 + d[0] /\ q1 = R * q2 + d[1] /\ q2 = R * q3 + d[2]
  BY <1>3, <1>7
<1>16. last < Power(2) => d[1] * R + d[0] = last
  <2>1. R * q1 = q1 * R
    BY <1>1, <1>2
  <2>2. last = q1 * R + d[0]
    BY <1>14, <2>1
  <2> QED BY <1>7, <1>10, <2>2
<1>17. last < Power(3) => d[2] * (R * R) + d[1] * R + d[0] = last
  <2>1. d[1] \in Int /\ d[0] \in Int
    BY <1>1, <1>13
  <2>2. R * (R * q2 + d[1]) + d[0] = q2 * (R * R) + d[1] * R + d[0]
    BY <1>1, <1>2, <2>1
  <2> QED BY <1>7, <1>11, <1>14, <2>2
<1>18. last < Power(4) => d[3] * (R * R * R) + d[2] * (R * R) + d[1] * R + d[0] = last
  <2>1. d[2] \in Int /\ d[1] \in Int /\ d[0] \in Int
    BY <1>1, <1>13
  <2>2. R * (R * (R * q3 + d[2]) + d[1]) + d[0] = q3 * (R * R * R) + d[2] * (R * R) + d[1] * R + d[0]
    BY <1>1, <1>2, <2>1
  <2> QED BY <1>7, <1>12, <1>14, <2>2
<1> QED BY <1>7, <1>9, <1>13, <1>16, <1>17, <1>18, PowerIs

\* The octets that parse_ip_literal puts together from the parts of a host.
Octets(parts) == SubSeq(parts, 1, Len(parts) - 1) \o Unpacked(parts[Len(parts)], Len(parts))

LEMMA OctetsAre ==
  ASSUME NEW parts \in Seq(Nat), NEW n \in 1 .. 4, Len(parts) = n
  PROVE  /\ Len(Octets(parts)) = 4
         /\ \A i \in 1 .. 4 :
              Octets(parts)[i] = IF i < n THEN parts[i]
                                 ELSE (parts[n] \div Power(4 - i)) % Radix
<1> DEFINE front == SubSeq(parts, 1, n - 1)
           back == Unpacked(parts[n], n)
<1>1. /\ front \in Seq(Int) /\ Len(front) = n - 1
      /\ \A i \in 1 .. n - 1 : front[i] = parts[i]
  OBVIOUS
<1>2. ASSUME NEW i \in 1 .. 5 - n
      PROVE  back[i] = (parts[n] \div Power(5 - n - i)) % Radix /\ back[i] \in Int
  <2>1. 5 - n - i \in 0 .. 3
    OBVIOUS
  <2>2. Power(5 - n - i) \in Int /\ Power(5 - n - i) > 0
    BY <2>1, PowerIs, UrlAssumption
  <2>3. parts[n] \div Power(5 - n - i) \in Nat
    BY <2>2, Division
  <2> QED BY <2>3, Division, UrlAssumption DEF Unpacked
<1>3. back \in Seq(Int) /\ Len(back) = 5 - n
  <2>1. 5 - n \in Nat
    OBVIOUS
  <2>2. back \in [1 .. 5 - n -> Int]
    BY <1>2 DEF Unpacked
  <2> QED BY <2>1, <2>2
<1> HIDE DEF front, back
<1>4. Octets(parts) = front \o back
  BY DEF Octets, front, back
<1>5. Len(front \o back) = 4
  BY <1>1, <1>3
<1>6. ASSUME NEW i \in 1 .. 4, i < n
      PROVE  (front \o back)[i] = parts[i]
  BY <1>1, <1>3, <1>6
<1>7. ASSUME NEW i \in 1 .. 4, ~(i < n)
      PROVE  (front \o back)[i] = (parts[n] \div Power(4 - i)) % Radix
  <2>1. /\ i - Len(front) = i - n + 1 /\ i - n + 1 \in 1 .. 5 - n
        /\ 5 - n - (i - n + 1) = 4 - i
    BY <1>1, <1>7
  <2>2. (front \o back)[i] = back[i - n + 1]
    BY <1>1, <1>3, <1>7, <2>1, ConcatProperties
  <2> QED BY <1>2, <2>1, <2>2
<1> QED BY <1>4, <1>5, <1>6, <1>7

\* What the octets make, when the last part fits in what is left for it.
LEMMA FromOctetsIs ==
  ASSUME NEW parts \in Seq(Nat), NEW n \in 1 .. 4, Len(parts) = n,
         parts[n] < Power(5 - n),
         NEW o, \A i \in 1 .. 4 : o[i] = IF i < n THEN parts[i]
                                         ELSE (parts[n] \div Power(4 - i)) % Radix
  PROVE  FromOctets(o) = (IF 1 < n THEN parts[1] * Power(3) ELSE 0)
                          + (IF 2 < n THEN parts[2] * Power(2) ELSE 0)
                          + (IF 3 < n THEN parts[3] * Power(1) ELSE 0) + parts[n]
<1> DEFINE d == [k \in 0 .. 3 |-> (parts[n] \div Power(k)) % Radix]
<1>1. parts[n] \in Nat /\ \A i \in 1 .. n : parts[i] \in Nat
  OBVIOUS
<1>2. /\ \A k \in 0 .. 3 : d[k] \in 0 .. Radix - 1
      /\ parts[n] < Power(1) => d[0] = parts[n]
      /\ parts[n] < Power(2) => d[1] * Radix + d[0] = parts[n]
      /\ parts[n] < Power(3) => d[2] * Power(2) + d[1] * Radix + d[0] = parts[n]
      /\ parts[n] < Power(4) =>
           d[3] * Power(3) + d[2] * Power(2) + d[1] * Radix + d[0] = parts[n]
  BY <1>1, DigitsAreTheNumber
<1>3. \A k \in 0 .. 3 : d[k] = (parts[n] \div Power(k)) % Radix
  OBVIOUS
<1> HIDE DEF d
<1>4. /\ o[4] = (IF 4 < n THEN parts[4] ELSE d[0]) /\ o[3] = (IF 3 < n THEN parts[3] ELSE d[1])
      /\ o[2] = (IF 2 < n THEN parts[2] ELSE d[2]) /\ o[1] = (IF 1 < n THEN parts[1] ELSE d[3])
  BY <1>3
<1>5. \A k \in 0 .. 3 : d[k] \in Int
  BY <1>2, UrlAssumption
<1>6. Power(1) = Radix /\ Power(2) \in Int /\ Power(3) \in Int /\ Radix \in Int
  BY PowerIs, UrlAssumption
<1>7. FromOctets(o) = o[1] * Power(3) + o[2] * Power(2) + o[3] * Power(1) + o[4]
  BY <1>6 DEF FromOctets
<1>8. CASE n = 1
  <2>1. 5 - n = 4 /\ d[0] \in Int
    BY <1>5, <1>8
  <2>2. parts[n] = d[3] * Power(3) + d[2] * Power(2) + d[1] * Power(1) + d[0]
    BY <1>2, <1>6, <2>1
  <2>3. FromOctets(o) = parts[n]
    BY <1>4, <1>7, <1>8, <2>2
  <2> QED BY <1>1, <1>8, <2>3
<1>9. CASE n = 2
  <2>1. 5 - n = 3 /\ parts[1] \in Nat
    BY <1>1, <1>9
  <2>2. parts[n] = d[2] * Power(2) + d[1] * Power(1) + d[0]
    BY <1>2, <1>6, <2>1
  <2>3. FromOctets(o) = parts[1] * Power(3) + d[2] * Power(2) + d[1] * Power(1) + d[0]
    BY <1>4, <1>7, <1>9
  <2>4. /\ parts[1] * Power(3) \in Int /\ d[2] * Power(2) \in Int /\ d[1] * Power(1) \in Int
        /\ d[0] \in Int
    BY <1>5, <1>6, <2>1
  <2> QED BY <1>1, <1>9, <2>2, <2>3, <2>4
<1>10. CASE n = 3
  <2>1. 5 - n = 2 /\ parts[1] \in Nat /\ parts[2] \in Nat
    BY <1>1, <1>10
  <2>2. parts[n] = d[1] * Power(1) + d[0]
    BY <1>2, <1>6, <2>1
  <2>3. FromOctets(o) = parts[1] * Power(3) + parts[2] * Power(2) + d[1] * Power(1) + d[0]
    BY <1>4, <1>7, <1>10
  <2>4. /\ parts[1] * Power(3) \in Int /\ parts[2] * Power(2) \in Int /\ d[1] * Power(1) \in Int
        /\ d[0] \in Int
    BY <1>5, <1>6, <2>1
  <2> QED BY <1>1, <1>10, <2>2, <2>3, <2>4
<1>11. CASE n = 4
  <2>1. 5 - n = 1
    BY <1>11
  <2>2. parts[n] = d[0]
    BY <1>2, <2>1
  <2> QED BY <1>4, <1>7, <1>11, <2>2
<1> QED BY <1>8, <1>9, <1>10, <1>11

\* Values are packed as a resolver reads them.
LEMMA ValuesAreRead ==
  ASSUME NEW parts \in Seq(Nat)
  PROVE  Packed(parts) = SpelledBy(parts)
<1>1. CASE Len(parts) \notin 1 .. 4
  BY <1>1 DEF Packed, SpelledBy
<1>2. ASSUME NEW n \in 1 .. 4, Len(parts) = n
      PROVE  Packed(parts) = SpelledBy(parts)
  <2> DEFINE o == Octets(parts)
             last == parts[n]
             small == \A i \in 1 .. n - 1 : parts[i] < Radix
             fits == last < Power(5 - n)
  <2>1. last \in Nat /\ \A i \in 1 .. n : parts[i] \in Nat
    BY <1>2
  <2>2. Len(o) = 4
    BY <1>2, OctetsAre
  <2>3. \A i \in 1 .. 4 : o[i] = IF i < n THEN parts[i]
                                 ELSE (parts[n] \div Power(4 - i)) % Radix
    BY <1>2, OctetsAre
  <2>4. ASSUME NEW i \in 1 .. 4, ~(i < n)
        PROVE  o[i] \in 0 .. Radix - 1
    <3>1. Power(4 - i) \in Int /\ Power(4 - i) > 0
      <4>1. 4 - i \in 0 .. 3
        OBVIOUS
      <4> QED BY <4>1, PowerIs, UrlAssumption
    <3>2. last \div Power(4 - i) \in Nat
      BY <2>1, <3>1, Division
    <3>3. Radix \in Int /\ Radix > 0
      BY UrlAssumption
    <3> QED BY <2>3, <2>4, <3>2, <3>3, Division
  <2>5. Power(5 - n) \in Int
    <3>1. 5 - n \in 1 .. 4
      OBVIOUS
    <3> QED BY <3>1, PowerIs, UrlAssumption
  <2> HIDE DEF o
  <2>6. (\E i \in 1 .. 4 : o[i] >= Radix) <=> ~small
    <3>1. Radix \in Int
      BY UrlAssumption
    <3>2. ASSUME NEW i \in 1 .. 4, o[i] >= Radix
          PROVE  i \in 1 .. n - 1 /\ ~(parts[i] < Radix)
      <4>1. i < n
        BY <2>4, <3>1, <3>2
      <4> QED BY <2>1, <2>3, <3>1, <3>2, <4>1
    <3>3. ASSUME NEW i \in 1 .. n - 1, ~(parts[i] < Radix)
          PROVE  i \in 1 .. 4 /\ o[i] >= Radix
      <4>1. i \in 1 .. 4 /\ i \in 1 .. n /\ i < n
        OBVIOUS
      <4> QED BY <2>1, <2>3, <3>1, <3>3, <4>1
    <3> QED BY <3>2, <3>3
  <2>7. Packed(parts) = IF fits /\ small THEN V4(FromOctets(o)) ELSE NoAddress
    <3>1. Packed(parts) =
            IF last >= Power(5 - n) \/ \E i \in 1 .. 4 : o[i] >= Radix
            THEN NoAddress ELSE V4(FromOctets(o))
      BY <1>2, <2>2 DEF Packed, o, Octets
    <3> QED BY <2>1, <2>5, <2>6, <3>1
  <2> DEFINE sum == (IF 1 < n THEN parts[1] * Power(3) ELSE 0)
                      + (IF 2 < n THEN parts[2] * Power(2) ELSE 0)
                      + (IF 3 < n THEN parts[3] * Power(1) ELSE 0) + last
  <2>8. SpelledBy(parts) = IF small /\ fits THEN V4(sum) ELSE NoAddress
    BY <1>2 DEF SpelledBy
  <2>9. fits => FromOctets(o) = sum
    BY <1>2, <2>3, FromOctetsIs
  <2> HIDE DEF sum, fits, small
  <2> QED BY <2>7, <2>8, <2>9
<1> QED BY <1>1, <1>2

LEMMA Lengths == \A k \in Nat : (k = 0 \/ k = 1 \/ k > 1) /\ (k > 1 => k # 1)
OBVIOUS

LEMMA ValuesAre ==
  ASSUME NEW parts \in Seq(Part)
  PROVE  /\ Values(parts) \in Seq(Nat) /\ Len(Values(parts)) = Len(parts)
         /\ \A i \in 1 .. Len(parts) : parts[i] \in Part /\ Values(parts)[i] = parts[i].value
<1>0. \A i \in 1 .. Len(parts) : parts[i] \in Part
  OBVIOUS
<1>1. \A i \in 1 .. Len(parts) : parts[i] \in Part /\ parts[i].value \in Nat
  BY <1>0 DEF Part
<1>2. Values(parts) \in [1 .. Len(parts) -> Nat] /\ Len(parts) \in Nat
  BY <1>1 DEF Values
<1> QED BY <1>1, <1>2 DEF Values

\* A lone number that does not begin with a zero, or a row that does not begin
\* with 0x, is read as a resolver reads it.
LEMMA SpellingIsRead ==
  ASSUME NEW parts \in Seq(Part), ~(Len(parts) = 1 /\ BeginsWithZero(parts[1])),
         ~(Len(parts) > 1 /\ parts[1].written = "hex")
  PROVE  ParseNumbers(parts) = Spelled(parts)
<1>1. Packed(Values(parts)) = SpelledBy(Values(parts))
  BY ValuesAre, ValuesAreRead
<1>2. CASE Len(parts) = 1
  <2>1. Values(parts) = <<parts[1].value>>
    BY <1>2 DEF Values
  <2>2. ParseNumbers(parts) = Packed(Values(parts))
    BY <1>2, <2>1 DEF ParseNumbers
  <2>3. \A i \in 1 .. Len(parts) : parts[i].written # "no_octal"
    BY <1>2 DEF BeginsWithZero
  <2> QED BY <1>1, <2>2, <2>3 DEF Spelled
<1>3. CASE Len(parts) > 1
  BY <1>1, <1>3 DEF ParseNumbers, Spelled
<1>4. Len(parts) = 1 \/ Len(parts) > 1 \/ Len(parts) = 0
  <2>1. Len(parts) \in Nat
    OBVIOUS
  <2> QED BY <2>1, Lengths
<1>5. CASE Len(parts) = 0
  <2>1. ParseNumbers(parts) = NoAddress
    BY <1>5 DEF ParseNumbers
  <2>2. Len(Values(parts)) = 0
    BY <1>5, ValuesAre
  <2> QED BY <1>5, <2>1, <2>2 DEF Spelled, SpelledBy
<1> QED BY <1>2, <1>3, <1>4, <1>5

LEMMA HexRowIsNoAddress ==
  ASSUME NEW parts \in Seq(Part), Len(parts) > 1, parts[1].written = "hex"
  PROVE  ParseNumbers(parts) = NoAddress
<1>1. Len(parts) # 1
  BY Lengths
<1> QED BY <1>1 DEF ParseNumbers

LEMMA Horner ==
  ASSUME NEW m \in Nat, NEW r \in Nat, NEW x \in 0 .. m - 1, NEW y \in 0 .. r - 1
  PROVE  x * r + y \in 0 .. m * r - 1
<1>1. x * r <= (m - 1) * r /\ x * r >= 0
  OBVIOUS
<1>2. (m - 1) * r = m * r - r
  OBVIOUS
<1> QED BY <1>1, <1>2

\* What a literal stands for is an address.
LEMMA LiteralIsAddress ==
  ASSUME NEW u \in RawURL
  PROVE  /\ u.host.form = "numbers" => /\ u.host.parts \in Seq(Part)
                                        /\ Spelled(u.host.parts) \in Address \cup {NoAddress}
         /\ parse_ip_literal(u.host) \in Address \cup {NoAddress}
<1>1. u.host \in Host
  BY DEF RawURL
<1>2. u.host.form = "numbers" => u.host.parts \in Seq(Part)
  BY <1>1 DEF Host, Number
<1>3. u.host.form = "v6" => u.host.address \in Address
  BY <1>1 DEF Host, Number
<1>4. ASSUME NEW parts \in Seq(Nat)
      PROVE  Packed(parts) \in Address \cup {NoAddress}
  <2> DEFINE o == Octets(parts)
  <2> SUFFICES ASSUME Packed(parts) # NoAddress
               PROVE  Packed(parts) \in Address
    OBVIOUS
  <2>1. /\ Len(parts) \in 1 .. 4 /\ \A i \in 1 .. Len(o) : ~(o[i] >= Radix)
        /\ Packed(parts) = V4(FromOctets(o))
    BY DEF Packed, Octets
  <2>2. ASSUME NEW n \in 1 .. 4, Len(parts) = n
        PROVE  Len(o) = 4 /\ \A i \in 1 .. 4 : o[i] \in Nat
    <3>1. Len(o) = 4 /\ \A i \in 1 .. 4 :
                          o[i] = IF i < n THEN parts[i]
                                 ELSE (parts[n] \div Power(4 - i)) % Radix
      BY <2>2, OctetsAre
    <3>2. \A i \in 1 .. n : parts[i] \in Nat
      BY <2>2
    <3>3. ASSUME NEW i \in 1 .. 4, ~(i < n)
          PROVE  (parts[n] \div Power(4 - i)) % Radix \in Nat
      <4>1. 4 - i \in 0 .. 3 /\ n \in 1 .. n
        OBVIOUS
      <4>2. Power(4 - i) \in Int /\ Power(4 - i) > 0 /\ Radix \in Int /\ Radix > 0
        BY <4>1, PowerIs, UrlAssumption
      <4>3. parts[n] \div Power(4 - i) \in Nat
        BY <3>2, <4>1, <4>2, Division
      <4> QED BY <4>2, <4>3, Division
    <3> HIDE DEF o
    <3>4. ASSUME NEW i \in 1 .. 4
          PROVE  o[i] \in Nat
      <4>1. CASE i < n
        <5>1. i \in 1 .. n
          BY <4>1
        <5> QED BY <3>1, <3>2, <4>1, <5>1
      <4> QED BY <3>1, <3>3, <4>1
    <3> QED BY <3>1, <3>4
  <2>3. Len(o) = 4 /\ \A i \in 1 .. 4 : o[i] \in Nat
    BY <2>1, <2>2
  <2> HIDE DEF o
  <2>4. \A i \in 1 .. 4 : o[i] \in 0 .. Radix - 1
    BY <2>1, <2>3, UrlAssumption
  <2> DEFINE R == Radix
             a == o[1]
             b == o[2]
             c == o[3]
             e == o[4]
  <2>5. /\ R \in Nat /\ R * R \in Nat /\ R * R * R \in Nat
        /\ a \in 0 .. R - 1 /\ b \in 0 .. R - 1 /\ c \in 0 .. R - 1 /\ e \in 0 .. R - 1
    BY <2>4, UrlAssumption
  <2>6. FromOctets(o) = a * (R * R * R) + b * (R * R) + c * R + e
    BY PowerIs DEF FromOctets
  <2> HIDE DEF a, b, c, e
  <2>7. a * R + b \in 0 .. R * R - 1
    BY <2>5, Horner
  <2>8. (a * R + b) * R + c \in 0 .. R * R * R - 1
    BY <2>5, <2>7, Horner
  <2>9. ((a * R + b) * R + c) * R + e \in 0 .. R * R * R * R - 1
    BY <2>5, <2>8, Horner
  <2>10. ((a * R + b) * R + c) * R + e = a * (R * R * R) + b * (R * R) + c * R + e
    BY <2>5
  <2>11. FromOctets(o) \in Word
    BY <2>6, <2>9, <2>10, PowerIs DEF Word
  <2> QED BY <2>1, <2>11 DEF V4, Address
<1>5. ASSUME NEW parts \in Seq(Part)
      PROVE  Spelled(parts) \in Address \cup {NoAddress}
  BY <1>4, ValuesAre, ValuesAreRead DEF Spelled
<1>6. ASSUME NEW parts \in Seq(Part)
      PROVE  ParseNumbers(parts) \in Address \cup {NoAddress}
  <2>1. ASSUME Len(parts) = 1
        PROVE  <<IF BeginsWithZero(parts[1]) THEN parts[1].decimal ELSE parts[1].value>> \in Seq(Nat)
    <3>1. parts[1] \in Part
      BY <2>1, ValuesAre
    <3>2. (IF BeginsWithZero(parts[1]) THEN parts[1].decimal ELSE parts[1].value) \in Nat
      BY <3>1 DEF Part
    <3> QED BY <3>2
  <2>2. Packed(Values(parts)) \in Address \cup {NoAddress}
    BY <1>4, ValuesAre
  <2> QED BY <1>4, <2>1, <2>2 DEF ParseNumbers
<1> QED BY <1>2, <1>3, <1>5, <1>6 DEF parse_ip_literal

-----------------------------------------------------------------------------
(* The loop *)

trail == Append(redirect_chain, url)
Sent == Len(requests)

\* Before the request of a hop is sent, and while it is answered.
Asking == {"validate", "resolve", "send"}
Answering == {"answer", "read", "decide"}

\* The requests are the trail, hop by hop.
Trailed ==
  /\ Len(redirect_chain) >= hop
  /\ Sent <= hop + 1 /\ Sent <= Len(redirect_chain) + 1
  /\ \A i \in 1 .. Sent : requests[i].url = trail[i]
  /\ pc \in Asking => Sent = hop /\ Len(redirect_chain) = hop
  /\ pc \in Answering => Sent = hop + 1 /\ Len(redirect_chain) = hop
  /\ pc \in Asking \cup Answering <=> outcome = "running"
  /\ outcome = "fetched" => Sent = Len(redirect_chain) + 1

\* A URL is valid when it is requested, and the answer to a request is not
\* used before the address is checked.
Checked ==
  /\ pc \in {"resolve", "send"} => validate_url(url)
  /\ \A i \in 1 .. Sent : validate_url(requests[i].url)
  /\ \A i \in 1 .. Sent :
       /\ i < Sent \/ pc \in Asking \cup {"read", "decide"} \/ outcome = "fetched"
       /\ requests[i].reported
       => ~is_blocked_ip(requests[i].peer)
  /\ pc = "answer" => requests[Sent].peer = peer /\ requests[Sent].reported = reported

\* Reading stops at the chunk that does not fit.
Limited == BodyIsWhatFits /\ (pc = "read" => total <= MaxBytes)

\* What is checked of the host of a request, before it is sent.
Resolved == pc \in {"send", "answer"} => addresses \in FirstResolutions(url.host)

FetchInv == TypeOK /\ Trailed /\ Checked /\ Limited /\ Resolved

LEMMA URLsAreRaw == \A u \in URLs \cup Locations : u \in RawURL
BY FetchAssumption

LEMMA ResolutionsAre ==
  ASSUME url \in URLs \cup Locations
  PROVE  /\ \A found \in Resolutions(url.host) : found \subseteq Address
         /\ \A found \in FirstResolutions(url.host) : found \subseteq Address
<1>1. /\ parse_ip_literal(url.host) \in Address \cup {NoAddress}
      /\ url.host.form = "numbers" => Spelled(url.host.parts) \in Address \cup {NoAddress}
  BY URLsAreRaw, LiteralIsAddress
<1>2. \A found \in Resolutions(url.host) : found \subseteq Address
  BY <1>1, FetchAssumption DEF Resolutions
<1> QED BY <1>1, <1>2 DEF FirstResolutions

LEMMA FetchStarts == Init => FetchInv
<1> SUFFICES ASSUME Init PROVE FetchInv
  OBVIOUS
<1>1. TypeOK
  <2>1. /\ hop \in 0 .. MaxRedirects /\ total \in 0 .. MaxBytes + MaxChunk
        /\ kept \in 0 .. MaxBytes
    BY FetchAssumption DEF Init
  <2>2. /\ redirect_chain \in Seq(URLs \cup Locations)
        /\ requests \in Seq([url : URLs \cup Locations, peer : Address, reported : BOOLEAN])
    BY EmptySeq DEF Init
  <2>3. /\ pc = "validate" /\ url \in URLs /\ peer = NoAddress /\ response = NoResponse
        /\ outcome = "running" /\ article = "awaited" /\ truncated = FALSE
        /\ addresses = {} /\ reported = FALSE /\ interim = 0
    BY DEF Init
  <2> HIDE DEF Init
  <2> QED BY <2>1, <2>2, <2>3 DEF TypeOK, Outcome
<1>2. Trailed
  BY <1>1, FetchAssumption DEF Init, Trailed, Asking, Answering, Sent
<1>3. Checked
  BY DEF Init, Checked, Sent
<1>4. Limited
  BY FetchAssumption DEF Init, Limited, BodyIsWhatFits
<1>5. Resolved
  BY DEF Init, Resolved
<1> QED BY <1>1, <1>2, <1>3, <1>4, <1>5 DEF FetchInv

\* A step that asks for nothing keeps the trail, and what was checked.
Quiet == UNCHANGED <<url, hop, redirect_chain, peer, reported, requests>>

LEMMA TrailStays ==
  ASSUME FetchInv, Quiet,
         \/ pc \in Asking /\ pc' \in Asking /\ outcome' = outcome
         \/ pc \in Answering /\ pc' \in Answering /\ outcome' = outcome
         \/ pc \in Asking \cup Answering /\ pc' = "extract" /\ outcome' \in Outcome \ {"running", "fetched"}
         \/ pc \in Answering /\ pc' = "extract" /\ outcome' = "fetched"
         \/ pc = "extract" /\ pc' = "done" /\ outcome' = outcome
  PROVE  Trailed'
BY DEF FetchInv, Trailed, Quiet, Asking, Answering, Outcome, Sent, trail

LEMMA ChecksStay ==
  ASSUME FetchInv, Quiet,
         pc' \in {"resolve", "send"} => validate_url(url),
         pc' # "answer",
         \/ pc' \in Asking /\ pc \in Asking
         \/ pc' \in {"read", "decide"} /\ pc \in {"read", "decide"}
         \/ pc' = "read" /\ pc = "answer" /\ PeerPasses
         \/ pc' \in {"extract", "done"}
              /\ (outcome' = "fetched" => outcome = "fetched" \/ pc = "decide")
  PROVE  Checked'
<1>1. UNCHANGED <<Sent, requests, peer>>
  BY DEF Quiet, Sent
<1>2. pc' \in {"resolve", "send"} => validate_url(url')
  <2>1. url' = url
    BY DEF Quiet
  <2> QED BY <2>1
<1>3. (\A i \in 1 .. Sent : validate_url(requests[i].url))'
  BY <1>1 DEF FetchInv, Checked
<1>4. (\A i \in 1 .. Sent :
         /\ i < Sent \/ pc \in Asking \cup {"read", "decide"} \/ outcome = "fetched"
         /\ requests[i].reported
         => ~is_blocked_ip(requests[i].peer))'
  <2> SUFFICES ASSUME NEW i \in 1 .. Sent,
                      i < Sent \/ pc' \in Asking \cup {"read", "decide"} \/ outcome' = "fetched",
                      requests[i].reported
               PROVE  ~is_blocked_ip(requests[i].peer)
    BY <1>1
  <2>1. Sent \in Nat
    BY DEF FetchInv, TypeOK, Sent
  <2>2. i < Sent \/ i = Sent
    BY <2>1
  <2> QED BY <2>2 DEF FetchInv, Checked, Asking, PeerPasses
<1> QED BY <1>1, <1>2, <1>3, <1>4 DEF Checked, Quiet

\* The steps that send nothing and follow nothing.
LEMMA QuietSteps ==
  ASSUME FetchInv,
         \/ Validate \/ _resolve_host \/ Answer \/ (\E n \in 1 .. MaxChunk : Read(n))
         \/ ReadNothing \/ EndOfBody \/ ReadFails \/ Page \/ Extract
  PROVE  FetchInv'
<1> USE DEF Quiet, Asking, Answering, Outcome, request, asked, body, Ends
<1>1. /\ TypeOK /\ Limited
      /\ pc \in Asking \cup Answering <=> outcome = "running"
      /\ pc = "send" => validate_url(url)
      /\ pc = "resolve" => validate_url(url)
  BY DEF FetchInv, Trailed, Checked
<1>2. CASE Validate
  <2>1. /\ Quiet /\ UNCHANGED <<addresses, response, total, kept, truncated, interim, article>>
        /\ \/ validate_url(url) /\ pc' = "resolve" /\ outcome' = outcome
           \/ pc' = "extract" /\ outcome' = "UnsafeURLError"
        /\ pc = "validate"
    BY <1>2 DEF Validate
  <2>2. Trailed' /\ Checked'
    BY <2>1, TrailStays, ChecksStay
  <2>3. TypeOK' /\ Limited'
    BY <1>1, <2>1 DEF TypeOK, Limited, BodyIsWhatFits
  <2>4. Resolved'
    BY <2>1 DEF Resolved
  <2> QED BY <2>2, <2>3, <2>4 DEF FetchInv
<1>3. CASE _resolve_host
  <2>1. /\ Quiet /\ UNCHANGED <<response, total, kept, truncated, interim, article>>
        /\ \/ pc' = "send" /\ outcome' = outcome /\ addresses' \in FirstResolutions(url.host)
           \/ pc' = "extract" /\ outcome' \in {"UnsafeURLError", "FetchError"}
                /\ addresses' = addresses
        /\ pc = "resolve"
    BY <1>3 DEF _resolve_host
  <2>2. Trailed' /\ Checked'
    BY <1>1, <2>1, TrailStays, ChecksStay
  <2>3. addresses' \subseteq Address
    BY <1>1, <2>1, ResolutionsAre DEF TypeOK
  <2>4. TypeOK' /\ Limited'
    BY <1>1, <2>1, <2>3 DEF TypeOK, Limited, BodyIsWhatFits
  <2>5. Resolved'
    BY <2>1 DEF Resolved
  <2> QED BY <2>2, <2>4, <2>5 DEF FetchInv
<1>4. CASE Answer
  <2>1. /\ Quiet /\ total' = 0 /\ kept' = 0 /\ truncated' = FALSE /\ interim' = 0
        /\ UNCHANGED <<addresses, article>>
        /\ response' \in Response \cup {response}
        /\ \/ PeerPasses /\ pc' = "read" /\ outcome' = outcome
           \/ pc' = "extract" /\ outcome' \in {"UnsafeURLError", "FetchError"}
        /\ pc = "answer"
    BY <1>4 DEF Answer
  <2>2. Trailed' /\ Checked'
    BY <2>1, TrailStays, ChecksStay
  <2>3. 0 \in 0 .. MaxBytes + MaxChunk /\ 0 \in 0 .. MaxBytes /\ ~(0 > MaxBytes)
    BY FetchAssumption
  <2>4. response' \in Response \cup {NoResponse}
    BY <1>1, <2>1 DEF TypeOK
  <2>5. TypeOK'
    BY <1>1, <2>1, <2>3, <2>4 DEF TypeOK
  <2>6. Limited'
    BY <2>1, <2>3, FetchAssumption DEF Limited, BodyIsWhatFits
  <2>7. Resolved'
    BY <2>1 DEF Resolved
  <2> QED BY <2>2, <2>5, <2>6, <2>7 DEF FetchInv
<1>5. ASSUME NEW n \in 1 .. MaxChunk, Read(n)
      PROVE  FetchInv'
  <2>1. /\ Quiet /\ UNCHANGED <<addresses, response, outcome, article>> /\ interim' = 0
        /\ pc' \in {"read", "decide"} /\ pc = "read"
    BY <1>5 DEF Read
  <2>2. Trailed' /\ Checked'
    BY <2>1, TrailStays, ChecksStay
  <2>3. /\ total' \in 0 .. MaxBytes + MaxChunk /\ kept' \in 0 .. MaxBytes
        /\ truncated' \in BOOLEAN
        /\ kept' = IF total' > MaxBytes THEN MaxBytes ELSE total'
        /\ truncated' <=> total' > MaxBytes
        /\ pc' = "read" => total' <= MaxBytes
    <3>1. /\ total \in Nat /\ total <= MaxBytes /\ kept = total /\ truncated = FALSE
          /\ MaxBytes \in Nat /\ MaxChunk \in Nat
      BY <1>1, <2>1, FetchAssumption DEF TypeOK, Limited, BodyIsWhatFits
    <3>2. CASE n > MaxBytes - total
      BY <1>5, <3>1, <3>2 DEF Read
    <3>3. CASE ~(n > MaxBytes - total)
      <4>1. total' = total + n /\ kept' = kept + n /\ truncated' = truncated
        BY <1>5, <3>3 DEF Read
      <4>2. total' \in Nat /\ total' <= MaxBytes /\ kept' = total' /\ ~(total' > MaxBytes)
        BY <3>1, <3>3, <4>1
      <4>3. truncated' = FALSE
        BY <3>1, <4>1
      <4>4. total' \in 0 .. MaxBytes + MaxChunk /\ kept' \in 0 .. MaxBytes
        BY <3>1, <4>2
      <4>5. truncated' \in BOOLEAN /\ (truncated' <=> total' > MaxBytes)
        BY <4>2, <4>3
      <4> QED BY <4>2, <4>4, <4>5
    <3> QED BY <3>2, <3>3
  <2>4. TypeOK' /\ Limited'
    BY <1>1, <2>1, <2>3 DEF TypeOK, Limited, BodyIsWhatFits
  <2>5. Resolved'
    BY <2>1 DEF Resolved
  <2> QED BY <2>2, <2>4, <2>5 DEF FetchInv
<1>6. CASE EndOfBody \/ ReadFails \/ Page
  <2>1. /\ Quiet /\ UNCHANGED <<addresses, response, total, kept, truncated, article>>
        /\ interim' \in {0, interim} /\ pc \in {"read", "decide"}
        /\ \/ pc' = "decide" /\ outcome' = outcome
           \/ pc' = "extract" /\ outcome' = "FetchError"
           \/ pc' = "extract" /\ outcome' = "fetched" /\ pc = "decide"
    BY <1>6 DEF EndOfBody, ReadFails, Page
  <2>2. Trailed' /\ Checked'
    BY <2>1, TrailStays, ChecksStay
  <2>3. TypeOK' /\ Limited'
    BY <1>1, <2>1 DEF TypeOK, Limited, BodyIsWhatFits
  <2>4. Resolved'
    BY <2>1 DEF Resolved
  <2> QED BY <2>2, <2>3, <2>4 DEF FetchInv
<1>7. CASE Extract
  <2>1. /\ Quiet /\ UNCHANGED <<addresses, response, total, kept, truncated, interim, outcome>>
        /\ pc = "extract" /\ pc' = "done" /\ article' \in {"found", "None"}
    BY <1>7 DEF Extract
  <2>2. Trailed' /\ Checked'
    BY <2>1, TrailStays, ChecksStay
  <2>3. TypeOK' /\ Limited'
    BY <1>1, <2>1 DEF TypeOK, Limited, BodyIsWhatFits
  <2>4. Resolved'
    BY <2>1 DEF Resolved
  <2> QED BY <2>2, <2>3, <2>4 DEF FetchInv
<1>8. CASE ReadNothing
  <2>1. /\ Quiet /\ UNCHANGED <<pc, addresses, response, total, kept, truncated, outcome, article>>
        /\ interim' = 1 - interim
    BY <1>8 DEF ReadNothing
  <2>2. Trailed' /\ Checked' /\ Resolved'
    BY <2>1 DEF FetchInv, Trailed, Checked, Resolved, Sent, trail
  <2>3. interim' \in {0, 1}
    BY <1>1, <2>1 DEF TypeOK
  <2>4. TypeOK' /\ Limited'
    BY <1>1, <2>1, <2>3 DEF TypeOK, Limited, BodyIsWhatFits
  <2> QED BY <2>2, <2>4 DEF FetchInv
<1> QED BY <1>2, <1>3, <1>4, <1>5, <1>6, <1>7, <1>8

\* A request goes to the URL that was validated last.
LEMMA SendKeeps ==
  ASSUME FetchInv, Send
  PROVE  FetchInv'
<1> USE DEF Asking, Answering, Outcome, Ends
<1>1. /\ TypeOK /\ Limited /\ pc = "send" /\ validate_url(url)
      /\ UNCHANGED <<url, hop, redirect_chain, addresses, response, total, kept, truncated,
                     interim, article>>
      /\ Sent = hop /\ Len(redirect_chain) = hop /\ outcome = "running"
  BY DEF FetchInv, Trailed, Checked, Send, body
<1>2. CASE UNCHANGED <<peer, reported, requests>> /\ pc' = "extract" /\ outcome' \in {"FetchError", "other"}
  <2>1. Trailed' /\ Checked'
    BY <1>1, <1>2, TrailStays, ChecksStay DEF Quiet
  <2>2. TypeOK' /\ Limited'
    BY <1>1, <1>2 DEF TypeOK, Limited, BodyIsWhatFits
  <2>3. Resolved'
    BY <1>2 DEF Resolved
  <2> QED BY <2>1, <2>2, <2>3 DEF FetchInv
<1>3. ASSUME NEW found \in Resolutions(url.host), NEW a \in found, NEW known \in BOOLEAN,
             peer' = a, reported' = known,
             requests' = Append(requests, [url |-> url, peer |-> a, reported |-> known]),
             pc' = "answer", outcome' = outcome
      PROVE  FetchInv'
  <2>1. a \in Address /\ url \in URLs \cup Locations
    BY <1>1, ResolutionsAre DEF TypeOK
  <2>2. [url |-> url, peer |-> a, reported |-> known] \in [url : URLs \cup Locations, peer : Address, reported : BOOLEAN]
    BY <2>1
  <2>3. /\ requests' \in Seq([url : URLs \cup Locations, peer : Address, reported : BOOLEAN])
        /\ Sent' = Sent + 1 /\ Sent \in Nat
        /\ \A i \in 1 .. Sent : requests'[i] = requests[i]
        /\ requests'[Sent + 1] = [url |-> url, peer |-> a, reported |-> known]
    BY <1>1, <1>3, <2>2, AppendProperties DEF TypeOK, Sent
  <2>4. TypeOK' /\ Limited'
    BY <1>1, <1>3, <2>1, <2>3 DEF TypeOK, Limited, BodyIsWhatFits
  <2>5. Trailed'
    <3>1. trail' = trail /\ trail[Sent + 1] = url
      BY <1>1, AppendProperties DEF trail, TypeOK
    <3>2. \A i \in 1 .. Sent' : requests'[i].url = trail'[i]
      <4> SUFFICES ASSUME NEW i \in 1 .. Sent + 1 PROVE requests'[i].url = trail[i]
        BY <2>3, <3>1
      <4>1. i \in 1 .. Sent \/ i = Sent + 1
        BY <2>3
      <4> QED BY <2>3, <3>1, <4>1 DEF FetchInv, Trailed
    <3>3. hop \in Nat
      BY <1>1, FetchAssumption DEF TypeOK
    <3>4. hop' = hop /\ Len(redirect_chain') = Len(redirect_chain)
      BY <1>1
    <3>5. /\ Len(redirect_chain') >= hop' /\ Sent' = hop' + 1
          /\ Sent' <= hop' + 1 /\ Sent' <= Len(redirect_chain') + 1
          /\ Len(redirect_chain') = hop'
      BY <1>1, <2>3, <3>3, <3>4
    <3>6. pc' = "answer" /\ outcome' = "running"
      BY <1>1, <1>3
    <3> QED BY <3>2, <3>5, <3>6 DEF Trailed
  <2>6. Checked'
    <3>1. ASSUME NEW i \in 1 .. Sent'
          PROVE  /\ validate_url(requests'[i].url)
                 /\ i < Sent' /\ requests'[i].reported => ~is_blocked_ip(requests'[i].peer)
      <4>1. i \in 1 .. Sent \/ i = Sent + 1
        BY <2>3
      <4> QED BY <1>1, <2>3, <4>1 DEF FetchInv, Checked
    <3>2. requests'[Sent'] = [url |-> url, peer |-> a, reported |-> known]
      BY <2>3
    <3>3. requests'[Sent'].peer = peer' /\ requests'[Sent'].reported = reported'
      <4>1. requests'[Sent'].peer = a /\ requests'[Sent'].reported = known
        BY <3>2
      <4> QED BY <1>3, <4>1
    <3>4. pc' = "answer" /\ outcome' = "running"
      BY <1>1, <1>3
    <3> QED BY <3>1, <3>3, <3>4 DEF Checked
  <2>7. Resolved'
    BY <1>1, <1>3 DEF FetchInv, Resolved
  <2> QED BY <2>4, <2>5, <2>6, <2>7 DEF FetchInv
<1> QED BY <1>2, <1>3 DEF Send
-----------------------------------------------------------------------------

\* The chain grows by the URL that the last request was for.
LEMMA RedirectKeeps ==
  ASSUME FetchInv, Redirect
  PROVE  FetchInv'
<1> USE DEF Asking, Answering, Outcome, Ends
<1>1. /\ TypeOK /\ Limited /\ pc = "decide" /\ outcome = "running"
      /\ Sent = hop + 1 /\ Len(redirect_chain) = hop
      /\ UNCHANGED <<addresses, peer, reported, response, total, kept, truncated, interim,
                     article, requests>>
  BY DEF FetchInv, Trailed, Redirect, request, asked, body
<1>2. CASE pc' = "extract" /\ outcome' = "FetchError" /\ UNCHANGED <<url, hop, redirect_chain>>
  <2>1. Trailed' /\ Checked'
    BY <1>1, <1>2, TrailStays, ChecksStay DEF Quiet
  <2>2. TypeOK' /\ Limited'
    BY <1>1, <1>2 DEF TypeOK, Limited, BodyIsWhatFits
  <2>3. Resolved'
    BY <1>2 DEF Resolved
  <2> QED BY <2>1, <2>2, <2>3 DEF FetchInv
<1>3. ASSUME NEW target \in URLs \cup Locations,
             hop < MaxRedirects, redirect_chain' = Append(redirect_chain, url), url' = target,
             \/ pc' = "validate" /\ hop' = hop + 1 /\ outcome' = outcome
             \/ pc' = "extract" /\ hop' = hop /\ outcome' \in {"UnsafeURLError", "other"}
      PROVE  FetchInv'
  <2>1. url \in URLs \cup Locations /\ redirect_chain \in Seq(URLs \cup Locations)
    BY <1>1 DEF TypeOK
  <2>2. hop \in Nat /\ hop' \in 0 .. MaxRedirects
    BY <1>1, <1>3, FetchAssumption DEF TypeOK
  <2>3. /\ redirect_chain' \in Seq(URLs \cup Locations) /\ Len(redirect_chain') = hop + 1
    BY <1>1, <1>3, <2>1, AppendProperties
  <2>4. TypeOK' /\ Limited'
    <3>1. /\ pc' \in {"validate", "extract"} /\ url' \in URLs \cup Locations
          /\ outcome' \in Outcome
      BY <1>1, <1>3
    <3> QED BY <1>1, <2>2, <2>3, <3>1 DEF TypeOK, Limited, BodyIsWhatFits
  <2>5. Sent' = Sent /\ requests' = requests
    BY <1>1 DEF Sent
  <2>6. \A i \in 1 .. Sent : trail'[i] = trail[i]
    <3>1. trail = redirect_chain'
      BY <1>3 DEF trail
    <3>2. \A i \in 1 .. hop + 1 : trail'[i] = redirect_chain'[i]
      BY <1>3, <2>3, AppendProperties DEF trail
    <3> QED BY <1>1, <3>1, <3>2
  <2>7. Trailed'
    <3>1. \A i \in 1 .. Sent' : requests'[i].url = trail'[i]
      BY <2>5, <2>6 DEF FetchInv, Trailed
    <3>2. /\ Len(redirect_chain') >= hop' /\ Sent' <= hop' + 1
          /\ Sent' <= Len(redirect_chain') + 1
      <4>1. Sent' = hop + 1 /\ Len(redirect_chain') = hop + 1
        BY <1>1, <2>3, <2>5
      <4>2. hop' = hop \/ hop' = hop + 1
        BY <1>3
      <4>3. hop \in Int /\ hop + 1 >= hop + 1 /\ hop + 1 >= hop /\ hop + 1 <= (hop + 1) + 1
        BY <2>2
      <4>4. hop + 1 >= hop' /\ hop + 1 <= hop' + 1
        BY <4>2, <4>3
      <4> QED BY <4>1, <4>3, <4>4
    <3>3. /\ pc' = "validate" => Sent' = hop' /\ Len(redirect_chain') = hop'
          /\ pc' \in {"validate", "extract"}
          /\ pc' = "validate" <=> outcome' = "running"
          /\ outcome' # "fetched"
      BY <1>1, <1>3, <2>3, <2>5
    <3> QED BY <3>1, <3>2, <3>3 DEF Trailed
  <2>8. Checked'
    <3>1. \A i \in 1 .. Sent :
             /\ validate_url(requests[i].url)
             /\ requests[i].reported => ~is_blocked_ip(requests[i].peer)
      BY <1>1 DEF FetchInv, Checked
    <3>2. pc' \in {"validate", "extract"}
      BY <1>3
    <3> QED BY <2>5, <3>1, <3>2 DEF Checked
  <2>9. Resolved'
    BY <1>3 DEF Resolved
  <2> QED BY <2>4, <2>7, <2>8, <2>9 DEF FetchInv
<1>4. url \in URLs \cup Locations
  BY <1>1 DEF TypeOK
<1>5. CASE ~response.location \/ hop >= MaxRedirects
  BY <1>2, <1>5 DEF Redirect
<1>6. CASE ~(~response.location \/ hop >= MaxRedirects)
  <2>1. hop < MaxRedirects
    BY <1>1, <1>6, FetchAssumption DEF TypeOK
  <2>2. redirect_chain' = Append(redirect_chain, url)
    BY <1>6 DEF Redirect
  <2>3. CASE \E target \in Locations :
               /\ url' = target
               /\ IF validate_url(target)
                  THEN pc' = "validate" /\ hop' = hop + 1 /\ UNCHANGED outcome
                  ELSE Ends("UnsafeURLError") /\ UNCHANGED hop
    BY <1>3, <2>1, <2>2, <2>3
  <2>4. CASE Ends("other") /\ UNCHANGED <<url, hop>>
    BY <1>3, <1>4, <2>1, <2>2, <2>4
  <2> QED BY <1>6, <2>3, <2>4 DEF Redirect
<1> QED BY <1>5, <1>6

LEMMA FetchInvariant == Spec => []FetchInv
<1>1. FetchInv /\ UNCHANGED fvars => FetchInv'
  <2> SUFFICES ASSUME FetchInv, UNCHANGED fvars PROVE FetchInv'
    OBVIOUS
  <2>1. TypeOK' /\ Limited'
    BY DEF fvars, FetchInv, TypeOK, Limited, BodyIsWhatFits
  <2>2. Trailed' /\ Checked'
    BY DEF fvars, FetchInv, Trailed, Checked, Sent, trail
  <2>3. Resolved'
    BY DEF fvars, FetchInv, Resolved
  <2> QED BY <2>1, <2>2, <2>3 DEF FetchInv
<1>2. FetchInv /\ Next => FetchInv'
  BY QuietSteps, SendKeeps, RedirectKeeps DEF Next, Fetch
<1> QED BY FetchStarts, <1>1, <1>2, PTL DEF Spec

-----------------------------------------------------------------------------
(* What a caller of safe_fetch may rely on *)

\* The types of a fetch: whatever servers answer, the limits of hops and of
\* what is kept are kept, and what is connected to is an address.
THEOREM FetchTypes == Spec => []TypeOK
<1>1. FetchInv => TypeOK
  BY DEF FetchInv
<1> QED BY <1>1, FetchInvariant, PTL

\* No request is sent to a URL that validate_url refuses, and no answer is
\* returned or followed that the response says is_blocked_ip refuses the source
\* of; an answer that does not name its source is not refused.
THEOREM FetchIsAllowed == Spec => []FetchedIsAllowed
<1>1. FetchInv => FetchedIsAllowed
  BY DEF FetchInv, Checked, Sent, FetchedIsAllowed
<1> QED BY <1>1, FetchInvariant, PTL

\* redirect_chain and final_url are what was requested, in that order, and
\* never more than max_redirects allows.
THEOREM ProvenanceIsTrue == Spec => []TrailIsTrue
<1>1. FetchInv => TrailIsTrue
  <2> SUFFICES ASSUME FetchInv PROVE TrailIsTrue
    OBVIOUS
  <2>1. /\ url \in URLs \cup Locations /\ redirect_chain \in Seq(URLs \cup Locations)
        /\ hop <= MaxRedirects /\ hop \in Nat /\ Sent \in Nat
    BY FetchAssumption DEF FetchInv, TypeOK, Sent
  <2>2. Len(trail) = Len(redirect_chain) + 1
    BY <2>1, AppendProperties DEF trail
  <2>3. Sent <= MaxRedirects + 1
    BY <2>1, FetchAssumption DEF FetchInv, Trailed
  <2> QED BY <2>2, <2>3 DEF FetchInv, Trailed, TrailIsTrue, Sent, trail
<1> QED BY <1>1, FetchInvariant, PTL

\* What is kept of a body is what fits, and only a body that does not fit is
\* called truncated, in whatever chunks it comes.
THEOREM BodyIsLimited == Spec => []BodyIsWhatFits
<1>1. FetchInv => BodyIsWhatFits
  BY DEF FetchInv, Limited
<1> QED BY <1>1, FetchInvariant, PTL

\* Every spelling of a host in one to four numbers of any size and base, but a
\* lone one that begins with a zero, is checked as the address a resolver reads
\* in it: by validate_url, or, if it is a row that begins with 0x, when it is
\* resolved.
THEOREM SpellingsAreRead == Spec => []NumbersAreRead
<1>1. ASSUME FetchInv, url.host.form = "numbers",
             ~(Len(url.host.parts) = 1 /\ BeginsWithZero(url.host.parts[1]))
      PROVE  /\ \/ parse_ip_literal(url.host) = Spelled(url.host.parts)
                \/ /\ Len(url.host.parts) > 1 /\ url.host.parts[1].written = "hex"
                   /\ parse_ip_literal(url.host) = NoAddress
             /\ pc \in {"send", "answer"} /\ Spelled(url.host.parts) # NoAddress =>
                  addresses = {Spelled(url.host.parts)}
  <2>1. url.host.parts \in Seq(Part)
    BY <1>1, URLsAreRaw, LiteralIsAddress DEF FetchInv, TypeOK
  <2>2. parse_ip_literal(url.host) = ParseNumbers(url.host.parts)
    BY <1>1 DEF parse_ip_literal
  <2>3. \/ parse_ip_literal(url.host) = Spelled(url.host.parts)
        \/ /\ Len(url.host.parts) > 1 /\ url.host.parts[1].written = "hex"
           /\ parse_ip_literal(url.host) = NoAddress
    BY <1>1, <2>1, <2>2, SpellingIsRead, HexRowIsNoAddress
  <2>4. Spelled(url.host.parts) # NoAddress =>
          FirstResolutions(url.host) = {{Spelled(url.host.parts)}}
    BY <1>1, <2>3 DEF FirstResolutions, Resolutions
  <2>5. pc \in {"send", "answer"} => addresses \in FirstResolutions(url.host)
    BY <1>1 DEF FetchInv, Resolved
  <2> QED BY <2>3, <2>4, <2>5
<1>2. FetchInv => NumbersAreRead
  BY <1>1 DEF NumbersAreRead
<1> QED BY <1>2, FetchInvariant, PTL
=============================================================================
