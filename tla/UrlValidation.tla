--------------------------- MODULE UrlValidation ---------------------------
(***************************************************************************)
(* security/url_validation.py: may the server connect to this URL, and to  *)
(* this address?  Both answers are pure functions.                         *)
(*                                                                         *)
(* An IPv4 address is a number of four digits in base Radix (256).  A host *)
(* is a name, an IPv6 address or a sequence of numbers: IPv4 addresses may *)
(* be spelled with one to four numbers, the last of which fills all octets *)
(* that are left.  Of the digits of a number the model keeps how they are  *)
(* written and what they amount to; of the rest of the text, whether the   *)
(* tests of single characters and of length let it pass.                   *)
(***************************************************************************)
EXTENDS Integers, Sequences

CONSTANTS
    Radix,            \* values of an octet
    BlockedIPv4,      \* the numbers in _BLOCKED_IPV4 and ipaddress's classes
    IPv6, BlockedIPv6,
    Name,             \* host names
    InternalName,     \* blocked names and suffixes, and names without a dot
    AllowedPort

\* 256 ** k, for the k octets of an address or of a part of it.
Power(k) ==
    <<1, Radix, Radix * Radix, Radix * Radix * Radix, Radix * Radix * Radix * Radix>>[k + 1]

ASSUME UrlAssumption ==
    /\ Radix \in Nat \ {0, 1}
    /\ BlockedIPv4 \subseteq 0 .. Power(4) - 1
    /\ BlockedIPv6 \subseteq IPv6
    /\ InternalName \subseteq Name

Word == 0 .. Power(4) - 1

\* The IPv6 addresses that carry an IPv4 address: ::ffff:a, 2002:a::, 2001:0::
Wrapping == {"mapped", "sixtofour", "teredo"}

Address == [family : {"v4"} \cup Wrapping, value : Word]
               \cup [family : {"v6"}, value : IPv6]

NoAddress == [family |-> "none"]

\* A number begins with 0x, or with a zero and is then octal, or is decimal;
\* "no_octal" begins with a zero and has a digit 8 or 9.  value is what its
\* digits amount to in its own base, decimal what they are as decimal digits
\* (of the leading zeros, the only difference is there).
Part == [written : {"decimal", "octal", "no_octal", "hex"}, value : Nat, decimal : Nat]

Number == [form : {"numbers"}, parts : Seq(Part)]
Host == Number \cup [form : {"v6"}, address : Address]
               \cup [form : {"name"}, name : Name] \cup {[form |-> "empty"]}

RawURL == [plain : BOOLEAN, scheme : {"http", "https", "other"},
           credentials : BOOLEAN, host : Host, port : Nat]

------------------------------------------------------------------------------
V4(w) == [family |-> "v4", value |-> w]

\* Fault: the octets of the last number are unpacked from the lowest.
Unpacked_reversed(last, n) == [i \in 1 .. 5 - n |-> (last \div Power(i - 1)) % Radix]

\* The octets that the last of n numbers stands for, highest first.
Unpacked(last, n) == [i \in 1 .. 5 - n |-> (last \div Power(5 - n - i)) % Radix]

FromOctets(o) == o[1] * Power(3) + o[2] * Power(2) + o[3] * Radix + o[4]

\* The address that the values of one to four numbers are packed into, if any.
Packed(values) ==
    LET n == Len(values)
        octets == SubSeq(values, 1, n - 1) \o Unpacked(values[n], n)
    IN  IF \/ n \notin 1 .. 4
           \/ values[n] >= Power(5 - n)
           \/ \E i \in 1 .. Len(octets) : octets[i] >= Radix
        THEN NoAddress
        ELSE V4(FromOctets(octets))

BeginsWithZero(part) == part.written \in {"octal", "no_octal"}

\* The values of the parts, in the base of each.
Values(parts) == [i \in 1 .. Len(parts) |-> parts[i].value]

\* parse_ip_literal, of numbers.  A lone number is hexadecimal or decimal,
\* whatever it begins with; a longer row that begins with 0x is read as one
\* hexadecimal number, which it is not; a part that int(part, 8) refuses
\* refuses the row.
ParseNumbers(parts) ==
    CASE Len(parts) = 1 ->
            Packed(<<IF BeginsWithZero(parts[1]) THEN parts[1].decimal ELSE parts[1].value>>)
      [] Len(parts) > 1 /\ parts[1].written # "hex"
            /\ (\A i \in 1 .. Len(parts) : parts[i].written # "no_octal") ->
            Packed(Values(parts))
      [] OTHER -> NoAddress

parse_ip_literal(host) ==
    CASE host.form = "numbers" -> ParseNumbers(host.parts)
      [] host.form = "v6" -> host.address
      [] OTHER -> NoAddress

is_blocked_ip(a) ==
    IF a.family = "v6" THEN a.value \in BlockedIPv6 ELSE a.value \in BlockedIPv4

\* An explicit port 0 is replaced like an absent one.
PortOf(u) == IF u.port # 0 THEN u.port ELSE IF u.scheme = "https" THEN 443 ELSE 80

\* A host that spells no address is a name, and needs a dot: a lone number
\* that is too large has none, a longer row of numbers has.
PublicName(host) ==
    \/ host.form = "name" /\ host.name \notin InternalName
    \/ host.form = "numbers" /\ Len(host.parts) > 1

\* validate_url: TRUE when it returns, FALSE when it raises UnsafeURLError.
validate_url(u) ==
    LET literal == parse_ip_literal(u.host)
    IN  /\ u.plain
        /\ u.scheme \in {"http", "https"}
        /\ ~u.credentials
        /\ u.host.form # "empty"
        /\ PortOf(u) \in AllowedPort
        /\ IF literal = NoAddress THEN PublicName(u.host) ELSE ~is_blocked_ip(literal)

------------------------------------------------------------------------------
(* What a resolver makes of the same numbers (inet_aton): each in its base, all
   but the last are octets, the last fills the rest. *)
SpelledBy(values) ==
    LET n == Len(values)
        P(i) == IF i < n THEN values[i] * Power(4 - i) ELSE 0
    IN  IF /\ n \in 1 .. 4
           /\ \A i \in 1 .. n - 1 : values[i] < Radix
           /\ values[n] < Power(5 - n)
        THEN V4(P(1) + P(2) + P(3) + values[n])
        ELSE NoAddress

Spelled(parts) ==
    IF \A i \in 1 .. Len(parts) : parts[i].written # "no_octal"
    THEN SpelledBy(Values(parts)) ELSE NoAddress
==============================================================================
