---------------------------- MODULE MCSafeFetch ----------------------------
(* Octets of two values; a public and an internal name; every spelling in one
   to four numbers, and the ways of writing a number; URLs that each miss one
   thing; redirects within and out of what is allowed. *)
EXTENDS SafeFetch

At(host) == [plain |-> TRUE, scheme |-> "https", credentials |-> FALSE, host |-> host, port |-> 0]
Named(n) == At([form |-> "name", name |-> n])
Spelling(parts) == At([form |-> "numbers", parts |-> parts])
Written(w, v, d) == [written |-> w, value |-> v, decimal |-> d]
Decimal(v) == Written("decimal", v, v)
Decimals(values) == [i \in 1 .. Len(values) |-> Decimal(values[i])]

MCBlockedIPv4 == 0 .. 7
MCAddresses == {V4(8), [family |-> "mapped", value |-> 7]}
Public == Named("public")
Spellings == {Spelling(Decimals(s)) : s \in UNION {[1 .. n -> 0 .. 2] : n \in 2 .. 3}}
                 \cup {Spelling(Decimals(s)) : s \in [1 .. 4 -> 0 .. 1]}
                 \cup {Spelling(Decimals(<<n>>)) : n \in 0 .. 16}
                 \cup {Spelling(Decimals(<<1, n>>)) : n \in 3 .. 8}
                 \cup {Spelling(Decimals(<<1, 1, n>>)) : n \in 3 .. 4}
\* The octal numbers are 01, 07 and 010, the last is 08.
Digits == {Written("hex", 1, 1), Written("hex", 8, 8), Decimal(1), Decimal(7),
           Written("octal", 1, 1), Written("octal", 7, 7), Written("octal", 8, 10),
           Written("no_octal", 0, 8)}
Writings == {Spelling(s) : s \in UNION {[1 .. n -> Digits] : n \in 1 .. 2}}
                \cup {Spelling(<<d, Decimal(1), Decimal(0), Decimal(1)>>) : d \in Digits}
MCLocations == {Public, Named("internal")}
MCURLs == MCLocations \cup Spellings \cup Writings \cup
    {At([form |-> "empty"]),
     At([form |-> "v6", address |-> [family |-> "v6", value |-> 0]]),
     At([form |-> "v6", address |-> [family |-> "v6", value |-> 1]]),
     At([form |-> "v6", address |-> [family |-> "sixtofour", value |-> 7]]),
     [Public EXCEPT !.plain = FALSE], [Public EXCEPT !.scheme = "other"],
     [Public EXCEPT !.scheme = "http"], [Public EXCEPT !.credentials = TRUE],
     [Public EXCEPT !.port = 22]}
==============================================================================
