----------------------------- MODULE SafeFetch -----------------------------
(***************************************************************************)
(* One call of fetch_article (retrieval/article.py) and the safe_fetch     *)
(* (security/safe_fetch.py) under it: a loop over redirect hops.  On every *)
(* hop the URL is validated, its host resolved, all its addresses checked, *)
(* a request sent, the address that answered checked, and the body read up *)
(* to a limit, the bodies of redirects included.  Servers and resolvers    *)
(* answer what they like, and differently each time: the transport looks   *)
(* the host of the URL up once more when it connects, and does not use     *)
(* the address it is given (pinned_ip).                                    *)
(***************************************************************************)
EXTENDS UrlValidation, FiniteSets

CONSTANTS
    URLs,          \* URLs of submissions and articles
    Locations,     \* what redirects point to, joined to the current URL
    Addresses,     \* what resolvers may return
    MaxRedirects,  \* settings.max_redirects
    MaxBytes,      \* settings.max_url_response_bytes
    MaxChunk       \* bound: the largest chunk of a body

ASSUME FetchAssumption ==
    /\ URLs \subseteq RawURL /\ Locations \subseteq RawURL
    /\ Addresses \subseteq Address
    /\ MaxRedirects \in Nat /\ MaxBytes \in Nat \ {0} /\ MaxChunk \in Nat \ {0}

Response == [kind : {"redirect"}, location : BOOLEAN]
                \cup [kind : {"page"}, allowed_type : BOOLEAN, success : BOOLEAN]

NoResponse == [kind |-> "none"]

Outcome == {"running", "fetched", "UnsafeURLError", "FetchError", "other"}

VARIABLES
    pc,         \* where safe_fetch is
    url, hop, redirect_chain,
    addresses,  \* what _resolve_host returned
    peer,       \* the address the request is sent to
    reported,   \* does the response say which address that is?
    response, total, kept, truncated,
    interim,    \* how often what arrived was nothing, modulo 2
    outcome,    \* how safe_fetch ended
    article,    \* what fetch_article returned
    requests    \* history: the requests sent, with peer and reported of each

fvars == <<pc, url, hop, redirect_chain, addresses, peer, reported, response,
           total, kept, truncated, interim, outcome, article, requests>>

asked == <<addresses, peer, reported>>
body == <<total, kept, truncated, interim>>
request == <<asked, response, body>>

Init ==
    /\ pc = "validate"
    /\ url \in URLs /\ hop = 0 /\ redirect_chain = <<>>
    /\ addresses = {} /\ peer = NoAddress /\ reported = FALSE /\ response = NoResponse
    /\ total = 0 /\ kept = 0 /\ truncated = FALSE /\ interim = 0
    /\ outcome = "running" /\ article = "awaited" /\ requests = <<>>

\* safe_fetch returns, or raises; fetch_article goes on.
Ends(o) ==
    /\ outcome' = o
    /\ pc' = "extract"

------------------------------------------------------------------------------
(* One hop. *)

Validate ==
    /\ pc = "validate"
    /\ IF validate_url(url)
       THEN pc' = "resolve" /\ UNCHANGED outcome
       ELSE Ends("UnsafeURLError")
    /\ UNCHANGED <<url, hop, redirect_chain, request, article, requests>>

\* What a resolver may make of a host: nothing else than what is spelled, of
\* a spelled address; anything, of a name.
Resolutions(host) ==
    LET spelled == IF host.form = "numbers" THEN Spelled(host.parts)
                                            ELSE parse_ip_literal(host)
    IN  IF spelled = NoAddress THEN (SUBSET Addresses) \ {{}} ELSE {{spelled}}

\* What _resolve_host is told of a host that validate_url read as an address:
\* not its spelling, but that address (validated.host).
FirstResolutions(host) ==
    LET literal == parse_ip_literal(host)
    IN  IF literal = NoAddress THEN Resolutions(host) ELSE {{literal}}

\* Every address is checked; one that is blocked refuses the host.
AddressesPass(found) == \A a \in found : ~is_blocked_ip(a)

_resolve_host ==
    /\ pc = "resolve"
    /\ \/ \E found \in FirstResolutions(url.host) :
            IF AddressesPass(found)
            THEN addresses' = found /\ pc' = "send" /\ UNCHANGED outcome
            ELSE Ends("UnsafeURLError") /\ UNCHANGED addresses
       \/ Ends("FetchError") /\ UNCHANGED addresses
    /\ UNCHANGED <<url, hop, redirect_chain, peer, reported, response, body,
                   article, requests>>

\* The request goes to an address of the host as it is written in the URL
\* (validated.url), which the transport looks up.  The response will say which
\* (network_stream, server_addr), or not, as when the socket is reset by then.
Send ==
    /\ pc = "send"
    /\ \/ \E found \in Resolutions(url.host) : \E a \in found, known \in BOOLEAN :
            /\ peer' = a /\ reported' = known
            /\ requests' = Append(requests, [url |-> url, peer |-> a, reported |-> known])
            /\ pc' = "answer"
            /\ UNCHANGED outcome
       \/ Ends("FetchError") /\ UNCHANGED <<peer, reported, requests>>
       \/ Ends("other") /\ UNCHANGED <<peer, reported, requests>>
    /\ UNCHANGED <<url, hop, redirect_chain, addresses, response, body, article>>

\* Fault: the address that answers is not looked at.
PeerPasses_unchecked == TRUE

\* _PinnedTransport.handle_async_request: the address that answered is checked
\* as soon as the head of the response is there, if the response names one.
PeerPasses == reported => ~is_blocked_ip(peer)

\* The head of the response.  A length may be declared (0: none) and need not
\* be true: the body may be compressed.
Answer ==
    /\ pc = "answer"
    /\ \/ \E r \in Response, declared \in 0 .. MaxBytes + 1 :
            /\ response' = r
            /\ CASE ~PeerPasses -> Ends("UnsafeURLError")
                 [] PeerPasses /\ declared > MaxBytes -> Ends("FetchError")
                 [] OTHER -> pc' = "read" /\ UNCHANGED outcome
       \/ Ends("FetchError") /\ UNCHANGED response
    /\ total' = 0 /\ kept' = 0 /\ truncated' = FALSE /\ interim' = 0
    /\ UNCHANGED <<url, hop, redirect_chain, asked, article, requests>>

\* Bytes arrive, and no head or chunk comes of them: responses that announce
\* another, raw bytes that decode to nothing (as behind the end of a compressed
\* stream).  Neither a limit nor a timeout of one read counts them.
ReadNothing ==
    /\ pc \in {"answer", "read"}
    /\ interim' = 1 - interim
    /\ UNCHANGED <<pc, url, hop, redirect_chain, asked, response, total, kept, truncated,
                   outcome, article, requests>>

\* Fault: the chunk that crosses the limit is kept whole.
Read_keeps_chunk(n) ==
    /\ pc = "read"
    /\ total' = total + n /\ interim' = 0
    /\ kept' = kept + n
    /\ truncated' = (total + n > MaxBytes)
    /\ pc' = IF total + n > MaxBytes THEN "decide" ELSE pc
    /\ UNCHANGED <<url, hop, redirect_chain, asked, response, outcome, article, requests>>

\* Fault: the excess is dropped, but reading goes on.  (The count wraps, to
\* keep it bounded.)
Read_to_the_end(n) ==
    LET sum == total + n
    IN  /\ pc = "read"
        /\ total' = IF sum > MaxBytes + MaxChunk THEN sum - MaxChunk ELSE sum
        /\ interim' = 0
        /\ kept' = IF sum > MaxBytes THEN MaxBytes ELSE sum
        /\ truncated' = (sum > MaxBytes)
        /\ UNCHANGED <<pc, url, hop, redirect_chain, asked, response, outcome, article, requests>>

\* One chunk of n bytes: what fits is kept, and reading stops beyond the limit.
Read(n) ==
    LET remaining == MaxBytes - total
    IN  /\ pc = "read"
        /\ total' = total + n /\ interim' = 0
        /\ IF n > remaining
           THEN /\ kept' = kept + remaining
                /\ truncated' = TRUE
                /\ pc' = "decide"
           ELSE /\ kept' = kept + n
                /\ UNCHANGED <<truncated, pc>>
        /\ UNCHANGED <<url, hop, redirect_chain, asked, response, outcome, article, requests>>

EndOfBody ==
    /\ pc = "read"
    /\ pc' = "decide" /\ interim' = 0
    /\ UNCHANGED <<url, hop, redirect_chain, asked, response, total, kept, truncated,
                   outcome, article, requests>>

\* A read timeout or a broken connection.
ReadFails ==
    /\ pc = "read"
    /\ Ends("FetchError") /\ interim' = 0
    /\ UNCHANGED <<url, hop, redirect_chain, asked, response, total, kept, truncated,
                   article, requests>>

\* Fault: the chain records where a redirect leads, not where it comes from.
Redirect_records_target ==
    /\ pc = "decide" /\ response.kind = "redirect"
    /\ IF ~response.location \/ hop >= MaxRedirects
       THEN Ends("FetchError") /\ UNCHANGED <<url, hop, redirect_chain>>
       ELSE \E target \in Locations :
                /\ redirect_chain' = Append(redirect_chain, target)
                /\ url' = target
                /\ IF validate_url(target)
                   THEN pc' = "validate" /\ hop' = hop + 1 /\ UNCHANGED outcome
                   ELSE Ends("UnsafeURLError") /\ UNCHANGED hop
    /\ UNCHANGED <<request, article, requests>>

\* The target is validated here, for a log line, and again on the next hop;
\* joining it to the current URL may raise an error of the URL library.
Redirect ==
    /\ pc = "decide" /\ response.kind = "redirect"
    /\ IF ~response.location \/ hop >= MaxRedirects
       THEN Ends("FetchError") /\ UNCHANGED <<url, hop, redirect_chain>>
       ELSE /\ redirect_chain' = Append(redirect_chain, url)
            /\ \/ \E target \in Locations :
                    /\ url' = target
                    /\ IF validate_url(target)
                       THEN pc' = "validate" /\ hop' = hop + 1 /\ UNCHANGED outcome
                       ELSE Ends("UnsafeURLError") /\ UNCHANGED hop
               \/ Ends("other") /\ UNCHANGED <<url, hop>>
    /\ UNCHANGED <<request, article, requests>>

\* Decoding never fails: an unknown encoding is replaced by UTF-8.
Page ==
    /\ pc = "decide" /\ response.kind = "page"
    /\ Ends(IF response.allowed_type /\ response.success THEN "fetched" ELSE "FetchError")
    /\ UNCHANGED <<url, hop, redirect_chain, request, article, requests>>

------------------------------------------------------------------------------
\* fetch_article: any exception is None, and so are an empty page and one in
\* which neither extractor finds a text.
Extract ==
    /\ pc = "extract"
    /\ pc' = "done"
    /\ article' \in IF outcome = "fetched" /\ kept > 0 THEN {"found", "None"} ELSE {"None"}
    /\ UNCHANGED <<url, hop, redirect_chain, request, outcome, requests>>

Fetch ==
    \/ Validate \/ _resolve_host \/ Send \/ Answer
    \/ \E n \in 1 .. MaxChunk : Read(n)
    \/ ReadNothing \/ EndOfBody \/ ReadFails \/ Redirect \/ Page

Next == Fetch \/ Extract

Spec == Init /\ [][Next]_fvars

\* The fetching process goes on; what it waits for comes in some form, or its
\* wait times out.
FairSpec == Spec /\ WF_fvars(Next)

------------------------------------------------------------------------------
TypeOK ==
    /\ pc \in {"validate", "resolve", "send", "answer", "read", "decide", "extract", "done"}
    /\ url \in URLs \cup Locations
    /\ hop \in 0 .. MaxRedirects
    /\ redirect_chain \in Seq(URLs \cup Locations)
    /\ addresses \subseteq Address /\ peer \in Address \cup {NoAddress} /\ reported \in BOOLEAN
    /\ response \in Response \cup {NoResponse}
    /\ total \in 0 .. MaxBytes + MaxChunk /\ kept \in 0 .. MaxBytes /\ truncated \in BOOLEAN
    /\ interim \in {0, 1}
    /\ outcome \in Outcome
    /\ article \in {"awaited", "found", "None"}
    /\ requests \in Seq([url : URLs \cup Locations, peer : Address, reported : BOOLEAN])

\* What is fetched, and whatever a redirect led through, was allowed: every
\* request on the way went to a valid URL, and an answer that is used came from
\* an address that may be connected to, whatever resolvers said in between, or
\* from one that the response does not name.  Nothing is requested after an
\* answer that is refused.
FetchedIsAllowed ==
    \A i \in 1 .. Len(requests) :
        /\ validate_url(requests[i].url)
        /\ (outcome = "fetched" \/ i < Len(requests)) /\ requests[i].reported =>
              ~is_blocked_ip(requests[i].peer)

\* The provenance of a result is true: the chain and the final URL are the
\* requests that were sent, in their order, and there are no more of them than
\* redirects are allowed.
TrailIsTrue ==
    LET trail == Append(redirect_chain, url)
        n == Len(requests)
    IN  /\ n <= MaxRedirects + 1 /\ n <= Len(trail)
        /\ \A i \in 1 .. n : requests[i].url = trail[i]
        /\ outcome = "fetched" => n = Len(trail)

\* Whatever is declared and sent, what is kept is the body or its first
\* MaxBytes, and a result says truncated exactly if something is missing.
BodyIsWhatFits ==
    /\ kept = IF total > MaxBytes THEN MaxBytes ELSE total
    /\ truncated <=> total > MaxBytes

\* Unless it is a lone number that begins with a zero, a host spelled in numbers
\* is checked as the address that a resolver makes of the spelling: it is read
\* as that address, or it begins with 0x, is no address to the validator, and
\* _resolve_host meets that address before anything is sent.
NumbersAreRead ==
    LET parts == url.host.parts
        read == parse_ip_literal(url.host)
        spelled == Spelled(parts)
    IN  url.host.form = "numbers" /\ ~(Len(parts) = 1 /\ BeginsWithZero(parts[1])) =>
            /\ \/ read = spelled
               \/ Len(parts) > 1 /\ parts[1].written = "hex" /\ read = NoAddress
            /\ pc \in {"send", "answer"} /\ spelled # NoAddress => addresses = {spelled}

\* No server can keep a fetch busy for ever with redirects, or with a body that
\* does not end, unless from some point on all it sends comes to nothing.
EveryFetchEnds == <>(pc = "done") \/ []<><<ReadNothing>>_fvars

------------------------------------------------------------------------------
(* What texts say, and no fetch keeps. *)

\* security/safe_fetch.py:9-11: the socket is pinned to a validated address.
ConnectsToValidated == pc = "answer" => peer \in addresses

\* security/url_validation.py:142-148: obfuscated encodings are decoded.
EveryEncodingIsRead ==
    url.host.form = "numbers" => parse_ip_literal(url.host) = Spelled(url.host.parts)

\* docs/SECURITY.md: fetching is bounded by connect and read timeouts.
FetchEnds == <>(pc = "done")
==============================================================================
