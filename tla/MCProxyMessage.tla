-------------------------- MODULE MCProxyMessage --------------------------
(* Values for model checking ProxyMessage: exchanges that differ from a     *)
(* usual one in their URLs, in Accept-Encoding, or in headers and trailers. *)
EXTENDS ProxyMessage

MCNames == HopHeaders \cup SkipHeaders \cup BodyHeaders
           \cup {"Vary", "Server", "Close", "X-Hop", "X-End"}

MCTrailers == {"t", "u"}

MCListed == ("close" :> <<"Close">>) @@ ("keep-alive, X-Hop" :> <<"Keep-Alive", "X-Hop">>)

None == [n \in MCNames |-> <<>>]

URL(raw, path, query) ==
    [unix |-> FALSE, host |-> "client", opaque |-> <<>>, raw |-> raw, path |-> path,
     query |-> query]

\* A path with its encoded form, empty where the two are the same.
EncodedURL(p, query) == URL(IF Decode(p) = p THEN <<>> ELSE p, Decode(p), query)

Queries == {<<>>, <<"k">>, <<"k", "&", "l">>}

ClientURLs ==
    {EncodedURL(<<"/">> \o p, q) : p \in SeqOf({"/", "%2F", "a"}, 2), q \in Queries}

TargetURLs ==
    {[EncodedURL(p, q) EXCEPT !.unix = u, !.host = "backend"] :
        p \in {<<>>} \cup {<<"/">> \o t : t \in SeqOf({"/", "%2F", "b"}, 2)},
        q \in {<<>>, <<"m">>}, u \in BOOLEAN}

Parts ==
    {[key |-> "q", number |-> TRUE, tenths |-> q] : q \in {-10, 0, 5, 20}}
    \cup {[key |-> k, number |-> FALSE, tenths |-> 0] : k \in {"q", "other"}}

Codings(n) == [name : {"gzip", "br", ""}, parts : SeqOf(Parts, n)]

\* Two codings with a weight each, or one with two.
Accepts == SeqOf(Codings(1), 2) \cup SeqOf(Codings(2), 1)

\* Connection in none, one or two lines; headers that are set beforehand.
ResponseHeaders ==
    {[None EXCEPT !["Connection"] = c, !["Keep-Alive"] = <<"timeout">>, !["X-Hop"] = <<"h">>,
                  !["X-End"] = <<"e", "f">>, !["Server"] = <<"thin">>, !["Vary"] = v,
                  !["Content-Type"] = t, !["Content-Encoding"] = e] :
        c \in SeqOf({"close", "keep-alive, X-Hop"}, 2),
        v \in {<<>>, <<"Origin">>},
        t \in {<<>>, <<"text/html">>},
        e \in {<<>>, <<"br">>}}

\* A lookup of the API that found nothing has set the type.
Befores == {None, [None EXCEPT !["Content-Type"] = <<"application/json">>]}

Usual ==
    [url |-> URL(<<>>, <<"/", "a">>, <<>>), target |-> URL(<<>>, <<>>, <<>>),
     accept |-> <<>>, header |-> None, before |-> None, announced |-> {}, trailers |-> {}]

GzipAccepted == <<[name |-> "gzip", parts |-> <<>>]>>

MCExchanges ==
    {[Usual EXCEPT !.url = u, !.target = t] : u \in ClientURLs, t \in TargetURLs}
    \cup {[Usual EXCEPT !.accept = a] : a \in Accepts}
    \cup {[Usual EXCEPT !.accept = a, !.header = h, !.before = b, !.announced = n,
                        !.trailers = t] :
            a \in {<<>>, GzipAccepted}, h \in ResponseHeaders, b \in Befores,
            n \in SUBSET MCTrailers, t \in SUBSET MCTrailers}
    \cup {[Usual EXCEPT !.accept = a, !.header = [h EXCEPT !["Content-Length"] = <<"9">>],
                        !.before = b] :
            a \in {<<>>, GzipAccepted}, h \in ResponseHeaders, b \in Befores}
=============================================================================
