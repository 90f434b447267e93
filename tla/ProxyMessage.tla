---------------------------- MODULE ProxyMessage ----------------------------
(***************************************************************************)
(* What ReverseProxy.ServeHTTP (reverseproxy.go) does to the URL of a      *)
(* request and to the headers and trailers of its response, and how        *)
(* NewGzipHandler (gziphandler.go) reads Accept-Encoding.  The body and    *)
(* its timing are in ProxyResponse, websockets in WebsocketTunnel.         *)
(*                                                                         *)
(* A path is a sequence of "/", "%2F" (an encoded slash) and words.        *)
(***************************************************************************)
EXTENDS Integers, Sequences, SequencesExt

CONSTANTS
    Exchanges,    \* pairs of a request and its response, with the target
    Names,        \* names of headers, those below included
    Trailers,     \* names of trailers
    Listed        \* for a value of Connection, the names listed in it

HopHeaders ==
    {"Alt-Svc", "Alternate-Protocol", "Connection", "Keep-Alive", "Proxy-Authenticate",
     "Proxy-Authorization", "Proxy-Connection", "Te", "Trailer", "Transfer-Encoding",
     "Upgrade"}

SkipHeaders ==
    {"Content-Type", "Content-Disposition", "Accept-Ranges", "Set-Cookie",
     "Cache-Control", "Expires"}

\* The headers that compression changes.
BodyHeaders == {"Content-Encoding", "Content-Length"}

ASSUME NamesAssumption ==
    HopHeaders \cup SkipHeaders \cup BodyHeaders \cup {"Vary", "Server"} \subseteq Names

\* A coding of Accept-Encoding has a name and parts after it: a weight "q=", in
\* tenths and 0 where it is no number, or something else.
Part == [key : {"q", "other"}, number : BOOLEAN, tenths : Int]

Coding == [name : STRING, parts : Seq(Part)]

\* Connection is one of the values that Listed knows; no handler before the
\* proxy sets a header of HopHeaders or BodyHeaders; only a response in chunks,
\* for which net/http reports no length, has trailers.
ASSUME MessagesAssumption ==
    /\ \A v \in DOMAIN Listed : ToSet(Listed[v]) \subseteq Names
    /\ IsFiniteSet(Trailers)
    /\ \A e \in Exchanges :
          /\ e.accept \in Seq(Coding)
          /\ e.header \in [Names -> Seq(STRING)]
          /\ e.header["Connection"] \in Seq(DOMAIN Listed)
          /\ e.before \in [Names -> Seq(STRING)]
          /\ \A n \in HopHeaders \cup BodyHeaders : e.before[n] = <<>>
          /\ e.announced \subseteq Trailers
          /\ e.trailers \subseteq Trailers
          /\ e.header["Content-Length"] # <<>> => e.announced \cup e.trailers = {}

VARIABLES
    x,            \* the exchange
    pc,           \* where ServeHTTP is
    gz,           \* the writer is a GzipResponseWriter
    url,          \* outreq.URL
    res,          \* res.Header
    hdr,          \* rw.Header()
    set,          \* trailers in rw.Header(): by name, and with the prefix
    head,         \* the headers that net/http has copied to send
    chunked,      \* the response is sent in chunks
    received      \* the trailers that the client gets

vars == <<x, pc, gz, url, res, hdr, set, head, chunked, received>>

NoHead == [n \in {} |-> <<>>]

Init ==
    /\ x \in Exchanges
    /\ pc = "gzip"
    /\ gz = FALSE
    /\ url = x.url
    /\ res = x.header
    /\ hdr = x.before
    /\ set = [plain |-> {}, prefixed |-> {}]
    /\ head = NoHead
    /\ chunked = FALSE
    /\ received = {}
-----------------------------------------------------------------------------
(* Accept-Encoding, a sequence of codings.                                 *)

\* Below 0 counts as 0 and above 1 as 1.
Clamp(q) == IF q < 0 THEN 0 ELSE IF q > 10 THEN 10 ELSE q

Weights(c) == {i \in DOMAIN c.parts : c.parts[i].key = "q"}

\* The last "q=" decides on the error of strconv.ParseFloat.
CodingErr(c) == c.name = "" \/ (Weights(c) # {} /\ ~c.parts[Max(Weights(c))].number)

\* Faulty variant: a weight is not looked at.
QvalueUnread(c) == 10

\* Each part sets qvalue again, so the last one decides.
Qvalue(c) ==
    IF c.parts # <<>> /\ Last(c.parts).key = "q" THEN Clamp(Last(c.parts).tenths) ELSE 10

\* c["gzip"] as parseEncodings leaves it: that of the last coding so named.
GzipValue(codings) ==
    LET parsed == {i \in DOMAIN codings : codings[i].name = "gzip" /\ ~CodingErr(codings[i])}
    IN  IF parsed = {} THEN 0 ELSE Qvalue(codings[Max(parsed)])

AcceptsGzip(codings) == GzipValue(codings) > 0

GzipHandler ==
    /\ pc = "gzip"
    /\ hdr' = [hdr EXCEPT !["Vary"] = Append(@, "Accept-Encoding")]
    /\ gz' = AcceptsGzip(x.accept)
    /\ pc' = "director"
    /\ UNCHANGED <<x, url, res, set, head, chunked, received>>
-----------------------------------------------------------------------------
(* The URL.                                                                *)

EndsInSlash(a) == a # <<>> /\ Last(a) = "/"

BeginsWithSlash(b) == b # <<>> /\ Head(b) = "/"

\* Faulty variant: the two are only put together.
JoinOnly(a, b) == a \o b

SingleJoiningSlash(a, b) ==
    IF EndsInSlash(a) /\ BeginsWithSlash(b) THEN a \o Tail(b)
    ELSE IF ~EndsInSlash(a) /\ ~BeginsWithSlash(b) /\ b # <<>> THEN a \o <<"/">> \o b
    ELSE a \o b

Prefer(val, def) == IF val # <<>> THEN val ELSE def

TrimPrefix(s, prefix) == IF IsPrefix(prefix, s) THEN SubSeq(s, Len(prefix) + 1, Len(s)) ELSE s

\* The encoded form, stored where it differs from the path: of both when
\* one of the two URLs has one.
JoinEncoded(t, r, tpath, rpath) ==
    IF t = <<>> /\ r = <<>> THEN <<>>
    ELSE SingleJoiningSlash(Prefer(t, tpath), Prefer(r, rpath))

\* EscapedPath of net/url, which an encoded form for another path is lost by.
Decode(s) == [i \in DOMAIN s |-> IF s[i] = "%2F" THEN "/" ELSE s[i]]

EscapedPath(u) == IF u.raw # <<>> /\ Decode(u.raw) = u.path THEN u.raw ELSE u.path

\* A query is empty or has parameters, which may be empty, with "&" between them.
Separated(query) ==
    /\ Len(query) % 2 = 1 \/ query = <<>>
    /\ \A i \in DOMAIN query : query[i] = "&" <=> i % 2 = 0

\* What url.Parse makes of a target and of a request, whose path begins with "/".
ASSUME URLsAssumption ==
    \A e \in Exchanges :
        /\ \A u \in {e.url, e.target} :
              /\ {u.raw, u.path, u.query} \subseteq Seq(STRING)
              /\ Decode(u.path) = u.path
              /\ u.raw # <<>> => Decode(u.raw) = u.path
              /\ Separated(u.query)
        /\ BeginsWithSlash(EscapedPath(e.url))

\* target.String() without "unix://".
SocketPrefix(target) ==
    EscapedPath(target) \o (IF target.query = <<>> THEN <<>> ELSE <<"?">> \o target.query)

Rewritten(target, u) ==
    LET opaque == JoinEncoded(target.opaque, u.opaque, target.path, u.path)
        raw    == JoinEncoded(target.raw, u.raw, target.path, u.path)
        path   == SingleJoiningSlash(target.path, u.path)
        Trim(s) == IF target.unix THEN TrimPrefix(s, SocketPrefix(target)) ELSE s
    IN  [unix   |-> FALSE,
         host   |-> IF target.unix THEN "socket" ELSE target.host,
         opaque |-> Trim(opaque),
         raw    |-> Trim(raw),
         path   |-> Trim(path),
         query  |-> IF target.query = <<>> \/ u.query = <<>>
                    THEN target.query \o u.query
                    ELSE target.query \o <<"&">> \o u.query]

Director ==
    /\ pc = "director"
    /\ url' = Rewritten(x.target, url)
    /\ pc' = "hop"
    /\ UNCHANGED <<x, gz, res, hdr, set, head, chunked, received>>
-----------------------------------------------------------------------------
(* The headers.                                                            *)

\* The names in the first line of Connection, which Header.Get returns.
ConnectionNames == IF res["Connection"] = <<>> THEN {}
                   ELSE ToSet(Listed[Head(res["Connection"])])

\* Faulty variant: Connection is deleted before it is read.
RemoveFixedHeaders ==
    /\ pc = "hop"
    /\ res' = [n \in Names |-> IF n \in HopHeaders THEN <<>> ELSE res[n]]
    /\ pc' = "header"
    /\ UNCHANGED <<x, gz, url, hdr, set, head, chunked, received>>

RemoveHopHeaders ==
    /\ pc = "hop"
    /\ res' = [n \in Names |-> IF n \in HopHeaders \cup ConnectionNames THEN <<>> ELSE res[n]]
    /\ pc' = "header"
    /\ UNCHANGED <<x, gz, url, hdr, set, head, chunked, received>>

\* Faulty variant: a header that is there already is kept beside the new one.
CopyByAdding(dst, src) == [n \in Names |-> dst[n] \o src[n]]

Copied(dst, src) ==
    [n \in Names |->
        IF src[n] = <<>> \/ (dst[n] # <<>> /\ n \in SkipHeaders) THEN dst[n]
        ELSE IF n = "Server" THEN dst[n] \o src[n]
        ELSE src[n]]

CopyHeader ==
    /\ pc = "header"
    /\ hdr' = Copied(hdr, res)
    /\ pc' = "announce"
    /\ UNCHANGED <<x, gz, url, res, set, head, chunked, received>>
-----------------------------------------------------------------------------
(* The trailers, and the body as far as writing it changes headers.        *)

\* net/http takes a copy of the headers at the first WriteHeader.
Commit(h) == head' = IF head = NoHead THEN h ELSE head

\* Faulty variant: the header Trailer is not made up.
AnnounceNothing ==
    /\ pc = "announce"
    /\ IF gz THEN UNCHANGED head ELSE Commit(hdr)
    /\ pc' = "body"
    /\ UNCHANGED <<x, gz, url, res, hdr, set, chunked, received>>

\* The header Trailer, WriteHeader, which GzipResponseWriter only notes, and
\* the Flush that forces chunks.
Announce ==
    /\ pc = "announce"
    /\ hdr' = IF x.announced = {} THEN hdr
              ELSE [hdr EXCEPT !["Trailer"] = SetToSeq(x.announced)]
    /\ IF gz /\ x.announced = {} THEN UNCHANGED head ELSE Commit(hdr')
    /\ chunked' = (x.announced # {})
    /\ pc' = "body"
    /\ UNCHANGED <<x, gz, url, res, set, received>>

\* Write of GzipResponseWriter sets Content-Type if it is not there.
DetectType(h) ==
    IF h["Content-Type"] = <<>> THEN [h EXCEPT !["Content-Type"] = <<"detected">>] ELSE h

\* Header.Get("Content-Encoding") == "".
Unencoded(h) == h["Content-Encoding"] # <<>> => Head(h["Content-Encoding"]) = ""

\* Faulty variant: the length of the plain body stays.
StartGzipKeepsLength(h) == [h EXCEPT !["Content-Encoding"] = <<"gzip">>]

StartGzip(h) == [h EXCEPT !["Content-Encoding"] = <<"gzip">>, !["Content-Length"] = <<>>]

\* One write of copyResponse to a GzipResponseWriter: compression starts, and
\* the header is written, once minSize bytes have come.
GzipWrite ==
    /\ pc = "body"
    /\ gz
    /\ \/ /\ Unencoded(hdr)
          /\ hdr' = StartGzip(DetectType(hdr))
          /\ Commit(hdr')
       \/ /\ hdr' = DetectType(hdr)
          /\ UNCHANGED head
    /\ UNCHANGED <<x, pc, gz, url, res, set, chunked, received>>

\* maxLatencyWriter flushes, or net/http does because its buffer is full.
\* Without a length, what is sent before the end is sent in chunks.
FlushBody ==
    /\ pc = "body"
    /\ Commit(hdr)
    /\ chunked' = (chunked \/ head'["Content-Length"] = <<>>)
    /\ UNCHANGED <<x, pc, gz, url, res, hdr, set, received>>

\* Faulty variant: the prefix is never set.
CopyByName(trailers, force) == [plain |-> trailers, prefixed |-> {}]

ShallowCopyTrailers(trailers, force) ==
    IF force THEN [plain |-> {}, prefixed |-> trailers]
             ELSE [plain |-> trailers, prefixed |-> {}]

\* copyResponse has returned; res.Trailer has the names announced and those
\* that came.
CopyTrailers ==
    /\ pc = "body"
    /\ LET trailers == x.announced \cup x.trailers
       IN  set' = ShallowCopyTrailers(trailers, trailers # x.announced)
    /\ pc' = "close"
    /\ UNCHANGED <<x, gz, url, res, hdr, head, chunked, received>>

\* The handlers return.  Close of GzipResponseWriter writes the header if
\* nothing did, and what is left of the body, which may fill net/http's buffer.
Close ==
    /\ pc = "close"
    /\ IF gz
       THEN /\ Commit(hdr)
            /\ \E full \in BOOLEAN :
                  chunked' = (\/ chunked
                              \/ head = NoHead /\ set.prefixed # {}
                              \/ full /\ head'["Content-Length"] = <<>>)
       ELSE UNCHANGED <<head, chunked>>
    /\ pc' = "finish"
    /\ UNCHANGED <<x, gz, url, res, hdr, set, received>>

\* net/http ends the response: in chunks if it began so or found trailers in
\* the headers when it copied them, else with a length.
Finish ==
    /\ pc = "finish"
    /\ LET sent == set.prefixed \cup (set.plain \cap ToSet(head["Trailer"]))
       IN  /\ chunked' = (chunked \/ head["Trailer"] # <<>>)
           /\ received' = IF chunked' THEN sent \cap x.trailers ELSE {}
    /\ pc' = "over"
    /\ UNCHANGED <<x, gz, url, res, hdr, set, head>>
-----------------------------------------------------------------------------
Done == pc = "over" /\ UNCHANGED vars

Next ==
    \/ GzipHandler \/ Director \/ RemoveHopHeaders \/ CopyHeader
    \/ Announce \/ GzipWrite \/ FlushBody \/ CopyTrailers \/ Close \/ Finish \/ Done

Spec == Init /\ [][Next]_vars
-----------------------------------------------------------------------------
\* A coding as the RFC has it: a name and at most a weight between 0 and 1.
WellFormed(c) ==
    /\ c.name # ""
    /\ Len(c.parts) <= 1
    /\ \A i \in DOMAIN c.parts :
          c.parts[i].key = "q" /\ c.parts[i].number /\ c.parts[i].tenths \in 0 .. 10

Refused(c) == \E i \in DOMAIN c.parts : c.parts[i].tenths = 0

\* A response may be compressed only for a client whose last word on gzip, in
\* the codings that are well formed, is not a refusal; and is for every client
\* that lists it without one (gziphandler.go:162-223).
GzipAsAccepted ==
    pc # "gzip" /\ (\A i \in DOMAIN x.accept : WellFormed(x.accept[i])) =>
        (gz <=> \E i \in DOMAIN x.accept :
                    /\ x.accept[i].name = "gzip"
                    /\ ~Refused(x.accept[i])
                    /\ \A j \in i + 1 .. Len(x.accept) : x.accept[j].name # "gzip")

WithoutEndSlash(a) == IF EndsInSlash(a) THEN Front(a) ELSE a

Parameters(query) == [i \in 1 .. (Len(query) + 1) \div 2 |-> query[2 * i - 1]]

\* A socket's path that String gives back as it is.
PlainSocket(target) == target.query = <<>> /\ target.raw = <<>> /\ ~EndsInSlash(target.path)

\* The backend is asked for the target's path followed by the client's, with
\* one slash between them and each slash encoded as the client had it; a
\* socket is asked for the client's path.  Targets that end in an encoded
\* slash are excepted.  The parameters are the target's and the client's, each
\* separated from the next (reverseproxy.go:86-178).
BackendAskedFor ==
    pc \notin {"gzip", "director"} =>
        /\ x.target.unix /\ PlainSocket(x.target) => EscapedPath(url) = EscapedPath(x.url)
        /\ ~x.target.unix /\ (x.target.raw = <<>> \/ Last(x.target.raw) # "%2F") =>
              EscapedPath(url) = WithoutEndSlash(EscapedPath(x.target)) \o EscapedPath(x.url)
        /\ Parameters(url.query) = Parameters(x.target.query) \o Parameters(x.url.query)
        /\ Separated(url.query)

\* No header that is about the backend's connection, by its name or because
\* the first Connection line lists it, is sent to the client; Trailer, Vary and
\* the encoding and the type of the body may be the proxy's own
\* (reverseproxy.go:243-255).
HopHeadersStop ==
    head # NoHead =>
        /\ \A n \in HopHeaders \ {"Trailer"} : head[n] = <<>>
        /\ head["Trailer"] # <<>> => x.announced # {}
        /\ x.header["Connection"] # <<>> =>
              \A n \in ToSet(Listed[Head(x.header["Connection"])])
                          \ {"Trailer", "Vary", "Content-Encoding", "Content-Type"} :
                  head[n] = x.before[n]

\* A header of the backend's that no Connection line lists.
EndToEnd(n) == \A i \in DOMAIN x.header["Connection"] :
                  n \notin ToSet(Listed[x.header["Connection"][i]])

\* Every other header of the backend's is sent with all its values in order and
\* once, unless it is one that a handler before the proxy has set and that is
\* kept then; Server is added to.  The encoding and the length of the body are
\* both the backend's, or, if that did not encode it and the client accepts
\* gzip, the encoding is gzip and the length of the plain body is gone
\* (reverseproxy.go:386-414, gziphandler.go:55-72).
EndToEndHeadersKept ==
    head # NoHead =>
        /\ \A n \in Names \ (HopHeaders \cup BodyHeaders) :
              x.header[n] # <<>> /\ EndToEnd(n)
              => head[n] = IF n \in SkipHeaders /\ x.before[n] # <<>> THEN x.before[n]
                           ELSE IF n = "Server" THEN x.before[n] \o x.header[n]
                           ELSE x.header[n]
        /\ (\A n \in BodyHeaders : EndToEnd(n)) =>
              \/ \A n \in BodyHeaders : head[n] = x.header[n]
              \/ /\ gz /\ Unencoded(x.header)
                 /\ head["Content-Encoding"] = <<"gzip">>
                 /\ head["Content-Length"] = <<>>

\* The client gets the trailers that the backend sent, the announced ones
\* always, the others too unless the headers were copied before they came and
\* the response ended as one with a length (reverseproxy.go:332-362).
TrailersArrive ==
    pc = "over" =>
        /\ received \subseteq x.trailers
        /\ x.announced \cap x.trailers \subseteq received
        /\ chunked => received = x.trailers
        /\ x.announced # {} => chunked
=============================================================================
