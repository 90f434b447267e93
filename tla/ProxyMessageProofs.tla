------------------------- MODULE ProxyMessageProofs -------------------------
(***************************************************************************)
(* What becomes of the headers and trailers of a response, of the client's *)
(* wish for compression and of the URL, for any exchange.                  *)
(***************************************************************************)
EXTENDS ProxyMessage, SequenceLemmas, FiniteSetTheorems

-----------------------------------------------------------------------------
(* The header map, step by step, as a function of the exchange.            *)

\* After NewGzipHandler; and what the backend sent, without hop headers.
Varied == [x.before EXCEPT !["Vary"] = Append(@, "Accept-Encoding")]

ListedFirst == IF x.header["Connection"] = <<>> THEN {}
               ELSE ToSet(Listed[Head(x.header["Connection"])])

Stripped == [n \in Names |-> IF n \in HopHeaders \cup ListedFirst THEN <<>> ELSE x.header[n]]

Joined == Copied(Varied, Stripped)

\* The headers that are sent.
Sent == IF x.announced = {} THEN Joined
        ELSE [Joined EXCEPT !["Trailer"] = SetToSeq(x.announced)]

\* What the body's being written to a GzipResponseWriter makes of them.
Typed == DetectType(Sent)

Zipped == StartGzip(Typed)

Written == {Sent} \cup (IF gz THEN {Typed} ELSE {})
                  \cup (IF gz /\ Unencoded(Sent) THEN {Zipped} ELSE {})

\* HopHeadersStop and EndToEndHeadersKept speak of the copy that net/http
\* takes, at any flush or write of the body; this says what the map is at
\* every point before and that the copy is one of the maps there are while
\* the body is written.
HeaderInv ==
    /\ x \in Exchanges
    /\ pc \in {"gzip", "director", "hop"} => res = x.header
    /\ pc = "header" => res = Stripped
    /\ pc = "gzip" => hdr = x.before
    /\ pc \in {"director", "hop", "header"} => hdr = Varied
    /\ pc = "announce" => hdr = Joined
    /\ pc \in {"body", "close", "finish", "over"} => hdr \in Written
    /\ pc \notin {"body", "close", "finish", "over"} => head = NoHead
    /\ head \in {NoHead} \cup Written
    /\ pc \in {"body", "close"} => gz \/ head \in Written
    /\ pc \in {"finish", "over"} => head \in Written

LEMMA HeaderInit == Init => HeaderInv
  BY DEF Init, HeaderInv

\* A GzipResponseWriter's Write makes one such map of another.
LEMMA WriteAgain ==
    ASSUME x \in Exchanges, gz, NEW h \in Written
    PROVE  /\ DetectType(h) \in Written
           /\ Unencoded(h) => StartGzip(DetectType(h)) \in Written
<1>1. /\ "Content-Type" \in Names /\ "Content-Encoding" \in Names /\ "Content-Length" \in Names
  BY NamesAssumption DEF SkipHeaders, BodyHeaders
<1>2. DOMAIN Sent = Names
  BY DEF Sent, Joined, Copied
<1>3. /\ DOMAIN Typed = Names /\ Typed["Content-Type"] # <<>>
      /\ Typed["Content-Encoding"] = Sent["Content-Encoding"]
  BY <1>1, <1>2 DEF Typed, DetectType
<1>4. DetectType(Typed) = Typed
  BY <1>3 DEF DetectType
<1>5. Zipped["Content-Type"] # <<>> /\ Zipped["Content-Encoding"] = <<"gzip">>
  BY <1>1, <1>3 DEF Zipped, StartGzip
<1>6. DetectType(Zipped) = Zipped
  BY <1>5 DEF DetectType
<1>7. ~Unencoded(Zipped)
  <2>1. <<"gzip">> # <<>> /\ Head(<<"gzip">>) = "gzip"
    OBVIOUS
  <2> QED BY <1>5, <2>1 DEF Unencoded
<1>8. Unencoded(Typed) <=> Unencoded(Sent)
  BY <1>3 DEF Unencoded
<1>9. CASE h = Sent
  BY <1>9 DEF Written, Typed, Zipped
<1>10. CASE h = Typed
  BY <1>4, <1>8, <1>10 DEF Written, Zipped
<1>11. CASE h = Zipped
  BY <1>6, <1>7, <1>11
<1> QED BY <1>9, <1>10, <1>11 DEF Written

LEMMA HeaderStep == HeaderInv /\ [Next]_vars => HeaderInv'
<1> SUFFICES ASSUME HeaderInv, [Next]_vars PROVE HeaderInv'
  OBVIOUS
<1>0. x' = x
  BY DEF Next, GzipHandler, Director, RemoveHopHeaders, CopyHeader, Announce, GzipWrite,
         FlushBody, CopyTrailers, Close, Finish, Done, vars
<1>1. Varied' = Varied /\ Stripped' = Stripped /\ Joined' = Joined /\ Sent' = Sent
  BY <1>0 DEF Varied, Stripped, ListedFirst, Joined, Copied, Sent
<1>2. gz' = gz => Written' = Written
  BY <1>1 DEF Written, Typed, Zipped
<1>3. CASE GzipHandler
  <2>1. pc' = "director" /\ hdr' = Varied' /\ res' = x.header /\ head' = NoHead
    BY <1>0, <1>1, <1>3 DEF GzipHandler, HeaderInv, Varied
  <2> QED BY <1>0, <2>1 DEF HeaderInv
<1>4. CASE Director
  BY <1>0, <1>1, <1>2, <1>4 DEF Director, HeaderInv
<1>5. CASE RemoveHopHeaders
  <2>1. res = x.header
    BY <1>5 DEF RemoveHopHeaders, HeaderInv
  <2>2. res' = Stripped
    BY <1>5, <2>1 DEF RemoveHopHeaders, ConnectionNames, Stripped, ListedFirst
  <2> QED BY <1>0, <1>1, <1>2, <1>5, <2>2 DEF RemoveHopHeaders, HeaderInv
<1>6. CASE CopyHeader
  BY <1>0, <1>1, <1>2, <1>6 DEF CopyHeader, HeaderInv, Joined
<1>7. CASE Announce
  <2>1. hdr' = Sent
    BY <1>7 DEF Announce, HeaderInv, Sent
  <2>2. Sent \in Written
    BY DEF Written
  <2>3. head' \in {NoHead} \cup Written /\ (gz \/ head' \in Written)
    BY <1>7, <2>1, <2>2 DEF Announce, Commit, HeaderInv
  <2> QED BY <1>0, <1>2, <1>7, <2>1, <2>2, <2>3 DEF Announce, HeaderInv
<1>8. CASE GzipWrite
  <2>1. /\ x \in Exchanges /\ gz /\ hdr \in Written /\ head \in {NoHead} \cup Written
        /\ pc = "body" /\ pc' = pc /\ gz' = gz
    BY <1>8 DEF GzipWrite, HeaderInv
  <2>2. hdr' \in Written
    BY <1>8, <2>1, WriteAgain DEF GzipWrite
  <2>3. head' \in {NoHead} \cup Written
    BY <1>8, <2>1, <2>2 DEF GzipWrite, Commit
  <2> QED BY <1>0, <1>2, <2>1, <2>2, <2>3 DEF HeaderInv
<1>9. CASE FlushBody
  <2>1. /\ hdr \in Written /\ head \in {NoHead} \cup Written
        /\ pc = "body" /\ pc' = pc /\ gz' = gz /\ hdr' = hdr
    BY <1>9 DEF FlushBody, HeaderInv
  <2>2. head' \in Written
    BY <1>9, <2>1 DEF FlushBody, Commit
  <2> QED BY <1>0, <1>2, <2>1, <2>2 DEF HeaderInv
<1>10. CASE CopyTrailers
  BY <1>0, <1>1, <1>2, <1>10 DEF CopyTrailers, HeaderInv
<1>11. CASE Close
  <2>1. /\ hdr \in Written /\ head \in {NoHead} \cup Written /\ (gz \/ head \in Written)
        /\ pc' = "finish" /\ gz' = gz /\ hdr' = hdr
    BY <1>11 DEF Close, HeaderInv
  <2>2. head' \in Written
    BY <1>11, <2>1 DEF Close, Commit
  <2> QED BY <1>0, <1>2, <2>1, <2>2 DEF HeaderInv
<1>12. CASE Finish
  BY <1>0, <1>1, <1>2, <1>12 DEF Finish, HeaderInv
<1>13. CASE UNCHANGED vars
  BY <1>0, <1>1, <1>2, <1>13 DEF vars, HeaderInv
<1> QED BY <1>3, <1>4, <1>5, <1>6, <1>7, <1>8, <1>9, <1>10, <1>11, <1>12, <1>13 DEF Next, Done
-----------------------------------------------------------------------------
(* The headers that are sent.                                              *)

LEMMA Types ==
    ASSUME x \in Exchanges
    PROVE  /\ x.header \in [Names -> Seq(STRING)]
           /\ x.before \in [Names -> Seq(STRING)]
           /\ x.header["Connection"] \in Seq(DOMAIN Listed)
           /\ HopHeaders \cup SkipHeaders \cup BodyHeaders \cup {"Vary", "Server"}
                 \subseteq Names
           /\ ListedFirst \subseteq Names
<1>1. /\ x.header \in [Names -> Seq(STRING)]
      /\ x.before \in [Names -> Seq(STRING)]
      /\ x.header["Connection"] \in Seq(DOMAIN Listed)
  BY MessagesAssumption
<1>2. ListedFirst \subseteq Names
  <2>1. CASE x.header["Connection"] = <<>>
    BY <2>1 DEF ListedFirst
  <2>2. CASE x.header["Connection"] # <<>>
    <3>1. Head(x.header["Connection"]) \in DOMAIN Listed
      BY <1>1, <2>2, HeadTailProperties
    <3> QED BY <2>2, <3>1, MessagesAssumption DEF ListedFirst
  <2> QED BY <2>1, <2>2
<1> QED BY <1>1, <1>2, NamesAssumption

\* A header that is taken out of the backend's stays as it was before.
LEMMA SentStripped ==
    ASSUME x \in Exchanges, NEW n \in Names, n \in HopHeaders \cup ListedFirst,
           n \notin {"Trailer", "Vary"}
    PROVE  Sent[n] = x.before[n]
<1>1. Stripped[n] = <<>> /\ Varied[n] = x.before[n]
  BY Types DEF Stripped, Varied
<1>2. Joined[n] = x.before[n] /\ DOMAIN Joined = Names
  BY <1>1 DEF Joined, Copied
<1> QED BY <1>2 DEF Sent

\* Trailer is as announced.
LEMMA SentTrailer ==
    ASSUME x \in Exchanges
    PROVE  Sent["Trailer"] = IF x.announced = {} THEN <<>> ELSE SetToSeq(x.announced)
<1>1. "Trailer" \in HopHeaders /\ "Trailer" \in Names /\ x.before["Trailer"] = <<>>
  BY Types, MessagesAssumption DEF HopHeaders
<1>2. Stripped["Trailer"] = <<>> /\ Varied["Trailer"] = <<>>
  BY <1>1, Types DEF Stripped, Varied
<1>3. Joined["Trailer"] = <<>> /\ DOMAIN Joined = Names
  BY <1>1, <1>2 DEF Joined, Copied
<1> QED BY <1>1, <1>3 DEF Sent

\* The copy that is sent, header by header.
LEMMA WrittenHeaders ==
    ASSUME x \in Exchanges, NEW h \in Written
    PROVE  /\ \A n \in Names \ (BodyHeaders \cup {"Content-Type"}) : h[n] = Sent[n]
           /\ Sent["Content-Type"] # <<>> => h["Content-Type"] = Sent["Content-Type"]
           /\ h["Content-Length"] \in {Sent["Content-Length"], <<>>}
           /\ \/ \A n \in BodyHeaders : h[n] = Sent[n]
              \/ /\ gz /\ Unencoded(Sent)
                 /\ h["Content-Encoding"] = <<"gzip">> /\ h["Content-Length"] = <<>>
<1>1. /\ "Content-Type" \in Names /\ "Content-Encoding" \in Names /\ "Content-Length" \in Names
  BY NamesAssumption DEF SkipHeaders, BodyHeaders
<1>2. DOMAIN Sent = Names
  BY DEF Sent, Joined, Copied
<1>3. /\ DOMAIN Typed = Names
      /\ \A n \in Names \ {"Content-Type"} : Typed[n] = Sent[n]
      /\ Sent["Content-Type"] # <<>> => Typed["Content-Type"] = Sent["Content-Type"]
  BY <1>1, <1>2 DEF Typed, DetectType
<1>4. /\ \A n \in Names \ BodyHeaders : Zipped[n] = Typed[n]
      /\ Zipped["Content-Encoding"] = <<"gzip">> /\ Zipped["Content-Length"] = <<>>
  BY <1>1, <1>3 DEF Zipped, StartGzip, BodyHeaders
<1>5. "Content-Type" \notin BodyHeaders /\ BodyHeaders = {"Content-Encoding", "Content-Length"}
  BY DEF BodyHeaders
<1>6. CASE h = Sent
  BY <1>6, <1>5
<1>7. CASE gz /\ h = Typed
  BY <1>1, <1>3, <1>5, <1>7
<1>8. CASE gz /\ Unencoded(Sent) /\ h = Zipped
  BY <1>1, <1>3, <1>4, <1>5, <1>8
<1> QED BY <1>6, <1>7, <1>8 DEF Written

\* No hop header of the backend's reaches the client, whatever Connection lists
\* in its first line (reverseproxy.go:243-255), wherever the copy is taken.
THEOREM HopHeadersRemoved == Spec => []HopHeadersStop
<1>1. HeaderInv => HopHeadersStop
  <2> SUFFICES ASSUME HeaderInv, head # NoHead PROVE HopHeadersStop
    BY DEF HopHeadersStop
  <2>1. x \in Exchanges /\ head \in Written
    BY DEF HeaderInv
  <2>2. \A n \in Names \ (BodyHeaders \cup {"Content-Type"}) : head[n] = Sent[n]
    BY <2>1, WrittenHeaders
  <2>3. ASSUME NEW n \in HopHeaders \ {"Trailer"} PROVE head[n] = <<>>
    <3>1. n \in Names /\ n # "Vary" /\ x.before[n] = <<>>
      BY <2>1, Types, MessagesAssumption DEF HopHeaders
    <3>2. n \notin BodyHeaders \cup {"Content-Type"}
      BY DEF HopHeaders, BodyHeaders
    <3> QED BY <2>1, <2>2, <3>1, <3>2, SentStripped
  <2>4. head["Trailer"] # <<>> => x.announced # {}
    <3>1. "Trailer" \in Names \ (BodyHeaders \cup {"Content-Type"})
      BY <2>1, Types DEF HopHeaders, BodyHeaders
    <3> QED BY <2>1, <2>2, <3>1, SentTrailer
  <2>5. ASSUME x.header["Connection"] # <<>>,
               NEW n \in ToSet(Listed[Head(x.header["Connection"])])
                           \ {"Trailer", "Vary", "Content-Encoding", "Content-Type"}
        PROVE  head[n] = x.before[n]
    <3>1. n \in ListedFirst /\ n \in Names
      BY <2>1, <2>5, Types DEF ListedFirst
    <3>2. Sent[n] = x.before[n]
      BY <2>1, <3>1, SentStripped
    <3>3. CASE n = "Content-Length"
      <4>1. x.before[n] = <<>>
        BY <2>1, <3>3, MessagesAssumption DEF BodyHeaders
      <4> QED BY <2>1, <3>2, <3>3, <4>1, WrittenHeaders
    <3>4. CASE n # "Content-Length"
      BY <2>2, <3>1, <3>2, <3>4 DEF BodyHeaders
    <3> QED BY <3>3, <3>4
  <2> QED BY <2>3, <2>4, <2>5 DEF HopHeadersStop
<1> QED BY <1>1, HeaderInit, HeaderStep, PTL DEF Spec

\* A header that no Connection line lists is copied as it was.
LEMMA SentEndToEnd ==
    ASSUME x \in Exchanges, NEW n \in Names \ HopHeaders, EndToEnd(n), x.header[n] # <<>>
    PROVE  Sent[n] = IF n \in SkipHeaders /\ x.before[n] # <<>> THEN x.before[n]
                     ELSE IF n = "Server" THEN x.before[n] \o x.header[n]
                     ELSE x.header[n]
<1>1. n \notin ListedFirst
  <2>1. SUFFICES ASSUME x.header["Connection"] # <<>>
                 PROVE  n \notin ToSet(Listed[Head(x.header["Connection"])])
    BY DEF ListedFirst
  <2>2. /\ Head(x.header["Connection"]) = x.header["Connection"][1]
        /\ 1 \in DOMAIN x.header["Connection"]
    BY <2>1, Types
  <2> QED BY <2>2 DEF EndToEnd
<1>2. Stripped[n] = x.header[n]
  BY <1>1 DEF Stripped
<1>3. n # "Vary" => Varied[n] = x.before[n]
  BY Types DEF Varied
<1>4. "Vary" \notin SkipHeaders /\ "Trailer" \in HopHeaders
  BY DEF SkipHeaders, HopHeaders
<1>5. Joined[n] = IF n \in SkipHeaders /\ x.before[n] # <<>> THEN x.before[n]
                  ELSE IF n = "Server" THEN x.before[n] \o x.header[n]
                  ELSE x.header[n]
  BY <1>2, <1>3, <1>4 DEF Joined, Copied
<1>6. Sent[n] = Joined[n]
  BY <1>4 DEF Sent, Joined, Copied
<1> QED BY <1>5, <1>6

\* The same of the encoding and the length, sent or not, which no handler
\* before the proxy sets.
LEMMA SentBodyHeader ==
    ASSUME x \in Exchanges, NEW n \in BodyHeaders, EndToEnd(n)
    PROVE  Sent[n] = x.header[n]
<1>1. /\ n \in Names \ HopHeaders /\ n \notin SkipHeaders /\ n # "Server" /\ n # "Vary"
      /\ "Trailer" \in HopHeaders
  BY Types DEF HopHeaders, SkipHeaders, BodyHeaders
<1>2. CASE x.header[n] # <<>>
  BY <1>1, <1>2, SentEndToEnd
<1>3. CASE x.header[n] = <<>>
  <2>1. x.before[n] = <<>>
    BY MessagesAssumption
  <2>2. Stripped[n] = <<>> /\ Varied[n] = <<>>
    BY <1>1, <1>3, <2>1, Types DEF Stripped, Varied
  <2>3. Joined[n] = <<>>
    BY <1>1, <2>2 DEF Joined, Copied
  <2> QED BY <1>1, <1>3, <2>3 DEF Sent, Joined, Copied
<1> QED BY <1>2, <1>3

\* Every other header reaches the client with the backend's values, unless it is
\* one of those kept from before, and the encoding and the length of the body
\* change together or not at all (reverseproxy.go:386-414,
\* gziphandler.go:55-72), whatever the exchange and wherever the copy is taken.
THEOREM EndToEndCopied == Spec => []EndToEndHeadersKept
<1>1. HeaderInv => EndToEndHeadersKept
  <2> SUFFICES ASSUME HeaderInv, head # NoHead PROVE EndToEndHeadersKept
    BY DEF EndToEndHeadersKept
  <2>1. x \in Exchanges /\ head \in Written
    BY DEF HeaderInv
  <2>2. ASSUME NEW n \in Names \ (HopHeaders \cup BodyHeaders),
               x.header[n] # <<>>, EndToEnd(n)
        PROVE  head[n] = IF n \in SkipHeaders /\ x.before[n] # <<>> THEN x.before[n]
                         ELSE IF n = "Server" THEN x.before[n] \o x.header[n]
                         ELSE x.header[n]
    <3>1. Sent[n] = IF n \in SkipHeaders /\ x.before[n] # <<>> THEN x.before[n]
                    ELSE IF n = "Server" THEN x.before[n] \o x.header[n]
                    ELSE x.header[n]
      BY <2>1, <2>2, SentEndToEnd
    <3>2. CASE n = "Content-Type"
      <4>1. n # "Server"
        BY <3>2
      <4>2. Sent[n] # <<>>
        BY <2>2, <3>1, <4>1
      <4> QED BY <2>1, <3>1, <3>2, <4>2, WrittenHeaders
    <3>3. CASE n # "Content-Type"
      <4>1. head[n] = Sent[n]
        BY <2>1, <3>3, WrittenHeaders
      <4> QED BY <3>1, <4>1
    <3> QED BY <3>2, <3>3
  <2>3. ASSUME \A n \in BodyHeaders : EndToEnd(n)
        PROVE  \/ \A n \in BodyHeaders : head[n] = x.header[n]
               \/ /\ gz /\ Unencoded(x.header)
                  /\ head["Content-Encoding"] = <<"gzip">>
                  /\ head["Content-Length"] = <<>>
    <3>1. \A n \in BodyHeaders : Sent[n] = x.header[n]
      BY <2>1, <2>3, SentBodyHeader
    <3>2. Unencoded(Sent) <=> Unencoded(x.header)
      BY <3>1 DEF Unencoded, BodyHeaders
    <3> QED BY <2>1, <3>1, <3>2, WrittenHeaders
  <2> QED BY <2>2, <2>3 DEF EndToEndHeadersKept
<1> QED BY <1>1, HeaderInit, HeaderStep, PTL DEF Spec
-----------------------------------------------------------------------------
(* The trailers.                                                           *)

\* SetToSeq lists every element of a finite set, and nothing else.
LEMMA ListsAll ==
    ASSUME NEW S, IsFiniteSet(S)
    PROVE  /\ ToSet(SetToSeq(S)) = S
           /\ S # {} => SetToSeq(S) # <<>>
<1> DEFINE n == Cardinality(S)
           f == SetToSeq(S)
<1>1. n \in Nat /\ ExistsBijection(1 .. n, S)
  BY FS_CardinalityType, Zenon
<1>2. \E g \in [1 .. n -> S] : IsInjective(g)
  BY <1>1 DEF ExistsBijection, Bijection, Injection, IsInjective
<1>3. f \in [1 .. n -> S] /\ IsInjective(f)
  BY <1>2 DEF SetToSeq
<1>4. f \in Injection(1 .. n, S)
  BY <1>3 DEF Injection, IsInjective
<1>5. IsFiniteSet(1 .. n) /\ Cardinality(1 .. n) = n
  BY <1>1, FS_Interval
<1>6. f \in Surjection(1 .. n, S)
  BY <1>4, <1>5, FS_Injection, Zenon
<1> HIDE DEF f
<1>7. ToSet(f) = S
  BY <1>3, <1>6 DEF Surjection, ToSet
<1>8. ToSet(<<>>) = {}
  BY DEF ToSet
<1> QED BY <1>7, <1>8 DEF f

\* TrailersArrive speaks of the end; this says what Finish finds: the response
\* is in chunks if trailers were announced, and the trailers are set by name
\* only if all were.
TrailerInv ==
    /\ x.announced # {} /\ pc \in {"body", "close", "finish"} => chunked
    /\ pc \in {"close", "finish"} =>
          set = ShallowCopyTrailers(x.announced \cup x.trailers,
                                    x.announced \cup x.trailers # x.announced)
    /\ TrailersArrive

LEMMA TrailerStep == HeaderInv /\ TrailerInv /\ [Next]_vars => TrailerInv'
<1> SUFFICES ASSUME HeaderInv, TrailerInv, [Next]_vars PROVE TrailerInv'
  OBVIOUS
<1>1. CASE GzipHandler \/ Director \/ RemoveHopHeaders \/ CopyHeader
  BY <1>1 DEF GzipHandler, Director, RemoveHopHeaders, CopyHeader, TrailerInv, TrailersArrive
<1>2. CASE Announce
  BY <1>2 DEF Announce, TrailerInv, TrailersArrive
<1>3. CASE GzipWrite \/ FlushBody \/ Close
  BY <1>3 DEF GzipWrite, FlushBody, Close, TrailerInv, TrailersArrive
<1>4. CASE CopyTrailers
  BY <1>4 DEF CopyTrailers, TrailerInv, TrailersArrive
<1>5. CASE Finish
  <2>1. x \in Exchanges /\ x' = x /\ pc' = "over"
    BY <1>5 DEF Finish, HeaderInv
  <2>2. head' = head /\ head["Trailer"] = Sent["Trailer"]
    <3>1. "Trailer" \in Names \ (BodyHeaders \cup {"Content-Type"})
      BY <2>1, Types DEF HopHeaders, BodyHeaders
    <3>2. head' = head /\ head \in Written
      BY <1>5 DEF Finish, HeaderInv
    <3> QED BY <2>1, <3>1, <3>2, WrittenHeaders
  <2>3. IsFiniteSet(x.announced)
    BY <2>1, MessagesAssumption, FS_Subset
  <2>4. x.announced # {} => /\ head'["Trailer"] # <<>>
                           /\ ToSet(head'["Trailer"]) = x.announced
    BY <2>1, <2>2, <2>3, SentTrailer, ListsAll
  <2> DEFINE all == x.announced \cup x.trailers
             named == ToSet(head'["Trailer"])
  <2>5. set = ShallowCopyTrailers(all, all # x.announced)
    BY <1>5 DEF Finish, TrailerInv
  <2>6. received' = IF chunked' THEN (set.prefixed \cup (set.plain \cap named)) \cap x.trailers
                    ELSE {}
    BY <1>5 DEF Finish
  <2>7. x.announced # {} => chunked'
    BY <1>5, <2>4 DEF Finish
  <2> HIDE DEF named
  <2>8. CASE all # x.announced
    <3>1. set.prefixed = all
      BY <2>5, <2>8 DEF ShallowCopyTrailers
    <3>2. received' = IF chunked' THEN x.trailers ELSE {}
      BY <2>6, <3>1
    <3> QED BY <2>1, <2>7, <3>2 DEF TrailerInv, TrailersArrive
  <2>9. CASE all = x.announced
    <3>1. set.plain = x.announced /\ set.prefixed = {}
      BY <2>5, <2>9 DEF ShallowCopyTrailers
    <3>2. set.plain \cap named = x.announced
      BY <2>4, <3>1 DEF named
    <3>3. received' = IF chunked' THEN x.trailers ELSE {}
      BY <2>6, <2>9, <3>1, <3>2
    <3> QED BY <2>1, <2>7, <3>3 DEF TrailerInv, TrailersArrive
  <2> QED BY <2>8, <2>9
<1>6. CASE UNCHANGED vars
  BY <1>6 DEF vars, TrailerInv, TrailersArrive
<1> QED BY <1>1, <1>2, <1>3, <1>4, <1>5, <1>6 DEF Next, Done

\* The client gets the announced trailers always, and all of them when the
\* response ends in chunks (reverseproxy.go:332-362), whatever was announced
\* and whatever came.
THEOREM TrailersDelivered == Spec => []TrailersArrive
<1>1. Init => TrailerInv
  BY DEF Init, TrailerInv, TrailersArrive
<1>2. TrailerInv => TrailersArrive
  BY DEF TrailerInv
<1> QED BY <1>1, <1>2, HeaderInit, HeaderStep, TrailerStep, PTL DEF Spec
-----------------------------------------------------------------------------
(* Accept-Encoding.                                                        *)

\* Max returns the last of a set of positions.
LEMMA LastPosition ==
    ASSUME NEW n \in Nat, NEW I, I \subseteq 1 .. n, I # {}
    PROVE  Max(I) \in I /\ \A j \in I : Max(I) >= j
<1>1. \E i \in I : \A j \in I : i >= j
  BY GreatestPosition
<1> QED BY <1>1 DEF Max

\* A well-formed coding is parsed without an error, and refused by weight 0 only.
LEMMA WellParsed ==
    ASSUME NEW c \in Coding, WellFormed(c)
    PROVE  ~CodingErr(c) /\ (Qvalue(c) > 0 <=> ~Refused(c))
<1>1. c.parts \in Seq(Part)
  BY DEF Coding
<1>2. Len(c.parts) \in Nat /\ DOMAIN c.parts = 1 .. Len(c.parts)
  BY <1>1, LenProperties
<1>3. c.name # "" /\ Len(c.parts) <= 1
  BY DEF WellFormed
<1>4. CASE Len(c.parts) = 0
  <2>1. c.parts = <<>> /\ DOMAIN c.parts = {}
    BY <1>1, <1>2, <1>4
  <2>2. Weights(c) = {} /\ ~Refused(c)
    BY <2>1 DEF Weights, Refused
  <2>3. Qvalue(c) = 10
    BY <2>1 DEF Qvalue
  <2>4. ~CodingErr(c)
    BY <1>3, <2>2 DEF CodingErr
  <2> QED BY <2>2, <2>3, <2>4
<1>5. CASE Len(c.parts) = 1
  <2>1. DOMAIN c.parts = {1} /\ c.parts # <<>> /\ Last(c.parts) = c.parts[1]
    BY <1>2, <1>5 DEF Last
  <2>2. c.parts[1].key = "q" /\ c.parts[1].number /\ c.parts[1].tenths \in 0 .. 10
    BY <2>1 DEF WellFormed
  <2>3. Weights(c) = {1}
    BY <2>1, <2>2 DEF Weights
  <2>4. Max(Weights(c)) = 1
    BY <2>3, LastPosition
  <2>5. ~CodingErr(c)
    BY <2>2, <2>4 DEF CodingErr, WellFormed
  <2>6. Qvalue(c) = c.parts[1].tenths
    BY <2>1, <2>2 DEF Qvalue, Clamp
  <2>7. Refused(c) <=> c.parts[1].tenths = 0
    BY <2>1 DEF Refused
  <2> QED BY <2>2, <2>5, <2>6, <2>7
<1>6. \A n \in Nat : n <= 1 => n = 0 \/ n = 1
  OBVIOUS
<1>7. Len(c.parts) = 0 \/ Len(c.parts) = 1
  BY <1>2, <1>3, <1>6, Zenon
<1> QED BY <1>4, <1>5, <1>7

\* The answer that parseEncodings and NewGzipHandler come to.
LEMMA GzipNegotiated ==
    ASSUME NEW codings \in Seq(Coding), \A i \in DOMAIN codings : WellFormed(codings[i])
    PROVE  AcceptsGzip(codings) <=>
              \E i \in DOMAIN codings :
                 /\ codings[i].name = "gzip"
                 /\ ~Refused(codings[i])
                 /\ \A j \in i + 1 .. Len(codings) : codings[j].name # "gzip"
<1> DEFINE parsed == {i \in DOMAIN codings : codings[i].name = "gzip" /\ ~CodingErr(codings[i])}
           named == {i \in DOMAIN codings : codings[i].name = "gzip"}
           last == Max(named)
<1>1. Len(codings) \in Nat /\ DOMAIN codings = 1 .. Len(codings)
  OBVIOUS
<1>2. \A i \in DOMAIN codings : codings[i] \in Coding
  OBVIOUS
<1>3. ASSUME NEW i \in DOMAIN codings
      PROVE  ~CodingErr(codings[i]) /\ (Qvalue(codings[i]) > 0 <=> ~Refused(codings[i]))
  BY <1>2, WellParsed
<1>4. parsed = named
  <2>1. ASSUME NEW i \in DOMAIN codings PROVE ~CodingErr(codings[i])
    BY <1>3
  <2>2. \A i : i \in parsed <=> i \in named
    BY <2>1, Zenon
  <2> HIDE DEF parsed, named
  <2> QED BY <2>2
<1>5. GzipValue(codings) = IF named = {} THEN 0 ELSE Qvalue(codings[last])
  BY <1>4 DEF GzipValue
<1>6. CASE named = {}
  BY <1>5, <1>6 DEF AcceptsGzip
<1>7. CASE named # {}
  <2>1. last \in named /\ \A j \in named : last >= j
    <3>1. named \subseteq 1 .. Len(codings)
      OBVIOUS
    <3> HIDE DEF named
    <3> QED BY <1>1, <1>7, <3>1, LastPosition
  <2> HIDE DEF last
  <2>2. last \in DOMAIN codings
    BY <2>1
  <2>3. AcceptsGzip(codings) <=> ~Refused(codings[last])
    BY <1>3, <1>5, <1>7, <2>2 DEF AcceptsGzip
  <2>4. \A j \in last + 1 .. Len(codings) : codings[j].name # "gzip"
    BY <1>1, <2>1
  <2>5. ASSUME NEW i \in DOMAIN codings, codings[i].name = "gzip",
               \A j \in i + 1 .. Len(codings) : codings[j].name # "gzip"
        PROVE  i = last
    BY <1>1, <2>1, <2>5
  <2> QED BY <2>1, <2>3, <2>4, <2>5
<1> QED BY <1>6, <1>7

\* gz says no more than what AcceptsGzip found when the handler ran.
GzipInv ==
    /\ x \in Exchanges
    /\ pc # "gzip" => gz = AcceptsGzip(x.accept)

\* A response is compressed exactly for the clients whose last word on gzip is
\* not a refusal (gziphandler.go:162-223), for any number of codings.
THEOREM GzipOnlyIfAccepted == Spec => []GzipAsAccepted
<1>1. Init => GzipInv
  BY DEF Init, GzipInv
<1>2. GzipInv /\ [Next]_vars => GzipInv'
  BY DEF Next, GzipHandler, Director, RemoveHopHeaders, CopyHeader, Announce, GzipWrite,
         FlushBody, CopyTrailers, Close, Finish, Done, vars, GzipInv
<1>3. GzipInv => GzipAsAccepted
  <2> SUFFICES ASSUME GzipInv, pc # "gzip", \A i \in DOMAIN x.accept : WellFormed(x.accept[i])
               PROVE  gz <=> \E i \in DOMAIN x.accept :
                                /\ x.accept[i].name = "gzip"
                                /\ ~Refused(x.accept[i])
                                /\ \A j \in i + 1 .. Len(x.accept) : x.accept[j].name # "gzip"
    BY DEF GzipAsAccepted
  <2>1. x.accept \in Seq(Coding) /\ gz = AcceptsGzip(x.accept)
    BY MessagesAssumption DEF GzipInv
  <2> QED BY <2>1, GzipNegotiated
<1> QED BY <1>1, <1>2, <1>3, PTL DEF Spec
-----------------------------------------------------------------------------
(* The URL.                                                                *)

\* What URLs are made of; a string that the code writes is a string like others.
Tokens == STRING \cup {"/", "&"}

\* Decoding goes element by element.
Decoded(e) == IF e = "%2F" THEN "/" ELSE e

LEMMA DecodeType ==
    ASSUME NEW a \in Seq(Tokens)
    PROVE  /\ Decode(a) \in Seq(Tokens) /\ Len(Decode(a)) = Len(a)
           /\ \A i \in 1 .. Len(a) : Decode(a)[i] = Decoded(a[i])
<1>1. PICK n \in Nat : n = Len(a) /\ DOMAIN a = 1 .. n /\ a \in [1 .. n -> Tokens]
  BY LenProperties
<1>2. Decode(a) = [i \in 1 .. n |-> Decoded(a[i])]
  BY <1>1 DEF Decode, Decoded
<1>3. Decode(a) \in [1 .. n -> Tokens]
  <2>1. "/" \in Tokens
    BY DEF Tokens
  <2>2. \A i \in 1 .. n : Decoded(a[i]) \in Tokens
    BY <1>1, <2>1, Zenon DEF Decoded
  <2> QED BY <1>2, <2>2, Zenon
<1>4. Decode(a) \in Seq(Tokens) /\ Len(Decode(a)) = n
  BY <1>3
<1> QED BY <1>1, <1>2, <1>4

LEMMA DecodeConcat ==
    ASSUME NEW a \in Seq(Tokens), NEW b \in Seq(Tokens)
    PROVE  Decode(a \o b) = Decode(a) \o Decode(b)
<1>1. PICK m, n : m = Len(a) /\ n = Len(b)
  OBVIOUS
<1>2. PICK c : c = a \o b
  OBVIOUS
<1>3. /\ m \in Nat /\ n \in Nat
      /\ c \in Seq(Tokens) /\ Len(c) = m + n
      /\ \A i \in 1 .. m : c[i] = a[i]
      /\ \A i \in 1 .. n : c[m + i] = b[i]
  BY <1>1, <1>2, TwoPieces
<1>4. PICK s \in Seq(Tokens) : /\ s = Decode(a) /\ Len(s) = m
                               /\ \A i \in 1 .. m : s[i] = Decoded(a[i])
  BY <1>1, DecodeType
<1>5. PICK t \in Seq(Tokens) : /\ t = Decode(b) /\ Len(t) = n
                               /\ \A i \in 1 .. n : t[i] = Decoded(b[i])
  BY <1>1, DecodeType
<1>6. PICK u \in Seq(Tokens) :
         /\ u = Decode(c) /\ Len(u) = m + n
         /\ \A i \in 1 .. m + n : u[i] = Decoded(c[i])
  BY <1>3, DecodeType, Zenon
<1>7. /\ s \o t \in Seq(Tokens) /\ Len(s \o t) = m + n
      /\ \A i \in 1 .. m : (s \o t)[i] = s[i]
      /\ \A i \in 1 .. n : (s \o t)[m + i] = t[i]
  BY <1>4, <1>5, TwoPieces
<1>8. ASSUME NEW i \in 1 .. m + n PROVE u[i] = (s \o t)[i]
  <2>1. CASE i \in 1 .. m
    BY <1>3, <1>4, <1>6, <1>7, <2>1
  <2>2. CASE i \notin 1 .. m
    <3>1. PICK j \in 1 .. n : i = m + j
      BY <1>3, <2>2
    <3> QED BY <1>3, <1>5, <1>6, <1>7, <3>1
  <2> QED BY <2>1, <2>2
<1>9. u = s \o t
  BY <1>6, <1>7, <1>8, SeqEqual
<1> QED BY <1>2, <1>4, <1>5, <1>6, <1>9

LEMMA DecodeTail ==
    ASSUME NEW a \in Seq(Tokens), a # <<>>
    PROVE  Decode(Tail(a)) = Tail(Decode(a))
<1>1. Tail(a) \in Seq(Tokens) /\ Len(Tail(a)) = Len(a) - 1
      /\ \A i \in 1 .. Len(Tail(a)) : Tail(a)[i] = a[i + 1]
  BY HeadTailProperties
<1>2. Decode(a) \in Seq(Tokens) /\ Len(Decode(a)) = Len(a) /\ Decode(a) # <<>>
  BY DecodeType
<1>3. Tail(Decode(a)) \in Seq(Tokens) /\ Len(Tail(Decode(a))) = Len(a) - 1
      /\ \A i \in 1 .. Len(a) - 1 : Tail(Decode(a))[i] = Decode(a)[i + 1]
  BY <1>2, HeadTailProperties
<1>4. Decode(Tail(a)) \in Seq(Tokens) /\ Len(Decode(Tail(a))) = Len(a) - 1
  BY <1>1, DecodeType
<1>5. ASSUME NEW i \in 1 .. Len(a) - 1 PROVE Decode(Tail(a))[i] = Tail(Decode(a))[i]
  <2>1. i \in DOMAIN Tail(a) /\ i + 1 \in DOMAIN a
    BY <1>1
  <2> QED BY <1>1, <1>3, <2>1 DEF Decode
<1> QED BY <1>3, <1>4, <1>5, SeqEqual

\* TrimPrefix takes off what was put in front.
LEMMA Trimmed ==
    ASSUME NEW p \in Seq(Tokens), NEW a \in Seq(Tokens)
    PROVE  TrimPrefix(p \o a, p) = a
<1>1. /\ p \o a \in Seq(Tokens) /\ Len(p \o a) = Len(p) + Len(a)
      /\ \A i \in 1 .. Len(p) + Len(a) :
            (p \o a)[i] = IF i <= Len(p) THEN p[i] ELSE a[i - Len(p)]
  BY ConcatProperties
<1> DEFINE s == p \o a
           f == SubSeq(s, 1, Len(p))
           g == SubSeq(s, Len(p) + 1, Len(s))
<1> HIDE DEF s
<1>2. f \in Seq(Tokens) /\ Len(f) = Len(p) /\ \A i \in 1 .. Len(p) : f[i] = s[i]
  BY <1>1 DEF s
<1>3. g \in Seq(Tokens) /\ Len(g) = Len(a) /\ \A i \in 1 .. Len(a) : g[i] = s[Len(p) + i]
  BY <1>1 DEF s
<1> HIDE DEF f, g
<1>4. f = p
  BY <1>1, <1>2, SeqEqual DEF s
<1>5. g = a
  <2>1. \A i \in 1 .. Len(a) : g[i] = a[i]
    BY <1>1, <1>3 DEF s
  <2> QED BY <1>3, <2>1, SeqEqual
<1>6. SubSeq(p, 1, Len(p)) = p
  BY SubSeqFull
<1>7. Len(p) <= Len(s)
  BY <1>1 DEF s
<1>8. IsPrefix(p, s)
  BY <1>4, <1>6, <1>7 DEF IsPrefix, f
<1> QED BY <1>5, <1>8 DEF TrimPrefix, s, g

\* The slash between two paths, the second beginning with one.
LEMMA JoinedPaths ==
    ASSUME NEW a \in Seq(Tokens), NEW b \in Seq(Tokens), BeginsWithSlash(b)
    PROVE  /\ SingleJoiningSlash(a, b) = IF EndsInSlash(a) THEN a \o Tail(b) ELSE a \o b
           /\ SingleJoiningSlash(a, b) = WithoutEndSlash(a) \o b
           /\ SingleJoiningSlash(a, b) # <<>>
<1>1. b # <<>> /\ Head(b) = "/" /\ Len(b) \in Nat \ {0}
  BY EmptySeq DEF BeginsWithSlash
<1>2. SingleJoiningSlash(a, b) = IF EndsInSlash(a) THEN a \o Tail(b) ELSE a \o b
  BY DEF SingleJoiningSlash
<1>3. CASE EndsInSlash(a)
  <2>1. a # <<>> /\ a[Len(a)] = "/" /\ Len(a) \in Nat \ {0}
    BY <1>3, EmptySeq DEF EndsInSlash, Last
  <2>2. /\ Front(a) \in Seq(Tokens) /\ Len(Front(a)) = Len(a) - 1
        /\ \A i \in 1 .. Len(a) - 1 : Front(a)[i] = a[i]
    <3>1. PICK n \in Nat : n = Len(a) - 1
      BY <2>1
    <3>2. \A i \in 1 .. n : a[i] \in Tokens
      BY <3>1
    <3>3. /\ SubSeq(a, 1, n) \in Seq(Tokens) /\ Len(SubSeq(a, 1, n)) = n
          /\ \A i \in 1 .. n : SubSeq(a, 1, n)[i] = a[i]
      BY <3>1, <3>2
    <3> QED BY <3>1, <3>3 DEF Front
  <2>3. /\ Tail(b) \in Seq(Tokens) /\ Len(Tail(b)) = Len(b) - 1
        /\ \A i \in 1 .. Len(b) - 1 : Tail(b)[i] = b[i + 1]
    BY <1>1, HeadTailProperties
  <2>4. /\ a \o Tail(b) \in Seq(Tokens) /\ Len(a \o Tail(b)) = Len(a) + Len(b) - 1
        /\ \A i \in 1 .. Len(a) + Len(b) - 1 :
              (a \o Tail(b))[i] = IF i <= Len(a) THEN a[i] ELSE Tail(b)[i - Len(a)]
    BY <2>3, ConcatProperties
  <2>5. /\ Front(a) \o b \in Seq(Tokens) /\ Len(Front(a) \o b) = Len(a) + Len(b) - 1
        /\ \A i \in 1 .. Len(a) + Len(b) - 1 :
              (Front(a) \o b)[i] = IF i <= Len(a) - 1 THEN Front(a)[i] ELSE b[i - (Len(a) - 1)]
    <3>1. /\ Front(a) \o b \in Seq(Tokens)
          /\ Len(Front(a) \o b) = Len(Front(a)) + Len(b)
          /\ \A i \in 1 .. Len(Front(a)) + Len(b) :
                (Front(a) \o b)[i] = IF i <= Len(Front(a)) THEN Front(a)[i]
                                     ELSE b[i - Len(Front(a))]
      BY <2>2, ConcatProperties
    <3>2. Len(Front(a)) + Len(b) = Len(a) + Len(b) - 1
      BY <1>1, <2>1, <2>2
    <3> QED BY <2>2, <3>1, <3>2
  <2>6. b[1] = "/"
    BY <1>1
  <2>7. ASSUME NEW i \in 1 .. Len(a) + Len(b) - 1
        PROVE  (a \o Tail(b))[i] = (Front(a) \o b)[i]
    <3>1. CASE i <= Len(a) - 1
      BY <2>1, <2>2, <2>4, <2>5, <3>1
    <3>2. CASE i = Len(a)
      BY <2>1, <2>4, <2>5, <2>6, <3>2
    <3>3. CASE i > Len(a)
      <4>1. i - Len(a) \in 1 .. Len(b) - 1 /\ i - (Len(a) - 1) = i - Len(a) + 1
        BY <2>1, <3>3
      <4> QED BY <2>1, <2>3, <2>4, <2>5, <3>3, <4>1
    <3>4. \A m, k \in Nat : k <= m - 1 \/ k = m \/ k > m
      OBVIOUS
    <3>5. i <= Len(a) - 1 \/ i = Len(a) \/ i > Len(a)
      BY <2>1, <3>4
    <3> QED BY <3>1, <3>2, <3>3, <3>5
  <2>8. a \o Tail(b) = Front(a) \o b
    BY <2>4, <2>5, <2>7, SeqEqual
  <2>9. a \o Tail(b) # <<>>
    BY <1>1, <2>1, <2>4
  <2> QED BY <1>2, <1>3, <2>8, <2>9 DEF WithoutEndSlash
<1>4. CASE ~EndsInSlash(a)
  <2>1. a \o b # <<>>
    BY <1>1, ConcatProperties
  <2> QED BY <1>2, <1>4, <2>1 DEF WithoutEndSlash
<1> QED BY <1>3, <1>4, <1>2

\* A query of 2n - 1 elements has n parameters, those at the odd places.
LEMMA ParametersOf ==
    ASSUME NEW q \in Seq(Tokens), NEW n \in Nat, Len(q) = 2 * n - 1
    PROVE  /\ Parameters(q) \in Seq(Tokens) /\ Len(Parameters(q)) = n
           /\ \A i \in 1 .. n : Parameters(q)[i] = q[2 * i - 1]
<1>1. (Len(q) + 1) \div 2 = n
  OBVIOUS
<1>2. Parameters(q) = [i \in 1 .. n |-> q[2 * i - 1]]
  BY <1>1 DEF Parameters
<1>3. \A i \in 1 .. n : q[2 * i - 1] \in Tokens
  OBVIOUS
<1>4. Parameters(q) \in [1 .. n -> Tokens]
  BY <1>2, <1>3
<1>5. Parameters(q) \in Seq(Tokens) /\ Len(Parameters(q)) = n
  BY <1>4
<1> QED BY <1>2, <1>5

\* The query of the director.
JoinedQuery(t, u) == IF t = <<>> \/ u = <<>> THEN t \o u ELSE t \o <<"&">> \o u

LEMMA QueryJoined ==
    ASSUME NEW t \in Seq(Tokens), NEW u \in Seq(Tokens), Separated(t), Separated(u)
    PROVE  /\ Parameters(JoinedQuery(t, u)) = Parameters(t) \o Parameters(u)
           /\ Separated(JoinedQuery(t, u))
<1>1. Parameters(<<>>) = <<>>
  <2>1. (Len(<<>>) + 1) \div 2 = 0
    OBVIOUS
  <2> QED BY <2>1 DEF Parameters
<1>2. \A q \in Seq(Tokens) : q # <<>> /\ Separated(q) => \E n \in Nat : Len(q) = 2 * n - 1
  <2> SUFFICES ASSUME NEW q \in Seq(Tokens), q # <<>>, Separated(q)
               PROVE  \E n \in Nat : Len(q) = 2 * n - 1
    OBVIOUS
  <2>1. Len(q) % 2 = 1
    BY DEF Separated
  <2>2. Len(q) \in Nat
    OBVIOUS
  <2>3. \A m \in Nat : m % 2 = 1 => m = 2 * ((m + 1) \div 2) - 1 /\ (m + 1) \div 2 \in Nat
    OBVIOUS
  <2> QED BY <2>1, <2>2, <2>3
<1>3. CASE t = <<>>
  <2>1. JoinedQuery(t, u) = u
    BY <1>3 DEF JoinedQuery
  <2>2. <<>> \o Parameters(u) = Parameters(u)
    <3>1. CASE u = <<>>
      BY <1>1, <3>1
    <3>2. CASE u # <<>>
      <4>1. PICK n \in Nat : Len(u) = 2 * n - 1
        BY <1>2, <3>2
      <4>2. Parameters(u) \in Seq(Tokens)
        BY <4>1, ParametersOf
      <4> QED BY <4>2, NoPiece
    <3> QED BY <3>1, <3>2
  <2> QED BY <1>1, <1>3, <2>1, <2>2
<1>4. CASE t # <<>> /\ u = <<>>
  <2>1. JoinedQuery(t, u) = t
    BY <1>4 DEF JoinedQuery
  <2>2. PICK n \in Nat : Len(t) = 2 * n - 1
    BY <1>2, <1>4
  <2>3. Parameters(t) \in Seq(Tokens)
    BY <2>2, ParametersOf
  <2>4. Parameters(t) \o <<>> = Parameters(t)
    BY <2>3, NoPiece
  <2> QED BY <1>1, <1>4, <2>1, <2>4
<1>5. CASE t # <<>> /\ u # <<>>
  <2>1. PICK a \in Nat : Len(t) = 2 * a - 1
    BY <1>2, <1>5
  <2>2. PICK b \in Nat : Len(u) = 2 * b - 1
    BY <1>2, <1>5
  <2>3. a >= 1 /\ b >= 1
    BY <2>1, <2>2
  <2>4. "&" \in Tokens
    BY DEF Tokens
  <2>5. PICK q : q = JoinedQuery(t, u)
    OBVIOUS
  <2>6. q = (t \o <<"&">>) \o u
    BY <1>5, <2>5 DEF JoinedQuery
  <2>7. PICK s \in Seq(Tokens) : /\ s = t \o <<"&">> /\ Len(s) = 2 * a
                                 /\ \A i \in 1 .. 2 * a - 1 : s[i] = t[i]
                                 /\ s[2 * a] = "&"
    <3>0. \A d \in Tokens : <<d>> \in Seq(Tokens) /\ Len(<<d>>) = 1 /\ <<d>>[1] = d
      OBVIOUS
    <3>1. PICK e \in Seq(Tokens) : e = <<"&">> /\ Len(e) = 1 /\ e[1] = "&"
      BY <2>4, <3>0, Zenon
    <3>2. PICK m \in Nat : m = Len(t) /\ m = 2 * a - 1 /\ m + 1 = 2 * a
      BY <2>1
    <3>3. /\ t \o e \in Seq(Tokens) /\ Len(t \o e) = m + 1
          /\ \A i \in 1 .. m : (t \o e)[i] = t[i]
          /\ \A i \in 1 .. 1 : (t \o e)[m + i] = e[i]
      <4>1. PICK k : k = 1
        OBVIOUS
      <4>2. m = Len(t) /\ k = Len(e)
        BY <3>1, <3>2, <4>1
      <4>3. /\ t \o e \in Seq(Tokens) /\ Len(t \o e) = m + k
            /\ \A i \in 1 .. m : (t \o e)[i] = t[i]
            /\ \A i \in 1 .. k : (t \o e)[m + i] = e[i]
        BY <4>2, TwoPieces
      <4> QED BY <4>1, <4>3
    <3>4. (t \o e)[2 * a] = "&"
      <4>1. (t \o e)[m + 1] = e[1]
        BY <3>3
      <4> QED BY <3>1, <3>2, <4>1
    <3>5. \A i \in 1 .. 2 * a - 1 : (t \o e)[i] = t[i]
      BY <3>2, <3>3
    <3>6. Len(t \o e) = 2 * a
      BY <3>2, <3>3
    <3> QED BY <3>1, <3>3, <3>4, <3>5, <3>6
  <2>8. /\ q \in Seq(Tokens) /\ Len(q) = 2 * a + (2 * b - 1)
        /\ \A i \in 1 .. 2 * a : q[i] = s[i]
        /\ \A i \in 1 .. 2 * b - 1 : q[2 * a + i] = u[i]
    <3>1. PICK m, n : m = 2 * a /\ n = 2 * b - 1 /\ m = Len(s) /\ n = Len(u)
      BY <2>2, <2>7
    <3>2. m = Len(s) /\ n = Len(u)
      BY <3>1
    <3>3. /\ s \o u \in Seq(Tokens) /\ Len(s \o u) = m + n
          /\ \A i \in 1 .. m : (s \o u)[i] = s[i]
          /\ \A i \in 1 .. n : (s \o u)[m + i] = u[i]
      BY <3>2, TwoPieces
    <3>4. q = s \o u
      BY <2>6, <2>7
    <3> QED BY <3>1, <3>3, <3>4
  <2>9. /\ \A i \in 1 .. 2 * a - 1 : q[i] = t[i]
        /\ q[2 * a] = "&"
        /\ \A i \in 1 .. 2 * b - 1 : q[2 * a + i] = u[i]
    BY <2>3, <2>7, <2>8
  <2>10. Len(q) = 2 * (a + b) - 1 /\ a + b \in Nat
    BY <2>2, <2>8
  <2>11. Separated(q)
    <3>1. Len(q) % 2 = 1
      BY <2>10
    <3>2. /\ \A i \in 1 .. 2 * a - 1 : t[i] = "&" <=> i % 2 = 0
          /\ \A i \in 1 .. 2 * b - 1 : u[i] = "&" <=> i % 2 = 0
      BY <2>1, <2>2 DEF Separated
    <3>3. ASSUME NEW i \in 1 .. 2 * (a + b) - 1 PROVE q[i] = "&" <=> i % 2 = 0
      <4>1. CASE i \in 1 .. 2 * a - 1
        BY <2>9, <3>2, <4>1
      <4>2. CASE i = 2 * a
        BY <2>9, <4>2
      <4>3. CASE i - 2 * a \in 1 .. 2 * b - 1
        <5>1. q[i] = u[i - 2 * a]
          BY <2>9, <4>3
        <5>2. (i - 2 * a) % 2 = 0 <=> i % 2 = 0
          OBVIOUS
        <5> QED BY <3>2, <4>3, <5>1, <5>2
      <4> QED BY <4>1, <4>2, <4>3
    <3>4. DOMAIN q = 1 .. 2 * (a + b) - 1
      BY <2>8, <2>10
    <3> QED BY <3>1, <3>3, <3>4 DEF Separated
  <2>12. Parameters(q) = Parameters(t) \o Parameters(u)
    <3>1. PICK p \in Seq(Tokens) : /\ p = Parameters(q) /\ Len(p) = a + b
                                   /\ \A i \in 1 .. a + b : p[i] = q[2 * i - 1]
      BY <2>8, <2>10, ParametersOf
    <3>2. PICK f \in Seq(Tokens) : /\ f = Parameters(t) /\ Len(f) = a
                                   /\ \A i \in 1 .. a : f[i] = t[2 * i - 1]
      BY <2>1, ParametersOf
    <3>3. PICK g \in Seq(Tokens) : /\ g = Parameters(u) /\ Len(g) = b
                                   /\ \A i \in 1 .. b : g[i] = u[2 * i - 1]
      BY <2>2, ParametersOf
    <3>4. /\ f \o g \in Seq(Tokens) /\ Len(f \o g) = a + b
          /\ \A i \in 1 .. a : (f \o g)[i] = f[i]
          /\ \A i \in 1 .. b : (f \o g)[a + i] = g[i]
      <4>1. a = Len(f) /\ b = Len(g)
        BY <3>2, <3>3
      <4> QED BY <4>1, TwoPieces
    <3>5. ASSUME NEW i \in 1 .. a + b PROVE p[i] = (f \o g)[i]
      <4>1. CASE i \in 1 .. a
        <5>1. 2 * i - 1 \in 1 .. 2 * a - 1
          BY <4>1
        <5>2. p[i] = t[2 * i - 1]
          BY <2>9, <3>1, <5>1
        <5> QED BY <3>2, <3>4, <4>1, <5>2
      <4>2. CASE i \notin 1 .. a
        <5>1. PICK j \in 1 .. b : i = a + j
          BY <4>2
        <5>2. 2 * j - 1 \in 1 .. 2 * b - 1 /\ 2 * i - 1 = 2 * a + (2 * j - 1)
          BY <5>1
        <5>3. p[i] = u[2 * j - 1]
          BY <2>9, <3>1, <5>2
        <5>4. (f \o g)[i] = u[2 * j - 1]
          BY <3>3, <3>4, <5>1
        <5> QED BY <5>3, <5>4
      <4> QED BY <4>1, <4>2
    <3>6. p = f \o g
      BY <3>1, <3>4, <3>5, SeqEqual
    <3> QED BY <3>1, <3>2, <3>3, <3>6
  <2> QED BY <2>5, <2>11, <2>12
<1> QED BY <1>3, <1>4, <1>5

\* The encoded form of a URL, and what the assumption says of it.
LEMMA EncodedForm ==
    ASSUME NEW e \in Exchanges, NEW u \in {e.url, e.target}
    PROVE  /\ u.raw \in Seq(Tokens) /\ u.path \in Seq(Tokens) /\ u.query \in Seq(Tokens)
           /\ Separated(u.query)
           /\ EscapedPath(u) = Prefer(u.raw, u.path)
           /\ EscapedPath(u) \in Seq(Tokens)
           /\ Decode(EscapedPath(u)) = u.path
<1>1. /\ {u.raw, u.path, u.query} \subseteq Seq(STRING)
      /\ Decode(u.path) = u.path
      /\ u.raw # <<>> => Decode(u.raw) = u.path
      /\ Separated(u.query)
  BY URLsAssumption
<1>2. Seq(STRING) \subseteq Seq(Tokens)
  <2>1. STRING \subseteq Tokens
    BY DEF Tokens
  <2> QED BY <2>1, SeqMonotonic
<1>3. u.raw \in Seq(Tokens) /\ u.path \in Seq(Tokens) /\ u.query \in Seq(Tokens)
  BY <1>1, <1>2, Zenon
<1>4. EscapedPath(u) = Prefer(u.raw, u.path)
  BY <1>1 DEF EscapedPath, Prefer
<1>5. Prefer(u.raw, u.path) \in Seq(Tokens) /\ Decode(Prefer(u.raw, u.path)) = u.path
  BY <1>1, <1>3, Zenon DEF Prefer
<1> QED BY <1>1, <1>3, <1>4, <1>5

\* A decoded path begins and, unless the encoded one ends in an encoded slash,
\* ends in a slash where the encoded one does.
LEMMA SlashesDecoded ==
    ASSUME NEW a \in Seq(Tokens)
    PROVE  /\ BeginsWithSlash(a) => BeginsWithSlash(Decode(a))
           /\ a = <<>> \/ Last(a) # "%2F" => (EndsInSlash(Decode(a)) <=> EndsInSlash(a))
<1>1. PICK n \in Nat : n = Len(a)
  OBVIOUS
<1>2. PICK d \in Seq(Tokens) : /\ d = Decode(a) /\ Len(d) = n
                               /\ \A i \in 1 .. n : d[i] = Decoded(a[i])
  BY <1>1, DecodeType
<1>3. a = <<>> <=> n = 0
  BY <1>1
<1>4. d = <<>> <=> n = 0
  BY <1>2
<1>5. n # 0 => Head(a) = a[1] /\ Head(d) = d[1] /\ Last(a) = a[n] /\ Last(d) = d[n]
  BY <1>1, <1>2 DEF Last
<1>6. n # 0 => 1 \in 1 .. n /\ n \in 1 .. n
  OBVIOUS
<1>7. n # 0 => d[1] = Decoded(a[1]) /\ d[n] = Decoded(a[n])
  BY <1>2, <1>6
<1>8. BeginsWithSlash(a) => BeginsWithSlash(d)
  BY <1>3, <1>4, <1>5, <1>7 DEF BeginsWithSlash, Decoded
<1>9. a = <<>> \/ Last(a) # "%2F" => (EndsInSlash(d) <=> EndsInSlash(a))
  BY <1>3, <1>4, <1>5, <1>7 DEF EndsInSlash, Decoded
<1> QED BY <1>2, <1>8, <1>9

\* A path that decoding leaves as it is does not end in an encoded slash.
LEMMA PlainEnd ==
    ASSUME NEW a \in Seq(Tokens), Decode(a) = a
    PROVE  a = <<>> \/ Last(a) # "%2F"
<1>1. PICK n \in Nat : n = Len(a)
  OBVIOUS
<1>2. \A i \in 1 .. n : a[i] = Decoded(a[i])
  BY <1>1, DecodeType
<1>3. CASE n = 0
  BY <1>1, <1>3, EmptySeq
<1>4. CASE n # 0
  <2>1. n \in 1 .. n
    BY <1>4
  <2>2. a[n] # "%2F"
    BY <1>2, <2>1 DEF Decoded
  <2> QED BY <1>1, <2>2 DEF Last
<1> QED BY <1>3, <1>4

\* Decoding the two encoded paths joined gives the two paths joined, unless the
\* first ends in an encoded slash.
LEMMA JoinDecodes ==
    ASSUME NEW a \in Seq(Tokens), NEW b \in Seq(Tokens), BeginsWithSlash(b),
           a = <<>> \/ Last(a) # "%2F"
    PROVE  Decode(SingleJoiningSlash(a, b)) = SingleJoiningSlash(Decode(a), Decode(b))
<1>1. /\ BeginsWithSlash(Decode(b))
      /\ EndsInSlash(Decode(a)) <=> EndsInSlash(a)
  BY SlashesDecoded
<1>2. Decode(a) \in Seq(Tokens) /\ Decode(b) \in Seq(Tokens)
  BY DecodeType
<1>3. SingleJoiningSlash(a, b) = IF EndsInSlash(a) THEN a \o Tail(b) ELSE a \o b
  BY JoinedPaths
<1>4. SingleJoiningSlash(Decode(a), Decode(b)) =
         IF EndsInSlash(Decode(a)) THEN Decode(a) \o Tail(Decode(b)) ELSE Decode(a) \o Decode(b)
  BY <1>1, <1>2, JoinedPaths
<1>5. b # <<>>
  BY DEF BeginsWithSlash
<1>6. Tail(b) \in Seq(Tokens) /\ Decode(Tail(b)) = Tail(Decode(b))
  BY <1>5, DecodeTail
<1>7. Decode(a \o Tail(b)) = Decode(a) \o Tail(Decode(b))
  BY <1>6, DecodeConcat
<1>8. Decode(a \o b) = Decode(a) \o Decode(b)
  BY DecodeConcat
<1> QED BY <1>1, <1>3, <1>4, <1>7, <1>8

\* The URL that the director makes, for a backend that is not a socket.
LEMMA RewrittenPath ==
    ASSUME NEW e \in Exchanges, ~e.target.unix,
           e.target.raw = <<>> \/ Last(e.target.raw) # "%2F"
    PROVE  EscapedPath(Rewritten(e.target, e.url)) =
              WithoutEndSlash(EscapedPath(e.target)) \o EscapedPath(e.url)
<1> DEFINE t == e.target
           u == e.url
           T == EscapedPath(t)
           U == EscapedPath(u)
           r == Rewritten(t, u)
<1>1. /\ t.raw \in Seq(Tokens) /\ t.path \in Seq(Tokens) /\ T \in Seq(Tokens)
      /\ T = Prefer(t.raw, t.path) /\ Decode(T) = t.path
  BY EncodedForm
<1>2. /\ u.raw \in Seq(Tokens) /\ u.path \in Seq(Tokens) /\ U \in Seq(Tokens)
      /\ U = Prefer(u.raw, u.path) /\ Decode(U) = u.path
  BY EncodedForm
<1>3. BeginsWithSlash(U)
  BY URLsAssumption
<1>4. /\ r.raw = IF t.raw = <<>> /\ u.raw = <<>> THEN <<>> ELSE SingleJoiningSlash(T, U)
      /\ r.path = SingleJoiningSlash(t.path, u.path)
  BY <1>1, <1>2 DEF Rewritten, JoinEncoded
<1> HIDE DEF t, u, T, U, r
<1>5. SingleJoiningSlash(T, U) = WithoutEndSlash(T) \o U /\ SingleJoiningSlash(T, U) # <<>>
  BY <1>1, <1>2, <1>3, JoinedPaths
<1>6. CASE t.raw = <<>> /\ u.raw = <<>>
  <2>1. T = t.path /\ U = u.path
    BY <1>1, <1>2, <1>6 DEF Prefer
  <2>2. EscapedPath(r) = SingleJoiningSlash(T, U)
    BY <1>4, <1>6, <2>1 DEF EscapedPath
  <2> QED BY <1>5, <2>2 DEF t, u, T, U, r
<1>7. CASE ~ (t.raw = <<>> /\ u.raw = <<>>)
  <2>1. T = <<>> \/ Last(T) # "%2F"
    <3>1. CASE t.raw = <<>>
      <4>1. T = t.path /\ Decode(T) = T
        BY <1>1, <3>1 DEF Prefer
      <4> QED BY <1>1, <4>1, PlainEnd
    <3>2. CASE t.raw # <<>>
      BY <1>1, <3>2 DEF Prefer, t
    <3> QED BY <3>1, <3>2
  <2>2. Decode(SingleJoiningSlash(T, U)) = SingleJoiningSlash(t.path, u.path)
    BY <1>1, <1>2, <1>3, <2>1, JoinDecodes
  <2>3. EscapedPath(r) = SingleJoiningSlash(T, U)
    BY <1>4, <1>5, <1>7, <2>2 DEF EscapedPath
  <2> QED BY <1>5, <2>3 DEF t, u, T, U, r
<1> QED BY <1>6, <1>7

\* The URL that the director makes, for a socket: its path is taken off again.
LEMMA SocketPath ==
    ASSUME NEW e \in Exchanges, e.target.unix, PlainSocket(e.target)
    PROVE  EscapedPath(Rewritten(e.target, e.url)) = EscapedPath(e.url)
<1> DEFINE t == e.target
           u == e.url
           r == Rewritten(t, u)
<1>1. /\ t.raw = <<>> /\ t.path \in Seq(Tokens) /\ ~EndsInSlash(t.path)
      /\ EscapedPath(t) = t.path
  BY EncodedForm DEF PlainSocket, Prefer
<1>2. /\ u.raw \in Seq(Tokens) /\ u.path \in Seq(Tokens)
      /\ EscapedPath(u) = Prefer(u.raw, u.path) /\ Decode(EscapedPath(u)) = u.path
  BY EncodedForm
<1>3. BeginsWithSlash(Prefer(u.raw, u.path)) /\ BeginsWithSlash(u.path)
  <2>1. BeginsWithSlash(EscapedPath(u))
    BY URLsAssumption
  <2>2. EscapedPath(u) \in Seq(Tokens)
    BY EncodedForm
  <2>3. BeginsWithSlash(Decode(EscapedPath(u)))
    BY <2>1, <2>2, SlashesDecoded
  <2> QED BY <1>2, <2>1, <2>3
<1>4. SocketPrefix(t) = t.path
  <2>1. t.path \o <<>> = t.path
    BY <1>1, NoPiece
  <2> QED BY <1>1, <2>1 DEF SocketPrefix, PlainSocket
<1>5. /\ r.raw = TrimPrefix(IF u.raw = <<>> THEN <<>>
                            ELSE SingleJoiningSlash(t.path, u.raw), t.path)
      /\ r.path = TrimPrefix(SingleJoiningSlash(t.path, u.path), t.path)
  BY <1>1, <1>4 DEF Rewritten, JoinEncoded, Prefer
<1> HIDE DEF t, u, r
<1>6. \A b \in Seq(Tokens) :
         BeginsWithSlash(b) => TrimPrefix(SingleJoiningSlash(t.path, b), t.path) = b
  <2> SUFFICES ASSUME NEW b \in Seq(Tokens), BeginsWithSlash(b)
               PROVE  TrimPrefix(SingleJoiningSlash(t.path, b), t.path) = b
    OBVIOUS
  <2>1. SingleJoiningSlash(t.path, b) = t.path \o b
    BY <1>1, JoinedPaths
  <2> QED BY <1>1, <2>1, Trimmed
<1>7. r.path = u.path
  BY <1>2, <1>3, <1>5, <1>6
<1>8. r.raw = u.raw
  <2>1. CASE u.raw = <<>>
    <3>1. TrimPrefix(<<>>, t.path) = <<>>
      BY <1>1 DEF TrimPrefix
    <3> QED BY <1>5, <2>1, <3>1
  <2>2. CASE u.raw # <<>>
    <3>1. BeginsWithSlash(u.raw)
      BY <1>3, <2>2 DEF Prefer
    <3> QED BY <1>2, <1>5, <1>6, <2>2, <3>1
  <2> QED BY <2>1, <2>2
<1> QED BY <1>7, <1>8 DEF EscapedPath, t, u, r

\* The URL is rewritten once.
UrlInv ==
    /\ x \in Exchanges
    /\ url = IF pc \in {"gzip", "director"} THEN x.url ELSE Rewritten(x.target, x.url)

\* The backend is asked for what the client asked for, below the target, with
\* one slash between the two, encoded slashes kept and all parameters
\* (reverseproxy.go:86-178), for paths and queries of any length.
THEOREM BackendAsked == Spec => []BackendAskedFor
<1>1. Init => UrlInv
  BY DEF Init, UrlInv
<1>2. UrlInv /\ [Next]_vars => UrlInv'
  <2> SUFFICES ASSUME UrlInv, [Next]_vars PROVE UrlInv'
    OBVIOUS
  <2>1. CASE GzipHandler
    BY <2>1 DEF GzipHandler, UrlInv
  <2>2. CASE Director
    BY <2>2 DEF Director, UrlInv
  <2>3. CASE RemoveHopHeaders \/ CopyHeader \/ Announce \/ GzipWrite \/ FlushBody
             \/ CopyTrailers \/ Close \/ Finish
    BY <2>3 DEF RemoveHopHeaders, CopyHeader, Announce, GzipWrite, FlushBody, CopyTrailers,
                Close, Finish, UrlInv
  <2>4. CASE UNCHANGED vars
    BY <2>4 DEF vars, UrlInv
  <2> QED BY <2>1, <2>2, <2>3, <2>4 DEF Next, Done
<1>3. UrlInv => BackendAskedFor
  <2> SUFFICES ASSUME UrlInv, pc \notin {"gzip", "director"} PROVE BackendAskedFor
    BY DEF BackendAskedFor
  <2>1. x \in Exchanges /\ url = Rewritten(x.target, x.url)
    BY DEF UrlInv
  <2>2. x.target.unix /\ PlainSocket(x.target) => EscapedPath(url) = EscapedPath(x.url)
    BY <2>1, SocketPath
  <2>3. ~x.target.unix /\ (x.target.raw = <<>> \/ Last(x.target.raw) # "%2F") =>
           EscapedPath(url) = WithoutEndSlash(EscapedPath(x.target)) \o EscapedPath(x.url)
    BY <2>1, RewrittenPath
  <2>4. url.query = JoinedQuery(x.target.query, x.url.query)
    BY <2>1 DEF Rewritten, JoinedQuery
  <2>5. /\ x.target.query \in Seq(Tokens) /\ Separated(x.target.query)
        /\ x.url.query \in Seq(Tokens) /\ Separated(x.url.query)
    BY <2>1, EncodedForm
  <2>6. /\ Parameters(url.query) = Parameters(x.target.query) \o Parameters(x.url.query)
        /\ Separated(url.query)
    BY <2>4, <2>5, QueryJoined
  <2> QED BY <2>2, <2>3, <2>6 DEF BackendAskedFor
<1> QED BY <1>1, <1>2, <1>3, PTL DEF Spec
=============================================================================
