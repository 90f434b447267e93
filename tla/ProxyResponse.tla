--------------------------- MODULE ProxyResponse ---------------------------
(***************************************************************************)
(* One proxied response on its way to the client: ReverseProxy.ServeHTTP   *)
(* and copyResponse (reverseproxy.go) in the goroutine of the request, the *)
(* flushLoop goroutine of maxLatencyWriter, and the writer they share,     *)
(* which is a GzipResponseWriter (gziphandler.go) when the client accepts  *)
(* gzip and the response of net/http when it does not.                     *)
(*                                                                         *)
(* The bytes of the upstream body are the numbers 1 .. up.size, in order.  *)
(* Upgraded (websocket) connections are not part of this module.           *)
(***************************************************************************)
EXTENDS Naturals, Sequences

CONSTANTS
    MinSize,      \* minSize of gziphandler.go, in model bytes
    MaxBody,      \* bound: bytes in an upstream body
    Codes         \* status codes of the upstream, all of which allow a body

ASSUME SizesAssumption == MinSize \in Nat \ {0} /\ MaxBody \in Nat
ASSUME CodesAssumption == Codes \subseteq Nat /\ 0 \notin Codes

OK == 200

VARIABLES
    accepts,      \* acceptsGzip(r): the writer is a GzipResponseWriter
    up,           \* external: the upstream response
    read,         \* bytes of the upstream body read so far
    chunk,        \* the bytes io.CopyBuffer read and has not written yet
    out,          \* the shared writer: header map, gzip part, net/http part
    spc,          \* where the goroutine of the request is
    lpc,          \* where flushLoop is
    lk,           \* mlw.lk: "server", "flushLoop" or "free"
    tick,         \* the ticker's channel (of capacity 1) holds a tick
    gone,         \* external: the client's connection broke
    failed        \* a read of the body or a write of the response failed

vars == <<accepts, up, read, chunk, out, spc, lpc, lk, tick, gone, failed>>

\* An upstream with trailers answers chunked, without Content-Length.
Upstreams ==
    {u \in [code : Codes, enc : {"none", "upstream"}, length : BOOLEAN,
            trailer : BOOLEAN, size : 0 .. MaxBody] : ~(u.trailer /\ u.length)}

Init ==
    /\ accepts \in BOOLEAN
    /\ up \in Upstreams
    /\ read = 0
    /\ chunk = <<>>
    /\ out = [hdr |-> [enc |-> "none", length |-> FALSE],
              gw  |-> [active |-> FALSE, closed |-> FALSE, code |-> 0,
                       buf |-> <<>>, gz |-> <<>>],
              net |-> [committed |-> FALSE, code |-> 0, enc |-> "none",
                       length |-> FALSE, buf |-> <<>>, wire |-> <<>>]]
    /\ spc = "roundTrip"
    /\ lpc = "off"
    /\ lk = "free"
    /\ tick = FALSE
    /\ gone = FALSE
    /\ failed = FALSE
-----------------------------------------------------------------------------
(* The response of net/http: the first WriteHeader, Write or Flush fixes    *)
(* the status and the headers; what is written waits in a buffer for Flush *)
(* or for the end of the handler.                                          *)

NetWriteHeader(o, code) ==
    IF o.net.committed THEN o
    ELSE [o EXCEPT !.net.committed = TRUE, !.net.code = code,
                   !.net.enc = o.hdr.enc, !.net.length = o.hdr.length]

NetWrite(o, b) == [NetWriteHeader(o, OK) EXCEPT !.net.buf = @ \o b]

NetFlush(o) ==
    [NetWriteHeader(o, OK) EXCEPT !.net.wire = @ \o o.net.buf,
                                  !.net.buf = <<>>]

(* compress/gzip: a Write puts the gzip header on the response and keeps   *)
(* the rest in its window, until Flush or Close, or until it is full.      *)

GzWrite(o, b) == [NetWriteHeader(o, OK) EXCEPT !.gw.gz = @ \o b]

GzFlush(o) == [NetWrite(o, o.gw.gz) EXCEPT !.gw.gz = <<>>]

\* Compressed bytes in a response whose header went out before compression
\* started, with the Content-Length of the plain body: net/http refuses what
\* exceeds it, and the error shows in the gzip writer only.
MayOverrun(o) == o.gw.active /\ o.net.length

Failing(o) == IF MayOverrun(o) THEN {failed, TRUE} ELSE {failed}

GzMayEmit(o) == IF o.gw.active THEN {o, GzFlush(o)} ELSE {o}
-----------------------------------------------------------------------------
(* The methods of GzipResponseWriter.                                      *)

StartGzip(o) ==
    LET h == [o EXCEPT !.hdr.enc = "gzip", !.hdr.length = FALSE,
                       !.gw.active = TRUE, !.gw.buf = <<>>]
        w == IF o.gw.code # 0 THEN NetWriteHeader(h, o.gw.code) ELSE h
    IN  GzWrite(w, o.gw.buf)

\* Faulty variant: the write that starts compression is not buffered first.
GzipWriteForgets(o, b) ==
    LET a == [o EXCEPT !.gw.buf = @ \o b]
    IN  IF o.gw.active THEN GzWrite(o, b)
        ELSE IF o.hdr.enc = "none" /\ Len(a.gw.buf) >= MinSize THEN StartGzip(o)
        ELSE a

GzipWrite(o, b) ==
    LET a == [o EXCEPT !.gw.buf = @ \o b]
    IN  IF o.gw.active THEN GzWrite(o, b)
        ELSE IF o.hdr.enc = "none" /\ Len(a.gw.buf) >= MinSize THEN StartGzip(a)
        ELSE a

GzipWriteHeader(o, code) == [o EXCEPT !.gw.code = code]

\* Faulty variant: only the response is flushed, not the gzip writer.
GzipFlushOuter(o) == NetFlush(o)

GzipFlush(o) == NetFlush(IF o.gw.active THEN GzFlush(o) ELSE o)

\* The deferred gw.Close() of NewGzipHandler.
GzipClose(o) ==
    LET h == IF o.gw.code # 0 THEN NetWriteHeader(o, o.gw.code) ELSE o
    IN  IF o.gw.active THEN [GzFlush(o) EXCEPT !.gw.closed = TRUE]
        ELSE IF o.gw.buf # <<>> THEN NetWrite(h, o.gw.buf)
        ELSE h

(* The writer the proxy sees, of either kind.                              *)

Write(o, b)          == IF accepts THEN GzipWrite(o, b) ELSE NetWrite(o, b)
Flush(o)             == IF accepts THEN GzipFlush(o) ELSE NetFlush(o)
WriteHeader(o, code) == IF accepts THEN GzipWriteHeader(o, code)
                        ELSE NetWriteHeader(o, code)
-----------------------------------------------------------------------------
(* The goroutine of the request.                                           *)

\* Transport.RoundTrip answers, or its error is returned and dropped.
RoundTrip ==
    /\ spc = "roundTrip"
    /\ spc' \in {"header", "close"}
    /\ UNCHANGED <<accepts, up, read, chunk, out, lpc, lk, tick, gone, failed>>

\* Faulty variant: the flush that forces chunking precedes the status.
FlushThenHeader ==
    /\ spc = "header"
    /\ spc' = "copyResponse"
    /\ LET h == [out EXCEPT !.hdr = [enc |-> up.enc, length |-> up.length]]
       IN  out' = WriteHeader(IF up.trailer THEN Flush(h) ELSE h, up.code)
    /\ UNCHANGED <<accepts, up, read, chunk, lpc, lk, tick, gone, failed>>

\* Headers, status, and the flush for announced trailers.
CopyHeader ==
    /\ spc = "header"
    /\ spc' = "copyResponse"
    /\ LET h == [out EXCEPT !.hdr = [enc |-> up.enc, length |-> up.length]]
           w == WriteHeader(h, up.code)
       IN  out' = IF up.trailer THEN Flush(w) ELSE w
    /\ UNCHANGED <<accepts, up, read, chunk, lpc, lk, tick, gone, failed>>

\* go mlw.flushLoop(), with the interval every proxy is made with.
CopyResponse ==
    /\ spc = "copyResponse"
    /\ spc' = "copy"
    /\ lpc' = "select"
    /\ UNCHANGED <<accepts, up, read, chunk, out, lk, tick, gone, failed>>

\* Faulty variant: one byte more than the body has.
ReadPastEnd ==
    /\ spc = "copy"
    /\ \E n \in 1 .. up.size - read + 1 :
           /\ chunk' = [i \in 1 .. n |-> read + i]
           /\ read' = read + n
    /\ spc' = "lock"
    /\ UNCHANGED <<accepts, up, out, lpc, lk, tick, gone, failed>>

\* io.CopyBuffer reads: some bytes, the end of the body, or an error.
Read ==
    /\ spc = "copy"
    /\ \/ \E n \in 1 .. up.size - read :
              /\ chunk' = [i \in 1 .. n |-> read + i]
              /\ read' = read + n
              /\ spc' = "lock"
              /\ UNCHANGED failed
       \/ /\ read = up.size
          /\ spc' = "stop"
          /\ UNCHANGED <<read, chunk, failed>>
       \/ /\ spc' = "stop"
          /\ failed' = TRUE
          /\ UNCHANGED <<read, chunk>>
    /\ UNCHANGED <<accepts, up, out, lpc, lk, tick, gone>>

WriteLock ==
    /\ spc = "lock"
    /\ lk = "free"
    /\ lk' = "server"
    /\ spc' = "write"
    /\ UNCHANGED <<accepts, up, read, chunk, out, lpc, tick, gone, failed>>

\* m.dst.Write(p) under m.lk.  It can fail when the client is gone or the
\* response is overrun, and a gzip writer that failed keeps failing.
WriteChunk ==
    /\ spc = "write"
    /\ lk' = "free"
    /\ chunk' = <<>>
    /\ \/ /\ ~failed
          /\ out' \in GzMayEmit(Write(out, chunk))
          /\ spc' = "copy"
          /\ failed' \in Failing(out')
       \/ /\ gone \/ failed \/ MayOverrun(out)
          /\ spc' = "stop"
          /\ failed' = TRUE
          /\ UNCHANGED out
    /\ UNCHANGED <<accepts, up, read, lpc, tick, gone>>

\* Faulty variant: done is buffered, and stop does not meet flushLoop.
StopWithoutMeeting ==
    /\ spc = "stop"
    /\ spc' = "trailers"
    /\ lpc' = IF lpc = "select" THEN "exited" ELSE lpc
    /\ UNCHANGED <<accepts, up, read, chunk, out, lk, tick, gone, failed>>

\* The deferred "m.done <- true" meets flushLoop's "<-m.done".
Stop ==
    /\ spc = "stop"
    /\ lpc = "select"
    /\ spc' = "trailers"
    /\ lpc' = "exited"
    /\ UNCHANGED <<accepts, up, read, chunk, out, lk, tick, gone, failed>>

\* closeBody, and the trailers into the header map, which the status and
\* the headers of this module do not depend on.
CopyTrailers ==
    /\ spc = "trailers"
    /\ spc' = "close"
    /\ UNCHANGED <<accepts, up, read, chunk, out, lpc, lk, tick, gone, failed>>

\* Faulty variant: the buffered part of a short response is not written.
CloseWithoutBuffer ==
    /\ spc = "close"
    /\ spc' = "finish"
    /\ out' = IF accepts THEN GzipClose([out EXCEPT !.gw.buf = <<>>]) ELSE out
    /\ UNCHANGED <<accepts, up, read, chunk, lpc, lk, tick, gone, failed>>

\* The handlers return; NewGzipHandler closes its writer.
Close ==
    /\ spc = "close"
    /\ spc' = "finish"
    /\ out' = IF accepts THEN GzipClose(out) ELSE out
    /\ failed' \in Failing(out)
    /\ UNCHANGED <<accepts, up, read, chunk, lpc, lk, tick, gone>>

\* net/http ends the response.
Finish ==
    /\ spc = "finish"
    /\ spc' = "done"
    /\ out' = NetFlush(out)
    /\ UNCHANGED <<accepts, up, read, chunk, lpc, lk, tick, gone, failed>>

\* The request is over.
Done == spc = "done" /\ UNCHANGED vars
-----------------------------------------------------------------------------
(* The flushLoop goroutine and its ticker.                                 *)

Tick ==
    /\ lpc \notin {"off", "exited"}
    /\ ~tick
    /\ tick' = TRUE
    /\ UNCHANGED <<accepts, up, read, chunk, out, spc, lpc, lk, gone, failed>>

TakeTick ==
    /\ lpc = "select"
    /\ tick
    /\ tick' = FALSE
    /\ lpc' = "lock"
    /\ UNCHANGED <<accepts, up, read, chunk, out, spc, lk, gone, failed>>

FlushLock ==
    /\ lpc = "lock"
    /\ lk = "free"
    /\ lk' = "flushLoop"
    /\ lpc' = "flush"
    /\ UNCHANGED <<accepts, up, read, chunk, out, spc, tick, gone, failed>>

FlushWriter ==
    /\ lpc = "flush"
    /\ out' = Flush(out)
    /\ failed' \in Failing(out)
    /\ lpc' = "unlock"
    /\ UNCHANGED <<accepts, up, read, chunk, spc, lk, tick, gone>>

\* Faulty variant: the loop over the ticks is inside the critical section.
FlushAgain ==
    /\ lpc = "unlock"
    /\ lpc' = "flush"
    /\ UNCHANGED <<accepts, up, read, chunk, out, spc, lk, tick, gone, failed>>

FlushUnlock ==
    /\ lpc = "unlock"
    /\ lk' = "free"
    /\ lpc' = "select"
    /\ UNCHANGED <<accepts, up, read, chunk, out, spc, tick, gone, failed>>

ClientGone ==
    /\ ~gone
    /\ gone' = TRUE
    /\ UNCHANGED <<accepts, up, read, chunk, out, spc, lpc, lk, tick, failed>>
-----------------------------------------------------------------------------
ServeHTTP ==
    \/ RoundTrip \/ CopyHeader \/ CopyResponse \/ Read \/ WriteLock
    \/ WriteChunk \/ CopyTrailers \/ Close \/ Finish

FlushLoop == TakeTick \/ FlushLock \/ FlushWriter \/ FlushUnlock

Next == ServeHTTP \/ Stop \/ FlushLoop \/ Tick \/ ClientGone \/ Done

Spec == Init /\ [][Next]_vars

(* Goroutines that can run do; a select with several ready cases chooses   *)
(* at random, so a send on done that stays offered is received, and a      *)
(* mutex is handed to a starving waiter.                                   *)
Fairness ==
    /\ WF_vars(ServeHTTP)
    /\ SF_vars(WriteLock)
    /\ SF_vars(Stop)
    /\ WF_vars(FlushLoop)

FairSpec == Spec /\ Fairness
-----------------------------------------------------------------------------
Bytes == Seq(1 .. MaxBody)

TypeOK ==
    /\ accepts \in BOOLEAN
    /\ up \in Upstreams
    /\ read \in 0 .. up.size
    /\ chunk \in Bytes
    /\ out.hdr \in [enc : {"none", "upstream", "gzip"}, length : BOOLEAN]
    /\ out.gw \in [active : BOOLEAN, closed : BOOLEAN, code : Codes \union {0},
                   buf : Bytes, gz : Bytes]
    /\ out.net \in [committed : BOOLEAN, code : Codes \union {0, OK},
                    enc : {"none", "upstream", "gzip"}, length : BOOLEAN,
                    buf : Bytes, wire : Bytes]
    /\ spc \in {"roundTrip", "header", "copyResponse", "copy", "lock", "write",
                "stop", "trailers", "close", "finish", "done"}
    /\ lpc \in {"off", "select", "lock", "flush", "unlock", "exited"}
    /\ lk \in {"free", "server", "flushLoop"}
    /\ tick \in BOOLEAN
    /\ gone \in BOOLEAN
    /\ failed \in BOOLEAN

(* The writer, whose methods are not safe for concurrent use, is in the    *)
(* hands of one goroutine at a time: m.lk separates Write from Flush, and  *)
(* the unbuffered done keeps every Flush before the header map is changed  *)
(* again, before gw.Close and before net/http takes the response back.     *)
WriterUsedByOne ==
    lpc \in {"lock", "flush", "unlock"} =>
        /\ spc \in {"copy", "lock", "write", "stop"}
        /\ lpc = "flush" => spc # "write"

(* Between the goroutine that writes and the one that flushes, through the *)
(* buffer, the gzip window and the response, no byte of the body is lost,  *)
(* duplicated or overtaken.                                                *)
BytesConserved ==
    LET inside == out.net.wire \o out.net.buf \o out.gw.gz
                    \o (IF spc \in {"finish", "done"} THEN <<>>
                        ELSE out.gw.buf \o chunk)
    IN  ~failed => inside = [i \in 1 .. read |-> i]

(* A response that ends without an error is whole, ended by the gzip       *)
(* footer when compressed, and compressed at most once.                    *)
EndsWhole ==
    (spc = "done" /\ lpc = "exited" /\ ~failed) =>
        /\ out.net.wire = [i \in 1 .. up.size |-> i]
        /\ out.gw.active => out.gw.closed /\ up.enc = "none"

(* A client that does not accept gzip gets the upstream's status, encoding *)
(* and length, whatever the flushes.                                       *)
PlainClientUnmodified ==
    (~accepts /\ out.net.committed /\ lpc # "off") =>
        /\ out.net.code = up.code
        /\ out.net.enc = up.enc
        /\ out.net.length = up.length

(* After each periodic flush, all that the client has not got of what was  *)
(* written is a buffered beginning too short to be compressed, unless the  *)
(* upstream encoded the body itself.                                       *)
FlushLeavesOnlyBuffer ==
    lpc = "unlock" =>
        /\ out.net.buf = <<>> /\ out.gw.gz = <<>>
        /\ out.gw.buf # <<>> => accepts /\ out.net.wire = <<>>
        /\ up.enc = "none" => Len(out.gw.buf) < MinSize

(* A copy that has begun to write ends, whole or with an error: a ticker   *)
(* that keeps firing never keeps Write from the mutex for ever nor stop()  *)
(* from meeting flushLoop, which is not left behind.                       *)
CopyEnds == (spc \in {"lock", "stop"}) ~> (spc = "done" /\ lpc = "exited")
-----------------------------------------------------------------------------
(* A statement of a comment that the code does not keep.                   *)

(* "Just save the response code until close / actual write"                *)
(* (gziphandler.go:95): the status that reaches a client is the one given  *)
(* to WriteHeader.                                                         *)
StatusKept ==
    (out.net.committed /\ lpc # "off") => out.net.code = up.code
=============================================================================
