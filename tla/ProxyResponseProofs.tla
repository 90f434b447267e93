------------------------ MODULE ProxyResponseProofs ------------------------
(***************************************************************************)
(* Proofs, for any sizes and status codes: the writer of a proxied         *)
(* response is used by one goroutine at a time, no byte of the body is     *)
(* lost, doubled or overtaken on its way through the writer, and what ends *)
(* without an error is whole.                                              *)
(***************************************************************************)
EXTENDS ProxyResponse, SequenceLemmas

(* Where flushLoop is alive the request is between CopyHeader and Stop, and *)
(* who is in a critical section holds the mutex.                           *)
WriterInv ==
    /\ lpc \in {"off", "select", "lock", "flush", "unlock", "exited"}
    /\ lpc \in {"select", "lock", "flush", "unlock"} <=>
          spc \in {"copy", "lock", "write", "stop"}
    /\ lk = "flushLoop" <=> lpc \in {"flush", "unlock"}
    /\ lk = "server" <=> spc = "write"

(* The initial state satisfies it.                                         *)
LEMMA InitWriter == Init => WriterInv
  BY DEF Init, WriterInv

(* Every step of the two goroutines, the ticker and the client preserves   *)
(* it.                                                                     *)
LEMMA StepWriter == WriterInv /\ [Next]_vars => WriterInv'
  <1> SUFFICES ASSUME WriterInv, [Next]_vars PROVE WriterInv'
    OBVIOUS
  <1> USE DEF WriterInv
  <1>1. CASE RoundTrip
    BY <1>1 DEF RoundTrip
  <1>2. CASE CopyHeader \/ CopyResponse
    BY <1>2 DEF CopyHeader, CopyResponse
  <1>3. CASE Read
    BY <1>3 DEF Read
  <1>4. CASE WriteLock
    BY <1>4 DEF WriteLock
  <1>5. CASE WriteChunk
    BY <1>5 DEF WriteChunk
  <1>6. CASE Stop
    BY <1>6 DEF Stop
  <1>7. CASE CopyTrailers
    BY <1>7 DEF CopyTrailers
  <1>8. CASE Close \/ Finish
    BY <1>8 DEF Close, Finish
  <1>9. CASE TakeTick \/ FlushLock
    BY <1>9 DEF TakeTick, FlushLock
  <1>10. CASE FlushWriter \/ FlushUnlock
    BY <1>10 DEF FlushWriter, FlushUnlock
  <1>11. CASE Tick \/ ClientGone \/ Done \/ UNCHANGED vars
    BY <1>11 DEF Tick, ClientGone, Done, vars
  <1> QED
    BY <1>1, <1>2, <1>3, <1>4, <1>5, <1>6, <1>7, <1>8, <1>9, <1>10, <1>11
       DEF Next, ServeHTTP, FlushLoop

(* No Flush of flushLoop overlaps a Write, the trailers, the gzip Close or *)
(* the end of the response, in any interleaving of ticks, chunks, failures *)
(* and disconnections.                                                     *)
THEOREM WriterExclusive == Spec => []WriterUsedByOne
  <1>1. WriterInv => WriterUsedByOne
    BY DEF WriterInv, WriterUsedByOne
  <1> QED
    BY <1>1, InitWriter, StepWriter, PTL DEF Spec
-----------------------------------------------------------------------------
(* What the writer's methods do to a response, field by field.             *)

Headers == [enc : {"none", "upstream", "gzip"}, length : BOOLEAN]

GzipParts == [active : BOOLEAN, closed : BOOLEAN, code : Codes \union {0},
              buf : Bytes, gz : Bytes]

NetParts == [committed : BOOLEAN, code : Codes \union {0, OK},
             enc : {"none", "upstream", "gzip"}, length : BOOLEAN,
             buf : Bytes, wire : Bytes]

Responses == [hdr : Headers, gw : GzipParts, net : NetParts]

(* What has left the gzip writer's hands or its window, in order; and that *)
(* with what waits for the decision to compress.                           *)
Passed(o) == o.net.wire \o o.net.buf \o o.gw.gz

Held(o) == Passed(o) \o o.gw.buf

(* Facts of SequenceLemmas, for the bytes of a body.                       *)
LEMMA ByteAssoc == \A a, b, c \in Bytes : (a \o b) \o c = a \o (b \o c)
  BY ConcatAssociative DEF Bytes

LEMMA ByteNone == \A a \in Bytes : a \o <<>> = a /\ <<>> \o a = a
  BY NoPiece DEF Bytes

LEMMA ByteConcat == <<>> \in Bytes /\ \A a, b \in Bytes : a \o b \in Bytes
  BY EmptySeq, ConcatProperties DEF Bytes

(* The first WriteHeader decides, and touches no byte.                     *)
LEMMA NetHeader ==
    ASSUME NEW o \in Responses, NEW code \in Codes \union {0, OK}
    PROVE  LET h == NetWriteHeader(o, code)
           IN  /\ h \in Responses
               /\ h.hdr = o.hdr /\ h.gw = o.gw
               /\ h.net.buf = o.net.buf /\ h.net.wire = o.net.wire
               /\ h.net.committed
               /\ o.net.committed => h = o
               /\ ~o.net.committed => /\ h.net.code = code
                                      /\ h.net.enc = o.hdr.enc
                                      /\ h.net.length = o.hdr.length
  BY DEF NetWriteHeader, Responses, NetParts, Headers

(* A response whose status and headers are fixed keeps them.               *)
KeepsHead(o, w) ==
    /\ w.net.committed
    /\ o.net.committed => /\ w.net.code = o.net.code
                          /\ w.net.enc = o.net.enc
                          /\ w.net.length = o.net.length

(* Write of net/http adds to its buffer.                                   *)
LEMMA NetWrites ==
    ASSUME NEW o \in Responses, NEW b \in Bytes
    PROVE  LET w == NetWrite(o, b)
           IN  /\ w \in Responses
               /\ w.hdr = o.hdr /\ w.gw = o.gw
               /\ w.net.buf = o.net.buf \o b /\ w.net.wire = o.net.wire
               /\ KeepsHead(o, w)
  <1> DEFINE h == NetWriteHeader(o, OK)
             B == h.net.buf \o b
             w == [h EXCEPT !.net.buf = B]
  <1>1. /\ h \in Responses
        /\ h.hdr = o.hdr /\ h.gw = o.gw
        /\ h.net.buf = o.net.buf /\ h.net.wire = o.net.wire
        /\ h.net.committed
        /\ o.net.committed => h = o
    BY NetHeader
  <1>2. B \in Bytes /\ B = o.net.buf \o b
    BY <1>1, ByteConcat DEF Responses, NetParts
  <1>3. NetWrite(o, b) = w
    BY DEF NetWrite
  <1> HIDE DEF h, B
  <1>4. /\ w \in Responses /\ w.hdr = h.hdr /\ w.gw = h.gw
        /\ w.net.buf = B /\ w.net.wire = h.net.wire
        /\ w.net.committed = h.net.committed /\ w.net.code = h.net.code
        /\ w.net.enc = h.net.enc /\ w.net.length = h.net.length
    BY <1>1, <1>2 DEF Responses, NetParts
  <1> QED
    BY <1>1, <1>2, <1>3, <1>4 DEF KeepsHead

(* Flush of net/http puts its buffer on the wire.                          *)
LEMMA NetFlushes ==
    ASSUME NEW o \in Responses
    PROVE  LET w == NetFlush(o)
           IN  /\ w \in Responses
               /\ w.hdr = o.hdr /\ w.gw = o.gw
               /\ w.net.buf = <<>> /\ w.net.wire = o.net.wire \o o.net.buf
               /\ KeepsHead(o, w)
  <1> DEFINE h == NetWriteHeader(o, OK)
             B == h.net.wire \o o.net.buf
             w == [h EXCEPT !.net.wire = B, !.net.buf = <<>>]
  <1>1. /\ h \in Responses
        /\ h.hdr = o.hdr /\ h.gw = o.gw
        /\ h.net.buf = o.net.buf /\ h.net.wire = o.net.wire
        /\ h.net.committed
        /\ o.net.committed => h = o
    BY NetHeader
  <1>2. B \in Bytes /\ B = o.net.wire \o o.net.buf /\ <<>> \in Bytes
    BY <1>1, ByteConcat DEF Responses, NetParts
  <1>3. NetFlush(o) = w
    BY DEF NetFlush
  <1> HIDE DEF h, B
  <1>4. /\ w \in Responses /\ w.hdr = h.hdr /\ w.gw = h.gw
        /\ w.net.buf = <<>> /\ w.net.wire = B
        /\ w.net.committed = h.net.committed /\ w.net.code = h.net.code
        /\ w.net.enc = h.net.enc /\ w.net.length = h.net.length
    BY <1>1, <1>2 DEF Responses, NetParts
  <1> QED
    BY <1>1, <1>2, <1>3, <1>4 DEF KeepsHead

(* Another value for the gzip writer's window, the rest as it was.         *)
SameGzip(o, w) ==
    /\ w.gw.active = o.gw.active /\ w.gw.closed = o.gw.closed
    /\ w.gw.code = o.gw.code /\ w.gw.buf = o.gw.buf

LEMMA SetWindow ==
    ASSUME NEW o \in Responses, NEW b \in Bytes
    PROVE  LET w == [o EXCEPT !.gw.gz = b]
           IN  /\ w \in Responses
               /\ w.hdr = o.hdr /\ w.net = o.net
               /\ w.gw.gz = b /\ SameGzip(o, w)
  BY DEF Responses, GzipParts, SameGzip

(* A write to the gzip writer goes into its window ...                     *)
LEMMA GzWrites ==
    ASSUME NEW o \in Responses, NEW b \in Bytes
    PROVE  LET w == GzWrite(o, b)
           IN  /\ w \in Responses
               /\ w.hdr = o.hdr
               /\ w.net.buf = o.net.buf /\ w.net.wire = o.net.wire
               /\ w.gw.gz = o.gw.gz \o b /\ SameGzip(o, w)
               /\ KeepsHead(o, w)
  <1> DEFINE h == NetWriteHeader(o, OK)
             B == h.gw.gz \o b
  <1>1. /\ h \in Responses
        /\ h.hdr = o.hdr /\ h.gw = o.gw
        /\ h.net.buf = o.net.buf /\ h.net.wire = o.net.wire
        /\ KeepsHead(o, h)
    BY NetHeader DEF KeepsHead
  <1>2. B \in Bytes /\ B = o.gw.gz \o b
    BY <1>1, ByteConcat DEF Responses, GzipParts
  <1>3. GzWrite(o, b) = [h EXCEPT !.gw.gz = B]
    BY DEF GzWrite
  <1> HIDE DEF h, B
  <1> DEFINE w == [h EXCEPT !.gw.gz = B]
  <1>4. w \in Responses /\ w.hdr = h.hdr /\ w.net = h.net /\ w.gw.gz = B /\ SameGzip(h, w)
    BY <1>1, <1>2, SetWindow
  <1> HIDE DEF w
  <1> QED
    BY <1>1, <1>2, <1>3, <1>4 DEF KeepsHead, SameGzip, w

(* ... and a flush of it on to net/http.                                   *)
LEMMA GzFlushes ==
    ASSUME NEW o \in Responses
    PROVE  LET w == GzFlush(o)
           IN  /\ w \in Responses
               /\ w.hdr = o.hdr
               /\ w.net.buf = o.net.buf \o o.gw.gz /\ w.net.wire = o.net.wire
               /\ w.gw.gz = <<>> /\ SameGzip(o, w)
               /\ KeepsHead(o, w)
  <1> DEFINE h == NetWrite(o, o.gw.gz)
  <1>1. o.gw.gz \in Bytes /\ <<>> \in Bytes
    BY ByteConcat DEF Responses, GzipParts
  <1>2. /\ h \in Responses
        /\ h.hdr = o.hdr /\ h.gw = o.gw
        /\ h.net.buf = o.net.buf \o o.gw.gz /\ h.net.wire = o.net.wire
        /\ KeepsHead(o, h)
    BY <1>1, NetWrites
  <1>3. GzFlush(o) = [h EXCEPT !.gw.gz = <<>>]
    BY DEF GzFlush
  <1> HIDE DEF h
  <1> DEFINE w == [h EXCEPT !.gw.gz = <<>>]
  <1>4. w \in Responses /\ w.hdr = h.hdr /\ w.net = h.net /\ w.gw.gz = <<>> /\ SameGzip(h, w)
    BY <1>1, <1>2, SetWindow
  <1> HIDE DEF w
  <1> QED
    BY <1>1, <1>2, <1>3, <1>4 DEF KeepsHead, SameGzip, w
-----------------------------------------------------------------------------
(* The writer of either kind.                                              *)

(* Bytes wait for the decision to compress, or are in the window, or       *)
(* neither, never both.                                                    *)
WriterShape(o) ==
    /\ o.gw.active => accepts /\ o.gw.buf = <<>>
    /\ ~o.gw.active => o.gw.gz = <<>>
    /\ ~accepts => o.gw.buf = <<>>

(* The bytes of a response are bytes.                                      *)
LEMMA ByteFields ==
    ASSUME NEW o \in Responses
    PROVE  /\ o.net.wire \in Bytes /\ o.net.buf \in Bytes
           /\ o.gw.gz \in Bytes /\ o.gw.buf \in Bytes
           /\ Passed(o) \in Bytes /\ Held(o) \in Bytes
  <1>1. /\ o.net.wire \in Bytes /\ o.net.buf \in Bytes
        /\ o.gw.gz \in Bytes /\ o.gw.buf \in Bytes
    BY DEF Responses, NetParts, GzipParts
  <1> QED
    BY <1>1, ByteConcat DEF Passed, Held

(* A flush of the gzip window keeps the stream.                            *)
LEMMA GzFlushKeeps ==
    ASSUME NEW o \in Responses
    PROVE  Passed(GzFlush(o)) = Passed(o) /\ Held(GzFlush(o)) = Held(o)
  <1> DEFINE w == GzFlush(o)
  <1>1. /\ w.net.buf = o.net.buf \o o.gw.gz /\ w.net.wire = o.net.wire
        /\ w.gw.gz = <<>> /\ w.gw.buf = o.gw.buf
    BY GzFlushes DEF SameGzip
  <1>2. /\ o.net.wire \in Bytes /\ o.net.buf \in Bytes /\ o.gw.gz \in Bytes
        /\ Passed(o) \in Bytes
    BY ByteFields
  <1>3. o.net.wire \o (o.net.buf \o o.gw.gz) = Passed(o)
    BY <1>2, ByteAssoc DEF Passed
  <1>4. Passed(w) = Passed(o) \o <<>>
    BY <1>1, <1>3 DEF Passed
  <1>5. Passed(w) = Passed(o)
    BY <1>2, <1>4, ByteNone
  <1> HIDE DEF w
  <1>6. Held(w) = Held(o)
    BY <1>1, <1>5 DEF Held
  <1> QED
    BY <1>5, <1>6 DEF w

(* Flush puts all but the waiting bytes on the wire, in order.             *)
LEMMA NetFlushKeeps ==
    ASSUME NEW o \in Responses, o.gw.gz = <<>>
    PROVE  Passed(NetFlush(o)) = Passed(o) /\ Held(NetFlush(o)) = Held(o)
  <1> DEFINE w == NetFlush(o)
             B == o.net.wire \o o.net.buf
  <1>1. /\ w.net.buf = <<>> /\ w.net.wire = B
        /\ w.gw.gz = <<>> /\ w.gw.buf = o.gw.buf
    BY NetFlushes
  <1>2. B \in Bytes
    BY ByteFields, ByteConcat
  <1>3. Passed(o) = B \o <<>>
    BY DEF Passed
  <1> HIDE DEF w, B
  <1>4. Passed(w) = (B \o <<>>) \o <<>>
    BY <1>1 DEF Passed
  <1>5. Passed(w) = Passed(o)
    BY <1>2, <1>3, <1>4, ByteNone
  <1>6. Held(w) = Held(o)
    BY <1>1, <1>5 DEF Held
  <1> QED
    BY <1>5, <1>6 DEF w

(* The same of the writer that the proxy sees, which flushLoop calls.      *)
LEMMA FlushKeeps ==
    ASSUME NEW o \in Responses, WriterShape(o)
    PROVE  LET w == Flush(o)
           IN  /\ w \in Responses
               /\ w.hdr = o.hdr /\ SameGzip(o, w) /\ KeepsHead(o, w)
               /\ WriterShape(w)
               /\ w.net.buf = <<>> /\ w.gw.gz = <<>>
               /\ Held(w) = Held(o)
               /\ ~o.gw.active => w.net.wire = o.net.wire \o o.net.buf
  <1>1. CASE o.gw.active
    <2> DEFINE g == GzFlush(o)
    <2>1. /\ g \in Responses /\ g.hdr = o.hdr
          /\ g.gw.gz = <<>> /\ SameGzip(o, g) /\ KeepsHead(o, g)
      BY GzFlushes
    <2>2. Held(g) = Held(o)
      BY GzFlushKeeps
    <2>3. Flush(o) = NetFlush(g)
      BY <1>1 DEF Flush, GzipFlush, WriterShape
    <2> HIDE DEF g
    <2> DEFINE w == NetFlush(g)
    <2>4. /\ w \in Responses
          /\ w.hdr = g.hdr /\ w.gw = g.gw /\ w.net.buf = <<>> /\ KeepsHead(g, w)
      BY <2>1, NetFlushes
    <2>5. Held(w) = Held(g)
      BY <2>1, NetFlushKeeps
    <2> HIDE DEF w
    <2>6. SameGzip(o, w) /\ KeepsHead(o, w) /\ w.gw.gz = <<>>
      BY <2>1, <2>4 DEF SameGzip, KeepsHead
    <2>7. WriterShape(w)
      BY <2>6 DEF WriterShape, SameGzip
    <2> QED
      BY <1>1, <2>1, <2>2, <2>3, <2>4, <2>5, <2>6, <2>7 DEF w
  <1>2. CASE ~o.gw.active
    <2> DEFINE w == NetFlush(o)
    <2>1. Flush(o) = w /\ o.gw.gz = <<>>
      BY <1>2 DEF Flush, GzipFlush, WriterShape
    <2>2. /\ w \in Responses
          /\ w.hdr = o.hdr /\ w.gw = o.gw /\ w.net.buf = <<>> /\ KeepsHead(o, w)
          /\ w.net.wire = o.net.wire \o o.net.buf
      BY NetFlushes
    <2>3. Held(w) = Held(o)
      BY <2>1, NetFlushKeeps
    <2> HIDE DEF w
    <2>4. WriterShape(w) /\ SameGzip(o, w)
      BY <2>2 DEF WriterShape, SameGzip
    <2> QED
      BY <2>1, <2>2, <2>3, <2>4
  <1> QED
    BY <1>1, <1>2

(* What StartGzip makes of a response: the waiting bytes are in the window.*)
LEMMA GzipStarts ==
    ASSUME NEW o \in Responses, o.gw.gz = <<>>
    PROVE  LET w == StartGzip(o)
           IN  /\ w \in Responses
               /\ w.gw.active /\ w.gw.buf = <<>>
               /\ Held(w) = Held(o)
  <1> DEFINE h == [o EXCEPT !.hdr.enc = "gzip", !.hdr.length = FALSE,
                            !.gw.active = TRUE, !.gw.buf = <<>>]
             g == IF o.gw.code # 0 THEN NetWriteHeader(h, o.gw.code) ELSE h
             w == GzWrite(g, o.gw.buf)
             B == o.net.wire \o o.net.buf
  <1>1. o.gw.buf \in Bytes /\ B \in Bytes /\ <<>> \in Bytes
    BY ByteFields, ByteConcat
  <1>2. /\ h \in Responses
        /\ h.gw.active /\ h.gw.buf = <<>> /\ h.gw.gz = <<>> /\ h.net = o.net
    BY <1>1 DEF Responses, GzipParts, Headers
  <1>3. o.gw.code \in Codes \union {0, OK}
    BY DEF Responses, GzipParts
  <1>4. StartGzip(o) = w
    BY DEF StartGzip
  <1> HIDE DEF h
  <1>5. /\ g \in Responses
        /\ g.gw = h.gw /\ g.net.buf = o.net.buf /\ g.net.wire = o.net.wire
    BY <1>2, <1>3, NetHeader
  <1> HIDE DEF g
  <1>6. /\ w \in Responses
        /\ w.net.buf = g.net.buf /\ w.net.wire = g.net.wire
        /\ w.gw.gz = g.gw.gz \o o.gw.buf /\ SameGzip(g, w)
    BY <1>1, <1>5, GzWrites
  <1> HIDE DEF w
  <1>7. w.gw.active /\ w.gw.buf = <<>> /\ w.gw.gz = <<>> \o o.gw.buf
    BY <1>2, <1>5, <1>6 DEF SameGzip
  <1>8. w.gw.gz = o.gw.buf
    BY <1>1, <1>7, ByteNone
  <1>9. Held(w) = (B \o o.gw.buf) \o <<>>
    BY <1>5, <1>6, <1>7, <1>8 DEF Held, Passed
  <1>10. Held(o) = (B \o <<>>) \o o.gw.buf
    BY DEF Held, Passed
  <1>11. B \o o.gw.buf \in Bytes
    BY <1>1, ByteConcat
  <1> HIDE DEF B
  <1>12. (B \o o.gw.buf) \o <<>> = B \o o.gw.buf
    BY <1>11, ByteNone
  <1>13. B \o <<>> = B
    BY <1>1, ByteNone
  <1> QED
    BY <1>4, <1>6, <1>7, <1>9, <1>10, <1>12, <1>13

(* A write of either kind adds its bytes after all others; compression     *)
(* starts only for a body without encoding, and without it fewer than      *)
(* MinSize bytes wait.                                                     *)
LEMMA WriteAdds ==
    ASSUME NEW o \in Responses, NEW b \in Bytes, WriterShape(o)
    PROVE  LET w == Write(o, b)
           IN  /\ w \in Responses
               /\ WriterShape(w)
               /\ Held(w) = Held(o) \o b
               /\ o.gw.active => w.gw.active
               /\ w.gw.active => o.gw.active \/ o.hdr.enc = "none"
               /\ ~w.gw.active => w.hdr = o.hdr
               /\ ~w.gw.active /\ accepts =>
                     /\ w.net = o.net
                     /\ o.hdr.enc = "none" => Len(w.gw.buf) < MinSize
               /\ ~accepts => KeepsHead(o, w)
  <1>0. /\ o.gw.gz \in Bytes /\ o.gw.buf \in Bytes /\ Passed(o) \in Bytes
        /\ o.net.buf \in Bytes /\ o.net.wire \in Bytes /\ Held(o) \in Bytes
    BY ByteFields
  <1>1. CASE o.gw.active
    <2> DEFINE w == GzWrite(o, b)
               B == o.net.wire \o o.net.buf
    <2>1. Write(o, b) = w /\ accepts /\ o.gw.buf = <<>>
      BY <1>1 DEF Write, GzipWrite, WriterShape
    <2>2. /\ w \in Responses
          /\ w.net.buf = o.net.buf /\ w.net.wire = o.net.wire
          /\ w.gw.gz = o.gw.gz \o b /\ SameGzip(o, w)
      BY GzWrites
    <2> HIDE DEF w
    <2>3. WriterShape(w) /\ w.gw.active /\ w.gw.buf = <<>>
      BY <1>1, <2>1, <2>2 DEF WriterShape, SameGzip
    <2>4. B \in Bytes
      BY <1>0, ByteConcat
    <2>5. Passed(w) = B \o (o.gw.gz \o b)
      BY <2>2 DEF Passed
    <2>6. Passed(o) = B \o o.gw.gz
      BY DEF Passed
    <2> HIDE DEF B
    <2>a. (B \o o.gw.gz) \o b = B \o (o.gw.gz \o b)
      BY <1>0, <2>4, ByteAssoc, Zenon
    <2>7. Passed(w) = Passed(o) \o b
      BY <2>5, <2>6, <2>a
    <2>8. Held(w) = Passed(w) /\ Held(o) = Passed(o)
      <3>1. Passed(w) \in Bytes
        BY <2>2, ByteFields
      <3>2. Held(w) = Passed(w) \o <<>> /\ Held(o) = Passed(o) \o <<>>
        BY <2>1, <2>3 DEF Held
      <3> QED
        BY <1>0, <3>1, <3>2, ByteNone
    <2> QED
      BY <1>1, <2>1, <2>2, <2>3, <2>7, <2>8
  <1>2. CASE ~o.gw.active /\ accepts
    <2> DEFINE B == o.gw.buf \o b
               a == [o EXCEPT !.gw.buf = B]
    <2>1. B \in Bytes /\ o.gw.gz = <<>>
      BY <1>0, <1>2, ByteConcat DEF WriterShape
    <2>2. Write(o, b) = IF o.hdr.enc = "none" /\ Len(B) >= MinSize THEN StartGzip(a) ELSE a
      <3>1. a.gw.buf = B
        BY DEF Responses, GzipParts
      <3> QED
        BY <1>2, <3>1 DEF Write, GzipWrite
    <2>a. (Passed(o) \o o.gw.buf) \o b = Passed(o) \o (o.gw.buf \o b)
      <3> DEFINE P == Passed(o)
                 c == o.gw.buf
      <3>1. P \in Bytes /\ c \in Bytes
        BY <1>0
      <3> HIDE DEF P, c
      <3>2. (P \o c) \o b = P \o (c \o b)
        BY <3>1, ByteAssoc
      <3> QED
        BY <3>2 DEF P, c
    <2>3. (Passed(o) \o o.gw.buf) \o b = Passed(o) \o B
      BY <2>a
    <2> HIDE DEF B
    <2>4. /\ a \in Responses /\ a.gw.buf = B /\ a.gw.gz = <<>> /\ ~a.gw.active
          /\ a.net = o.net /\ a.hdr = o.hdr
      BY <1>2, <2>1 DEF Responses, GzipParts
    <2> HIDE DEF a
    <2>5. Held(a) = Held(o) \o b
      BY <2>1, <2>3, <2>4 DEF Held, Passed
    <2>6. CASE o.hdr.enc = "none" /\ Len(B) >= MinSize
      <3> DEFINE w == StartGzip(a)
      <3>1. w \in Responses /\ w.gw.active /\ w.gw.buf = <<>> /\ Held(w) = Held(a)
        BY <2>4, GzipStarts
      <3>2. Write(o, b) = w
        BY <2>2, <2>6
      <3> HIDE DEF w
      <3>3. WriterShape(w)
        BY <1>2, <3>1 DEF WriterShape
      <3> QED
        BY <1>2, <2>5, <2>6, <3>1, <3>2, <3>3
    <2>7. CASE ~(o.hdr.enc = "none" /\ Len(B) >= MinSize)
      <3>1. Write(o, b) = a /\ WriterShape(a)
        BY <1>2, <2>2, <2>4, <2>7 DEF WriterShape
      <3>2. o.hdr.enc = "none" => Len(B) < MinSize
        BY <2>1, <2>7, SizesAssumption DEF Bytes
      <3> QED
        BY <1>2, <2>4, <2>5, <3>1, <3>2
    <2> QED
      BY <2>6, <2>7
  <1>3. CASE ~accepts
    <2> DEFINE w == NetWrite(o, b)
    <2>1. Write(o, b) = w /\ o.gw.gz = <<>> /\ o.gw.buf = <<>> /\ ~o.gw.active
      BY <1>3 DEF Write, WriterShape
    <2>2. /\ w \in Responses
          /\ w.hdr = o.hdr /\ w.gw = o.gw
          /\ w.net.buf = o.net.buf \o b /\ w.net.wire = o.net.wire
          /\ KeepsHead(o, w)
      BY NetWrites
    <2> HIDE DEF w
    <2>3. WriterShape(w)
      BY <2>2 DEF WriterShape
    <2>4. Held(w) = ((o.net.wire \o (o.net.buf \o b)) \o <<>>) \o <<>>
      BY <2>1, <2>2 DEF Held, Passed
    <2>5. Held(o) = ((o.net.wire \o o.net.buf) \o <<>>) \o <<>>
      BY <2>1 DEF Held, Passed
    <2> DEFINE B == o.net.wire \o o.net.buf
               C == o.net.wire \o (o.net.buf \o b)
    <2>6. C = B \o b
      BY <1>0, ByteAssoc
    <2>7. B \in Bytes /\ C \in Bytes
      BY <1>0, ByteConcat
    <2> HIDE DEF B, C
    <2>8. Held(w) = C /\ Held(o) = B
      BY <2>4, <2>5, <2>7, ByteNone DEF B, C
    <2> QED
      BY <1>3, <2>1, <2>2, <2>3, <2>6, <2>8
  <1> QED
    BY <1>1, <1>2, <1>3

(* What compress/gzip lets out between flushes keeps the stream.           *)
LEMMA EmitKeeps ==
    ASSUME NEW o \in Responses, WriterShape(o), NEW w \in GzMayEmit(o)
    PROVE  /\ w \in Responses
           /\ WriterShape(w)
           /\ Held(w) = Held(o)
           /\ w.hdr = o.hdr /\ w.gw.active = o.gw.active
           /\ ~o.gw.active => w = o
  <1>1. CASE w = GzFlush(o) /\ o.gw.active
    <2>1. /\ w \in Responses /\ w.hdr = o.hdr
          /\ w.gw.gz = <<>> /\ SameGzip(o, w) /\ Held(w) = Held(o)
      BY <1>1, GzFlushes, GzFlushKeeps
    <2> QED
      BY <1>1, <2>1 DEF WriterShape, SameGzip
  <1>2. CASE w = o
    BY <1>2
  <1> QED
    BY <1>1, <1>2 DEF GzMayEmit

(* After the close nothing is left in the gzip writer's hands: all that was *)
(* written is on the wire or in net/http's buffer, and the footer follows. *)
LEMMA CloseMoves ==
    ASSUME NEW o \in Responses, WriterShape(o)
    PROVE  LET w == IF accepts THEN GzipClose(o) ELSE o
           IN  /\ w \in Responses
               /\ WriterShape(w)
               /\ Passed(w) = Held(o)
               /\ w.gw.gz = <<>>
               /\ w.gw.active = o.gw.active
               /\ w.gw.active => w.gw.closed
  <1>0. /\ o.gw.gz \in Bytes /\ o.gw.buf \in Bytes /\ Passed(o) \in Bytes
        /\ o.net.buf \in Bytes /\ o.net.wire \in Bytes
    BY ByteFields
  <1>a. o.gw.buf = <<>> => Held(o) = Passed(o)
    BY <1>0, ByteNone DEF Held
  <1>1. CASE ~accepts
    BY <1>1, <1>a DEF WriterShape
  <1>2. CASE accepts /\ o.gw.active
    <2> DEFINE g == GzFlush(o)
               w == [g EXCEPT !.gw.closed = TRUE]
    <2>1. GzipClose(o) = w
      BY <1>2 DEF GzipClose
    <2>2. g \in Responses /\ g.gw.gz = <<>> /\ SameGzip(o, g) /\ Passed(g) = Passed(o)
      BY GzFlushes, GzFlushKeeps
    <2> HIDE DEF g
    <2>3. /\ w \in Responses /\ w.net = g.net /\ w.gw.closed
          /\ w.gw.gz = g.gw.gz /\ w.gw.active = g.gw.active /\ w.gw.buf = g.gw.buf
      BY <2>2 DEF Responses, GzipParts
    <2> HIDE DEF w
    <2>4. Passed(w) = Passed(g)
      BY <2>3 DEF Passed
    <2>5. WriterShape(w) /\ w.gw.active = o.gw.active /\ w.gw.gz = <<>>
      BY <2>2, <2>3 DEF WriterShape, SameGzip
    <2> QED
      BY <1>2, <1>a, <2>1, <2>2, <2>3, <2>4, <2>5 DEF WriterShape
  <1>3. CASE accepts /\ ~o.gw.active
    <2> DEFINE h == IF o.gw.code # 0 THEN NetWriteHeader(o, o.gw.code) ELSE o
    <2>1. o.gw.code \in Codes \union {0, OK} /\ o.gw.gz = <<>>
      BY <1>3 DEF Responses, GzipParts, WriterShape
    <2>2. /\ h \in Responses /\ h.gw = o.gw
          /\ h.net.buf = o.net.buf /\ h.net.wire = o.net.wire
      BY <2>1, NetHeader
    <2>3. GzipClose(o) = IF o.gw.buf # <<>> THEN NetWrite(h, o.gw.buf) ELSE h
      BY <1>3 DEF GzipClose
    <2> HIDE DEF h
    <2>4. WriterShape(h) /\ Passed(h) = Passed(o)
      BY <2>2 DEF WriterShape, Passed
    <2>5. CASE o.gw.buf = <<>>
      BY <1>3, <1>a, <2>1, <2>2, <2>3, <2>4, <2>5
    <2>6. CASE o.gw.buf # <<>>
      <3> DEFINE w == NetWrite(h, o.gw.buf)
                 B == o.net.wire \o o.net.buf
                 c == o.gw.buf
      <3>1. /\ w \in Responses /\ w.gw = h.gw
            /\ w.net.buf = h.net.buf \o c /\ w.net.wire = h.net.wire
        BY <1>0, <2>2, NetWrites
      <3> HIDE DEF w
      <3>2. WriterShape(w) /\ w.gw.gz = <<>> /\ w.gw.active = o.gw.active
        BY <2>1, <2>2, <3>1 DEF WriterShape
      <3>3. Passed(w) = (o.net.wire \o (o.net.buf \o c)) \o <<>>
        BY <2>2, <3>1, <3>2 DEF Passed
      <3>4. Held(o) = (B \o <<>>) \o c
        BY <2>1 DEF Held, Passed
      <3>5. B \in Bytes /\ c \in Bytes /\ o.net.wire \o (o.net.buf \o c) \in Bytes
        BY <1>0, ByteConcat
      <3>6. o.net.wire \o (o.net.buf \o c) = B \o c
        BY <1>0, ByteAssoc
      <3> HIDE DEF B, c
      <3>7. Passed(w) = B \o c
        BY <3>3, <3>5, <3>6, ByteNone
      <3>8. B \o <<>> = B
        BY <3>5, ByteNone
      <3>9. Passed(w) = Held(o)
        BY <3>4, <3>7, <3>8
      <3> QED
        BY <1>3, <2>3, <2>6, <3>1, <3>2, <3>9 DEF w
    <2> QED
      BY <2>5, <2>6
  <1> QED
    BY <1>1, <1>2, <1>3
-----------------------------------------------------------------------------
(* The state of the writer at each point of the request.                   *)

UpstreamHead == [enc |-> up.enc, length |-> up.length]

(* Until CopyHeader the response is as net/http made it; without           *)
(* compression a GzipResponseWriter keeps all it gets, less than MinSize   *)
(* of it if the body has no encoding of its own, which is what compression *)
(* asks for; the close and the end of the response empty the window and    *)
(* the buffer, and a flush both, until the mutex is released; a plain      *)
(* response has had its head since CopyHeader.                             *)
OutInv ==
    /\ out \in Responses
    /\ WriterShape(out)
    /\ spc \in {"roundTrip", "header"} =>
          ~out.net.committed /\ ~out.gw.active /\ out.gw.buf = <<>>
    /\ accepts /\ ~out.gw.active /\ spc \notin {"finish", "done"} =>
          out.net.wire = <<>> /\ out.net.buf = <<>>
    /\ spc \in {"copyResponse", "copy", "lock", "write", "stop"} /\ ~out.gw.active =>
          out.hdr = UpstreamHead /\ (up.enc = "none" => Len(out.gw.buf) < MinSize)
    /\ out.gw.active => up.enc = "none"
    /\ spc \in {"finish", "done"} =>
          out.gw.gz = <<>> /\ (out.gw.active => out.gw.closed)
    /\ spc = "done" => out.net.buf = <<>>
    /\ lpc = "unlock" => out.net.buf = <<>> /\ out.gw.gz = <<>>
    /\ ~accepts /\ (spc = "copyResponse" \/ lpc # "off") =>
          /\ out.net.committed
          /\ out.net.code = up.code
          /\ out.net.enc = up.enc
          /\ out.net.length = up.length

(* The initial state satisfies it.                                         *)
LEMMA InitOut == Init => OutInv
  <1> SUFFICES ASSUME Init PROVE OutInv
    OBVIOUS
  <1>1. out \in Responses
    BY ByteConcat DEF Init, Responses, Headers, GzipParts, NetParts
  <1> QED
    BY <1>1 DEF Init, OutInv, WriterShape

(* Steps that leave the response alone, by where the two goroutines get.   *)
LEMMA OutSame ==
    ASSUME OutInv, UNCHANGED <<accepts, up, out>>,
           spc' \in {"roundTrip", "header"} => spc \in {"roundTrip", "header"},
           spc' \in {"copyResponse", "copy", "lock", "write", "stop"} =>
              spc \in {"copyResponse", "copy", "lock", "write", "stop"},
           spc' \in {"finish", "done"} <=> spc \in {"finish", "done"},
           spc' = "done" => spc = "done",
           lpc' = "unlock" => lpc = "unlock",
           spc' = "copyResponse" \/ lpc' # "off" => spc = "copyResponse" \/ lpc # "off"
    PROVE  OutInv'
  BY DEF OutInv, WriterShape, UpstreamHead

(* The head of the upstream's response, the flush for its trailers too.    *)
LEMMA OutHeader == TypeOK /\ WriterInv /\ OutInv /\ CopyHeader => OutInv'
  <1> SUFFICES ASSUME TypeOK, WriterInv, OutInv, CopyHeader PROVE OutInv'
    OBVIOUS
  <1> DEFINE h == [out EXCEPT !.hdr = UpstreamHead]
             w == WriteHeader(h, up.code)
  <1>1. /\ out \in Responses /\ WriterShape(out)
        /\ spc = "header" /\ lpc \notin {"unlock", "flush"}
        /\ ~out.net.committed /\ ~out.gw.active /\ out.gw.buf = <<>>
        /\ accepts => out.net.wire = <<>> /\ out.net.buf = <<>>
    BY DEF CopyHeader, WriterInv, OutInv
  <1>2. up.code \in Codes /\ up.enc \in {"none", "upstream"} /\ up.length \in BOOLEAN
    BY DEF TypeOK, Upstreams
  <1>3. /\ spc' = "copyResponse" /\ UNCHANGED <<accepts, up, lpc>>
        /\ out' = IF up.trailer THEN Flush(w) ELSE w
    BY DEF CopyHeader, UpstreamHead
  <1>4. UpstreamHead \in Headers /\ UpstreamHead.enc = up.enc /\ UpstreamHead.length = up.length
    BY <1>2 DEF UpstreamHead, Headers
  <1>5. h \in Responses /\ h.hdr = UpstreamHead /\ h.gw = out.gw /\ h.net = out.net
    BY <1>1, <1>4 DEF Responses
  <1> HIDE DEF h
  <1>6. /\ w \in Responses /\ WriterShape(w)
        /\ w.hdr = UpstreamHead /\ ~w.gw.active /\ w.gw.buf = <<>>
        /\ accepts => w.net.wire = <<>> /\ w.net.buf = <<>>
        /\ ~accepts => /\ w.net.committed /\ w.net.code = up.code
                       /\ w.net.enc = up.enc /\ w.net.length = up.length
    <2>1. CASE accepts
      <3>1. w = [h EXCEPT !.gw.code = up.code]
        BY <2>1 DEF WriteHeader, GzipWriteHeader
      <3>2. /\ w \in Responses /\ w.hdr = h.hdr /\ w.net = h.net
            /\ w.gw.active = h.gw.active /\ w.gw.buf = h.gw.buf /\ w.gw.gz = h.gw.gz
        BY <1>2, <1>5, <3>1 DEF Responses, GzipParts
      <3> QED
        BY <1>1, <1>5, <2>1, <3>2 DEF WriterShape
    <2>2. CASE ~accepts
      <3>1. w = NetWriteHeader(h, up.code)
        BY <2>2 DEF WriteHeader
      <3>2. /\ w \in Responses /\ w.hdr = h.hdr /\ w.gw = h.gw
            /\ w.net.committed /\ w.net.code = up.code
            /\ w.net.enc = h.hdr.enc /\ w.net.length = h.hdr.length
        BY <1>1, <1>2, <1>5, <3>1, NetHeader
      <3> QED
        BY <1>1, <1>4, <1>5, <2>2, <3>2 DEF WriterShape
    <2> QED
      BY <2>1, <2>2
  <1> HIDE DEF w
  <1>7. /\ out' \in Responses /\ WriterShape(out')
        /\ out'.hdr = UpstreamHead /\ ~out'.gw.active /\ out'.gw.buf = <<>>
        /\ accepts => out'.net.wire = <<>> /\ out'.net.buf = <<>>
        /\ ~accepts => /\ out'.net.committed /\ out'.net.code = up.code
                       /\ out'.net.enc = up.enc /\ out'.net.length = up.length
    <2>1. CASE up.trailer
      <3> DEFINE f == Flush(w)
      <3>1. /\ f \in Responses /\ WriterShape(f)
            /\ f.hdr = w.hdr /\ SameGzip(w, f) /\ KeepsHead(w, f)
            /\ f.net.buf = <<>> /\ f.net.wire = w.net.wire \o w.net.buf
        BY <1>6, FlushKeeps
      <3>2. accepts => f.net.wire = <<>>
        BY <1>6, <3>1, ByteConcat, ByteNone
      <3> HIDE DEF f
      <3>3. out' = f
        BY <1>3, <2>1 DEF f
      <3> QED
        BY <1>6, <3>1, <3>2, <3>3 DEF SameGzip, KeepsHead
    <2>2. CASE ~up.trailer
      BY <1>3, <1>6, <2>2
    <2> QED
      BY <2>1, <2>2
  <1>8. (up.enc = "none" => Len(out'.gw.buf) < MinSize) /\ UpstreamHead' = UpstreamHead
    BY <1>3, <1>7, SizesAssumption DEF UpstreamHead
  <1>9. WriterShape(out)'
    BY <1>3, <1>7 DEF WriterShape
  <1> QED
    BY <1>1, <1>3, <1>7, <1>8, <1>9 DEF OutInv

(* A chunk written, or refused.                                            *)
LEMMA OutWrite == TypeOK /\ WriterInv /\ OutInv /\ WriteChunk => OutInv'
  <1> SUFFICES ASSUME TypeOK, WriterInv, OutInv, WriteChunk PROVE OutInv'
    OBVIOUS
  <1>1. /\ spc = "write" /\ lpc # "unlock" /\ lpc # "off" /\ spc' \in {"copy", "stop"}
        /\ UNCHANGED <<accepts, up, lpc>>
    BY DEF WriteChunk, WriterInv
  <1>2. CASE out' = out
    BY <1>1, <1>2, OutSame
  <1>3. CASE out' # out
    <2> DEFINE w == Write(out, chunk)
    <2>1. out' \in GzMayEmit(w)
      BY <1>3 DEF WriteChunk
    <2>2. out \in Responses /\ WriterShape(out) /\ chunk \in Bytes
      BY DEF OutInv, TypeOK
    <2>3. /\ w \in Responses /\ WriterShape(w)
          /\ out.gw.active => w.gw.active
          /\ w.gw.active => out.gw.active \/ out.hdr.enc = "none"
          /\ ~w.gw.active => w.hdr = out.hdr
          /\ ~w.gw.active /\ accepts =>
                /\ w.net = out.net
                /\ out.hdr.enc = "none" => Len(w.gw.buf) < MinSize
          /\ ~accepts => KeepsHead(out, w)
      BY <2>2, WriteAdds
    <2> HIDE DEF w
    <2>4. /\ out' \in Responses /\ WriterShape(out')
          /\ out'.hdr = w.hdr /\ out'.gw.active = w.gw.active
          /\ ~w.gw.active => out' = w
      BY <2>1, <2>3, EmitKeeps
    <2>5. WriterShape(out)' /\ UpstreamHead' = UpstreamHead
      BY <1>1, <2>4 DEF WriterShape, UpstreamHead
    <2>6. ~out.gw.active => out.hdr = UpstreamHead /\ out.hdr.enc = up.enc
      BY <1>1 DEF OutInv, UpstreamHead
    <2>7. out'.gw.active => up.enc = "none"
      BY <2>3, <2>4, <2>6 DEF OutInv
    <2>8. CASE out'.gw.active
      BY <1>1, <2>4, <2>5, <2>7, <2>8 DEF OutInv, WriterShape
    <2>9. CASE ~out'.gw.active
      <3>1. out' = w /\ ~w.gw.active /\ ~out.gw.active
        BY <2>3, <2>4, <2>9
      <3>2. out'.hdr = UpstreamHead /\ (up.enc = "none" => Len(out'.gw.buf) < MinSize)
        <4>1. CASE accepts
          BY <2>3, <2>6, <3>1, <4>1
        <4>2. CASE ~accepts
          BY <2>3, <2>6, <3>1, <4>2, SizesAssumption DEF WriterShape
        <4> QED
          BY <4>1, <4>2
      <3>3. accepts => out'.net.wire = <<>> /\ out'.net.buf = <<>>
        BY <1>1, <2>3, <3>1 DEF OutInv
      <3>4. ~accepts => /\ out'.net.committed /\ out'.net.code = up.code
                        /\ out'.net.enc = up.enc /\ out'.net.length = up.length
        BY <1>1, <2>3, <3>1 DEF OutInv, KeepsHead
      <3> QED
        BY <1>1, <2>4, <2>5, <2>9, <3>2, <3>3, <3>4 DEF OutInv
    <2> QED
      BY <2>8, <2>9
  <1> QED
    BY <1>2, <1>3

(* The periodic flush.                                                     *)
LEMMA OutFlush == WriterInv /\ OutInv /\ FlushWriter => OutInv'
  <1> SUFFICES ASSUME WriterInv, OutInv, FlushWriter PROVE OutInv'
    OBVIOUS
  <1> DEFINE w == Flush(out)
  <1>1. /\ spc \in {"copy", "lock", "write", "stop"} /\ lpc = "flush" /\ lpc' = "unlock"
        /\ UNCHANGED <<accepts, up, spc>> /\ out' = w
    BY DEF FlushWriter, WriterInv
  <1>2. out \in Responses /\ WriterShape(out)
    BY DEF OutInv
  <1>3. /\ w \in Responses /\ w.hdr = out.hdr /\ SameGzip(out, w) /\ KeepsHead(out, w)
        /\ WriterShape(w) /\ w.net.buf = <<>> /\ w.gw.gz = <<>>
        /\ ~out.gw.active => w.net.wire = out.net.wire \o out.net.buf
    BY <1>2, FlushKeeps
  <1>4. accepts /\ ~out.gw.active => w.net.wire = <<>>
    <2>1. accepts /\ ~out.gw.active => out.net.wire = <<>> /\ out.net.buf = <<>>
      BY <1>1 DEF OutInv
    <2> QED
      BY <1>3, <2>1, ByteConcat, ByteNone
  <1> HIDE DEF w
  <1>5. WriterShape(out)' /\ UpstreamHead' = UpstreamHead
    BY <1>1, <1>3 DEF WriterShape, UpstreamHead
  <1> QED
    BY <1>1, <1>3, <1>4, <1>5 DEF OutInv, SameGzip, KeepsHead

(* The close of the gzip writer, and the end of the response.              *)
LEMMA OutClose == WriterInv /\ OutInv /\ (Close \/ Finish) => OutInv'
  <1> SUFFICES ASSUME WriterInv, OutInv PROVE Close \/ Finish => OutInv'
    OBVIOUS
  <1>1. out \in Responses /\ WriterShape(out)
    BY DEF OutInv
  <1>2. ASSUME Close PROVE OutInv'
    <2> DEFINE w == IF accepts THEN GzipClose(out) ELSE out
    <2>1. /\ spc = "close" /\ spc' = "finish" /\ out' = w /\ UNCHANGED <<accepts, up, lpc>>
          /\ lpc # "unlock"
      BY <1>2 DEF Close, WriterInv
    <2>2. /\ w \in Responses /\ WriterShape(w) /\ w.gw.gz = <<>>
          /\ w.gw.active = out.gw.active /\ (w.gw.active => w.gw.closed)
      BY <1>1, CloseMoves
    <2>3. ~accepts => w = out
      OBVIOUS
    <2> HIDE DEF w
    <2>4. WriterShape(out)'
      BY <2>1, <2>2 DEF WriterShape
    <2> QED
      BY <2>1, <2>2, <2>3, <2>4 DEF OutInv
  <1>3. ASSUME Finish PROVE OutInv'
    <2> DEFINE w == NetFlush(out)
    <2>1. /\ spc = "finish" /\ spc' = "done" /\ out' = w /\ UNCHANGED <<accepts, up, lpc>>
          /\ lpc # "unlock"
      BY <1>3 DEF Finish, WriterInv
    <2>2. /\ w \in Responses /\ w.gw = out.gw /\ w.net.buf = <<>> /\ KeepsHead(out, w)
      BY <1>1, NetFlushes
    <2> HIDE DEF w
    <2>3. WriterShape(out)'
      BY <1>1, <2>1, <2>2 DEF WriterShape
    <2> QED
      BY <2>1, <2>2, <2>3 DEF OutInv, KeepsHead
  <1> QED
    BY <1>2, <1>3

(* Every step preserves it.                                                *)
LEMMA OutStep == TypeOK /\ WriterInv /\ OutInv /\ [Next]_vars => OutInv'
  <1> SUFFICES ASSUME TypeOK, WriterInv, OutInv, [Next]_vars PROVE OutInv'
    OBVIOUS
  <1>1. CASE RoundTrip \/ CopyResponse \/ Read \/ WriteLock \/ Stop \/ CopyTrailers
    BY <1>1, OutSame DEF RoundTrip, CopyResponse, Read, WriteLock, Stop, CopyTrailers, WriterInv
  <1>2. CASE TakeTick \/ FlushLock \/ FlushUnlock \/ Tick \/ ClientGone \/ UNCHANGED vars
    BY <1>2, OutSame DEF TakeTick, FlushLock, FlushUnlock, Tick, ClientGone, vars, WriterInv
  <1> QED
    BY <1>1, <1>2, OutHeader, OutWrite, OutFlush, OutClose DEF Next, ServeHTTP, FlushLoop, Done
-----------------------------------------------------------------------------
(* Types.                                                                  *)

(* The chunk that io.CopyBuffer reads.                                     *)
LEMMA ChunkRead ==
    ASSUME NEW size \in 0 .. MaxBody, NEW r \in 0 .. size, NEW n \in 1 .. size - r
    PROVE  [i \in 1 .. n |-> r + i] \in Bytes /\ r + n \in 0 .. size
  <1>1. n \in Nat /\ r + n \in 0 .. size
    BY SizesAssumption
  <1>2. \A i \in 1 .. n : r + i \in 1 .. MaxBody
    BY <1>1, SizesAssumption
  <1> QED
    BY <1>1, <1>2 DEF Bytes

LEMMA InitType == Init => TypeOK
  <1> SUFFICES ASSUME Init PROVE TypeOK
    OBVIOUS
  <1>1. up.size \in 0 .. MaxBody
    BY DEF Init, Upstreams
  <1>2. read \in 0 .. up.size
    BY <1>1, SizesAssumption DEF Init
  <1> QED
    BY <1>2, ByteConcat DEF Init, TypeOK

LEMMA StepType == TypeOK /\ OutInv' /\ [Next]_vars => TypeOK'
  <1> SUFFICES ASSUME TypeOK, OutInv', [Next]_vars PROVE TypeOK'
    OBVIOUS
  <1>1. out'.hdr \in Headers /\ out'.gw \in GzipParts /\ out'.net \in NetParts
    BY DEF OutInv, Responses
  <1>2. UNCHANGED <<accepts, up>>
    BY DEF Next, ServeHTTP, FlushLoop, RoundTrip, CopyHeader, CopyResponse, Read, WriteLock,
           WriteChunk, Stop, CopyTrailers, Close, Finish, Done, TakeTick, FlushLock,
           FlushWriter, FlushUnlock, Tick, ClientGone, vars
  <1>3. /\ read' \in 0 .. up.size /\ chunk' \in Bytes
        /\ spc' \in {"roundTrip", "header", "copyResponse", "copy", "lock", "write",
                     "stop", "trailers", "close", "finish", "done"}
        /\ lpc' \in {"off", "select", "lock", "flush", "unlock", "exited"}
        /\ lk' \in {"free", "server", "flushLoop"}
        /\ tick' \in BOOLEAN /\ gone' \in BOOLEAN /\ failed' \in BOOLEAN
    <2>1. CASE Read
      <3>1. up.size \in 0 .. MaxBody
        BY DEF TypeOK, Upstreams
      <3>2. \A n \in 1 .. up.size - read :
                [i \in 1 .. n |-> read + i] \in Bytes /\ read + n \in 0 .. up.size
        BY <3>1, ChunkRead DEF TypeOK
      <3>3. read' \in 0 .. up.size /\ chunk' \in Bytes
        BY <2>1, <3>2 DEF Read, TypeOK
      <3> QED
        BY <2>1, <3>3 DEF Read, TypeOK
    <2>2. CASE WriteChunk
      BY <2>2, ByteConcat DEF WriteChunk, TypeOK, Failing
    <2>3. CASE Close \/ FlushWriter
      BY <2>3 DEF Close, FlushWriter, TypeOK, Failing
    <2>4. CASE RoundTrip \/ CopyHeader \/ CopyResponse \/ WriteLock \/ Stop \/ CopyTrailers
      BY <2>4 DEF RoundTrip, CopyHeader, CopyResponse, WriteLock, Stop, CopyTrailers, TypeOK
    <2>5. CASE Finish \/ TakeTick \/ FlushLock \/ FlushUnlock \/ Tick \/ ClientGone
      BY <2>5 DEF Finish, TakeTick, FlushLock, FlushUnlock, Tick, ClientGone, TypeOK
    <2>6. CASE UNCHANGED vars
      BY <2>6 DEF vars, TypeOK
    <2> QED
      BY <2>1, <2>2, <2>3, <2>4, <2>5, <2>6 DEF Next, ServeHTTP, FlushLoop, Done
  <1> QED
    BY <1>1, <1>2, <1>3 DEF TypeOK, Headers, GzipParts, NetParts

(* The response, the chunk on its way and the state of the goroutines keep *)
(* their types, through every method of the writer; no byte is read past   *)
(* the end of the upstream's body.                                         *)
THEOREM TypeCorrect == Spec => []TypeOK
  BY InitWriter, StepWriter, InitOut, OutStep, InitType, StepType, PTL DEF Spec

(* A client that does not accept gzip gets the head of the upstream's      *)
(* response as it is, also when flushLoop is the first to write.           *)
THEOREM PlainHeadKept == Spec => []PlainClientUnmodified
  <1>1. OutInv => PlainClientUnmodified
    BY DEF OutInv, PlainClientUnmodified
  <1> QED
    BY <1>1, InitWriter, StepWriter, InitOut, OutStep, InitType, StepType, PTL DEF Spec

(* A periodic flush leaves nothing behind but the beginning of a body that *)
(* may still turn out too short to be compressed.                          *)
THEOREM FlushReaches == Spec => []FlushLeavesOnlyBuffer
  <1>1. WriterInv /\ OutInv => FlushLeavesOnlyBuffer
    <2> SUFFICES ASSUME WriterInv, OutInv, lpc = "unlock"
                 PROVE  /\ out.net.buf = <<>> /\ out.gw.gz = <<>>
                        /\ out.gw.buf # <<>> => accepts /\ out.net.wire = <<>>
                        /\ up.enc = "none" => Len(out.gw.buf) < MinSize
      BY DEF FlushLeavesOnlyBuffer
    <2>1. spc \in {"copy", "lock", "write", "stop"}
      BY DEF WriterInv
    <2>2. CASE out.gw.active
      BY <2>2, SizesAssumption DEF OutInv, WriterShape
    <2>3. CASE ~out.gw.active
      BY <2>1, <2>3 DEF OutInv, WriterShape
    <2> QED
      BY <2>2, <2>3
  <1> QED
    BY <1>1, InitWriter, StepWriter, InitOut, OutStep, InitType, StepType, PTL DEF Spec
-----------------------------------------------------------------------------
(* The stream of bytes.                                                    *)

Body(n) == [i \in 1 .. n |-> i]

(* What was read is in the chunk or in the writer, and from the close on   *)
(* in the hands of net/http; a copy that stops without an error has read   *)
(* it all.                                                                 *)
StreamInv ==
    /\ spc \notin {"lock", "write"} => chunk = <<>>
    /\ (spc = "stop" \/ lpc = "exited") /\ ~failed => read = up.size
    /\ ~failed /\ spc \notin {"finish", "done"} => Held(out) \o chunk = Body(read)
    /\ ~failed /\ spc \in {"finish", "done"} => Passed(out) = Body(read)

(* The initial state satisfies it.                                         *)
LEMMA InitStream == Init => StreamInv
  <1> SUFFICES ASSUME Init PROVE StreamInv
    OBVIOUS
  <1>1. <<>> \o <<>> = <<>> /\ Body(0) = <<>>
    BY ByteConcat, ByteNone DEF Body
  <1>2. Held(out) \o chunk = ((<<>> \o <<>>) \o <<>> \o <<>>) \o <<>>
    BY DEF Init, Held, Passed
  <1> QED
    BY <1>1, <1>2 DEF Init, StreamInv

(* The head and the flush for the trailers move no byte.                   *)
LEMMA HeaderKeeps == TypeOK /\ OutInv /\ CopyHeader => Held(out') = Held(out)
  <1> SUFFICES ASSUME TypeOK, OutInv, CopyHeader PROVE Held(out') = Held(out)
    OBVIOUS
  <1> DEFINE h == [out EXCEPT !.hdr = UpstreamHead]
             w == WriteHeader(h, up.code)
  <1>1. out \in Responses /\ WriterShape(out)
    BY DEF OutInv
  <1>2. UpstreamHead \in Headers /\ up.code \in Codes
    BY DEF UpstreamHead, Headers, TypeOK, Upstreams
  <1>3. out' = IF up.trailer THEN Flush(w) ELSE w
    BY DEF CopyHeader, UpstreamHead
  <1>4. h \in Responses /\ h.gw = out.gw /\ h.net = out.net
    BY <1>1, <1>2 DEF Responses
  <1> HIDE DEF h
  <1>5. /\ w \in Responses
        /\ w.gw.active = h.gw.active /\ w.gw.buf = h.gw.buf /\ w.gw.gz = h.gw.gz
        /\ w.net.buf = h.net.buf /\ w.net.wire = h.net.wire
    <2>1. CASE accepts
      <3>1. w = [h EXCEPT !.gw.code = up.code]
        BY <2>1 DEF WriteHeader, GzipWriteHeader
      <3> QED
        BY <1>2, <1>4, <3>1 DEF Responses, GzipParts
    <2>2. CASE ~accepts
      <3>1. w = NetWriteHeader(h, up.code)
        BY <2>2 DEF WriteHeader
      <3> QED
        BY <1>2, <1>4, <3>1, NetHeader
    <2> QED
      BY <2>1, <2>2
  <1> HIDE DEF w
  <1>6. Held(w) = Held(out) /\ WriterShape(w)
    BY <1>1, <1>4, <1>5 DEF Held, Passed, WriterShape
  <1>7. Held(Flush(w)) = Held(w)
    BY <1>5, <1>6, FlushKeeps
  <1> QED
    BY <1>3, <1>6, <1>7

(* Every step preserves it.                                                *)
LEMMA StepStream ==
    TypeOK /\ WriterInv /\ OutInv /\ StreamInv /\ [Next]_vars => StreamInv'
  <1> SUFFICES ASSUME TypeOK, WriterInv, OutInv, StreamInv, [Next]_vars PROVE StreamInv'
    OBVIOUS
  <1>0. /\ out \in Responses /\ WriterShape(out) /\ chunk \in Bytes
        /\ Held(out) \in Bytes /\ Passed(out) \in Bytes
        /\ failed \in BOOLEAN
    BY ByteFields DEF OutInv, TypeOK
  <1>1. CASE Read
    <2>1. chunk = <<>> /\ spc = "copy" /\ out' = out /\ UNCHANGED <<up, lpc>> /\ lpc # "exited"
      BY <1>1 DEF Read, StreamInv, WriterInv
    <2>2. ~failed => Held(out) = Body(read)
      BY <1>0, <2>1, ByteNone DEF StreamInv
    <2>3. CASE spc' = "lock"
      <3>1. PICK n \in 1 .. up.size - read :
                chunk' = [i \in 1 .. n |-> read + i] /\ read' = read + n /\ failed' = failed
        BY <1>1, <2>3 DEF Read
      <3>2. read \in Nat /\ n \in Nat
        BY DEF TypeOK, Upstreams
      <3>3. Body(read) \o chunk' = Body(read + n)
        BY <3>1, <3>2, CountOnBy DEF Body
      <3> QED
        BY <2>1, <2>2, <2>3, <3>1, <3>3 DEF StreamInv
    <2>4. CASE spc' = "stop"
      <3>1. UNCHANGED <<read, chunk>> /\ (failed' \/ (read = up.size /\ failed' = failed))
        BY <1>1, <2>4 DEF Read
      <3> QED
        BY <2>1, <2>4, <3>1 DEF StreamInv
    <2> QED
      BY <1>1, <2>3, <2>4 DEF Read
  <1>2. CASE WriteChunk
    <2>1. chunk' = <<>> /\ spc = "write" /\ UNCHANGED <<read, up, lpc>> /\ lpc # "exited"
      BY <1>2 DEF WriteChunk, WriterInv
    <2>2. CASE failed'
      BY <1>2, <2>1, <2>2 DEF WriteChunk, StreamInv
    <2>3. CASE ~failed'
      <3> DEFINE w == Write(out, chunk)
                 B == Held(out) \o chunk
      <3>1. out' \in GzMayEmit(w) /\ spc' = "copy" /\ ~failed
        BY <1>2, <2>3 DEF WriteChunk
      <3>2. w \in Responses /\ WriterShape(w) /\ Held(w) = B
        BY <1>0, WriteAdds
      <3> HIDE DEF w
      <3>3. Held(out') = B
        BY <3>1, <3>2, EmitKeeps
      <3>4. B \in Bytes /\ B = Body(read)
        BY <1>0, <2>1, <3>1, ByteConcat DEF StreamInv
      <3> HIDE DEF B
      <3>5. Held(out') \o chunk' = Body(read)
        BY <2>1, <3>3, <3>4, ByteNone
      <3> QED
        BY <2>1, <3>1, <3>5 DEF StreamInv
    <2> QED
      BY <2>2, <2>3
  <1>3. CASE FlushWriter
    <2>1. out' = Flush(out) /\ UNCHANGED <<read, up, chunk, spc>> /\ (~failed' => ~failed)
      BY <1>0, <1>3 DEF FlushWriter, Failing
    <2>2. Held(out') = Held(out)
      BY <1>0, <2>1, FlushKeeps
    <2>3. lpc' = "unlock" /\ spc \notin {"finish", "done"}
      BY <1>3 DEF FlushWriter, WriterInv
    <2> QED
      BY <2>1, <2>2, <2>3 DEF StreamInv
  <1>4. CASE Close
    <2>1. /\ out' = (IF accepts THEN GzipClose(out) ELSE out)
          /\ UNCHANGED <<read, up, chunk, lpc>> /\ (~failed' => ~failed)
          /\ spc = "close" /\ spc' = "finish"
      BY <1>0, <1>4 DEF Close, Failing
    <2>2. Passed(out') = Held(out)
      BY <1>0, <2>1, CloseMoves
    <2>3. chunk = <<>> /\ (~failed => Held(out) = Body(read))
      BY <1>0, <2>1, ByteNone DEF StreamInv
    <2> QED
      BY <2>1, <2>2, <2>3 DEF StreamInv
  <1>5. CASE Finish
    <2>1. /\ out' = NetFlush(out) /\ UNCHANGED <<read, up, chunk, lpc, failed>>
          /\ spc = "finish" /\ spc' = "done" /\ out.gw.gz = <<>>
      BY <1>5 DEF Finish, OutInv
    <2>2. Passed(out') = Passed(out)
      BY <1>0, <2>1, NetFlushKeeps
    <2> QED
      BY <2>1, <2>2 DEF StreamInv
  <1>6. CASE CopyHeader
    <2>1. Held(out') = Held(out)
      BY <1>6, HeaderKeeps
    <2> QED
      BY <1>6, <2>1 DEF CopyHeader, StreamInv
  <1>7. CASE RoundTrip \/ CopyResponse \/ WriteLock \/ Stop \/ CopyTrailers
    BY <1>7 DEF RoundTrip, CopyResponse, WriteLock, Stop, CopyTrailers, StreamInv
  <1>8. CASE TakeTick \/ FlushLock \/ FlushUnlock \/ Tick \/ ClientGone \/ UNCHANGED vars
    BY <1>8 DEF TakeTick, FlushLock, FlushUnlock, Tick, ClientGone, vars, StreamInv
  <1> QED
    BY <1>1, <1>2, <1>3, <1>4, <1>5, <1>6, <1>7, <1>8 DEF Next, ServeHTTP, FlushLoop, Done

(* Whatever the sizes of the reads and however the flushes fall between    *)
(* them, compressed or not, the bytes that were read are all there and in  *)
(* order.                                                                  *)
THEOREM NoByteLost == Spec => []BytesConserved
  <1>1. TypeOK /\ OutInv /\ StreamInv => BytesConserved
    <2> SUFFICES ASSUME TypeOK, OutInv, StreamInv, ~failed
                 PROVE  Passed(out) \o (IF spc \in {"finish", "done"} THEN <<>>
                                         ELSE out.gw.buf \o chunk) = Body(read)
      BY DEF BytesConserved, Passed, Body
    <2>1. Passed(out) \in Bytes /\ out.gw.buf \in Bytes /\ chunk \in Bytes
      BY ByteFields DEF OutInv, TypeOK
    <2>2. CASE spc \in {"finish", "done"}
      BY <2>1, <2>2, ByteNone DEF StreamInv
    <2>3. CASE spc \notin {"finish", "done"}
      <3> DEFINE P == Passed(out)
                 c == out.gw.buf
      <3>1. P \in Bytes /\ c \in Bytes /\ (P \o c) \o chunk = Body(read)
        BY <2>1, <2>3 DEF StreamInv, Held
      <3> HIDE DEF P, c
      <3>2. P \o (c \o chunk) = Body(read)
        BY <2>1, <3>1, ByteAssoc
      <3> QED
        BY <2>3, <3>2 DEF P, c
    <2> QED
      BY <2>2, <2>3
  <1> QED
    BY <1>1, InitWriter, StepWriter, InitOut, OutStep, InitType, StepType, InitStream, StepStream,
       PTL DEF Spec

(* What ends without an error is whole on the wire, footer included when   *)
(* it is compressed, and the upstream's own encoding is never compressed   *)
(* again.                                                                  *)
THEOREM WholeAtTheEnd == Spec => []EndsWhole
  <1>1. OutInv /\ StreamInv => EndsWhole
    <2> SUFFICES ASSUME OutInv, StreamInv, spc = "done", lpc = "exited", ~failed
                 PROVE  /\ out.net.wire = Body(up.size)
                        /\ out.gw.active => out.gw.closed /\ up.enc = "none"
      BY DEF EndsWhole, Body
    <2>1. out.net.buf = <<>> /\ out.gw.gz = <<>> /\ out.net.wire \in Bytes
      BY ByteFields DEF OutInv
    <2>2. (out.net.wire \o <<>>) \o <<>> = Body(up.size)
      BY <2>1 DEF StreamInv, Passed
    <2>3. out.net.wire = Body(up.size)
      BY <2>1, <2>2, ByteNone
    <2> QED
      BY <2>3 DEF OutInv
  <1> QED
    BY <1>1, InitWriter, StepWriter, InitOut, OutStep, InitType, StepType, InitStream, StepStream,
       PTL DEF Spec
=============================================================================
