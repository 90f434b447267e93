-------------------------- MODULE WebsocketTunnel --------------------------
(***************************************************************************)
(* The websocket branch of ReverseProxy.ServeHTTP (reverseproxy.go): the   *)
(* request goes out through a connHijackerTransport, which dials for       *)
(* itself and keeps what it reads of the answer; when the backend agrees   *)
(* to upgrade, the client's connection is taken from net/http, the kept    *)
(* bytes are replayed to it and two copies join the connections.  With     *)
(* DialTLS for the dialers of that transport.                              *)
(*                                                                         *)
(* The bytes that each peer sends are numbered from 1.  The first HeadSize *)
(* bytes of the backend are the head of its answer.                        *)
(***************************************************************************)
EXTENDS DialTLS

CONSTANTS
    HeadSize,     \* length of the head of the backend's answer
    MaxBackend,   \* bound: bytes the backend sends
    MaxClient     \* bound: bytes the client sends after its request

ASSUME SizeAssumption ==
    HeadSize \in Nat \ {0} /\ MaxBackend \in Nat /\ MaxClient \in Nat

VARIABLES
    asked,        \* requestIsWebsocket(outreq)
    secure,       \* the scheme of the target is https
    spc,          \* where ServeHTTP is
    conn,         \* the client's connection: "http", "hijacked", "closed"
    brw,          \* bytes of the client that net/http had buffered
    replay,       \* hj.Replay
    cpc,          \* where the copy from the backend to the client is
    chunk,        \* what that copy has read and not yet written
    client,       \* the client, backend: the number of bytes it sent, those
    backend       \*   not yet read, those it got, and whether it closed

tunnelVars == <<asked, secure, spc, conn, brw, replay, cpc, chunk, client, backend>>

vars == <<dialVars, tunnelVars>>

Peer == [sent : Nat, out : Seq(Nat), got : Seq(Nat), eof : BOOLEAN]

Silent == [sent |-> 0, out |-> <<>>, got |-> <<>>, eof |-> FALSE]

Numbers(n) == [i \in 1 .. n |-> i]

Init ==
    /\ DialInit
    /\ asked \in BOOLEAN
    /\ secure \in BOOLEAN
    /\ spc = "roundtrip"
    /\ conn = "http"
    /\ brw = <<>>
    /\ replay = <<>>
    /\ cpc = "off"
    /\ chunk = <<>>
    /\ client = Silent
    /\ backend = Silent

\* One more byte from a peer; a peer is read and written to in pieces.
Sends(peer) == [peer EXCEPT !.sent = @ + 1, !.out = Append(@, peer.sent + 1)]

First(n, peer) == SubSeq(peer.out, 1, n)

Read(n, peer) == [peer EXCEPT !.out = SubSeq(@, n + 1, Len(@))]

Gets(peer, bytes) == [peer EXCEPT !.got = @ \o bytes]
-----------------------------------------------------------------------------
(* The round trip.                                                         *)

\* The transport dials, through t.DialTLS or t.Dial.
StartDial ==
    /\ spc = "roundtrip"
    /\ asked
    /\ dpc = "idle"
    /\ dpc' = "dial"
    /\ UNCHANGED <<hpc, outcome, timer, errc, plain, dialed, tunnelVars>>

DialTCP ==
    /\ ~secure
    /\ dpc = "dial"
    /\ \/ DialReturns("conn") /\ plain' = "open"
       \/ DialReturns("error") /\ UNCHANGED plain
    /\ UNCHANGED <<hpc, outcome, timer, errc, tunnelVars>>

\* hijackedConn.Read, called by the transport until it has the head.
ReadHead ==
    /\ spc = "roundtrip"
    /\ dialed = "conn"
    /\ Len(replay) < HeadSize
    /\ \E n \in 1 .. Len(backend.out) :
          /\ replay' = replay \o First(n, backend)
          /\ backend' = Read(n, backend)
    /\ UNCHANGED <<dialVars, asked, secure, spc, conn, brw, cpc, chunk, client>>

\* An answer came.  One that does not upgrade is for ProxyResponse.
Answered ==
    /\ spc = "roundtrip"
    /\ asked => Len(replay) >= HeadSize
    /\ spc' \in {"hijack", "returned"}
    /\ UNCHANGED <<dialVars, asked, secure, conn, brw, replay, cpc, chunk, client, backend>>

\* No connection, an answer cut short, or the client gave up: "return err".
RoundTripFails ==
    /\ spc = "roundtrip"
    /\ dialed = "error" \/ backend.eof \/ client.eof
    /\ spc' = "returned"
    /\ UNCHANGED <<dialVars, asked, secure, conn, brw, replay, cpc, chunk, client, backend>>
-----------------------------------------------------------------------------
(* ServeHTTP once isWebsocket is true.                                     *)

\* hj.Hijack(): brw may have bytes that net/http read ahead.
Hijack ==
    /\ spc = "hijack"
    /\ \/ /\ spc' = IF asked THEN "replay" ELSE "redial"
          /\ conn' = "hijacked"
          /\ \E n \in 0 .. Len(client.out) :
                /\ brw' = First(n, client)
                /\ client' = Read(n, client)
       \/ /\ spc' = "returned"
          /\ UNCHANGED <<conn, brw, client>>
    /\ UNCHANGED <<dialVars, asked, secure, replay, cpc, chunk, backend>>

\* A write to a peer that has closed may still be accepted.
WriteClient(bytes) == client' = Gets(client, bytes)

\* Faulty variant: what the transport had read is not passed on.
ReplayNothing ==
    /\ spc = "replay"
    /\ spc' = "spawn"
    /\ UNCHANGED <<dialVars, asked, secure, conn, brw, replay, cpc, chunk, client, backend>>

\* conn.Write(hj.Replay).  The return closes conn; backendConn.Close is not
\* yet deferred.
Replay ==
    /\ spc = "replay"
    /\ \/ spc' = "spawn" /\ WriteClient(replay) /\ UNCHANGED conn
       \/ client.eof /\ spc' = "returned" /\ conn' = "closed" /\ UNCHANGED client
    /\ UNCHANGED <<dialVars, asked, secure, brw, replay, cpc, chunk, backend>>

\* The backend upgraded what was no websocket request: a second connection,
\* to which the request is written again.
Redial ==
    /\ spc = "redial"
    /\ \/ spc' = "spawn" /\ plain' = "open" /\ UNCHANGED conn
       \/ spc' = "returned" /\ conn' = "closed" /\ UNCHANGED plain
    /\ UNCHANGED <<dpc, hpc, outcome, timer, errc, dialed,
                   asked, secure, brw, replay, cpc, chunk, client, backend>>

\* go pooledIoCopy(conn, backendConn)
Spawn ==
    /\ spc = "spawn"
    /\ spc' = "buffered"
    /\ cpc' = "read"
    /\ UNCHANGED <<dialVars, asked, secure, conn, brw, replay, chunk, client, backend>>

\* Faulty variant: the bytes in brw are not read out.
SkipBuffered ==
    /\ spc = "buffered"
    /\ spc' = "forward"
    /\ brw' = <<>>
    /\ UNCHANGED <<dialVars, asked, secure, conn, replay, cpc, chunk, client, backend>>

\* backendConn.Write(rbuf): an error is ignored.
Buffered ==
    /\ spc = "buffered"
    /\ spc' = "forward"
    /\ brw' = <<>>
    /\ \/ backend' = Gets(backend, brw)
       \/ backend.eof /\ UNCHANGED backend
    /\ UNCHANGED <<dialVars, asked, secure, conn, replay, cpc, chunk, client>>

\* pooledIoCopy(backendConn, conn): one read and its write, or the end.
Forward ==
    /\ spc = "forward"
    /\ \/ \E n \in 1 .. Len(client.out) :
             /\ client' = Read(n, client)
             /\ \/ backend' = Gets(backend, First(n, client)) /\ UNCHANGED spc
                \/ backend.eof /\ spc' = "closeBackend" /\ UNCHANGED backend
       \/ /\ client.eof
          /\ client.out = <<>>
          /\ spc' = "closeBackend"
          /\ UNCHANGED <<client, backend>>
    /\ UNCHANGED <<dialVars, asked, secure, conn, brw, replay, cpc, chunk>>

\* Faulty variant: backendConn is left open.
LeaveBackend ==
    /\ spc = "closeBackend"
    /\ spc' = "closeClient"
    /\ UNCHANGED <<dialVars, asked, secure, conn, brw, replay, cpc, chunk, client, backend>>

\* defer backendConn.Close()
CloseBackend ==
    /\ spc = "closeBackend"
    /\ spc' = "closeClient"
    /\ plain' = "closed"
    /\ UNCHANGED <<dpc, hpc, outcome, timer, errc, dialed,
                   asked, secure, conn, brw, replay, cpc, chunk, client, backend>>

\* defer conn.Close()
CloseClient ==
    /\ spc = "closeClient"
    /\ spc' = "returned"
    /\ conn' = "closed"
    /\ UNCHANGED <<dialVars, asked, secure, brw, replay, cpc, chunk, client, backend>>
-----------------------------------------------------------------------------
(* The goroutine that copies from the backend to the client.               *)

BackwardRead ==
    /\ cpc = "read"
    /\ \/ /\ plain = "open"
          /\ \E n \in 1 .. Len(backend.out) :
                chunk' = First(n, backend) /\ backend' = Read(n, backend)
          /\ cpc' = "write"
       \/ /\ plain = "closed" \/ (backend.eof /\ backend.out = <<>>)
          /\ cpc' = "over"
          /\ UNCHANGED <<chunk, backend>>
    /\ UNCHANGED <<dialVars, asked, secure, spc, conn, brw, replay, client>>

BackwardWrite ==
    /\ cpc = "write"
    /\ chunk' = <<>>
    /\ \/ conn = "hijacked" /\ cpc' = "read" /\ WriteClient(chunk)
       \/ (conn = "closed" \/ client.eof) /\ cpc' = "over" /\ UNCHANGED client
    /\ UNCHANGED <<dialVars, asked, secure, spc, conn, brw, replay, backend>>
-----------------------------------------------------------------------------
(* The peers.                                                              *)

ClientSends ==
    /\ conn # "closed"
    /\ ~client.eof
    /\ client.sent < MaxClient
    /\ client' = Sends(client)
    /\ UNCHANGED <<dialVars, asked, secure, spc, conn, brw, replay, cpc, chunk, backend>>

ClientCloses ==
    /\ ~client.eof
    /\ client' = [client EXCEPT !.eof = TRUE]
    /\ UNCHANGED <<dialVars, asked, secure, spc, conn, brw, replay, cpc, chunk, backend>>

\* The backend speaks once the connection is made.
Connected == plain = "open" /\ (asked => dialed = "conn")

BackendSends ==
    /\ Connected
    /\ ~backend.eof
    /\ backend.sent < MaxBackend
    /\ backend' = Sends(backend)
    /\ UNCHANGED <<dialVars, asked, secure, spc, conn, brw, replay, cpc, chunk, client>>

BackendCloses ==
    /\ Connected
    /\ ~backend.eof
    /\ backend' = [backend EXCEPT !.eof = TRUE]
    /\ UNCHANGED <<dialVars, asked, secure, spc, conn, brw, replay, cpc, chunk, client>>
-----------------------------------------------------------------------------
DialTLS == secure /\ Dialer /\ UNCHANGED tunnelVars

HandshakeGoroutine == Handshaker /\ UNCHANGED tunnelVars

HandshakeTimer == Timer /\ UNCHANGED tunnelVars

\* The steps that ServeHTTP takes without waiting for a peer's decision.
ServeHTTP ==
    \/ StartDial \/ ReadHead \/ Hijack \/ Replay \/ Redial
    \/ Spawn \/ Buffered \/ Forward \/ CloseBackend \/ CloseClient

BackwardCopy == BackwardRead \/ BackwardWrite

Peers == ClientSends \/ ClientCloses \/ BackendSends \/ BackendCloses

\* The handler has returned: what is left may stop.
Done == spc = "returned" /\ UNCHANGED vars

Next ==
    \/ DialTLS \/ DialTCP \/ HandshakeGoroutine \/ HandshakeTimer
    \/ HandshakeEnds /\ UNCHANGED tunnelVars
    \/ ServeHTTP \/ Answered \/ RoundTripFails
    \/ BackwardCopy
    \/ Peers
    \/ Done

\* The goroutines run and the timer fires; nothing is assumed of the peers.
Fairness ==
    /\ WF_vars(ServeHTTP)
    /\ WF_vars(BackwardCopy)
    /\ WF_vars(DialTLS)
    /\ WF_vars(HandshakeGoroutine)
    /\ WF_vars(HandshakeTimer)

Spec == Init /\ [][Next]_vars /\ Fairness
-----------------------------------------------------------------------------
\* The types of the variables.
TypeOK ==
    /\ DialTypeOK
    /\ asked \in BOOLEAN
    /\ secure \in BOOLEAN
    /\ spc \in {"roundtrip", "hijack", "replay", "redial", "spawn", "buffered",
                "forward", "closeBackend", "closeClient", "returned"}
    /\ conn \in {"http", "hijacked", "closed"}
    /\ brw \in Seq(Nat)
    /\ replay \in Seq(Nat)
    /\ cpc \in {"off", "read", "write", "over"}
    /\ chunk \in Seq(Nat)
    /\ client \in Peer
    /\ backend \in Peer

\* Of the two reports on errc the first decides (reverseproxy.go:564), and
\* the other may come before or after: a TLS connection is only returned when
\* the handshake succeeded, and still open until the tunnel closes it; after a
\* dial that failed, also by timeout, no connection is left open.
DialVerdict ==
    /\ secure /\ dialed = "conn" =>
          /\ outcome = "ok"
          /\ plain = "closed" => spc \in {"closeClient", "returned"}
    /\ asked /\ dialed = "error" => plain # "open"

\* A dial whose backend never answers the handshake ends by the timer
\* (reverseproxy.go:553).
DialEnds == dpc = "errc" ~> dpc = "returned"

\* Neither the goroutine of the handshake nor the timer is left blocked on
\* errc when the dialer has taken the other's report (reverseproxy.go:550).
ReportersEnd ==
    dpc = "returned" /\ hpc # "off" ~> hpc = "over" /\ timer \in {"stopped", "over"}

\* While client and backend are joined, what the client got is a beginning of
\* what the backend sent, head included, and the rest is under way; when the
\* backend has closed and the copy is over, the client has it all
\* (reverseproxy.go:277, 291).
ClientStream ==
    plain = "open" /\ conn = "hijacked" /\ ~client.eof =>
        /\ cpc \in {"read", "write"} =>
              client.got \o chunk \o backend.out = Numbers(backend.sent)
        /\ cpc = "over" => client.got = Numbers(backend.sent)

\* Until the backend closes, it gets all the client's bytes in their order,
\* those that net/http had read before the connection was taken from it
\* (reverseproxy.go:295-306) included.
BackendStream ==
    conn = "hijacked" /\ ~backend.eof =>
        backend.got \o brw \o client.out = Numbers(client.sent)

\* When the client of a tunnel closes, the handler returns, both connections
\* are closed and the other copy ends too (reverseproxy.go:272, 288, 291).
TunnelCloses ==
    spc = "forward" /\ client.eof ~>
        spc = "returned" /\ cpc = "over" /\ plain = "closed" /\ conn = "closed"
=============================================================================
