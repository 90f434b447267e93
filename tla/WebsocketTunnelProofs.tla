----------------------- MODULE WebsocketTunnelProofs -----------------------
(***************************************************************************)
(* Proofs, for every size of messages: the outcome of a TLS dial is right  *)
(* and a failed dial leaves no connection open; the state keeps its type;  *)
(* and both directions of the tunnel carry every byte once and in order.   *)
(***************************************************************************)
EXTENDS WebsocketTunnel, SequenceLemmas, TLAPS

\* The states of ServeHTTP after an answer that upgrades.
Upgraded ==
    {"hijack", "replay", "redial", "spawn", "buffered", "forward", "closeBackend",
     "closeClient"}

\* Where the dialing goroutine is tells what the others may have done.
DialerInv ==
    /\ dialed # "none" => dpc = "returned"
    /\ ~asked => dpc = "idle"
    /\ dpc \in {"idle", "dial", "start"} => hpc = "off"
    /\ dpc \in {"start", "errc", "verify"} => secure /\ plain = "open"
    /\ asked /\ dpc \in {"idle", "dial"} => plain = "none"
    /\ dpc = "verify" => outcome = "ok"

\* A report of success is that of a handshake that succeeded.
ReportInv ==
    /\ errc \in Seq({"ok", "failed", "timeout", "none"})
    /\ \A i \in 1 .. Len(errc) : errc[i] = "ok" => outcome = "ok"
    /\ hpc \in {"off", "handshake"} => outcome = "none"
    /\ outcome \in {"none", "ok", "failed"}

\* The tunnel is entered with the connection of the dialer, and is the only
\* one to close it.
TunnelInv ==
    /\ replay # <<>> => dialed = "conn"
    /\ asked /\ spc \in Upgraded => dialed = "conn"
    /\ spc = "redial" => ~asked

Inv == DialerInv /\ ReportInv /\ TunnelInv /\ DialVerdict

\* The invariant holds initially.
LEMMA InitInv == Init => Inv
BY DEF Init, DialInit, Inv, DialerInv, ReportInv, TunnelInv, DialVerdict, Upgraded

\* The steps of the dialers keep it.
LEMMA DialInv == Inv /\ (DialTLS \/ DialTCP \/ StartDial) => Inv'
<1> SUFFICES ASSUME Inv, DialTLS \/ DialTCP \/ StartDial PROVE Inv'
  OBVIOUS
<1> USE DEF Inv, tunnelVars
<1>1. CASE StartDial
  BY <1>1 DEF StartDial, DialerInv, ReportInv, TunnelInv, DialVerdict, Upgraded
<1>2. CASE DialTCP
  BY <1>2 DEF DialTCP, DialReturns, DialerInv, ReportInv, TunnelInv, DialVerdict, Upgraded
<1>3. CASE DialTLS
  <2>1. CASE DialPlain
    BY <1>3, <2>1 DEF DialTLS, DialPlain, DialReturns, DialerInv, ReportInv, TunnelInv,
                      DialVerdict, Upgraded
  <2>2. CASE StartHandshake
    BY <1>3, <2>2 DEF DialTLS, StartHandshake, DialerInv, ReportInv, TunnelInv,
                      DialVerdict, Upgraded
  <2>3. CASE ReceiveErr
    <3>1. errc # <<>> /\ errc' = Tail(errc) /\ outcome' = outcome /\ hpc' = hpc
      BY <2>3 DEF ReceiveErr
    <3>2. Head(errc) = "ok" => outcome = "ok"
      BY <3>1 DEF ReportInv
    <3>3. ReportInv'
      BY <3>1 DEF ReportInv
    <3>4. DialerInv'
      BY <1>3, <2>3, <3>2 DEF DialTLS, ReceiveErr, DialReturns, DialerInv
    <3>5. TunnelInv' /\ DialVerdict'
      BY <1>3, <2>3 DEF DialTLS, ReceiveErr, DialReturns, DialerInv, TunnelInv,
                        DialVerdict, Upgraded
    <3> QED BY <3>3, <3>4, <3>5
  <2>4. CASE VerifyHostname
    BY <1>3, <2>4 DEF DialTLS, VerifyHostname, DialReturns, DialerInv, ReportInv, TunnelInv,
                      DialVerdict, Upgraded
  <2> QED BY <1>3, <2>1, <2>2, <2>3, <2>4 DEF DialTLS, Dialer
<1> QED BY <1>1, <1>2, <1>3

\* The handshake goroutine and the timer keep it.
LEMMA ReportersInv ==
    Inv /\ (HandshakeGoroutine \/ HandshakeTimer \/ (HandshakeEnds /\ UNCHANGED tunnelVars))
        => Inv'
<1> SUFFICES ASSUME Inv,
                    HandshakeGoroutine \/ HandshakeTimer
                        \/ (HandshakeEnds /\ UNCHANGED tunnelVars)
             PROVE Inv'
  OBVIOUS
<1> USE DEF Inv, tunnelVars
<1>1. dpc' = dpc /\ plain' = plain /\ dialed' = dialed /\ UNCHANGED tunnelVars
  BY DEF HandshakeGoroutine, Handshaker, HandshakeAborts, StopTimer, Report,
         HandshakeTimer, Timer, TimerFires, ReportTimeout, HandshakeEnds
<1>2. outcome = "ok" => outcome' = "ok"
  BY DEF HandshakeGoroutine, Handshaker, HandshakeAborts, StopTimer, Report,
         HandshakeTimer, Timer, TimerFires, ReportTimeout, HandshakeEnds, ReportInv
<1>3. hpc = "off" => hpc' = "off"
  BY DEF HandshakeGoroutine, Handshaker, HandshakeAborts, StopTimer, Report,
         HandshakeTimer, Timer, TimerFires, ReportTimeout, HandshakeEnds
<1>4. DialerInv' /\ TunnelInv' /\ DialVerdict'
  BY <1>1, <1>2, <1>3 DEF DialerInv, TunnelInv, DialVerdict, Upgraded
<1>5. ReportInv'
  <2>1. CASE HandshakeAborts \/ HandshakeEnds
    BY <2>1 DEF HandshakeAborts, HandshakeEnds, ReportInv
  <2>2. CASE StopTimer \/ TimerFires
    BY <2>2 DEF StopTimer, TimerFires, ReportInv
  <2>3. CASE Report
    <3>1. errc' = Append(errc, outcome) /\ outcome' = outcome /\ hpc' = "over"
      BY <2>3 DEF Report
    <3> QED BY <3>1 DEF ReportInv
  <2>4. CASE ReportTimeout
    <3>1. errc' = Append(errc, "timeout") /\ outcome' = outcome /\ hpc' = hpc
      BY <2>4 DEF ReportTimeout
    <3> QED BY <3>1 DEF ReportInv
  <2> QED BY <2>1, <2>2, <2>3, <2>4 DEF HandshakeGoroutine, Handshaker, HandshakeTimer, Timer
<1> QED BY <1>4, <1>5

\* The other steps leave the dialer alone, but for the connection.
LEMMA TunnelStepInv ==
    Inv /\ (ServeHTTP \/ Answered \/ RoundTripFails \/ BackwardCopy \/ Peers) /\ ~StartDial => Inv'
<1> SUFFICES ASSUME Inv, ~StartDial,
                    ServeHTTP \/ Answered \/ RoundTripFails \/ BackwardCopy \/ Peers
             PROVE Inv'
  OBVIOUS
<1> USE SizeAssumption DEF Inv, dialVars
<1>1. CASE ReadHead
  BY <1>1 DEF ReadHead, DialerInv, ReportInv, TunnelInv, DialVerdict, Upgraded
<1>2. CASE Answered
  <2>1. asked => replay # <<>>
    BY <1>2 DEF Answered
  <2> QED
    BY <1>2, <2>1 DEF Answered, DialerInv, ReportInv, TunnelInv, DialVerdict, Upgraded
<1>3. CASE RoundTripFails
  BY <1>3 DEF RoundTripFails, DialerInv, ReportInv, TunnelInv, DialVerdict, Upgraded
<1>4. CASE Hijack
  BY <1>4 DEF Hijack, DialerInv, ReportInv, TunnelInv, DialVerdict, Upgraded
<1>5. CASE Replay
  BY <1>5 DEF Replay, DialerInv, ReportInv, TunnelInv, DialVerdict, Upgraded
<1>6. CASE Redial
  BY <1>6 DEF Redial, DialerInv, ReportInv, TunnelInv, DialVerdict, Upgraded
<1>7. CASE Spawn \/ Buffered \/ Forward
  BY <1>7 DEF Spawn, Buffered, Forward, DialerInv, ReportInv, TunnelInv, DialVerdict, Upgraded
<1>8. CASE CloseBackend
  BY <1>8 DEF CloseBackend, DialerInv, ReportInv, TunnelInv, DialVerdict, Upgraded
<1>9. CASE CloseClient
  BY <1>9 DEF CloseClient, DialerInv, ReportInv, TunnelInv, DialVerdict, Upgraded
<1>10. CASE BackwardCopy
  BY <1>10 DEF BackwardCopy, BackwardRead, BackwardWrite, DialerInv, ReportInv, TunnelInv,
               DialVerdict, Upgraded
<1>11. CASE Peers
  BY <1>11 DEF Peers, ClientSends, ClientCloses, BackendSends, BackendCloses, DialerInv,
               ReportInv, TunnelInv, DialVerdict, Upgraded
<1> QED
  BY <1>1, <1>2, <1>3, <1>4, <1>5, <1>6, <1>7, <1>8, <1>9, <1>10, <1>11 DEF ServeHTTP

\* A stutter keeps it.
LEMMA StutterInv == Inv /\ UNCHANGED vars => Inv'
BY DEF vars, dialVars, tunnelVars, Inv, DialerInv, ReportInv, TunnelInv, DialVerdict, Upgraded

\* Every step of the tunnel and its dialer.
LEMMA InvStep == Inv /\ [Next]_vars => Inv'
BY DialInv, ReportersInv, TunnelStepInv, StutterInv DEF Next, Done

\* Whatever the backend, the timer and the client do and in which order, a TLS
\* dial returns a connection only after a handshake that succeeded, that
\* connection stays open until the tunnel closes it, and a dial that failed
\* or timed out has none open (reverseproxy.go:549-579).
THEOREM DialDecided == Spec => []DialVerdict
<1>1. Inv => DialVerdict
  BY DEF Inv
<1> QED BY <1>1, InitInv, InvStep, PTL DEF Spec
-----------------------------------------------------------------------------
(* The bytes of the peers.                                                 *)

\* What a reader takes from a peer and what stays make up what was there.
LEMMA ReadSplits ==
    ASSUME NEW p \in Peer, NEW n \in 0 .. Len(p.out)
    PROVE  /\ First(n, p) \in Seq(Nat)
           /\ Read(n, p) \in Peer
           /\ Read(n, p).sent = p.sent /\ Read(n, p).got = p.got /\ Read(n, p).eof = p.eof
           /\ First(n, p) \o Read(n, p).out = p.out
<1> DEFINE rest == SubSeq(p.out, n + 1, Len(p.out))
<1>1. p.out \in Seq(Nat)
  BY DEF Peer
<1>2. First(n, p) \in Seq(Nat) /\ rest \in Seq(Nat) /\ First(n, p) \o rest = p.out
  BY <1>1, CutInTwo DEF First
<1>3. Read(n, p) = [p EXCEPT !.out = rest]
  BY DEF Read
<1> HIDE DEF rest
<1> QED BY <1>2, <1>3 DEF Peer

\* A peer that sends appends the next number to what is unread.
LEMMA SendAppends ==
    ASSUME NEW p \in Peer
    PROVE  /\ Sends(p) \in Peer
           /\ Sends(p).sent = p.sent + 1 /\ Sends(p).got = p.got /\ Sends(p).eof = p.eof
           /\ Sends(p).out = p.out \o <<p.sent + 1>>
<1>1. p.out \in Seq(Nat) /\ p.sent + 1 \in Nat
  BY DEF Peer
<1>2. Append(p.out, p.sent + 1) \in Seq(Nat)
  BY <1>1
<1>3. Append(p.out, p.sent + 1) = p.out \o <<p.sent + 1>>
  BY <1>1, AppendIsConcat
<1>4. Sends(p).out = Append(p.out, p.sent + 1)
  BY DEF Sends, Peer
<1>5. Sends(p) \in Peer
  BY <1>1, <1>2 DEF Sends, Peer
<1>6. Sends(p).sent = p.sent + 1 /\ Sends(p).got = p.got /\ Sends(p).eof = p.eof
  BY DEF Sends, Peer
<1> QED BY <1>3, <1>4, <1>5, <1>6

\* A peer that is written to has the bytes after those it had.
LEMMA GetAppends ==
    ASSUME NEW p \in Peer, NEW b \in Seq(Nat)
    PROVE  /\ Gets(p, b) \in Peer
           /\ Gets(p, b).sent = p.sent /\ Gets(p, b).out = p.out /\ Gets(p, b).eof = p.eof
           /\ Gets(p, b).got = p.got \o b
<1>1. p.got \o b \in Seq(Nat)
  BY DEF Peer
<1> QED BY <1>1 DEF Gets, Peer

\* A peer that closes stays as it is otherwise.
LEMMA Closing ==
    ASSUME NEW p \in Peer
    PROVE  /\ [p EXCEPT !.eof = TRUE] \in Peer
           /\ [p EXCEPT !.eof = TRUE].eof
           /\ [p EXCEPT !.eof = TRUE].sent = p.sent
           /\ [p EXCEPT !.eof = TRUE].out = p.out
           /\ [p EXCEPT !.eof = TRUE].got = p.got
BY DEF Peer
-----------------------------------------------------------------------------
(* Types.                                                                  *)

\* TypeOK is inductive once a handshake that is over has an outcome to report.
TypeInv ==
    /\ TypeOK
    /\ hpc \in {"stopTimer", "report"} => outcome # "none"

LEMMA TypeInit == Init => TypeInv
BY EmptySeq DEF Init, DialInit, TypeInv, TypeOK, DialTypeOK, Silent, Peer

\* The goroutines of the dial keep the types.
LEMMA TypeDial ==
    TypeInv /\ (\/ DialTLS \/ DialTCP \/ StartDial \/ HandshakeGoroutine \/ HandshakeTimer
                \/ (HandshakeEnds /\ UNCHANGED tunnelVars)) => TypeInv'
<1> SUFFICES ASSUME TypeInv,
                    \/ DialTLS \/ DialTCP \/ StartDial \/ HandshakeGoroutine \/ HandshakeTimer
                    \/ (HandshakeEnds /\ UNCHANGED tunnelVars)
             PROVE  TypeInv'
  OBVIOUS
<1>1. UNCHANGED tunnelVars
  BY DEF DialTLS, DialTCP, StartDial, HandshakeGoroutine, HandshakeTimer, tunnelVars
<1>2. DialTypeOK' /\ (hpc' \in {"stopTimer", "report"} => outcome' # "none")
  <2> USE DEF TypeInv, TypeOK, DialTypeOK
  <2>1. CASE DialTCP \/ StartDial \/ DialPlain \/ StartHandshake \/ VerifyHostname
    BY <2>1 DEF DialTCP, StartDial, DialPlain, StartHandshake, VerifyHostname, DialReturns
  <2>2. CASE ReceiveErr
    <3>1. Tail(errc) \in Seq({"ok", "failed", "timeout"})
      BY <2>2, HeadTailProperties DEF ReceiveErr
    <3> QED BY <2>2, <3>1 DEF ReceiveErr, DialReturns
  <2>3. CASE HandshakeAborts \/ HandshakeEnds \/ StopTimer \/ TimerFires
    BY <2>3 DEF HandshakeAborts, HandshakeEnds, StopTimer, TimerFires
  <2>4. CASE Report
    <3>1. Append(errc, outcome) \in Seq({"ok", "failed", "timeout"})
      BY <2>4, AppendProperties DEF Report
    <3> QED BY <2>4, <3>1 DEF Report
  <2>5. CASE ReportTimeout
    <3>1. Append(errc, "timeout") \in Seq({"ok", "failed", "timeout"})
      BY <2>5, AppendProperties DEF ReportTimeout
    <3> QED BY <2>5, <3>1 DEF ReportTimeout
  <2> QED BY <2>1, <2>2, <2>3, <2>4, <2>5
          DEF DialTLS, Dialer, HandshakeGoroutine, Handshaker, HandshakeTimer, Timer
<1> QED BY <1>1, <1>2 DEF TypeInv, TypeOK, tunnelVars

\* So do the handler, the copy and the peers.
LEMMA TypeTunnel ==
    TypeInv /\ (ServeHTTP \/ Answered \/ RoundTripFails \/ BackwardCopy \/ Peers) /\ ~StartDial
        => TypeInv'
<1> SUFFICES ASSUME TypeInv, ~StartDial,
                    ServeHTTP \/ Answered \/ RoundTripFails \/ BackwardCopy \/ Peers
             PROVE  TypeInv'
  OBVIOUS
<1> USE DEF TypeInv, TypeOK, DialTypeOK, dialVars
<1>1. Len(client.out) \in Nat /\ Len(backend.out) \in Nat
  BY DEF Peer
<1>2. CASE ReadHead
  <2>1. PICK n \in 1 .. Len(backend.out) :
            replay' = replay \o First(n, backend) /\ backend' = Read(n, backend)
    BY <1>2 DEF ReadHead
  <2>2. backend' \in Peer /\ replay' \in Seq(Nat)
    BY <1>1, <2>1, ReadSplits
  <2> QED BY <1>2, <2>2 DEF ReadHead
<1>3. CASE Hijack
  <2>1. brw' \in Seq(Nat) /\ client' \in Peer
    BY <1>1, <1>3, ReadSplits DEF Hijack
  <2> QED BY <1>3, <2>1 DEF Hijack
<1>4. CASE Answered \/ RoundTripFails \/ Redial \/ Spawn \/ CloseBackend \/ CloseClient
  BY <1>4 DEF Answered, RoundTripFails, Redial, Spawn, CloseBackend, CloseClient
<1>5. CASE Replay
  <2>1. client' \in Peer
    BY <1>5, GetAppends DEF Replay, WriteClient
  <2> QED BY <1>5, <2>1 DEF Replay
<1>6. CASE Buffered
  <2>1. backend' \in Peer
    BY <1>6, GetAppends DEF Buffered
  <2> QED BY <1>6, <2>1 DEF Buffered
<1>7. CASE Forward
  <2>1. client' \in Peer /\ backend' \in Peer
    <3>1. \A n \in 1 .. Len(client.out) :
              Read(n, client) \in Peer /\ First(n, client) \in Seq(Nat)
      BY <1>1, ReadSplits
    <3>2. \A b \in Seq(Nat) : Gets(backend, b) \in Peer
      BY GetAppends
    <3> QED BY <1>7, <3>1, <3>2 DEF Forward
  <2> QED BY <1>7, <2>1 DEF Forward
<1>8. CASE BackwardRead
  <2>1. chunk' \in Seq(Nat) /\ backend' \in Peer
    BY <1>1, <1>8, ReadSplits DEF BackwardRead
  <2> QED BY <1>8, <2>1 DEF BackwardRead
<1>9. CASE BackwardWrite
  <2>1. client' \in Peer
    BY <1>9, GetAppends DEF BackwardWrite, WriteClient
  <2> QED BY <1>9, <2>1 DEF BackwardWrite
<1>10. CASE Peers
  <2>1. client' \in Peer /\ backend' \in Peer
    BY <1>10, SendAppends, Closing
       DEF Peers, ClientSends, ClientCloses, BackendSends, BackendCloses
  <2> QED BY <1>10, <2>1 DEF Peers, ClientSends, ClientCloses, BackendSends, BackendCloses
<1> QED
  BY <1>2, <1>3, <1>4, <1>5, <1>6, <1>7, <1>8, <1>9, <1>10 DEF ServeHTTP, BackwardCopy

LEMMA TypeStep == TypeInv /\ [Next]_vars => TypeInv'
<1>1. TypeInv /\ UNCHANGED vars => TypeInv'
  BY DEF vars, dialVars, tunnelVars, TypeInv, TypeOK, DialTypeOK
<1> QED BY <1>1, TypeDial, TypeTunnel DEF Next, Done

\* The state of the dial, the handler, the copies and the peers keeps its type.
THEOREM TypeCorrect == Spec => []TypeOK
<1>1. TypeInv => TypeOK
  BY DEF TypeInv
<1> QED BY <1>1, TypeInit, TypeStep, PTL DEF Spec
-----------------------------------------------------------------------------
(* The two streams.                                                        *)

\* Where ServeHTTP is tells which connections it has and which copies run.
CopyInv ==
    /\ spc \in {"roundtrip", "hijack", "replay", "redial", "spawn"} => cpc = "off"
    /\ asked /\ cpc # "off" => dialed = "conn"
    /\ cpc # "write" => chunk = <<>>
    /\ spc \in {"roundtrip", "hijack"} => conn = "http"
    /\ conn = "http" => spc \in {"roundtrip", "hijack", "returned"}
    /\ conn = "hijacked" => spc \notin {"roundtrip", "hijack", "returned"}
    /\ ~asked /\ spc \in {"roundtrip", "hijack", "redial"} => plain = "none"
    /\ ~asked => spc # "replay"

\* The client's bytes: still with net/http, then in brw, on their way or read.
ToBackendInv ==
    /\ conn = "http" =>
          brw = <<>> /\ backend.got = <<>> /\ client.out = Numbers(client.sent)
    /\ spc = "forward" => brw = <<>>
    /\ BackendStream

\* The backend's bytes: kept for the replay, then under way in the copy; a copy
\* that ended at the backend's end has left none.
ToClientInv ==
    /\ spc \in {"roundtrip", "hijack", "replay", "redial"} =>
          client.got = <<>> /\ replay \o backend.out = Numbers(backend.sent)
    /\ ~asked => replay = <<>>
    /\ /\ spc \notin {"roundtrip", "hijack", "replay", "redial"}
       /\ conn = "hijacked" /\ ~client.eof /\ cpc # "over"
       => client.got \o chunk \o backend.out = Numbers(backend.sent)
    /\ plain = "open" /\ conn = "hijacked" /\ ~client.eof /\ cpc = "over" =>
          /\ backend.eof
          /\ client.got = Numbers(backend.sent)

\* Facts of SequenceLemmas, for bytes.
LEMMA ByteAssoc == \A a, b, c \in Seq(Nat) : (a \o b) \o c = a \o (b \o c)
BY ConcatAssociative

LEMMA ByteNone == \A a \in Seq(Nat) : a \o <<>> = a /\ <<>> \o a = a
BY NoPiece

LEMMA StreamsInit == Init => CopyInv /\ ToBackendInv /\ ToClientInv
<1> SUFFICES ASSUME Init PROVE CopyInv /\ ToBackendInv /\ ToClientInv
  OBVIOUS
<1>1. Numbers(0) = <<>> /\ <<>> \o <<>> = <<>>
  BY NoPiece, EmptySeq DEF Numbers
<1> QED BY <1>1 DEF Init, DialInit, Silent, CopyInv, ToBackendInv, ToClientInv, BackendStream

\* CopyInv is about control only.
LEMMA CopyStep == Inv /\ CopyInv /\ [Next]_vars => CopyInv'
<1> SUFFICES ASSUME Inv, CopyInv, [Next]_vars PROVE CopyInv'
  OBVIOUS
<1> USE DEF Inv, DialerInv, TunnelInv, CopyInv, Upgraded, tunnelVars, dialVars
<1>1. CASE DialTLS
  BY <1>1 DEF DialTLS, Dialer, DialPlain, StartHandshake, ReceiveErr, VerifyHostname,
              DialReturns
<1>2. CASE DialTCP \/ StartDial
  BY <1>2 DEF DialTCP, StartDial, DialReturns
<1>3. CASE HandshakeGoroutine \/ HandshakeTimer \/ (HandshakeEnds /\ UNCHANGED tunnelVars)
  BY <1>3 DEF HandshakeGoroutine, Handshaker, HandshakeAborts, StopTimer, Report,
              HandshakeTimer, Timer, TimerFires, ReportTimeout, HandshakeEnds
<1>4. CASE ReadHead \/ Answered \/ RoundTripFails
  BY <1>4 DEF ReadHead, Answered, RoundTripFails
<1>5. CASE Hijack \/ Replay \/ Redial \/ Spawn
  BY <1>5 DEF Hijack, Replay, Redial, Spawn
<1>6. CASE Buffered \/ Forward \/ CloseBackend \/ CloseClient
  BY <1>6 DEF Buffered, Forward, CloseBackend, CloseClient
<1>7. CASE BackwardCopy
  BY <1>7 DEF BackwardCopy, BackwardRead, BackwardWrite
<1>8. CASE Peers
  BY <1>8 DEF Peers, ClientSends, ClientCloses, BackendSends, BackendCloses
<1>9. CASE UNCHANGED vars
  BY <1>9 DEF vars
<1> QED BY <1>1, <1>2, <1>3, <1>4, <1>5, <1>6, <1>7, <1>8, <1>9 DEF Next, Done, ServeHTTP

\* The steps of the dial touch no byte; they may open or close the connection
\* to the backend, but not while a copy runs.
LEMMA DialLeavesBytes ==
    [DialTLS \/ DialTCP \/ StartDial \/ HandshakeGoroutine \/ HandshakeTimer
        \/ (HandshakeEnds /\ UNCHANGED tunnelVars)]_vars
    => UNCHANGED tunnelVars
BY DEF DialTLS, DialTCP, StartDial, HandshakeGoroutine, HandshakeTimer, tunnelVars, vars

LEMMA ToBackendStep ==
    TypeInv /\ CopyInv /\ ToBackendInv /\ [Next]_vars => ToBackendInv'
<1> SUFFICES ASSUME TypeInv, CopyInv, ToBackendInv, [Next]_vars PROVE ToBackendInv'
  OBVIOUS
<1>0. /\ client \in Peer /\ backend \in Peer /\ brw \in Seq(Nat)
      /\ client.out \in Seq(Nat) /\ backend.got \in Seq(Nat) /\ client.sent \in Nat
      /\ Len(client.out) \in Nat /\ Len(backend.out) \in Nat
  BY DEF TypeInv, TypeOK, Peer
<1>1. CASE UNCHANGED tunnelVars
  BY <1>1 DEF tunnelVars, ToBackendInv, BackendStream
<1>2. CASE ReadHead \/ BackwardRead
  <2>1. backend'.got = backend.got /\ backend'.eof = backend.eof
    BY <1>0, <1>2, ReadSplits DEF ReadHead, BackwardRead
  <2> QED BY <1>2, <2>1 DEF ReadHead, BackwardRead, ToBackendInv, BackendStream
<1>3. CASE Answered \/ RoundTripFails \/ Redial \/ Spawn \/ CloseBackend \/ CloseClient
  BY <1>3 DEF Answered, RoundTripFails, Redial, Spawn, CloseBackend, CloseClient, CopyInv,
              ToBackendInv, BackendStream
<1>4. CASE Replay \/ BackwardWrite
  <2>1. replay \in Seq(Nat) /\ chunk \in Seq(Nat)
    BY DEF TypeInv, TypeOK
  <2>2. \A b \in Seq(Nat) :
            Gets(client, b).out = client.out /\ Gets(client, b).sent = client.sent
    BY <1>0, GetAppends
  <2>3. client'.out = client.out /\ client'.sent = client.sent
    BY <1>4, <2>1, <2>2 DEF Replay, BackwardWrite, WriteClient
  <2> QED BY <1>4, <2>3 DEF Replay, BackwardWrite, ToBackendInv, BackendStream
<1>5. CASE Hijack
  <2>1. CASE spc' = "returned"
    BY <1>5, <2>1 DEF Hijack, ToBackendInv, BackendStream
  <2>2. CASE spc' # "returned"
    <3>1. PICK n \in 0 .. Len(client.out) : brw' = First(n, client) /\ client' = Read(n, client)
      BY <1>5, <2>2 DEF Hijack
    <3>2. brw' \in Seq(Nat) /\ brw' \o client'.out = client.out /\ client'.sent = client.sent
      BY <1>0, <3>1, ReadSplits
    <3>3. conn = "http"
      BY <1>5 DEF Hijack, CopyInv
    <3>4. backend.got \o brw' = brw'
      BY <3>2, <3>3, ByteNone DEF ToBackendInv
    <3> QED BY <1>5, <2>2, <3>2, <3>3, <3>4 DEF Hijack, ToBackendInv, BackendStream
  <2> QED BY <2>1, <2>2
<1>6. CASE Buffered
  <2>1. conn = conn' /\ client' = client /\ brw' = <<>> /\ conn # "http"
    BY <1>6 DEF Buffered, CopyInv
  <2>2. CASE backend' = Gets(backend, brw)
    <3>1. backend'.got = backend.got \o brw /\ backend'.eof = backend.eof
      BY <1>0, <2>2, GetAppends
    <3>2. backend'.got \o brw' = backend.got \o brw
      BY <1>0, <2>1, <3>1, NoPiece
    <3> QED BY <1>6, <2>1, <3>1, <3>2 DEF Buffered, ToBackendInv, BackendStream
  <2>3. CASE backend.eof /\ backend' = backend
    BY <1>6, <2>1, <2>3 DEF Buffered, ToBackendInv, BackendStream
  <2> QED BY <1>6, <2>2, <2>3 DEF Buffered
<1>7. CASE Forward
  <2>1. conn = conn' /\ brw' = <<>> /\ brw = <<>> /\ conn # "http"
    BY <1>7 DEF Forward, CopyInv, ToBackendInv
  <2>2. ASSUME NEW n \in 1 .. Len(client.out), client' = Read(n, client),
               backend' = Gets(backend, First(n, client)), ~backend'.eof,
               conn = "hijacked"
        PROVE  backend'.got \o brw' \o client'.out = Numbers(client'.sent)
    <3> DEFINE b == First(n, client)
    <3>n. n \in 0 .. Len(client.out)
      BY <1>0
    <3>0. b \in Seq(Nat) /\ client' \in Peer /\ b \o client'.out = client.out
          /\ client'.sent = client.sent
      BY <1>0, <2>2, <3>n, ReadSplits
    <3>1. client'.out \in Seq(Nat)
      BY <3>0 DEF Peer
    <3>2. backend'.got = backend.got \o b /\ backend'.eof = backend.eof
      BY <1>0, <2>2, <3>0, GetAppends
    <3> HIDE DEF b
    <3>3. backend'.got \in Seq(Nat) /\ backend'.got \o brw' = backend'.got
      BY <1>0, <2>1, <3>0, <3>2, ByteNone
    <3>4. backend.got \o brw = backend.got
      BY <1>0, <2>1, NoPiece
    <3>5. (backend.got \o b) \o client'.out = backend.got \o (b \o client'.out)
      BY <1>0, <3>0, <3>1, ByteAssoc
    <3> QED BY <2>2, <3>0, <3>2, <3>3, <3>4, <3>5 DEF ToBackendInv, BackendStream
  <2>3. CASE backend.eof /\ backend' = backend
    BY <2>1, <2>3 DEF ToBackendInv, BackendStream
  <2>4. CASE client' = client /\ backend' = backend
    BY <2>1, <2>4 DEF ToBackendInv, BackendStream
  <2> QED BY <1>7, <2>1, <2>2, <2>3, <2>4 DEF Forward, ToBackendInv, BackendStream
<1>8. CASE ClientSends
  <2> DEFINE next == <<client.sent + 1>>
             before == backend.got \o brw
  <2>1. client'.out = client.out \o next /\ client'.sent = client.sent + 1
    BY <1>0, <1>8, SendAppends DEF ClientSends
  <2>2. next \in Seq(Nat) /\ before \in Seq(Nat)
    BY <1>0
  <2>3. Numbers(client.sent) \o next = Numbers(client.sent + 1)
    BY <1>0, CountOn DEF Numbers
  <2>4. before \o (client.out \o next) = (before \o client.out) \o next
    <3> HIDE DEF next, before
    <3> QED BY <1>0, <2>2, ByteAssoc
  <2>5. conn = "hijacked" /\ ~backend.eof => before \o client.out = Numbers(client.sent)
    BY DEF ToBackendInv, BackendStream
  <2>6. conn = "http" => client.out = Numbers(client.sent)
    BY DEF ToBackendInv
  <2> QED BY <1>8, <2>1, <2>3, <2>4, <2>5, <2>6 DEF ClientSends, ToBackendInv, BackendStream
<1>9. CASE ClientCloses
  BY <1>0, <1>9, Closing DEF ClientCloses, ToBackendInv, BackendStream
<1>10. CASE BackendSends
  <2>1. backend'.got = backend.got /\ backend'.eof = backend.eof
    BY <1>0, <1>10, SendAppends DEF BackendSends
  <2> QED BY <1>10, <2>1 DEF BackendSends, ToBackendInv, BackendStream
<1>11. CASE BackendCloses
  <2>1. backend'.got = backend.got /\ backend'.eof
    BY <1>0, <1>11, Closing DEF BackendCloses
  <2> QED BY <1>11, <2>1 DEF BackendCloses, ToBackendInv, BackendStream
<1> QED BY <1>1, <1>2, <1>3, <1>4, <1>5, <1>6, <1>7, <1>8, <1>9, <1>10, <1>11, DialLeavesBytes
        DEF Next, Done, ServeHTTP, BackwardCopy, Peers, vars

LEMMA ToClientStep ==
    Inv /\ TypeInv /\ CopyInv /\ ToClientInv /\ [Next]_vars => ToClientInv'
<1> SUFFICES ASSUME Inv, TypeInv, CopyInv, ToClientInv, [Next]_vars PROVE ToClientInv'
  OBVIOUS
<1>0. /\ client \in Peer /\ backend \in Peer
      /\ replay \in Seq(Nat) /\ chunk \in Seq(Nat)
      /\ backend.out \in Seq(Nat) /\ client.got \in Seq(Nat) /\ backend.sent \in Nat
      /\ Len(client.out) \in Nat /\ Len(backend.out) \in Nat
  BY DEF TypeInv, TypeOK, Peer
<1>1. CASE UNCHANGED tunnelVars /\ (plain' = "open" => plain = "open" \/ cpc # "over")
  BY <1>1 DEF tunnelVars, ToClientInv
<1>2. CASE DialTLS \/ DialTCP
  <2>1. UNCHANGED tunnelVars
    BY <1>2 DEF DialTLS, DialTCP, tunnelVars
  <2>2. plain' = "open" => plain = "open" \/ cpc # "over"
    BY <1>2 DEF DialTLS, DialTCP, Dialer, DialPlain, StartHandshake, ReceiveErr, VerifyHostname,
                CopyInv, Inv, DialerInv
  <2> QED BY <1>1, <2>1, <2>2
<1>3. CASE StartDial \/ HandshakeGoroutine \/ HandshakeTimer
            \/ (HandshakeEnds /\ UNCHANGED tunnelVars) \/ UNCHANGED vars
  <2>1. UNCHANGED tunnelVars /\ plain' = plain
    BY <1>3 DEF StartDial, HandshakeGoroutine, Handshaker, HandshakeAborts, StopTimer, Report,
                HandshakeTimer, Timer, TimerFires, ReportTimeout, HandshakeEnds, vars, dialVars
  <2> QED BY <1>1, <2>1
<1>4. CASE ReadHead
  <2>1. PICK n \in 1 .. Len(backend.out) :
            replay' = replay \o First(n, backend) /\ backend' = Read(n, backend)
    BY <1>4 DEF ReadHead
  <2> DEFINE b == First(n, backend)
             rest == backend'.out
  <2>2. n \in 0 .. Len(backend.out)
    BY <1>0
  <2>3. /\ b \in Seq(Nat) /\ rest \in Seq(Nat) /\ b \o rest = backend.out
        /\ backend'.sent = backend.sent
    BY <1>0, <2>1, <2>2, ReadSplits DEF Peer
  <2>4. (replay \o b) \o rest = replay \o (b \o rest)
    <3> HIDE DEF b, rest
    <3> QED BY <1>0, <2>3, ByteAssoc
  <2>5. /\ spc = "roundtrip" /\ asked /\ cpc = "off" /\ conn = "http"
        /\ UNCHANGED <<spc, client, asked, cpc, conn>>
    BY <1>4 DEF ReadHead, Inv, DialerInv, CopyInv
  <2>6. client.got = <<>> /\ replay \o backend.out = Numbers(backend.sent)
    BY <2>5 DEF ToClientInv
  <2>7. replay' \o backend'.out = Numbers(backend'.sent)
    BY <2>1, <2>3, <2>4, <2>6
  <2> QED BY <2>5, <2>6, <2>7 DEF ToClientInv
<1>5. CASE Answered \/ RoundTripFails
  BY <1>5 DEF Answered, RoundTripFails, ToClientInv, CopyInv, dialVars
<1>6. CASE Hijack
  <2>1. client'.got = client.got
    BY <1>0, <1>6, ReadSplits DEF Hijack
  <2> QED BY <1>6, <2>1 DEF Hijack, ToClientInv, CopyInv, dialVars
<1>7. CASE Replay
  <2>1. CASE spc' = "spawn"
    <3>1. client' = Gets(client, replay) /\ UNCHANGED <<chunk, backend, cpc, asked, replay, conn>>
      BY <1>7, <2>1 DEF Replay, WriteClient
    <3>2. client.got = <<>> /\ replay \o backend.out = Numbers(backend.sent)
          /\ chunk = <<>> /\ cpc = "off"
      BY <1>7 DEF Replay, ToClientInv, CopyInv
    <3>3. \A b \in Seq(Nat) : Gets(client, b).got = client.got \o b
      BY <1>0, GetAppends
    <3>4. client'.got = <<>> \o replay
      BY <1>0, <3>1, <3>2, <3>3
    <3>5. client'.got = replay
      BY <1>0, <3>4, ByteNone
    <3>6. client'.got \o chunk' = replay
      BY <1>0, <3>1, <3>2, <3>5, ByteNone
    <3> QED BY <2>1, <3>1, <3>2, <3>6 DEF ToClientInv
  <2>2. CASE spc' = "returned"
    BY <1>7, <2>2 DEF Replay, ToClientInv
  <2> QED BY <1>7, <2>1, <2>2 DEF Replay
<1>8. CASE Redial
  <2>1. client.got = <<>> /\ replay = <<>> /\ chunk = <<>> /\ cpc = "off"
        /\ replay \o backend.out = Numbers(backend.sent)
    BY <1>8 DEF Redial, ToClientInv, CopyInv, Inv, TunnelInv
  <2>2. client.got \o chunk = replay
    BY <1>0, <2>1, ByteNone
  <2> QED BY <1>8, <2>1, <2>2 DEF Redial, ToClientInv
<1>9. CASE Spawn
  BY <1>9 DEF Spawn, ToClientInv, CopyInv, dialVars
<1>10. CASE Buffered
  <2>1. brw \in Seq(Nat)
    BY DEF TypeInv, TypeOK
  <2>2. \A b \in Seq(Nat) :
            /\ Gets(backend, b).sent = backend.sent /\ Gets(backend, b).out = backend.out
            /\ Gets(backend, b).eof = backend.eof
    BY <1>0, GetAppends
  <2>3. backend'.sent = backend.sent /\ backend'.out = backend.out /\ backend'.eof = backend.eof
    BY <1>10, <2>1, <2>2 DEF Buffered
  <2> QED BY <1>10, <2>3 DEF Buffered, ToClientInv, dialVars
<1>11. CASE Forward
  <2>1. /\ backend'.sent = backend.sent /\ backend'.out = backend.out
        /\ backend'.eof = backend.eof
        /\ client'.got = client.got /\ client'.eof = client.eof
    <3>1. \A n \in 1 .. Len(client.out) :
              /\ First(n, client) \in Seq(Nat)
              /\ Read(n, client).got = client.got /\ Read(n, client).eof = client.eof
      BY <1>0, ReadSplits
    <3>2. \A b \in Seq(Nat) :
              /\ Gets(backend, b).sent = backend.sent /\ Gets(backend, b).out = backend.out
              /\ Gets(backend, b).eof = backend.eof
      BY <1>0, GetAppends
    <3> QED BY <1>11, <3>1, <3>2 DEF Forward
  <2> QED BY <1>11, <2>1 DEF Forward, ToClientInv, dialVars
<1>12. CASE CloseBackend \/ CloseClient
  BY <1>12 DEF CloseBackend, CloseClient, ToClientInv, dialVars
<1>13. CASE BackwardRead
  <2>1. chunk = <<>> /\ cpc = "read"
        /\ spc \notin {"roundtrip", "hijack", "replay", "redial"}
    BY <1>13 DEF BackwardRead, CopyInv
  <2>2. client.got \o chunk = client.got
    BY <1>0, <2>1, ByteNone
  <2>3. CASE cpc' = "write"
    <3>1. PICK n \in 1 .. Len(backend.out) :
              chunk' = First(n, backend) /\ backend' = Read(n, backend)
      BY <1>13, <2>3 DEF BackwardRead
    <3> DEFINE b == First(n, backend)
               rest == backend'.out
    <3>2. n \in 0 .. Len(backend.out)
      BY <1>0
    <3>3. /\ b \in Seq(Nat) /\ rest \in Seq(Nat) /\ b \o rest = backend.out
          /\ backend'.sent = backend.sent
      BY <1>0, <3>1, <3>2, ReadSplits DEF Peer
    <3>4. (client.got \o b) \o rest = client.got \o (b \o rest)
      <4> HIDE DEF b, rest
      <4> QED BY <1>0, <3>3, ByteAssoc
    <3> QED BY <1>13, <2>1, <2>2, <2>3, <3>1, <3>3, <3>4 DEF BackwardRead, ToClientInv, dialVars
  <2>4. CASE cpc' = "over"
    <3>1. plain' = "open" => backend.eof /\ backend.out = <<>>
      BY <1>13, <2>4 DEF BackwardRead, dialVars
    <3>2. client.got \o <<>> = client.got
      BY <1>0, ByteNone
    <3> QED BY <1>13, <2>1, <2>2, <2>4, <3>1, <3>2 DEF BackwardRead, ToClientInv, dialVars
  <2> QED BY <1>13, <2>3, <2>4 DEF BackwardRead
<1>14. CASE BackwardWrite
  <2>1. spc \notin {"roundtrip", "hijack", "replay", "redial"} /\ cpc = "write"
    BY <1>14 DEF BackwardWrite, CopyInv
  <2>2. CASE cpc' = "read"
    <3>1. client' = Gets(client, chunk) /\ chunk' = <<>> /\ UNCHANGED <<backend, conn, spc, asked>>
      BY <1>14, <2>2 DEF BackwardWrite, WriteClient
    <3> DEFINE before == client.got \o chunk
    <3>a. before \in Seq(Nat)
      BY <1>0
    <3>b. \A b \in Seq(Nat) :
              Gets(client, b).got = client.got \o b /\ Gets(client, b).eof = client.eof
      BY <1>0, GetAppends
    <3>2. client'.got = before /\ client'.eof = client.eof
      BY <1>0, <3>1, <3>b
    <3>3. client'.got \o chunk' = before
      <4> HIDE DEF before
      <4> QED BY <3>1, <3>2, <3>a, ByteNone
    <3>4. ~client.eof => before \o backend.out = Numbers(backend.sent)
      BY <1>14, <2>1, <2>2 DEF BackwardWrite, ToClientInv
    <3>5. ~client'.eof => (client'.got \o chunk') \o backend'.out = Numbers(backend'.sent)
      BY <3>1, <3>2, <3>3, <3>4
    <3>6. replay' = replay /\ (~asked => replay = <<>>)
      BY <1>14 DEF BackwardWrite, ToClientInv
    <3> QED BY <2>1, <2>2, <3>1, <3>5, <3>6 DEF ToClientInv
  <2>3. CASE cpc' = "over"
    BY <1>14, <2>1, <2>3 DEF BackwardWrite, ToClientInv
  <2> QED BY <1>14, <2>2, <2>3 DEF BackwardWrite
<1>15. CASE ClientSends
  <2>1. client'.got = client.got /\ client'.eof = client.eof
    BY <1>0, <1>15, SendAppends DEF ClientSends
  <2> QED BY <1>15, <2>1 DEF ClientSends, ToClientInv, dialVars
<1>16. CASE ClientCloses
  <2>1. client'.got = client.got /\ client'.eof
    BY <1>0, <1>16, Closing DEF ClientCloses
  <2> QED BY <1>16, <2>1 DEF ClientCloses, ToClientInv, dialVars
<1>17. CASE BackendSends
  <2> DEFINE next == <<backend.sent + 1>>
             before == client.got \o chunk
  <2>1. /\ backend'.out = backend.out \o next /\ backend'.sent = backend.sent + 1
        /\ ~backend.eof
    BY <1>0, <1>17, SendAppends DEF BackendSends
  <2>2. next \in Seq(Nat) /\ before \in Seq(Nat)
    BY <1>0
  <2>3. Numbers(backend.sent) \o next = Numbers(backend.sent + 1)
    BY <1>0, CountOn DEF Numbers
  <2>4. before \o (backend.out \o next) = (before \o backend.out) \o next
    <3> HIDE DEF next, before
    <3> QED BY <1>0, <2>2, ByteAssoc
  <2>a. replay \o (backend.out \o next) = (replay \o backend.out) \o next
    <3> HIDE DEF next, before
    <3> QED BY <1>0, <2>2, ByteAssoc
  <2>5. UNCHANGED <<spc, conn, client, cpc, chunk, asked, replay, plain>>
    BY <1>17 DEF BackendSends, dialVars
  <2>6. spc \in {"roundtrip", "hijack", "replay", "redial"} =>
            client.got = <<>> /\ replay \o backend.out = Numbers(backend.sent)
    BY DEF ToClientInv
  <2>7. /\ spc \notin {"roundtrip", "hijack", "replay", "redial"}
        /\ conn = "hijacked" /\ ~client.eof /\ cpc # "over"
        => before \o backend.out = Numbers(backend.sent)
    BY DEF ToClientInv
  <2>8. ~(plain = "open" /\ conn = "hijacked" /\ ~client.eof /\ cpc = "over")
    BY <2>1 DEF ToClientInv
  <2>9. ~asked => replay = <<>>
    BY DEF ToClientInv
  <2> QED BY <2>1, <2>3, <2>4, <2>a, <2>5, <2>6, <2>7, <2>8, <2>9 DEF ToClientInv
<1>18. CASE BackendCloses
  <2>1. backend'.sent = backend.sent /\ backend'.out = backend.out /\ backend'.eof
    BY <1>0, <1>18, Closing DEF BackendCloses
  <2> QED BY <1>18, <2>1 DEF BackendCloses, ToClientInv, dialVars
<1> QED BY <1>2, <1>3, <1>4, <1>5, <1>6, <1>7, <1>8, <1>9, <1>10, <1>11, <1>12, <1>13, <1>14,
           <1>15, <1>16, <1>17, <1>18
        DEF Next, Done, ServeHTTP, BackwardCopy, Peers

\* Whatever the sizes of the reads and whoever is slow, until it closes the
\* backend of a tunnel gets every byte of the client's once and in order, those
\* that net/http had read ahead included (reverseproxy.go:295-306).
THEOREM BackendGetsAll == Spec => []BackendStream
<1>1. ToBackendInv => BackendStream
  BY DEF ToBackendInv
<1> QED BY <1>1, InitInv, InvStep, TypeInit, TypeStep, StreamsInit, CopyStep, ToBackendStep, PTL
        DEF Spec

\* And the client gets the backend's, head and replay included, as long as both
\* connections are up; all of them when the backend has closed and the copy
\* has ended (reverseproxy.go:277, 291).
THEOREM ClientGetsAll == Spec => []ClientStream
<1>1. CopyInv /\ ToClientInv => ClientStream
  BY DEF CopyInv, ToClientInv, ClientStream
<1> QED BY <1>1, InitInv, InvStep, TypeInit, TypeStep, StreamsInit, CopyStep, ToClientStep, PTL
        DEF Spec
=============================================================================
