------------------------------ MODULE DialTLS ------------------------------
(***************************************************************************)
(* The TLS dialer that getTransportDialTLS (reverseproxy.go) makes for     *)
(* websocket requests: the goroutine that dials starts a timer and a       *)
(* goroutine for the handshake, both of which report on the channel errc,  *)
(* and takes the first report as its outcome.                              *)
(***************************************************************************)
EXTENDS Naturals, Sequences

ErrcSize == 2         \* capacity of errc

VARIABLES
    dpc,          \* where the dialing goroutine is
    hpc,          \* where the goroutine of the handshake is
    outcome,      \* what tlsConn.Handshake returned
    timer,        \* the time.AfterFunc timer
    errc,         \* reports in the channel
    plain,        \* plainConn: the connection to the backend
    dialed        \* what the dialer returned: "conn" or "error"

dialVars == <<dpc, hpc, outcome, timer, errc, plain, dialed>>

DialInit ==
    /\ dpc = "idle"
    /\ hpc = "off"
    /\ outcome = "none"
    /\ timer = "off"
    /\ errc = <<>>
    /\ plain = "none"
    /\ dialed = "none"
-----------------------------------------------------------------------------
(* The dialing goroutine.                                                  *)

DialReturns(what) == dpc' = "returned" /\ dialed' = what

\* plainDial(network, addr)
DialPlain ==
    /\ dpc = "dial"
    /\ \/ dpc' = "start" /\ plain' = "open" /\ UNCHANGED dialed
       \/ DialReturns("error") /\ UNCHANGED plain
    /\ UNCHANGED <<hpc, outcome, timer, errc>>

\* Faulty variant: the timeout is not armed.
StartWithoutTimer ==
    /\ dpc = "start"
    /\ dpc' = "errc"
    /\ hpc' = "handshake"
    /\ UNCHANGED <<outcome, timer, errc, plain, dialed>>

\* time.AfterFunc, with the ten seconds every such transport has, and "go".
StartHandshake ==
    /\ dpc = "start"
    /\ dpc' = "errc"
    /\ timer' = "armed"
    /\ hpc' = "handshake"
    /\ UNCHANGED <<outcome, errc, plain, dialed>>

\* Faulty variant: plainConn is left open when the dial fails.
ReceiveErrWithoutClose ==
    /\ dpc = "errc"
    /\ errc # <<>>
    /\ errc' = Tail(errc)
    /\ \/ Head(errc) = "ok" /\ dpc' = "verify" /\ UNCHANGED dialed
       \/ Head(errc) # "ok" /\ DialReturns("error")
    /\ UNCHANGED <<hpc, outcome, timer, plain>>

\* err := <-errc
ReceiveErr ==
    /\ dpc = "errc"
    /\ errc # <<>>
    /\ errc' = Tail(errc)
    /\ \/ Head(errc) = "ok" /\ dpc' = "verify" /\ UNCHANGED <<plain, dialed>>
       \/ Head(errc) # "ok" /\ plain' = "closed" /\ DialReturns("error")
    /\ UNCHANGED <<hpc, outcome, timer>>

\* tlsConn.VerifyHostname(hostname)
VerifyHostname ==
    /\ dpc = "verify"
    /\ \/ DialReturns("conn") /\ UNCHANGED plain
       \/ DialReturns("error") /\ plain' = "closed"
    /\ UNCHANGED <<hpc, outcome, timer, errc>>
-----------------------------------------------------------------------------
(* The goroutine of the handshake and the timer.                           *)

\* The backend answers, rightly or not; it may also stay silent.
HandshakeEnds ==
    /\ hpc = "handshake"
    /\ plain = "open"
    /\ hpc' = "stopTimer"
    /\ outcome' \in {"ok", "failed"}
    /\ UNCHANGED <<dpc, timer, errc, plain, dialed>>

\* Faulty variant: the error of the handshake is not kept.
HandshakeErrorDropped ==
    /\ hpc = "handshake"
    /\ plain = "closed"
    /\ hpc' = "stopTimer"
    /\ UNCHANGED <<dpc, outcome, timer, errc, plain, dialed>>

\* plainConn was closed under the handshake.
HandshakeAborts ==
    /\ hpc = "handshake"
    /\ plain = "closed"
    /\ hpc' = "stopTimer"
    /\ outcome' = "failed"
    /\ UNCHANGED <<dpc, timer, errc, plain, dialed>>

\* timer.Stop() comes too late for a timer whose function runs already.
StopTimer ==
    /\ hpc = "stopTimer"
    /\ hpc' = "report"
    /\ timer' = IF timer = "armed" THEN "stopped" ELSE timer
    /\ UNCHANGED <<dpc, outcome, errc, plain, dialed>>

\* Faulty variant: errc has no buffer, and each send needs the dialer.
ReportUnbuffered ==
    /\ hpc = "report"
    /\ dpc = "errc"
    /\ errc = <<>>
    /\ hpc' = "over"
    /\ errc' = <<outcome>>
    /\ UNCHANGED <<dpc, outcome, timer, plain, dialed>>

\* errc <- err
Report ==
    /\ hpc = "report"
    /\ Len(errc) < ErrcSize
    /\ hpc' = "over"
    /\ errc' = Append(errc, outcome)
    /\ UNCHANGED <<dpc, outcome, timer, plain, dialed>>

TimerFires ==
    /\ timer = "armed"
    /\ timer' = "firing"
    /\ UNCHANGED <<dpc, hpc, outcome, errc, plain, dialed>>

\* errc <- tlsHandshakeTimeoutError{}
ReportTimeout ==
    /\ timer = "firing"
    /\ Len(errc) < ErrcSize
    /\ timer' = "over"
    /\ errc' = Append(errc, "timeout")
    /\ UNCHANGED <<dpc, hpc, outcome, plain, dialed>>
-----------------------------------------------------------------------------
Dialer == DialPlain \/ StartHandshake \/ ReceiveErr \/ VerifyHostname

Handshaker == HandshakeAborts \/ StopTimer \/ Report

Timer == TimerFires \/ ReportTimeout

DialTypeOK ==
    /\ dpc \in {"idle", "dial", "start", "errc", "verify", "returned"}
    /\ hpc \in {"off", "handshake", "stopTimer", "report", "over"}
    /\ outcome \in {"none", "ok", "failed"}
    /\ timer \in {"off", "armed", "stopped", "firing", "over"}
    /\ errc \in Seq({"ok", "failed", "timeout"})
    /\ plain \in {"none", "open", "closed"}
    /\ dialed \in {"none", "conn", "error"}
=============================================================================
