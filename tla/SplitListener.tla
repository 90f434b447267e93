--------------------------- MODULE SplitListener ---------------------------
(***************************************************************************)
(* The listener of redirect.go: one port for HTTPS and plain HTTP.  The    *)
(* accept loop of net/http calls SplitListener.Accept, which peeks at the  *)
(* first bytes of the connection before it returns; each connection it     *)
(* returns is then served in a goroutine of its own, and                   *)
(* HTTPRedirectHandler sends a request that came without TLS to HTTPS.     *)
(* An error of the listening socket itself is returned by Accept and ends  *)
(* the accept loop, and with it main and the process.                      *)
(***************************************************************************)
EXTENDS Naturals, Sequences

CONSTANTS Clients     \* connections; each is made once

Kinds == {"tls", "ssl2", "http"}    \* what a client's first bytes are

Nobody == "nobody"

ASSUME NobodyAssumption == Nobody \notin Clients

VARIABLES
    kind,         \* external: kind[c] is what c speaks
    says,         \* external: "nothing", "bytes" (six at least) or "eof"
    backlog,      \* external: connections the kernel has for Accept
    broken,       \* external: the listening socket only gives errors
    accepting,    \* the connection SplitListener.Accept is peeking at
    conn,         \* conn[c]: how far c's connection is
    ended         \* http.Server.Serve has returned, and the process is over

vars == <<kind, says, backlog, broken, accepting, conn, ended>>

Init ==
    /\ kind \in [Clients -> Kinds]
    /\ says = [c \in Clients |-> "nothing"]
    /\ backlog = <<>>
    /\ broken = FALSE
    /\ accepting = Nobody
    /\ conn = [c \in Clients |-> "none"]
    /\ ended = FALSE

Moves(c, from, to) ==
    /\ conn[c] = from
    /\ conn' = [conn EXCEPT ![c] = to]
-----------------------------------------------------------------------------
(* The clients and the listening socket.                                   *)

Connect(c) ==
    /\ ~ended
    /\ Moves(c, "none", "backlog")
    /\ backlog' = Append(backlog, c)
    /\ UNCHANGED <<kind, says, broken, accepting, ended>>

\* The first bytes, or the end of the stream before six bytes came.
Speak(c) ==
    /\ conn[c] # "none"
    /\ says[c] = "nothing"
    /\ \E s \in {"bytes", "eof"} : says' = [says EXCEPT ![c] = s]
    /\ UNCHANGED <<kind, backlog, broken, accepting, conn, ended>>

\* An error that is not temporary: net/http calls Accept again after others.
Break ==
    /\ ~broken /\ ~ended
    /\ broken' = TRUE
    /\ UNCHANGED <<kind, says, backlog, accepting, conn, ended>>
-----------------------------------------------------------------------------
(* The accept loop.                                                        *)

\* Faulty variant: Accept is called while another call is peeking.
AcceptWhilePeeking ==
    /\ ~broken /\ ~ended
    /\ backlog # <<>>
    /\ accepting' = Head(backlog)
    /\ backlog' = Tail(backlog)
    /\ Moves(Head(backlog), "backlog", "peek")
    /\ UNCHANGED <<kind, says, broken, ended>>

Accept ==
    /\ ~broken /\ ~ended
    /\ accepting = Nobody
    /\ backlog # <<>>
    /\ accepting' = Head(backlog)
    /\ backlog' = Tail(backlog)
    /\ Moves(Head(backlog), "backlog", "peek")
    /\ UNCHANGED <<kind, says, broken, ended>>

\* Accept returns the error, Serve returns it, and main returns.
AcceptFails ==
    /\ broken /\ ~ended
    /\ accepting = Nobody
    /\ ended' = TRUE
    /\ UNCHANGED <<kind, says, backlog, broken, accepting, conn>>

\* Faulty variant: only the TLS 1 header is recognized.
PeekOnlyTLS ==
    /\ ~ended /\ accepting # Nobody
    /\ says[accepting] = "bytes"
    /\ Moves(accepting, "peek",
             IF kind[accepting] = "tls" THEN "tls" ELSE "plain")
    /\ accepting' = Nobody
    /\ UNCHANGED <<kind, says, backlog, broken, ended>>

\* Peek(6) has its bytes: 0x16 0x3 . . . 0x1 and 0x80 are given to tls.Server.
Peek ==
    /\ ~ended /\ accepting # Nobody
    /\ says[accepting] = "bytes"
    /\ Moves(accepting, "peek",
             IF kind[accepting] \in {"tls", "ssl2"} THEN "tls" ELSE "plain")
    /\ accepting' = Nobody
    /\ UNCHANGED <<kind, says, backlog, broken, ended>>

\* Faulty variant: Accept returns the error, which ends http.Server.Serve.
PeekErrorReturned ==
    /\ ~ended /\ accepting # Nobody
    /\ says[accepting] = "eof"
    /\ ended' = TRUE
    /\ UNCHANGED <<kind, says, backlog, broken, accepting, conn>>

\* "couldn't peek, assume it's HTTPS"
PeekFails ==
    /\ ~ended /\ accepting # Nobody
    /\ says[accepting] = "eof"
    /\ Moves(accepting, "peek", "tls")
    /\ accepting' = Nobody
    /\ UNCHANGED <<kind, says, backlog, broken, ended>>
-----------------------------------------------------------------------------
(* The goroutine of a connection.                                          *)

\* The TLS handshake; crypto/tls speaks neither SSL 2 nor to a closed stream.
Handshake(c) ==
    /\ ~ended
    /\ Moves(c, "tls", IF kind[c] = "tls" /\ says[c] = "bytes" THEN "secure"
                       ELSE "refused")
    /\ UNCHANGED <<kind, says, backlog, broken, accepting, ended>>

\* HTTPRedirectHandler.ServeHTTP.
ServeHTTP(c) ==
    /\ ~ended
    /\ \/ Moves(c, "secure", "handled")
       \/ Moves(c, "plain", "redirected")
    /\ UNCHANGED <<kind, says, backlog, broken, accepting, ended>>
-----------------------------------------------------------------------------
AcceptLoop == Accept \/ AcceptFails \/ Peek \/ PeekFails

Serve(c) == Handshake(c) \/ ServeHTTP(c)

Over == {"handled", "redirected", "refused"}

\* Every client has been served, or the process is over.
Quiet ==
    /\ ended \/ \A c \in Clients : conn[c] \in Over
    /\ UNCHANGED vars

Next ==
    \/ AcceptLoop \/ Break
    \/ \E c \in Clients : Connect(c) \/ Speak(c) \/ Serve(c)
    \/ Quiet

Spec == Init /\ [][Next]_vars

(* The accept loop and the goroutines of the connections run; clients may  *)
(* stay silent for ever, and no deadline is set on a connection.           *)
Fairness ==
    /\ WF_vars(AcceptLoop)
    /\ \A c \in Clients : WF_vars(Serve(c))

FairSpec == Spec /\ Fairness
-----------------------------------------------------------------------------
TypeOK ==
    /\ kind \in [Clients -> Kinds]
    /\ says \in [Clients -> {"nothing", "bytes", "eof"}]
    /\ backlog \in Seq(Clients)
    /\ accepting \in Clients \union {Nobody}
    /\ broken \in BOOLEAN /\ ended \in BOOLEAN
    /\ conn \in [Clients -> {"none", "backlog", "peek", "tls", "plain",
                             "secure"} \union Over]
    /\ \A c \in Clients : conn[c] = "peek" <=> accepting = c

(* The handlers behind the redirect, the API with its passwords among them, *)
(* only see requests that came over TLS, and only plain HTTP is redirected. *)
SplitRight ==
    \A c \in Clients :
        /\ conn[c] \in {"secure", "handled"} => kind[c] = "tls"
        /\ conn[c] \in {"plain", "redirected"} => kind[c] = "http"

(* If every client that connects says something or hangs up, each of them  *)
(* is served unless the listening socket breaks: no sequence of short,     *)
(* closed or foreign connections stops the accept loop.                    *)
TalkersServed ==
    (\A c \in Clients : (conn[c] # "none") ~> (says[c] # "nothing"))
        => \A c \in Clients :
              (conn[c] # "none") ~> (conn[c] \in Over \/ broken)
=============================================================================
