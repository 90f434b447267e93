------------------------------ MODULE AsyncCib ------------------------------
(***************************************************************************)
(* The CIB cache of the server (AsyncCib in main.go) and the long-polling  *)
(* monitor requests it serves (serveMonitor).  Two goroutines publish a    *)
(* new CIB through notifyNewCib: cibFetcher, after a Query, and pacemaker's *)
(* Mainloop, from the subscription callback.  The goroutine of each        *)
(* monitor request reads the version under the mutex, and waits on the     *)
(* unbuffered channel notifier when there is nothing new.                  *)
(*                                                                         *)
(* A CIB document is represented by its version, a positive number; 0 is   *)
(* the empty document, the nil version and the empty epoch string.         *)
(***************************************************************************)
EXTENDS Naturals, Sequences

CONSTANTS
    Clients,      \* HTTP clients of the monitor route
    MaxVersion,   \* bound: the cluster changes its CIB up to this version
    MaxPolls      \* bound: monitor requests of one client

ASSUME BoundsAssumption == MaxVersion \in Nat /\ MaxPolls \in Nat

Fetcher  == "cibFetcher"
Mainloop == "Mainloop"
Procs    == {Fetcher, Mainloop}

Lost     == 0         \* the subscription event that is not an UpdateEvent
NoClient == "none"

VARIABLES
    cluster,      \* external: the version of the CIB in pacemaker
    subscribed,   \* external: a subscription of the fetcher is live
    events,       \* external: events the Mainloop has still to dispatch
    xmldoc,       \* acib.xmldoc
    version,      \* acib.version
    lock,         \* acib.lock: a holder in Procs, or "free"
    pc,           \* where each of the two goroutines is
    doc,          \* doc[p]: argument of p's current notifyNewCib call
    serving,      \* serving[p]: the client whose channel p received
    cpc,          \* where the goroutine of each client's request is
    epoch,        \* epoch[c]: the epoch in the query string
    defval,       \* defval[c]: the version read before Wait
    answer,       \* answer[c]: the epoch in the last response
    how,          \* how[c]: what ended the last request
    fetched,      \* fetched[c]: version of the CIB c got from the API
    polls,        \* polls[c]: requests c has made
    floor         \* history: floor[c] is version when c's poll arrived

pacemaker == <<cluster, subscribed, events>>
cache     == <<xmldoc, version, lock>>
procs     == <<pc, doc, serving>>
clients   == <<cpc, epoch, defval, answer, how, fetched, polls, floor>>
vars      == <<pacemaker, cache, procs, clients>>

FetcherPC == {"open", "openFailed", "query", "subscribe", "subscribeFailed",
              "waiting"}
NotifyPC  == {"lock", "store", "drain", "send"}
MainPC    == {"idle", "lost"}
Pending   == {"version", "enter", "queued", "taken"}

Init ==
    /\ cluster = 1
    /\ subscribed = FALSE
    /\ events = <<>>
    /\ xmldoc = 0
    /\ version = 0
    /\ lock = "free"
    /\ pc = [p \in Procs |-> IF p = Fetcher THEN "open" ELSE "idle"]
    /\ doc = [p \in Procs |-> 0]
    /\ serving = [p \in Procs |-> NoClient]
    /\ cpc = [c \in Clients |-> "idle"]
    /\ epoch = [c \in Clients |-> 0]
    /\ defval = [c \in Clients |-> 0]
    /\ answer = [c \in Clients |-> 0]
    /\ how = [c \in Clients |-> "none"]
    /\ fetched = [c \in Clients |-> 0]
    /\ polls = [c \in Clients |-> 0]
    /\ floor = [c \in Clients |-> 0]

Goto(p, from, to) ==
    /\ pc[p] = from
    /\ pc' = [pc EXCEPT ![p] = to]
-----------------------------------------------------------------------------
(* Pacemaker, as the callbacks and return values in main.go show it.       *)

\* The cluster changes its CIB; a live subscription gets an UpdateEvent.
ClusterUpdate ==
    /\ cluster < MaxVersion
    /\ cluster' = cluster + 1
    /\ events' = IF subscribed THEN Append(events, cluster') ELSE events
    /\ UNCHANGED <<subscribed, cache, procs, clients>>

\* The connection breaks: the newest events may be lost with it, and the
\* last event of the subscription says so.
LoseConnection ==
    /\ subscribed
    /\ subscribed' = FALSE
    /\ \E k \in 0 .. Len(events) :
           events' = Append(SubSeq(events, 1, k), Lost)
    /\ UNCHANGED <<cluster, cache, procs, clients>>
-----------------------------------------------------------------------------
(* The goroutine cibFetcher.                                               *)

OpenCib ==
    /\ \/ Goto(Fetcher, "open", "query")
       \/ Goto(Fetcher, "open", "openFailed")
    /\ UNCHANGED <<pacemaker, cache, doc, serving, clients>>

\* The five seconds after a failed OpenCib or Subscribe.
Sleep ==
    /\ \/ Goto(Fetcher, "openFailed", "open")
       \/ Goto(Fetcher, "subscribeFailed", "query")
    /\ UNCHANGED <<pacemaker, cache, doc, serving, clients>>

\* Query succeeds and notifyNewCib starts, or the error is only logged.
Query ==
    /\ \/ /\ Goto(Fetcher, "query", "lock")
          /\ doc' = [doc EXCEPT ![Fetcher] = cluster]
       \/ /\ Goto(Fetcher, "query", "subscribe")
          /\ UNCHANGED doc
    /\ UNCHANGED <<pacemaker, cache, serving, clients>>

\* Faulty variant: the fetcher queries again instead of waiting on waiter.
SubscribeWithoutWait ==
    /\ Goto(Fetcher, "subscribe", "query")
    /\ subscribed' = TRUE
    /\ UNCHANGED <<cluster, events, cache, doc, serving, clients>>

Subscribe ==
    /\ \/ /\ Goto(Fetcher, "subscribe", "waiting")
          /\ subscribed' = TRUE
       \/ /\ Goto(Fetcher, "subscribe", "subscribeFailed")
          /\ UNCHANGED subscribed
    /\ UNCHANGED <<cluster, events, cache, doc, serving, clients>>
-----------------------------------------------------------------------------
(* The goroutine of pacemaker.Mainloop, which runs the callback.           *)

DispatchUpdate ==
    /\ events # <<>>
    /\ Head(events) # Lost
    /\ Goto(Mainloop, "idle", "lock")
    /\ doc' = [doc EXCEPT ![Mainloop] = Head(events)]
    /\ events' = Tail(events)
    /\ UNCHANGED <<cluster, subscribed, cache, serving, clients>>

DispatchLost ==
    /\ events # <<>>
    /\ Head(events) = Lost
    /\ Goto(Mainloop, "idle", "lost")
    /\ events' = Tail(events)
    /\ UNCHANGED <<cluster, subscribed, cache, doc, serving, clients>>

\* Faulty variant: the fetcher listens on another channel than the callback's.
WaiterMismatch ==
    /\ pc[Mainloop] = "lost"
    /\ pc[Fetcher] = "waiting"
    /\ UNCHANGED vars

\* The callback's "waiter <- 1" meets the fetcher's "<-waiter".
WaiterHandoff ==
    /\ pc[Mainloop] = "lost"
    /\ pc[Fetcher] = "waiting"
    /\ pc' = [p \in Procs |-> IF p = Fetcher THEN "query" ELSE "idle"]
    /\ UNCHANGED <<pacemaker, cache, doc, serving, clients>>
-----------------------------------------------------------------------------
(* notifyNewCib, in the goroutine p that called it.                        *)

\* Faulty variant: the version is published before the document, unlocked.
StoreVersionFirst(p) ==
    /\ lock = "free"
    /\ Goto(p, "lock", "store")
    /\ version' = doc[p]
    /\ UNCHANGED <<pacemaker, xmldoc, lock, doc, serving, clients>>

\* lock.Lock(); xmldoc = text
StoreDoc(p) ==
    /\ lock = "free"
    /\ Goto(p, "lock", "store")
    /\ lock' = p
    /\ xmldoc' = doc[p]
    /\ UNCHANGED <<pacemaker, version, doc, serving, clients>>

\* version = version; lock.Unlock()
StoreVersion(p) ==
    /\ Goto(p, "store", "drain")
    /\ version' = doc[p]
    /\ lock' = "free"
    /\ UNCHANGED <<pacemaker, xmldoc, doc, serving, clients>>

\* Faulty variant: the channel is received but nothing is sent on it.
TakeWithoutSend(p, c) ==
    /\ pc[p] = "drain"
    /\ cpc[c] = "queued"
    /\ cpc' = [cpc EXCEPT ![c] = "taken"]
    /\ UNCHANGED <<pacemaker, cache, procs, epoch, defval, answer, how,
                   fetched, polls, floor>>

\* Faulty variant: the received channel is not kept.
TakeForgetsClient(p, c) ==
    /\ cpc[c] = "queued"
    /\ Goto(p, "drain", "send")
    /\ cpc' = [cpc EXCEPT ![c] = "taken"]
    /\ UNCHANGED <<pacemaker, cache, doc, serving, epoch, defval, answer, how,
                   fetched, polls, floor>>

\* case clientchan := <-acib.notifier
Take(p, c) ==
    /\ cpc[c] = "queued"
    /\ Goto(p, "drain", "send")
    /\ serving' = [serving EXCEPT ![p] = c]
    /\ cpc' = [cpc EXCEPT ![c] = "taken"]
    /\ UNCHANGED <<pacemaker, cache, doc, epoch, defval, answer, how, fetched,
                   polls, floor>>

\* Faulty variant: a select without a default case.
DrainWithoutDefault(p) == pc[p] = "drain" /\ UNCHANGED vars

\* default: break Loop, and the caller continues after notifyNewCib
DrainDone(p) ==
    /\ \A c \in Clients : cpc[c] # "queued"
    /\ Goto(p, "drain", IF p = Fetcher THEN "subscribe" ELSE "idle")
    /\ UNCHANGED <<pacemaker, cache, doc, serving, clients>>
-----------------------------------------------------------------------------
(* serveMonitor and Wait, in the goroutine of c's request.                 *)

\* The response {"epoch": v} ends the request.
Reply(c, v, reason) ==
    /\ cpc' = [cpc EXCEPT ![c] = "answered"]
    /\ answer' = [answer EXCEPT ![c] = v]
    /\ how' = [how EXCEPT ![c] = reason]

\* A request arrives with the epoch of the client's last response, or none.
Poll(c) ==
    /\ cpc[c] \notin Pending
    /\ polls[c] < MaxPolls
    /\ polls' = [polls EXCEPT ![c] = @ + 1]
    /\ cpc' = [cpc EXCEPT ![c] = "version"]
    /\ \E e \in {0, answer[c]} : epoch' = [epoch EXCEPT ![c] = e]
    /\ floor' = [floor EXCEPT ![c] = version]
    /\ UNCHANGED <<pacemaker, cache, procs, defval, answer, how, fetched>>

\* ver := handler.cib.Version(), and what depends on it.
ReadVersion(c) ==
    /\ cpc[c] = "version"
    /\ lock = "free"
    /\ \/ /\ version \in {0, epoch[c]}
          /\ cpc' = [cpc EXCEPT ![c] = "enter"]
          /\ defval' = [defval EXCEPT ![c] = version]
          /\ UNCHANGED <<answer, how>>
       \/ /\ version \notin {0, epoch[c]}
          /\ Reply(c, version, "changed")
          /\ UNCHANGED defval
    /\ UNCHANGED <<pacemaker, cache, procs, epoch, fetched, polls, floor>>

\* Wait blocks in its select: its channel is offered on notifier.
EnterWait(c) ==
    /\ cpc[c] = "enter"
    /\ cpc' = [cpc EXCEPT ![c] = "queued"]
    /\ UNCHANGED <<pacemaker, cache, procs, epoch, defval, answer, how,
                   fetched, polls, floor>>

\* case <-time.After(timeout): return defval
Timeout(c) ==
    /\ cpc[c] = "queued"
    /\ Reply(c, defval[c], "timeout")
    /\ UNCHANGED <<pacemaker, cache, procs, epoch, defval, fetched, polls,
                   floor>>

\* "clientchan <- version.String()" meets Wait's "<-requestChan".
Deliver(p) ==
    /\ Goto(p, "send", "drain")
    /\ Reply(serving[p], doc[p], "notified")
    /\ serving' = [serving EXCEPT ![p] = NoClient]
    /\ UNCHANGED <<pacemaker, cache, doc, epoch, defval, fetched, polls,
                   floor>>

\* The client asks the API for the CIB its answer announced: Get().
Get(c) ==
    /\ cpc[c] = "answered"
    /\ lock = "free"
    /\ cpc' = [cpc EXCEPT ![c] = "fetched"]
    /\ fetched' = [fetched EXCEPT ![c] = xmldoc]
    /\ UNCHANGED <<pacemaker, cache, procs, epoch, defval, answer, how, polls,
                   floor>>
-----------------------------------------------------------------------------
CibFetcher == OpenCib \/ Sleep \/ Query \/ Subscribe

RunMainloop == DispatchUpdate \/ DispatchLost \/ WaiterHandoff

NotifyNewCib(p) ==
    \/ StoreDoc(p)
    \/ StoreVersion(p)
    \/ \E c \in Clients : Take(p, c)
    \/ Deliver(p)
    \/ DrainDone(p)

ServeMonitor(c) == ReadVersion(c) \/ EnterWait(c) \/ Timeout(c)

Next ==
    \/ ClusterUpdate
    \/ LoseConnection
    \/ CibFetcher
    \/ RunMainloop
    \/ \E p \in Procs : NotifyNewCib(p)
    \/ \E c \in Clients : Poll(c) \/ ServeMonitor(c) \/ Get(c)

Spec == Init /\ [][Next]_vars

(* The Go scheduler runs every goroutine that can run, a timer fires, and  *)
(* each blocking library call returns; a sync.Mutex hands itself over to a *)
(* starving waiter, so Version() is strongly fair.  Nothing is assumed of  *)
(* the cluster, the connection or the clients.                             *)
Fairness ==
    /\ WF_vars(CibFetcher)
    /\ WF_vars(RunMainloop)
    /\ \A p \in Procs : WF_vars(NotifyNewCib(p))
    /\ \A c \in Clients : SF_vars(ReadVersion(c))
    /\ \A c \in Clients : WF_vars(EnterWait(c) \/ Timeout(c))

FairSpec == Spec /\ Fairness
-----------------------------------------------------------------------------
PacemakerTypeOK ==
    /\ cluster \in Nat
    /\ subscribed \in BOOLEAN
    /\ events \in Seq(Nat)

CacheTypeOK ==
    /\ xmldoc \in Nat
    /\ version \in Nat
    /\ lock \in Procs \union {"free"}

ProcsTypeOK ==
    /\ pc \in [Procs -> FetcherPC \union NotifyPC \union MainPC]
    /\ pc[Fetcher] \notin MainPC
    /\ pc[Mainloop] \notin FetcherPC
    /\ doc \in [Procs -> Nat]
    /\ serving \in [Procs -> Clients \union {NoClient}]
    /\ \A p \in Procs : pc[p] = "send" => serving[p] \in Clients

ClientsTypeOK ==
    /\ cpc \in [Clients -> Pending \union {"idle", "answered", "fetched"}]
    /\ how \in [Clients -> {"none", "changed", "timeout", "notified"}]
    /\ epoch \in [Clients -> Nat]
    /\ defval \in [Clients -> Nat]
    /\ answer \in [Clients -> Nat]
    /\ fetched \in [Clients -> Nat]
    /\ polls \in [Clients -> Nat]
    /\ floor \in [Clients -> Nat]

TypeOK == PacemakerTypeOK /\ CacheTypeOK /\ ProcsTypeOK /\ ClientsTypeOK

(* The two callers of notifyNewCib never run it at the same time.  No mutex *)
(* says so (acib.lock covers only the two assignments): it follows from the *)
(* fetcher waiting on waiter for as long as its subscription delivers.     *)
NotifyExclusion ==
    ~ (pc[Fetcher] \in NotifyPC /\ pc[Mainloop] \in NotifyPC)

(* A client that reads the CIB from the API after a monitor response gets  *)
(* a document at least as new as the epoch it was told: notifyNewCib stores *)
(* xmldoc and version in one critical section before it tells anyone.      *)
FetchedCoversAnswer ==
    \A c \in Clients : cpc[c] = "fetched" => fetched[c] >= answer[c]

(* A request that handed its channel to notifyNewCib, and so left the      *)
(* protection of its timeout for a bare <-requestChan, is the one that     *)
(* exactly one publishing goroutine is about to answer.                    *)
TakenIsServed ==
    \A c \in Clients :
        cpc[c] = "taken" <=>
            \E p \in Procs :
                /\ pc[p] = "send" /\ serving[p] = c
                /\ \A q \in Procs \ {p} : pc[q] = "send" => serving[q] # c

(* The version and the document that Version() and Get() return never go   *)
(* back, whichever goroutine published them and however the connection to  *)
(* pacemaker came and went.                                                *)
CacheNeverGoesBack ==
    [][version' >= version /\ xmldoc' >= xmldoc]_vars

(* The cache as a register that monitor requests read while it is written. *)
Register == INSTANCE EpochRegister WITH
    value <- version,
    pending <- {c \in Clients : cpc[c] \in Pending}

(* Every response of serveMonitor, by whichever of its three exits, is a   *)
(* version that the cache held at some moment of that request.             *)
RegisterSafety == Register!Spec

(* Every monitor request is answered: the timeout bounds the wait for a    *)
(* publisher, and a publisher that took the channel always sends.          *)
EveryPollAnswered ==
    \A c \in Clients : cpc[c] \in Pending ~> cpc[c] \notin Pending

(* An update event that the connection delivers ends up in the cache: the  *)
(* callback gets through notifyNewCib and back to the Mainloop, past every *)
(* client it answers on the way.                                           *)
UpdateReachesCache ==
    \A v \in 1 .. MaxVersion :
        (subscribed /\ \E i \in DOMAIN events : events[i] = v)
            ~> (version >= v \/ ~subscribed)

(* The callback's send on waiter gets through: after a lost connection the *)
(* fetcher leaves <-waiter and queries again.                              *)
LostLeadsToQuery ==
    (pc[Fetcher] = "waiting" /\ ~subscribed) ~> (pc[Fetcher] = "query")
-----------------------------------------------------------------------------
(* Statements of comments in main.go that the code does not keep.          *)

(* "Notify anyone waiting" (main.go:110): once no publication is under way, *)
(* a request that still waits has missed no version, and waits because     *)
(* "there hasn't been any change since we asked last" (main.go:267).       *)
WaitersMissNothing ==
    (\A p \in Procs : pc[p] \notin NotifyPC) =>
        \A c \in Clients : cpc[c] = "queued" => defval[c] = version

(* "a single copy of the CIB available at any time" (main.go:24): with a   *)
(* copy in the cache, a live subscription and no event left to dispatch,   *)
(* the copy is the CIB.                                                    *)
QuietCacheIsCurrent ==
    (version # 0 /\ subscribed /\ events = <<>> /\ pc[Mainloop] = "idle")
        => version = cluster
=============================================================================
