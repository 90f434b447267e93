--------------------------- MODULE AsyncCibProofs ---------------------------
(***************************************************************************)
(* Proofs about AsyncCib, for any set of clients and any bounds: the type  *)
(* invariant, the exclusion of the two publishers, and that the cache      *)
(* implements the register EpochRegister.                                  *)
(***************************************************************************)
EXTENDS AsyncCib, SequenceTheorems, TLAPS

(* Who may run when.  While the fetcher is anywhere but in <-waiter, no    *)
(* subscription is live, no event is left and the Mainloop is out of the   *)
(* callback; Lost is the last event of its subscription.                   *)
SubscriptionInv ==
    /\ pc[Fetcher] # "waiting" =>
          pc[Mainloop] = "idle" /\ events = <<>> /\ ~subscribed
    /\ subscribed => pc[Mainloop] # "lost"
    /\ subscribed => \A i \in 1 .. Len(events) : events[i] # Lost
    /\ pc[Mainloop] = "lost" => events = <<>>
    /\ \A i \in 1 .. Len(events) : events[i] = Lost => i = Len(events)

LockInv == \A p \in Procs : lock = p <=> pc[p] = "store"

(* What is published next is never older than what is cached. *)
OrderInv ==
    /\ version <= cluster
    /\ lock = "free" => xmldoc = version
    /\ \A p \in Procs :
          /\ pc[p] \in {"lock", "store"} =>
                version <= doc[p] /\ doc[p] <= cluster
          /\ pc[p] = "store" => xmldoc = doc[p]
          /\ pc[p] \in {"drain", "send"} => version = doc[p]

EventInv ==
    /\ \A i \in 1 .. Len(events) : events[i] # Lost =>
          /\ version <= events[i]
          /\ events[i] <= cluster
          /\ pc[Mainloop] \in NotifyPC => doc[Mainloop] <= events[i]
    /\ \A i, j \in 1 .. Len(events) :
          i < j /\ events[j] # Lost => events[i] <= events[j]

ClientInv ==
    \A c \in Clients :
        /\ cpc[c] \in Pending => floor[c] <= version
        /\ cpc[c] \in {"enter", "queued", "taken"} =>
              floor[c] <= defval[c] /\ defval[c] <= version
        /\ cpc[c] \in {"answered", "fetched"} => answer[c] <= version
        /\ cpc[c] = "fetched" => answer[c] <= fetched[c]

Inv ==
    /\ TypeOK
    /\ SubscriptionInv
    /\ LockInv
    /\ OrderInv
    /\ EventInv
    /\ ClientInv
    /\ TakenIsServed
-----------------------------------------------------------------------------
(* A step of the specification, action by action: what a case analysis on  *)
(* Next has to consider.                                                   *)
LEMMA NextCases ==
    ASSUME [Next]_vars
    PROVE  \/ ClusterUpdate \/ LoseConnection
           \/ OpenCib \/ Sleep \/ Query \/ Subscribe
           \/ DispatchUpdate \/ DispatchLost \/ WaiterHandoff
           \/ \E p \in Procs : StoreDoc(p) \/ StoreVersion(p) \/ DrainDone(p)
           \/ \E p \in Procs : Deliver(p)
           \/ \E p \in Procs, c \in Clients : Take(p, c)
           \/ \E c \in Clients : Poll(c) \/ ReadVersion(c) \/ EnterWait(c)
           \/ \E c \in Clients : Timeout(c) \/ Get(c)
           \/ UNCHANGED vars
  BY DEF Next, CibFetcher, RunMainloop, NotifyNewCib, ServeMonitor

(* Every variable keeps its type, through every step of every goroutine.   *)
LEMMA TypeStep == TypeOK /\ [Next]_vars => TypeOK'
  <1> SUFFICES ASSUME TypeOK, [Next]_vars PROVE TypeOK'
    OBVIOUS
  <1>1. PacemakerTypeOK'
    <2> USE DEF TypeOK, PacemakerTypeOK, Lost
    <2>1. CASE ClusterUpdate
      BY <2>1 DEF ClusterUpdate
    <2>2. CASE LoseConnection
      <3>1. PICK k \in 0 .. Len(events) :
                events' = Append(SubSeq(events, 1, k), Lost)
        BY <2>2 DEF LoseConnection
      <3>2. SubSeq(events, 1, k) \in Seq(Nat)
        BY <3>1
      <3>3. Append(SubSeq(events, 1, k), Lost) \in Seq(Nat)
        BY <3>2, AppendProperties
      <3> QED
        BY <2>2, <3>1, <3>3 DEF LoseConnection
    <2>3. CASE Subscribe
      BY <2>3 DEF Subscribe
    <2>4. CASE DispatchUpdate \/ DispatchLost
      <3>1. events # <<>> /\ events' = Tail(events)
        BY <2>4 DEF DispatchUpdate, DispatchLost
      <3>2. Tail(events) \in Seq(Nat)
        BY <3>1, HeadTailProperties
      <3>3. UNCHANGED <<cluster, subscribed>>
        BY <2>4 DEF DispatchUpdate, DispatchLost
      <3> QED
        BY <3>1, <3>2, <3>3
    <2>5. CASE UNCHANGED pacemaker
      BY <2>5 DEF pacemaker
    <2> QED
      BY <2>1, <2>2, <2>3, <2>4, <2>5, NextCases
         DEF OpenCib, Sleep, Query, WaiterHandoff, StoreDoc, StoreVersion,
             DrainDone, Deliver, Take, Poll, ReadVersion, EnterWait, Timeout,
             Get, vars
  <1>2. CacheTypeOK'
    <2> USE DEF TypeOK, CacheTypeOK, ProcsTypeOK
    <2>1. ASSUME NEW p \in Procs, StoreDoc(p) \/ StoreVersion(p)
          PROVE  CacheTypeOK'
      BY <2>1 DEF StoreDoc, StoreVersion
    <2>2. CASE UNCHANGED cache
      BY <2>2 DEF cache
    <2> QED
      BY <2>1, <2>2, NextCases
         DEF ClusterUpdate, LoseConnection, OpenCib, Sleep, Query, Subscribe,
             DispatchUpdate, DispatchLost, WaiterHandoff, DrainDone, Deliver,
             Take, Poll, ReadVersion, EnterWait, Timeout, Get, vars
  <1>3. ProcsTypeOK'
    <2> USE DEF TypeOK, PacemakerTypeOK, ProcsTypeOK, FetcherPC, NotifyPC,
                MainPC, Procs, Fetcher, Mainloop, Goto, procs
    <2>1. CASE OpenCib \/ Sleep \/ Subscribe
      BY <2>1 DEF OpenCib, Sleep, Subscribe
    <2>2. CASE Query
      BY <2>2 DEF Query
    <2>3. CASE DispatchUpdate
      BY <2>3 DEF DispatchUpdate
    <2>4. CASE DispatchLost \/ WaiterHandoff
      BY <2>4 DEF DispatchLost, WaiterHandoff
    <2>5. ASSUME NEW p \in Procs, StoreDoc(p) \/ StoreVersion(p)
          PROVE  ProcsTypeOK'
      BY <2>5 DEF StoreDoc, StoreVersion
    <2>6. ASSUME NEW p \in Procs, DrainDone(p) \/ Deliver(p)
          PROVE  ProcsTypeOK'
      BY <2>6 DEF DrainDone, Deliver
    <2>7. ASSUME NEW p \in Procs, NEW c \in Clients, Take(p, c)
          PROVE  ProcsTypeOK'
      BY <2>7 DEF Take
    <2>8. CASE UNCHANGED procs
      BY <2>8
    <2> QED
      BY <2>1, <2>2, <2>3, <2>4, <2>5, <2>6, <2>7, <2>8, NextCases
         DEF ClusterUpdate, LoseConnection, Poll, ReadVersion, EnterWait,
             Timeout, Get, vars
  <1>4. ClientsTypeOK'
    <2> USE DEF TypeOK, ClientsTypeOK, Pending, clients
    <2>1. ASSUME NEW p \in Procs, Deliver(p) PROVE ClientsTypeOK'
      BY <2>1 DEF Deliver, Reply, ProcsTypeOK, Goto
    <2>2. ASSUME NEW p \in Procs, NEW c \in Clients, Take(p, c)
          PROVE  ClientsTypeOK'
      BY <2>2 DEF Take
    <2>3. ASSUME NEW c \in Clients, Poll(c) PROVE ClientsTypeOK'
      BY <2>3 DEF Poll, CacheTypeOK
    <2>4. ASSUME NEW c \in Clients, ReadVersion(c) PROVE ClientsTypeOK'
      BY <2>4 DEF ReadVersion, Reply, CacheTypeOK
    <2>5. ASSUME NEW c \in Clients, EnterWait(c) \/ Timeout(c)
          PROVE  ClientsTypeOK'
      BY <2>5 DEF EnterWait, Timeout, Reply
    <2>6. ASSUME NEW c \in Clients, Get(c) PROVE ClientsTypeOK'
      BY <2>6 DEF Get, CacheTypeOK
    <2>7. CASE UNCHANGED clients
      BY <2>7
    <2> QED
      BY <2>1, <2>2, <2>3, <2>4, <2>5, <2>6, <2>7, NextCases
         DEF ClusterUpdate, LoseConnection, OpenCib, Sleep, Query, Subscribe,
             DispatchUpdate, DispatchLost, WaiterHandoff, StoreDoc,
             StoreVersion, DrainDone, vars
  <1> QED
    BY <1>1, <1>2, <1>3, <1>4 DEF TypeOK

(* The state the specification starts in has the types of TypeOK.          *)
LEMMA InitType == Init => TypeOK
  <1> SUFFICES ASSUME Init PROVE TypeOK
    OBVIOUS
  <1> USE DEF Init
  <1>1. PacemakerTypeOK
    <2>1. <<>> \in Seq(Nat)
      BY EmptySeq
    <2>2. cluster \in Nat /\ subscribed \in BOOLEAN /\ events = <<>>
      OBVIOUS
    <2> QED
      BY <2>1, <2>2 DEF PacemakerTypeOK
  <1>2. CacheTypeOK
    BY DEF CacheTypeOK
  <1>3. ProcsTypeOK
    BY DEF ProcsTypeOK, FetcherPC, NotifyPC, MainPC, Procs, Fetcher, Mainloop
  <1>4. ClientsTypeOK
    BY DEF ClientsTypeOK, Pending
  <1> QED
    BY <1>1, <1>2, <1>3, <1>4 DEF TypeOK

(* No interleaving of the two publishers and the requests takes a variable *)
(* out of its type; in particular a publisher about to send on a client's  *)
(* channel has a client to send to.                                        *)
THEOREM TypeCorrect == Spec => []TypeOK
  BY InitType, TypeStep, PTL DEF Spec
-----------------------------------------------------------------------------
(* How each change of the event queue moves its elements.                  *)
LEMMA EventMoves ==
    ASSUME TypeOK
    PROVE  /\ ClusterUpdate /\ subscribed =>
                /\ Len(events') = Len(events) + 1
                /\ \A i \in 1 .. Len(events) : events'[i] = events[i]
                /\ events'[Len(events) + 1] = cluster + 1
           /\ LoseConnection =>
                /\ Len(events') \in 1 .. Len(events) + 1
                /\ \A i \in 1 .. Len(events') - 1 : events'[i] = events[i]
                /\ events'[Len(events')] = Lost
           /\ DispatchUpdate \/ DispatchLost =>
                /\ Len(events) > 0
                /\ Head(events) = events[1]
                /\ Len(events') = Len(events) - 1
                /\ \A i \in 1 .. Len(events') : events'[i] = events[i + 1]
  <1> USE DEF TypeOK, PacemakerTypeOK
  <1>1. ASSUME ClusterUpdate, subscribed
        PROVE  /\ Len(events') = Len(events) + 1
               /\ \A i \in 1 .. Len(events) : events'[i] = events[i]
               /\ events'[Len(events) + 1] = cluster + 1
    <2>1. events' = Append(events, cluster + 1) /\ cluster + 1 \in Nat
      BY <1>1 DEF ClusterUpdate
    <2> QED
      BY <2>1, AppendProperties
  <1>2. ASSUME LoseConnection
        PROVE  /\ Len(events') \in 1 .. Len(events) + 1
               /\ \A i \in 1 .. Len(events') - 1 : events'[i] = events[i]
               /\ events'[Len(events')] = Lost
    <2>1. PICK k \in 0 .. Len(events) :
              events' = Append(SubSeq(events, 1, k), Lost)
      BY <1>2 DEF LoseConnection
    <2> DEFINE kept == SubSeq(events, 1, k)
    <2>2. /\ kept \in Seq(Nat)
          /\ Len(kept) = k
          /\ \A i \in 1 .. k : kept[i] = events[i]
      BY <2>1
    <2>3. Lost \in Nat
      BY DEF Lost
    <2> HIDE DEF kept
    <2>4. /\ Len(Append(kept, Lost)) = k + 1
          /\ \A i \in 1 .. k : Append(kept, Lost)[i] = events[i]
          /\ Append(kept, Lost)[k + 1] = Lost
      BY <2>2, <2>3, AppendProperties
    <2> QED
      BY <2>1, <2>4 DEF kept
  <1>3. ASSUME DispatchUpdate \/ DispatchLost
        PROVE  /\ Len(events) > 0
               /\ Head(events) = events[1]
               /\ Len(events') = Len(events) - 1
               /\ \A i \in 1 .. Len(events') : events'[i] = events[i + 1]
    <2>1. events # <<>> /\ events' = Tail(events)
      BY <1>3 DEF DispatchUpdate, DispatchLost
    <2>2. Len(events) > 0
      BY <2>1, EmptySeq
    <2> QED
      BY <2>1, <2>2, HeadTailProperties
  <1> QED
    BY <1>1, <1>2, <1>3

(* The fetcher leaves <-waiter only when the subscription's last event has *)
(* been dispatched.                                                        *)
LEMMA SubscriptionStep ==
    TypeOK /\ SubscriptionInv /\ [Next]_vars => SubscriptionInv'
  <1> SUFFICES ASSUME TypeOK, SubscriptionInv, [Next]_vars
               PROVE  SubscriptionInv'
    OBVIOUS
  <1>0. Len(events) \in Nat /\ (events = <<>> <=> Len(events) = 0)
    BY EmptySeq DEF TypeOK, PacemakerTypeOK
  <1>t. Len(events') \in Nat /\ (events' = <<>> <=> Len(events') = 0)
    BY TypeStep, EmptySeq DEF TypeOK, PacemakerTypeOK
  <1> USE DEF SubscriptionInv, Procs, Fetcher, Mainloop, Goto
  <1>1. CASE ClusterUpdate
    <2>1. CASE subscribed
      BY <1>1, <2>1, <1>0, <1>t, EventMoves
         DEF ClusterUpdate, procs, Lost, TypeOK, PacemakerTypeOK
    <2>2. CASE ~subscribed
      BY <1>1, <2>2 DEF ClusterUpdate, procs
    <2> QED
      BY <2>1, <2>2
  <1>2. CASE LoseConnection
    BY <1>2, <1>0, <1>t, EventMoves DEF LoseConnection, procs
  <1>3. CASE OpenCib \/ Sleep \/ Query \/ Subscribe
    BY <1>3, <1>0 DEF OpenCib, Sleep, Query, Subscribe, pacemaker, TypeOK,
                ProcsTypeOK
  <1>4. CASE DispatchUpdate
    BY <1>4, <1>0, <1>t, EventMoves DEF DispatchUpdate, TypeOK, ProcsTypeOK
  <1>5. CASE DispatchLost
    BY <1>5, <1>0, <1>t, EventMoves DEF DispatchLost, TypeOK, ProcsTypeOK
  <1>6. CASE WaiterHandoff
    BY <1>6 DEF WaiterHandoff, pacemaker
  <1>7. ASSUME NEW p \in Procs,
               StoreDoc(p) \/ StoreVersion(p) \/ DrainDone(p)
        PROVE  SubscriptionInv'
    BY <1>7 DEF StoreDoc, StoreVersion, DrainDone, pacemaker, TypeOK,
                ProcsTypeOK
  <1>8. ASSUME NEW p \in Procs, Deliver(p) PROVE SubscriptionInv'
    BY <1>8 DEF Deliver, pacemaker, TypeOK, ProcsTypeOK
  <1>9. ASSUME NEW p \in Procs, NEW c \in Clients, Take(p, c)
        PROVE  SubscriptionInv'
    BY <1>9 DEF Take, pacemaker, TypeOK, ProcsTypeOK
  <1>10. CASE UNCHANGED <<pacemaker, procs>>
    BY <1>10 DEF pacemaker, procs
  <1> QED
    BY <1>1, <1>2, <1>3, <1>4, <1>5, <1>6, <1>7, <1>8, <1>9, <1>10, NextCases
       DEF Poll, ReadVersion, EnterWait, Timeout, Get, vars

(* The two callers of notifyNewCib, the fetcher after a Query and the      *)
(* Mainloop's callback, exclude each other without any lock: the callback  *)
(* runs only while the fetcher is in <-waiter.                             *)
THEOREM PublishersExclude == Spec => []NotifyExclusion
  <1>1. Init => TypeOK /\ SubscriptionInv
    BY InitType DEF Init, SubscriptionInv, Procs, Fetcher, Mainloop, Lost
  <1>2. TypeOK /\ SubscriptionInv /\ [Next]_vars => (TypeOK /\ SubscriptionInv)'
    BY TypeStep, SubscriptionStep
  <1>3. SubscriptionInv => NotifyExclusion
    BY DEF SubscriptionInv, NotifyExclusion, NotifyPC
  <1> QED
    BY <1>1, <1>2, <1>3, PTL DEF Spec
-----------------------------------------------------------------------------
(* The mutex is held exactly between the two assignments of notifyNewCib.  *)
LEMMA LockStep == TypeOK /\ LockInv /\ [Next]_vars => LockInv'
  <1> SUFFICES ASSUME TypeOK, LockInv, [Next]_vars PROVE LockInv'
    OBVIOUS
  <1> USE DEF LockInv, Procs, Fetcher, Mainloop, Goto, TypeOK, ProcsTypeOK,
              CacheTypeOK, cache
  <1>1. CASE OpenCib \/ Sleep \/ Query \/ Subscribe
    BY <1>1 DEF OpenCib, Sleep, Query, Subscribe
  <1>2. CASE DispatchUpdate \/ DispatchLost \/ WaiterHandoff
    BY <1>2 DEF DispatchUpdate, DispatchLost, WaiterHandoff
  <1>3. ASSUME NEW p \in Procs, StoreDoc(p) PROVE LockInv'
    BY <1>3 DEF StoreDoc
  <1>4. ASSUME NEW p \in Procs, StoreVersion(p) PROVE LockInv'
    BY <1>4 DEF StoreVersion
  <1>5. ASSUME NEW p \in Procs, DrainDone(p) \/ Deliver(p) PROVE LockInv'
    BY <1>5 DEF DrainDone, Deliver
  <1>6. ASSUME NEW p \in Procs, NEW c \in Clients, Take(p, c) PROVE LockInv'
    BY <1>6 DEF Take
  <1>7. CASE UNCHANGED <<cache, procs>>
    BY <1>7 DEF procs
  <1> QED
    BY <1>1, <1>2, <1>3, <1>4, <1>5, <1>6, <1>7, NextCases
       DEF ClusterUpdate, LoseConnection, Poll, ReadVersion, EnterWait,
           Timeout, Get, vars

(* Nothing older than the cached CIB is on its way to notifyNewCib, neither *)
(* from a Query nor from the event queue.                                  *)
LEMMA OrderStep ==
    TypeOK /\ SubscriptionInv /\ LockInv /\ OrderInv /\ EventInv /\ [Next]_vars
        => OrderInv'
  <1> SUFFICES ASSUME TypeOK, SubscriptionInv, LockInv, OrderInv, EventInv,
                      [Next]_vars
               PROVE  OrderInv'
    OBVIOUS
  <1>t. TypeOK'
    BY TypeStep
  <1> USE DEF OrderInv, Procs, Fetcher, Mainloop, Goto, TypeOK, ProcsTypeOK,
              CacheTypeOK, PacemakerTypeOK, cache, procs, pacemaker
  <1>1. CASE ClusterUpdate \/ LoseConnection
    BY <1>1, <1>t DEF ClusterUpdate, LoseConnection
  <1>2. CASE OpenCib \/ Sleep \/ Subscribe
    BY <1>2 DEF OpenCib, Sleep, Subscribe
  <1>3. CASE Query
    BY <1>3 DEF Query
  <1>4. CASE DispatchUpdate
    BY <1>4, EventMoves DEF DispatchUpdate, EventInv
  <1>5. CASE DispatchLost \/ WaiterHandoff
    BY <1>5 DEF DispatchLost, WaiterHandoff
  <1>6. ASSUME NEW p \in Procs, StoreDoc(p) PROVE OrderInv'
    BY <1>6 DEF StoreDoc, LockInv
  <1>7. ASSUME NEW p \in Procs, StoreVersion(p) PROVE OrderInv'
    BY <1>7 DEF StoreVersion, LockInv, SubscriptionInv
  <1>8. ASSUME NEW p \in Procs, DrainDone(p) \/ Deliver(p) PROVE OrderInv'
    BY <1>8 DEF DrainDone, Deliver
  <1>9. ASSUME NEW p \in Procs, NEW c \in Clients, Take(p, c) PROVE OrderInv'
    BY <1>9 DEF Take
  <1>10. CASE UNCHANGED <<pacemaker, cache, procs>>
    BY <1>10
  <1> QED
    BY <1>1, <1>2, <1>3, <1>4, <1>5, <1>6, <1>7, <1>8, <1>9, <1>10, NextCases
       DEF Poll, ReadVersion, EnterWait, Timeout, Get, vars

(* The event queue is ordered, and starts no earlier than what is cached   *)
(* or being published.                                                     *)
LEMMA EventStep ==
    TypeOK /\ SubscriptionInv /\ OrderInv /\ EventInv /\ [Next]_vars
        => EventInv'
  <1> SUFFICES ASSUME TypeOK, SubscriptionInv, OrderInv, EventInv,
                      [Next]_vars
               PROVE  EventInv'
    OBVIOUS
  <1>t. TypeOK'
    BY TypeStep
  <1>0. /\ Len(events) \in Nat
        /\ Len(events') \in Nat
        /\ \A i \in 1 .. Len(events) : events[i] \in Nat
    BY <1>t DEF TypeOK, PacemakerTypeOK
  <1> USE DEF EventInv, Procs, Fetcher, Mainloop, Goto, TypeOK, ProcsTypeOK,
              CacheTypeOK, PacemakerTypeOK, cache, procs, pacemaker, NotifyPC
  <1>1. CASE ClusterUpdate
    <2>1. CASE subscribed
      <3>1. /\ Len(events') = Len(events) + 1
            /\ \A i \in 1 .. Len(events) : events'[i] = events[i]
            /\ events'[Len(events) + 1] = cluster'
            /\ cluster' = cluster + 1
            /\ UNCHANGED <<version, pc, doc>>
        BY <1>1, <2>1, EventMoves DEF ClusterUpdate
      <3>2. pc[Mainloop] \in NotifyPC => doc[Mainloop] <= cluster
        BY DEF OrderInv
      <3>3. \A i \in 1 .. Len(events) : events[i] <= cluster
        BY <1>0 DEF Lost
      <3>4. version <= cluster
        BY DEF OrderInv
      <3>5. \A i \in 1 .. Len(events') : events'[i] # Lost =>
              /\ version' <= events'[i]
              /\ events'[i] <= cluster'
              /\ pc'[Mainloop] \in NotifyPC => doc'[Mainloop] <= events'[i]
        <4> SUFFICES ASSUME NEW i \in 1 .. Len(events'), events'[i] # Lost
                     PROVE  /\ version <= events'[i]
                            /\ events'[i] <= cluster + 1
                            /\ pc[Mainloop] \in NotifyPC =>
                                  doc[Mainloop] <= events'[i]
          BY <3>1
        <4>1. CASE i = Len(events) + 1
          BY <4>1, <3>1, <3>2, <3>4
        <4>2. CASE i \in 1 .. Len(events)
          BY <4>2, <3>1, <1>0
        <4> QED
          BY <4>1, <4>2, <3>1, <1>0
      <3>6. \A i, j \in 1 .. Len(events') :
              i < j /\ events'[j] # Lost => events'[i] <= events'[j]
        <4> SUFFICES ASSUME NEW i \in 1 .. Len(events'),
                            NEW j \in 1 .. Len(events'),
                            i < j, events'[j] # Lost
                     PROVE  events'[i] <= events'[j]
          OBVIOUS
        <4>1. i \in 1 .. Len(events) /\ events'[i] = events[i]
          BY <3>1, <1>0
        <4>2. CASE j = Len(events) + 1
          BY <4>1, <4>2, <3>1, <3>3, <1>0
        <4>3. CASE j \in 1 .. Len(events)
          BY <4>1, <4>3, <3>1, <1>0
        <4>4. Len(events') = Len(events) + 1 /\ Len(events) \in Nat
          BY <3>1, <1>0
        <4> HIDE DEF EventInv, TypeOK
        <4>5. j = Len(events) + 1 \/ j \in 1 .. Len(events)
          BY <4>4
        <4> QED
          BY <4>2, <4>3, <4>5
      <3> QED
        BY <3>5, <3>6
    <2>2. CASE ~subscribed
      BY <1>1, <1>0, <1>t, <2>2 DEF ClusterUpdate
    <2> QED
      BY <2>1, <2>2
  <1>2. CASE LoseConnection
    <2>1. /\ Len(events') \in 1 .. Len(events) + 1
          /\ \A i \in 1 .. Len(events') - 1 : events'[i] = events[i]
          /\ events'[Len(events')] = Lost
          /\ UNCHANGED <<cluster, version, pc, doc>>
      BY <1>2, EventMoves DEF LoseConnection
    <2>2. \A i \in 1 .. Len(events') : events'[i] # Lost =>
              i \in 1 .. Len(events) /\ events'[i] = events[i]
      BY <2>1, <1>0
    <2>3. \A i, j \in 1 .. Len(events') :
              i < j => i \in 1 .. Len(events) /\ events'[i] = events[i]
      BY <2>1, <1>0
    <2> HIDE DEF Procs
    <2> QED
      BY <2>1, <2>2, <2>3, <1>0
  <1>3. CASE OpenCib \/ Sleep \/ Query \/ Subscribe
    BY <1>3, <1>0 DEF OpenCib, Sleep, Query, Subscribe
  <1>4. CASE DispatchUpdate
    <2>1. /\ Len(events) > 0
          /\ Len(events') = Len(events) - 1
          /\ \A i \in 1 .. Len(events') : events'[i] = events[i + 1]
      BY <1>4, EventMoves
    <2>2. /\ doc'[Mainloop] = events[1]
          /\ UNCHANGED <<cluster, version>>
      BY <1>4, EventMoves DEF DispatchUpdate
    <2>3. \A i \in 1 .. Len(events') : i + 1 \in 1 .. Len(events) /\ 1 < i + 1
      BY <2>1, <1>0
    <2> HIDE DEF TypeOK
    <2>4. \A i \in 1 .. Len(events') : events'[i] # Lost =>
              /\ version' <= events'[i]
              /\ events'[i] <= cluster'
              /\ doc'[Mainloop] <= events'[i]
      BY <2>1, <2>2, <2>3, <1>0
    <2>5. \A i, j \in 1 .. Len(events') :
              i < j /\ events'[j] # Lost => events'[i] <= events'[j]
      BY <2>1, <2>3, <1>0
    <2> QED
      BY <2>4, <2>5
  <1>5. CASE DispatchLost
    <2>1. Len(events) > 0 /\ Len(events') = Len(events) - 1 /\ events[1] = Lost
      BY <1>5, EventMoves DEF DispatchLost
    <2> HIDE DEF EventInv, TypeOK
    <2>2. Len(events') = 0
      BY <2>1, <1>0 DEF SubscriptionInv
    <2> QED
      BY <2>2 DEF EventInv
  <1>6. CASE WaiterHandoff
    BY <1>6 DEF WaiterHandoff
  <1>7. ASSUME NEW p \in Procs, StoreVersion(p) PROVE EventInv'
    <2>1. CASE p = Fetcher
      BY <1>7, <2>1, EmptySeq DEF StoreVersion, SubscriptionInv
    <2>2. CASE p = Mainloop
      BY <1>7, <2>2, <1>0 DEF StoreVersion
    <2> QED
      BY <2>1, <2>2
  <1>8. ASSUME NEW p \in Procs, StoreDoc(p) \/ DrainDone(p) \/ Deliver(p)
        PROVE  EventInv'
    <2>1. /\ UNCHANGED <<events, cluster, version, doc>>
          /\ pc'[Mainloop] \in NotifyPC => pc[Mainloop] \in NotifyPC
      BY <1>8 DEF StoreDoc, DrainDone, Deliver
    <2> HIDE DEF TypeOK
    <2> QED
      BY <2>1
  <1>9. ASSUME NEW p \in Procs, NEW c \in Clients, Take(p, c) PROVE EventInv'
    BY <1>9 DEF Take
  <1>10. CASE UNCHANGED <<pacemaker, cache, procs>>
    BY <1>10
  <1> QED
    BY <1>1, <1>2, <1>3, <1>4, <1>5, <1>6, <1>7, <1>8, <1>9, <1>10, NextCases
       DEF Poll, ReadVersion, EnterWait, Timeout, Get, vars

(* What a request has read so far lies between its arrival and now, and    *)
(* the CIB that Get() returns is not older than an answer given before.    *)
LEMMA ClientStep ==
    TypeOK /\ SubscriptionInv /\ OrderInv /\ ClientInv /\ TakenIsServed
        /\ [Next]_vars => ClientInv'
  <1> SUFFICES ASSUME TypeOK, SubscriptionInv, OrderInv, ClientInv,
                      TakenIsServed, [Next]_vars
               PROVE  ClientInv'
    OBVIOUS
  <1> USE DEF ClientInv, TypeOK, CacheTypeOK, ProcsTypeOK, ClientsTypeOK,
              Pending, cache, clients, Goto
  <1>1. ASSUME NEW p \in Procs, StoreVersion(p) PROVE ClientInv'
    <2>1. version <= version' /\ version' \in Nat /\ UNCHANGED clients
      BY <1>1 DEF StoreVersion, OrderInv
    <2> QED
      BY <2>1
  <1>2. ASSUME NEW p \in Procs, Deliver(p) PROVE ClientInv'
    <2>1. serving[p] \in Clients /\ cpc[serving[p]] = "taken"
      <3>1. \A q \in Procs \ {p} : pc[q] # "send"
        BY <1>2 DEF Deliver, SubscriptionInv, Procs, Fetcher, Mainloop
      <3>2. pc[p] = "send" /\ serving[p] \in Clients
        BY <1>2 DEF Deliver
      <3> QED
        BY <3>1, <3>2 DEF TakenIsServed
    <2>2. doc[p] = version
      BY <1>2 DEF Deliver, OrderInv
    <2> QED
      BY <1>2, <2>1, <2>2 DEF Deliver, Reply
  <1>3. ASSUME NEW p \in Procs, NEW c \in Clients, Take(p, c)
        PROVE  ClientInv'
    BY <1>3 DEF Take
  <1>4. ASSUME NEW c \in Clients, Poll(c) PROVE ClientInv'
    BY <1>4 DEF Poll
  <1>5. ASSUME NEW c \in Clients, ReadVersion(c) PROVE ClientInv'
    BY <1>5 DEF ReadVersion, Reply
  <1>6. ASSUME NEW c \in Clients, EnterWait(c) PROVE ClientInv'
    BY <1>6 DEF EnterWait
  <1>7. ASSUME NEW c \in Clients, Timeout(c) PROVE ClientInv'
    BY <1>7 DEF Timeout, Reply
  <1>8. ASSUME NEW c \in Clients, Get(c) PROVE ClientInv'
    BY <1>8 DEF Get, OrderInv
  <1>9. CASE UNCHANGED <<version, clients>>
    BY <1>9
  <1> QED
    BY <1>1, <1>2, <1>3, <1>4, <1>5, <1>6, <1>7, <1>8, <1>9, NextCases
       DEF ClusterUpdate, LoseConnection, OpenCib, Sleep, Query, Subscribe,
           DispatchUpdate, DispatchLost, WaiterHandoff, StoreDoc, DrainDone,
           vars

(* A channel is received by one publisher, which sends on it and on no     *)
(* other channel before.                                                   *)
LEMMA ServedStep ==
    TypeOK /\ SubscriptionInv /\ TakenIsServed /\ [Next]_vars => TakenIsServed'
  <1> SUFFICES ASSUME TypeOK, SubscriptionInv, TakenIsServed, [Next]_vars
               PROVE  TakenIsServed'
    OBVIOUS
  <1>0. \A p, q \in Procs : pc[p] = "send" /\ pc[q] \in NotifyPC => p = q
    BY DEF SubscriptionInv, Procs, NotifyPC, Fetcher, Mainloop
  <1> USE DEF TakenIsServed, TypeOK, ProcsTypeOK, ClientsTypeOK, Pending,
              clients, procs, Goto
  <1>1. CASE OpenCib \/ Sleep \/ Query \/ Subscribe
    <2>1. /\ \A p \in Procs : pc'[p] = "send" <=> pc[p] = "send"
          /\ UNCHANGED <<serving, cpc>>
      BY <1>1 DEF OpenCib, Sleep, Query, Subscribe, Procs, Fetcher,
                  Mainloop
    <2> QED
      BY <2>1
  <1>2. CASE DispatchUpdate \/ DispatchLost \/ WaiterHandoff
    <2>1. /\ \A p \in Procs : pc'[p] = "send" <=> pc[p] = "send"
          /\ UNCHANGED <<serving, cpc>>
      BY <1>2 DEF DispatchUpdate, DispatchLost, WaiterHandoff, Procs, Fetcher,
                  Mainloop
    <2> QED
      BY <2>1
  <1>3. ASSUME NEW p \in Procs,
               StoreDoc(p) \/ StoreVersion(p) \/ DrainDone(p)
        PROVE  TakenIsServed'
    BY <1>3 DEF StoreDoc, StoreVersion, DrainDone, Fetcher
  <1>4. ASSUME NEW p \in Procs, Deliver(p) PROVE TakenIsServed'
    BY <1>4, <1>0 DEF Deliver, Reply, NotifyPC
  <1>5. ASSUME NEW p \in Procs, NEW c \in Clients, Take(p, c)
        PROVE  TakenIsServed'
    BY <1>5, <1>0 DEF Take, NotifyPC
  <1>6. ASSUME NEW c \in Clients, Poll(c) \/ EnterWait(c) \/ Get(c)
        PROVE  TakenIsServed'
    BY <1>6 DEF Poll, EnterWait, Get
  <1>7. ASSUME NEW c \in Clients, ReadVersion(c) \/ Timeout(c)
        PROVE  TakenIsServed'
    BY <1>7 DEF ReadVersion, Timeout, Reply
  <1>8. CASE UNCHANGED <<procs, clients>>
    BY <1>8
  <1> QED
    BY <1>1, <1>2, <1>3, <1>4, <1>5, <1>6, <1>7, <1>8, NextCases
       DEF ClusterUpdate, LoseConnection, vars
-----------------------------------------------------------------------------
(* The inductive invariant holds initially.                                *)
LEMMA InitInv == Init => Inv
  <1> SUFFICES ASSUME Init PROVE Inv
    OBVIOUS
  <1>1. TypeOK
    BY InitType
  <1>2. SubscriptionInv /\ LockInv /\ OrderInv /\ EventInv
    BY DEF Init, SubscriptionInv, LockInv, OrderInv, EventInv, Procs, Fetcher,
           Mainloop, Lost
  <1>3. ClientInv /\ TakenIsServed
    BY DEF Init, ClientInv, TakenIsServed, Procs, Fetcher, Mainloop, Pending
  <1> QED
    BY <1>1, <1>2, <1>3 DEF Inv

(* Every step preserves it.                                                *)
LEMMA StepInv == Inv /\ [Next]_vars => Inv'
  BY TypeStep, SubscriptionStep, LockStep, OrderStep, EventStep, ClientStep,
     ServedStep DEF Inv

(* The inductive invariant, in every reachable state.                      *)
THEOREM Invariance == Spec => []Inv
  BY InitInv, StepInv, PTL DEF Spec

(* A client told an epoch by the monitor route, which then reads the CIB   *)
(* through the API, never reads an older one.                              *)
THEOREM FetchCovers == Spec => []FetchedCoversAnswer
  <1>1. Inv => FetchedCoversAnswer
    BY DEF Inv, ClientInv, FetchedCoversAnswer, TypeOK, ClientsTypeOK
  <1> QED
    BY <1>1, Invariance, PTL

(* A request whose channel was received is about to be sent to by exactly  *)
(* one publisher: the bare <-requestChan of Wait is never orphaned.        *)
THEOREM TakenServed == Spec => []TakenIsServed
  BY Invariance, PTL DEF Inv

(* What Version() and Get() return never goes back.                        *)
THEOREM CacheMonotone == Spec => CacheNeverGoesBack
  <1>1. Inv /\ [Next]_vars => [version' >= version /\ xmldoc' >= xmldoc]_vars
    <2> SUFFICES ASSUME Inv, [Next]_vars, vars' # vars
                 PROVE  version' >= version /\ xmldoc' >= xmldoc
      OBVIOUS
    <2> USE DEF Inv, TypeOK, CacheTypeOK, ProcsTypeOK, Goto
    <2>1. ASSUME NEW p \in Procs, StoreDoc(p)
          PROVE  version' >= version /\ xmldoc' >= xmldoc
      BY <2>1 DEF StoreDoc, OrderInv
    <2>2. ASSUME NEW p \in Procs, StoreVersion(p)
          PROVE  version' >= version /\ xmldoc' >= xmldoc
      BY <2>2 DEF StoreVersion, OrderInv
    <2>3. CASE UNCHANGED <<version, xmldoc>>
      BY <2>3
    <2> QED
      BY <2>1, <2>2, <2>3, NextCases
         DEF ClusterUpdate, LoseConnection, OpenCib, Sleep, Query, Subscribe,
             DispatchUpdate, DispatchLost, WaiterHandoff, DrainDone, Deliver,
             Take, Poll, ReadVersion, EnterWait, Timeout, Get, vars, cache
  <1> QED
    BY <1>1, Invariance, PTL DEF Spec, CacheNeverGoesBack
-----------------------------------------------------------------------------
(* A step that answers c's request with v is an Answer of the register, if *)
(* v lies between the version at the request's arrival and the cached one. *)
LEMMA AnswerStep ==
    ASSUME TypeOK, NEW c \in Clients, NEW v \in Nat, NEW reason,
           cpc[c] \in Pending, Reply(c, v, reason), UNCHANGED <<version, floor>>,
           floor[c] <= v, v <= version
    PROVE  Register!Answer(c)
  <1> DEFINE busy == {d \in Clients : cpc[d] \in Pending}
  <1>1. busy' = busy \ {c}
    BY DEF Reply, TypeOK, ClientsTypeOK, Pending
  <1>2. v \in floor[c] .. version /\ answer' = [answer EXCEPT ![c] = v]
    BY DEF Reply, TypeOK, ClientsTypeOK, CacheTypeOK
  <1>3. c \in busy
    OBVIOUS
  <1> QED
    BY <1>1, <1>2, <1>3 DEF Register!Answer

(* Every step of the cache and its requests is a step of the register.     *)
LEMMA RegisterStep ==
    Inv /\ [Next]_vars => [Register!Next]_(Register!regVars)
  <1> SUFFICES ASSUME Inv, [Next]_vars
               PROVE  Register!Next \/ UNCHANGED Register!regVars
    OBVIOUS
  <1> USE DEF Inv, TypeOK, CacheTypeOK, ProcsTypeOK, ClientsTypeOK, Pending
  <1>1. ASSUME NEW p \in Procs, StoreVersion(p)
        PROVE  Register!Next \/ UNCHANGED Register!regVars
    <2>1. version' \in Nat /\ version' >= version /\ UNCHANGED clients
      BY <1>1 DEF StoreVersion, OrderInv, Goto
    <2> QED
      BY <2>1 DEF clients, Register!Next, Register!Publish, Register!regVars
  <1>2. ASSUME NEW p \in Procs, Deliver(p) PROVE Register!Next
    <2>1. \A q \in Procs \ {p} : pc[q] # "send"
      BY <1>2 DEF Deliver, Goto, SubscriptionInv, Procs, Fetcher, Mainloop
    <2>2. pc[p] = "send"
      BY <1>2 DEF Deliver, Goto
    <2>3. PICK c \in Clients : c = serving[p]
      BY <2>2
    <2>4. cpc[c] = "taken"
      BY <2>1, <2>2, <2>3 DEF TakenIsServed
    <2>5. doc[p] = version
      BY <2>2 DEF OrderInv
    <2>6. floor[c] <= version
      BY <2>4 DEF ClientInv
    <2>7. Reply(c, version, "notified") /\ UNCHANGED <<version, floor>>
      BY <1>2, <2>3, <2>5 DEF Deliver, cache
    <2>8. Register!Answer(c)
      BY <2>4, <2>6, <2>7, AnswerStep
    <2> QED
      BY <2>8 DEF Register!Next
  <1>3. ASSUME NEW c \in Clients, Poll(c) PROVE Register!Next
    <2>1. ~(cpc[c] \in Pending) /\ cpc'[c] \in Pending
      BY <1>3 DEF Poll
    <2>2. {d \in Clients : cpc[d] \in Pending}'
            = {d \in Clients : cpc[d] \in Pending} \union {c}
      BY <1>3 DEF Poll
    <2>3. Register!Ask(c)
      BY <1>3, <2>1, <2>2 DEF Poll, Register!Ask, cache
    <2> QED
      BY <2>3 DEF Register!Next
  <1>4. ASSUME NEW c \in Clients, ReadVersion(c)
        PROVE  Register!Next \/ UNCHANGED Register!regVars
    <2>1. CASE version \in {0, epoch[c]}
      BY <1>4, <2>1 DEF ReadVersion, Reply, cache, Register!regVars
    <2>2. CASE version \notin {0, epoch[c]}
      <3>1. floor[c] <= version
        BY <1>4 DEF ReadVersion, ClientInv
      <3>2. Register!Answer(c)
        BY <1>4, <2>2, <3>1, AnswerStep DEF ReadVersion, cache
      <3> QED
        BY <3>2 DEF Register!Next
    <2> QED
      BY <2>1, <2>2
  <1>5. ASSUME NEW c \in Clients, Timeout(c) PROVE Register!Next
    <2>1. floor[c] <= defval[c] /\ defval[c] <= version
      BY <1>5 DEF Timeout, ClientInv
    <2>2. Register!Answer(c)
      BY <1>5, <2>1, AnswerStep DEF Timeout, cache
    <2> QED
      BY <2>2 DEF Register!Next
  <1>6. ASSUME NEW c \in Clients, EnterWait(c) \/ Get(c)
        PROVE  UNCHANGED Register!regVars
    BY <1>6 DEF EnterWait, Get, cache, Register!regVars
  <1>7. ASSUME NEW p \in Procs, NEW c \in Clients, Take(p, c)
        PROVE  UNCHANGED Register!regVars
    BY <1>7 DEF Take, cache, Register!regVars
  <1>8. CASE UNCHANGED <<version, clients>>
    BY <1>8 DEF clients, Register!regVars
  <1> QED
    BY <1>1, <1>2, <1>3, <1>4, <1>5, <1>6, <1>7, <1>8, NextCases
       DEF ClusterUpdate, LoseConnection, OpenCib, Sleep, Query, Subscribe,
           DispatchUpdate, DispatchLost, WaiterHandoff, StoreDoc, DrainDone,
           vars, cache

(* The cache, its two publishers and its long-polling requests implement   *)
(* the register: every answer is a version that was cached at some moment  *)
(* of the request, whichever of serveMonitor's three exits gave it.        *)
THEOREM ImplementsRegister == Spec => RegisterSafety
  <1>1. Init => Register!Init
    BY DEF Init, Register!Init, Pending
  <1> QED
    BY <1>1, RegisterStep, Invariance, PTL
       DEF Spec, RegisterSafety, Register!Spec
=============================================================================
