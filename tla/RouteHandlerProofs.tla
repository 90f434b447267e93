------------------------- MODULE RouteHandlerProofs -------------------------
(***************************************************************************)
(* Proofs, for any routing tables, requests and number of connections: a   *)
(* proxied request goes to the target of its route, an unauthorized one    *)
(* stops at the API route, a request is answered once, except for the      *)
(* errors of API lookups before, and the API answers with what the URL     *)
(* names.                                                                  *)
(***************************************************************************)
EXTENDS RouteHandler, SequenceLemmas

ApiError == Answer("api", "error")

Denial == Answer("api", "unauthorized")

\* What handlers that return false have written.
Errors == Seq({ApiError})

Handlers == {"api", "monitor", "file", "proxy", "router"}

-----------------------------------------------------------------------------
(* Facts about the operators of the model.                                 *)

\* The route of a table that a path matches first.
FirstRoute(table, path) == SelectInSeq(table, LAMBDA r : HasPrefix(path, r.path))

\* It matches, and no route before it does.
LEMMA FirstMatches ==
    ASSUME NEW table, Len(table) \in Nat, NEW path, FirstRoute(table, path) # 0
    PROVE  /\ FirstRoute(table, path) \in 1 .. Len(table)
           /\ HasPrefix(path, table[FirstRoute(table, path)].path)
           /\ \A i \in 1 .. Len(table) :
                 HasPrefix(path, table[i].path) => FirstRoute(table, path) <= i
<1> DEFINE I == {i \in 1 .. Len(table) : HasPrefix(path, table[i].path)}
           first == FirstRoute(table, path)
<1>1. first = IF I # {} THEN Min(I) ELSE 0
  BY DEF FirstRoute, SelectInSeq
<1>2. I # {} /\ I \subseteq Nat
  BY <1>1
<1> HIDE DEF I
<1>3. \E i \in I : \A j \in I : i <= j
  BY <1>2, LeastPosition
<1>4. Min(I) \in I /\ \A j \in I : Min(I) <= j
  BY <1>3 DEF Min
<1>5. first \in I /\ \A j \in I : first <= j
  BY <1>1, <1>2, <1>4
<1> QED BY <1>5 DEF I

First(c) == FirstRoute(config, Path(c))

\* A cookie with a value is one of the request's.
LEMMA CookieSent ==
    ASSUME NEW r \in Requests, NEW name, Cookie(r, name) # ""
    PROVE  \E i \in DOMAIN r.cookies :
              r.cookies[i].name = name /\ r.cookies[i].value = Cookie(r, name)
<1> DEFINE I == {i \in 1 .. Len(r.cookies) : r.cookies[i].name = name}
<1>1. Len(r.cookies) \in Nat /\ DOMAIN r.cookies = 1 .. Len(r.cookies)
  <2>1. r.cookies \in Seq(ToSet(r.cookies))
    BY MessagesAssumption
  <2> QED BY <2>1, LenProperties
<1>2. I \subseteq 1 .. Len(r.cookies)
  BY Zenon
<1> DEFINE m == Max(I)
           last == IF I # {} THEN m ELSE 0
<1>3. Cookie(r, name) = IF last = 0 THEN "" ELSE r.cookies[last].value
  BY DEF Cookie, SelectLastInSeq
<1>4. I # {} => m \in I
  <2> HIDE DEF I
  <2>1. I # {} => \E i \in I : \A j \in I : i >= j
    BY <1>1, <1>2, GreatestPosition
  <2> QED BY <2>1 DEF Max
<1> HIDE DEF m
<1>5. I # {} => m \in 1 .. Len(r.cookies) /\ r.cookies[m].name = name
  BY <1>4
<1> HIDE DEF I
<1> QED BY <1>1, <1>3, <1>5

\* Whoever the check lets in has credentials: a session's two cookies are
\* both of the request, whatever other cookies of their names there are.
LEMMA AuthSound ==
    ASSUME NEW r \in Requests, CheckHawkAuthMethods(r)
    PROVE  HasCredentials(r)
<1> DEFINE user == Cookie(r, "id")
           session == Cookie(r, "key")
<1>1. CASE user # "" /\ session # "" /\ <<user, session>> \in Sessions
  <2>1. PICK i \in DOMAIN r.cookies : r.cookies[i].name = "id" /\ r.cookies[i].value = user
    BY <1>1, CookieSent
  <2>2. PICK j \in DOMAIN r.cookies : r.cookies[j].name = "key" /\ r.cookies[j].value = session
    BY <1>1, CookieSent
  <2> QED BY <1>1, <2>1, <2>2 DEF HasCredentials
<1>2. CASE CheckBasicAuth(r.basic)
  BY <1>2 DEF CheckBasicAuth, HasCredentials
<1> QED BY <1>1, <1>2 DEF CheckHawkAuthMethods

\* Answers are added one by one.
LEMMA OneMore ==
    ASSUME NEW s \in Errors, NEW a
    PROVE  /\ s \o <<>> = s
           /\ s \o <<ApiError>> \in Errors
           /\ Len(s \o <<a>>) = Len(s) + 1 /\ Len(s) \in Nat
           /\ DOMAIN (s \o <<a>>) = 1 .. Len(s) + 1
           /\ \A i \in 1 .. Len(s) : (s \o <<a>>)[i] = ApiError
           /\ (s \o <<a>>)[Len(s) + 1] = a
<1>1. s \o <<>> = s
  BY ConcatEmptySeq DEF Errors
<1>2. s \o <<ApiError>> \in Errors
  BY DEF Errors
<1> DEFINE S == {ApiError, a}
<1>3. s \in Seq(S) /\ <<a>> \in Seq(S)
  BY SeqMonotonic DEF Errors
<1>4. \A i \in 1 .. Len(s) : s[i] = ApiError
  BY DEF Errors
<1> QED BY <1>1, <1>2, <1>3, <1>4
-----------------------------------------------------------------------------
(* The invariant.                                                          *)

States == {"idle", "route", "makeProxy", "forward", "done", "panicked"}

Types ==
    /\ config \in Configs
    /\ cib \in Cibs \union {NoCib}
    /\ pc \in [Clients -> States]
    /\ req \in [Clients -> Requests]
    /\ at \in [Clients -> 1 .. Len(config) + 1]
    /\ count \in [Clients -> 0 .. MaxRequests]
    /\ proxy \in [Clients -> Targets \union {NoTarget}]
    /\ DOMAIN resp = Clients

\* Between the two critical sections of proxyForRoute, and until the proxy is
\* called, the loop stays at the route that was matched.
RoutingInv(c) ==
    pc[c] \in {"makeProxy", "forward"} =>
        /\ at[c] <= Len(config)
        /\ HasPrefix(Path(c), Route(c).path)
        /\ Route(c).handler = "proxy" /\ Route(c).target # NoTarget

\* The keys in the map are those of this and of earlier calls of ServeHTTP,
\* and of this one only when it has stored its proxy.
KeyInv ==
    /\ \A k \in DOMAIN proxies :
          /\ proxies[k] \in Targets \ BadTargets
          /\ \E c \in Clients, n \in Nat : k = <<c, n>> /\ n <= count[c]
    /\ \A c \in Clients : pc[c] \in {"route", "makeProxy"} => Key(c) \notin DOMAIN proxies
    /\ \A c \in Clients : pc[c] = "forward" => proxy[c] = Route(c).target

\* An answer that ends the request; a proxy's is that of the route.
FinalAnswer(c, a) ==
    /\ a.by \in Handlers
    /\ a.by = "proxy" /\ a.what # "error" =>
          HasPrefix(Path(c), Route(c).path) /\ a.what = Route(c).target

\* Nothing but the errors of lookups is written before that answer.
AnswerInv(c) ==
    /\ pc[c] # "done" => resp[c] \in Errors
    /\ pc[c] = "done" =>
          \E s \in Errors : \E a : resp[c] = s \o <<a>> /\ FinalAnswer(c, a)

Denied(c) ==
    /\ pc[c] # "idle"
    /\ First(c) # 0 /\ config[First(c)].handler = "api/v1"
    /\ ~HasCredentials(req[c])

\* A request that is to be denied has not got past the API route.
DeniedInv(c) ==
    Denied(c) =>
        /\ at[c] <= First(c)
        /\ \/ pc[c] = "route" /\ resp[c] = <<>>
           \/ pc[c] = "done" /\ resp[c] = <<Denial>>

ClientInv(c) == RoutingInv(c) /\ AnswerInv(c) /\ DeniedInv(c)

Inv == Types /\ KeyInv /\ \A c \in Clients : ClientInv(c)

\* The routing table is a sequence.
LEMMA Table ==
    ASSUME config \in Configs
    PROVE  /\ Len(config) \in Nat /\ DOMAIN config = 1 .. Len(config)
           /\ \A i \in 1 .. Len(config) : config[i].target \in Targets
<1>1. config \in Seq(ToSet(config))
  BY TablesAssumption
<1>2. Len(config) \in Nat /\ DOMAIN config = 1 .. Len(config)
  BY <1>1, LenProperties
<1> QED BY <1>2 DEF Targets, ToSet

LEMMA InitInv == Init => Inv
<1> SUFFICES ASSUME Init PROVE Inv
  OBVIOUS
<1>1. (CHOOSE r \in Requests : TRUE) \in Requests
  BY MessagesAssumption
<1>2. Len(config) \in Nat
  BY Table DEF Init
<1>3. Types
  BY <1>1, <1>2, RequestsAssumption DEF Init, Types, States
<1>4. DOMAIN proxies = {}
  BY DEF Init
<1>5. KeyInv
  BY <1>4 DEF Init, KeyInv
<1>6. <<>> \in Errors
  BY DEF Errors
<1>7. ASSUME NEW c \in Clients PROVE ClientInv(c)
  BY <1>6 DEF Init, ClientInv, RoutingInv, AnswerInv, DeniedInv, Denied
<1> QED BY <1>3, <1>5, <1>7 DEF Inv
-----------------------------------------------------------------------------
(* Steps.                                                                  *)

Stays == UNCHANGED <<config, cib, proxies, req, count, proxy>>

\* A route that is not a proxy's answers, is passed by, or panics.
Tried(c) ==
    /\ pc[c] = "route"
    /\ \/ at[c] <= Len(config) /\ FallsThrough(c, <<>>)
       \/ at[c] <= Len(config) /\ FallsThrough(c, <<ApiError>>)
       \/ Panicked(c)
       \/ \E a : a.by \in Handlers \ {"proxy"} /\ Returns(c, <<a>>)
    /\ Stays

LEMMA EachTried ==
    ASSUME NEW c, SkipRoute(c) \/ ServeAPI(c) \/ ServeMonitor(c) \/ ServeFile(c) \/ Unmatched(c)
    PROVE  Tried(c)
<1>0. \A by, what : Answer(by, what).by = by
  BY DEF Answer
<1>1. CASE SkipRoute(c)
  BY <1>1 DEF SkipRoute, Tried, Stays
<1>2. CASE ServeMonitor(c) \/ ServeFile(c)
  BY <1>0, <1>2 DEF ServeMonitor, ServeFile, Trying, Tried, Stays, Handlers
<1>3. CASE Unmatched(c)
  BY <1>0, <1>3 DEF Unmatched, Tried, Stays, Handlers
<1>4. CASE ServeAPI(c)
  <2>1. pc[c] = "route" /\ at[c] <= Len(config) /\ Stays
    BY <1>4 DEF ServeAPI, Trying, Stays
  <2>2. CASE \E what : Returns(c, <<Answer("api", what)>>)
    BY <1>0, <2>1, <2>2 DEF Tried, Handlers
  <2>3. CASE \E kind : ServeKind(c, kind)
    <3>1. PICK kind : ServeKind(c, kind)
      BY <2>3
    <3>2. \A ids : ApiAnswer(kind, ids).by = "api"
      BY DEF ApiAnswer
    <3> QED BY <2>1, <3>1, <3>2 DEF ServeKind, Tried, Handlers, ApiError
  <2> QED BY <1>4, <2>2, <2>3 DEF ServeAPI, Unauthorized
<1> QED BY <1>1, <1>2, <1>3, <1>4

\* The whole of ServeHTTP: a proxy route takes several steps.
LEMMA Served ==
    ASSUME NEW c, ServeHTTP(c)
    PROVE  Tried(c) \/ LookupProxy(c) \/ StoreProxy(c) \/ BadTarget(c) \/ Forward(c)
BY EachTried DEF ServeHTTP

LEMMA TypesStep ==
    ASSUME Inv, NEW c \in Clients, Arrive(c) \/ ServeHTTP(c)
    PROVE  Types'
<1> USE DEF Types, States
<1>0. Types /\ Len(config) \in Nat /\ RoutingInv(c)
  BY Table DEF Inv, ClientInv
<1>1. CASE Arrive(c)
  BY <1>0, <1>1, RequestsAssumption DEF Arrive
<1>2. CASE Tried(c)
  <2>1. CASE Panicked(c) \/ \E a : Returns(c, <<a>>)
    BY <1>0, <1>2, <2>1 DEF Tried, Stays, Returns, Panicked
  <2>2. CASE at[c] <= Len(config) /\ \E s : FallsThrough(c, s)
    <3>1. at' \in [Clients -> 1 .. Len(config) + 1]
      BY <1>0, <2>2 DEF FallsThrough
    <3> QED BY <1>0, <1>2, <2>2, <3>1 DEF Tried, Stays, FallsThrough
  <2> QED BY <1>2, <2>1, <2>2 DEF Tried
<1>3. CASE LookupProxy(c)
  <2>1. Key(c) \notin DOMAIN proxies
    BY <1>3 DEF LookupProxy, Trying, Inv, KeyInv
  <2> QED BY <1>0, <1>3, <2>1 DEF LookupProxy
<1>4. CASE StoreProxy(c)
  <2>1. Route(c).target \in Targets
    BY <1>0, <1>4, Table DEF StoreProxy, RoutingInv, Route
  <2> QED BY <1>0, <1>4, <2>1 DEF StoreProxy
<1>5. CASE BadTarget(c) \/ Forward(c)
  BY <1>0, <1>5 DEF BadTarget, Forward, Returns
<1> QED BY <1>1, <1>2, <1>3, <1>4, <1>5, Served

\* A step of one request leaves the others where they are.
LEMMA OthersStay ==
    ASSUME Types, NEW c \in Clients, NEW d \in Clients, c # d, Arrive(c) \/ ServeHTTP(c)
    PROVE  /\ config' = config
           /\ pc'[d] = pc[d] /\ req'[d] = req[d] /\ at'[d] = at[d]
           /\ count'[d] = count[d] /\ proxy'[d] = proxy[d] /\ resp'[d] = resp[d]
<1> USE DEF Types
<1>1. CASE Arrive(c)
  BY <1>1 DEF Arrive
<1>2. CASE Tried(c)
  BY <1>2 DEF Tried, Stays, FallsThrough, Returns, Panicked
<1>3. CASE LookupProxy(c) \/ StoreProxy(c)
  BY <1>3 DEF LookupProxy, StoreProxy
<1>4. CASE BadTarget(c) \/ Forward(c)
  BY <1>4 DEF BadTarget, Forward, Returns
<1> QED BY <1>1, <1>2, <1>3, <1>4, Served

\* And what holds of them.
LEMMA OthersKeep ==
    ASSUME NEW d, ClientInv(d), config' = config,
           pc'[d] = pc[d], req'[d] = req[d], at'[d] = at[d], resp'[d] = resp[d]
    PROVE  ClientInv(d)'
<1>1. Path(d)' = Path(d) /\ Route(d)' = Route(d)
  BY DEF Path, Route
<1>2. First(d)' = First(d)
  BY <1>1 DEF First
<1>3. RoutingInv(d)'
  BY <1>1 DEF ClientInv, RoutingInv
<1>4. AnswerInv(d)'
  BY <1>1 DEF ClientInv, AnswerInv, FinalAnswer
<1>5. DeniedInv(d)'
  BY <1>2 DEF ClientInv, DeniedInv, Denied
<1> QED BY <1>3, <1>4, <1>5 DEF ClientInv

LEMMA KeyStep ==
    ASSUME Inv, NEW c \in Clients, Arrive(c) \/ ServeHTTP(c)
    PROVE  KeyInv'
<1>0. Types /\ KeyInv /\ count[c] \in Nat /\ Len(config) \in Nat
  BY Table DEF Inv, Types
<1>1. ASSUME NEW d \in Clients, d # c
      PROVE  /\ pc'[d] = pc[d] /\ count'[d] = count[d] /\ proxy'[d] = proxy[d]
             /\ Route(d)' = Route(d) /\ Key(d)' = Key(d) /\ Key(d) # Key(c)
  BY <1>0, <1>1, OthersStay DEF Route, Key
<1>2. CASE /\ proxies' = proxies /\ count' = count /\ pc'[c] # "forward"
           /\ pc'[c] \in {"route", "makeProxy"} => pc[c] \in {"route", "makeProxy"}
  <2>1. Key(c)' = Key(c)
    BY <1>2 DEF Key
  <2>2. \A d \in Clients : pc'[d] \in {"route", "makeProxy"} => Key(d)' \notin DOMAIN proxies
    BY <1>0, <1>1, <1>2, <2>1 DEF KeyInv
  <2>3. \A d \in Clients : pc'[d] = "forward" => proxy'[d] = Route(d)'.target
    BY <1>0, <1>1, <1>2 DEF KeyInv
  <2> QED BY <1>0, <1>2, <2>2, <2>3 DEF KeyInv
<1>3. CASE Arrive(c)
  <2>1. /\ proxies' = proxies /\ pc'[c] = "route" /\ count'[c] = count[c] + 1
        /\ Key(c)' = <<c, count[c] + 1>>
    BY <1>0, <1>3 DEF Arrive, Types, Key
  <2>2. ASSUME NEW k \in DOMAIN proxies
        PROVE  /\ proxies[k] \in Targets \ BadTargets
               /\ \E d \in Clients, n \in Nat : k = <<d, n>> /\ n <= count'[d]
               /\ k # Key(c)'
    <3>1. PICK d \in Clients, n \in Nat : k = <<d, n>> /\ n <= count[d]
      BY <1>0 DEF KeyInv
    <3>2. n <= count'[d]
      BY <1>0, <1>1, <2>1, <3>1
    <3>3. k # Key(c)'
      BY <1>0, <2>1, <3>1
    <3> QED BY <1>0, <3>1, <3>2, <3>3 DEF KeyInv
  <2>3. \A d \in Clients : pc'[d] \in {"route", "makeProxy"} => Key(d)' \notin DOMAIN proxies
    BY <1>0, <1>1, <2>1, <2>2 DEF KeyInv
  <2>4. \A d \in Clients : pc'[d] = "forward" => proxy'[d] = Route(d)'.target
    BY <1>0, <1>1, <2>1 DEF KeyInv
  <2> QED BY <2>1, <2>2, <2>3, <2>4 DEF KeyInv
<1>4. CASE StoreProxy(c)
  <2> DEFINE target == Route(c).target
  <2>1. /\ pc'[c] = "forward" /\ count' = count /\ proxy'[c] = target
        /\ Route(c)' = Route(c) /\ Key(c)' = Key(c)
    BY <1>0, <1>4 DEF StoreProxy, Types, Route, Key
  <2>2. target \in Targets \ BadTargets
    BY <1>0, <1>4, Table DEF StoreProxy, Inv, ClientInv, RoutingInv, Route, Types
  <2>3. DOMAIN proxies' = DOMAIN proxies \union {Key(c)}
    BY <1>4 DEF StoreProxy
  <2>4. ASSUME NEW k \in DOMAIN proxies'
        PROVE  /\ proxies'[k] \in Targets \ BadTargets
               /\ \E d \in Clients, n \in Nat : k = <<d, n>> /\ n <= count[d]
    <3>1. CASE k = Key(c)
      BY <1>0, <1>4, <2>2, <3>1 DEF StoreProxy, Key
    <3>2. CASE k # Key(c)
      <4>1. k \in DOMAIN proxies /\ proxies'[k] = proxies[k]
        BY <1>4, <2>3, <3>2 DEF StoreProxy
      <4> QED BY <1>0, <4>1 DEF KeyInv
    <3> QED BY <3>1, <3>2
  <2>5. \A d \in Clients : pc'[d] \in {"route", "makeProxy"} => Key(d)' \notin DOMAIN proxies'
    BY <1>0, <1>1, <2>1, <2>3 DEF KeyInv
  <2>6. \A d \in Clients : pc'[d] = "forward" => proxy'[d] = Route(d)'.target
    BY <1>0, <1>1, <2>1 DEF KeyInv
  <2> QED BY <2>1, <2>4, <2>5, <2>6 DEF KeyInv
<1>5. CASE Tried(c)
  BY <1>0, <1>2, <1>5 DEF Tried, Stays, FallsThrough, Returns, Panicked, Types
<1>6. CASE LookupProxy(c)
  <2>1. Key(c) \notin DOMAIN proxies
    BY <1>0, <1>6 DEF LookupProxy, Trying, KeyInv
  <2> QED BY <1>0, <1>2, <1>6, <2>1 DEF LookupProxy, Trying, Types
<1>7. CASE BadTarget(c) \/ Forward(c)
  BY <1>0, <1>2, <1>7 DEF BadTarget, Forward, Returns, Types
<1> QED BY <1>3, <1>4, <1>5, <1>6, <1>7, Served

\* A request that is to be denied passes the routes it does not match and
\* is answered by the API route.
LEMMA DeniedStep ==
    ASSUME Inv, NEW c \in Clients, ServeHTTP(c)
    PROVE  DeniedInv(c)'
<1>0. /\ Types /\ Len(config) \in Nat /\ at[c] \in Nat /\ req[c] \in Requests
      /\ DeniedInv(c)
  BY Table DEF Inv, ClientInv, Types
<1> SUFFICES ASSUME Denied(c)'
             PROVE  /\ at'[c] <= First(c)'
                    /\ \/ pc'[c] = "route" /\ resp'[c] = <<>>
                       \/ pc'[c] = "done" /\ resp'[c] = <<Denial>>
  BY DEF DeniedInv
<1> DEFINE f == First(c)
<1>1. config' = config /\ req' = req
  BY DEF ServeHTTP, SkipRoute, ServeAPI, ServeMonitor, ServeFile, LookupProxy, StoreProxy,
         BadTarget, Forward, Unmatched
<1>2. First(c)' = f
  BY <1>1 DEF First, Path
<1>3. pc[c] \in {"route", "makeProxy", "forward"}
  BY DEF ServeHTTP, SkipRoute, ServeAPI, ServeMonitor, ServeFile, LookupProxy, StoreProxy,
         BadTarget, Forward, Unmatched, Trying
<1>4. Denied(c)
  BY <1>1, <1>2, <1>3 DEF Denied
<1>5. at[c] <= f /\ pc[c] = "route" /\ resp[c] = <<>>
  BY <1>0, <1>3, <1>4 DEF DeniedInv
<1>6. /\ f \in 1 .. Len(config) /\ HasPrefix(Path(c), config[f].path)
      /\ \A i \in 1 .. Len(config) : HasPrefix(Path(c), config[i].path) => f <= i
  BY <1>0, <1>4, FirstMatches DEF Denied, First
<1>7. config[f].handler = "api/v1" /\ ~CheckHawkAuthMethods(req[c])
  BY <1>0, <1>4, AuthSound DEF Denied
<1> HIDE DEF f
<1>8. at[c] <= Len(config) /\ at[c] \in 1 .. Len(config)
  BY <1>0, <1>5, <1>6 DEF Types
<1>9. CASE at[c] < f
  <2>1. ~HasPrefix(Path(c), Route(c).path)
    BY <1>0, <1>6, <1>8, <1>9 DEF Route
  <2>2. FallsThrough(c, <<>>)
    BY <1>5, <1>8, <1>0, <2>1
       DEF ServeHTTP, SkipRoute, ServeAPI, ServeMonitor, ServeFile, LookupProxy, StoreProxy,
           BadTarget, Forward, Unmatched, Trying
  <2>3. <<>> \o <<>> = <<>>
    BY ConcatEmptySeq, EmptySeq
  <2>4. at'[c] = at[c] + 1 /\ pc'[c] = "route" /\ resp'[c] = <<>>
    BY <1>0, <1>5, <2>2, <2>3 DEF FallsThrough, Types
  <2>5. at[c] + 1 <= f
    BY <1>0, <1>6, <1>9
  <2> QED BY <1>2, <2>4, <2>5
<1>10. CASE at[c] = f
  <2>1. HasPrefix(Path(c), Route(c).path) /\ Route(c).handler = "api/v1"
    BY <1>6, <1>7, <1>10 DEF Route
  <2>2. Returns(c, <<Denial>>)
    BY <1>0, <1>5, <1>7, <1>8, <2>1
       DEF ServeHTTP, SkipRoute, ServeAPI, ServeMonitor, ServeFile, LookupProxy, StoreProxy,
           BadTarget, Forward, Unmatched, Trying, Unauthorized, Denial
  <2>3. <<>> \o <<Denial>> = <<Denial>>
    OBVIOUS
  <2>4. at'[c] = at[c] /\ pc'[c] = "done" /\ resp'[c] = <<Denial>>
    BY <1>0, <1>5, <2>2, <2>3 DEF Returns, Types
  <2> QED BY <1>2, <1>5, <2>4
<1> QED BY <1>0, <1>5, <1>6, <1>9, <1>10

LEMMA AnswerStep ==
    ASSUME Inv, NEW c \in Clients, ServeHTTP(c)
    PROVE  AnswerInv(c)' /\ RoutingInv(c)'
<1>0. Types /\ KeyInv /\ RoutingInv(c) /\ (pc[c] # "done" => resp[c] \in Errors)
  BY DEF Inv, ClientInv, AnswerInv
<1>1. CASE Tried(c)
  <2>1. pc[c] = "route" /\ resp[c] \in Errors /\ Stays
    BY <1>0, <1>1 DEF Tried
  <2>2. \A a : resp[c] \o <<>> = resp[c] /\ resp[c] \o <<ApiError>> \in Errors
    BY <2>1, OneMore
  <2>3. CASE FallsThrough(c, <<>>) \/ FallsThrough(c, <<ApiError>>) \/ Panicked(c)
    <3>1. resp'[c] \in Errors /\ pc'[c] \in {"route", "panicked"}
      BY <1>0, <2>1, <2>2, <2>3 DEF FallsThrough, Panicked, Types
    <3> QED BY <3>1 DEF AnswerInv, RoutingInv
  <2>4. CASE \E a : a.by \in Handlers \ {"proxy"} /\ Returns(c, <<a>>)
    <3>1. PICK a : a.by \in Handlers \ {"proxy"} /\ Returns(c, <<a>>)
      BY <2>4
    <3>2. resp'[c] = resp[c] \o <<a>> /\ pc'[c] = "done"
      BY <1>0, <3>1 DEF Returns, Types
    <3>3. FinalAnswer(c, a)'
      BY <3>1 DEF FinalAnswer
    <3> QED BY <2>1, <3>2, <3>3 DEF AnswerInv, RoutingInv
  <2> QED BY <1>1, <2>3, <2>4 DEF Tried
<1>2. CASE LookupProxy(c)
  <2>1. Key(c) \notin DOMAIN proxies
    BY <1>0, <1>2 DEF LookupProxy, Trying, KeyInv
  <2>2. /\ pc'[c] = "makeProxy" /\ UNCHANGED <<config, req, at, resp>>
        /\ at[c] <= Len(config) /\ HasPrefix(Path(c), Route(c).path)
        /\ Route(c).handler = "proxy" /\ Route(c).target # NoTarget /\ pc[c] = "route"
    BY <1>0, <1>2, <2>1 DEF LookupProxy, Trying, Types
  <2>3. Path(c)' = Path(c) /\ Route(c)' = Route(c)
    BY <2>2 DEF Path, Route
  <2> QED BY <1>0, <2>2, <2>3 DEF AnswerInv, RoutingInv
<1>3. CASE StoreProxy(c)
  <2>1. pc[c] = "makeProxy" /\ pc'[c] = "forward" /\ UNCHANGED <<config, req, at, resp>>
    BY <1>0, <1>3 DEF StoreProxy, Types
  <2>2. Path(c)' = Path(c) /\ Route(c)' = Route(c)
    BY <2>1 DEF Path, Route
  <2> QED BY <1>0, <2>1, <2>2 DEF AnswerInv, RoutingInv
<1>4. CASE BadTarget(c) \/ Forward(c)
  <2>0. PICK a : a = IF pc[c] = "forward" THEN Answer("proxy", proxy[c])
                                          ELSE Answer("proxy", "error")
    OBVIOUS
  <2>1. /\ pc[c] \in {"makeProxy", "forward"} /\ pc'[c] = "done"
        /\ resp'[c] = resp[c] \o <<a>> /\ UNCHANGED <<config, req, at>>
    BY <1>0, <1>4, <2>0 DEF BadTarget, Forward, Returns, Types
  <2>2. Path(c)' = Path(c) /\ Route(c)' = Route(c)
    BY <2>1 DEF Path, Route
  <2>3. HasPrefix(Path(c), Route(c).path) /\ (pc[c] = "forward" => proxy[c] = Route(c).target)
    BY <1>0, <2>1 DEF RoutingInv, KeyInv
  <2>4. /\ a.by = "proxy"
        /\ pc[c] = "forward" => a.what = proxy[c]
        /\ pc[c] # "forward" => a.what = "error"
    BY <2>0 DEF Answer
  <2>5. FinalAnswer(c, a)'
    BY <2>2, <2>3, <2>4 DEF FinalAnswer, Handlers
  <2> QED BY <1>0, <2>1, <2>5 DEF AnswerInv, RoutingInv
<1> QED BY <1>1, <1>2, <1>3, <1>4, Served

\* A new request starts at the beginning of the table.
LEMMA ArriveStep ==
    ASSUME Inv, NEW c \in Clients, Arrive(c)
    PROVE  ClientInv(c)'
<1>0. Types /\ Len(config) \in Nat
  BY Table DEF Inv, Types
<1>1. /\ pc'[c] = "route" /\ resp'[c] = <<>> /\ at'[c] = 1
      /\ config' = config
  BY <1>0 DEF Arrive, Types
<1>2. <<>> \in Errors
  BY DEF Errors
<1>3. First(c)' # 0 => First(c)' \in 1 .. Len(config)
  <2>1. First(c)' = FirstRoute(config, Path(c)')
    BY <1>1 DEF First
  <2> QED BY <1>0, <2>1, FirstMatches
<1> QED BY <1>1, <1>2, <1>3 DEF ClientInv, RoutingInv, AnswerInv, DeniedInv, Denied

LEMMA StepInv == Inv /\ [Next]_vars => Inv'
<1> SUFFICES ASSUME Inv, [Next]_vars PROVE Inv'
  OBVIOUS
<1>1. ASSUME NEW c \in Clients, Arrive(c) \/ ServeHTTP(c) PROVE Inv'
  <2>1. Types' /\ KeyInv'
    BY <1>1, TypesStep, KeyStep
  <2>2. ClientInv(c)'
    BY <1>1, AnswerStep, ArriveStep, DeniedStep DEF ClientInv
  <2>3. ASSUME NEW d \in Clients, d # c PROVE ClientInv(d)'
    <3>1. Types /\ ClientInv(d)
      BY DEF Inv
    <3>2. /\ config' = config
          /\ pc'[d] = pc[d] /\ req'[d] = req[d] /\ at'[d] = at[d] /\ resp'[d] = resp[d]
      BY <1>1, <2>3, <3>1, OthersStay
    <3> QED BY <3>1, <3>2, OthersKeep
  <2> QED BY <2>1, <2>2, <2>3 DEF Inv
<1>2. ASSUME UNCHANGED <<config, proxies, requests>>, cib' \in Cibs \union {NoCib} PROVE Inv'
  <2>1. ASSUME NEW d \in Clients PROVE ClientInv(d)'
    <3>1. ClientInv(d)
      BY DEF Inv
    <3> QED BY <1>2, <3>1, OthersKeep DEF requests
  <2>2. Types'
    BY <1>2 DEF requests, Inv, Types
  <2>3. ASSUME NEW d \in Clients PROVE Route(d)' = Route(d) /\ Key(d)' = Key(d)
    BY <1>2 DEF requests, Route, Key
  <2>4. KeyInv'
    BY <1>2, <2>3 DEF requests, Inv, KeyInv
  <2> QED BY <2>1, <2>2, <2>4 DEF Inv
<1>3. CASE NewCib \/ Quiet \/ UNCHANGED vars
  BY <1>2, <1>3 DEF NewCib, Quiet, vars, Inv, Types
<1> QED BY <1>1, <1>3 DEF Next
-----------------------------------------------------------------------------
\* Requests and routes keep their types, only targets that url.Parse takes are
\* in the map, and proxyForRoute is only ever at a proxy route with a target.
THEOREM TypeCorrect == Spec => []TypeOK
<1>1. Inv => TypeOK
  <2> SUFFICES ASSUME Inv PROVE TypeOK
    OBVIOUS
  <2>1. ASSUME NEW c \in Clients, NEW i \in DOMAIN resp[c] PROVE resp[c][i].by \in Handlers
    <3>0. ApiError.by \in Handlers
      BY DEF ApiError, Answer, Handlers
    <3>1. CASE pc[c] # "done"
      <4>1. resp[c] \in Seq({ApiError})
        BY <3>1 DEF Inv, ClientInv, AnswerInv, Errors
      <4>2. resp[c][i] = ApiError
        BY <4>1
      <4> QED BY <3>0, <4>2
    <3>2. CASE pc[c] = "done"
      <4>1. PICK s \in Errors : \E a : resp[c] = s \o <<a>> /\ FinalAnswer(c, a)
        BY <3>2 DEF Inv, ClientInv, AnswerInv
      <4>2. PICK a : resp[c] = s \o <<a>> /\ FinalAnswer(c, a)
        BY <4>1
      <4>3. resp[c][i] \in {ApiError, a}
        BY <4>2, OneMore
      <4> QED BY <3>0, <4>2, <4>3 DEF FinalAnswer
    <3> QED BY <3>1, <3>2
  <2> QED BY <2>1 DEF Inv, Types, States, KeyInv, ClientInv, RoutingInv, TypeOK, Handlers
<1> QED BY <1>1, InitInv, StepInv, PTL DEF Spec

\* However requests interleave in proxyForRoute, each is sent to the target of
\* the first of its routes that took it.
THEOREM ProxiesRight == Spec => []RightProxy
<1>1. Inv => RightProxy
  <2> SUFFICES ASSUME Inv, NEW c \in Clients
               PROVE  /\ pc[c] = "forward" => proxy[c] = Route(c).target
                      /\ \A i \in DOMAIN resp[c] :
                            (resp[c][i].by = "proxy" /\ resp[c][i].what # "error") =>
                                /\ HasPrefix(Path(c), Route(c).path)
                                /\ resp[c][i].what = Route(c).target
    BY DEF RightProxy
  <2>1. pc[c] = "forward" => proxy[c] = Route(c).target
    BY DEF Inv, KeyInv
  <2>2. ApiError.by # "proxy"
    BY DEF ApiError, Answer
  <2>3. CASE pc[c] # "done"
    <3>1. resp[c] \in Seq({ApiError})
      BY <2>3 DEF Inv, ClientInv, AnswerInv, Errors
    <3>2. \A i \in DOMAIN resp[c] : resp[c][i] = ApiError
      BY <3>1
    <3> QED BY <2>1, <2>2, <3>2
  <2>4. CASE pc[c] = "done"
    <3>1. PICK s \in Errors : \E a : resp[c] = s \o <<a>> /\ FinalAnswer(c, a)
      BY <2>4 DEF Inv, ClientInv, AnswerInv
    <3>2. PICK a : resp[c] = s \o <<a>> /\ FinalAnswer(c, a)
      BY <3>1
    <3>3. \A i \in DOMAIN resp[c] : resp[c][i] \in {ApiError, a}
      BY <3>2, OneMore
    <3> QED BY <2>1, <2>2, <3>2, <3>3 DEF FinalAnswer
  <2> QED BY <2>3, <2>4
<1> QED BY <1>1, InitInv, StepInv, PTL DEF Spec

\* A request without credentials that an API route takes first gets the 401
\* and nothing else, in any table and whatever its cookies are.
THEOREM UnauthorizedStops == Spec => []UnauthorizedStopsAtApi
<1>1. Inv => UnauthorizedStopsAtApi
  <2>1. ASSUME Inv, NEW c \in Clients, Denied(c)
        PROVE  at[c] <= First(c) /\ resp[c] \in {<<>>, <<Denial>>}
    BY <2>1 DEF Inv, ClientInv, DeniedInv
  <2> QED BY <2>1 DEF UnauthorizedStopsAtApi, Denied, Denial, First, FirstRoute
<1> QED BY <1>1, InitInv, StepInv, PTL DEF Spec

\* A request that is over has one answer, after at most the errors of lookups
\* in the CIB that found nothing.
THEOREM AnsweredOnce == Spec => []AnsweredOnceUnlessMissing
<1>1. Inv => AnsweredOnceUnlessMissing
  <2> SUFFICES ASSUME Inv, NEW c \in Clients, pc[c] = "done"
               PROVE  \/ Len(resp[c]) = 1
                      \/ /\ Len(resp[c]) > 1
                         /\ \A i \in 1 .. Len(resp[c]) - 1 : resp[c][i] = ApiError
    BY DEF AnsweredOnceUnlessMissing, ApiError
  <2>1. PICK s \in Errors : \E a : resp[c] = s \o <<a>>
    BY DEF Inv, ClientInv, AnswerInv
  <2>2. PICK a : resp[c] = s \o <<a>>
    BY <2>1
  <2>3. /\ Len(s) \in Nat /\ Len(resp[c]) = Len(s) + 1
        /\ \A i \in 1 .. Len(s) : resp[c][i] = ApiError
    BY <2>2, OneMore
  <2> QED BY <2>3
<1> QED BY <1>1, InitInv, StepInv, PTL DEF Spec
-----------------------------------------------------------------------------
(* Lookups in the CIB.                                                     *)

\* The URL of a list under a route's path.
ListUnder(p, kind) == p \o <<"configuration", kind>>

\* Whether there is a fourth segment in a URL, and where it comes from.
Fourth(path, list) ==
    \/ path = list /\ Front(path) # list /\ Len(path) = 3
    \/ path # list /\ Len(path) = 4 /\ Last(path) = path[4]
    \/ Len(path) > 3 /\ 4 \in 4 .. Len(list) /\ path[4] = list[4]

\* The fourth segment of a URL that asks for a list or for an element.
LEMMA Segments ==
    ASSUME NEW p \in Seq(STRING), Len(p) # 0, NEW kind, NEW path \in Seq(STRING),
           NEW list, list = ListUnder(p, kind), path = list \/ Front(path) = list
    PROVE  Fourth(path, list)
<1> SUFFICES \/ path = list /\ Front(path) # list /\ Len(path) = 3
             \/ path # list /\ Len(path) = 4 /\ Last(path) = path[4]
             \/ Len(path) > 3 /\ 4 \in 4 .. Len(list) /\ path[4] = list[4]
  BY DEF Fourth
<1> DEFINE S == STRING \cup {"configuration", kind}
<1>1. p \in Seq(S)
  BY SeqMonotonic
<1>2. PICK n \in Nat : n = Len(list) /\ n >= 3
  <2>1. \A x, y \in S : <<x, y>> \in Seq(S) /\ Len(<<x, y>>) = 2
    OBVIOUS
  <2>2. PICK q \in Seq(S) : q = <<"configuration", kind>> /\ Len(q) = 2
    BY <2>1, Zenon
  <2>3. Len(p) \in Nat
    OBVIOUS
  <2> HIDE DEF S
  <2>4. PICK r \in Seq(S) : r = p
    BY <1>1, Zenon
  <2>5. PICK k, l : k = Len(r) /\ l = Len(q)
    OBVIOUS
  <2>6. Len(r \o q) = k + l
    BY <2>5, TwoPieces
  <2> QED BY <2>2, <2>3, <2>4, <2>5, <2>6 DEF ListUnder
<1>3. PICK m \in Nat : m = Len(path)
  OBVIOUS
<1>4. /\ Front(path) = SubSeq(path, 1, m - 1)
      /\ Len(SubSeq(path, 1, m - 1)) = IF 1 <= m - 1 THEN m - 1 ELSE 0
      /\ \A i \in 1 .. m - 1 : SubSeq(path, 1, m - 1)[i] = path[i]
  BY <1>3 DEF Front
<1>5. CASE path = list
  <2>1. m = n
    BY <1>2, <1>3, <1>5
  <2>2. Front(path) # list
    <3>1. Len(Front(path)) = m - 1
      BY <1>2, <1>4, <2>1
    <3> QED BY <1>2, <2>1, <3>1
  <2>3. CASE n = 3
    BY <1>3, <1>5, <2>1, <2>2, <2>3
  <2>4. CASE n > 3
    BY <1>2, <1>3, <1>5, <2>1, <2>4
  <2> QED BY <1>2, <2>3, <2>4
<1>6. CASE Front(path) = list
  <2>1. m = n + 1
    BY <1>2, <1>4, <1>6
  <2>2. path # list
    <3>1. path = list => m = n
      BY <1>2, <1>3
    <3> QED BY <2>1, <3>1
  <2>3. CASE n = 3
    <3>1. Len(path) = 4
      BY <1>3, <2>1, <2>3
    <3> QED BY <2>2, <3>1 DEF Last
  <2>4. CASE n > 3
    <3>1. 4 \in 1 .. m - 1
      BY <2>1, <2>4
    <3>2. path[4] = list[4]
      BY <1>4, <1>6, <3>1
    <3> QED BY <1>2, <1>3, <2>1, <2>4, <3>2
  <2> QED BY <1>2, <2>3, <2>4
<1> QED BY <1>5, <1>6

\* The node found has the name that was looked for.
LEMMA NodeFound ==
    ASSUME NEW d \in Cibs, NEW id, NodeEntry(d, id).did = "found"
    PROVE  \E i \in DOMAIN d.nodes :
              NodeEntry(d, id) = Found("node", i) /\ id \in {d.nodes[i].id, d.nodes[i].uname}
<1> DEFINE I == {i \in 1 .. Len(d.nodes) : id \in {d.nodes[i].uname, d.nodes[i].id}}
           first == IF I # {} THEN Min(I) ELSE 0
<1>1. Len(d.nodes) \in Nat /\ DOMAIN d.nodes = 1 .. Len(d.nodes)
  <2>1. d.nodes \in Seq(ToSet(d.nodes))
    BY CibsAssumption
  <2> QED BY <2>1, LenProperties
<1>2. NodeEntry(d, id) = IF first = 0 THEN Missing ELSE Found("node", first)
  BY DEF NodeEntry, SelectInSeq
<1>3. I # {}
  BY <1>2 DEF Missing
<1>4. I \subseteq Nat
  BY <1>1
<1>5. first \in I
  <2> HIDE DEF I
  <2>1. \E i \in I : \A j \in I : i <= j
    BY <1>3, <1>4, LeastPosition
  <2> QED BY <1>3, <2>1 DEF Min
<1>6. first # 0
  BY <1>5
<1> HIDE DEF first
<1> QED BY <1>1, <1>2, <1>5, <1>6

\* The last of some entries that satisfy a condition given by their positions.
LEMMA LastOf ==
    ASSUME NEW n \in Nat, NEW I, I \subseteq 1 .. n, (IF I # {} THEN Max(I) ELSE 0) # 0
    PROVE  (IF I # {} THEN Max(I) ELSE 0) \in I
<1>1. I # {}
  OBVIOUS
<1>2. \E i \in I : \A j \in I : i >= j
  BY <1>1, GreatestPosition
<1> QED BY <1>1, <1>2 DEF Max

\* The entry found in the lists of some types is the one that was looked for.
LEMMA TypedFound ==
    ASSUME NEW d \in Cibs, NEW types \in {ResourceTypes, ConstraintTypes}, NEW id,
           TypedEntry(d, types, id).did = "found"
    PROVE  \E t \in DOMAIN types : \E i \in DOMAIN d[types[t]] :
              TypedEntry(d, types, id) = Found(types[t], i) /\ d[types[t]][i] = id
<1> DEFINE T == {t \in 1 .. Len(types) : id \in ToSet(d[types[t]])}
           last == IF T # {} THEN Max(T) ELSE 0
           list == d[types[last]]
           I == {i \in 1 .. Len(list) : list[i] = id}
           index == IF I # {} THEN Max(I) ELSE 0
<1>1. Len(types) \in Nat /\ DOMAIN types = 1 .. Len(types)
  BY DEF ResourceTypes, ConstraintTypes
<1>2. TypedEntry(d, types, id) = IF last = 0 THEN Missing ELSE Found(types[last], index)
  BY DEF TypedEntry, SelectLastInSeq
<1>3. last # 0
  <2> HIDE DEF last
  <2>1. Missing.did # "found"
    BY DEF Missing
  <2> QED BY <1>2, <2>1
<1>4. last \in T
  <2>1. T \subseteq 1 .. Len(types)
    OBVIOUS
  <2> HIDE DEF T
  <2> QED BY <1>1, <1>3, <2>1, LastOf
<1>5. last \in DOMAIN types /\ id \in ToSet(list)
  BY <1>1, <1>4
<1>6. types[last] \in ToSet(ResourceTypes) \cup ToSet(ConstraintTypes)
  BY <1>5 DEF ToSet
<1>7. list \in Seq(STRING)
  BY <1>6, CibsAssumption
<1> HIDE DEF last, T
<1>8. Len(list) \in Nat /\ DOMAIN list = 1 .. Len(list)
  BY <1>7, LenProperties
<1> HIDE DEF list
<1>9. I # {} /\ I \subseteq 1 .. Len(list)
  BY <1>5, <1>8 DEF ToSet
<1>10. index \in I
  <2> HIDE DEF I
  <2>1. \E i \in I : \A j \in I : i >= j
    BY <1>8, <1>9, GreatestPosition
  <2> QED BY <1>9, <2>1 DEF Max
<1>11. index \in DOMAIN list /\ list[index] = id
  BY <1>8, <1>10
<1> HIDE DEF index
<1> QED BY <1>2, <1>3, <1>5, <1>11 DEF list

\* What MarshalJSON makes of an entry that was found: one element, and it is
\* called by the name that was looked for.
LEMMA ElementFound ==
    ASSUME NEW d \in Cibs, NEW kind \in Listed, NEW id, NEW h,
           h = Entry(d, kind, id), h.did = "found"
    PROVE  /\ MarshalJSON(d, kind, h) # {}
           /\ MarshalJSON(d, kind, h) \subseteq Called(d, kind, id)
<1>1. CASE kind = "nodes"
  <2>1. h = NodeEntry(d, id)
    BY <1>1 DEF Entry
  <2>2. PICK i \in DOMAIN d.nodes : /\ h = Found("node", i)
                                    /\ id \in {d.nodes[i].id, d.nodes[i].uname}
    BY <2>1, NodeFound
  <2>3. h.type = "node" /\ h.index = i
    BY <2>2 DEF Found
  <2>4. MarshalJSON(d, kind, h) = {d.nodes[i].id}
    BY <1>1, <2>3 DEF MarshalJSON
  <2>5. d.nodes[i] \in ToSet(d.nodes)
    BY DEF ToSet
  <2>6. d.nodes[i].id \in Called(d, kind, id)
    BY <1>1, <2>2, <2>5 DEF Called
  <2> QED BY <2>4, <2>6
<1>2. ASSUME NEW types \in {ResourceTypes, ConstraintTypes},
             kind # "nodes", kind # "cluster", h = TypedEntry(d, types, id),
             types = TypesOf(kind)
      PROVE  MarshalJSON(d, kind, h) = {id} /\ id \in Called(d, kind, id)
  <2>1. PICK t \in DOMAIN types : \E i \in DOMAIN d[types[t]] :
           h = Found(types[t], i) /\ d[types[t]][i] = id
    BY <1>2, TypedFound
  <2>2. PICK i \in DOMAIN d[types[t]] : h = Found(types[t], i) /\ d[types[t]][i] = id
    BY <2>1
  <2>3. h.type = types[t] /\ h.index = i
    BY <2>2 DEF Found
  <2>4. types[t] # "all"
    BY DEF ResourceTypes, ConstraintTypes
  <2>5. MarshalJSON(d, kind, h) = {d[types[t]][i]}
    BY <1>2, <2>3, <2>4 DEF MarshalJSON
  <2>6. id \in ToSet(d[types[t]])
    BY <2>2 DEF ToSet
  <2>7. id \in IdsOf(d, types)
    BY <2>6 DEF IdsOf
  <2>8. id \in Called(d, kind, id)
    BY <1>2, <2>7 DEF Called
  <2> QED BY <2>2, <2>5, <2>8
<1>3. CASE kind = "resources"
  <2>1. h = TypedEntry(d, ResourceTypes, id)
    BY <1>3 DEF Entry
  <2> QED BY <1>2, <1>3, <2>1 DEF TypesOf
<1>4. CASE kind = "constraints"
  <2>1. h = TypedEntry(d, ConstraintTypes, id)
    BY <1>4 DEF Entry
  <2> QED BY <1>2, <1>4, <2>1 DEF TypesOf
<1> QED BY <1>1, <1>3, <1>4 DEF Listed

\* What MarshalJSON makes of the whole list.
LEMMA ListFound ==
    ASSUME NEW d, NEW kind \in Listed, NEW h, h = Found("all", 0)
    PROVE  MarshalJSON(d, kind, h) = AllOf(d, kind)
<1>1. h.type = "all"
  BY DEF Found
<1>2. CASE kind = "nodes"
  BY <1>1, <1>2 DEF MarshalJSON, AllOf
<1>3. CASE kind = "resources"
  BY <1>1, <1>3 DEF MarshalJSON, AllOf, TypesOf
<1>4. CASE kind = "constraints"
  BY <1>1, <1>4 DEF MarshalJSON, AllOf, TypesOf
<1> QED BY <1>2, <1>3, <1>4 DEF Listed

\* The elements that a URL asks for, and the ids of them.
Right(d, kind, path, list, ids) ==
    /\ path = list => ids = AllOf(d, kind)
    /\ Front(path) = list => ids # {} /\ ids \subseteq Called(d, kind, Last(path))

\* No element is called by a word of the list's URL that may be looked up.
NoneCalled(d, kind, list) == \A j \in 4 .. Len(list) : Called(d, kind, list[j]) = {}

\* What the handler of a kind finds is what the URL asks for.
LEMMA Looked ==
    ASSUME NEW d \in Cibs, NEW kind \in Listed,
           NEW p \in Seq(STRING), Len(p) # 0, NEW path \in Seq(STRING),
           NEW list, list = ListUnder(p, kind),
           NoneCalled(d, kind, list),
           NEW h, h = HandleList(d, kind, path), h.did = "found"
    PROVE  Right(d, kind, path, list, MarshalJSON(d, kind, h))
<1> SUFFICES ASSUME path = list \/ Front(path) = list
             PROVE  /\ path = list => MarshalJSON(d, kind, h) = AllOf(d, kind)
                    /\ Front(path) = list =>
                          /\ MarshalJSON(d, kind, h) # {}
                          /\ MarshalJSON(d, kind, h) \subseteq Called(d, kind, Last(path))
  BY DEF Right
<1>1. d # NoCib
  BY CibsAssumption
<1>2. CASE path = list /\ Front(path) # list /\ Len(path) = 3
  <2>1. h = Found("all", 0)
    BY <1>1, <1>2 DEF HandleList
  <2> QED BY <1>2, <2>1, ListFound
<1>3. CASE path # list /\ Len(path) = 4 /\ Last(path) = path[4]
  <2>1. h = Entry(d, kind, Last(path))
    BY <1>1, <1>3 DEF HandleList
  <2> QED BY <1>3, <2>1, ElementFound
<1>4. CASE Len(path) > 3 /\ 4 \in 4 .. Len(list) /\ path[4] = list[4]
  <2>0. PICK m \in Nat : m = Len(path)
    OBVIOUS
  <2>1. h = Entry(d, kind, list[4])
    <3>1. m > 3 /\ path[4] = list[4]
      BY <1>4, <2>0
    <3>2. ~ m = 3 /\ ~ m < 3
      BY <3>1
    <3> QED BY <1>1, <2>0, <3>1, <3>2 DEF HandleList
  <2>2. Called(d, kind, list[4]) = {}
    BY <1>4 DEF NoneCalled
  <2>3. FALSE
    BY <2>1, <2>2, ElementFound
  <2> QED BY <2>3
<1>5. Fourth(path, list)
  BY Segments, Zenon
<1> QED BY <1>2, <1>3, <1>4, <1>5, Zenon DEF Fourth

\* The answer that a step adds.
LEMMA Added ==
    ASSUME Inv, NEW c \in Clients, pc[c] # "done", NEW a,
           resp' = [resp EXCEPT ![c] = @ \o <<a>>],
           NEW i \in DOMAIN resp'[c] \ DOMAIN resp[c]
    PROVE  resp'[c][i] = a
<1>1. resp[c] \in Errors /\ resp'[c] = resp[c] \o <<a>>
  BY DEF Inv, Types, ClientInv, AnswerInv
<1>2. /\ Len(resp[c]) \in Nat /\ DOMAIN resp'[c] = 1 .. Len(resp[c]) + 1
      /\ resp'[c][Len(resp[c]) + 1] = a
  BY <1>1, OneMore
<1>3. DOMAIN resp[c] = 1 .. Len(resp[c])
  BY <1>1, LenProperties DEF Errors
<1> QED BY <1>2, <1>3

\* A step that adds none.
LEMMA NoneAdded ==
    ASSUME Inv, NEW c \in Clients, pc[c] # "done",
           resp' = [resp EXCEPT ![c] = @ \o <<>>] \/ resp' = resp
    PROVE  resp'[c] = resp[c]
<1>1. resp[c] \in Errors /\ c \in DOMAIN resp
  BY DEF Inv, Types, ClientInv, AnswerInv
<1>2. resp[c] \o <<>> = resp[c]
  BY <1>1, OneMore
<1> QED BY <1>1, <1>2

\* Elements of the CIB are only ever in an answer that serveAPI has just made
\* from the document that the cache holds.
LEMMA FromCib ==
    ASSUME Inv, NEW c \in Clients, ServeHTTP(c),
           NEW i \in DOMAIN resp'[c] \ DOMAIN resp[c],
           resp'[c][i].by = "api", resp'[c][i].what \in Listed
    PROVE  /\ Trying(c, "api/v1")
           /\ LET kind == resp'[c][i].what
                  h == HandleList(cib, kind, Path(c))
              IN  h.did = "found" /\ resp'[c][i].ids = MarshalJSON(cib, kind, h)
<1>0. /\ "error" \notin Listed /\ "unauthorized" \notin Listed /\ "cib" \notin Listed
      /\ \A by, what : Answer(by, what).by = by /\ Answer(by, what).what = what
  BY DEF Listed, Answer
<1>1. CASE pc[c] # "route"
  <2>1. CASE LookupProxy(c) \/ StoreProxy(c)
    BY <2>1 DEF LookupProxy, StoreProxy
  <2>2. CASE BadTarget(c) \/ Forward(c)
    <3>1. pc[c] # "done"
      BY <2>2 DEF BadTarget, Forward
    <3>2. PICK what : Returns(c, <<Answer("proxy", what)>>)
      BY <2>2 DEF BadTarget, Forward
    <3>3. resp'[c][i] = Answer("proxy", what)
      BY <3>1, <3>2, Added DEF Returns
    <3> QED BY <1>0, <3>3
  <2> QED BY <1>1, <2>1, <2>2, Served DEF Tried
<1>2. CASE pc[c] = "route"
  <2>0. pc[c] # "done"
    BY <1>2
  <2>1. ASSUME NEW by, NEW what, Returns(c, <<Answer(by, what)>>),
               by # "api" \/ what \notin Listed
        PROVE  FALSE
    <3>1. resp'[c][i] = Answer(by, what)
      BY <2>0, <2>1, Added DEF Returns
    <3> QED BY <1>0, <2>1, <3>1
  <2>2. ASSUME FallsThrough(c, <<>>) \/ Panicked(c) PROVE FALSE
    <3>1. resp'[c] = resp[c]
      BY <2>0, <2>2, NoneAdded DEF FallsThrough, Panicked
    <3> QED BY <3>1
  <2>3. ASSUME FallsThrough(c, <<Answer("api", "error")>>) PROVE FALSE
    <3>1. resp'[c][i] = Answer("api", "error")
      BY <2>0, <2>3, Added DEF FallsThrough
    <3> QED BY <1>0, <3>1
  <2>4. ServeAPI(c)
    <3>1. CASE SkipRoute(c)
      BY <2>2, <3>1 DEF SkipRoute
    <3>2. CASE ServeMonitor(c)
      BY <2>1, <2>2, <3>2 DEF ServeMonitor
    <3>3. CASE ServeFile(c)
      BY <2>1, <2>2, <3>3 DEF ServeFile
    <3>4. CASE Unmatched(c)
      BY <2>1, <3>4 DEF Unmatched
    <3>5. CASE LookupProxy(c)
      BY <3>5 DEF LookupProxy
    <3>6. CASE StoreProxy(c) \/ BadTarget(c) \/ Forward(c)
      BY <1>2, <3>6 DEF StoreProxy, BadTarget, Forward
    <3> QED BY <3>1, <3>2, <3>3, <3>4, <3>5, <3>6 DEF ServeHTTP
  <2>5. PICK kind : ServeKind(c, kind)
    BY <1>0, <2>1, <2>4 DEF ServeAPI, Unauthorized
  <2> DEFINE h == HandleApi(kind, Path(c))
  <2>6. h.did = "found" /\ Returns(c, <<ApiAnswer(kind, MarshalJSON(cib, kind, h))>>)
    BY <2>2, <2>3, <2>5 DEF ServeKind
  <2> HIDE DEF h
  <2>7. resp'[c][i] = ApiAnswer(kind, MarshalJSON(cib, kind, h))
    BY <2>0, <2>6, Added DEF Returns
  <2>8. kind = resp'[c][i].what /\ resp'[c][i].ids = MarshalJSON(cib, kind, h)
    BY <2>7 DEF ApiAnswer
  <2>9. kind \in Listed => h = HandleList(cib, kind, Path(c))
    BY DEF h, HandleApi, Listed, HandleApiNodes, HandleApiResources, HandleApiConstraints
  <2>10. Trying(c, "api/v1")
    BY <2>4 DEF ServeAPI
  <2> QED BY <2>6, <2>8, <2>9, <2>10
<1> QED BY <1>1, <1>2

\* For any CIB, any requests and any table, what an API request gets from the
\* CIB is what its URL asks for (api_nodes.go:25-48 and the handlers like it),
\* whenever the cache changes, unless the route is the root or an element is
\* called by a word of the list's URL from its fourth segment on.
THEOREM ApiAnswersRight == Spec => ApiAnswersAsked
<1> DEFINE Asked(c) ==
       \A i \in DOMAIN resp'[c] \ DOMAIN resp[c] :
           LET kind == resp'[c][i].what
               ids  == resp'[c][i].ids
               list == ListPath(c, kind)
           IN  /\ resp'[c][i].by = "api" /\ kind \in Listed
               /\ Route(c).path # <<>>
               /\ \A j \in 4 .. Len(list) : Called(cib, kind, list[j]) = {}
               => /\ Path(c) = list => ids = AllOf(cib, kind)
                  /\ Front(Path(c)) = list =>
                        ids # {} /\ ids \subseteq Called(cib, kind, Last(Path(c)))
<1>1. ASSUME Inv, [Next]_vars, NEW c \in Clients PROVE Asked(c)
  <2>1. CASE ServeHTTP(c)
    <3> SUFFICES ASSUME NEW i \in DOMAIN resp'[c] \ DOMAIN resp[c],
                        NEW kind, kind = resp'[c][i].what,
                        NEW ids, ids = resp'[c][i].ids,
                        NEW list, list = ListPath(c, kind),
                        resp'[c][i].by = "api", kind \in Listed,
                        Route(c).path # <<>>,
                        \A j \in 4 .. Len(list) : Called(cib, kind, list[j]) = {}
                 PROVE  /\ Path(c) = list => ids = AllOf(cib, kind)
                        /\ Front(Path(c)) = list =>
                              ids # {} /\ ids \subseteq Called(cib, kind, Last(Path(c)))
      OBVIOUS
    <3>1. PICK h : /\ h = HandleList(cib, kind, Path(c)) /\ h.did = "found"
                   /\ ids = MarshalJSON(cib, kind, h)
      BY <1>1, <2>1, FromCib
    <3>2. Trying(c, "api/v1")
      BY <1>1, <2>1, FromCib
    <3>3. Route(c).path \in Seq(STRING)
      <4>1. config \in Configs /\ at[c] \in DOMAIN config
        BY <1>1, <3>2, Table DEF Inv, Types, Trying
      <4>2. config[at[c]] \in ToSet(config)
        BY <4>1 DEF ToSet
      <4> QED BY <4>1, <4>2, TablesAssumption DEF Route
    <3>4. Path(c) \in Seq(STRING)
      BY <1>1, MessagesAssumption DEF Inv, Types, Path
    <3>5. cib \in Cibs
      <4>1. cib # NoCib
        BY <3>1 DEF HandleList, Unparsed
      <4> QED BY <1>1, <4>1 DEF Inv, Types
    <3>6. list = ListUnder(Route(c).path, kind)
      BY DEF ListPath, ListUnder
    <3>7. Len(Route(c).path) # 0
      BY <3>3
    <3>8. NoneCalled(cib, kind, list)
      BY DEF NoneCalled
    <3>9. Right(cib, kind, Path(c), list, MarshalJSON(cib, kind, h))
      BY <3>1, <3>3, <3>4, <3>5, <3>6, <3>7, <3>8, Looked, Zenon
    <3> QED BY <3>1, <3>9 DEF Right
  <2>2. CASE Arrive(c)
    <3>1. resp'[c] = <<>>
      BY <1>1, <2>2 DEF Arrive, Inv, Types
    <3> QED BY <3>1
  <2>3. ASSUME NEW d \in Clients, d # c, Arrive(d) \/ ServeHTTP(d) PROVE Asked(c)
    <3>1. resp'[c] = resp[c]
      BY <1>1, <2>3, OthersStay DEF Inv
    <3> QED BY <3>1
  <2>4. CASE NewCib \/ Quiet \/ UNCHANGED vars
    BY <2>4 DEF NewCib, Quiet, vars, requests
  <2> QED BY <1>1, <2>1, <2>2, <2>3, <2>4 DEF Next
<1>2. Inv /\ [Next]_vars => [\A c \in Clients : Asked(c)]_vars
  BY <1>1
<1>3. Spec => [][\A c \in Clients : Asked(c)]_vars
  BY <1>2, InitInv, StepInv, PTL DEF Spec
<1> QED BY <1>3 DEF ApiAnswersAsked
=============================================================================
