---------------------------- MODULE RouteHandler ----------------------------
(***************************************************************************)
(* routeHandler.ServeHTTP (main.go): each request, in a goroutine of its   *)
(* own, goes down the routing table until a handler returns true.  The     *)
(* requests share the cached CIB and the map of reverse proxies, which     *)
(* proxyForRoute reads and fills in two separate critical sections.        *)
(*                                                                         *)
(* The key of that map is &route, the address of the loop variable of this *)
(* very call of ServeHTTP: a new key for every request.  The long poll of  *)
(* serveMonitor is the subject of AsyncCib, the response of a proxied      *)
(* request that of ProxyResponse.                                          *)
(***************************************************************************)
EXTENDS CibApi, FiniteSets

CONSTANTS
    Clients,      \* connections, each with one request at a time
    Configs,      \* routing tables: sequences of routes
    Requests,     \* requests clients may send
    Cibs,         \* documents the cache may come to hold
    MaxRequests,  \* bound: requests of one client
    Sessions,     \* pairs <<user, key>> of the sessions that attrd knows
    Passwords,    \* pairs <<user, password>> that hawk_chkpwd accepts
    Begins,       \* pairs <<s, t>> of segments: t is a proper prefix of s
    Json,         \* the pairs of Begins where s is t with ".json" after it
    BadTargets    \* targets that url.Parse refuses

ASSUME RequestsAssumption == MaxRequests \in Nat
ASSUME JsonAssumption == Json \subseteq Begins
ASSUME CibsAssumption ==
    /\ NoCib \notin Cibs
    /\ \A d \in Cibs :
          /\ d.nodes \in Seq(ToSet(d.nodes))
          /\ \A t \in ToSet(ResourceTypes) \cup ToSet(ConstraintTypes) : d[t] \in Seq(STRING)
ASSUME TablesAssumption ==
    \A table \in Configs :
        /\ table \in Seq(ToSet(table))
        /\ \A r \in ToSet(table) : r.path \in Seq(STRING)
ASSUME MessagesAssumption ==
    /\ Requests # {}
    /\ \A r \in Requests : r.path \in Seq(STRING) /\ r.cookies \in Seq(ToSet(r.cookies))

NoTarget == "nil"

VARIABLES
    config,       \* handler.config.Route
    cib,          \* the document handler.cib.Get() returns
    proxies,      \* handler.proxies: from keys to targets
    pc,           \* where the goroutine of each connection's request is
    req,          \* req[c]: the request
    at,           \* at[c]: index of the route being tried
    count,        \* count[c]: requests of c so far
    proxy,        \* proxy[c]: target of the proxy that proxyForRoute returned
    resp          \* resp[c]: what the handlers have written, in order

requests == <<pc, req, at, count, proxy, resp>>
vars     == <<config, cib, proxies, requests>>

Init ==
    /\ config \in Configs
    /\ cib = NoCib
    /\ proxies = <<>>
    /\ pc = [c \in Clients |-> "idle"]
    /\ req = [c \in Clients |-> CHOOSE r \in Requests : TRUE]
    /\ at = [c \in Clients |-> 1]
    /\ count = [c \in Clients |-> 0]
    /\ proxy = [c \in Clients |-> NoTarget]
    /\ resp = [c \in Clients |-> <<>>]

Route(c) == config[at[c]]
Path(c)  == req[c].path

\* Faulty variant: one loop variable for all calls of ServeHTTP.
SharedKey(c) == "route"

\* The address of the loop variable in c's current call of ServeHTTP.
Key(c) == <<c, count[c]>>

\* strings.HasPrefix(path, prefix) on segments.
HasPrefix(path, prefix) ==
    \/ IsPrefix(prefix, path)
    \/ /\ prefix # <<>>
       /\ Len(path) >= Len(prefix)
       /\ IsPrefix(Front(prefix), path)
       /\ <<path[Len(prefix)], Last(prefix)>> \in Begins

\* The route the loop is at, when its condition and its handler are these.
Trying(c, handler) ==
    /\ pc[c] = "route"
    /\ at[c] <= Len(config)
    /\ HasPrefix(Path(c), Route(c).path)
    /\ Route(c).handler = handler

\* What a handler writes, and the ids of the CIB elements in it.
Answer(by, what)     == [by |-> by, what |-> what, ids |-> {}]
ApiAnswer(kind, ids) == [by |-> "api", what |-> kind, ids |-> ids]

Returns(c, responses) ==
    /\ resp' = [resp EXCEPT ![c] = @ \o responses]
    /\ pc' = [pc EXCEPT ![c] = "done"]
    /\ UNCHANGED at

FallsThrough(c, responses) ==
    /\ resp' = [resp EXCEPT ![c] = @ \o responses]
    /\ at' = [at EXCEPT ![c] = @ + 1]
    /\ UNCHANGED pc

Panicked(c) ==
    /\ pc' = [pc EXCEPT ![c] = "panicked"]
    /\ UNCHANGED <<at, resp>>
-----------------------------------------------------------------------------
\* notifyNewCib, seen from here: the cache holds another document.
NewCib ==
    /\ cib' \in Cibs
    /\ UNCHANGED <<config, proxies, requests>>

Arrive(c) ==
    /\ pc[c] \in {"idle", "done", "panicked"}
    /\ count[c] < MaxRequests
    /\ count' = [count EXCEPT ![c] = @ + 1]
    /\ \E r \in Requests : req' = [req EXCEPT ![c] = r]
    /\ pc' = [pc EXCEPT ![c] = "route"]
    /\ at' = [at EXCEPT ![c] = 1]
    /\ proxy' = [proxy EXCEPT ![c] = NoTarget]
    /\ resp' = [resp EXCEPT ![c] = <<>>]
    /\ UNCHANGED <<config, cib, proxies>>

\* Another prefix, another handler name, or no target where one is needed.
SkipRoute(c) ==
    /\ pc[c] = "route"
    /\ at[c] <= Len(config)
    /\ \/ ~HasPrefix(Path(c), Route(c).path)
       \/ Route(c).handler \notin {"api/v1", "monitor", "file", "proxy"}
       \/ Route(c).handler \in {"file", "proxy"} /\ Route(c).target = NoTarget
    /\ FallsThrough(c, <<>>)
    /\ UNCHANGED <<config, cib, proxies, req, count, proxy>>

\* The end of the table: "Unmatched request", status 500.
Unmatched(c) ==
    /\ pc[c] = "route"
    /\ at[c] > Len(config)
    /\ Returns(c, <<Answer("router", "error")>>)
    /\ UNCHANGED <<config, cib, proxies, req, count, proxy>>
-----------------------------------------------------------------------------
(* serveAPI.                                                               *)

\* The last cookie of that name; "" without one.
Cookie(r, name) ==
    LET i == SelectLastInSeq(r.cookies, LAMBDA k : k.name = name)
    IN  IF i = 0 THEN "" ELSE r.cookies[i].value

\* hawk_chkpwd.
CheckBasicAuth(basic) == basic \in Passwords

\* Faulty variant: the user's having a session is enough.
CheckAnySession(r) ==
    LET user == Cookie(r, "id")
    IN  \/ \E s \in Sessions : s[1] = user
        \/ CheckBasicAuth(r.basic)

\* The session of the cookies is one of the user's in attrd, or else the
\* Basic credentials are good.
CheckHawkAuthMethods(r) ==
    LET user    == Cookie(r, "id")
        session == Cookie(r, "key")
    IN  \/ user # "" /\ session # "" /\ <<user, session>> \in Sessions
        \/ CheckBasicAuth(r.basic)

\* The kind of the first pattern that matches, in the order of serveAPI.
ApiKind(c) ==
    LET kinds == <<"nodes", "resources", "cluster", "constraints">>
        k == SelectInSeq(kinds, LAMBDA x : MatchesKind(Route(c), Path(c), x))
    IN  IF k = 0 THEN "none" ELSE kinds[k]

HandleApi(kind, path) ==
    CASE kind = "nodes"       -> HandleApiNodes(cib, path)
      [] kind = "resources"   -> HandleApiResources(cib, path)
      [] kind = "constraints" -> HandleApiConstraints(cib, path)
      [] kind = "cluster"     -> HandleApiCluster(cib)

\* What the handler of this kind does ends serveAPI, and with "return false"
\* the loop of ServeHTTP goes on to the next route.
ServeKind(c, kind) ==
    LET h == HandleApi(kind, Path(c))
    IN  \/ /\ h.did = "found"
           /\ Returns(c, <<ApiAnswer(kind, MarshalJSON(cib, kind, h))>>)
        \/ /\ h.did = "missing"
           /\ FallsThrough(c, <<Answer("api", "error")>>)
        \/ /\ h.did = "unparsed"
           /\ FallsThrough(c, <<>>)
        \/ /\ h.did = "panic"
           /\ Panicked(c)

\* Faulty variant: a request that is not authorized is left to other routes.
UnauthorizedFallsThrough(c) == FallsThrough(c, <<Answer("api", "unauthorized")>>)

\* "Unauthorized request.", status 401.
Unauthorized(c) == Returns(c, <<Answer("api", "unauthorized")>>)

ServeAPI(c) ==
    /\ Trying(c, "api/v1")
    /\ IF ~CheckHawkAuthMethods(req[c])
       THEN Unauthorized(c)
       ELSE IF req[c].method = "GET" /\ ApiKind(c) # "none"
       THEN ServeKind(c, ApiKind(c))
       ELSE IF /\ req[c].method = "GET"
               /\ HasPrefix(Path(c),
                            Route(c).path \o <<"configuration", "cib.xml">>)
       THEN Returns(c, <<Answer("api", "cib")>>)
       ELSE Returns(c, <<Answer("api", "error")>>)
    /\ UNCHANGED <<config, cib, proxies, req, count, proxy>>
-----------------------------------------------------------------------------
(* The other handlers.                                                     *)

\* The path is the route's, or the route's with .json after it.
IsMonitor(path, route) ==
    \/ path = route
    \/ /\ path # <<>> /\ route # <<>>
       /\ Front(path) = Front(route)
       /\ <<Last(path), Last(route)>> \in Json

\* Unlike the API, it does not ignore a slash at the end of the URL.
ServeMonitor(c) ==
    /\ Trying(c, "monitor")
    /\ IF IsMonitor(Path(c), Route(c).path) /\ ~req[c].slash
       THEN Returns(c, <<Answer("monitor", "epoch")>>)
       ELSE FallsThrough(c, <<>>)
    /\ UNCHANGED <<config, cib, proxies, req, count, proxy>>

\* Faulty variant: a directory counts as served.
ServeFileTakesDirectories(c) ==
    /\ Trying(c, "file")
    /\ Route(c).target # NoTarget
    /\ \/ Returns(c, <<Answer("file", "content")>>)
       \/ Returns(c, <<>>)
       \/ FallsThrough(c, <<>>)
       \/ Panicked(c)
    /\ UNCHANGED <<config, cib, proxies, req, count, proxy>>

\* os.Stat finds a file (served, or 304 for a client that has it), a
\* directory or nothing; another error leaves info nil, and info.IsDir()
\* panics.
ServeFile(c) ==
    /\ Trying(c, "file")
    /\ Route(c).target # NoTarget
    /\ \/ Returns(c, <<Answer("file", "content")>>)
       \/ FallsThrough(c, <<>>)
       \/ Panicked(c)
    /\ UNCHANGED <<config, cib, proxies, req, count, proxy>>

\* proxyForRoute, up to the first Unlock.
LookupProxy(c) ==
    /\ Trying(c, "proxy")
    /\ Route(c).target # NoTarget
    /\ \/ /\ Key(c) \in DOMAIN proxies
          /\ proxy' = [proxy EXCEPT ![c] = proxies[Key(c)]]
          /\ pc' = [pc EXCEPT ![c] = "forward"]
       \/ /\ Key(c) \notin DOMAIN proxies
          /\ pc' = [pc EXCEPT ![c] = "makeProxy"]
          /\ UNCHANGED proxy
    /\ UNCHANGED <<config, cib, proxies, req, at, count, resp>>

\* Faulty variant: the error of url.Parse is not looked at.
StoreProxyUnchecked(c) ==
    /\ pc[c] = "makeProxy"
    /\ proxies' = [k \in DOMAIN proxies \union {Key(c)} |->
                      IF k = Key(c) THEN Route(c).target ELSE proxies[k]]
    /\ proxy' = [proxy EXCEPT ![c] = Route(c).target]
    /\ pc' = [pc EXCEPT ![c] = "forward"]
    /\ UNCHANGED <<config, cib, req, at, count, resp>>

\* url.Parse and NewSingleHostReverseProxy; then the second critical section.
StoreProxy(c) ==
    /\ pc[c] = "makeProxy"
    /\ Route(c).target \notin BadTargets
    /\ proxies' = [k \in DOMAIN proxies \union {Key(c)} |->
                      IF k = Key(c) THEN Route(c).target ELSE proxies[k]]
    /\ proxy' = [proxy EXCEPT ![c] = Route(c).target]
    /\ pc' = [pc EXCEPT ![c] = "forward"]
    /\ UNCHANGED <<config, cib, req, at, count, resp>>

\* "Bad web server configuration."
BadTarget(c) ==
    /\ pc[c] = "makeProxy"
    /\ Route(c).target \in BadTargets
    /\ Returns(c, <<Answer("proxy", "error")>>)
    /\ UNCHANGED <<config, cib, proxies, req, count, proxy>>

Forward(c) ==
    /\ pc[c] = "forward"
    /\ Returns(c, <<Answer("proxy", proxy[c])>>)
    /\ UNCHANGED <<config, cib, proxies, req, count, proxy>>
-----------------------------------------------------------------------------
ServeHTTP(c) ==
    \/ SkipRoute(c) \/ ServeAPI(c) \/ ServeMonitor(c) \/ ServeFile(c)
    \/ LookupProxy(c) \/ StoreProxy(c) \/ BadTarget(c) \/ Forward(c)
    \/ Unmatched(c)

\* Nothing is asked any more.
Quiet ==
    /\ \A c \in Clients : pc[c] \in {"done", "panicked"}
                          /\ count[c] = MaxRequests
    /\ UNCHANGED vars

Next ==
    \/ NewCib
    \/ \E c \in Clients : Arrive(c) \/ ServeHTTP(c)
    \/ Quiet

Spec == Init /\ [][Next]_vars
-----------------------------------------------------------------------------
Targets == {r.target : r \in UNION {ToSet(t) : t \in Configs}}

TypeOK ==
    /\ config \in Configs
    /\ cib \in Cibs \union {NoCib}
    /\ \A k \in DOMAIN proxies : proxies[k] \in Targets \ BadTargets
    /\ pc \in [Clients -> {"idle", "route", "makeProxy", "forward", "done",
                           "panicked"}]
    /\ req \in [Clients -> Requests]
    /\ at \in [Clients -> 1 .. Len(config) + 1]
    /\ count \in [Clients -> 0 .. MaxRequests]
    /\ proxy \in [Clients -> Targets \union {NoTarget}]
    /\ \A c \in Clients : \A i \in DOMAIN resp[c] :
           resp[c][i].by \in {"api", "monitor", "file", "proxy", "router"}
    /\ \A c \in Clients : pc[c] \in {"makeProxy", "forward"} =>
           Route(c).handler = "proxy" /\ Route(c).target # NoTarget

\* The request carries a password, or the two cookies of one session.
HasCredentials(r) ==
    \/ r.basic \in Passwords
    \/ \E i, j \in DOMAIN r.cookies :
          /\ r.cookies[i].name = "id" /\ r.cookies[j].name = "key"
          /\ <<r.cookies[i].value, r.cookies[j].value>> \in Sessions

(* A request without valid credentials that an api/v1 route is the first   *)
(* to match gets one answer, the 401, and reaches no later handler: neither *)
(* the CIB nor the application behind a proxy route.                       *)
UnauthorizedStopsAtApi ==
    \A c \in Clients :
        LET first == SelectInSeq(config, LAMBDA r : HasPrefix(Path(c), r.path))
        IN  /\ pc[c] # "idle"
            /\ first # 0
            /\ config[first].handler = "api/v1"
            /\ ~HasCredentials(req[c])
            => /\ at[c] <= first
               /\ resp[c] \in {<<>>, <<Answer("api", "unauthorized")>>}

(* A proxied request goes to the target of the route it is at, whatever    *)
(* proxies other requests are storing: the map, whose key is the address of *)
(* a variable that changes, never answers with another route's proxy.      *)
RightProxy ==
    \A c \in Clients :
        /\ pc[c] = "forward" => proxy[c] = Route(c).target
        /\ \A i \in DOMAIN resp[c] :
              (resp[c][i].by = "proxy" /\ resp[c][i].what # "error") =>
                  /\ HasPrefix(Path(c), Route(c).path)
                  /\ resp[c][i].what = Route(c).target

\* The URL of the list of a kind under c's route.
ListPath(c, kind) == Route(c).path \o <<"configuration", kind>>

(* An API request is answered from the CIB with what its URL asks for: with *)
(* all the elements of the kind at the URL of the list, with one that has  *)
(* the name at the URL of an element.  The handlers look at the fourth     *)
(* segment of the whole path: under a longer route, such as the default    *)
(* /api/v1, that is a word of the route or of the list's URL, and the one  *)
(* danger is an element that is called by this word.  The root route is    *)
(* excepted: a list there panics, and an element gets the whole list.      *)
ApiAnswersAsked ==
    [][\A c \in Clients :
          \A i \in DOMAIN resp'[c] \ DOMAIN resp[c] :
              LET kind == resp'[c][i].what
                  ids  == resp'[c][i].ids
                  list == ListPath(c, kind)
              IN  /\ resp'[c][i].by = "api" /\ kind \in Listed
                  /\ Route(c).path # <<>>
                  /\ \A j \in 4 .. Len(list) : Called(cib, kind, list[j]) = {}
                  => /\ Path(c) = list => ids = AllOf(cib, kind)
                     /\ Front(Path(c)) = list =>
                           ids # {} /\ ids \subseteq Called(cib, kind, Last(Path(c)))]_vars

(* What the comments of the handlers say of the URLs under /api/v1: a GET  *)
(* request with credentials gets the list at the list's URL, and at the URL *)
(* of an element that is in the CIB it gets the element.                   *)
ApiFindsAsked ==
    [][\A c \in Clients :
          LET kind == ApiKind(c)
              list == ListPath(c, kind)
          IN  /\ ServeAPI(c) /\ CheckHawkAuthMethods(req[c])
              /\ req[c].method = "GET" /\ kind \in Listed /\ cib # NoCib
              /\ \/ Path(c) = list
                 \/ Front(Path(c)) = list /\ Called(cib, kind, Last(Path(c))) # {}
              => pc'[c] = "done" /\ Last(resp'[c]).what = kind]_vars

(* A request that ends without a panic has been answered, and by one       *)
(* handler, except that an API lookup which found nothing, and said so, is *)
(* followed by the answer of a later route.                                *)
AnsweredOnceUnlessMissing ==
    \A c \in Clients :
        pc[c] = "done" =>
            \/ Len(resp[c]) = 1
            \/ /\ Len(resp[c]) > 1
               /\ \A i \in 1 .. Len(resp[c]) - 1 :
                      resp[c][i] = Answer("api", "error")
=============================================================================
