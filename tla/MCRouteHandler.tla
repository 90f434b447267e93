--------------------------- MODULE MCRouteHandler ---------------------------
(* Instances of RouteHandler for TLC: the routing table of                 *)
(* config.json.example, and a table with a one-segment API path and two    *)
(* proxy routes beside a wrong one.  The path <<>> is "/" in the first      *)
(* table and the empty string in the second.                               *)
EXTENDS RouteHandler, TLC

R(handler, path, target) ==
    [handler |-> handler, path |-> path, target |-> target]

ExampleConfig ==
    <<R("api/v1", <<"api", "v1">>, NoTarget),
      R("monitor", <<"monitor">>, NoTarget),
      R("file", <<>>, "public"),
      R("proxy", <<>>, "app")>>

ShortConfig ==
    <<R("proxy", <<"app">>, NoTarget),
      R("api/v1", <<"api">>, NoTarget),
      R("proxy", <<"app">>, "app"),
      R("proxy", <<"api">>, "other"),
      R("proxy", <<"bad">>, "unparsable"),
      R("api/v1", <<>>, NoTarget)>>

MCConfigs == {ExampleConfig, ShortConfig}

DefaultConfigs == {ExampleConfig}

Get(path) ==
    [path |-> path, slash |-> FALSE, method |-> "GET", cookies |-> <<>>,
     basic |-> <<"root", "good">>]

\* A request without Basic credentials, with cookies.
GetWith(cookies) ==
    [Get(<<"api", "configuration", "nodes">>) EXCEPT !.basic = <<>>, !.cookies = cookies]

Id(user) == [name |-> "id", value |-> user]
SessionKey(key) == [name |-> "key", value |-> key]

MCRequests ==
    {Get(p) : p \in
        {<<"api", "v1", "configuration", "nodes">>,
         <<"api", "v1", "configuration", "nodes", "2">>,
         <<"api", "v1", "configuration", "cib.xml">>,
         <<"api", "v1", "cib">>,
         <<"api", "configuration", "nodes">>,
         <<"api", "configuration", "nodes", "2">>,
         <<"api", "configuration", "resources", "vip">>,
         <<"api", "configuration", "resources", "web-server">>,
         <<"api", "configuration", "constraints", "order1">>,
         <<"api", "configuration", "cluster">>,
         <<"configuration", "nodes">>,
         <<"monitor.json">>, <<"monitors">>, <<"app">>, <<"bad">>}}
    \union
    {[Get(<<"monitor">>) EXCEPT !.slash = TRUE],
     [GetWith(<<Id("ann"), SessionKey("stale")>>) EXCEPT !.basic = <<"root", "bad">>],
     GetWith(<<Id("bob"), SessionKey("other"), SessionKey("fresh")>>),
     [Get(<<"api", "configuration", "nodes">>) EXCEPT !.method = "PUT"]}

MCCib ==
    [nodes |-> <<[id |-> "1", uname |-> "alpha"], [id |-> "2", uname |-> "beta"]>>,
     primitive |-> <<"disk", "web-server">>, group |-> <<"grp">>,
     clone |-> <<"vip">>, master |-> <<>>, location |-> <<"loc1">>,
     colocation |-> <<>>, order |-> <<"order0", "order1">>]

MCCibs == {MCCib, [MCCib EXCEPT !.nodes = Tail(@), !.clone = <<>>,
                                !.primitive = <<"vip">>]}

MCAlnumIds == {"alpha", "beta", "1", "2", "vip", "disk", "grp", "loc1",
               "order0", "order1", "nodes", "resources", "constraints",
               "cluster"}

MCJson == {<<"monitor.json", "monitor">>}

MCBegins == MCJson \union {<<"monitors", "monitor">>}

MCSessions == {<<"ann", "fresh">>, <<"bob", "fresh">>}

MCPasswords == {<<"root", "good">>}

ClientSymmetry == Permutations(Clients)
=============================================================================
