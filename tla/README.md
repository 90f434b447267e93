# A TLA+ verification project for hawk-apiserver

hawk-apiserver is the HTTPS front end of the Hawk cluster console. It keeps a
copy of pacemaker's CIB (the cluster's configuration), answers a REST API from
it, holds long-polling "monitor" requests until the CIB changes, serves static
files and passes everything else to the Hawk application through a reverse
proxy. This directory holds TLA+ models of its parts, TLC configurations that
check them on small instances, and TLAPS proofs of the properties that matter
most for every instance.

Paths such as `main.go:114` are relative to the repository.

## 1. Inventory

| Part | State | Operations | Interaction | Hard behaviour |
| --- | --- | --- | --- | --- |
| CIB cache, `AsyncCib` in `main.go:29-120`, and the long poll, `serveMonitor` `main.go:233-276` | `xmldoc`, `version` under `lock`; the unbuffered channel `notifier` | `Start` (the goroutine `cibFetcher`, the subscription callback), `notifyNewCib`, `Wait`, `Get`, `Version` | go-pacemaker calls the callback from its `Mainloop` goroutine; each request runs in its own goroutine | two publishers and many waiters over one channel and one mutex; a connection that breaks; a 60 s timeout |
| Proxied response: `reverseproxy.go:224-382`, `609-646` and `gziphandler.go:24-158` | the status, the buffer and the gzip writer of `GzipResponseWriter`; `lk` and `done` of `maxLatencyWriter` | `ServeHTTP`, `copyResponse`, `Write`, `Flush`, `startGzip`, `Close`, `flushLoop`, `stop` | the request's goroutine writes while `flushLoop` flushes the same writer every 250 ms | what is committed when; errors half-way; stopping the loop |
| Router, `routeHandler` in `main.go:137-307` | the routing table, the map `proxies` under `proxymux` | `ServeHTTP` and one handler per route kind | reads the cache; hands over to the proxy | handlers that return false after writing; a map filled in two critical sections |
| REST lookup, `api_*.go` | none (a document per request) | `handleApiNodes`, `...Resources`, `...Constraints`, `...Cluster`, `MarshalJSON` | called by `serveAPI` | counting path segments; ids that several lists have |
| Authentication, `util.go:65-138` | none | `checkHawkAuthMethods`, `checkBasicAuth` | runs `attrd_updater` and `hawk_chkpwd` | child processes |
| Listener, `redirect.go` | the connection being peeked at | `Accept`, `HTTPRedirectHandler.ServeHTTP` | below `net/http`'s accept loop | a blocking read in the accept loop |
| Websocket tunnel, `reverseproxy.go:261-306`, `450-500` | the hijacked connections, `Replay` | `RoundTrip`, `Hijack`, the replay, the second dial, two copies, two deferred closes | joins the client's connection, taken from net/http, with the backend's | bytes read too early by net/http or by the transport; one side closing; early returns between the deferred closes |
| TLS dialling, `reverseproxy.go:535-590` | `errc`, a timer | `getTransportDialTLS` | called by the transport of the tunnel | timeout against late success; who may block on `errc` |
| Request rewriting and headers, `reverseproxy.go:86-180`, `243-255`, `332-450`; `parseEncodings`, `gziphandler.go:160-223` | the URL, both header maps, the trailers | `Director`, `copyHeader`, `shallowCopyTrailers`, `acceptsGzip` | before and after the round trip | joining two encodings of a path; order of reading and deleting `Connection`; headers that net/http has already copied |
| Configuration, `main.go:309-371`, `util.go:14-63` | `Config` | flags, file, defaults, the report of a syntax error | before the server starts | precedence; decoding over a default; offsets at line ends |
| Generated CIB structures, certificate script, static page, manual | | | | not modelled |

What makes each part correct: the cache never goes back, its document and
version agree for a client that uses both, each poll is answered and with a
version that was current during the poll; a proxied body arrives whole, in
order, with its status and a true description of its encoding; a request is
answered once, by the route it belongs to and not without credentials where
they are needed; an API answer is what the URL names; each connection is
classified rightly and served; a tunnel carries each direction whole and in
order and is taken down by its client's closing; a dial has one verdict and
leaves nothing behind; the backend is asked for the URL that the route means,
and the client gets the headers and trailers that are meant for it; the server
runs with the settings it was given.

`PROJECT.json` lists under `hazards` the places where these could fail in a way
a test would hardly reach, each with the properties that look at it.

## 2. Modules

| Module | Models | Checked by | Proofs |
| --- | --- | --- | --- |
| `EpochRegister` | abstract: what the cache promises a polling client | through `AsyncCib` | |
| `AsyncCib` | CIB cache, fetcher, callback, monitor requests | `MCAsyncCib_*.cfg` | `AsyncCibProofs` |
| `ProxyResponse` | one proxied response with `flushLoop` and gzip | `MCProxyResponse_*.cfg` | `ProxyResponseProofs` |
| `CibApi` | the REST lookup, as operators | through `RouteHandler` | `RouteHandlerProofs` |
| `RouteHandler` | routing, authorization, the proxies map; extends `CibApi` | `MCRouteHandler_*.cfg` | `RouteHandlerProofs` |
| `SplitListener` | accept loop, peek, redirect | `SplitListener_*.cfg` | `SplitListenerProofs` |
| `DialTLS` | the TLS dialer: timer, handshake goroutine, `errc` | through `WebsocketTunnel` | `WebsocketTunnelProofs` |
| `WebsocketTunnel` | a websocket request from the dial to the end of the tunnel; composes `DialTLS` with the handler | `WebsocketTunnel.cfg` | `WebsocketTunnelProofs` |
| `ProxyMessage` | URL, headers, trailers and `Accept-Encoding` of a proxied exchange | `MCProxyMessage.cfg` | `ProxyMessageProofs` |
| `ServerConfig` | defaults, file, flags; the report of a syntax error | `MCServerConfig_load.cfg` | `ServerConfigProofs` |
| `SequenceLemmas` | nothing: facts about sequences and sets of positions | | used by five of the proof modules |

The definitions called "faulty variant" in the modules are not part of any
specification. Each shows a plausible mistake in the code next to the right
definition; substituting it makes a property fail, which shows that the
property depends on that piece of code.

### AsyncCib

The goroutines `cibFetcher` and `Mainloop` have a program counter each; a
monitor request has one per client. A CIB document is represented by its
version, a positive number, and 0 is at once the empty document, the nil
version and the empty epoch. `notifyNewCib` is five steps: the two assignments
under the mutex, so that readers can be seen to wait between them, the receive
from `notifier`, the send on the client's channel, and the default case. A
receive from an unbuffered channel happens together with its send: `Take` is
`<-acib.notifier` meeting Wait's select, `Deliver` is `clientchan <-` meeting
`<-requestChan`, `WaiterHandoff` is `waiter <- 1` meeting `<-waiter`. The
default case is taken only when no request is blocked in the select, as Go
defines it.

go-pacemaker is not in the repository (`vendor/` names it only). From its use:
`OpenCib`, `Query` and `Subscribe` may fail; events come in order, from a
successful `Subscribe` until one event that is not an `UpdateEvent`, which is
the last one of that subscription; a broken connection may lose the newest
pending updates; and the cluster's version only grows.

`floor` is a history variable (the version at a poll's arrival). It is used by
the refinement: `AsyncCib` implements `EpochRegister` with `value` the cached
version and `pending` the set of clients whose request is not answered.

### ProxyResponse

The bytes of the upstream body are the numbers `1 .. up.size`, so a lost,
repeated or overtaken byte shows. `out` is the writer both goroutines share:
the header map, the fields of `GzipResponseWriter`, and the response of
`net/http`, whose first `WriteHeader`, `Write` or `Flush` commits status and
headers. The methods of `GzipResponseWriter` are operators on `out`; the
steps of the two goroutines are actions that apply them. `gzip.Writer` keeps
bytes until it is flushed or closed, or emits them earlier (`GzMayEmit`).
A compressed body in a response that already announced a `Content-Length` may
be cut by `net/http`: it is the nondeterministic failure `MayOverrun`.
`failed` records that a read or a write failed.

### CibApi and RouteHandler

A URL path is the sequence of its segments; the pairs in `Begins` say which
segments begin with which others, where `strings.HasPrefix` cuts inside a
segment, and those in `Json` are the pairs where the rest is `.json`, which
`serveMonitor` accepts. The field `slash` of a request is a slash at the end of
its URL: only `serveMonitor` looks at it, as the others trim it or pass the URL
on. A route's path `""`, the root, has no segments. A CIB is a record of id sequences, one
per list. A handler's outcome is one of four: it answered; it wrote an error and
returned false; it wrote nothing and returned false (no CIB yet, which
`xml.Unmarshal` refuses); it panicked on `urllist[3]`.

`resp[c]` is the sequence of what handlers wrote to one response, since a
handler that returns false after writing lets the router go on. The key of
`proxies` is the address of the loop variable, which is new in each call of
`ServeHTTP` (and the same for all routes of that call): the pair of connection
and request number. `ServeFile` chooses among the outcomes of `os.Stat`.

A request carries cookies and Basic credentials. `CheckHawkAuthMethods` takes
the last cookie of each name, asks for the pair of user and session in attrd,
and falls back to `CheckBasicAuth`. What the child processes `attrd_updater`
and `hawk_chkpwd` answer is given by the constants `Sessions` and `Passwords`.

### SplitListener

`accepting` is the connection that `Accept` is peeking at. A client speaks TLS,
SSL 2 or HTTP, and its first six bytes come at some time, or the stream ends
first, or neither. The TLS handshake is one step: once bytes came, it ends.
The listening socket may break at any time (`broken`), by an error after which
net/http does not call `Accept` again: `AcceptFails` returns it, the server's
loop returns, and the process is over (`ended`).

### DialTLS and WebsocketTunnel

`DialTLS` has the three goroutines of one dial: the dialing one, the handshake
and the timer's function; `errc` is a bounded sequence, and a report that does
not fit blocks. `HandshakeEnds` is the backend's part and may never happen; a
closed connection makes the handshake fail. `plain` is the state of the
connection to the backend.

In `WebsocketTunnel` the bytes of each peer are numbered, and the first
`HeadSize` of the backend's are the head of its answer. `ReadHead` is
`hijackedConn.Read`, which appends to `Replay` whatever it returns, bytes after
the head included. `Answered` either upgrades or ends here, as the rest is
`ProxyResponse`. `asked` is false for a request that was no websocket request
but is answered with an upgrade: then the handler dials again. A write to a
peer that has closed may still succeed, as the kernel accepts it, or fail.
The two `defer`s are steps of their own, so that the other copy runs between
them. net/http's transport, its hijacking and the peers are external.

### ProxyMessage

One exchange from `NewGzipHandler` to the end of the response, one step per
stage. A path is a sequence of `/`, `%2F` and words, so that the path and its
encoded form differ where the code treats them differently. A query is a
sequence of parameters, empty ones included, with an `&` between any two. A header map gives
each name the sequence of its lines; `Listed` says which names a line of
`Connection` lists. `head` is the copy of the headers that net/http takes at
the first `WriteHeader`: what is set later is not sent. The body is here as far
as writing it changes headers: each `GzipWrite` detects a missing content type
and may be the one that reaches `minSize`, where `StartGzip` sets
`Content-Encoding`, deletes `Content-Length` and writes the header; `FlushBody`
may copy the headers before that; `Close` writes them if nothing did. How many
bytes there are, and that a flush before compression leaves the wrong encoding
in the copy, is in `ProxyResponse`. When net/http sends a
response in chunks, and which trailers it then sends, is external. The
exchanges of the run vary the URL, `Accept-Encoding`, or headers and trailers,
one at a time, since the stages do not share state across these.

### ServerConfig

A setting stands for `listen`, `port`, `key`, `cert` and `loglevel` alike, which
the code treats the same way except that `loglevel` is parsed at the end;
`Default` stands for the default of each. `json.Unmarshal` refills
the slice `Route` in place, so that the first route of the file is decoded over
the default route. A text with a syntax error is a sequence of newlines and
other bytes, and `ContextAtOffset` is `contextAtOffset` on it.

## 3. Runs

Passing runs:

| Run | Bounds | What it shows |
| --- | --- | --- |
| `cib_safety` | 2 clients, versions up to 3, 2 polls each | `TypeOK`; the publishers exclude each other (`NotifyExclusion`) although no mutex makes them; a fetched document covers the epoch announced (`FetchedCoversAnswer`); a request that gave up its timeout has exactly one publisher serving it (`TakenIsServed`); the cache never goes back (`CacheNeverGoesBack`); `EpochRegister` is implemented (`RegisterSafety`) |
| `cib_liveness` | 2 clients, versions up to 3, 1 poll each | every poll is answered; a delivered update is published; a lost connection is queried again |
| `proxy_copy` | `MinSize` 2, bodies of 0 to 4 bytes, codes 200 and 404 | the writer is in one goroutine's hands (`WriterUsedByOne`); bytes are conserved in order (`BytesConserved`); a response without error is whole and compressed at most once (`EndsWhole`); a client without gzip gets status, encoding and length unchanged (`PlainClientUnmodified`); a flush leaves at most a short beginning behind (`FlushLeavesOnlyBuffer`); a writer always gets the mutex, `stop` always meets `flushLoop`, and the request ends (`CopyEnds`) |
| `route_safety` | 2 connections, 2 requests each, 2 routing tables, 2 CIBs | a request without credentials gets the 401 and nothing else (`UnauthorizedStopsAtApi`), where having credentials is defined apart from the code's way of checking; a proxied request goes to its own route's target (`RightProxy`); under any route but the root an API answer has all the elements of the list, or an element of the name, that the URL asks for (`ApiAnswersAsked`), unless the document has an element called by a segment of the list's URL; each request is answered, and by one handler unless a lookup failed (`AnsweredOnceUnlessMissing`) |
| `listener_serve` | 3 connections | only TLS reaches the handlers; if each client says something or hangs up, all are served, or the listening socket has broken (`TalkersServed`) |
| `websocket` | `HeadSize` 2, 4 bytes of the backend, 2 of the client | the dial's verdict is the handshake's and a failed dial leaves no connection (`DialVerdict`); both directions are whole and in order (`ClientStream`, `BackendStream`); a dial ends (`DialEnds`), neither reporter stays blocked on `errc` (`ReportersEnd`), and a client that closes takes both connections and the other copy down (`TunnelCloses`) |
| `message` | paths of up to 2 tokens after the slash, 2 codings or 2 parameters of one, 2 lines of `Connection`, 2 trailers | gzip is used for those who accept it (`GzipAsAccepted`); the URL asked of the backend (`BackendAskedFor`); which headers stop and which pass (`HopHeadersStop`, `EndToEndHeadersKept`), the encoding and the length of the body changing together or not at all; trailers arrive (`TrailersArrive`) |
| `config_load` | 3 settings with 3 values, 2 routes, texts of up to 5 bytes | what setting a serving process runs with (`Precedence`), and the place and line of a syntax error (`ReportShowsError`) |

Runs that violate what a comment or document says (the details and the quoted
lines are in `findings`):

| Run | What the counterexample shows |
| --- | --- |
| `waiters` | a version published between `Version()` and the select in `Wait` is not told to the request |
| `quiet` | a change between `Query` and `Subscribe` is not cached until the next change |
| `status` | a flush before the saved status is written commits 200 |
| `api_default` | under `/api/v1`, the default route, the list of nodes is looked up as a node called `nodes` and gets an error |

Smaller disagreements and surprises are visible in the models and have no run
of their own:

- A client that polls again while `notifyNewCib` still drains is received by the
  same call and answered at once with the epoch it sent, where the comment at
  `main.go:266-271` has it wait.
- A periodic flush does not write the buffer of `GzipResponseWriter`
  (`FlushLeavesOnlyBuffer` says how much may stay), where `reverseproxy.go:67`
  has it flushed to the client. If it commits the headers before compression
  starts, they lack the `Content-Encoding` of the body that follows
  (`gziphandler.go:65`).
- A failed read of the upstream's body ends as a complete, shorter response
  (`reverseproxy.go:46`, `59`).
- The path of the curl example, `/api/v1/cib` (`README.md:97`), matches no pattern
  of `serveAPI`. The handlers take the fourth segment of the whole path for the
  id, which is right under a route of one segment. Under `/api/v1` it is the word
  `nodes` for the list and for each node (`api_nodes.go:26-33`): both get an
  error (run `api_default`), or, in a cluster with a node of that name, both get
  this node. Under the root route a list panics and an element gets the whole
  list.
- A lookup that finds nothing writes its error and returns false, and a later
  route writes its answer into the same response (`api_nodes.go:42`).
- A connection that says nothing keeps all later ones waiting in `Accept`
  (`redirect.go:36`).
- Only the first line of `Connection` is read (`reverseproxy.go:243-245`); the
  comment at `reverseproxy.go:435` has the hop-by-hop headers removed towards the
  backend, and the code removes them from the response. `Vary` from the backend
  replaces the gzip handler's. Trailers that were not announced are lost when
  the response was committed and is short. `gzip;q=0;x` counts as accepted.
- A flag that is given its default value, such as `-port 17630`, does not override
  another value in the file (`main.go:343-357`), where `README.md:46-48` has the
  command line take precedence; `Precedence` states the rule the code follows.
- The first route of a file inherits fields of the default route; the line
  number of a syntax error counts from 0; an empty file, or a newline as the
  offending byte, makes the report panic (`util.go:31`).
- The connection of a websocket request that is not upgraded is never closed,
  as `hijackedConn.Close` does nothing. A tunnel whose backend closed goes on
  until its client writes or closes, and the backend's last bytes may be lost
  if the client writes in between. The second dial for an upgrade nobody asked
  for is plain TCP, also when the target is `https`.

Why the bounds are enough for the interesting cases: three versions allow a
query, an update while a request waits, and one more across a lost connection;
two polls let a client poll again while the same publication drains, and two
clients let one wait while the other is served. With `MinSize` 2 and four
bytes, compression starts at the first, second or third write, exactly at the
limit or past it, and further writes follow. Two requests per connection let a
proxies entry of an earlier request be met by a later one. Three connections
let a client wait behind a served and a peeked-at one. With a head of two bytes
and four in all, the transport reads less than the head, the head, and bytes
past it, and the copies still have something to carry; two bytes of the client
let one be read ahead by net/http and one not. Paths of two tokens put every
pair of plain and encoded slashes on either side of the joint. Two routes are
the first, which is special, and another; in five bytes an error can be in the
first, a middle or the last line, and at, before or after a newline. The clients of
`AsyncCib` and `RouteHandler` are interchangeable and are a symmetry set
where only safety is checked, never in a liveness run.

Deadlock is checked in every run. `Done` and `Quiet` are the stuttering steps
of models in which all requests are over.

### Fairness

- `AsyncCib`: weak fairness of each goroutine and of the timer of `Wait`.
  `ReadVersion` is strongly fair, since a `sync.Mutex` hands itself to a waiter
  that starves. Nothing is assumed of the cluster, the connection or the
  clients; the number of polls is bounded, so the drain loop cannot be kept busy
  for ever by new ones, which the code itself does not exclude.
- `ProxyResponse`: weak fairness of both goroutines. `Stop` is strongly fair
  because a select with two ready cases chooses at random, `WriteLock` because
  of the mutex. The ticker and the client are free. That the upstream's body
  ends or fails is weak fairness of `Read` together with the bounded body.
- `SplitListener`: weak fairness of the accept loop and of each connection's
  goroutine. Clients may be silent for ever, and the listening socket may break
  or not; `TalkersServed` states its own assumptions.
- `WebsocketTunnel`: weak fairness of the steps the handler takes by itself, of
  the copy from the backend, of the three goroutines of the dial, and of the
  timer once armed. Nothing is assumed of the peers: the handshake
  (`HandshakeEnds`) and the answer (`Answered`) may never come.

## 4. Proofs

Every invariant, action property and refinement of the passing runs is also a
theorem, for every value of the constants. Assumptions on these, which TLC
evaluates on each run:

- bounds and sizes are natural numbers (`BoundsAssumption`, `SizesAssumption`,
  `SizeAssumption`, `RequestsAssumption`), status codes are positive numbers
  (`CodesAssumption`), `"nobody"` is not a client (`NobodyAssumption`);
- `ServerConfig`: the marker `Unset` is neither a value nor a list of routes
  (`SettingsAssumption`);
- `RouteHandler`: `NoCib` is no document and the lists of a document are
  sequences (`CibsAssumption`); routing tables and paths are sequences
  (`TablesAssumption`); a segment with `.json` after it begins with the segment
  (`JsonAssumption`); there is a request, and the paths and cookies of requests
  are sequences (`MessagesAssumption`);
- `ProxyMessage`: the headers that the code names are headers
  (`NamesAssumption`); header values are sequences, a `Connection` line is one
  whose list is known, a response has finitely many trailers, one with a
  `Content-Length` has none (net/http reads trailers only after chunks), and no
  handler before the proxy sets a hop-by-hop header, an encoding or a length
  (`MessagesAssumption`); as `net/url`
  parses them, the encoded form of a path, if any, decodes to it, a query's
  parameters are separated, and a request's path begins with a slash
  (`URLsAssumption`).

The sets of clients, settings, values, routes, documents and exchanges are
arbitrary, also infinite, and sequences have any length.

`AsyncCibProofs`:

- `TypeCorrect`, `TakenServed`, `PublishersExclude`, `FetchCovers`: the
  invariants of `cib_safety` hold of `Spec`.
- `CacheMonotone`: the action property `CacheNeverGoesBack`.
- `ImplementsRegister`: `Spec` implies `Register!Spec`. Each step of `AsyncCib`
  is a `Publish` (`StoreVersion`, when the version is new), an `Ask` (`Poll`), an
  `Answer` (`ReadVersion`, `Timeout`, `Deliver`) or a stutter.

None of these is inductive alone. `NotifyExclusion` holds because a live
subscription, a pending event or a busy Mainloop implies that the fetcher waits
on `waiter`. The inductive invariant `Inv` says this and that a `Lost` event is
the last of `events` and excludes a live subscription (`SubscriptionInv`); who
holds the mutex (`LockInv`); that the argument of a running `notifyNewCib` is at
least the cached version and equals it from `StoreVersion` on, and that `xmldoc`
and `version` differ only while the mutex is held (`OrderInv`); that pending
updates never decrease and lie between what is cached and the cluster's version
(`EventInv`); and, for the refinement, that a waiting request's `defval` lies
between its `floor` and the cached version (`ClientInv`).

`ProxyResponseProofs`, theorems `TypeCorrect`, `WriterExclusive`, `NoByteLost`
(`BytesConserved`), `WholeAtTheEnd` (`EndsWhole`), `PlainHeadKept`
(`PlainClientUnmodified`) and `FlushReaches` (`FlushLeavesOnlyBuffer`). A lemma
per method of the writer says what it does to the stream of bytes: `WriteAdds`
that a write adds its chunk at the end, whether it is buffered, starts the
compression or follows it; `FlushKeeps` that a flush moves bytes without
reordering them; `CloseMoves` that the close empties the window. Three
invariants are preserved with them. `WriterInv` ties the holder of `lk` to the
program counters and `flushLoop`'s life to the copying steps of the request,
which is what keeps a flush out of a write. `OutInv` says what the shared writer
looks like at each place: without compression it keeps all it has got, less than
`MinSize` of a body without an encoding; only such a body is compressed; and a
plain client's head is committed from `CopyHeader` on. `StreamInv` says where
the bytes that were read are, the chunk in the request's hands included, and
that a copy which stops without an error has read all.

`SplitListenerProofs`, theorems `TypeCorrect` and `ListenerSplits`: together they
are inductive, and `SplitRight` needs the type invariant for what `tls` and
`plain` connections may be.

`WebsocketTunnelProofs`:

- `DialDecided`: `DialVerdict` relates the result of the dial to the handshake,
  and is not inductive since it says nothing of a dial that still runs. `Inv`
  adds where the dialing goroutine is when the others run and the connection is
  open (`DialerInv`), that an `ok` in `errc` is the report of a handshake that
  succeeded (`ReportInv`), and that the tunnel is only entered with a dialed
  connection, which it alone closes (`TunnelInv`).
- `TypeCorrect`, `BackendGetsAll` (`BackendStream`) and `ClientGetsAll`
  (`ClientStream`): both streams are stated for a tunnel that stands, so the
  invariants say where the bytes are before: the client's still with net/http
  (`ToBackendInv`), the backend's in `Replay` or unread, none with the client
  (`ToClientInv`). `CopyInv` says which copies and connections there are at
  each place of the handler. That the copy from the backend ends only at the
  backend's end, while client and connection are open, is what makes the last
  part of `ClientStream` true.

`RouteHandlerProofs`: `Inv` is the types, `KeyInv` on the map of proxies, and
`RoutingInv`, `AnswerInv` and `DeniedInv` for each connection. `TypeCorrect`
follows from it.

- `ProxiesRight` (`RightProxy`) rests on `KeyInv`: the keys in the map are those of
  this and of earlier calls of `ServeHTTP`, and of this one only when it has
  stored its proxy. So although all routes of a request share a key, the entry
  of another route is never met. `RoutingInv` says that between the two critical
  sections, and until the proxy is called, the loop stays at its route.
- `UnauthorizedStops` (`UnauthorizedStopsAtApi`): `DeniedInv` says that a request to
  be refused has not got past the API route and has no answer but the refusal;
  `AuthSound` shows that whoever
  `CheckHawkAuthMethods` lets in has credentials in the sense of the property,
  whatever cookies of the same name a request repeats.
- `AnsweredOnce` (`AnsweredOnceUnlessMissing`): `AnswerInv` says that a request
  which is not over has only errors of API lookups in its response.
- `ApiAnswersRight` (`ApiAnswersAsked`): the action property, for every route but
  the root. `Segments` says what a handler makes of a URL: under a route of one
  segment it sees the list as such and the name where it is, under a longer one
  it looks at a word of the list's own URL (`Fourth`). `ElementFound` and
  `ListFound` say that what a handler finds is called so, and that the list is
  complete; so under a longer route, where no element is called by that word
  (`NoneCalled`), nothing is answered at all. That the right answer is also given
  is false there, as the run `api_default` shows.

`ProxyMessageProofs`:

- `HopHeadersRemoved` (`HopHeadersStop`) and `EndToEndCopied`
  (`EndToEndHeadersKept`) speak of the copy that net/http takes, which may be
  taken at any flush or write of the body. `HeaderInv` gives the header map at each
  place as a function of the exchange and, while the body is written, as one of
  the maps that writing can make of it (`Written`: as it was, with the type
  detected, with compression started); every copy is one of these. `WriteAgain`
  says that further writes stay among them, `WrittenHeaders` which headers they
  change.
- `TrailersDelivered` (`TrailersArrive`): `TrailerInv` follows whether the response
  is chunked and which trailers net/http knew of; that the announcement lists all
  of a finite set is the lemma `ListsAll`.
- `GzipOnlyIfAccepted` (`GzipAsAccepted`): `WellParsed` says what `parseCoding`
  makes of a well-formed coding and `GzipNegotiated` that the last mention counts.
- `BackendAsked` (`BackendAskedFor`): lemmas on decoding (`DecodeConcat`,
  `DecodeTail`), on joining paths at a slash (`JoinedPaths`, `JoinDecodes`: the
  two encodings still agree after each was joined by itself), on the path of a
  target and of a socket (`RewrittenPath`, `SocketPath`) and on queries
  (`QueryJoined`).

`ServerConfigProofs`, theorems `SettingsPrecedence` (`Precedence`) and
`ErrorShown` (`ReportShowsError`): the first property speaks of the serving
process, so `ConfigInv` says what the settings are at every point on the way
there. The lemma `Context` is about `contextAtOffset` on any
text: its line holds the offset and no newline, and the column is negative only
at a newline or at offset 0; `ReportInv` says that each report comes from it.

Only model-checked: the liveness properties `EveryPollAnswered`,
`UpdateReachesCache`, `LostLeadsToQuery`, `CopyEnds`, `TalkersServed`, `DialEnds`,
`ReportersEnd` and `TunnelCloses`, since fairness and `ENABLED` are out of the
prover's reach. The properties of the four runs that expect a violation are
false.

## 5. Not modelled

- The processes started for authentication, beyond their answers; the generated
  `api_structs.go`; the `tls_clone_*.go` files, which copy a struct; `stripPort`;
  `UseInsecureTransport`, which nothing calls; scripts and static files.
- Resource templates and bundles, and ticket constraints: they are only in the
  complete lists and cannot be asked for by id.
- Loading the certificate and opening the listening socket.
- Responses without a body (204, 304) through the proxy.
- The characters of headers: how `Accept-Encoding` and `Connection` are cut at
  commas and semicolons.

## 6. Plan

Done: 1. the cache with its abstract register and proofs; 2. the proxied
response; 3. the router with the REST lookup and authentication; 4. the
listener; 5. the websocket tunnel with the TLS dial; 6. the configuration;
7. URLs, headers, trailers and `Accept-Encoding`; 8. the proofs of all
safety properties.

Next:

9. A composition of `AsyncCib` with the API route: what a client that polls and
   then asks the API sees, with its proof.
