# A TLA+ model of template-go-http-server

The repository is a Go HTTP service: two listeners (application and
administrative) behind hand-nested middleware, graceful shutdown sequenced with
readiness, configuration from the environment, JSON helpers, telemetry, an
outbound HTTP client and an embedded frontend. This
directory holds TLA+ modules that model its core logic, TLC configurations that
check them on small instances, and TLAPS proofs that state, for every instance, the
safety properties of every component. `PROJECT.json` maps each definition to the source lines it
models, lists every run with its properties, every mutant that shows a property
can fail, the hazards the properties are for, the findings and the theorems.

## 1. Inventory

| component | state it keeps | operations | what is hard |
|---|---|---|---|
| process lifecycle (`cmd/service/main.go`, `internal/server/server.go`, `internal/signals`) | where `start`/`run` is and its deferred calls, the signal context, the channel `forced`, the drain sequencer, per server the `Run`/`Serve` goroutine, `http.Server`'s accept loop, listener and connections | start-up steps, `RunAll`, `drain`, `Run`, `Serve`, `shutDown`, `ForceExitOnSecond` | seven kinds of goroutine interleave with signals, failures of any step, and three independent timeouts |
| middleware chains (`handler.go`, `limits.go`, `recovery.go`, `responsewriter.go`, `requestid.go`, `headers.go`, `admin.go`) | the limiter's slots, the status recorder, the request's context, span and log entries | one layer per middleware, in and out | panics, aborts, informational responses and partial responses cross layers that each keep a part of the truth |
| readiness (`readiness.go`) | registry of checks, draining flag | `AddCheck`, `SetDraining`, the `/readyz` handler, `failing`, `runCheck` | probes, registrations and shutdown are concurrent; checks hang and panic |
| trusted proxies and request identifiers (`proxy.go`, `requestid.go`) | the parsed networks | `NewTrustedProxies`, `ClientIP`, `TrustsPeer`, `requestID` | header contents are chosen by whoever sent the request |
| JSON bodies (`json.go`) | decoder and limited reader | `DecodeJSON`, `decodePointer`, `WriteJSON` | the limit, a broken connection or the end of the body arrive anywhere between two reads |
| error responses (`json.go`, `errors.go`) | none | `WriteError`, `appendClientErrors`, `documentStatus` | trees of wrapped and joined errors |
| configuration (`internal/config`, `internal/configtype`) | the configuration being assembled | `Load`, `Decode`, `validateFields`, `Config.Validate`, `ByteSize`, the constructors fed from it | settings legal on their own and wrong together, wrapping multiplication, several mistakes at once |
| telemetry (`internal/telemetry`) | two pipelines, the propagator | set-up, shutdown, `TracesEndpoint` | set up one after the other, shut down by deferred calls; a trace must survive a process that records nothing |
| outbound client (`internal/httpclient`) | a transport's pool of connections | `New`, `validate`, calls, `CloseIdleConnections` | peers hang, dials outlive their calls, bodies are forgotten, instrumentation hides methods |
| frontend assets (`internal/web`) | entity tags by path | `etags`, `assetKey`, `withAssetHeaders` | browsers keep responses across deployments of other builds |
| logging, secrets, build information | fixed after construction | | |

Interactions: `run` builds everything and calls `RunAll`; the sequencer in
`RunAll` marks `Readiness` draining and cancels the servers; the chains call the
limiter, the recorder, `writeJSONError` and handlers, which call `DecodeJSON`
and `WriteError`; `withRequestLogging` and `withRequestID` ask `TrustedProxies`;
`Load` runs before all of them.

## 2. Modules

| module | models | kind |
|---|---|---|
| `Lifecycle` | the process from `main` to its exit | component, composes main, sequencer, servers, `http.Server`, signals |
| `GracefulStop` | what the process promises to its orchestrator | abstract specification |
| `LifecycleProofs` | proofs about `Lifecycle`, and that it implements `GracefulStop` | theorems |
| `RequestChain` | concurrent requests through both chains | component |
| `Readiness` | registry and probes | component |
| `ProxyTrust` | a request's way through proxies, its attribution and its identifier | component with its environment |
| `JsonBody` | `DecodeJSON` over a limited, piecewise body | component |
| `ErrorDocument` | error tree to response | pure algorithm with its reference |
| `JsonApi` | a JSON endpoint, from body to response | composes `JsonBody` and `ErrorDocument` |
| `TraceContext` | which trace a request and a call made for it belong to | operators |
| `Outbound` | a client, its pool and its calls | component, uses `TraceContext` |
| `WebAssets` | the frontend's handler, a file server and a browser's cache | component with its environment |
| `ByteSize` | parsing and rendering of byte counts | operators |
| `ConfigLoad` | environment to configuration or refusal | component, uses `ByteSize` |
| `RequestChainProofs`, `ReadinessProofs`, `ProxyTrustProofs`, `OutboundProofs`, `WebAssetsProofs`, `ConfigLoadProofs` | proofs about the module each is named after | theorems |
| `JsonApiProofs` | proofs about `JsonBody`, `ErrorDocument` and `JsonApi` | theorems |
| `MC*` | instances for TLC: model values, sets, symmetry | |

Definitions headed "Faulty variant" are plausible mistakes in the code they stand
next to. The modules never use them; `PROJECT.json` names, for every property,
the variant that breaks it.

### Lifecycle

`main` walks the statements of `start` and `run`: registration of the two signal
listeners, `Load`, the logger (after which the forced-exit goroutine exists),
wiring, tracing, metrics, build info, `RunAll`. `StartupFail` is any of their
error returns, and unwinds through exactly the deferred calls registered so far
(`FirstDefer`). `Signal` delivers to both registrations: it cancels the context
and does a non-blocking send to the channel of capacity two, or kills the process
before anything is registered. `RunAll` starts the servers and the sequencer;
`drain` is `DrainObserve`, `DrainMark`, `DrainTimer` or `DrainAbandon`,
`DrainStop`. A server listens, selects on its error channel and its context,
shuts down under a timeout, and awaits its accept goroutine. `GroupDone` is the
context of the error group: cancelled by the sequencer or by the first error.

`http.Server` is external and modelled from how it is used: `Shutdown` sets
`inShutdown`, closes tracked listeners and polls until the accept loop has left
and no connection is open, closing idle connections and new ones older than five
seconds (the set `old`); `Serve` on a server already shutting down returns at
once. Closing a listener never fails; untracking and closing it on the way out of
`http.Server.Serve` are one step, as is one poll over all connections.

### RequestChain

`Chains` nests the layers as `NewMux` and `NewAdminMux` do, each optional one
only when its limit is set. Layers are entered one action each, the handler does any sequence of
writes, status lines (informational and repeated ones too), flushes, reads and a take-over of
the connection, ends with a return, a panic or an abort, and the call leaves the layers
in reverse order. Flush and Hijack reach net/http through `statusRecorder.Unwrap`, so the
recorder does not see them; `resp` is what net/http sent, `rec` what the recorder
believes. Handlers answer with any of `Statuses`, 503 among them as `/readyz` does.
`does` restricts a handler for an instance; the theorems hold for every value of it.
What a context or request carries at a layer is derived from the layers outside
it: `Outside` and `Inside` are what makes losing the matched route through
`r.WithContext` (a copy) visible. The limiter's slots are shared between
requests. The handler's context deadline is not an event of its own: it only
changes which of these things a handler does.

### Readiness

A probe reads the flag, clones the registry, runs one goroutine per check and
answers when all have returned. Dependencies change at any moment; a hung one
returns only when the probe's context is cancelled, which `Check`'s contract
demands. `Failing` collects the names in the order of the registry and sorts them;
`slices.Sort` is external, any arrangement in order of the names it was given.

### ProxyTrust

The environment is part of the model: a request starts anywhere with any header,
trusted proxies append what they saw (or a word that is no address), other hops
rewrite the header at will. Addresses are written plain or IPv4-mapped.
`RemoteAddr` always parses, as it does on TCP. Of an identifier the model keeps who
chose it, or that it is missing or malformed; a trusted proxy drops, replaces or (from
another trusted proxy) keeps the one it got, as `deploy/local/nginx.conf` does.

### JsonBody, ErrorDocument, JsonApi

A body is a sequence of four kinds of bytes (braces, digits, spaces), enough to form objects, numbers,
white space and malformed text; how its value fits the destination is an
attribute. The reader hands over any number of bytes, with the end of the body
beside or after the last; `http.MaxBytesReader` and `encoding/json`'s decoder are
external and modelled with their error handling: a read error counts only once
the buffer is used up, and it is repeated to every later read.
`ErrorDocument` is the walk over an error tree and the status of the document, beside
a definition of what a client is owed: the places of the tree (`Places`, the branches
taken from its root) that hold a `ClientError` with none above it. An error is a tree of
any depth up to `MaxDepth` that joins up to `MaxJoined` others at a time. The walk is a
recursive function over the errors of one tree (`Walk`), with the loop over joined errors
beside it (`AppendEach`); `Owed` and `Reports` know neither.
`JsonApi` is a handler around both: it decodes a body and passes the error on as it is
or wrapped, or fails in a way of its own with any tree, and answers through
`WriteError` or `WriteJSON`. What made a value not fit is reported by `encoding/json`
as the names of the struct fields on the way to it (`names`), which leave out array indices
and map keys and may be spelled in another case than the body's: `exact` says whether they
are the member's path. Names are plain, have a dot, a slash or a tilde, or are empty;
`DecodePointer` derives the pointer from the two reports as the code does.

### Outbound, TraceContext

`New` refuses or builds; then calls begin, get an idle connection, dial or wait for a
slot, send, read the headers and the body, and end in any way: read to the end, body
closed or forgotten, reset, cancelled, timed out. `http.Transport` is external and
modelled from the fields `newTransport` sets: a dial outlives the call it was begun for
and its connection serves another or goes idle; a closed connection's slot passes to a
waiting call; 0 is no bound except for `MaxIdleConnsPerHost`, where net/http reads it
as 2. `CloseIdleConnections` closes the idle connections and marks the pool until the
next call. Durations are negative, zero or set. A call tells the peer of the trace
`Told` derives from the request it is made for, the telemetry the server chain and
the client were built with, and what each substitutes for a nil provider.

### WebAssets

Each build is any set of files with any contents. The browser loads one URL again and
again, follows redirects, stores responses and asks with `If-None-Match`; any build
answers each request. A tag is the content it is the digest of. `FileServer` is
`http.FileServerFS`: index redirects, trailing slashes, listings, 404.

### ConfigLoad

The operator exports variables, then `Decode` runs in its stages: parsing, struct
tags, and the hooks of the groups and of `Config`, joined. A blank variable leaves
the default, as the tests of the repository measure of go-envconfig. The settings
are the ones with rules that relate two of them, that convert, or that a constructor
checks again: addresses, four timeouts and the body limit of both listeners, the
proxies, the two collector endpoints and the log format. `Start` is what `run` then
builds from them: the logger, the trusted proxies and the trace exporter.

## 3. Runs

Passing runs:

| run | instance | shows |
|---|---|---|
| `lifecycle_safety` | two servers (one with a named host), two connections each, three signals | the safety properties and that `Lifecycle` implements `GracefulStop`: a signal holds before it stops, status 0 only after a hold with nothing in flight |
| `lifecycle_live` | one connection, two signals, `WedgedSpec` | under `Fairness` a signal or a failed server ends the process whatever handlers do; without it, when drain and pipelines may hang, a second signal still does |
| `chain_responses` | a request of every kind whose handler does anything, one beside it that takes the slot, all layers, `FairSpec` | client, log and trace agree; every response carries its headers; slots are neither leaked nor freed twice; no request waits for one |
| `readiness_probes` | one probe, two checks, three registrations, three changes, timeout 0, `FairSpec` | probes are answered, soundly and exactly, under concurrency |
| `proxy_attribution` | four addresses, three hops, lists of two entries | no client chooses its attribution or its identifier |
| `json_api` | limit 3, bodies up to 5, four statuses, trees of three levels with joins of two | exactly the right bodies are accepted; every failure reaches the client, under a fitting status and, where the error tells enough, located where it is |
| `config_load` | 8-bit integers, three variables set of sixteen | the process runs with and exports to what was written, or reports all that is wrong; nothing accepted fails later |
| `outbound` | three calls, three slots, counts -1 to 2, durations negative, zero and set | no client without timeouts, no pool over its bounds, no trace broken |
| `web` | two builds of up to four files, two contents, six requests, every URL of a file, a directory or neither | the browser's cache is neither visible nor useless |

Runs that refute what a document or comment of the repository says (section 6):
`chain_route`, `chain_midway`, `json_cut_off`.

What each run checks, by name:

- `lifecycle_safety`: `TypeOK`, `PreDrainHeld`, `ListenerOwned`, `ExitZeroClean`,
  `PipelinesShutDown`, `SpansBeforeFlush`, `RunAllJoined`, `AbandonedByOwnFault`,
  `ForcedBySecond`, `DrainedStaysDrained`, `ImplementsGracefulStop`.
- `lifecycle_live`: `SignalStops`, `FailureStops`, `SecondSignalStops`.
- `chain_responses`: `SlotsBalanced`, `SingleStatusLine`, `EntryTellsWire`,
  `ResponsesDressed`, `PanicAccounted`, `OversizedDropped`, `NoQueueing`.
- `chain_route`: `RouteLogged`.
- `chain_midway`: `MidwayPanicCloses`.
- `readiness_probes`: `AnswerExact`, `DrainingWins`, `ProbeAnswered`.
- `proxy_attribution`: `AttributionUnforgeable`, `IdentityUnforgeable`.
- `json_api`: `AcceptedExactly`, `EveryFailureReported`, `StatusFitsObjects`,
  `PointerSound`.
- `json_cut_off`: `CutOffIs413`.
- `config_load`: `RunsAsWritten`, `AllReportedAtOnce`, `LoggedReadsBack`,
  `ExportsWhereTold`.
- `outbound`: `PoolBounded`, `RetiredHoldsNone`, `TraceJoined`, `Quiesces`.
- `web`: `CacheTransparent`, `Revalidates`.

The comment above each definition states it and names the code it is about.

### Bounds and why they are enough

- Two servers are what the process has. Two connections let one server hold an
  idle and an active one, or have one finish while the other starts; one is
  enough for liveness. Two signals are what the forced exit needs, the third
  shows that more change nothing.
- Two requests and one slot make every shed, every release and every
  combination of endings happen. Requests meet in the slots alone, so one is enough to do
  everything to its response while the other takes a slot or is shed and ends in any way.
  `Statuses` are 200 and 503, the second a status the limiter uses too. A hidden oversized
  body that the handler does not read stands for one that fits.
- Probes write nothing another probe reads, so one is enough against registrations,
  shutdown and changing dependencies; the third registration is a duplicate.
- Three hops are an outsider, two proxies and the service; one invented line of
  one entry is enough to be believed if the walk passes over a bad hop.
- Bodies two bytes over the limit let the value end before, at and after it.
- Trees of three levels with joins of two hold a join in a join, a wrapped join, a cause
  behind a `ClientError` behind a wrap, and `nil` branches.
- With eight bits, units 4, 10 and 16 stand for the real ones: products fit, wrap
  to a negative and wrap to another positive count. Three variables are enough for
  two wrong addresses and a wrong list, for any pair of timeouts, and for both
  endpoints beside a setting that is wrong.
- Three calls and three slots let two calls hold a cap of two while a third waits, and
  an abandoned dial compete with both. Every combination of settings is tried with an
  untraced request, and every trace and wiring with the default settings: the pool
  never reads the trace.
- Six requests take a redirect, its target and the same again from each build.

The theorems of section 4 have none of these bounds: they hold for any handlers and statuses, any number of
servers, connections, requests, probes, hops, calls, builds and variables, any width
and any limits, errors of any depth with joins of any size. The bounds matter for what is only model-checked.

### Fairness

`Fairness` of `Lifecycle` says that the Go scheduler runs every goroutine that
can run and that timers fire (hold, shutdown timeout, pipeline deadlines); an
accept on a socket `Shutdown` closed returns. Nothing is assumed of signals,
clients, handlers or sockets failing on their own. `SignalStops` and `FailureStops`
assume it in the property, so that one run can check them beside `SecondSignalStops`,
which holds of `WedgedSpec`: fairness for start-up, the forced-exit goroutine and the
last deferred calls only. `Outbound` assumes that while some timer is due one of them
fires, and nothing of peers, networks or callers. In
`RequestChain` the layers run and handlers need not return. In `Readiness`
handlers run, deadlines pass, and checks return when they can, as their contract
demands.

## 4. Proofs

Every safety property of `Lifecycle`, `RequestChain`, `Readiness`, `ProxyTrust`,
`Outbound`, `WebAssets`, `ConfigLoad` and `JsonApi` that a passing run checks is also a
theorem, for every value of the constants that satisfies the named assumptions of the
module. These assumptions say no more than what the constants are (numbers, Booleans, sets),
that marks such as `None`, `Bad` and `NoCall` are not among the values they are used
beside, that trusted networks are sets of addresses, that a handler may wrap
what `DecodeJSON` returned (`MaxDepth` at least 2), and of `ByteSize` that units are
positive and fit the width, that "b" is 1 byte, and that `String` renders with units
the parser knows. TLC evaluates each of them in the runs.

| module | theorems | inductive invariant |
|---|---|---|
| `LifecycleProofs` | `TypeCorrect`, `PreDrainHeldAlways`, `ListenerOwnedAlways`, `ExitZeroCleanAlways`, `PipelinesShutDownAlways`, `SpansBeforeFlushAlways`, `RunAllJoinedAlways`, `AbandonedByOwnFaultAlways`, `DrainedStaysDrainedAlways` (an action property), `ForcedBySecondAlways`, `LifecycleImplementsGracefulStop` | `IInv`; with `SignalInv` and, for the refinement, `RInv` |
| `RequestChainProofs` | `SlotsAlwaysBalanced`, `AlwaysSingleStatusLine`, `EntryAlwaysTellsWire`, `ResponsesAlwaysDressed`, `PanicAlwaysAccounted`, `OversizedAlwaysDropped` | `IInv` |
| `ReadinessProofs` | `AnswerAlwaysExact`, `DrainingAlwaysWins` | `IInv` |
| `ProxyTrustProofs` | `AttributionAlwaysUnforgeable`, `IdentityAlwaysUnforgeable` | `IInv` |
| `OutboundProofs` | `PoolAlwaysBounded`, `RetiredAlwaysHoldsNone`, `TraceAlwaysJoined` | `IInv` |
| `WebAssetsProofs` | `CacheAlwaysTransparent`, `AlwaysRevalidates` | `IInv` |
| `ConfigLoadProofs` | `AlwaysRunsAsWritten`, `AlwaysAllReportedAtOnce`, `AlwaysLoggedReadsBack`, `AlwaysExportsWhereTold` | `IInv` |
| `JsonApiProofs` | `AlwaysAcceptedExactly` (of `JsonBody`), `EndpointDecodes`, `EndpointAcceptedExactly`, `AlwaysEveryFailureReported`, `AlwaysStatusFitsObjects`, `AlwaysPointerSound` | `IInv` of `JsonBody`, `Handled` of `JsonApi` |

Each module has a theorem `Inductive` for its invariant (`ApiInductive` for `Handled`),
from one lemma per action.

**Lifecycle.** None of the properties is inductive. That a server stops only after the
hold depends on why its context was cancelled, hence on where the sequencer is
(`DrainInv`: it has called `stopServing` only with the hold over or after a
failure); that status 0 is clean depends on what main can know at each of its
steps (`MainInv`), that all servers returned nil when it has no error, and on what
a server's nil return says of its accept loop, listener and connections (`SrvInv`,
`AccInv`). `PipelineInv` ties the two pipelines to main's position in the deferred
calls. `AccInv` carries the subtle case: `Shutdown` may run before
`http.Server.Serve` has registered its listener, so the listener can still be open
while shutting down, but then nothing was ever accepted. `SignalInv` counts: what
the forced-exit goroutine has consumed and what is buffered never exceeds what was
delivered while it was registered.

**Refinement.** The mapping of `ImplementsGracefulStop` shows a phase, the
requests in flight, whether something failed and the exit status. That every step is a
step of `GracefulStop` or none needs two facts more than `IInv`: a server that shuts down does
so because the group's context is done, and that context is never revived
(`StopInv`); and nobody drains or cancels before `RunAll` (`QuietInv`). There is one
lemma for the steps of each actor: main, signals, sequencer, servers.

**RequestChain.** What a layer may rely on follows from where it stands, so the first
lemmas place the layers (`AppShape`, `AdminShape`) for every combination of the
optional ones. The invariant is about one request at a time: where it can be
(`PosInv`), that nothing is written on the way in and everything after the headers
(`RespInv`), that the recorder saw every write but a flush, an informational status or a take-over, and
otherwise agrees with the wire (`RecInv`), and what span, entry and
panic entry hold on either side of the layer that writes them (`TraceInv`, `LogInv`,
`PanicInv`). Only the slots are shared: `SlotInv` counts the requests past the
limiter, and `HolderStep` shows that a step adds or removes exactly the one it moves.

**Readiness.** The invariant compares a probe's snapshot and its slots with the
registry and the flag when it arrived; that both only grow is why a probe that came
after shutdown began cannot get as far as a check. That the answer names each failed
check once and in order is about `Collected` and `Sort` for registries of any length.

**ProxyTrust.** The header alone cannot be trusted, and the property relates it to the
way the request took. `Trail` is the link: from the right, the entries trusted
proxies wrote come first, and then the one for the last sender outside; whatever that
sender invented is left of it. `WalkFinds` then says that `ClientIP`'s walk from the
right stops there, or at an entry that is no address.

**Outbound.** The transport's operations on the pool are operators, so what they keep
(`Good`: bounds, each call paired with a connection of its own, nothing idle while
closing) is proved once of each, of any pool, and cited by the actions that use it.

**WebAssets.** A stored response was sent by some build for the URL it is stored under.
Two builds with the same tag for a URL serve the same there (`ServedAlike`): this is
where the entity tag has to be looked up under the key of the file that is served.

**ConfigLoad.** `AcceptedIsMeant` is the numeric core: a product that `UnmarshalText`
accepts did not wrap, whatever the width and the units, because dividing the wrapped
product gives the count back only if it is the true one. `StringReadsBack` is its
counterpart for rendering. The invariant says what the configuration owes to the
environment after each stage, and which rules can no longer be broken.

**JsonBody.** Part of a body tells of the whole (`FirstEnds`, `SingleScans`,
`RestBlank`): a first value found early stays the first, the beginning of a good body
is never malformed, and only white space may follow. The invariant adds what a read
error means (`Reads`): the end of the body comes with all of it read, and the limit's
error only from a longer one. That is why "ok" cannot be answered on the beginning of a
longer body, nor anything else on a good one, in whatever pieces it arrives.

**ErrorDocument, JsonApi.** `AccountsStep` is the core: what the walk appends at a place of
the tree is what is owed of that place and below (`Under`), each once and in order. At a
`ClientError` that is the place itself. Elsewhere it is what is owed of the errors joined
there, one after the other, because all places of an earlier branch are left of those of a
later one (`ReportsBoth`); `AllAccounted` applies it from the last level up, and at the root
`Under` is `Owed`. It needs a tree that ends at the last level and whose kids can be
counted: `Shaped`, which `Trees` and every error `DecodeJSON` makes are (`TreesShaped`,
`RejectionShaped`). `Handled` then says that nothing else ever reaches `WriteError`, that a
fault in the body is still in the error when it does, and which of `WriteError` and
`WriteJSON` made the response. `EndpointDecodes` is why what was proved of `JsonBody` holds
of an endpoint.

Seven definitions are recursive functions over data of any size (the flattened header,
the collected failures, the rendering of a count; of errors, the way to a place, the loop
over joined errors, the levels of trees and the walk). The library's induction
rules cannot be used with the installed provers, so these lemmas take a least
counterexample (`LeastNumber`, from the well-foundedness of < on the naturals) and
refute it. For the walk the number is that of the levels walked, from the last up
(`WalksExists`).

Model-checked only:

- liveness, under fairness: `SignalStops`, `FailureStops`, `SecondSignalStops`,
  `NoQueueing`, `ProbeAnswered`, `Quiesces`.

Liveness is out of the provers' reach: it needs ENABLED and temporal rules they lack.

## 5. Not modelled

- The wording of messages, titles and details; the formats of log entries.
- The routes, `/version`, profiling and metrics exposition (Prometheus' and
  OpenTelemetry's registries, the constant build-information gauge).
- In the outbound client: HTTP/2, where calls share a connection; net/http's own retry
  of a call whose reused connection was closed under it; proxies; several hosts.
- In the frontend: `Range` and `HEAD` requests, which `http.ServeContent` handles.
- zap's loggers and the slog bridge, `SecretString` (every rendering is a constant; no
  setting uses it), `internal/buildinfo`, `magefile.go` and the deployment files.
- Deadlines a handler sets through `http.ResponseController`, trailers, and handlers
  that change or delete the headers the layers set; in `RequestChain` a flush or a write
  never fails.
- Settings with a rule of one field only; rendering of durations (the standard
  library's); reflective checks on `Decode`'s target.
- A signal between the two registrations in `start` reaches only the context: the
  model has it, and `noted` counts from the second registration on.
- Nothing promises that a server whose own listener failed drains its connections, and
  it does not; `AbandonedByOwnFault` says that this is the only case beside an expired
  timeout.

## 6. Findings

Each is a run that TLC refutes, with the quoted line, in `PROJECT.json`:

1. `RouteLogged`: with a handler timeout configured, the served entry and the span
   lose the matched route, because `withHandlerTimeout` passes a copy of the
   request to the mux.
2. `MidwayPanicCloses`: a panic after the response has begun ends as a normal
   return, and the truncated response looks complete.
3. `CutOffIs413`: a body the limit cuts off behind its value is answered 400.

Observed while modelling, and not stated as runs:

- A flush goes past the recorder (`responsewriter.go:58-66`), so a response that began
  with one has not begun as far as recovery can tell. A panic after it makes
  `recovery.go:56` fall through to `writeJSONError`: a superfluous second status line, the error
  document behind what was flushed, and an entry that says 500 at error level where the
  client got 200, which `recovery.go:52-55` and `responsewriter.go:12-14` mean to rule
  out. A flush followed by `WriteHeader(x)` logs x for a 200. After `Hijack` the entry
  gives a status nobody sent. `SingleStatusLine` names responses begun by a flush,
  and `EntryTellsWire` those a status line followed and connections taken over
  (`Bypassed`); nothing else is exempt. No handler of the repository flushes or takes over.
- The administrative chain has no recorder, so a panic there is always answered with
  `writeJSONError`, also after the response has begun; `SingleStatusLine` is about the
  application listener.
- An informational response is recorded as the final one (`responsewriter.go:26`):
  the entry then says 103 at info level whatever follows, and a panic after it is
  not answered with 500. `EntryTellsWire` and `PanicAccounted` except such requests
  (`Hinted`); no handler of the repository sends one.
- A body over the limit without a declared length gets whatever status the handler
  writes, where the hardening requirements (AC-002.4) say 413; `DecodeJSON` is what
  gives a handler that status.
- When the shutdown timeout expires, requests still running are not cut off
  (`server.go:76-77`) until the process exits: `Shutdown` is not followed by `Close`.
- A probe that read the draining flag before shutdown began may answer "ready" after
  it; `DrainingWins` is about probes that arrive later.
- `design.md` of the hardening spec has shed requests logged at warn level where the
  requirement and the code say error; a request aborted with
  `http.ErrAbortHandler` leaves no served entry; a plain error joined with a
  `ClientError` is logged but does not turn the response into a 500.
- `decodePointer` says that only top-level members are located and that a wrong pointer
  is worse than none (`json.go:259-264`). It gives a wrong one in exactly these cases, and
  `PointerSound` says so of them (`Unlocatable`): the way to a mistyped member leads through
  an array or a map, of which `encoding/json` reports no index or key ("/name" for
  "/0/name", `json.go:271`); the body spells the name in another case than the struct's
  tag; an unknown member of a nested object is reported by its bare name and located at
  the top (`json.go:284`); a name holds a tilde, or a slash in a mistyped member's, that is
  not escaped.
- `DecodeJSON`'s pointer, the flush and the informational status contradict comments as the
  three runs above do; the first is part of a property that holds, the other two are the
  named exemptions of theirs.
- `client.go:123-125` has zero mean unlimited for each count, "which net/http already
  documents"; for `MaxIdleConnsPerHost` it means 2.
- The outbound `Timeout` counts from the call, not from the inbound request, so a call
  begun late can outlive the request it is made for, unlike what
  `httpclient/config.go:9-11` says of the defaults.
- `web.go:74` speaks of 64 bits where `sum[:16]` keeps 128.

## 7. Plan

Done: lifecycle with its abstract specification, proofs and refinement; the chains;
readiness; proxies and request identifiers; JSON endpoints; configuration up to the
constructors it feeds; the outbound client with its traces; the frontend; proofs of the
safety properties of all of them.

Left: a composition of `Lifecycle` and `Readiness` with a load balancer that removes
an instance after failed probes: what the pre-drain hold buys, and how a stale
"ready" (section 6) interacts with a hold shorter than the check timeout.
