---------------------------- MODULE RequestChain ----------------------------
(***************************************************************************)
(* Requests passing through the middleware chains that NewMux and          *)
(* NewAdminMux build (internal/server: handler.go, admin.go, limits.go,    *)
(* recovery.go, responsewriter.go, requestid.go, headers.go, errors.go).   *)
(*                                                                         *)
(* A chain is a sequence of layers.  A request goes in through them one by *)
(* one, its handler runs, and the call comes back out through the same     *)
(* layers, by a return, by a panic, or by http.ErrAbortHandler.  Requests  *)
(* are served concurrently and meet in the in-flight limiter's slots.      *)
(* What a request context or a *http.Request carries at a layer follows    *)
(* from the layers outside it, so it is derived and not stored.            *)
(***************************************************************************)
EXTENDS Naturals, Sequences, FiniteSets

CONSTANTS
  Requests,        \* the requests
  Kinds,           \* what each request may be: records as in Kind below
  MaxInFlight,     \* Config.MaxInFlight; 0 disables the limiter
  BodyLimited,     \* Config.MaxRequestBodyBytes > 0
  HandlerTimed,    \* Config.HandlerTimeout > 0
  Statuses         \* the final statuses handlers answer with

(* body: "fits"; "declared" oversized by Content-Length; or "hidden", over *)
(* the limit without a Content-Length that says so.  does: what the        *)
(* handler it reaches may do to its response, any number of times and in   *)
(* any order.                                                              *)
Moves == {"header", "hints", "write", "flush", "hijack"}

Kind == [mux : {"app", "admin"}, probe : BOOLEAN, body : {"fits", "declared", "hidden"},
         does : SUBSET Moves]

ASSUME KindsAssumption == Kinds \in [Requests -> SUBSET Kind]
ASSUME LimitAssumption == MaxInFlight \in Nat
ASSUME SwitchAssumption == {BodyLimited, HandlerTimed} \subseteq BOOLEAN
ASSUME StatusAssumption == Statuses \subseteq 200..599

VARIABLES
  kind,    \* what the request is, once it arrived
  way,     \* "new", "in", "handler", "out", "done"
  at,      \* the layer it is at, as an index of its chain; 0 outside of it
  how,     \* how the call came back: "return", "panic" or "abort"
  routed,  \* ServeMux matched a pattern and wrote it on the request it was given
  fault,   \* what the handler did (history): "none", "clean" or "midway" panic
  slots,   \* the occupied slots of the in-flight limiter
  hdr,     \* the response headers set so far
  resp,    \* the response net/http sent, as in Response below
  rec,     \* the statusRecorder: status, written
  over,    \* a read of the body hit the limit
  keep,    \* the connection may be kept alive
  span,    \* the request's span: state, name, error status
  entry,   \* the "request served" log entry, or none
  panicLog \* the "recovered panic" log entry, or none

posVars == <<kind, way, at, how, routed, fault>>
outVars == <<hdr, resp, rec, over, keep>>
obsVars == <<span, entry, panicLog>>
vars    == <<posVars, slots, outVars, obsVars>>

-----------------------------------------------------------------------------
(* The chains, outermost layer first.  A layer whose limit is zero hands   *)
(* back the handler it was given.                                          *)
Built(layer) ==
  /\ layer = "limiter" => MaxInFlight > 0
  /\ layer = "timeout" => HandlerTimed
  /\ layer = "body"    => BodyLimited

Wrap(layer) == IF Built(layer) THEN <<layer>> ELSE <<>>

Limits == Wrap("limiter") \o Wrap("timeout") \o Wrap("body")

AdminMux == <<"headers", "recovery">> \o Wrap("body") \o <<"mux">>

(* Faulty variants: security headers inside recovery, recovery outside     *)
(* logging. *)
HeadersInside(m) ==
  IF m = "app"
    THEN <<"tracing", "identity", "logging", "recovery">> \o Limits \o <<"headers", "mux">>
    ELSE AdminMux

RecoveryOutside(m) ==
  IF m = "app"
    THEN <<"tracing", "headers", "identity", "recovery", "logging">> \o Limits \o <<"mux">>
    ELSE AdminMux

NewMux(m) ==
  IF m = "app"
    THEN <<"tracing", "headers", "identity", "logging", "recovery">> \o Limits \o <<"mux">>
    ELSE AdminMux

Chains == [m \in {"app", "admin"} |-> NewMux(m)]

Chain(r) == Chains[kind[r].mux]

Layer(r) == Chain(r)[at[r]]

Outside(r) == {Chain(r)[i] : i \in 1..(at[r] - 1)}
Inside(r)  == {Chain(r)[i] : i \in (at[r] + 1)..Len(Chain(r))}

(* What the context and the request hold at the layer r is at: the         *)
(* identifier withRequestID put there, the span of the tracing layer, and  *)
(* the pattern ServeMux wrote, unless a layer further in handed ServeMux a *)
(* copy of the request (r.WithContext).                                    *)
HasID(r)   == "identity" \in Outside(r)
HasSpan(r) == "tracing" \in Outside(r) /\ span[r].state = "open"

HasRoute(r) == routed[r] /\ Inside(r) \cap {"tracing", "identity", "timeout"} = {}

ShouldTrace(k) == ~k.probe

None == [status |-> 0]

-----------------------------------------------------------------------------
(* Writing a response.                                                     *)

(* The final status sent, 0 for none yet, and the headers that went with   *)
(* it; who sent it (history): the handler by a write, the handler by a     *)
(* flush, net/http or a layer; who wrote a status line after it (history); *)
(* and whether the handler took the connection over.                       *)
Writers == {"handler", "flush", "net/http", "limiter", "body", "recovery"}

NoResponse ==
  [status |-> 0, headers |-> {}, by |-> "nobody", again |-> {}, taken |-> FALSE]

(* net/http (external): the first final status line carries the headers    *)
(* set by then; another one is reported as superfluous and ignored; on a   *)
(* connection that was taken over none is sent.                            *)
SendStatus(p, status, headers, writer) ==
  IF p.taken THEN p
  ELSE IF p.status = 0
    THEN [p EXCEPT !.status = status, !.headers = headers, !.by = writer]
    ELSE [p EXCEPT !.again = @ \cup {writer}]

(* A write or a flush with no WriteHeader before it commits net/http to    *)
(* 200.                                                                    *)
Commit(p, headers, writer) ==
  IF p.status = 0 THEN SendStatus(p, 200, headers, writer) ELSE p

(* statusRecorder.WriteHeader and statusRecorder.Write.                    *)
(* Faulty variant: Write does not commit the response. *)
RecordWriteNot(c) == c

RecordWrite(c) == [c EXCEPT !.written = TRUE]

RecordStatus(c, status) ==
  IF c.written THEN c ELSE [status |-> status, written |-> TRUE]

(* A layer of r writes status and an error document: it goes through the   *)
(* recorder when the logging layer is outside.                             *)
Respond(r, status, headers) ==
  /\ hdr' = [hdr EXCEPT ![r] = headers]
  /\ resp' = [resp EXCEPT ![r] = SendStatus(resp[r], status, headers, Layer(r))]
  /\ rec' = IF "logging" \in Outside(r)
              THEN [rec EXCEPT ![r] = RecordWrite(RecordStatus(rec[r], status))]
              ELSE rec

(* Going in one layer, and coming out one.                                 *)
In(r) ==
  /\ at' = [at EXCEPT ![r] = @ + 1]
  /\ UNCHANGED <<kind, way, how, routed, fault>>

Out(r, w) ==
  /\ at' = [at EXCEPT ![r] = @ - 1]
  /\ way' = [way EXCEPT ![r] = "out"]
  /\ how' = [how EXCEPT ![r] = w]
  /\ UNCHANGED <<kind, routed>>

Entering(r, layer) == way[r] = "in" /\ Layer(r) = layer
Leaving(r, layer)  == way[r] = "out" /\ at[r] > 0 /\ Layer(r) = layer

-----------------------------------------------------------------------------
Init ==
  /\ kind = [r \in Requests |-> CHOOSE k \in Kinds[r] : TRUE]
  /\ way = [r \in Requests |-> "new"]
  /\ at = [r \in Requests |-> 0]
  /\ how = [r \in Requests |-> "return"]
  /\ routed = [r \in Requests |-> FALSE]
  /\ fault = [r \in Requests |-> "none"]
  /\ slots = 0
  /\ hdr = [r \in Requests |-> {}]
  /\ resp = [r \in Requests |-> NoResponse]
  /\ rec = [r \in Requests |-> [status |-> 200, written |-> FALSE]]
  /\ over = [r \in Requests |-> FALSE]
  /\ keep = [r \in Requests |-> TRUE]
  /\ span = [r \in Requests |-> [state |-> "none", named |-> FALSE, err |-> FALSE]]
  /\ entry = [r \in Requests |-> None]
  /\ panicLog = [r \in Requests |-> None]

Arrive(r, k) ==
  /\ way[r] = "new"
  /\ way' = [way EXCEPT ![r] = "in"]
  /\ kind' = [kind EXCEPT ![r] = k]
  /\ at' = [at EXCEPT ![r] = 1]
  /\ UNCHANGED <<how, routed, fault, slots, outVars, obsVars>>

(* The tracing layer: a span unless the request is a probe.                *)
EnterTracing(r) ==
  /\ Entering(r, "tracing") /\ In(r)
  /\ span' = IF ShouldTrace(kind[r]) THEN [span EXCEPT ![r].state = "open"] ELSE span
  /\ UNCHANGED <<slots, outVars, entry, panicLog>>

EnterHeaders(r) ==
  /\ Entering(r, "headers") /\ In(r)
  /\ hdr' = [hdr EXCEPT ![r] = @ \cup {"security"}]
  /\ UNCHANGED <<slots, resp, rec, over, keep, obsVars>>

EnterIdentity(r) ==
  /\ Entering(r, "identity") /\ In(r)
  /\ hdr' = [hdr EXCEPT ![r] = @ \cup {"id"}]
  /\ UNCHANGED <<slots, resp, rec, over, keep, obsVars>>

EnterLogging(r) ==
  /\ Entering(r, "logging") /\ In(r)
  /\ rec' = [rec EXCEPT ![r] = [status |-> 200, written |-> FALSE]]
  /\ UNCHANGED <<slots, hdr, resp, over, keep, obsVars>>

(* Recovery and timeout register a deferred call and go on.                *)
EnterPlain(r) ==
  /\ Entering(r, "recovery") \/ Entering(r, "timeout")
  /\ In(r)
  /\ UNCHANGED <<slots, outVars, obsVars>>

(* The limiter: a slot, or the request is shed without waiting for one.    *)
Acquire(r) ==
  /\ Entering(r, "limiter") /\ slots < MaxInFlight
  /\ In(r)
  /\ slots' = slots + 1
  /\ UNCHANGED <<outVars, obsVars>>

(* Faulty variant: the request waits for a slot. *)
ShedNever(r) == FALSE

Shed(r) ==
  /\ Entering(r, "limiter") /\ slots = MaxInFlight
  /\ Respond(r, 503, hdr[r] \cup {"retry"})
  /\ Out(r, "return")
  /\ UNCHANGED <<fault, slots, over, keep, obsVars>>

(* The body limit: a declared oversized body is refused, any other read    *)
(* through MaxBytesReader.                                                 *)
EnterBody(r) ==
  /\ Entering(r, "body") /\ kind[r].body # "declared"
  /\ In(r)
  /\ UNCHANGED <<slots, outVars, obsVars>>

RefuseBody(r) ==
  /\ Entering(r, "body") /\ kind[r].body = "declared"
  /\ Respond(r, 413, hdr[r])
  /\ Out(r, "return")
  /\ UNCHANGED <<fault, slots, over, keep, obsVars>>

EnterMux(r) ==
  /\ Entering(r, "mux")
  /\ way' = [way EXCEPT ![r] = "handler"]
  /\ routed' = [routed EXCEPT ![r] = TRUE]
  /\ UNCHANGED <<kind, at, how, fault, slots, outVars, obsVars>>

-----------------------------------------------------------------------------
(* The handler: any sequence of reads, writes and flushes, a take-over of  *)
(* the connection, and then a return, a panic, or a deliberate abort.      *)
(* What a context deadline makes it do is one of these.                    *)

InHandler(r) == way[r] = "handler"

May(r, move) == InHandler(r) /\ move \in kind[r].does

(* The recorder is on the way of a handler's writes on the application     *)
(* chain.                                                                  *)
Recorded(r, c) == IF "logging" \in Outside(r) THEN [rec EXCEPT ![r] = c] ELSE rec

(* A second one is passed on to net/http, and only the first is recorded.  *)
HandlerWriteHeader(r, status) ==
  /\ May(r, "header")
  /\ resp' = [resp EXCEPT ![r] = SendStatus(@, status, hdr[r], "handler")]
  /\ rec' = Recorded(r, RecordStatus(rec[r], status))
  /\ UNCHANGED <<posVars, slots, hdr, over, keep, obsVars>>

HandlerWrite(r) ==
  /\ May(r, "write")
  /\ resp' = [resp EXCEPT ![r] = Commit(@, hdr[r], "handler")]
  /\ rec' = Recorded(r, RecordWrite(rec[r]))
  /\ UNCHANGED <<posVars, slots, hdr, over, keep, obsVars>>

(* http.ResponseController finds net/http's own Flush through Unwrap: the  *)
(* recorder does not see it.                                               *)
HandlerFlush(r) ==
  /\ May(r, "flush")
  /\ resp' = [resp EXCEPT ![r] = Commit(@, hdr[r], "flush")]
  /\ UNCHANGED <<posVars, slots, hdr, rec, over, keep, obsVars>>

(* So does Hijack: net/http sends nothing more and forgets the connection. *)
HandlerHijack(r) ==
  /\ May(r, "hijack") /\ ~resp[r].taken
  /\ resp' = [resp EXCEPT ![r].taken = TRUE]
  /\ keep' = [keep EXCEPT ![r] = FALSE]
  /\ UNCHANGED <<posVars, slots, hdr, rec, over, obsVars>>

(* WriteHeader with an informational status: net/http sends it at once and *)
(* still awaits the final one, or reports it as superfluous if that was    *)
(* sent; the recorder does not tell the difference.                        *)
HandlerEarlyHints(r) ==
  /\ May(r, "hints")
  /\ resp' = IF resp[r].status = 0 THEN resp
               ELSE [resp EXCEPT ![r] = SendStatus(@, 103, hdr[r], "handler")]
  /\ rec' = Recorded(r, RecordStatus(rec[r], 103))
  /\ UNCHANGED <<posVars, slots, hdr, over, keep, obsVars>>

(* A read past the limit fails, and MaxBytesReader tells the writer it was *)
(* given to drop the connection; only net/http's own writer understands.   *)
(* Faulty variant: MaxBytesReader is given the wrapped writer. *)
NotUnwrapped(r) == Outside(r) \cap {"tracing", "logging"} = {}

UnwrapWriter(r) == TRUE

HandlerRead(r) ==
  /\ InHandler(r) /\ "body" \in Outside(r) /\ kind[r].body = "hidden"
  /\ ~resp[r].taken
  /\ over' = [over EXCEPT ![r] = TRUE]
  /\ keep' = [keep EXCEPT ![r] = @ /\ ~UnwrapWriter(r)]
  /\ UNCHANGED <<posVars, slots, hdr, resp, rec, obsVars>>

HandlerReturn(r) ==
  /\ InHandler(r)
  /\ Out(r, "return")
  /\ UNCHANGED <<fault, slots, outVars, obsVars>>

HandlerPanic(r) ==
  /\ InHandler(r)
  /\ Out(r, "panic")
  /\ fault' = [fault EXCEPT ![r] =
                  IF resp[r].status = 0 /\ ~resp[r].taken THEN "clean" ELSE "midway"]
  /\ UNCHANGED <<slots, outVars, obsVars>>

HandlerAbort(r) ==
  /\ InHandler(r)
  /\ Out(r, "abort")
  /\ UNCHANGED <<fault, slots, outVars, obsVars>>

-----------------------------------------------------------------------------
(* The way out.                                                            *)

(* Nothing to do after next, or a deferred cancel.                         *)
LeavePlain(r) ==
  /\ \/ Leaving(r, "headers") \/ Leaving(r, "identity")
     \/ Leaving(r, "timeout") \/ Leaving(r, "body")
  /\ Out(r, how[r])
  /\ UNCHANGED <<fault, slots, outVars, obsVars>>

(* The slot is given back by a deferred call.                              *)
(* Faulty variant: it is given back after next returns. *)
ReleaseOnReturn(w) == IF w = "return" THEN slots - 1 ELSE slots

Release(w) == slots - 1

LeaveLimiter(r) ==
  /\ Leaving(r, "limiter")
  /\ slots' = Release(how[r])
  /\ Out(r, how[r])
  /\ UNCHANGED <<fault, outVars, obsVars>>

(* Recovery: an abort goes on, a return passes.                            *)
PassRecovery(r) ==
  /\ Leaving(r, "recovery") /\ how[r] # "panic"
  /\ Out(r, how[r])
  /\ UNCHANGED <<fault, slots, outVars, obsVars>>

(* A response has begun, as far as recovery can tell: it looks for the     *)
(* recorder of the logging layer.                                          *)
(* Faulty variant: it does not look. *)
BegunIgnored(r) == FALSE

Begun(r) == "logging" \in Outside(r) /\ rec[r].written

Recover(r) ==
  /\ Leaving(r, "recovery") /\ how[r] = "panic"
  /\ panicLog' = [panicLog EXCEPT ![r] = [status |-> 500, id |-> HasID(r)]]
  /\ span' = IF HasSpan(r) THEN [span EXCEPT ![r].err = TRUE] ELSE span
  /\ IF Begun(r) THEN UNCHANGED <<hdr, resp, rec>> ELSE Respond(r, 500, hdr[r])
  /\ Out(r, "return")
  /\ UNCHANGED <<fault, slots, over, keep, entry>>

(* Logging: one entry and the span's name, unless the call did not return. *)
LevelForStatus(status) ==
  IF status >= 500 THEN "error" ELSE IF status >= 400 THEN "warn" ELSE "info"

LeaveLogging(r) ==
  /\ Leaving(r, "logging") /\ how[r] = "return"
  /\ entry' = [entry EXCEPT ![r] =
       [status |-> rec[r].status, level |-> LevelForStatus(rec[r].status),
        route |-> HasRoute(r), id |-> HasID(r), trace |-> HasSpan(r)]]
  /\ span' = IF HasRoute(r) /\ HasSpan(r) THEN [span EXCEPT ![r].named = TRUE] ELSE span
  /\ Out(r, "return")
  /\ UNCHANGED <<fault, slots, outVars, panicLog>>

SkipLogging(r) ==
  /\ Leaving(r, "logging") /\ how[r] # "return"
  /\ Out(r, how[r])
  /\ UNCHANGED <<fault, slots, outVars, obsVars>>

(* otelhttp ends the span in a deferred call (external).                   *)
LeaveTracing(r) ==
  /\ Leaving(r, "tracing")
  /\ span' = IF span[r].state = "open" THEN [span EXCEPT ![r].state = "ended"] ELSE span
  /\ Out(r, how[r])
  /\ UNCHANGED <<fault, slots, outVars, entry, panicLog>>

(* net/http (external): a return with nothing written is a 200; anything   *)
(* but a return closes the connection.                                     *)
Finish(r) ==
  /\ way[r] = "out" /\ at[r] = 0
  /\ way' = [way EXCEPT ![r] = "done"]
  /\ resp' = IF how[r] = "return"
               THEN [resp EXCEPT ![r] = Commit(@, hdr[r], "net/http")] ELSE resp
  /\ keep' = [keep EXCEPT ![r] = @ /\ how[r] = "return"]
  /\ UNCHANGED <<kind, at, how, routed, fault, slots, hdr, rec, over, obsVars>>

-----------------------------------------------------------------------------
EnterStep(r) ==
  \/ EnterTracing(r) \/ EnterHeaders(r) \/ EnterIdentity(r) \/ EnterLogging(r)
  \/ EnterPlain(r) \/ Acquire(r) \/ Shed(r) \/ EnterBody(r) \/ RefuseBody(r)
  \/ EnterMux(r)

HandlerStep(r) ==
  \/ \E status \in Statuses : HandlerWriteHeader(r, status)
  \/ HandlerWrite(r) \/ HandlerEarlyHints(r) \/ HandlerFlush(r)
  \/ HandlerHijack(r) \/ HandlerRead(r)
  \/ HandlerReturn(r) \/ HandlerPanic(r) \/ HandlerAbort(r)

LeaveStep(r) ==
  \/ LeavePlain(r) \/ LeaveLimiter(r) \/ PassRecovery(r) \/ Recover(r)
  \/ LeaveLogging(r) \/ SkipLogging(r) \/ LeaveTracing(r) \/ Finish(r)

Next ==
  \/ \E r \in Requests : (\E k \in Kinds[r] : Arrive(r, k))
                         \/ EnterStep(r) \/ HandlerStep(r) \/ LeaveStep(r)
  \/ (\A r \in Requests : way[r] = "done") /\ UNCHANGED vars

Spec == Init /\ [][Next]_vars

(* Every layer is run to its end.  Nothing is assumed of handlers: one may *)
(* never return.                                                           *)
FairSpec == Spec /\ \A r \in Requests : WF_vars(EnterStep(r)) /\ WF_vars(LeaveStep(r))

-----------------------------------------------------------------------------
(* Properties.                                                             *)

App(r)  == kind[r].mux = "app"
Done(r) == way[r] = "done"
Logged(r) == entry[r] # None

HoldsSlot(r) ==
  \/ way[r] \in {"in", "handler", "out"} /\ "limiter" \in Outside(r)
  \/ Leaving(r, "limiter")

(* The limiter's slots are exactly the requests past it, and never more     *)
(* than there are: none is leaked by a panic, an abort or a refusal further *)
(* in, none is freed by a request that was shed (withInFlightLimit's        *)
(* deferred release).                                                       *)
SlotsBalanced ==
  slots <= MaxInFlight /\ slots = Cardinality({r \in Requests : HoldsSlot(r)})

(* No layer writes a status line once a response has begun: recovery learns *)
(* from the recorder that it has, whoever among handler, limiter and body   *)
(* limit began it.  It cannot know of a response that began with a flush,   *)
(* which passes the recorder by.                                            *)
SingleStatusLine ==
  \A r \in Requests : App(r) /\ resp[r].by # "flush" => resp[r].again \subseteq {"handler"}

(* The recorder took an informational status for the final one.             *)
Hinted(r) == rec[r].status = 103

(* What was sent is not what the recorder was told: a status line followed  *)
(* the flush that had sent one, or the connection is no longer net/http's.  *)
Bypassed(r) == (resp[r].by = "flush" /\ resp[r].again # {}) \/ resp[r].taken

(* The served entry reports the status the client got, and a failure at     *)
(* error level: the recorder and net/http agree at the end of every request *)
(* that is logged, whatever its handler wrote, how often and in which       *)
(* order, unless it began with an informational response or went past the   *)
(* recorder.  It carries trace identifiers exactly if the request has a     *)
(* span, refused and shed requests included, and that span has ended.       *)
EntryTellsWire ==
  \A r \in Requests : Done(r) /\ Logged(r) =>
    /\ ~Hinted(r) /\ ~Bypassed(r) =>
         /\ entry[r].status = resp[r].status
         /\ entry[r].level = "error" <=> resp[r].status >= 500
    /\ entry[r].trace <=> ShouldTrace(kind[r])
    /\ span[r].state # "open"

(* Every response, refusals and recovered panics included, carries the      *)
(* security headers; on the application listener it carries the request     *)
(* identifier too.  A shed request is told when to retry, and no other      *)
(* response says so, also not a handler's own 503.                          *)
ResponsesDressed ==
  \A r \in Requests : resp[r].status # 0 =>
    /\ "security" \in resp[r].headers
    /\ App(r) => "id" \in resp[r].headers
    /\ "retry" \in resp[r].headers <=> resp[r].by = "limiter"
    /\ resp[r].by = "limiter" => resp[r].status = 503

(* A panic on the application listener leaves a complete record: an entry   *)
(* with the request identifier, an errored span where there is one, a       *)
(* served entry, and a 500 unless a response, also an informational one,    *)
(* had begun or the connection was taken over.                              *)
PanicAccounted ==
  \A r \in Requests : Done(r) /\ App(r) /\ fault[r] # "none" =>
    /\ panicLog[r] # None /\ panicLog[r].id
    /\ span[r].state # "none" => span[r].err
    /\ Logged(r)
    /\ fault[r] = "clean" /\ ~Hinted(r) => resp[r].status = 500

(* A handler never starts on a body declared over the limit, and a handler  *)
(* that read past the limit costs the client its connection: net/http does  *)
(* not go on draining a body already refused.                               *)
OversizedDropped ==
  \A r \in Requests : BodyLimited =>
    /\ InHandler(r) => kind[r].body # "declared"
    /\ Done(r) /\ over[r] => ~keep[r]

(* No request queues: one that arrived is answered or reaches its handler,  *)
(* even if the handlers that hold the slots never return.                   *)
NoQueueing ==
  \A r \in Requests : (way[r] = "in") ~> (InHandler(r) \/ Done(r))

(* Stated by the documents and not true of the code.                        *)

(* The served entry of a request that reached the mux names the matched     *)
(* route.                                                                   *)
RouteLogged ==
  \A r \in Requests : Logged(r) /\ routed[r] => entry[r].route

(* A panic after the response has begun closes the connection.              *)
MidwayPanicCloses ==
  \A r \in Requests : Done(r) /\ fault[r] = "midway" => ~keep[r]
=============================================================================
