----------------------------- MODULE Lifecycle -----------------------------
(***************************************************************************)
(* The life of the process: cmd/service/main.go (start, run, shutDown),    *)
(* internal/server/server.go (RunAll, drain, Run, Serve) and               *)
(* internal/signals/signals.go (ForceExitOnSecond).                        *)
(*                                                                         *)
(* Concurrent parties: the main goroutine, the forced-exit goroutine, the  *)
(* drain sequencer, one goroutine per server in the error group, the       *)
(* http.Server.Serve goroutine each server spawns, the connections those   *)
(* servers hold, and whoever sends the process SIGINT or SIGTERM.          *)
(* http.Server, the signal package and errgroup are outside the repository *)
(* and are modelled from how this code uses them.                          *)
(***************************************************************************)
EXTENDS Naturals

CONSTANTS
  Servers,      \* the *Server values handed to RunAll (application, admin)
  Conns,        \* connection slots of one http.Server, reused once closed
  NamedHosts,   \* the servers whose address is a host name: Listen resolves it
  MaxSignals    \* bound on the signals sent to the process

ASSUME ServersAssumption == Servers # {} /\ NamedHosts \subseteq Servers
ASSUME MaxSignalsAssumption == MaxSignals \in Nat

VARIABLES
  (* cmd/service/main.go *)
  main,            \* where the main goroutine is
  runErr,          \* whether run returns an error
  exit,            \* "running", or how the process ended
  tracing,         \* the span pipeline: SetupTracing .. its deferred shutDown
  metrics,         \* the metric pipeline: SetupMetrics .. its deferred shutDown
  (* signal delivery and internal/signals *)
  sent,            \* signals sent to the process so far
  noted,           \* of those, how many while `forced` was registered (history)
  ctxDone,         \* the NotifyContext is cancelled
  forcedCh,        \* signals buffered in the channel `forced` (capacity 2)
  forcer,          \* the ForceExitOnSecond goroutine
  (* RunAll and drain *)
  draining,        \* Readiness.draining
  drainer,         \* the drain sequencer
  held,            \* its pre-drain timer fired
  serveCancelled,  \* stopServing was called
  groupErr,        \* the first error an errgroup function returned
  (* per server *)
  srv,             \* where Run/Serve is
  acc,             \* the goroutine running http.Server.Serve
  serveErr,        \* the channel serveErr (capacity 1)
  lst,             \* the listening socket
  inShut,          \* http.Server.inShutdown
  conn             \* the connections http.Server tracks

mainVars  == <<main, runErr, exit, tracing, metrics>>
sigVars   == <<sent, noted, ctxDone, forcedCh, forcer>>
drainVars == <<draining, drainer, held, serveCancelled>>
srvVars   == <<groupErr, srv, acc, serveErr, lst, inShut, conn>>
vars      == <<mainVars, sigVars, drainVars, srvVars>>

-----------------------------------------------------------------------------
(* The states of each party.                                               *)

Startup  == {"load", "logger", "wire", "tracing", "metrics", "record", "runall"}
RunningAll == {"wait", "joined"}
Unwinding  == {"flushMetrics", "flushTraces", "unforce", "unnotify", "exiting"}
MainState  == {"boot", "notified"} \cup Startup \cup RunningAll \cup Unwinding

ExitState  == {"running", "ok", "error", "forced", "killed"}
Pipeline   == {"none", "up", "flushed", "lost"}
Drainer    == {"off", "wait", "mark", "hold", "stop", "done"}
GroupErr   == {"none", "listen", "serve", "shutdown"}
SrvState   == {"off", "listen", "select", "shutdown", "polling", "await",
               "ok", "failed", "expired"}
AccState   == {"none", "spawned", "accept", "failing", "closing", "returned"}
ConnState  == {"none", "new", "active", "idle"}

(* What Run returned: nil, an error, or Shutdown's deadline expired.       *)
Returned == {"ok", "failed", "expired"}

(* Every variable stays in its type; in particular the channel of forced   *)
(* signals never holds more than its capacity, however many are sent.      *)
TypeOK ==
  /\ main \in MainState
  /\ runErr \in BOOLEAN
  /\ exit \in ExitState
  /\ tracing \in Pipeline
  /\ metrics \in Pipeline
  /\ sent \in 0..MaxSignals
  /\ noted \in 0..sent
  /\ ctxDone \in BOOLEAN
  /\ forcedCh \in 0..2
  /\ forcer \in {"absent", "first", "second"}
  /\ draining \in BOOLEAN
  /\ drainer \in Drainer
  /\ held \in BOOLEAN
  /\ serveCancelled \in BOOLEAN
  /\ groupErr \in GroupErr
  /\ srv \in [Servers -> SrvState]
  /\ acc \in [Servers -> AccState]
  /\ serveErr \in [Servers -> {"empty", "nil", "err"}]
  /\ lst \in [Servers -> {"none", "open", "closed"}]
  /\ inShut \in [Servers -> BOOLEAN]
  /\ conn \in [Servers -> [Conns -> ConnState]]

Init ==
  /\ main = "boot" /\ runErr = FALSE /\ exit = "running"
  /\ tracing = "none" /\ metrics = "none"
  /\ sent = 0 /\ noted = 0 /\ ctxDone = FALSE /\ forcedCh = 0 /\ forcer = "absent"
  /\ draining = FALSE /\ drainer = "off" /\ held = FALSE
  /\ serveCancelled = FALSE /\ groupErr = "none"
  /\ srv = [s \in Servers |-> "off"]
  /\ acc = [s \in Servers |-> "none"]
  /\ serveErr = [s \in Servers |-> "empty"]
  /\ lst = [s \in Servers |-> "none"]
  /\ inShut = [s \in Servers |-> FALSE]
  /\ conn = [s \in Servers |-> [c \in Conns |-> "none"]]

Running == exit = "running"

-----------------------------------------------------------------------------
(* Signals.  Without a registered handler the default action terminates    *)
(* the process: before NotifyContext, and again once the deferred stop()   *)
(* has run.  Between NotifyContext and Notify(forced), and again between    *)
(* signal.Stop(forced) and stop(), only the context sees it.  A full       *)
(* channel drops the signal.                                               *)

(* A signal reaches a channel holding n: a non-blocking send.              *)
(* Faulty variants: a channel of capacity 1, and an unbounded one. *)
DeliverOne(n) == 1
DeliverAll(n) == n + 1

Deliver(n) == IF n = 2 THEN n ELSE n + 1

Signal ==
  /\ Running
  /\ sent < MaxSignals
  /\ sent' = sent + 1
  /\ \/ /\ main \in {"boot", "exiting"}
        /\ exit' = "killed"
        /\ UNCHANGED <<noted, ctxDone, forcedCh>>
     \/ /\ main \in {"notified", "unnotify"}
        /\ ctxDone' = TRUE
        /\ UNCHANGED <<exit, noted, forcedCh>>
     \/ /\ main \notin {"boot", "notified", "unnotify", "exiting"}
        /\ ctxDone' = TRUE
        /\ noted' = noted + 1
        /\ forcedCh' = Deliver(forcedCh)
        /\ UNCHANGED exit
  /\ UNCHANGED <<main, runErr, tracing, metrics, forcer, drainVars, srvVars>>

(* ForceExitOnSecond: discard one signal, exit on the next.  os.Exit runs  *)
(* no deferred call.                                                       *)
ForceDiscard ==
  /\ Running
  /\ forcer = "first" /\ forcedCh > 0
  /\ forcedCh' = forcedCh - 1
  /\ forcer' = "second"
  /\ UNCHANGED <<mainVars, sent, noted, ctxDone, drainVars, srvVars>>

(* Faulty variant: the first signal is not discarded. *)
ForceExitFirst(pc) == pc \in {"first", "second"}

ForceArmed(pc) == pc = "second"

ForceExit ==
  /\ Running
  /\ ForceArmed(forcer) /\ forcedCh > 0
  /\ exit' = "forced"
  /\ UNCHANGED <<main, runErr, tracing, metrics, sigVars, drainVars, srvVars>>

-----------------------------------------------------------------------------
(* Start-up: start registers the handlers, run builds one thing after      *)
(* another.  A step that fails returns an error, and the deferred calls    *)
(* registered so far run.                                                  *)

(* The deferred call that runs first when run returns from stage m.        *)
(* Faulty variant: both shutDown calls deferred after both pipelines are up. *)
LateDefers(m) == IF m \in {"record", "joined"} THEN "flushMetrics" ELSE "unforce"

FirstDefer(m) ==
  CASE m \in {"record", "joined"} -> "flushMetrics"
    [] m = "metrics"              -> "flushTraces"
    [] OTHER                      -> "unforce"

RegisterNotifyContext ==
  /\ Running /\ main = "boot"
  /\ main' = "notified"
  /\ UNCHANGED <<runErr, exit, tracing, metrics, sigVars, drainVars, srvVars>>

RegisterForced ==
  /\ Running /\ main = "notified"
  /\ main' = "load"
  /\ UNCHANGED <<runErr, exit, tracing, metrics, sigVars, drainVars, srvVars>>

(* config.Load, NewFromConfig, web.Handler, NewTrustedProxies, SetupTracing, *)
(* SetupMetrics and RecordBuildInfo each may fail.                         *)
StartupFail ==
  /\ Running /\ main \in Startup \ {"runall"}
  /\ runErr' = TRUE
  /\ main' = FirstDefer(main)
  /\ UNCHANGED <<exit, tracing, metrics, sigVars, drainVars, srvVars>>

Load ==
  /\ Running /\ main = "load"
  /\ main' = "logger"
  /\ UNCHANGED <<runErr, exit, tracing, metrics, sigVars, drainVars, srvVars>>

(* The forced-exit goroutine needs a logger, so it starts here.            *)
BuildLogger ==
  /\ Running /\ main = "logger"
  /\ main' = "wire"
  /\ forcer' = "first"
  /\ UNCHANGED <<runErr, exit, tracing, metrics, sent, noted, ctxDone, forcedCh,
                 drainVars, srvVars>>

Wire ==
  /\ Running /\ main = "wire"
  /\ main' = "tracing"
  /\ UNCHANGED <<runErr, exit, tracing, metrics, sigVars, drainVars, srvVars>>

SetupTracing ==
  /\ Running /\ main = "tracing"
  /\ main' = "metrics" /\ tracing' = "up"
  /\ UNCHANGED <<runErr, exit, metrics, sigVars, drainVars, srvVars>>

SetupMetrics ==
  /\ Running /\ main = "metrics"
  /\ main' = "record" /\ metrics' = "up"
  /\ UNCHANGED <<runErr, exit, tracing, sigVars, drainVars, srvVars>>

RecordBuildInfo ==
  /\ Running /\ main = "record"
  /\ main' = "runall"
  /\ UNCHANGED <<runErr, exit, tracing, metrics, sigVars, drainVars, srvVars>>

-----------------------------------------------------------------------------
(* RunAll.                                                                 *)

(* The context the servers run under: cancelled by stopServing or by the   *)
(* first error of the group.  It is deliberately not ctx.                  *)
(* Faulty variant: the servers run under a context derived from ctx. *)
GroupDoneFromCtx == serveCancelled \/ groupErr # "none" \/ ctxDone

(* Faulty variant: a plain error group, whose first error cancels nothing. *)
GroupDonePlain == serveCancelled

GroupDone == serveCancelled \/ groupErr # "none"

RunAllStart ==
  /\ Running /\ main = "runall"
  /\ main' = "wait"
  /\ srv' = [s \in Servers |-> "listen"]
  /\ drainer' = "wait"
  /\ UNCHANGED <<runErr, exit, tracing, metrics, sigVars, draining, held,
                 serveCancelled, groupErr, acc, serveErr, lst, inShut, conn>>

(* group.Wait returns once every server has returned; then close(done).    *)
(* Faulty variant: the first server to return ends the wait. *)
AnyServerReturned == \E s \in Servers : srv[s] \in Returned

AllServersReturned == \A s \in Servers : srv[s] \in Returned

GroupWait ==
  /\ Running /\ main = "wait"
  /\ AllServersReturned
  /\ main' = "joined"
  /\ UNCHANGED <<runErr, exit, tracing, metrics, sigVars, drainVars, srvVars>>

(* sequencer.Wait, the deferred stopServing, and run's return.             *)
(* Faulty variant: the sequencer is started and never waited for. *)
SequencerIgnored == TRUE

SequencerReturned == drainer = "done"

RunAllReturn ==
  /\ Running /\ main = "joined"
  /\ SequencerReturned
  /\ serveCancelled' = TRUE
  /\ runErr' = (groupErr # "none")
  /\ main' = FirstDefer(main)
  /\ UNCHANGED <<exit, tracing, metrics, sigVars, draining, drainer, held, srvVars>>

(* done is closed: between group.Wait's return and RunAll's.               *)
DoneClosed == main \notin {"boot", "notified", "wait"} \cup Startup

-----------------------------------------------------------------------------
(* drain: the first select, SetDraining, the hold, stopServing.            *)

DrainObserve ==
  /\ Running /\ drainer = "wait" /\ ctxDone
  /\ drainer' = "mark"
  /\ UNCHANGED <<mainVars, sigVars, draining, held, serveCancelled, srvVars>>

DrainQuit ==
  /\ Running /\ drainer = "wait" /\ DoneClosed
  /\ drainer' = "done"
  /\ UNCHANGED <<mainVars, sigVars, draining, held, serveCancelled, srvVars>>

(* Faulty variant: the hold starts without readiness being told. *)
HoldUnmarked ==
  /\ Running /\ drainer = "mark"
  /\ drainer' = "hold"
  /\ UNCHANGED <<mainVars, sigVars, draining, held, serveCancelled, srvVars>>

DrainMark ==
  /\ Running /\ drainer = "mark"
  /\ draining' = TRUE
  /\ drainer' = "hold"
  /\ UNCHANGED <<mainVars, sigVars, held, serveCancelled, srvVars>>

DrainTimer ==
  /\ Running /\ drainer = "hold"
  /\ held' = TRUE
  /\ drainer' = "stop"
  /\ UNCHANGED <<mainVars, sigVars, draining, serveCancelled, srvVars>>

DrainAbandon ==
  /\ Running /\ drainer = "hold" /\ DoneClosed
  /\ drainer' = "stop"
  /\ UNCHANGED <<mainVars, sigVars, draining, held, serveCancelled, srvVars>>

DrainStop ==
  /\ Running /\ drainer = "stop"
  /\ serveCancelled' = TRUE
  /\ drainer' = "done"
  /\ UNCHANGED <<mainVars, sigVars, draining, held, srvVars>>

-----------------------------------------------------------------------------
(* Server.Run and Server.Serve, one goroutine of the error group each.     *)

(* An error group function returns e: the first error is kept and cancels  *)
(* the group's context.                                                    *)
FirstError(e) == IF groupErr = "none" THEN e ELSE groupErr

(* Listen may fail for any address in use; under a cancelled context a     *)
(* host name cannot be resolved, so it must fail.                          *)
Listen(s) ==
  /\ Running /\ srv[s] = "listen"
  /\ ~(GroupDone /\ s \in NamedHosts)
  /\ srv' = [srv EXCEPT ![s] = "select"]
  /\ lst' = [lst EXCEPT ![s] = "open"]
  /\ acc' = [acc EXCEPT ![s] = "spawned"]
  /\ UNCHANGED <<mainVars, sigVars, drainVars, groupErr, serveErr, inShut, conn>>

ListenFail(s) ==
  /\ Running /\ srv[s] = "listen"
  /\ srv' = [srv EXCEPT ![s] = "failed"]
  /\ groupErr' = FirstError("listen")
  /\ UNCHANGED <<mainVars, sigVars, drainVars, acc, serveErr, lst, inShut, conn>>

(* The select's first case: http.Server.Serve returned by itself.          *)
ServeReturns(s) ==
  /\ Running /\ srv[s] = "select" /\ serveErr[s] # "empty"
  /\ srv' = [srv EXCEPT ![s] = IF serveErr[s] = "err" THEN "failed" ELSE "ok"]
  /\ groupErr' = IF serveErr[s] = "err" THEN FirstError("serve") ELSE groupErr
  /\ serveErr' = [serveErr EXCEPT ![s] = "empty"]
  /\ UNCHANGED <<mainVars, sigVars, drainVars, acc, lst, inShut, conn>>

(* http.Server tracks the listener of a running accept loop (external).    *)
Tracked(s) == acc[s] \in {"accept", "failing"}

(* The select's second case, and the first half of http.Server.Shutdown:   *)
(* mark the server and close the listener if it is tracked.                *)
ServeStop(s) ==
  /\ Running /\ srv[s] = "select" /\ GroupDone
  /\ srv' = [srv EXCEPT ![s] = "shutdown"]
  /\ inShut' = [inShut EXCEPT ![s] = TRUE]
  /\ lst' = IF Tracked(s) THEN [lst EXCEPT ![s] = "closed"] ELSE lst
  /\ UNCHANGED <<mainVars, sigVars, drainVars, groupErr, acc, serveErr, conn>>

(* One round of Shutdown's polling: listenerGroup.Wait, then idle          *)
(* connections are closed, and so are those that stayed new for 5 seconds  *)
(* (old).  It succeeds when no connection is left.                         *)
AfterPoll(s, old) ==
  [c \in Conns |-> IF conn[s][c] = "idle" \/ (conn[s][c] = "new" /\ c \in old)
                     THEN "none" ELSE conn[s][c]]

(* Faulty variant: closing the idle connections is taken for quiescence. *)
IdleClosed(s, old) == TRUE

Quiescent(s, old) == \A c \in Conns : AfterPoll(s, old)[c] = "none"

ShutdownPoll(s, old) ==
  /\ Running /\ srv[s] \in {"shutdown", "polling"} /\ ~Tracked(s)
  /\ conn' = [conn EXCEPT ![s] = AfterPoll(s, old)]
  /\ srv' = [srv EXCEPT ![s] = IF Quiescent(s, old) THEN "await" ELSE "polling"]
  /\ UNCHANGED <<mainVars, sigVars, drainVars, groupErr, acc, serveErr, lst, inShut>>

(* The shutdown timeout passes: Shutdown returns ctx.Err() and leaves the  *)
(* connections as they are.                                                *)
(* Faulty variant: Shutdown is called with a context that has no deadline. *)
NeverExpires(s) == FALSE

ShutdownExpires(s) ==
  /\ Running /\ srv[s] = "polling"
  /\ srv' = [srv EXCEPT ![s] = "expired"]
  /\ groupErr' = FirstError("shutdown")
  /\ UNCHANGED <<mainVars, sigVars, drainVars, acc, serveErr, lst, inShut, conn>>

(* The receive after Shutdown.                                             *)
(* Faulty variant: Serve returns without it. *)
ServeUnawaited(s) == srv[s] = "await"

ServeAwaited(s) == srv[s] = "await" /\ serveErr[s] # "empty"

ServeComplete(s) ==
  /\ Running /\ ServeAwaited(s)
  /\ srv' = [srv EXCEPT ![s] = IF serveErr[s] = "err" THEN "failed" ELSE "ok"]
  /\ groupErr' = IF serveErr[s] = "err" THEN FirstError("serve") ELSE groupErr
  /\ serveErr' = [serveErr EXCEPT ![s] = "empty"]
  /\ UNCHANGED <<mainVars, sigVars, drainVars, acc, lst, inShut, conn>>

-----------------------------------------------------------------------------
(* http.Server.Serve (external): track the listener unless shutting down,  *)
(* accept until Accept fails, untrack and close the listener, return.  The *)
(* goroutine in Serve maps ErrServerClosed to nil.  Untracking and closing *)
(* are two deferred calls in a row, taken as one step: no shutdown timeout *)
(* passes between them.                                                    *)

AccTrack(s) ==
  /\ Running /\ acc[s] = "spawned"
  /\ acc' = [acc EXCEPT ![s] = IF inShut[s] THEN "closing" ELSE "accept"]
  /\ UNCHANGED <<mainVars, sigVars, drainVars, groupErr, srv, serveErr, lst,
                 inShut, conn>>

(* Accept fails: because Shutdown closed the socket, or on its own.        *)
AccFails(s) ==
  /\ Running /\ acc[s] = "accept"
  /\ acc' = [acc EXCEPT ![s] = IF inShut[s] THEN "closing" ELSE "failing"]
  /\ UNCHANGED <<mainVars, sigVars, drainVars, groupErr, srv, serveErr, lst,
                 inShut, conn>>

AccReturn(s) ==
  /\ Running /\ acc[s] \in {"failing", "closing"}
  /\ acc' = [acc EXCEPT ![s] = "returned"]
  /\ lst' = [lst EXCEPT ![s] = "closed"]
  /\ serveErr' = [serveErr EXCEPT ![s] = IF acc[s] = "failing" THEN "err" ELSE "nil"]
  /\ UNCHANGED <<mainVars, sigVars, drainVars, groupErr, srv, inShut, conn>>

(* A connection.  One that Accept had already returned when Shutdown       *)
(* closed the socket is still served: Shutdown waits for the accept loop.  *)
Accept(s, c) ==
  /\ Running /\ acc[s] = "accept" /\ conn[s][c] = "none"
  /\ conn' = [conn EXCEPT ![s][c] = "new"]
  /\ UNCHANGED <<mainVars, sigVars, drainVars, groupErr, srv, acc, serveErr,
                 lst, inShut>>

(* A request arrives and its handler starts.                               *)
Request(s, c) ==
  /\ Running /\ conn[s][c] \in {"new", "idle"}
  /\ conn' = [conn EXCEPT ![s][c] = "active"]
  /\ UNCHANGED <<mainVars, sigVars, drainVars, groupErr, srv, acc, serveErr,
                 lst, inShut>>

(* The handler returns; keep-alive is off while shutting down.             *)
Finish(s, c) ==
  /\ Running /\ conn[s][c] = "active"
  /\ \E after \in IF inShut[s] THEN {"none"} ELSE {"none", "idle"} :
        conn' = [conn EXCEPT ![s][c] = after]
  /\ UNCHANGED <<mainVars, sigVars, drainVars, groupErr, srv, acc, serveErr,
                 lst, inShut>>

(* The peer closes a connection with no request, or one of the header and  *)
(* idle timeouts does.                                                     *)
Hangup(s, c) ==
  /\ Running /\ conn[s][c] \in {"new", "idle"}
  /\ conn' = [conn EXCEPT ![s][c] = "none"]
  /\ UNCHANGED <<mainVars, sigVars, drainVars, groupErr, srv, acc, serveErr,
                 lst, inShut>>

-----------------------------------------------------------------------------
(* The deferred calls of run and start, and os.Exit.  A pipeline's         *)
(* shutdown runs under its own deadline: it flushes or its failure is only *)
(* logged.                                                                 *)

FlushMetrics ==
  /\ Running /\ main = "flushMetrics"
  /\ metrics' \in {"flushed", "lost"}
  /\ main' = "flushTraces"
  /\ UNCHANGED <<runErr, exit, tracing, sigVars, drainVars, srvVars>>

FlushTraces ==
  /\ Running /\ main = "flushTraces"
  /\ tracing' \in {"flushed", "lost"}
  /\ main' = "unforce"
  /\ UNCHANGED <<runErr, exit, metrics, sigVars, drainVars, srvVars>>

StopForced ==
  /\ Running /\ main = "unforce"
  /\ main' = "unnotify"
  /\ UNCHANGED <<runErr, exit, tracing, metrics, sigVars, drainVars, srvVars>>

StopNotify ==
  /\ Running /\ main = "unnotify"
  /\ main' = "exiting"
  /\ ctxDone' = TRUE
  /\ UNCHANGED <<runErr, exit, tracing, metrics, sent, noted, forcedCh, forcer,
                 drainVars, srvVars>>

(* Faulty variant: the error is printed and the status stays 0. *)
ExitZero == "ok"

ExitStatus == IF runErr THEN "error" ELSE "ok"

Exit ==
  /\ Running /\ main = "exiting"
  /\ exit' = ExitStatus
  /\ UNCHANGED <<main, runErr, tracing, metrics, sigVars, drainVars, srvVars>>

(* The process is gone.                                                    *)
Terminated ==
  /\ ~Running
  /\ UNCHANGED vars

-----------------------------------------------------------------------------
StartupStep == RegisterNotifyContext \/ RegisterForced \/ Load \/ BuildLogger

MainStep ==
  \/ StartupStep
  \/ Wire \/ SetupTracing \/ SetupMetrics \/ RecordBuildInfo
  \/ RunAllStart \/ GroupWait \/ RunAllReturn
  \/ FlushMetrics \/ FlushTraces \/ StopForced \/ StopNotify \/ Exit

ForcerStep == ForceDiscard \/ ForceExit

DrainStep ==
  DrainObserve \/ DrainQuit \/ DrainMark \/ DrainTimer \/ DrainAbandon \/ DrainStop

ServerStep(s) ==
  \/ Listen(s) \/ ListenFail(s) \/ ServeReturns(s) \/ ServeStop(s)
  \/ ServeComplete(s)

PollStep(s) == \E old \in SUBSET Conns : ShutdownPoll(s, old)

AccStep(s) == AccTrack(s) \/ AccReturn(s)

ConnStep(s) ==
  \E c \in Conns : Accept(s, c) \/ Request(s, c) \/ Finish(s, c) \/ Hangup(s, c)

Next ==
  \/ Signal \/ ForcerStep \/ MainStep \/ StartupFail \/ DrainStep
  \/ \E s \in Servers :
        \/ ServerStep(s) \/ PollStep(s) \/ ShutdownExpires(s)
        \/ AccStep(s) \/ AccFails(s) \/ ConnStep(s)
  \/ Terminated

Spec == Init /\ [][Next]_vars

(* Every goroutine of the process runs and every timer fires.  Nothing is  *)
(* assumed of signals, of clients, of handlers, or of a socket failing on  *)
(* its own; an accept on a socket Shutdown closed does return.             *)
Fairness ==
  /\ WF_vars(MainStep) /\ WF_vars(ForcerStep) /\ WF_vars(DrainStep)
  /\ \A s \in Servers :
       /\ WF_vars(ServerStep(s))
       /\ WF_vars(PollStep(s))
       /\ WF_vars(ShutdownExpires(s))
       /\ WF_vars(AccStep(s))
       /\ WF_vars(inShut[s] /\ AccFails(s))

(* Nothing is assumed of the servers, the drain or the telemetry shutdown: *)
(* whatever they wait for may never come.  Start-up, the forced-exit       *)
(* goroutine and the way out of start are still scheduled.                 *)
WedgedSpec ==
  Spec /\ WF_vars(ForcerStep)
       /\ WF_vars(StartupStep \/ StopForced \/ StopNotify \/ Exit)

-----------------------------------------------------------------------------
(* What the process promises, stated abstractly: GracefulStop.             *)

Phase == IF main \in Unwinding THEN "flushing"
         ELSE IF GroupDone THEN "stopping"
         ELSE IF draining THEN "holding" ELSE "up"

InFlight == {r \in Servers \X Conns : conn[r[1]][r[2]] = "active"}

Graceful == INSTANCE GracefulStop WITH
  Requests <- Servers \X Conns, phase <- Phase, inFlight <- InFlight,
  failed <- runErr \/ groupErr # "none", status <- exit

(* The lifecycle implements GracefulStop: a signal holds before it stops,  *)
(* status 0 is reached only through a hold and with nothing in flight, an  *)
(* error status only after a failure.                                      *)
ImplementsGracefulStop == Graceful!Spec

-----------------------------------------------------------------------------
(* Properties.                                                             *)

(* Every server stops accepting on a signal only after readiness has been   *)
(* failing for the whole pre-drain delay (drain, server.go:234): the        *)
(* servers' context is not ctx, and stopServing comes last.  A server that  *)
(* fails stops the others at once, without the hold.                        *)
PreDrainHeld ==
  \A s \in Servers : inShut[s] => groupErr # "none" \/ (held /\ draining)

(* Serve owns its listener and closes it before returning (server.go:274), *)
(* on the error, the timeout and the clean path alike, whichever of         *)
(* Shutdown and http.Server.Serve ran first; and a server that returned     *)
(* nil has no http.Server.Serve goroutine left.                             *)
ListenerOwned ==
  \A s \in Servers :
    /\ srv[s] \in Returned => lst[s] # "open"
    /\ srv[s] = "ok" => acc[s] = "returned"

(* Exit status 0 means what an orchestrator takes it to mean: every server  *)
(* drained, no request was abandoned, readiness had failed first and both   *)
(* telemetry pipelines had been shut down.                                  *)
ExitZeroClean ==
  exit = "ok" =>
    /\ held /\ draining
    /\ \A s \in Servers : srv[s] = "ok" /\ \A c \in Conns : conn[s][c] = "none"
    /\ {tracing, metrics} \subseteq {"flushed", "lost"}

(* Unless it is cut short, the process never leaves a telemetry pipeline it *)
(* set up without its shutdown having run, whichever start-up step failed   *)
(* (the deferred shutDown calls of run, main.go:146-155).                   *)
PipelinesShutDown ==
  exit \in {"ok", "error"} => tracing # "up" /\ metrics # "up"

(* The span pipeline is shut down only after the last request has finished, *)
(* unless a server failed or ran out of time: no request of an orderly      *)
(* shutdown ends its span into a closed pipeline.                           *)
SpansBeforeFlush ==
  tracing \in {"flushed", "lost"} /\ groupErr = "none"
    => \A s \in Servers, c \in Conns : conn[s][c] # "active"

(* The sequencer has returned when RunAll has: it is not leaked and it does *)
(* not call stopServing afterwards (server.go:203-205).  And RunAll returns *)
(* only after every server has.                                             *)
RunAllJoined ==
  main \in Unwinding /\ drainer # "off"
    => drainer = "done" /\ AllServersReturned

(* A request is cut off only by the fault of the server it was sent to: its *)
(* own accept loop failed, so that Serve returned at once (server.go:296),  *)
(* or its own shutdown timeout expired.  A sibling that fails first stops   *)
(* the server, but takes nothing from the drain it is owed.                 *)
AbandonedByOwnFault ==
  exit \in {"ok", "error"} =>
    \A s \in Servers, c \in Conns :
      conn[s][c] = "active" => srv[s] \in {"failed", "expired"}

(* The process is forced out only by a second signal, never by the one      *)
(* that begins the graceful shutdown (ForceExitOnSecond).                   *)
ForcedBySecond == exit = "forced" => noted >= 2 /\ ctxDone

(* A server that returned stays returned, and one that drained cleanly      *)
(* never serves another request: nothing restarts a listener or revives a   *)
(* connection after Run has returned nil.                                   *)
DrainedStaysDrained ==
  [][\A s \in Servers : srv[s] = "ok" =>
       srv'[s] = "ok" /\ lst'[s] = lst[s] /\ conn'[s] = conn[s]]_vars

(* A signal seen by the process ends it, whatever handlers and clients do:  *)
(* the hold, the shutdown timeout and the telemetry deadlines bound every   *)
(* wait on the way.  Needs every goroutine and timer of the process.        *)
SignalStops == Fairness => (ctxDone ~> ~Running)

(* A failed server ends the process: the others are not left running.       *)
FailureStops == Fairness => ((groupErr # "none" \/ runErr) ~> ~Running)

(* Two signals after `forced` is registered end the process even when  *)
(* the drain is wedged, also when both arrived before the goroutine that    *)
(* reads the channel was started (main.go:59-65).                           *)
SecondSignalStops == (noted >= 2) ~> ~Running
=============================================================================
