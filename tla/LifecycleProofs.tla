-------------------------- MODULE LifecycleProofs --------------------------
(***************************************************************************)
(* Proofs about Lifecycle, for any number of servers, connections and      *)
(* signals.  The safety properties are not inductive one by one: why a     *)
(* server may be stopping is known only through where the sequencer and    *)
(* the main goroutine are, and why main may have moved on only through     *)
(* what every server returned.  IInv says how those agree.                 *)
(***************************************************************************)
EXTENDS Lifecycle, TLAPS

-----------------------------------------------------------------------------
(* The inductive invariant.                                                *)

(* The stop was announced, or is not a graceful one.                       *)
Announced == groupErr # "none" \/ (held /\ draining)

(* Main before RunAll: nothing of RunAll exists yet.                       *)
BeforeRunAll == {"boot", "notified"} \cup Startup

NothingServed ==
  /\ drainer = "off" /\ groupErr = "none"
  /\ \A s \in Servers : srv[s] = "off"

MainInv ==
  /\ main \in BeforeRunAll => NothingServed /\ ~runErr
  /\ main \in RunningAll => drainer # "off" /\ ~runErr
  /\ main = "joined" => AllServersReturned
  /\ main \in Unwinding =>
       \/ drainer = "off" /\ runErr /\ NothingServed
       \/ drainer = "done" /\ AllServersReturned /\ runErr = (groupErr # "none")
  /\ exit \in {"ok", "error"} => main = "exiting" /\ exit = ExitStatus

(* The pipelines main has set up and not yet shut down.                    *)
PipelineInv ==
  /\ main \in {"boot", "notified", "load", "logger", "wire", "tracing"}
       => tracing = "none" /\ metrics = "none"
  /\ main = "metrics" => tracing = "up" /\ metrics = "none"
  /\ main \in {"record", "runall", "wait", "joined", "flushMetrics"}
       => tracing = "up" /\ metrics = "up"
  /\ main = "flushTraces" => tracing = "up" /\ metrics # "up"
  /\ main \in {"unforce", "unnotify", "exiting"} => tracing # "up" /\ metrics # "up"
  /\ main \in {"flushTraces", "unforce", "unnotify", "exiting"} /\ ~runErr
       => metrics \in {"flushed", "lost"}
  /\ main \in {"unforce", "unnotify", "exiting"} /\ ~runErr
       => tracing \in {"flushed", "lost"}

DrainInv ==
  /\ drainer \in {"hold", "stop"} => draining
  /\ held => draining
  /\ drainer = "stop" => Announced
  /\ serveCancelled => Announced

(* One server: what its goroutine, its accept loop, its listener and its   *)
(* connections may be at the same time.                                    *)
NoConns(s) == \A c \in Conns : conn[s][c] = "none"

SrvInv(s) ==
  /\ srv[s] \in {"off", "listen"} =>
       acc[s] = "none" /\ lst[s] = "none" /\ ~inShut[s] /\ NoConns(s)
  /\ srv[s] = "select" => ~inShut[s] /\ acc[s] # "none"
  /\ srv[s] \in {"shutdown", "polling", "await"} => inShut[s] /\ acc[s] # "none"
  /\ srv[s] = "polling" => lst[s] # "open"
  /\ srv[s] = "await" => NoConns(s) /\ acc[s] \notin {"accept", "failing"}
  /\ srv[s] = "ok" => inShut[s] /\ acc[s] = "returned" /\ NoConns(s)
  /\ srv[s] = "failed" =>
       groupErr # "none" /\ acc[s] \in {"none", "returned"} /\ lst[s] # "open"
  /\ srv[s] = "expired" => groupErr # "none" /\ inShut[s] /\ lst[s] # "open"
  /\ inShut[s] => Announced

AccInv(s) ==
  /\ acc[s] = "none" => NoConns(s) /\ srv[s] \in {"off", "listen", "failed"}
  /\ acc[s] = "spawned" => NoConns(s)
  /\ acc[s] = "returned" => lst[s] = "closed"
  /\ acc[s] = "closing" => inShut[s]
  /\ serveErr[s] # "empty" => acc[s] = "returned"
  /\ serveErr[s] = "nil" => inShut[s]
  /\ inShut[s] /\ lst[s] = "open" => NoConns(s) /\ acc[s] \in {"spawned", "closing"}

ServersInv == \A s \in Servers : SrvInv(s) /\ AccInv(s)

IInv == TypeOK /\ MainInv /\ PipelineInv /\ DrainInv /\ ServersInv

(* The signals the forced-exit goroutine can know of were delivered.       *)
SignalInv ==
  /\ forcedCh + (IF forcer = "second" THEN 1 ELSE 0) <= noted
  /\ noted > 0 => ctxDone
  /\ ForcedBySecond

-----------------------------------------------------------------------------
(* Type correctness.                                                       *)

(* Every step keeps the type invariant.                                    *)
LEMMA TypeStep == TypeOK /\ [Next]_vars => TypeOK'
<1> SUFFICES ASSUME TypeOK, [Next]_vars PROVE TypeOK'
  OBVIOUS
<1> USE MaxSignalsAssumption DEF TypeOK, mainVars, sigVars, drainVars,
                                 srvVars, Running, MainState, Startup,
                                 RunningAll, Unwinding, ExitState, Pipeline,
                                 Drainer, GroupErr, SrvState, AccState,
                                 ConnState
<1>1. CASE Signal
  <2>1. sent' \in 0..MaxSignals /\ sent' = sent + 1 /\ noted \in 0..sent'
    BY <1>1 DEF Signal
  <2>2. noted' \in 0..sent'
    BY <1>1, <2>1 DEF Signal
  <2>3. forcedCh' \in 0..2
    BY <1>1 DEF Signal, Deliver
  <2>4. exit' \in ExitState /\ ctxDone' \in BOOLEAN
    BY <1>1 DEF Signal
  <2>. QED
    BY <1>1, <2>1, <2>2, <2>3, <2>4 DEF Signal
<1>2. CASE ForceDiscard
  BY <1>2 DEF ForceDiscard
<1>3. CASE ForceExit
  BY <1>3 DEF ForceExit
<1>4. CASE RegisterNotifyContext
  BY <1>4 DEF RegisterNotifyContext
<1>5. CASE RegisterForced
  BY <1>5 DEF RegisterForced
<1>6. CASE Load
  BY <1>6 DEF Load
<1>7. CASE BuildLogger
  BY <1>7 DEF BuildLogger
<1>8. CASE Wire
  BY <1>8 DEF Wire
<1>9. CASE SetupTracing
  BY <1>9 DEF SetupTracing
<1>10. CASE SetupMetrics
  BY <1>10 DEF SetupMetrics
<1>11. CASE RecordBuildInfo
  BY <1>11 DEF RecordBuildInfo
<1>12. CASE RunAllStart
  BY <1>12 DEF RunAllStart
<1>13. CASE GroupWait
  BY <1>13 DEF GroupWait, AllServersReturned
<1>14. CASE RunAllReturn
  BY <1>14 DEF RunAllReturn, FirstDefer, SequencerReturned
<1>15. CASE FlushMetrics
  BY <1>15 DEF FlushMetrics
<1>16. CASE FlushTraces
  BY <1>16 DEF FlushTraces
<1>17. CASE StopForced
  BY <1>17 DEF StopForced
<1>18. CASE StopNotify
  BY <1>18 DEF StopNotify
<1>19. CASE Exit
  BY <1>19 DEF Exit, ExitStatus
<1>20. CASE StartupFail
  BY <1>20 DEF StartupFail, FirstDefer
<1>21. CASE DrainObserve
  BY <1>21 DEF DrainObserve
<1>22. CASE DrainQuit
  BY <1>22 DEF DrainQuit, DoneClosed
<1>23. CASE DrainMark
  BY <1>23 DEF DrainMark
<1>24. CASE DrainTimer
  BY <1>24 DEF DrainTimer
<1>25. CASE DrainAbandon
  BY <1>25 DEF DrainAbandon, DoneClosed
<1>26. CASE DrainStop
  BY <1>26 DEF DrainStop
<1>27. ASSUME NEW s \in Servers, Listen(s) PROVE TypeOK'
  BY <1>27 DEF Listen
<1>28. ASSUME NEW s \in Servers, ListenFail(s) PROVE TypeOK'
  BY <1>28 DEF ListenFail, FirstError
<1>29. ASSUME NEW s \in Servers, ServeReturns(s) PROVE TypeOK'
  BY <1>29 DEF ServeReturns, FirstError
<1>30. ASSUME NEW s \in Servers, ServeStop(s) PROVE TypeOK'
  BY <1>30 DEF ServeStop, Tracked, GroupDone
<1>31. ASSUME NEW s \in Servers, ShutdownExpires(s) PROVE TypeOK'
  BY <1>31 DEF ShutdownExpires, FirstError
<1>32. ASSUME NEW s \in Servers, ServeComplete(s) PROVE TypeOK'
  BY <1>32 DEF ServeComplete, FirstError, ServeAwaited
<1>33. ASSUME NEW s \in Servers, AccTrack(s) PROVE TypeOK'
  BY <1>33 DEF AccTrack
<1>34. ASSUME NEW s \in Servers, AccFails(s) PROVE TypeOK'
  BY <1>34 DEF AccFails
<1>35. ASSUME NEW s \in Servers, AccReturn(s) PROVE TypeOK'
  BY <1>35 DEF AccReturn
<1>36. ASSUME NEW s \in Servers, NEW old \in SUBSET Conns, ShutdownPoll(s, old)
     PROVE TypeOK'
  BY <1>36 DEF ShutdownPoll, AfterPoll, Quiescent, Tracked
<1>37. ASSUME NEW s \in Servers, NEW c \in Conns, Accept(s, c) PROVE TypeOK'
  BY <1>37 DEF Accept
<1>38. ASSUME NEW s \in Servers, NEW c \in Conns, Request(s, c) PROVE TypeOK'
  BY <1>38 DEF Request
<1>39. ASSUME NEW s \in Servers, NEW c \in Conns, Finish(s, c) PROVE TypeOK'
  BY <1>39 DEF Finish
<1>40. ASSUME NEW s \in Servers, NEW c \in Conns, Hangup(s, c) PROVE TypeOK'
  BY <1>40 DEF Hangup
<1>41. CASE UNCHANGED vars
  BY <1>41 DEF vars
<1>. QED
  BY <1>1, <1>2, <1>3, <1>4, <1>5, <1>6, <1>7, <1>8, <1>9, <1>10, <1>11,
     <1>12, <1>13, <1>14, <1>15, <1>16, <1>17, <1>18, <1>19, <1>20, <1>21,
     <1>22, <1>23, <1>24, <1>25, <1>26, <1>27, <1>28, <1>29, <1>30, <1>31,
     <1>32, <1>33, <1>34, <1>35, <1>36, <1>37, <1>38, <1>39, <1>40, <1>41
     DEF Next, MainStep, ForcerStep, DrainStep, StartupStep, ServerStep,
         PollStep, AccStep, ConnStep, Terminated

(* The initial state has its type.                                         *)
LEMMA TypeInit == Init => TypeOK
<1> SUFFICES ASSUME Init PROVE TypeOK
  OBVIOUS
<1>1. sent \in 0..MaxSignals /\ noted \in 0..sent /\ forcedCh \in 0..2
  BY MaxSignalsAssumption DEF Init
<1>. QED
  BY <1>1 DEF Init, TypeOK, MainState, Startup, RunningAll, Unwinding,
              ExitState, Pipeline, Drainer, GroupErr, SrvState, AccState,
              ConnState

(* Every variable keeps its type, whatever the servers, connections and    *)
(* number of signals.                                                      *)
THEOREM TypeCorrect == Spec => []TypeOK
  BY TypeInit, TypeStep, PTL DEF Spec

-----------------------------------------------------------------------------
(* The inductive invariant is one.                                         *)

(* When every server has returned, the stop was announced or one failed:   *)
(* a server returns nil only after its shutdown began.                     *)
LEMMA ReturnedAnnounced == IInv /\ AllServersReturned => Announced
  BY ServersAssumption
     DEF IInv, TypeOK, ServersInv, SrvInv, AllServersReturned, Returned, Announced

(* Main sets the pipelines up and shuts them down in reverse order.        *)
LEMMA PipelineStep == IInv /\ [Next]_vars => PipelineInv'
<1> SUFFICES ASSUME IInv, [Next]_vars PROVE PipelineInv'
  OBVIOUS
<1> USE DEF IInv, TypeOK, PipelineInv, MainInv, BeforeRunAll, mainVars,
            sigVars, drainVars, srvVars, Running, MainState, Startup,
            RunningAll, Unwinding
<1>1. CASE Signal
  BY <1>1 DEF Signal, Deliver
<1>2. CASE ForcerStep
  BY <1>2 DEF ForcerStep, ForceDiscard, ForceExit
<1>3. CASE RegisterNotifyContext
  BY <1>3 DEF RegisterNotifyContext
<1>4. CASE RegisterForced
  BY <1>4 DEF RegisterForced
<1>5. CASE Load
  BY <1>5 DEF Load
<1>6. CASE BuildLogger
  BY <1>6 DEF BuildLogger
<1>7. CASE Wire
  BY <1>7 DEF Wire
<1>8. CASE SetupTracing
  BY <1>8 DEF SetupTracing
<1>9. CASE SetupMetrics
  BY <1>9 DEF SetupMetrics
<1>10. CASE RecordBuildInfo
  BY <1>10 DEF RecordBuildInfo
<1>11. CASE RunAllStart
  BY <1>11 DEF RunAllStart
<1>12. CASE GroupWait
  BY <1>12 DEF GroupWait, AllServersReturned
<1>13. CASE RunAllReturn
  BY <1>13 DEF RunAllReturn, FirstDefer, SequencerReturned
<1>14. CASE FlushMetrics
  BY <1>14 DEF FlushMetrics
<1>15. CASE FlushTraces
  BY <1>15 DEF FlushTraces
<1>16. CASE StopForced
  BY <1>16 DEF StopForced
<1>17. CASE StopNotify
  BY <1>17 DEF StopNotify
<1>18. CASE Exit
  BY <1>18 DEF Exit, ExitStatus
<1>19. CASE StartupFail
  BY <1>19 DEF StartupFail, FirstDefer
<1>20. CASE DrainStep
  BY <1>20 DEF DrainStep, DrainObserve, DrainQuit, DoneClosed, DrainMark,
               DrainTimer, DrainAbandon, DrainStop
<1>21. ASSUME NEW s \in Servers, ServerStep(s) PROVE PipelineInv'
  BY <1>21 DEF ServerStep, Listen, ListenFail, FirstError, ServeReturns,
               ServeStop, Tracked, GroupDone, ServeComplete, ServeAwaited
<1>22. ASSUME NEW s \in Servers, NEW old \in SUBSET Conns, ShutdownPoll(s, old)
     PROVE PipelineInv'
  BY <1>22 DEF ShutdownPoll, AfterPoll, Quiescent, Tracked
<1>23. ASSUME NEW s \in Servers, ShutdownExpires(s) PROVE PipelineInv'
  BY <1>23 DEF ShutdownExpires, FirstError
<1>24. ASSUME NEW s \in Servers, AccStep(s) PROVE PipelineInv'
  BY <1>24 DEF AccStep, AccTrack, AccReturn
<1>25. ASSUME NEW s \in Servers, AccFails(s) PROVE PipelineInv'
  BY <1>25 DEF AccFails
<1>26. ASSUME NEW s \in Servers, ConnStep(s) PROVE PipelineInv'
  BY <1>26 DEF ConnStep, Accept, Request, Finish, Hangup
<1>27. CASE UNCHANGED vars
  BY <1>27 DEF vars
<1>. QED
  BY <1>1, <1>2, <1>3, <1>4, <1>5, <1>6, <1>7, <1>8, <1>9, <1>10, <1>11,
     <1>12, <1>13, <1>14, <1>15, <1>16, <1>17, <1>18, <1>19, <1>20, <1>21,
     <1>22, <1>23, <1>24, <1>25, <1>26, <1>27
     DEF Next, MainStep, StartupStep, PollStep, Terminated

(* stopServing is called only for an announced stop.                       *)
LEMMA DrainerStep == IInv /\ [Next]_vars => DrainInv'
<1> SUFFICES ASSUME IInv, [Next]_vars PROVE DrainInv'
  OBVIOUS
<1> USE DEF IInv, TypeOK, DrainInv, MainInv, NothingServed, BeforeRunAll,
            Announced, mainVars, sigVars, drainVars, srvVars, Running,
            MainState, Startup, RunningAll, Unwinding
<1>1. CASE Signal
  BY <1>1 DEF Signal, Deliver
<1>2. CASE ForcerStep
  BY <1>2 DEF ForcerStep, ForceDiscard, ForceExit
<1>3. CASE RegisterNotifyContext
  BY <1>3 DEF RegisterNotifyContext
<1>4. CASE RegisterForced
  BY <1>4 DEF RegisterForced
<1>5. CASE Load
  BY <1>5 DEF Load
<1>6. CASE BuildLogger
  BY <1>6 DEF BuildLogger
<1>7. CASE Wire
  BY <1>7 DEF Wire
<1>8. CASE SetupTracing
  BY <1>8 DEF SetupTracing
<1>9. CASE SetupMetrics
  BY <1>9 DEF SetupMetrics
<1>10. CASE RecordBuildInfo
  BY <1>10 DEF RecordBuildInfo
<1>11. CASE RunAllStart
  BY <1>11 DEF RunAllStart
<1>12. CASE GroupWait
  BY <1>12 DEF GroupWait, AllServersReturned
<1>13. CASE RunAllReturn
  <2>1. Announced
    BY <1>13, ReturnedAnnounced DEF RunAllReturn
  <2>. QED
    BY <1>13, <2>1 DEF RunAllReturn, FirstDefer, SequencerReturned
<1>14. CASE FlushMetrics
  BY <1>14 DEF FlushMetrics
<1>15. CASE FlushTraces
  BY <1>15 DEF FlushTraces
<1>16. CASE StopForced
  BY <1>16 DEF StopForced
<1>17. CASE StopNotify
  BY <1>17 DEF StopNotify
<1>18. CASE Exit
  BY <1>18 DEF Exit, ExitStatus
<1>19. CASE StartupFail
  BY <1>19 DEF StartupFail, FirstDefer
<1>20. CASE DrainObserve
  BY <1>20 DEF DrainObserve
<1>21. CASE DrainQuit
  BY <1>21 DEF DrainQuit, DoneClosed
<1>22. CASE DrainMark
  BY <1>22 DEF DrainMark
<1>23. CASE DrainTimer
  BY <1>23 DEF DrainTimer
<1>24. CASE DrainAbandon
  <2>1. AllServersReturned
    BY <1>24 DEF DrainAbandon, DoneClosed
  <2>2. Announced
    BY <2>1, ReturnedAnnounced
  <2>. QED
    BY <1>24, <2>2 DEF DrainAbandon
<1>25. CASE DrainStop
  BY <1>25 DEF DrainStop
<1>26. ASSUME NEW s \in Servers, ServerStep(s) PROVE DrainInv'
  BY <1>26 DEF ServerStep, Listen, ListenFail, FirstError, ServeReturns,
               ServeStop, Tracked, GroupDone, ServeComplete, ServeAwaited
<1>27. ASSUME NEW s \in Servers, NEW old \in SUBSET Conns, ShutdownPoll(s, old)
     PROVE DrainInv'
  BY <1>27 DEF ShutdownPoll, AfterPoll, Quiescent, Tracked
<1>28. ASSUME NEW s \in Servers, ShutdownExpires(s) PROVE DrainInv'
  BY <1>28 DEF ShutdownExpires, FirstError
<1>29. ASSUME NEW s \in Servers, AccStep(s) PROVE DrainInv'
  BY <1>29 DEF AccStep, AccTrack, AccReturn
<1>30. ASSUME NEW s \in Servers, AccFails(s) PROVE DrainInv'
  BY <1>30 DEF AccFails
<1>31. ASSUME NEW s \in Servers, ConnStep(s) PROVE DrainInv'
  BY <1>31 DEF ConnStep, Accept, Request, Finish, Hangup
<1>32. CASE UNCHANGED vars
  BY <1>32 DEF vars
<1>. QED
  BY <1>1, <1>2, <1>3, <1>4, <1>5, <1>6, <1>7, <1>8, <1>9, <1>10, <1>11,
     <1>12, <1>13, <1>14, <1>15, <1>16, <1>17, <1>18, <1>19, <1>20, <1>21,
     <1>22, <1>23, <1>24, <1>25, <1>26, <1>27, <1>28, <1>29, <1>30, <1>31,
     <1>32
     DEF Next, MainStep, DrainStep, StartupStep, PollStep, Terminated

(* Main waits for every server and for the sequencer.                      *)
LEMMA MainInvStep == IInv /\ [Next]_vars => MainInv'
<1> SUFFICES ASSUME IInv, [Next]_vars PROVE MainInv'
  OBVIOUS
<1> USE DEF IInv, TypeOK, MainInv, ServersInv, SrvInv, AccInv,
            AllServersReturned, Returned, NothingServed, BeforeRunAll,
            ExitStatus, mainVars, sigVars, drainVars, srvVars, Running,
            MainState, Startup, RunningAll, Unwinding
<1>1. CASE Signal
  BY <1>1 DEF Signal, Deliver
<1>2. CASE ForcerStep
  BY <1>2 DEF ForcerStep, ForceDiscard, ForceExit
<1>3. CASE RegisterNotifyContext
  BY <1>3 DEF RegisterNotifyContext
<1>4. CASE RegisterForced
  BY <1>4 DEF RegisterForced
<1>5. CASE Load
  BY <1>5 DEF Load
<1>6. CASE BuildLogger
  BY <1>6 DEF BuildLogger
<1>7. CASE Wire
  BY <1>7 DEF Wire
<1>8. CASE SetupTracing
  BY <1>8 DEF SetupTracing
<1>9. CASE SetupMetrics
  BY <1>9 DEF SetupMetrics
<1>10. CASE RecordBuildInfo
  BY <1>10 DEF RecordBuildInfo
<1>11. CASE RunAllStart
  BY <1>11 DEF RunAllStart
<1>12. CASE GroupWait
  BY <1>12 DEF GroupWait, AllServersReturned
<1>13. CASE RunAllReturn
  BY <1>13 DEF RunAllReturn, FirstDefer, SequencerReturned
<1>14. CASE FlushMetrics
  BY <1>14 DEF FlushMetrics
<1>15. CASE FlushTraces
  BY <1>15 DEF FlushTraces
<1>16. CASE StopForced
  BY <1>16 DEF StopForced
<1>17. CASE StopNotify
  BY <1>17 DEF StopNotify
<1>18. CASE Exit
  BY <1>18 DEF Exit, ExitStatus
<1>19. CASE StartupFail
  BY <1>19 DEF StartupFail, FirstDefer
<1>20. CASE DrainObserve
  BY <1>20 DEF DrainObserve
<1>21. CASE DrainQuit
  BY <1>21 DEF DrainQuit, DoneClosed
<1>22. CASE DrainMark
  BY <1>22 DEF DrainMark
<1>23. CASE DrainTimer
  BY <1>23 DEF DrainTimer
<1>24. CASE DrainAbandon
  BY <1>24 DEF DrainAbandon, DoneClosed
<1>25. CASE DrainStop
  BY <1>25 DEF DrainStop
<1>26. ASSUME NEW s \in Servers, Listen(s) PROVE MainInv'
  BY <1>26 DEF Listen
<1>27. ASSUME NEW s \in Servers, ListenFail(s) PROVE MainInv'
  BY <1>27 DEF ListenFail, FirstError
<1>28. ASSUME NEW s \in Servers, ServeReturns(s) PROVE MainInv'
  BY <1>28 DEF ServeReturns, FirstError
<1>29. ASSUME NEW s \in Servers, ServeStop(s) PROVE MainInv'
  BY <1>29 DEF ServeStop, Tracked, GroupDone
<1>30. ASSUME NEW s \in Servers, ShutdownExpires(s) PROVE MainInv'
  BY <1>30 DEF ShutdownExpires, FirstError
<1>31. ASSUME NEW s \in Servers, ServeComplete(s) PROVE MainInv'
  BY <1>31 DEF ServeComplete, FirstError, ServeAwaited
<1>32. ASSUME NEW s \in Servers, AccTrack(s) PROVE MainInv'
  BY <1>32 DEF AccTrack
<1>33. ASSUME NEW s \in Servers, AccFails(s) PROVE MainInv'
  BY <1>33 DEF AccFails
<1>34. ASSUME NEW s \in Servers, AccReturn(s) PROVE MainInv'
  BY <1>34 DEF AccReturn
<1>35. ASSUME NEW s \in Servers, NEW old \in SUBSET Conns, ShutdownPoll(s, old)
     PROVE MainInv'
  BY <1>35 DEF ShutdownPoll, AfterPoll, Quiescent, Tracked
<1>36. ASSUME NEW s \in Servers, ConnStep(s) PROVE MainInv'
  BY <1>36 DEF ConnStep, Accept, Request, Finish, Hangup
<1>37. CASE UNCHANGED vars
  BY <1>37 DEF vars
<1>. QED
  BY <1>1, <1>2, <1>3, <1>4, <1>5, <1>6, <1>7, <1>8, <1>9, <1>10, <1>11,
     <1>12, <1>13, <1>14, <1>15, <1>16, <1>17, <1>18, <1>19, <1>20, <1>21,
     <1>22, <1>23, <1>24, <1>25, <1>26, <1>27, <1>28, <1>29, <1>30, <1>31,
     <1>32, <1>33, <1>34, <1>35, <1>36, <1>37
     DEF Next, MainStep, DrainStep, StartupStep, ServerStep, PollStep,
         AccStep, Terminated

(* A server, its accept loop, its listener and its connections agree.      *)
LEMMA ServersStep == IInv /\ [Next]_vars => ServersInv'
<1> SUFFICES ASSUME IInv, [Next]_vars PROVE ServersInv'
  OBVIOUS
<1> USE DEF IInv, TypeOK, ServersInv, SrvInv, AccInv, NoConns, Announced,
            MainInv, DrainInv, NothingServed, BeforeRunAll, Startup,
            GroupErr, mainVars, sigVars, drainVars, srvVars, Running
<1>1. CASE Signal
  BY <1>1 DEF Signal, Deliver
<1>2. CASE ForcerStep
  BY <1>2 DEF ForcerStep, ForceDiscard, ForceExit
<1>3. CASE RegisterNotifyContext
  BY <1>3 DEF RegisterNotifyContext
<1>4. CASE RegisterForced
  BY <1>4 DEF RegisterForced
<1>5. CASE Load
  BY <1>5 DEF Load
<1>6. CASE BuildLogger
  BY <1>6 DEF BuildLogger
<1>7. CASE Wire
  BY <1>7 DEF Wire
<1>8. CASE SetupTracing
  BY <1>8 DEF SetupTracing
<1>9. CASE SetupMetrics
  BY <1>9 DEF SetupMetrics
<1>10. CASE RecordBuildInfo
  BY <1>10 DEF RecordBuildInfo
<1>11. CASE RunAllStart
  BY <1>11 DEF RunAllStart
<1>12. CASE GroupWait
  BY <1>12 DEF GroupWait, AllServersReturned
<1>13. CASE RunAllReturn
  BY <1>13 DEF RunAllReturn, FirstDefer, SequencerReturned
<1>14. CASE FlushMetrics
  BY <1>14 DEF FlushMetrics
<1>15. CASE FlushTraces
  BY <1>15 DEF FlushTraces
<1>16. CASE StopForced
  BY <1>16 DEF StopForced
<1>17. CASE StopNotify
  BY <1>17 DEF StopNotify
<1>18. CASE Exit
  BY <1>18 DEF Exit, ExitStatus
<1>19. CASE StartupFail
  BY <1>19 DEF StartupFail, FirstDefer
<1>20. CASE DrainObserve
  BY <1>20 DEF DrainObserve
<1>21. CASE DrainQuit
  BY <1>21 DEF DrainQuit, DoneClosed
<1>22. CASE DrainMark
  BY <1>22 DEF DrainMark
<1>23. CASE DrainTimer
  BY <1>23 DEF DrainTimer
<1>24. CASE DrainAbandon
  BY <1>24 DEF DrainAbandon, DoneClosed
<1>25. CASE DrainStop
  BY <1>25 DEF DrainStop
<1>26. ASSUME NEW s \in Servers, Listen(s) PROVE ServersInv'
  BY <1>26 DEF Listen
<1>27. ASSUME NEW s \in Servers, ListenFail(s) PROVE ServersInv'
  BY <1>27 DEF ListenFail, FirstError
<1>28. ASSUME NEW s \in Servers, ServeReturns(s) PROVE ServersInv'
  BY <1>28 DEF ServeReturns, FirstError
<1>29. ASSUME NEW s \in Servers, ServeStop(s) PROVE ServersInv'
  <2>1. Announced
    BY <1>29 DEF ServeStop, GroupDone
  <2>2. SrvInv(s)' /\ AccInv(s)'
    BY <1>29, <2>1 DEF ServeStop, Tracked, GroupDone, AccState
  <2>3. ASSUME NEW t \in Servers \ {s} PROVE SrvInv(t)' /\ AccInv(t)'
    BY <1>29, <2>3 DEF ServeStop, Tracked
  <2>. QED
    BY <2>2, <2>3
<1>30. ASSUME NEW s \in Servers, ShutdownExpires(s) PROVE ServersInv'
  BY <1>30 DEF ShutdownExpires, FirstError
<1>31. ASSUME NEW s \in Servers, ServeComplete(s) PROVE ServersInv'
  BY <1>31 DEF ServeComplete, FirstError, ServeAwaited
<1>32. ASSUME NEW s \in Servers, AccTrack(s) PROVE ServersInv'
  BY <1>32 DEF AccTrack
<1>33. ASSUME NEW s \in Servers, AccFails(s) PROVE ServersInv'
  BY <1>33 DEF AccFails
<1>34. ASSUME NEW s \in Servers, AccReturn(s) PROVE ServersInv'
  BY <1>34 DEF AccReturn
<1>35. ASSUME NEW s \in Servers, NEW old \in SUBSET Conns, ShutdownPoll(s, old)
     PROVE ServersInv'
  BY <1>35 DEF ShutdownPoll, AfterPoll, Quiescent, Tracked
<1>36. ASSUME NEW s \in Servers, NEW c \in Conns, Accept(s, c) PROVE ServersInv'
  BY <1>36 DEF Accept
<1>37. ASSUME NEW s \in Servers, NEW c \in Conns, Request(s, c) PROVE ServersInv'
  BY <1>37 DEF Request
<1>38. ASSUME NEW s \in Servers, NEW c \in Conns, Finish(s, c) PROVE ServersInv'
  BY <1>38 DEF Finish
<1>39. ASSUME NEW s \in Servers, NEW c \in Conns, Hangup(s, c) PROVE ServersInv'
  BY <1>39 DEF Hangup
<1>40. CASE UNCHANGED vars
  BY <1>40 DEF vars
<1>. QED
  BY <1>1, <1>2, <1>3, <1>4, <1>5, <1>6, <1>7, <1>8, <1>9, <1>10, <1>11,
     <1>12, <1>13, <1>14, <1>15, <1>16, <1>17, <1>18, <1>19, <1>20, <1>21,
     <1>22, <1>23, <1>24, <1>25, <1>26, <1>27, <1>28, <1>29, <1>30, <1>31,
     <1>32, <1>33, <1>34, <1>35, <1>36, <1>37, <1>38, <1>39, <1>40
     DEF Next, MainStep, DrainStep, StartupStep, ServerStep, PollStep,
         AccStep, ConnStep, Terminated

(* The inductive invariant holds throughout.                               *)
THEOREM Inductive == Spec => []IInv
<1>1. Init => IInv
  <2> SUFFICES ASSUME Init PROVE IInv
    OBVIOUS
  <2>1. MainInv /\ PipelineInv /\ DrainInv
    BY DEF Init, MainInv, PipelineInv, DrainInv, NothingServed, Startup,
           RunningAll, Unwinding, BeforeRunAll
  <2>2. ServersInv
    BY DEF Init, ServersInv, SrvInv, AccInv, NoConns
  <2>. QED
    BY TypeInit, <2>1, <2>2 DEF IInv
<1>2. IInv /\ [Next]_vars => IInv'
  BY TypeStep, PipelineStep, DrainerStep, MainInvStep, ServersStep DEF IInv
<1>. QED
  BY <1>1, <1>2, PTL DEF Spec

-----------------------------------------------------------------------------
(* What follows from it.                                                   *)

(* On a signal no server stops accepting before readiness has failed for   *)
(* the pre-drain delay.                                                    *)
THEOREM PreDrainHeldAlways == Spec => []PreDrainHeld
<1>1. IInv => PreDrainHeld
  BY DEF IInv, ServersInv, SrvInv, Announced, PreDrainHeld
<1>. QED
  BY <1>1, Inductive, PTL

(* Run returns with its listener closed on every path, and returns nil     *)
(* only with its accept goroutine finished.                                *)
THEOREM ListenerOwnedAlways == Spec => []ListenerOwned
<1>1. IInv => ListenerOwned
  BY DEF IInv, ServersInv, SrvInv, AccInv, ListenerOwned, Returned
<1>. QED
  BY <1>1, Inductive, PTL

(* Status 0 is reached only with readiness failed and held, every server   *)
(* drained, no connection left and both pipelines shut down.               *)
THEOREM ExitZeroCleanAlways == Spec => []ExitZeroClean
<1>1. IInv => ExitZeroClean
  <2> SUFFICES ASSUME IInv, exit = "ok" PROVE ExitZeroClean
    BY DEF ExitZeroClean
  <2>1. main = "exiting" /\ ~runErr
    BY DEF IInv, MainInv, ExitStatus
  <2>2. AllServersReturned /\ groupErr = "none"
    BY <2>1 DEF IInv, TypeOK, MainInv, Unwinding
  <2>3. \A s \in Servers : srv[s] = "ok" /\ NoConns(s)
    BY <2>2 DEF IInv, ServersInv, SrvInv, AllServersReturned, Returned
  <2>4. held /\ draining
    BY <2>2, ReturnedAnnounced DEF Announced
  <2>5. {tracing, metrics} \subseteq {"flushed", "lost"}
    BY <2>1 DEF IInv, PipelineInv
  <2>. QED
    BY <2>3, <2>4, <2>5 DEF ExitZeroClean, NoConns
<1>. QED
  BY <1>1, Inductive, PTL

(* Whichever start-up step fails, no pipeline is left running.             *)
THEOREM PipelinesShutDownAlways == Spec => []PipelinesShutDown
<1>1. IInv => PipelinesShutDown
  BY DEF IInv, MainInv, PipelineInv, PipelinesShutDown
<1>. QED
  BY <1>1, Inductive, PTL

(* In an orderly shutdown no request is in flight once the span pipeline   *)
(* has been shut down.                                                     *)
THEOREM SpansBeforeFlushAlways == Spec => []SpansBeforeFlush
<1>1. IInv => SpansBeforeFlush
  <2> SUFFICES ASSUME IInv, tracing \in {"flushed", "lost"}, groupErr = "none",
                      NEW s \in Servers, NEW c \in Conns
               PROVE  conn[s][c] # "active"
    BY DEF SpansBeforeFlush
  <2>1. main \in Unwinding
    BY DEF IInv, TypeOK, PipelineInv, MainState, Startup, RunningAll, Unwinding
  <2>2. srv[s] \in {"off", "ok"}
    BY <2>1 DEF IInv, MainInv, NothingServed, AllServersReturned, Returned,
                ServersInv, SrvInv
  <2>. QED
    BY <2>2 DEF IInv, ServersInv, SrvInv, NoConns
<1>. QED
  BY <1>1, Inductive, PTL

(* RunAll returns after the sequencer and after every server.              *)
THEOREM RunAllJoinedAlways == Spec => []RunAllJoined
<1>1. IInv => RunAllJoined
  BY DEF IInv, MainInv, RunAllJoined
<1>. QED
  BY <1>1, Inductive, PTL

(* No request is abandoned on a server that neither failed nor ran out of  *)
(* its own shutdown timeout.                                               *)
THEOREM AbandonedByOwnFaultAlways == Spec => []AbandonedByOwnFault
<1>1. IInv => AbandonedByOwnFault
  <2> SUFFICES ASSUME IInv, exit \in {"ok", "error"},
                      NEW s \in Servers, NEW c \in Conns, conn[s][c] = "active"
               PROVE  srv[s] \in {"failed", "expired"}
    BY DEF AbandonedByOwnFault
  <2>1. main \in Unwinding
    BY DEF IInv, MainInv, Unwinding
  <2>2. srv[s] \in {"off"} \cup Returned
    BY <2>1 DEF IInv, MainInv, NothingServed, AllServersReturned
  <2>. QED
    BY <2>2 DEF IInv, ServersInv, SrvInv, NoConns, Returned
<1>. QED
  BY <1>1, Inductive, PTL

(* A server that returned nil keeps its listener closed and serves nothing *)
(* ever after.                                                             *)
THEOREM DrainedStaysDrainedAlways == Spec => DrainedStaysDrained
<1> DEFINE Stays == \A s \in Servers : srv[s] = "ok" =>
                      srv'[s] = "ok" /\ lst'[s] = lst[s] /\ conn'[s] = conn[s]
<1>1. IInv /\ [Next]_vars => Stays
  <2> SUFFICES ASSUME IInv, [Next]_vars, NEW t \in Servers, srv[t] = "ok"
               PROVE  srv'[t] = "ok" /\ lst'[t] = lst[t] /\ conn'[t] = conn[t]
    OBVIOUS
  <2>1. acc[t] = "returned" /\ (\A c \in Conns : conn[t][c] = "none")
    BY DEF IInv, ServersInv, SrvInv, NoConns
  <2>2. CASE UNCHANGED <<srv, lst, conn>>
    BY <2>2
  <2>3. CASE RunAllStart
    BY <2>3 DEF RunAllStart, IInv, MainInv, NothingServed, BeforeRunAll, Startup
  <2>4. ASSUME NEW s \in Servers, ServerStep(s) \/ ShutdownExpires(s)
        PROVE  srv'[t] = "ok" /\ lst'[t] = lst[t] /\ conn'[t] = conn[t]
    BY <2>4 DEF ServerStep, Listen, ListenFail, ServeReturns, ServeStop,
                ServeComplete, ServeAwaited, ShutdownExpires, IInv, TypeOK
  <2>5. ASSUME NEW s \in Servers, NEW old \in SUBSET Conns, ShutdownPoll(s, old)
        PROVE  srv'[t] = "ok" /\ lst'[t] = lst[t] /\ conn'[t] = conn[t]
    BY <2>5 DEF ShutdownPoll, IInv, TypeOK
  <2>6. ASSUME NEW s \in Servers, AccStep(s) \/ AccFails(s)
        PROVE  srv'[t] = "ok" /\ lst'[t] = lst[t] /\ conn'[t] = conn[t]
    BY <2>1, <2>6 DEF AccStep, AccTrack, AccReturn, AccFails, IInv, TypeOK
  <2>7. ASSUME NEW s \in Servers, NEW c \in Conns,
               Accept(s, c) \/ Request(s, c) \/ Finish(s, c) \/ Hangup(s, c)
        PROVE  srv'[t] = "ok" /\ lst'[t] = lst[t] /\ conn'[t] = conn[t]
    BY <2>1, <2>7 DEF Accept, Request, Finish, Hangup, IInv, TypeOK
  <2>8. CASE Signal \/ ForcerStep \/ StartupFail \/ DrainStep
    BY <2>2, <2>8
       DEF Signal, ForcerStep, ForceDiscard, ForceExit, StartupFail, DrainStep,
           DrainObserve, DrainQuit, DrainMark, DrainTimer, DrainAbandon,
           DrainStop, srvVars
  <2>9. CASE MainStep
    BY <2>2, <2>3, <2>9
       DEF MainStep, StartupStep, RegisterNotifyContext, RegisterForced, Load,
           BuildLogger, Wire, SetupTracing, SetupMetrics, RecordBuildInfo,
           GroupWait, RunAllReturn, FlushMetrics, FlushTraces, StopForced,
           StopNotify, Exit, srvVars
  <2>. QED
    BY <2>2, <2>4, <2>5, <2>6, <2>7, <2>8, <2>9
       DEF Next, PollStep, ConnStep, Terminated, vars, srvVars
<1>. QED
  BY <1>1, Inductive, PTL DEF Spec, DrainedStaysDrained

-----------------------------------------------------------------------------
(* Forced exit.                                                            *)

(* The process is forced out only after two signals: every signal in the   *)
(* channel or already discarded was delivered while it was registered.     *)
THEOREM ForcedBySecondAlways == Spec => []ForcedBySecond
<1>1. Init => SignalInv
  BY DEF Init, SignalInv, ForcedBySecond
<1>2. TypeOK /\ SignalInv /\ [Next]_vars => SignalInv'
  <2> SUFFICES ASSUME TypeOK, SignalInv, [Next]_vars PROVE SignalInv'
    OBVIOUS
  <2>1. CASE UNCHANGED <<exit, noted, forcedCh, forcer, ctxDone>>
    BY <2>1 DEF SignalInv, ForcedBySecond
  <2>2. CASE Signal
    BY <2>2 DEF Signal, Deliver, SignalInv, ForcedBySecond, TypeOK, Running
  <2>3. CASE ForcerStep
    BY <2>3 DEF ForcerStep, ForceDiscard, ForceExit, ForceArmed, SignalInv,
                ForcedBySecond, TypeOK, Running, mainVars, sigVars
  <2>4. CASE MainStep
    <3>1. CASE BuildLogger
      BY <2>4, <3>1 DEF BuildLogger, SignalInv, ForcedBySecond, TypeOK
    <3>2. CASE StopNotify
      BY <2>4, <3>2 DEF StopNotify, SignalInv, ForcedBySecond, TypeOK
    <3>3. CASE Exit
      BY <2>4, <3>3 DEF Exit, ExitStatus, SignalInv, ForcedBySecond, sigVars
    <3>. QED
      BY <2>1, <2>4, <3>1, <3>2, <3>3
         DEF MainStep, StartupStep, RegisterNotifyContext, RegisterForced,
             Load, Wire, SetupTracing, SetupMetrics, RecordBuildInfo,
             RunAllStart, GroupWait, RunAllReturn, FlushMetrics, FlushTraces,
             StopForced, sigVars
  <2>5. CASE StartupFail \/ DrainStep
    BY <2>1, <2>5
       DEF StartupFail, DrainStep, DrainObserve, DrainQuit, DrainMark,
           DrainTimer, DrainAbandon, DrainStop, mainVars, sigVars
  <2>6. ASSUME NEW s \in Servers,
               ServerStep(s) \/ PollStep(s) \/ ShutdownExpires(s)
                 \/ AccStep(s) \/ AccFails(s) \/ ConnStep(s)
        PROVE  SignalInv'
    BY <2>1, <2>6
       DEF ServerStep, Listen, ListenFail, ServeReturns, ServeStop,
           ServeComplete, PollStep, ShutdownPoll, ShutdownExpires, AccStep,
           AccTrack, AccReturn, AccFails, ConnStep, Accept, Request, Finish,
           Hangup, mainVars, sigVars
  <2>. QED
    BY <2>1, <2>2, <2>3, <2>4, <2>5, <2>6
       DEF Next, Terminated, vars, mainVars, sigVars
<1>3. SignalInv => ForcedBySecond
  BY DEF SignalInv
<1>. QED
  BY <1>1, <1>2, <1>3, TypeCorrect, PTL DEF Spec

-----------------------------------------------------------------------------
(* The refinement: Lifecycle implements GracefulStop.  IInv says which     *)
(* parties may be where; the mapping also has to know that a server shuts  *)
(* down only under a done group context, or RunAll could return while the  *)
(* abstract process still holds.                                           *)

(* A server that began its shutdown did so because the group's context was *)
(* done, and that context is never revived.                                *)
StopInv == \A s \in Servers : inShut[s] => GroupDone

(* Before RunAll nobody drains and nobody stops the servers.               *)
QuietInv == drainer = "off" => ~draining /\ ~serveCancelled

RInv == IInv /\ StopInv /\ QuietInv

(* What the abstract process sees of a state.                              *)
Failed == runErr \/ groupErr # "none"

-----------------------------------------------------------------------------
(* The group's context, once done, stays done.                             *)
LEMMA GroupDoneStable == IInv /\ [Next]_vars /\ GroupDone => GroupDone'
<1> SUFFICES ASSUME IInv, [Next]_vars, GroupDone PROVE GroupDone'
  OBVIOUS
<1> USE DEF GroupDone, IInv, TypeOK, GroupErr, mainVars, sigVars, drainVars,
            srvVars
<1>1. CASE UNCHANGED <<serveCancelled, groupErr>>
  BY <1>1
<1>2. CASE RunAllReturn \/ DrainStop
  BY <1>2 DEF RunAllReturn, DrainStop
<1>3. ASSUME NEW s \in Servers, ServerStep(s) \/ ShutdownExpires(s)
      PROVE  GroupDone'
  BY <1>3 DEF ServerStep, Listen, ListenFail, ServeReturns, ServeStop,
              ServeComplete, ShutdownExpires, FirstError
<1>4. ASSUME NEW s \in Servers,
             PollStep(s) \/ AccStep(s) \/ AccFails(s) \/ ConnStep(s)
      PROVE  GroupDone'
  BY <1>1, <1>4 DEF PollStep, ShutdownPoll, AccStep, AccTrack, AccReturn,
              AccFails, ConnStep, Accept, Request, Finish, Hangup
<1>5. CASE Signal \/ ForcerStep \/ StartupFail \/ DrainStep
  BY <1>1, <1>2, <1>5
     DEF Signal, ForcerStep, ForceDiscard, ForceExit, StartupFail, DrainStep,
         DrainObserve, DrainQuit, DrainMark, DrainTimer, DrainAbandon
<1>6. CASE MainStep
  BY <1>1, <1>2, <1>6
     DEF MainStep, StartupStep, RegisterNotifyContext, RegisterForced, Load,
         BuildLogger, Wire, SetupTracing, SetupMetrics, RecordBuildInfo,
         RunAllStart, GroupWait, FlushMetrics, FlushTraces, StopForced,
         StopNotify, Exit
<1>. QED
  BY <1>1, <1>3, <1>4, <1>5, <1>6 DEF Next, Terminated, vars

(* No step marks a server as shutting down under a live group context.     *)
LEMMA StopStep == IInv /\ StopInv /\ [Next]_vars => StopInv'
<1> SUFFICES ASSUME IInv, StopInv, [Next]_vars PROVE StopInv'
  OBVIOUS
<1>1. GroupDone => GroupDone'
  BY GroupDoneStable
<1>2. CASE UNCHANGED inShut
  BY <1>1, <1>2 DEF StopInv
<1>3. ASSUME NEW s \in Servers, ServerStep(s) PROVE StopInv'
  <2>1. CASE ServeStop(s)
    BY <1>1, <2>1 DEF ServeStop, StopInv
  <2>. QED
    BY <1>2, <1>3, <2>1
       DEF ServerStep, Listen, ListenFail, ServeReturns, ServeComplete
<1>4. ASSUME NEW s \in Servers, PollStep(s) \/ ShutdownExpires(s) \/ AccStep(s)
                                  \/ AccFails(s) \/ ConnStep(s)
      PROVE  StopInv'
  BY <1>2, <1>4 DEF PollStep, ShutdownPoll, ShutdownExpires, AccStep, AccTrack,
              AccReturn, AccFails, ConnStep, Accept, Request, Finish, Hangup
<1>5. CASE Signal \/ ForcerStep \/ StartupFail \/ DrainStep
  BY <1>2, <1>5
     DEF Signal, ForcerStep, ForceDiscard, ForceExit, StartupFail, DrainStep,
         DrainObserve, DrainQuit, DrainMark, DrainTimer, DrainAbandon,
         DrainStop, srvVars
<1>6. CASE MainStep
  BY <1>2, <1>6
     DEF MainStep, StartupStep, RegisterNotifyContext, RegisterForced, Load,
         BuildLogger, Wire, SetupTracing, SetupMetrics, RecordBuildInfo,
         RunAllStart, GroupWait, RunAllReturn, FlushMetrics, FlushTraces,
         StopForced, StopNotify, Exit, srvVars
<1>. QED
  BY <1>2, <1>3, <1>4, <1>5, <1>6 DEF Next, Terminated, vars, srvVars

(* Only RunAll starts the sequencer, and only the sequencer and RunAll's   *)
(* return touch the draining flag and the servers' context.                *)
LEMMA QuietStep == IInv /\ QuietInv /\ [Next]_vars => QuietInv'
<1> SUFFICES ASSUME IInv, QuietInv, [Next]_vars PROVE QuietInv'
  OBVIOUS
<1> USE DEF QuietInv, mainVars, sigVars, drainVars, srvVars
<1>1. CASE UNCHANGED drainVars
  BY <1>1
<1>2. CASE DrainStep
  BY <1>2 DEF DrainStep, DrainObserve, DrainQuit, DrainMark, DrainTimer,
              DrainAbandon, DrainStop
<1>3. CASE RunAllStart \/ RunAllReturn
  BY <1>3 DEF RunAllStart, RunAllReturn, SequencerReturned
<1>4. CASE MainStep
  BY <1>1, <1>3, <1>4
     DEF MainStep, StartupStep, RegisterNotifyContext, RegisterForced, Load,
         BuildLogger, Wire, SetupTracing, SetupMetrics, RecordBuildInfo,
         GroupWait, FlushMetrics, FlushTraces, StopForced, StopNotify, Exit
<1>5. CASE Signal \/ ForcerStep \/ StartupFail
  BY <1>1, <1>5 DEF Signal, ForcerStep, ForceDiscard, ForceExit, StartupFail
<1>6. ASSUME NEW s \in Servers,
             ServerStep(s) \/ PollStep(s) \/ ShutdownExpires(s)
               \/ AccStep(s) \/ AccFails(s) \/ ConnStep(s)
      PROVE  QuietInv'
  BY <1>1, <1>6
     DEF ServerStep, Listen, ListenFail, ServeReturns, ServeStop,
         ServeComplete, PollStep, ShutdownPoll, ShutdownExpires, AccStep,
         AccTrack, AccReturn, AccFails, ConnStep, Accept, Request, Finish,
         Hangup
<1>. QED
  BY <1>1, <1>2, <1>4, <1>5, <1>6 DEF Next, Terminated, vars

(* The invariant the refinement rests on.                                  *)
LEMMA RefinementInvariant == Spec => []RInv
<1>1. Init => StopInv /\ QuietInv
  BY DEF Init, StopInv, QuietInv
<1>2. IInv /\ StopInv /\ QuietInv /\ [Next]_vars => StopInv' /\ QuietInv'
  BY StopStep, QuietStep
<1>. QED
  BY <1>1, <1>2, Inductive, PTL DEF Spec, RInv

-----------------------------------------------------------------------------
(* Facts about the mapping.                                                *)

(* When every server has returned, the group's context is done.            *)
LEMMA ReturnedGroupDone == RInv /\ AllServersReturned => GroupDone
  BY ServersAssumption
     DEF RInv, StopInv, IInv, ServersInv, SrvInv, AllServersReturned, Returned,
         GroupDone

(* Once main unwinds without a failure no connection is left, on any       *)
(* server, and none can come up again.                                     *)
LEMMA UnwoundIdle ==
  ASSUME RInv, main \in Unwinding, ~Failed, NEW s \in Servers
  PROVE  NoConns(s) /\ acc[s] # "accept"
<1>1. drainer = "done" /\ AllServersReturned /\ groupErr = "none"
  BY DEF RInv, IInv, TypeOK, MainInv, Failed
<1>2. srv[s] = "ok"
  BY <1>1 DEF AllServersReturned, Returned, RInv, IInv, ServersInv, SrvInv
<1>. QED
  BY <1>2 DEF RInv, IInv, ServersInv, SrvInv

(* When every server has returned without a failure nothing is in flight.  *)
LEMMA ReturnedIdle ==
  ASSUME RInv, AllServersReturned, groupErr = "none"
  PROVE  InFlight = {}
<1>1. \A s \in Servers : NoConns(s)
  BY DEF RInv, IInv, ServersInv, SrvInv, AllServersReturned, Returned
<1>. QED
  BY <1>1 DEF InFlight, NoConns

(* Main is not unwinding while a server still runs.                        *)
LEMMA ServingNotUnwinding ==
  ASSUME RInv, NEW s \in Servers, srv[s] \notin Returned \cup {"off"}
  PROVE  main \notin Unwinding
  BY DEF RInv, IInv, MainInv, NothingServed, AllServersReturned, Returned

(* A step that leaves main, the contexts, the failures and the status      *)
(* alone is one of the abstract process serving, or a stutter.             *)
LEMMA ServeStep ==
  ASSUME RInv, UNCHANGED <<mainVars, drainVars, groupErr>>, Running,
         main \in Unwinding /\ ~Failed => UNCHANGED conn
  PROVE  [Graceful!Next]_(Graceful!vars)
<1>1. UNCHANGED <<Phase, Failed, exit>>
  BY DEF Phase, GroupDone, Failed, mainVars, drainVars
<1>2. CASE UNCHANGED conn
  BY <1>1, <1>2 DEF InFlight, Graceful!vars, Failed
<1>3. CASE ~(main \in Unwinding /\ ~Failed)
  <2>1. Graceful!Serve
    BY <1>1, <1>3 DEF Graceful!Serve, Graceful!Alive, Running, Phase, InFlight, Failed
  <2>. QED
    BY <2>1 DEF Graceful!Next
<1>. QED
  BY <1>2, <1>3

-----------------------------------------------------------------------------
(* The steps of the main goroutine.                                        *)

(* Main's steps before and after RunAll are invisible, but for a failed    *)
(* start-up, RunAll's return and the exit.                                 *)
LEMMA MainRefines ==
  ASSUME RInv, MainStep \/ StartupFail
  PROVE  [Graceful!Next]_(Graceful!vars)
<1> USE DEF mainVars, drainVars, srvVars
<1>1. CASE /\ UNCHANGED <<runErr, exit, groupErr, serveCancelled, draining, conn>>
           /\ (main \in Unwinding) <=> (main' \in Unwinding)
  BY <1>1 DEF Phase, GroupDone, InFlight, Failed, Graceful!vars
<1>2. CASE StartupFail
  <2>1. NothingServed /\ ~runErr
    BY <1>2 DEF StartupFail, RInv, IInv, MainInv, BeforeRunAll
  <2>2. InFlight = {}
    BY <2>1 DEF InFlight, NothingServed, RInv, IInv, ServersInv, SrvInv, NoConns
  <2>3. main \notin Unwinding /\ main' \in Unwinding
    BY <1>2 DEF StartupFail, FirstDefer, Startup, Unwinding
  <2>4. Phase = "up" /\ Phase' = "flushing"
    BY <2>1, <2>3 DEF NothingServed, RInv, QuietInv, Phase, GroupDone
  <2>5. Graceful!Abort
    BY <1>2, <2>1, <2>2, <2>4
       DEF StartupFail, Graceful!Abort, Graceful!Alive, Running, InFlight
  <2>. QED
    BY <2>5 DEF Graceful!Next
<1>3. CASE RunAllReturn
  <2>1. AllServersReturned /\ ~runErr
    BY <1>3 DEF RunAllReturn, RInv, IInv, MainInv, RunningAll
  <2>2. GroupDone
    BY <2>1, ReturnedGroupDone
  <2>3. groupErr # "none" \/ InFlight = {}
    BY <2>1, ReturnedIdle
  <2>4. Phase = "stopping" /\ Phase' = "flushing"
    BY <1>3, <2>2 DEF RunAllReturn, FirstDefer, Phase, Unwinding
  <2>5. Graceful!Flush
    BY <1>3, <2>1, <2>3, <2>4
       DEF RunAllReturn, Graceful!Flush, Graceful!Alive, Running, InFlight
  <2>. QED
    BY <2>5 DEF Graceful!Next
<1>4. CASE Exit
  <2>1. (runErr \/ groupErr # "none") <=> runErr
    BY <1>4 DEF Exit, RInv, IInv, TypeOK, MainInv, NothingServed, Unwinding
  <2>2. Graceful!Exit
    BY <1>4, <2>1 DEF Exit, ExitStatus, Graceful!Exit, Graceful!Alive, Running,
                      Phase, GroupDone, InFlight, Unwinding
  <2>. QED
    BY <2>2 DEF Graceful!Next
<1>5. CASE StartupStep \/ Wire \/ SetupTracing \/ SetupMetrics
             \/ RecordBuildInfo \/ RunAllStart \/ GroupWait
  BY <1>1, <1>5
     DEF StartupStep, RegisterNotifyContext, RegisterForced, Load, BuildLogger,
         Wire, SetupTracing, SetupMetrics, RecordBuildInfo, RunAllStart,
         GroupWait, Unwinding
<1>6. CASE FlushMetrics \/ FlushTraces \/ StopForced \/ StopNotify
  BY <1>1, <1>6 DEF FlushMetrics, FlushTraces, StopForced, StopNotify, Unwinding
<1>. QED
  BY <1>2, <1>3, <1>4, <1>5, <1>6 DEF MainStep

-----------------------------------------------------------------------------
(* The steps of the other parties.                                         *)

(* Signals and the forced exit cut the process short or are invisible.     *)
LEMMA SignalRefines ==
  ASSUME RInv, Signal \/ ForcerStep
  PROVE  [Graceful!Next]_(Graceful!vars)
<1> USE DEF mainVars, drainVars, srvVars
<1>1. UNCHANGED <<Phase, InFlight, runErr, groupErr>>
  BY DEF Signal, ForcerStep, ForceDiscard, ForceExit, Phase, GroupDone, InFlight
<1>2. Running /\ exit' \in {exit, "forced", "killed"}
  BY DEF Signal, ForcerStep, ForceDiscard, ForceExit
<1>3. CASE exit' = exit
  BY <1>1, <1>3 DEF Graceful!vars
<1>4. CASE exit' \in {"forced", "killed"}
  BY <1>1, <1>2, <1>4 DEF Graceful!Next, Graceful!CutShort, Graceful!Alive, Running
<1>. QED
  BY <1>2, <1>3, <1>4

(* The sequencer's mark is the hold, its stopServing the stop; both are    *)
(* invisible when a server has failed already.                             *)
LEMMA DrainRefines ==
  ASSUME RInv, DrainStep
  PROVE  [Graceful!Next]_(Graceful!vars)
<1> USE DEF mainVars, drainVars, srvVars
<1>1. CASE UNCHANGED <<draining, serveCancelled>>
  BY <1>1 DEF DrainStep, DrainObserve, DrainQuit, DrainMark, DrainTimer,
              DrainAbandon, DrainStop, Phase, GroupDone, InFlight, Graceful!vars
<1>2. CASE DrainMark
  <2>1. UNCHANGED <<InFlight, runErr, groupErr, exit, main, serveCancelled>>
    BY <1>2 DEF DrainMark, InFlight
  <2>2. CASE Phase = "up"
    <3>1. Phase' = "holding"
      BY <1>2, <2>2 DEF DrainMark, Phase, GroupDone
    <3>. QED
      BY <1>2, <2>1, <2>2, <3>1
         DEF DrainMark, Graceful!Next, Graceful!Hold, Graceful!Alive, Running
  <2>3. CASE Phase # "up"
    <3>1. Phase' = Phase
      BY <1>2, <2>3 DEF DrainMark, Phase, GroupDone
    <3>. QED
      BY <2>1, <3>1 DEF Graceful!vars
  <2>. QED
    BY <2>2, <2>3
<1>3. CASE DrainStop
  <2>1. UNCHANGED <<InFlight, runErr, groupErr, exit, main, draining>>
    BY <1>3 DEF DrainStop, InFlight
  <2>2. draining /\ main \notin Unwinding
    BY <1>3 DEF DrainStop, RInv, IInv, DrainInv, MainInv
  <2>3. CASE GroupDone
    <3>1. Phase' = Phase
      BY <1>3, <2>3 DEF DrainStop, Phase, GroupDone
    <3>. QED
      BY <2>1, <3>1 DEF Graceful!vars
  <2>4. CASE ~GroupDone
    <3>1. Phase = "holding" /\ Phase' = "stopping"
      BY <1>3, <2>2, <2>4 DEF DrainStop, Phase, GroupDone
    <3>. QED
      BY <1>3, <2>1, <3>1
         DEF DrainStop, Graceful!Next, Graceful!Stop, Graceful!Alive, Running
  <2>. QED
    BY <2>3, <2>4
<1>. QED
  BY <1>1, <1>2, <1>3
     DEF DrainStep, DrainObserve, DrainQuit, DrainTimer, DrainAbandon

(* A server that fails is the abstract failure; everything else a server   *)
(* does is serving.                                                        *)
LEMMA ServerRefines ==
  ASSUME RInv, NEW s \in Servers,
         ServerStep(s) \/ PollStep(s) \/ ShutdownExpires(s)
           \/ AccStep(s) \/ AccFails(s) \/ ConnStep(s)
  PROVE  [Graceful!Next]_(Graceful!vars)
<1> USE DEF mainVars, drainVars, srvVars
<1>1. CASE ServerStep(s) \/ ShutdownExpires(s)
  <2>1. Running /\ UNCHANGED <<mainVars, drainVars, conn>>
    BY <1>1 DEF ServerStep, Listen, ListenFail, ServeReturns, ServeStop,
                ServeComplete, ShutdownExpires
  <2>2. CASE groupErr' = groupErr
    BY <2>1, <2>2, ServeStep
  <2>3. CASE groupErr' # groupErr
    <3>1. groupErr = "none" /\ groupErr' # "none"
      BY <1>1, <2>3 DEF ServerStep, Listen, ListenFail, ServeReturns, ServeStop,
                        ServeComplete, ShutdownExpires, FirstError
    <3>2. srv[s] \notin Returned \cup {"off"}
      BY <1>1 DEF ServerStep, Listen, ListenFail, ServeReturns, ServeStop,
                  ServeComplete, ServeAwaited, ShutdownExpires, Returned
    <3>3. main \notin Unwinding
      BY <3>2, ServingNotUnwinding
    <3>4. Graceful!Fail
      BY <2>1, <3>1, <3>3
         DEF Graceful!Fail, Graceful!Alive, Running, Phase, GroupDone, InFlight
    <3>. QED
      BY <3>4 DEF Graceful!Next
  <2>. QED
    BY <2>2, <2>3
<1>2. CASE PollStep(s)
  <2>1. Running /\ UNCHANGED <<mainVars, drainVars, groupErr>>
    BY <1>2 DEF PollStep, ShutdownPoll
  <2>2. main \notin Unwinding
    BY <1>2, ServingNotUnwinding DEF PollStep, ShutdownPoll, Returned
  <2>. QED
    BY <2>1, <2>2, ServeStep
<1>3. CASE AccStep(s) \/ AccFails(s)
  BY <1>3, ServeStep DEF AccStep, AccTrack, AccReturn, AccFails
<1>4. CASE ConnStep(s)
  <2>1. Running /\ UNCHANGED <<mainVars, drainVars, groupErr>>
    BY <1>4 DEF ConnStep, Accept, Request, Finish, Hangup
  <2>2. ~(main \in Unwinding /\ ~Failed)
    BY <1>4, UnwoundIdle DEF ConnStep, Accept, Request, Finish, Hangup, NoConns
  <2>. QED
    BY <2>1, <2>2, ServeStep
<1>. QED
  BY <1>1, <1>2, <1>3, <1>4

-----------------------------------------------------------------------------
(* Every behaviour of the process is one GracefulStop allows: the hold     *)
(* comes before the stop, status 0 only after both and with nothing in     *)
(* flight, and a failure never ends in status 0.                           *)
THEOREM LifecycleImplementsGracefulStop == Spec => ImplementsGracefulStop
<1>1. Init => Graceful!Init
  BY DEF Init, Graceful!Init, Phase, GroupDone, InFlight, Unwinding
<1>2. RInv /\ [Next]_vars => [Graceful!Next]_(Graceful!vars)
  <2> SUFFICES ASSUME RInv, [Next]_vars
               PROVE  [Graceful!Next]_(Graceful!vars)
    OBVIOUS
  <2>1. CASE UNCHANGED vars
    BY <2>1 DEF vars, mainVars, drainVars, srvVars, Phase, GroupDone, InFlight,
                Graceful!vars
  <2>. QED
    BY <2>1, MainRefines, SignalRefines, DrainRefines, ServerRefines
       DEF Next, Terminated
<1>. QED
  BY <1>1, <1>2, RefinementInvariant, PTL
     DEF Spec, ImplementsGracefulStop, Graceful!Spec
=============================================================================
