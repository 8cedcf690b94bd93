------------------------------ MODULE Outbound ------------------------------
(***************************************************************************)
(* internal/httpclient: a client built by New and the calls made through   *)
(* it to one host.  New validates its Config and builds an http.Transport, *)
(* whose pool of connections (external) is modelled from the fields this   *)
(* code sets: a call takes an idle connection, or dials if the host's cap  *)
(* allows, or waits; a dial outlives the call it was begun for, and its    *)
(* connection serves another call or goes idle.  Peers may hang anywhere,  *)
(* and a caller need not read or close the body it got.                    *)
(*                                                                         *)
(* Durations are -1, 0 or 1: negative, zero, set.                          *)
(***************************************************************************)
EXTENDS TraceContext, Integers, FiniteSets

CONSTANTS
  Calls,     \* the calls made, each once
  Conns,     \* connection slots: bound on the connections open at a time
  NoCall,    \* no call
  MaxCount   \* bound on the values of the counts

ASSUME CallsAssumption == NoCall \notin Calls
ASSUME MaxCountAssumption == MaxCount \in Nat

VARIABLES
  cfg,        \* the Config passed to New
  client,     \* "unbuilt", "refused" or "built"
  pool,       \* the settings the client and its transport were given
  conn,       \* the transport's connections, and for which call each is
  call,       \* where each call is
  closeIdle,  \* Transport.closeIdle
  retired,    \* CloseIdleConnections was called and no call made since (history)
  inbound,    \* the request the calls are made for
  wired,      \* the telemetry the server and the client were built with
  told        \* the trace each call told the peer of

vars == <<cfg, client, pool, conn, call, closeIdle, retired, inbound, wired, told>>
poolVars == <<conn, call, closeIdle, retired, told>>
fixed == <<cfg, client, pool, inbound, wired>>

Durations == {"Timeout", "ConnectTimeout", "TLSHandshakeTimeout",
              "ResponseHeaderTimeout", "IdleConnTimeout"}
Counts == {"MaxConnsPerHost", "MaxIdleConns", "MaxIdleConnsPerHost"}

Configs ==
  {c \in [Durations \cup Counts -> -1..MaxCount] : \A d \in Durations : c[d] <= 1}

Default == [s \in Durations \cup Counts |-> 1]

Free   == [st |-> "none", for |-> NoCall]
Idle   == [st |-> "idle", for |-> NoCall]
Dial(c) == [st |-> "dial", for |-> c]
Busy(c) == [st |-> "busy", for |-> c]

Wirings ==
  UNION {[server : {NilTelemetry, SetupTracing(endpoint)},
          client : {NilTelemetry, SetupTracing(endpoint)}] : endpoint \in BOOLEAN}

(* The trace has no bearing on the pool: its cases are taken with the      *)
(* default settings, and every setting with one case of them.              *)
Init ==
  /\ \/ cfg \in Configs /\ inbound = [probe |-> FALSE, trace |-> NoTrace]
        /\ wired = [server |-> NilTelemetry, client |-> NilTelemetry]
     \/ cfg = Default /\ inbound \in Inbound /\ wired \in Wirings
  /\ client = "unbuilt" /\ pool = cfg
  /\ conn = [k \in Conns |-> Free]
  /\ call = [c \in Calls |-> "new"]
  /\ closeIdle = FALSE /\ retired = FALSE
  /\ told = [c \in Calls |-> NoTrace]

-----------------------------------------------------------------------------
(* New.                                                                    *)

(* Config.validate: the settings that cannot be meant.                     *)
(* Faulty variant: zero is let through for durations too. *)
InvalidNegative(c) == {s \in Durations \cup Counts : c[s] < 0}

Invalid(c) == {d \in Durations : c[d] <= 0} \cup {n \in Counts : c[n] < 0}

(* newTransport and New: every setting is handed on.                       *)
(* Faulty variant: the cap on connections keeps net/http's zero value. *)
NewTransportUncapped(c) == [c EXCEPT !["MaxConnsPerHost"] = 0]

NewTransport(c) == c

New ==
  /\ client = "unbuilt"
  /\ IF Invalid(cfg) = {} THEN client' = "built" /\ pool' = NewTransport(cfg)
                          ELSE client' = "refused" /\ UNCHANGED pool
  /\ UNCHANGED <<cfg, poolVars, inbound, wired>>

-----------------------------------------------------------------------------
(* http.Transport (external).  Each operator yields the possible           *)
(* <<connections, calls>> after it.                                        *)

Open(cn) == {k \in Conns : cn[k] # Free}
IdleIn(cn) == {k \in Conns : cn[k] = Idle}
Dialing(cn, c) == \E k \in Conns : cn[k].for = c /\ cn[k].st \in {"dial", "tls"}
Waiting(ca) == {c \in Calls : ca[c] = "wait"}

(* Zero is net/http's own default of 2 here, and no bound for the others.  *)
IdlePerHost == IF pool["MaxIdleConnsPerHost"] = 0 THEN 2 ELSE pool["MaxIdleConnsPerHost"]
MayDial == pool["MaxConnsPerHost"] = 0 \/ Cardinality(Open(conn)) < pool["MaxConnsPerHost"]

(* Slots differ in nothing: any one will do.                               *)
FreeSlot == CHOOSE k \in Conns : conn[k] = Free

(* Connection k is closed: its slot goes to a call that waits for one.     *)
Close(cn, ca, k) ==
  LET next == {c \in Waiting(ca) : ~Dialing([cn EXCEPT ![k] = Free], c)}
  IN  IF next = {} THEN {<<[cn EXCEPT ![k] = Free], ca>>}
      ELSE {<<[cn EXCEPT ![k] = Dial(c)], ca>> : c \in next}

(* Connection k is no longer used: a waiting call gets it, or it is kept   *)
(* idle, within the bounds.                                                *)
PutIdle(cn, ca, k) ==
  LET kept == [cn EXCEPT ![k] = Idle]
  IN  IF Waiting(ca) # {}
        THEN {<<[cn EXCEPT ![k] = Busy(c)], [ca EXCEPT ![c] = "sent"]>> : c \in Waiting(ca)}
      ELSE IF closeIdle \/ Cardinality(IdleIn([cn EXCEPT ![k] = Free])) >= IdlePerHost
        THEN Close(cn, ca, k)
      ELSE IF pool["MaxIdleConns"] # 0 /\ Cardinality(IdleIn(kept)) > pool["MaxIdleConns"]
        THEN {<<[kept EXCEPT ![v] = Free], ca>> : v \in IdleIn(kept)}
      ELSE {<<kept, ca>>}

(* http.Client.Do: the span is begun and injected, then a connection is    *)
(* sought.                                                                 *)
Begin(c) ==
  /\ client = "built" /\ call[c] = "new"
  /\ told' = [told EXCEPT ![c] = Told(wired.client, ServerContext(wired.server, inbound))]
  /\ closeIdle' = FALSE /\ retired' = FALSE
  /\ \/ \E k \in IdleIn(conn) :
          /\ conn' = [conn EXCEPT ![k] = Busy(c)]
          /\ call' = [call EXCEPT ![c] = "sent"]
     \/ /\ IdleIn(conn) = {} /\ MayDial /\ Open(conn) # Conns
        /\ conn' = [conn EXCEPT ![FreeSlot] = Dial(c)]
        /\ call' = [call EXCEPT ![c] = "wait"]
     \/ /\ IdleIn(conn) = {} /\ ~MayDial
        /\ call' = [call EXCEPT ![c] = "wait"] /\ UNCHANGED conn
  /\ UNCHANGED fixed

(* What a step makes of the pool, from a set of outcomes.                  *)
Becomes(outcomes) ==
  /\ \E o \in outcomes : conn' = o[1] /\ call' = o[2]
  /\ UNCHANGED <<fixed, closeIdle, retired, told>>

Connected(k) ==
  /\ conn[k].st = "dial"
  /\ Becomes({<<[conn EXCEPT ![k].st = "tls"], call>>})

(* The handshake ends: the call it was begun for gets the connection if it *)
(* still waits.                                                            *)
Ready(k) ==
  /\ conn[k].st = "tls"
  /\ LET c == conn[k].for
     IN  Becomes(IF call[c] = "wait"
                   THEN {<<[conn EXCEPT ![k] = Busy(c)], [call EXCEPT ![c] = "sent"]>>}
                   ELSE PutIdle(conn, call, k))

DialFailed(k) ==
  LET c == conn[k].for
  IN  Becomes(Close(conn, IF call[c] = "wait" THEN [call EXCEPT ![c] = "err"] ELSE call, k))

DialFails(k) == conn[k].st \in {"dial", "tls"} /\ DialFailed(k)

ConnectExpires(k) ==
  conn[k].st = "dial" /\ pool["ConnectTimeout"] > 0 /\ DialFailed(k)

HandshakeExpires(k) ==
  conn[k].st = "tls" /\ pool["TLSHandshakeTimeout"] > 0 /\ DialFailed(k)

(* Call c ends with outcome r and takes its connection, if it has one,     *)
(* with it; a dial under way goes on.                                      *)
End(c, r) ==
  LET done == [call EXCEPT ![c] = r]
      mine == {k \in Conns : conn[k] = Busy(c)}
  IN  Becomes(IF mine = {} THEN {<<conn, done>>}
              ELSE UNION {Close(conn, done, k) : k \in mine})

Headers(c) ==
  /\ call[c] = "sent"
  /\ Becomes({<<conn, [call EXCEPT ![c] = "body"]>>})

(* The body is read to its end, and the connection can be used again.      *)
ReadToEnd(c) ==
  /\ call[c] = "body"
  /\ \E k \in Conns : /\ conn[k] = Busy(c)
                      /\ Becomes(PutIdle(conn, [call EXCEPT ![c] = "ok"], k))

CloseBody(c) == call[c] = "body" /\ End(c, "ok")

(* The peer resets the connection, or the caller's context is cancelled.   *)
Aborted(c) == call[c] \in {"wait", "sent", "body"} /\ End(c, "err")

HeadersExpire(c) ==
  call[c] = "sent" /\ pool["ResponseHeaderTimeout"] > 0 /\ End(c, "err")

(* http.Client.Timeout, from Do to the end of the body.                    *)
TimeoutExpires(c) ==
  call[c] \in {"wait", "sent", "body"} /\ pool["Timeout"] > 0 /\ End(c, "err")

IdleExpires(k) ==
  conn[k] = Idle /\ pool["IdleConnTimeout"] > 0 /\ Becomes(Close(conn, call, k))

PeerCloses(k) == conn[k] = Idle /\ Becomes(Close(conn, call, k))

(* http.Client.CloseIdleConnections, which finds closeable's method.       *)
(* Faulty variant: otelhttp's transport, which has none, is asked. *)
NothingToAsk == UNCHANGED <<conn, closeIdle>>

CloseIdlePool ==
  /\ conn' = [k \in Conns |-> IF conn[k] = Idle THEN Free ELSE conn[k]]
  /\ closeIdle' = TRUE

CloseIdleConnections ==
  /\ client = "built"
  /\ CloseIdlePool
  /\ retired' = TRUE
  /\ UNCHANGED <<fixed, call, told>>

Refused == client = "refused" /\ UNCHANGED vars

Next ==
  \/ New \/ CloseIdleConnections \/ Refused
  \/ \E c \in Calls :
       \/ Begin(c) \/ Headers(c) \/ ReadToEnd(c) \/ CloseBody(c) \/ Aborted(c)
       \/ HeadersExpire(c) \/ TimeoutExpires(c)
  \/ \E k \in Conns :
       \/ Connected(k) \/ Ready(k) \/ DialFails(k) \/ ConnectExpires(k)
       \/ HandshakeExpires(k) \/ IdleExpires(k) \/ PeerCloses(k)

(* While some timer is due, one fires.  Nothing is assumed of peers,       *)
(* networks or callers.                                                    *)
Timer ==
  \/ \E c \in Calls : TimeoutExpires(c)
  \/ \E k \in Conns : ConnectExpires(k) \/ HandshakeExpires(k) \/ IdleExpires(k)

Spec == Init /\ [][Next]_vars /\ WF_vars(Timer)

-----------------------------------------------------------------------------
(* Properties.                                                             *)

(* The connections to a host, those being dialled for calls that have since *)
(* given up included, never exceed the cap the operator asked for.          *)
PoolBounded ==
  /\ cfg["MaxConnsPerHost"] > 0 =>
       Cardinality(Open(conn)) <= cfg["MaxConnsPerHost"]
  /\ \A s \in {"MaxIdleConns", "MaxIdleConnsPerHost"} :
       cfg[s] > 0 => Cardinality(IdleIn(conn)) <= cfg[s]

(* After CloseIdleConnections, and until the next call, the client holds no *)
(* idle connection: neither the ones it had nor those that calls and dials  *)
(* still under way give back later (closeable, instrument.go:61); and it    *)
(* took none from a call: each one under way still has its own, alone.      *)
RetiredHoldsNone ==
  retired =>
    /\ IdleIn(conn) = {}
    /\ \A c \in Calls :
         Cardinality({k \in Conns : conn[k] = Busy(c)}) =
           IF call[c] \in {"sent", "body"} THEN 1 ELSE 0

(* A call made on behalf of a traced request tells the peer of that trace,  *)
(* with the caller's sampling decision, whether or not this process exports *)
(* (Tracing, telemetry.go:95-120); and a trace the peer is told of, if it   *)
(* began here, is one this process records.                                 *)
TraceJoined ==
  \A c \in Calls : call[c] # "new" =>
    /\ NilTelemetry \notin {wired.server, wired.client} /\ ~inbound.probe
         /\ inbound.trace # NoTrace => told[c] = inbound.trace
    /\ told[c].by = "service" => "sdk" \in {wired.server.tracer, wired.client.tracer}

(* Every call ends and no connection is kept for ever, although peers hang, *)
(* the pool is exhausted by other hung calls, callers forget bodies and     *)
(* dials outlive the calls they were begun for: there is no client without  *)
(* a timeout for each of these.  (A call is made once, so in the end none   *)
(* is under way.)                                                           *)
Quiesces ==
  <>[](Open(conn) = {} /\ \A c \in Calls : call[c] \in {"new", "ok", "err"})
=============================================================================
