---------------------------- MODULE TraceContext ----------------------------
(***************************************************************************)
(* internal/telemetry/telemetry.go, with newTracingHandler                 *)
(* (internal/server/handler.go) and instrument                             *)
(* (internal/httpclient/instrument.go): which trace a request belongs to   *)
(* and which one a peer called on its behalf is told of.                   *)
(*                                                                         *)
(* A trace context is who began the trace and whether it is sampled.       *)
(***************************************************************************)
EXTENDS Naturals

NoTrace == [by |-> "nobody", sampled |-> FALSE]

(* What a request arrives with, and whether it is a probe.                 *)
Inbound ==
  {r \in [probe : BOOLEAN, trace : {NoTrace} \cup [by : {"caller"}, sampled : BOOLEAN]] :
     r.probe => r.trace = NoTrace}

(* SetupTracing, read through TracerProvider and Propagator: without an    *)
(* endpoint there is no SDK provider, but the propagator stays.            *)
(* Faulty variant: a disabled pipeline is the zero Tracing. *)
SetupOrNothing(endpoint) ==
  IF endpoint THEN [tracer |-> "sdk", propagator |-> "w3c"]
              ELSE [tracer |-> "noop", propagator |-> "empty"]

SetupTracing(endpoint) ==
  [tracer |-> IF endpoint THEN "sdk" ELSE "noop", propagator |-> "w3c"]

(* The zero Telemetry, whose providers are nil.                            *)
NilTelemetry == [tracer |-> "nil", propagator |-> "nil"]

(* newTracingHandler and instrument put the no-op in a nil provider's      *)
(* place.                                                                  *)
Instrument(t) ==
  [tracer |-> IF t.tracer = "nil" THEN "noop" ELSE t.tracer,
   propagator |-> IF t.propagator = "nil" THEN "empty" ELSE t.propagator]

(* A span's context (external).  The no-op tracer passes its parent's on;  *)
(* the SDK begins a sampled trace where there is no parent and else        *)
(* follows it (ParentBased(AlwaysSample)).                                 *)
StartSpan(tracer, parent) ==
  IF tracer = "noop" \/ parent # NoTrace THEN parent
  ELSE [by |-> "service", sampled |-> TRUE]

(* A propagator reads or writes a header, or nothing.                      *)
Carry(propagator, trace) == IF propagator = "w3c" THEN trace ELSE NoTrace

(* The context a handler runs in: shouldTrace filters probes out.          *)
ServerContext(t, inbound) ==
  IF inbound.probe THEN NoTrace
  ELSE StartSpan(Instrument(t).tracer, Carry(Instrument(t).propagator, inbound.trace))

(* What otelhttp.Transport tells the peer.                                 *)
Told(t, context) ==
  Carry(Instrument(t).propagator, StartSpan(Instrument(t).tracer, context))
=============================================================================
