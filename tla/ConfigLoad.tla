----------------------------- MODULE ConfigLoad -----------------------------
(***************************************************************************)
(* internal/config: how the process gets its settings.  Load starts from   *)
(* the packages' defaults, lets go-envconfig apply the environment, then   *)
(* validates: struct tags first, then the hooks of the composed structs    *)
(* and of Config itself, whose failures are reported together.  cmd/service *)
(* then builds the logger, the trusted proxies and the trace exporter from *)
(* what Load returned.                                                     *)
(*                                                                         *)
(* Durations are numbers.  Of an address only what validation looks at is  *)
(* kept: its shape, and whether its port is 0; of a collector's endpoint,  *)
(* which one it is and whether it is a URL.                                *)
(***************************************************************************)
EXTENDS ByteSize, FiniteSets

CONSTANTS
  Durations,  \* durations an environment may give
  Counts,     \* numbers it may give for a byte count
  MaxSet      \* bound on the number of variables it sets

ASSUME BoundsAssumption ==
  Durations \subseteq Int /\ Counts \subseteq Int /\ MaxSet \in Nat

VARIABLES
  env,    \* the variables that are set, and the text each holds
  stage,  \* "export", "tags", "hooks", "loaded" or "refused"; "started" or "crashed"
  cfg,    \* the configuration being assembled
  errs,   \* the error Load returned: the step that failed, the settings it names
  exports \* where the running process sends its spans

vars == <<env, stage, cfg, errs, exports>>

(* The settings, named as their variables are: prefix and field.           *)
Listeners == {"SERVER", "ADMIN"}
Timeouts == {"READ_HEADER_TIMEOUT", "READ_TIMEOUT", "WRITE_TIMEOUT", "HANDLER_TIMEOUT"}
Addr(l) == <<l, "ADDR">>
Body(l) == <<l, "MAX_REQUEST_BODY_BYTES">>
CIDRs == <<"PROXY", "TRUSTED_CIDRS">>
LogFormat == <<"LOG", "FORMAT">>
OTLPEndpoint == <<"OTEL_EXPORTER_OTLP", "ENDPOINT">>
OTLPTracesEndpoint == <<"OTEL_EXPORTER_OTLP", "TRACES_ENDPOINT">>
Words == {CIDRs, LogFormat, OTLPEndpoint, OTLPTracesEndpoint}
Collectors == {"collector", "gateway"}
Settings == (Listeners \X (Timeouts \cup {"ADDR", "MAX_REQUEST_BODY_BYTES"})) \cup Words

(* What a variable may hold: a blank, a text that does not parse, or a     *)
(* value.  An address lacks its port, or has port 0 beside an IP literal   *)
(* or beside a host name; a list of networks may hold a bad one; an        *)
(* endpoint may be host and port without a scheme.                         *)
Texts(s) ==
  {[is |-> "blank"]} \cup
    (IF s = CIDRs THEN [is : {"list"}, v : {"good", "bad"}]
     ELSE IF s = LogFormat THEN [is : {"word"}, v : {"json", "console", "logfmt"}]
     ELSE IF s \in Words THEN [is : {"word"}, v : Collectors \cup {"host:port"}]
     ELSE IF s[2] = "ADDR" THEN [is : {"addr"}, v : {"good", "noport", "ip:0", "host:0"}]
     ELSE IF s[2] \in Timeouts THEN [is : {"duration"}, v : Durations] \cup {[is |-> "junk"]}
     ELSE [is : {"size"}, count : Counts,
           unit : DOMAIN ByteUnits \cup {"none", "unknown"}])

(* Default.                                                                *)
Default ==
  [s \in Settings |->
    CASE s = LogFormat                            -> "console"
      [] s \in Words \ {LogFormat}                -> "none"
      [] s[2] = "ADDR"                            -> "good"
      [] s[2] = "HANDLER_TIMEOUT"                 -> 0
      [] s[2] \in {"READ_TIMEOUT", "WRITE_TIMEOUT"} -> 2
      [] OTHER                                    -> 1]

(* Config{}, which Load returns with an error.                             *)
Zero == [s \in Settings |-> IF s \in Words \/ s[2] = "ADDR" THEN "none" ELSE 0]

NoErrs == [by |-> "none", names |-> {}]

Init ==
  env = << >> /\ stage = "export" /\ cfg = Zero /\ errs = NoErrs /\ exports = "none"

(* The operator sets a variable before the process starts (external).      *)
Export(s, t) ==
  /\ stage = "export"
  /\ s \notin DOMAIN env /\ Cardinality(DOMAIN env) < MaxSet
  /\ env' = [v \in DOMAIN env \cup {s} |-> IF v = s THEN t ELSE env[v]]
  /\ UNCHANGED <<stage, cfg, errs, exports>>

Refuse(by, names) ==
  stage' = "refused" /\ errs' = [by |-> by, names |-> names] /\ cfg' = Zero

-----------------------------------------------------------------------------
(* envconfig.ProcessWith: a variable that is unset or blank leaves the     *)
(* default in place, and the first text that does not parse ends it.       *)
Value(t) ==
  CASE t.is = "size" -> UnmarshalText(t)
    [] t.is = "junk" -> Fail
    [] OTHER         -> t.v

Given == {s \in DOMAIN env : env[s].is # "blank"}
Unparsed == {s \in Given : env[s].is = "junk" \/ (env[s].is = "size" /\ Value(env[s]) = Fail)}

Process == [s \in Settings |-> IF s \in Given THEN Value(env[s]) ELSE Default[s]]

Decode ==
  /\ stage = "export"
  /\ \/ /\ \E s \in Unparsed : Refuse("decode", {s})
     \/ /\ Unparsed = {}
        /\ cfg' = Process /\ stage' = "tags" /\ UNCHANGED errs
  /\ UNCHANGED <<env, exports>>

(* validate.Struct: the struct tags of server.Config.                      *)
TagsOK(l) ==
  LET F(f) == cfg[<<l, f>>]
  IN  [ADDR |-> cfg[Addr(l)] \in {"good", "ip:0"},
       READ_HEADER_TIMEOUT |-> F("READ_HEADER_TIMEOUT") > 0,
       READ_TIMEOUT |-> F("READ_TIMEOUT") > 0
                          /\ F("READ_TIMEOUT") >= F("READ_HEADER_TIMEOUT"),
       WRITE_TIMEOUT |-> F("WRITE_TIMEOUT") > 0,
       HANDLER_TIMEOUT |-> F("HANDLER_TIMEOUT") >= 0
                          /\ (F("HANDLER_TIMEOUT") = 0
                                \/ F("HANDLER_TIMEOUT") < F("WRITE_TIMEOUT")),
       MAX_REQUEST_BODY_BYTES |-> cfg[Body(l)] > 0]

(* The tags of logging.Config (oneof) and telemetry.Config (http_url).     *)
WordsOK(s) ==
  CASE s = LogFormat -> cfg[s] \in {"json", "console"}
    [] s = CIDRs     -> TRUE
    [] OTHER         -> cfg[s] \in Collectors \cup {"none"}

BrokenTags ==
  {s \in Words : ~WordsOK(s)} \cup
  UNION {{<<l, f>> : f \in {g \in DOMAIN TagsOK(l) : ~TagsOK(l)[g]}} : l \in Listeners}

ValidateTags ==
  /\ stage = "tags"
  /\ IF BrokenTags # {} THEN Refuse("tags", BrokenTags)
                        ELSE stage' = "hooks" /\ UNCHANGED <<cfg, errs>>
  /\ UNCHANGED <<env, exports>>

(* validateFields: only the proxies' settings have a hook.                 *)
ValidateFields == {s \in {CIDRs} : cfg[s] = "bad"}

(* Config.Validate: every listener's port.                                 *)
CheckListenPorts == {Addr(l) : l \in {k \in Listeners : cfg[Addr(k)] = "ip:0"}}

(* The failures of both layers, joined.                                    *)
(* Faulty variant: Config's hook runs only if the fields' hooks passed. *)
GatedHooks == IF ValidateFields # {} THEN ValidateFields ELSE CheckListenPorts

HookErrors == ValidateFields \cup CheckListenPorts

ValidateHooks ==
  /\ stage = "hooks"
  /\ IF HookErrors # {} THEN Refuse("hooks", HookErrors)
                        ELSE stage' = "loaded" /\ UNCHANGED <<cfg, errs>>
  /\ UNCHANGED <<env, exports>>

-----------------------------------------------------------------------------
(* telemetry.Config.TracesEndpoint, and what the exporter makes of it:     *)
(* WithEndpointURL ignores what it cannot take a host from.                *)
(* Faulty variant: the general variable wins. *)
GeneralFirst ==
  IF cfg[OTLPEndpoint] # "none" THEN cfg[OTLPEndpoint] ELSE cfg[OTLPTracesEndpoint]

TracesEndpoint ==
  IF cfg[OTLPTracesEndpoint] # "none" THEN cfg[OTLPTracesEndpoint] ELSE cfg[OTLPEndpoint]

WithEndpointURL(e) == IF e \in Collectors THEN e ELSE "localhost"

(* run, after Load: logging.New, NewTrustedProxies, SetupTracing.          *)
ConfigFor == cfg[LogFormat] \in {"json", "console"}
NewTrustedProxies == cfg[CIDRs] # "bad"

Start ==
  /\ stage = "loaded"
  /\ IF ConfigFor /\ NewTrustedProxies
       THEN /\ stage' = "started"
            /\ exports' = IF TracesEndpoint = "none" THEN "none"
                          ELSE WithEndpointURL(TracesEndpoint)
       ELSE stage' = "crashed" /\ UNCHANGED exports
  /\ UNCHANGED <<env, cfg, errs>>

Over == stage \in {"refused", "started", "crashed"} /\ UNCHANGED vars

Next ==
  \/ \E s \in Settings : \E t \in Texts(s) : Export(s, t)
  \/ Decode \/ ValidateTags \/ ValidateHooks \/ Start \/ Over

Spec == Init /\ [][Next]_vars

-----------------------------------------------------------------------------
(* Properties.                                                             *)

(* The number of bytes a text means.                                        *)
Meant(t) == t.count * (IF t.unit = "none" THEN 1 ELSE ByteUnits[t.unit])

(* The process runs with what its operator wrote: a byte count with its     *)
(* unit and unwrapped, a duration or an address as given, and the default   *)
(* wherever a variable is unset or blank.                                   *)
RunsAsWritten ==
  stage = "loaded" => \A s \in Settings :
    cfg[s] = IF s \in DOMAIN env /\ env[s].is = "size" THEN Meant(env[s])
             ELSE IF s \in DOMAIN env /\ env[s].is # "blank" THEN env[s].v
             ELSE Default[s]

(* Once the tags pass, one start-up reports every setting that is wrong:    *)
(* each listener with port 0 and the list of proxies, not one per restart.  *)
(* None is left for the constructors to find, after part of the process has *)
(* been set up, nor taken out of what was configured.                       *)
AllReportedAtOnce ==
  LET wrong == {s \in Given : env[s] \in {[is |-> "list", v |-> "bad"],
                                          [is |-> "addr", v |-> "ip:0"]}}
  IN  /\ errs.by = "hooks" => errs.names = wrong
      /\ stage = "started" => wrong = {}
      /\ stage # "crashed"

(* The byte counts the process logs as its configuration, given back to it, *)
(* are the ones it runs with.                                               *)
LoggedReadsBack ==
  stage = "loaded" => \A l \in Listeners : UnmarshalText(String(cfg[Body(l)])) = cfg[Body(l)]

(* Spans go to the collector the operator named for them, to the one named  *)
(* for everything if there is none, and nowhere if neither is named: never  *)
(* to the exporter's own default, whatever form the endpoint was given in.  *)
ExportsWhereTold ==
  stage = "started" =>
    exports = IF OTLPTracesEndpoint \in Given THEN env[OTLPTracesEndpoint].v
              ELSE IF OTLPEndpoint \in Given THEN env[OTLPEndpoint].v
              ELSE "none"
=============================================================================
