----------------------------- MODULE ProxyTrust -----------------------------
(***************************************************************************)
(* internal/server/proxy.go and requestid.go: to whom a request is         *)
(* attributed and by which identifier it is known.  A request starts at    *)
(* some address, with any X-Forwarded-For and X-Request-Id its sender      *)
(* cares to invent, and is passed on by proxies.  A proxy the              *)
(* configuration trusts appends the address it got the request from, or    *)
(* something that is not an address (RFC 7239 allows "unknown"), and names *)
(* the request itself unless another trusted proxy already has, as         *)
(* deploy/local/nginx.conf does; any other hop may rewrite both headers as *)
(* it likes.  The service sees the last hop and the headers.               *)
(***************************************************************************)
EXTENDS Naturals, FiniteSets, SequencesExt

CONSTANTS
  Addrs,      \* the addresses
  CIDRs,      \* well-formed CIDR entries, each the set of addresses it covers
  Bad,        \* an entry that does not parse, of either list
  Blank,      \* an entry of the trusted list that is only white space
  MaxHops,    \* bound on the times a request is passed on
  MaxForged   \* bound on the entries of an invented header

ASSUME CIDRsAssumption == \A p \in CIDRs : p \subseteq Addrs
ASSUME MarksAssumption ==
  {Bad, Blank} \cap (Addrs \cup {"proxy", "outsider", "service"}) = {}
ASSUME BoundsAssumption == MaxHops \in Nat /\ MaxForged \in Nat

VARIABLES
  cfg,        \* ProxyConfig.TrustedCIDRs
  networks,   \* TrustedProxies.networks, or Bad when start-up was refused
  sender,     \* the address that holds the request now
  header,     \* the X-Forwarded-For lines, each a sequence of entries
  hops,       \* times it was passed on
  outsider,   \* the last sender outside every trusted network (history)
  blurred,    \* a trusted proxy since then appended no address (history)
  reqid,      \* X-Request-Id: who chose it, or Bad if absent or malformed
  client,     \* what ClientIP answered, or Blank before the request arrived
  id          \* the identifier withRequestID assigned, by who chose it

vars == <<cfg, networks, sender, header, hops, outsider, blurred, reqid, client, id>>

-----------------------------------------------------------------------------
(* NewTrustedProxies: blank entries are skipped, a bad one is an error.    *)
NewTrustedProxies(list) ==
  IF Bad \in ToSet(list) THEN Bad ELSE ToSet(list) \ {Blank}

Started == networks # Bad

Trusts(a) == \E n \in networks : a \in n

(* An entry of the header as it is written: an address, plain or as an     *)
(* IPv4-mapped IPv6 address, or something else.                            *)
Written == [ip : Addrs, form : {"plain", "mapped"}] \cup {Bad}

(* ParseAddr and Unmap: both forms are the same address.                   *)
ParseAddr(e) == IF e = Bad THEN Bad ELSE e.ip

(* forwardedFor: all lines, in order, one entry per hop, bad ones kept.    *)
ForwardedFor(lines) ==
  LET all == FlattenSeq(lines)
  IN  [i \in 1..Len(all) |-> ParseAddr(all[i])]

(* ClientIP: right to left, the first address that is not trusted; a hop   *)
(* that does not parse ends the walk, and so does the end of the header.   *)
(* Faulty variant: bad hops are passed over. *)
LastOf(S) == CHOOSE i \in S : \A j \in S : j <= i

WalkPastBad(peer, f) ==
  LET stops == {i \in 1..Len(f) : f[i] # Bad /\ ~Trusts(f[i])}
  IN  IF ~Trusts(peer) \/ stops = {} THEN peer ELSE f[LastOf(stops)]

ClientIP(peer, f) ==
  LET stops == {i \in 1..Len(f) : f[i] = Bad \/ ~Trusts(f[i])}
  IN  IF ~Trusts(peer) \/ stops = {} \/ f[LastOf(stops)] = Bad
        THEN peer ELSE f[LastOf(stops)]

(* requestID: a well-formed identifier is adopted from a trusted peer.     *)
(* Faulty variant: whoever sent it. *)
AdoptAny(peer, supplied) == IF supplied # Bad THEN supplied ELSE "service"

RequestID(peer, supplied) ==
  IF supplied # Bad /\ Trusts(peer) THEN supplied ELSE "service"

-----------------------------------------------------------------------------
(* What a hop that is not trusted may send: nothing, or lines of anything. *)
Invented ==
  {<<>>} \cup {<<line>> : line \in UNION {[1..n -> Written] : n \in 1..MaxForged}}

Configs == UNION {[1..n -> CIDRs \cup {Blank, Bad}] : n \in 0..2}

Init ==
  /\ cfg \in Configs
  /\ networks = NewTrustedProxies(cfg)
  /\ sender \in Addrs
  /\ header \in Invented
  /\ hops = 0
  /\ outsider = (IF Started /\ Trusts(sender) THEN Blank ELSE sender)
  /\ blurred = FALSE
  /\ reqid \in {Bad, IF outsider = Blank THEN "proxy" ELSE "outsider"}
  /\ client = Blank /\ id = Blank

InTransit == Started /\ client = Blank

(* A trusted proxy gets the request from sender and appends to the last    *)
(* line, or adds a line.                                                   *)
Append1(lines, e) ==
  IF lines = <<>> THEN <<<<e>>>>
  ELSE [lines EXCEPT ![Len(lines)] = Append(@, e)]

ForwardTrusted(p) ==
  /\ InTransit /\ hops < MaxHops /\ Trusts(p)
  /\ \E e \in {w \in Written : w = Bad \/ w.ip = sender} :
       /\ header' \in {Append1(header, e), Append(header, <<e>>)}
       /\ blurred' = (blurred \/ e = Bad)
  /\ reqid' \in {Bad, "proxy"} \cup (IF Trusts(sender) THEN {reqid} ELSE {})
  /\ sender' = p /\ hops' = hops + 1
  /\ UNCHANGED <<cfg, networks, outsider, client, id>>

ForwardUntrusted(p) ==
  /\ InTransit /\ hops < MaxHops /\ ~Trusts(p)
  /\ header' \in Invented
  /\ sender' = p /\ outsider' = p /\ hops' = hops + 1
  /\ blurred' = FALSE /\ reqid' \in {Bad, "outsider"}
  /\ UNCHANGED <<cfg, networks, client, id>>

(* The service accepts the connection; RemoteAddr is the sender, written   *)
(* either way.                                                             *)
Arrive ==
  /\ InTransit
  /\ \E e \in {w \in Written : w # Bad} :
       /\ e.ip = sender
       /\ client' = ClientIP(ParseAddr(e), ForwardedFor(header))
       /\ id' = RequestID(ParseAddr(e), reqid)
  /\ UNCHANGED <<cfg, networks, sender, header, hops, outsider, blurred, reqid>>

(* The request is answered, or the process did not start.                  *)
Over == ~InTransit /\ UNCHANGED vars

Next ==
  \/ \E p \in Addrs : ForwardTrusted(p) \/ ForwardUntrusted(p)
  \/ Arrive \/ Over

Spec == Init /\ [][Next]_vars

-----------------------------------------------------------------------------
(* Properties.                                                             *)

(* A request that came from outside the trusted networks is attributed,     *)
(* whatever was invented on the way, to the last address outside that sent  *)
(* it, or to the connection's peer where a trusted proxy hid that address:  *)
(* never to an address a client could choose.  Of a client inside a trusted *)
(* network it says nothing: the operator's list declares it a proxy, and    *)
(* what it writes in the header is believed.                                *)
AttributionUnforgeable ==
  client # Blank /\ outsider # Blank =>
    client = outsider \/ (blurred /\ client = sender)

(* An identifier in the logs was never chosen outside the trusted networks, *)
(* and it is the trusted proxy's own wherever that proxy gave a well-formed *)
(* one: its log lines and the service's can be joined (requestID).          *)
IdentityUnforgeable ==
  id # Blank =>
    /\ id # "outsider"
    /\ reqid = "proxy" => id = "proxy"
=============================================================================
