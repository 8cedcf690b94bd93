------------------------- MODULE RequestChainProofs -------------------------
(***************************************************************************)
(* Proofs about RequestChain: any number of concurrent requests, any limit *)
(* on them, and every combination of the optional layers.                  *)
(*                                                                         *)
(* What a layer may rely on follows from where it stands in the chain, so  *)
(* the first lemmas place the layers.  The rest of the argument is about   *)
(* one request at a time; only the limiter's slots are shared.             *)
(***************************************************************************)
EXTENDS RequestChain, FiniteSetTheorems, SequenceTheorems, TLAPS

-----------------------------------------------------------------------------
(* Where the layers stand.                                                 *)

Layers == {"tracing", "headers", "identity", "logging", "recovery", "limiter",
           "timeout", "body", "mux"}

(* The application chain: five fixed layers, then the limits that are      *)
(* switched on, then the mux.                                              *)
AppShape(C) ==
  /\ C \in Seq(Layers) /\ Len(C) \in 6..9
  /\ C[1] = "tracing" /\ C[2] = "headers" /\ C[3] = "identity"
  /\ C[4] = "logging" /\ C[5] = "recovery" /\ C[Len(C)] = "mux"
  /\ \A i \in 6..(Len(C) - 1) : C[i] \in {"limiter", "timeout", "body"}
  /\ \A i \in 6..Len(C) : C[i] = "limiter" <=> i = 6 /\ MaxInFlight > 0
  /\ \A i \in 6..Len(C) : C[i] = "body" <=> i = Len(C) - 1 /\ BodyLimited
  /\ BodyLimited => Len(C) > 6

AdminShape(C) ==
  /\ C \in Seq(Layers) /\ Len(C) \in 3..4
  /\ C[1] = "headers" /\ C[2] = "recovery" /\ C[Len(C)] = "mux"
  /\ Len(C) = 4 <=> BodyLimited
  /\ Len(C) = 4 => C[3] = "body"

(* A layer that can be switched off is one element or none.                *)
LEMMA WrapShape ==
  ASSUME NEW layer \in Layers
  PROVE  /\ Wrap(layer) \in Seq(Layers)
         /\ Len(Wrap(layer)) = (IF Built(layer) THEN 1 ELSE 0)
         /\ Built(layer) => Wrap(layer)[1] = layer
  BY DEF Wrap

(* The limits that are switched on, in order.                              *)
LEMMA LimitsShape ==
  LET n == Len(Limits)
  IN  /\ Limits \in Seq(Layers) /\ n \in 0..3
      /\ MaxInFlight > 0 \/ BodyLimited => n > 0
      /\ \A i \in 1..n : Limits[i] \in {"limiter", "timeout", "body"}
      /\ \A i \in 1..n : Limits[i] = "limiter" <=> i = 1 /\ MaxInFlight > 0
      /\ \A i \in 1..n : Limits[i] = "body" <=> i = n /\ BodyLimited
<1> DEFINE l == Wrap("limiter")
           t == Wrap("timeout")
           b == Wrap("body")
<1>1. /\ l \in Seq(Layers) /\ Len(l) = IF MaxInFlight > 0 THEN 1 ELSE 0
      /\ MaxInFlight > 0 => l[1] = "limiter"
  <2>1. Built("limiter") <=> MaxInFlight > 0
    BY DEF Built
  <2>. QED
    BY <2>1, WrapShape DEF Layers
<1>2. /\ t \in Seq(Layers) /\ Len(t) = IF HandlerTimed THEN 1 ELSE 0
      /\ HandlerTimed => t[1] = "timeout"
  <2>1. Built("timeout") <=> HandlerTimed
    BY DEF Built
  <2>. QED
    BY <2>1, WrapShape DEF Layers
<1>3. /\ b \in Seq(Layers) /\ Len(b) = IF BodyLimited THEN 1 ELSE 0
      /\ BodyLimited => b[1] = "body"
  <2>1. Built("body") <=> BodyLimited
    BY DEF Built
  <2>. QED
    BY <2>1, WrapShape DEF Layers
<1> HIDE DEF l, t, b
<1>4. /\ l \o t \in Seq(Layers) /\ Len(l \o t) = Len(l) + Len(t)
      /\ \A i \in 1..(Len(l) + Len(t)) :
           (l \o t)[i] = IF i <= Len(l) THEN l[i] ELSE t[i - Len(l)]
  BY <1>1, <1>2, ConcatProperties, Zenon
<1> DEFINE lt == l \o t
<1>5. /\ lt \o b \in Seq(Layers) /\ Len(lt \o b) = Len(lt) + Len(b)
      /\ \A i \in 1..(Len(lt) + Len(b)) :
           (lt \o b)[i] = IF i <= Len(lt) THEN lt[i] ELSE b[i - Len(lt)]
  <2> HIDE DEF lt
  <2>1. lt \in Seq(Layers)
    BY <1>4 DEF lt
  <2>. QED
    BY <1>3, <2>1, ConcatProperties, Zenon
<1>6. Limits = lt \o b
  BY DEF Limits, l, t, b
<1> HIDE DEF lt
<1> DEFINE n == Len(Limits)
<1>7. /\ Limits \in Seq(Layers) /\ n = Len(l) + Len(t) + Len(b)
      /\ Len(lt) = Len(l) + Len(t)
  BY <1>1, <1>2, <1>3, <1>4, <1>5, <1>6 DEF lt
<1>8. \A i \in 1..n : Limits[i] = IF i <= Len(l) THEN l[i]
                                  ELSE IF i <= Len(l) + Len(t) THEN t[i - Len(l)]
                                  ELSE b[i - Len(l) - Len(t)]
  BY <1>1, <1>2, <1>3, <1>4, <1>5, <1>6, <1>7 DEF lt
<1>9. n \in 0..3 /\ (MaxInFlight > 0 \/ BodyLimited => n > 0)
  BY <1>1, <1>2, <1>3, <1>7
<1>10. ASSUME NEW i \in 1..n
       PROVE  /\ Limits[i] \in {"limiter", "timeout", "body"}
              /\ Limits[i] = "limiter" <=> i = 1 /\ MaxInFlight > 0
              /\ Limits[i] = "body" <=> i = n /\ BodyLimited
  <2> HIDE DEF n
  <2>. QED
    BY <1>1, <1>2, <1>3, <1>7, <1>8, <1>9
<1>. QED
  BY <1>7, <1>9, <1>10

(* NewMux wraps the mux in the layers in this order, whichever limits are  *)
(* switched off.                                                           *)
LEMMA AppChain == AppShape(Chains["app"])
<1> DEFINE f == <<"tracing", "headers", "identity", "logging", "recovery">>
           u == <<"mux">>
           fl == f \o Limits
<1>1. /\ f \in Seq(Layers) /\ Len(f) = 5 /\ f[1] = "tracing" /\ f[2] = "headers"
      /\ f[3] = "identity" /\ f[4] = "logging" /\ f[5] = "recovery"
  BY DEF Layers
<1>2. u \in Seq(Layers) /\ Len(u) = 1 /\ u[1] = "mux"
  BY DEF Layers
<1>3. Chains["app"] = fl \o u
  BY DEF Chains, NewMux
<1> HIDE DEF f, u
<1>4. /\ fl \in Seq(Layers) /\ Len(fl) = Len(f) + Len(Limits)
      /\ \A i \in 1..(Len(f) + Len(Limits)) :
           fl[i] = IF i <= Len(f) THEN f[i] ELSE Limits[i - Len(f)]
  <2>1. f \in Seq(Layers) /\ Limits \in Seq(Layers)
    BY <1>1, LimitsShape
  <2>. QED
    BY <2>1, ConcatProperties, Zenon
<1> HIDE DEF fl
<1>5. /\ fl \o u \in Seq(Layers) /\ Len(fl \o u) = Len(fl) + Len(u)
      /\ \A i \in 1..(Len(fl) + Len(u)) :
           (fl \o u)[i] = IF i <= Len(fl) THEN fl[i] ELSE u[i - Len(fl)]
  <2>1. fl \in Seq(Layers) /\ u \in Seq(Layers)
    BY <1>2, <1>4
  <2>. QED
    BY <2>1, ConcatProperties, Zenon
<1> DEFINE C == fl \o u
           n == Len(Limits)
<1>6. Limits \in Seq(Layers) /\ n \in 0..3
  BY LimitsShape
<1>7. C \in Seq(Layers) /\ Len(C) = n + 6
  BY <1>1, <1>2, <1>4, <1>5, <1>6
<1> HIDE DEF C
<1>8. \A i \in 1..5 : C[i] = f[i]
  BY <1>1, <1>2, <1>4, <1>5, <1>6 DEF C
<1>9. \A i \in 6..(n + 5) : C[i] = Limits[i - 5]
  BY <1>1, <1>2, <1>4, <1>5, <1>6 DEF C
<1>10. C[n + 6] = "mux"
  BY <1>1, <1>2, <1>4, <1>5, <1>6 DEF C
<1>11. \A i \in 6..(n + 5) : i - 5 \in 1..n
  BY <1>6
<1>12. \A i \in 6..(n + 5) :
         /\ C[i] \in {"limiter", "timeout", "body"}
         /\ C[i] = "limiter" <=> i = 6 /\ MaxInFlight > 0
         /\ C[i] = "body" <=> i = n + 5 /\ BodyLimited
  BY <1>6, <1>9, <1>11, LimitsShape
<1>13. MaxInFlight > 0 \/ BodyLimited => n > 0
  BY LimitsShape
<1>14. AppShape(C)
  <2> HIDE DEF n
  <2>. QED
    BY <1>1, <1>6, <1>7, <1>8, <1>10, <1>12, <1>13 DEF AppShape
<1>. QED
  BY <1>3, <1>14 DEF C

(* NewAdminMux builds a shorter chain.                                     *)
LEMMA AdminChain == AdminShape(Chains["admin"])
<1> DEFINE f == <<"headers", "recovery">>
           b == Wrap("body")
           u == <<"mux">>
           fb == f \o b
<1>1. f \in Seq(Layers) /\ Len(f) = 2 /\ f[1] = "headers" /\ f[2] = "recovery"
  BY DEF Layers
<1>2. u \in Seq(Layers) /\ Len(u) = 1 /\ u[1] = "mux"
  BY DEF Layers
<1>3. /\ b \in Seq(Layers) /\ Len(b) = IF BodyLimited THEN 1 ELSE 0
      /\ BodyLimited => b[1] = "body"
  <2>1. Built("body") <=> BodyLimited
    BY DEF Built
  <2>. QED
    BY <2>1, WrapShape DEF Layers
<1>4. Chains["admin"] = fb \o u
  BY DEF Chains, NewMux, AdminMux
<1> HIDE DEF f, b, u
<1>5. /\ fb \in Seq(Layers) /\ Len(fb) = Len(f) + Len(b)
      /\ \A i \in 1..(Len(f) + Len(b)) :
           fb[i] = IF i <= Len(f) THEN f[i] ELSE b[i - Len(f)]
  BY <1>1, <1>3, ConcatProperties, Zenon
<1> HIDE DEF fb
<1>6. /\ fb \o u \in Seq(Layers) /\ Len(fb \o u) = Len(fb) + Len(u)
      /\ \A i \in 1..(Len(fb) + Len(u)) :
           (fb \o u)[i] = IF i <= Len(fb) THEN fb[i] ELSE u[i - Len(fb)]
  <2>1. fb \in Seq(Layers) /\ u \in Seq(Layers)
    BY <1>2, <1>5
  <2>. QED
    BY <2>1, ConcatProperties, Zenon
<1> DEFINE fbu == fb \o u
<1> HIDE DEF fbu
<1>. QED
  BY <1>1, <1>2, <1>3, <1>4, <1>5, <1>6 DEF AdminShape, fbu
-----------------------------------------------------------------------------
(* The inductive invariant, one request at a time.                         *)

Headers == {"security", "id", "retry"}
Response == [status : Nat, headers : SUBSET Headers, by : Writers \cup {"nobody"},
             again : SUBSET Writers, taken : BOOLEAN]
Recorder == [status : Nat, written : BOOLEAN]
Span == [state : {"none", "open", "ended"}, named : BOOLEAN, err : BOOLEAN]
Entry == [status : Nat, level : {"info", "warn", "error"}, route : BOOLEAN,
          id : BOOLEAN, trace : BOOLEAN] \cup {None}
PanicEntry == [status : Nat, id : BOOLEAN] \cup {None}

(* Kind, and what a request that has not arrived is set to.                *)
AnyKind == Kind \cup {(CHOOSE k \in Kinds[r] : TRUE) : r \in Requests}

TypeInv ==
  /\ kind \in [Requests -> AnyKind]
  /\ way \in [Requests -> {"new", "in", "handler", "out", "done"}]
  /\ at \in [Requests -> Nat]
  /\ how \in [Requests -> {"return", "panic", "abort"}]
  /\ routed \in [Requests -> BOOLEAN]
  /\ fault \in [Requests -> {"none", "clean", "midway"}]
  /\ hdr \in [Requests -> SUBSET Headers]
  /\ resp \in [Requests -> Response]
  /\ rec \in [Requests -> Recorder]
  /\ over \in [Requests -> BOOLEAN]
  /\ keep \in [Requests -> BOOLEAN]
  /\ span \in [Requests -> Span]
  /\ entry \in [Requests -> Entry]
  /\ panicLog \in [Requests -> PanicEntry]

(* Where a request can be.                                                 *)
PosInv(r) ==
  /\ way[r] # "new" => kind[r] \in Kind
  /\ way[r] = "new" => at[r] = 0
  /\ way[r] = "in" => at[r] \in 1..Len(Chain(r))
  /\ way[r] = "handler" => at[r] = Len(Chain(r))
  /\ way[r] = "out" => at[r] < Len(Chain(r))
  /\ way[r] = "done" => at[r] = 0
  /\ BodyLimited /\ way[r] \in {"in", "handler"} /\ at[r] = Len(Chain(r))
       => kind[r].body # "declared"
  /\ over[r] => ~keep[r]

(* On the way in nothing is written, and what is written is dressed in the *)
(* headers the outer layers set before; only the limiter adds to them.     *)
DressedIn(r) ==
  /\ way[r] = "in" /\ ~App(r) /\ at[r] > 1 => "security" \in hdr[r]
  /\ way[r] = "in" /\ App(r) /\ at[r] > 2 => "security" \in hdr[r]
  /\ way[r] = "in" /\ App(r) /\ at[r] > 3 => "id" \in hdr[r]
  /\ way[r] \in {"handler", "out", "done"} =>
       "security" \in hdr[r] /\ (App(r) => "id" \in hdr[r])
  /\ "retry" \in hdr[r] => resp[r].by = "limiter"

RespInv(r) ==
  /\ way[r] \in {"new", "in"} => resp[r].status = 0 /\ ~resp[r].taken
  /\ resp[r].status = 0 <=> resp[r].by = "nobody"
  /\ resp[r].status = 0 => resp[r].again = {}
  /\ App(r) /\ resp[r].by # "flush" => resp[r].again \subseteq {"handler"}
  /\ DressedIn(r)
  /\ resp[r].status # 0 =>
       /\ "security" \in resp[r].headers
       /\ App(r) => "id" \in resp[r].headers
       /\ "retry" \in resp[r].headers <=> resp[r].by = "limiter"
       /\ resp[r].by = "limiter" => resp[r].status = 503

(* The recorder has seen every write but a flush, and agrees with net/http *)
(* on the status unless an informational one came first, a status line     *)
(* followed the flush, or net/http no longer has the connection.           *)
RecInv(r) ==
  /\ way[r] \in {"new", "in"} => rec[r].status = 200 /\ ~rec[r].written
  /\ App(r) =>
       /\ rec[r].status # 0
       /\ ~rec[r].written => rec[r].status = 200
       /\ way[r] # "done" /\ ~rec[r].written => resp[r].status = 0 \/ resp[r].by = "flush"
       /\ resp[r].by = "flush" => resp[r].status = 200
       /\ rec[r].written /\ ~Hinted(r) /\ ~Bypassed(r) => resp[r].status = rec[r].status

(* What tracing and logging leave behind.                                  *)
Traced(r) == App(r) /\ ShouldTrace(kind[r])

TraceInv(r) ==
  /\ way[r] = "new" => span[r].state = "none"
  /\ way[r] = "in" => span[r].state = IF Traced(r) /\ at[r] > 1 THEN "open" ELSE "none"
  /\ way[r] = "handler" => span[r].state = IF Traced(r) THEN "open" ELSE "none"
  /\ way[r] = "out" /\ at[r] > 0 => span[r].state = IF Traced(r) THEN "open" ELSE "none"
  /\ way[r] = "done" \/ (way[r] = "out" /\ at[r] = 0) =>
       span[r].state = IF Traced(r) THEN "ended" ELSE "none"

LogInv(r) ==
  /\ Logged(r) =>
       /\ App(r) /\ way[r] \in {"out", "done"} /\ at[r] < 4 /\ how[r] = "return"
       /\ entry[r].status = rec[r].status
       /\ entry[r].level = "error" <=> rec[r].status >= 500
       /\ entry[r].trace <=> ShouldTrace(kind[r])
  /\ Logged(r) /\ Done(r) /\ ~Hinted(r) /\ ~Bypassed(r) => resp[r].status = rec[r].status

(* A panic of an application handler, before and after recovery.           *)
PanicInv(r) ==
  /\ way[r] \in {"new", "in", "handler"} => fault[r] = "none"
  /\ App(r) /\ fault[r] # "none" /\ way[r] = "out" /\ at[r] >= 5 =>
       how[r] = "panic" /\ (fault[r] = "clean" => resp[r].status = 0 /\ ~resp[r].taken)
  /\ App(r) /\ fault[r] # "none" /\ (way[r] = "done" \/ at[r] < 5) =>
       /\ how[r] = "return"
       /\ panicLog[r] # None /\ panicLog[r].id
       /\ ShouldTrace(kind[r]) => span[r].err
       /\ at[r] < 4 => Logged(r)
       /\ fault[r] = "clean" /\ ~Hinted(r) => resp[r].status = 500

ReqInv(r) ==
  PosInv(r) /\ RespInv(r) /\ RecInv(r) /\ TraceInv(r) /\ LogInv(r) /\ PanicInv(r)

(* The limiter's slots, by position.                                       *)
Holds(r) ==
  /\ App(r) /\ MaxInFlight > 0
  /\ \/ way[r] \in {"in", "handler", "out"} /\ at[r] > 6
     \/ way[r] = "out" /\ at[r] = 6

Holders == {r \in Requests : Holds(r)}

SlotInv ==
  /\ IsFiniteSet(Holders) /\ slots = Cardinality(Holders)
  /\ slots <= MaxInFlight

IInv == TypeInv /\ (\A r \in Requests : ReqInv(r)) /\ SlotInv

-----------------------------------------------------------------------------
(* Layers by position.                                                     *)

Place(r) ==
  LET n == Len(Chain(r))
  IN  /\ at[r] \in 1..n
      /\ App(r) =>
           /\ n \in 6..9
           /\ Layer(r) = "tracing" <=> at[r] = 1
           /\ Layer(r) = "headers" <=> at[r] = 2
           /\ Layer(r) = "identity" <=> at[r] = 3
           /\ Layer(r) = "logging" <=> at[r] = 4
           /\ Layer(r) = "recovery" <=> at[r] = 5
           /\ Layer(r) = "limiter" <=> at[r] = 6 /\ MaxInFlight > 0
           /\ Layer(r) = "body" <=> at[r] = n - 1 /\ BodyLimited
           /\ Layer(r) = "timeout" => at[r] \in 6..(n - 1)
           /\ Layer(r) = "mux" <=> at[r] = n
           /\ BodyLimited => n > 6
           /\ "tracing" \in Outside(r) <=> at[r] > 1
           /\ "identity" \in Outside(r) <=> at[r] > 3
           /\ "logging" \in Outside(r) <=> at[r] > 4
           /\ "limiter" \in Outside(r) <=> at[r] > 6 /\ MaxInFlight > 0
      /\ ~App(r) =>
           /\ n \in 3..4
           /\ Layer(r) = "headers" <=> at[r] = 1
           /\ Layer(r) = "recovery" <=> at[r] = 2
           /\ Layer(r) = "body" <=> at[r] = n - 1 /\ BodyLimited
           /\ Layer(r) = "mux" <=> at[r] = n
           /\ Layer(r) \notin {"tracing", "identity", "logging", "limiter", "timeout"}
           /\ n = 4 <=> BodyLimited
           /\ Outside(r) \cap {"tracing", "identity", "logging", "limiter"} = {}

(* A request that has arrived is on one of the two chains.                 *)
LEMMA OnAChain ==
  ASSUME TypeInv, NEW r \in Requests, PosInv(r), way[r] # "new"
  PROVE  IF App(r) THEN AppShape(Chain(r)) ELSE AdminShape(Chain(r))
<1>1. kind[r].mux \in {"app", "admin"}
  BY DEF PosInv, Kind
<1>. QED
  BY <1>1, AppChain, AdminChain DEF App, Chain

(* An element that stands once in a sequence is before another index       *)
(* exactly if its own is smaller.                                          *)
LEMMA StandsBefore ==
  ASSUME NEW C, NEW n \in Nat, NEW a \in 1..n, NEW x, NEW k \in 1..n,
         \A i \in 1..n : C[i] = x <=> i = k
  PROVE  x \in {C[i] : i \in 1..(a - 1)} <=> a > k
<1>1. ASSUME x \in {C[i] : i \in 1..(a - 1)} PROVE a > k
  <2>1. PICK i \in 1..(a - 1) : C[i] = x
    BY <1>1
  <2>2. i \in 1..n
    OBVIOUS
  <2>. QED
    BY <2>1, <2>2
<1>2. ASSUME a > k PROVE x \in {C[i] : i \in 1..(a - 1)}
  <2>1. k \in 1..(a - 1) /\ C[k] = x
    BY <1>2
  <2>. QED
    BY <2>1
<1>. QED
  BY <1>1, <1>2

(* Inside the chain, the layer and what is outside of it are known by      *)
(* position.                                                               *)
LEMMA Placed ==
  ASSUME TypeInv, NEW r \in Requests, PosInv(r),
         way[r] \in {"in", "handler", "out"}, at[r] > 0
  PROVE  Place(r)
<1> DEFINE C == Chain(r)
           a == at[r]
           n == Len(C)
<1>1. IF App(r) THEN AppShape(C) ELSE AdminShape(C)
  BY OnAChain
<1>2. a \in Nat /\ n \in Nat
  BY <1>1 DEF TypeInv, AppShape, AdminShape
<1>3. a \in 1..n
  BY <1>2 DEF PosInv
<1>4. Layer(r) = C[a] /\ Outside(r) = {C[i] : i \in 1..(a - 1)}
  BY DEF Layer, Outside
<1>5. CASE App(r)
  <2>1. AppShape(C)
    BY <1>1, <1>5
  <2> HIDE DEF C, a
  <2>2. /\ C[a] = "tracing" <=> a = 1
        /\ C[a] = "headers" <=> a = 2
        /\ C[a] = "identity" <=> a = 3
        /\ C[a] = "logging" <=> a = 4
        /\ C[a] = "recovery" <=> a = 5
        /\ C[a] = "limiter" <=> a = 6 /\ MaxInFlight > 0
        /\ C[a] = "body" <=> a = n - 1 /\ BodyLimited
        /\ C[a] = "timeout" => a \in 6..(n - 1)
        /\ C[a] = "mux" <=> a = n
    BY <1>2, <1>3, <2>1 DEF AppShape
  <2>3. /\ 6 \in 1..n
        /\ \A i \in 1..n : /\ C[i] = "tracing" <=> i = 1
                           /\ C[i] = "identity" <=> i = 3
                           /\ C[i] = "logging" <=> i = 4
                           /\ C[i] = "limiter" <=> i = 6 /\ MaxInFlight > 0
    BY <1>2, <2>1 DEF AppShape
  <2>4. "tracing" \in Outside(r) <=> a > 1
    BY <1>2, <1>3, <1>4, <2>3, StandsBefore, 1 \in 1..n
  <2>5. "identity" \in Outside(r) <=> a > 3
    BY <1>2, <1>3, <1>4, <2>3, StandsBefore, 3 \in 1..n
  <2>6. "logging" \in Outside(r) <=> a > 4
    BY <1>2, <1>3, <1>4, <2>3, StandsBefore, 4 \in 1..n
  <2>7. "limiter" \in Outside(r) <=> a > 6 /\ MaxInFlight > 0
    <3>1. CASE MaxInFlight > 0
      BY <1>2, <1>3, <1>4, <2>3, <3>1, StandsBefore
    <3>2. CASE ~(MaxInFlight > 0)
      BY <1>2, <1>3, <1>4, <2>3, <3>2
    <3>. QED
      BY <3>1, <3>2
  <2>. QED
    BY <1>3, <1>4, <1>5, <2>1, <2>2, <2>4, <2>5, <2>6, <2>7 DEF Place, AppShape, C, a
<1>6. CASE ~App(r)
  <2>1. AdminShape(C)
    BY <1>1, <1>6
  <2> HIDE DEF C, a
  <2>2. \A i \in 1..n : C[i] = IF i = 1 THEN "headers" ELSE IF i = 2 THEN "recovery"
                               ELSE IF i = n THEN "mux" ELSE "body"
    BY <2>1 DEF AdminShape
  <2>3. Outside(r) \cap {"tracing", "identity", "logging", "limiter"} = {}
    BY <1>2, <1>3, <1>4, <2>2
  <2>. QED
    BY <1>3, <1>4, <1>6, <2>1, <2>2, <2>3 DEF Place, AdminShape, C, a
<1>. QED
  BY <1>5, <1>6

-----------------------------------------------------------------------------
(* A step of one request leaves the others alone.                          *)

Untouched(q) ==
  /\ kind'[q] = kind[q] /\ way'[q] = way[q] /\ at'[q] = at[q] /\ how'[q] = how[q]
  /\ fault'[q] = fault[q] /\ hdr'[q] = hdr[q] /\ resp'[q] = resp[q]
  /\ rec'[q] = rec[q] /\ over'[q] = over[q] /\ keep'[q] = keep[q]
  /\ span'[q] = span[q] /\ entry'[q] = entry[q] /\ panicLog'[q] = panicLog[q]

(* What is true of a request stays true while it takes no step.            *)
LEMMA Frame ==
  ASSUME NEW q \in Requests, ReqInv(q), Untouched(q)
  PROVE  ReqInv(q)' /\ (Holds(q)' <=> Holds(q))
<1>1. /\ App(q)' = App(q) /\ Chain(q)' = Chain(q) /\ Traced(q)' = Traced(q)
      /\ Logged(q)' = Logged(q) /\ Done(q)' = Done(q) /\ Hinted(q)' = Hinted(q)
      /\ Bypassed(q)' = Bypassed(q)
  BY DEF Untouched, App, Chain, Traced, Logged, Done, Hinted, Bypassed
<1>2. PosInv(q)' /\ RespInv(q)' /\ RecInv(q)'
  BY <1>1 DEF Untouched, ReqInv, PosInv, RespInv, DressedIn, RecInv
<1>3. TraceInv(q)' /\ LogInv(q)' /\ PanicInv(q)'
  BY <1>1 DEF Untouched, ReqInv, TraceInv, LogInv, PanicInv
<1>. QED
  BY <1>1, <1>2, <1>3 DEF Untouched, ReqInv, Holds

(* A request on its way keeps its kind, and so its chain.                  *)
LEMMA SameChain ==
  ASSUME NEW r \in Requests, kind' = kind
  PROVE  /\ App(r)' = App(r) /\ Chain(r)' = Chain(r) /\ Traced(r)' = Traced(r)
  BY DEF App, Chain, Traced

(* The place of a request that takes a step in the chain.                  *)
LEMMA InPlace ==
  ASSUME TypeInv, NEW r \in Requests, ReqInv(r),
         way[r] \in {"in", "handler"} \/ (way[r] = "out" /\ at[r] > 0)
  PROVE  Place(r)
<1>1. PosInv(r)
  BY DEF ReqInv
<1>2. at[r] > 0
  <2>1. way[r] # "new" => Len(Chain(r)) > 0
    BY <1>1, OnAChain DEF AppShape, AdminShape
  <2>. QED
    BY <1>1, <2>1 DEF PosInv, TypeInv
<1>. QED
  BY <1>1, <1>2, Placed

(* Writing a status line leaves a response, and the connection with whom   *)
(* it was.                                                                 *)
LEMMA SendStatusType ==
  ASSUME NEW p \in Response, NEW status \in Nat, NEW headers \in SUBSET Headers,
         NEW writer \in Writers
  PROVE  /\ SendStatus(p, status, headers, writer) \in Response
         /\ SendStatus(p, status, headers, writer).taken = p.taken
  BY DEF SendStatus, Response

(* A write without a status line keeps a response that has begun, and       *)
(* begins one with a 200.                                                   *)
LEMMA CommitFacts ==
  ASSUME NEW p \in Response, NEW headers \in SUBSET Headers, NEW writer \in Writers
  PROVE  LET s == Commit(p, headers, writer)
         IN  /\ s \in Response /\ s.taken = p.taken /\ s.again = p.again
             /\ p.taken \/ p.status # 0 => s = p
             /\ ~p.taken /\ p.status = 0 =>
                  s.status = 200 /\ s.headers = headers /\ s.by = writer
<1> DEFINE s == Commit(p, headers, writer)
<1>1. s \in Response /\ s.taken = p.taken /\ s.again = p.again
  BY DEF Commit, SendStatus, Response
<1>2. p.taken \/ p.status # 0 => s = p
  BY DEF Commit, SendStatus
<1>3. ~p.taken /\ p.status = 0 => s.status = 200 /\ s.headers = headers /\ s.by = writer
  BY DEF Commit, SendStatus, Response
<1>. QED
  BY <1>1, <1>2, <1>3

(* What the layers do to a span leaves a span.                              *)
LEMMA SpanFacts ==
  ASSUME NEW p \in Span
  PROVE  /\ [p EXCEPT !.state = "open"] \in Span
         /\ [p EXCEPT !.state = "ended"] \in Span
         /\ [p EXCEPT !.err = TRUE] \in Span
         /\ [p EXCEPT !.named = TRUE] \in Span
  BY DEF Span

(* The recorder keeps the first status it was told.                         *)
LEMMA RecordFacts ==
  ASSUME NEW c \in Recorder, NEW status \in Nat
  PROVE  /\ RecordStatus(c, status) \in Recorder
         /\ RecordStatus(c, status).written
         /\ RecordStatus(c, status).status = IF c.written THEN c.status ELSE status
         /\ RecordWrite(c) \in Recorder /\ RecordWrite(c).written
         /\ RecordWrite(c).status = c.status
  BY DEF RecordStatus, RecordWrite, Recorder

-----------------------------------------------------------------------------
(* The way in.                                                             *)

(* Every step on the way in keeps what is true of the request that takes   *)
(* it.                                                                     *)
LEMMA EnterKeeps ==
  ASSUME TypeInv, NEW r \in Requests, ReqInv(r), EnterStep(r)
  PROVE  TypeInv' /\ ReqInv(r)'
<1>1. way[r] = "in"
  BY DEF EnterStep, EnterTracing, EnterHeaders, EnterIdentity, EnterLogging,
         EnterPlain, Acquire, Shed, EnterBody, RefuseBody, EnterMux, Entering
<1>2. Place(r)
  BY <1>1, InPlace
<1>3. App(r)' = App(r) /\ Chain(r)' = Chain(r) /\ Traced(r)' = Traced(r)
  BY SameChain
     DEF EnterStep, EnterTracing, EnterHeaders, EnterIdentity, EnterLogging,
         EnterPlain, Acquire, Shed, EnterBody, RefuseBody, EnterMux, In, Out
<1> USE DEF Entering, In, Out, outVars, obsVars, Logged, Done, Hinted, Bypassed
<1>4. CASE EnterTracing(r)
  <2>1. TypeInv'
    <3>1. [span[r] EXCEPT !.state = "open"] \in Span
      BY SpanFacts DEF TypeInv
    <3>. QED
      BY <1>4, <3>1 DEF TypeInv, EnterTracing
  <2>2. ReqInv(r)'
    BY <1>1, <1>2, <1>3, <1>4
       DEF EnterTracing, Place, TypeInv, Traced, ReqInv, PosInv, RespInv, DressedIn, RecInv,
           TraceInv, LogInv, PanicInv
  <2>. QED
    BY <2>1, <2>2
<1>5. CASE EnterHeaders(r)
  <2>1. TypeInv'
    BY <1>5 DEF TypeInv, EnterHeaders, Headers
  <2>2. /\ hdr'[r] = hdr[r] \cup {"security"} /\ at'[r] = at[r] + 1
        /\ (App(r) => at[r] = 2) /\ (~App(r) => at[r] = 1) /\ way' = way
    BY <1>2, <1>5 DEF EnterHeaders, Place, TypeInv
  <2>3. RespInv(r)'
    BY <1>1, <1>3, <1>5, <2>2 DEF EnterHeaders, ReqInv, RespInv, DressedIn
  <2>4. PosInv(r)'
    BY <1>1, <1>2, <1>3, <1>5, <2>2 DEF EnterHeaders, Place, ReqInv, PosInv
  <2>5. RecInv(r)' /\ TraceInv(r)' /\ LogInv(r)' /\ PanicInv(r)'
    BY <1>1, <1>3, <1>5, <2>2
       DEF EnterHeaders, Traced, ReqInv, RecInv, TraceInv, LogInv, PanicInv
  <2>. QED
    BY <2>1, <2>3, <2>4, <2>5 DEF ReqInv
<1>6. CASE EnterIdentity(r)
  <2>1. TypeInv'
    BY <1>6 DEF TypeInv, EnterIdentity, Headers
  <2>2. ReqInv(r)'
    BY <1>1, <1>2, <1>3, <1>6
       DEF EnterIdentity, Place, TypeInv, ReqInv, PosInv, RespInv, DressedIn, RecInv,
           TraceInv, LogInv, PanicInv
  <2>. QED
    BY <2>1, <2>2
<1>7. CASE EnterLogging(r)
  <2>1. TypeInv'
    BY <1>7 DEF TypeInv, EnterLogging, Recorder
  <2>2. ReqInv(r)'
    BY <1>1, <1>2, <1>3, <1>7
       DEF EnterLogging, Place, TypeInv, ReqInv, PosInv, RespInv, DressedIn, RecInv,
           TraceInv, LogInv, PanicInv
  <2>. QED
    BY <2>1, <2>2
<1>8. CASE EnterPlain(r) \/ Acquire(r) \/ EnterBody(r)
  <2>1. TypeInv'
    BY <1>8 DEF TypeInv, EnterPlain, Acquire, EnterBody
  <2>2. /\ at'[r] = at[r] + 1 /\ at[r] \in Nat
        /\ UNCHANGED <<way, outVars, obsVars, fault, how>>
    BY <1>8 DEF EnterPlain, Acquire, EnterBody, TypeInv
  <2>3. /\ at[r] < Len(Chain(r)) /\ (App(r) => at[r] > 4) /\ at[r] > 1
        /\ BodyLimited /\ at[r] = Len(Chain(r)) - 1 => kind[r].body # "declared"
    <3>1. CASE App(r)
      BY <1>2, <1>8, <3>1 DEF EnterPlain, Acquire, EnterBody, Place
    <3>2. CASE ~App(r)
      BY <1>2, <1>8, <3>2 DEF EnterPlain, Acquire, EnterBody, Place
    <3>. QED
      BY <3>1, <3>2
  <2>4. kind' = kind
    BY <1>8 DEF EnterPlain, Acquire, EnterBody
  <2>5. PosInv(r)' /\ RespInv(r)'
    BY <1>1, <1>2, <1>3, <2>2, <2>3, <2>4 DEF Place, ReqInv, PosInv, RespInv, DressedIn
  <2>6. RecInv(r)' /\ LogInv(r)'
    BY <1>1, <1>3, <2>2, <2>4 DEF ReqInv, RecInv, LogInv
  <2>7. TraceInv(r)' /\ PanicInv(r)'
    BY <1>1, <1>3, <2>2, <2>3, <2>4 DEF ReqInv, Traced, TraceInv, PanicInv
  <2>. QED
    BY <2>1, <2>5, <2>6, <2>7 DEF ReqInv
<1>9. CASE EnterMux(r)
  <2>1. TypeInv'
    BY <1>9 DEF TypeInv, EnterMux
  <2>2. ReqInv(r)'
    BY <1>1, <1>2, <1>3, <1>9
       DEF EnterMux, Place, TypeInv, ReqInv, PosInv, RespInv, DressedIn, RecInv,
           TraceInv, LogInv, PanicInv
  <2>. QED
    BY <2>1, <2>2
<1>10. ASSUME NEW status \in {413, 503}, NEW headers \in {hdr[r], hdr[r] \cup {"retry"}},
              Layer(r) = IF status = 503 THEN "limiter" ELSE "body",
              headers = IF status = 503 THEN hdr[r] \cup {"retry"} ELSE hdr[r],
              Respond(r, status, headers), Out(r, "return"),
              (App(r) => at[r] \in 6..8) /\ (~App(r) => at[r] = 3),
              UNCHANGED <<fault, over, keep, obsVars>>
       PROVE  TypeInv' /\ ReqInv(r)'
  <2> DEFINE s == SendStatus(resp[r], status, headers, Layer(r))
             c == RecordWrite(RecordStatus(rec[r], status))
  <2>1. /\ headers \in SUBSET Headers /\ hdr[r] \subseteq headers
        /\ resp[r] \in Response /\ rec[r] \in Recorder
        /\ at[r] \in Nat \ {0}
    BY <1>1, <1>10 DEF TypeInv, Headers
  <2>2. /\ resp[r].status = 0 /\ ~resp[r].taken /\ resp[r].again = {}
        /\ "retry" \notin hdr[r]
    BY <1>1 DEF ReqInv, RespInv, DressedIn
  <2>3. /\ s \in Response /\ s.status = status /\ s.headers = headers
        /\ s.by = Layer(r) /\ s.again = {} /\ ~s.taken
    <3>1. status \in Nat \ {0} /\ Layer(r) \in Writers
      BY <1>10 DEF Writers
    <3>2. s \in Response
      BY <2>1, <3>1, SendStatusType
    <3>3. /\ s.status = status /\ s.headers = headers /\ s.by = Layer(r)
          /\ s.again = {} /\ ~s.taken
      BY <2>1, <2>2 DEF SendStatus, Response
    <3>. QED
      BY <3>2, <3>3
  <2>4. c \in Recorder /\ c.written
        /\ c.status = IF rec[r].written THEN rec[r].status ELSE status
    BY <2>1, RecordFacts
  <2> HIDE DEF s, c
  <2>5. /\ hdr' = [hdr EXCEPT ![r] = headers] /\ resp' = [resp EXCEPT ![r] = s]
        /\ rec' = IF "logging" \in Outside(r) THEN [rec EXCEPT ![r] = c] ELSE rec
    BY <1>10 DEF Respond, s, c
  <2>6. TypeInv'
    BY <1>10, <2>1, <2>3, <2>4, <2>5 DEF TypeInv
  <2>7. hdr'[r] = headers /\ resp'[r] = s
    BY <2>5 DEF TypeInv
  <2>8. RespInv(r)'
    <3>1. DressedIn(r)'
      BY <1>1, <1>2, <1>3, <1>10, <2>1, <2>2, <2>3, <2>7 DEF Place, TypeInv, ReqInv, RespInv, DressedIn
    <3>2. "security" \in headers /\ (App(r) => "id" \in headers)
      BY <1>1, <1>2, <1>10, <2>1 DEF Place, TypeInv, ReqInv, RespInv, DressedIn
    <3>3. "retry" \in headers <=> Layer(r) = "limiter"
      BY <1>10, <2>2
    <3>4. way'[r] = "out"
      BY <1>10 DEF TypeInv
    <3>. QED
      BY <1>3, <1>10, <2>3, <2>7, <3>1, <3>2, <3>3, <3>4 DEF RespInv
  <2>9. ReqInv(r)'
    BY <1>1, <1>2, <1>3, <1>10, <2>1, <2>2, <2>3, <2>4, <2>5, <2>8
       DEF Place, TypeInv, ReqInv, PosInv, RecInv, TraceInv, LogInv, PanicInv
  <2>. QED
    BY <2>6, <2>9
<1>11. CASE Shed(r)
  <2>1. Layer(r) = "limiter" /\ (App(r) => at[r] \in 6..8) /\ App(r)
    BY <1>2, <1>11 DEF Shed, Place
  <2>. QED
    BY <1>10, <1>11, <2>1 DEF Shed
<1>12. CASE RefuseBody(r)
  <2>1. Layer(r) = "body"
    BY <1>12 DEF RefuseBody
  <2>2. (App(r) => at[r] \in 6..8) /\ (~App(r) => at[r] = 3)
    <3>1. at[r] = Len(Chain(r)) - 1 /\ BodyLimited
      BY <1>2, <2>1 DEF Place
    <3>2. /\ App(r) => Len(Chain(r)) \in 6..9 /\ Len(Chain(r)) > 6
          /\ ~App(r) => Len(Chain(r)) = 4
      BY <1>2, <3>1 DEF Place
    <3>. QED
      BY <3>1, <3>2
  <2>. QED
    BY <1>10, <1>12, <2>1, <2>2 DEF RefuseBody
<1>. QED
  BY <1>4, <1>5, <1>6, <1>7, <1>8, <1>9, <1>11, <1>12 DEF EnterStep

-----------------------------------------------------------------------------
(* The handler.                                                            *)

(* A handler's write, with what net/http and the recorder make of it: the  *)
(* response s is what it was but for who wrote again or that it was taken  *)
(* over, or it has just begun; and the recorder c agrees with it.          *)
SaysAgain(p, s) ==
  /\ s.status = p.status /\ s.headers = p.headers /\ s.by = p.by
  /\ s.again = p.again \/ (p.status # 0 /\ s.again = p.again \cup {"handler"})

Begins(r, s) ==
  /\ resp[r].status = 0 /\ s.status # 0 /\ s.headers = hdr[r]
  /\ s.by \in {"handler", "flush"} /\ s.again = resp[r].again

Agree(s, c) ==
  /\ c.status # 0
  /\ ~c.written => c.status = 200
  /\ ~c.written => s.status = 0 \/ s.by = "flush"
  /\ s.by = "flush" => s.status = 200
  /\ c.written /\ c.status # 103 /\ ~s.taken /\ ~(s.by = "flush" /\ s.again # {})
       => s.status = c.status

Writes(r, s, c) ==
  /\ resp' = [resp EXCEPT ![r] = s]
  /\ rec' \in [Requests -> Recorder] /\ (App(r) => rec'[r] = c)
  /\ keep' \in [Requests -> BOOLEAN] /\ (keep'[r] => keep[r])
  /\ UNCHANGED <<posVars, hdr, over, obsVars>>
  /\ SaysAgain(resp[r], s) \/ Begins(r, s)
  /\ App(r) => Agree(s, c)

LEMMA WriteKeeps ==
  ASSUME TypeInv, NEW r \in Requests, ReqInv(r), way[r] = "handler",
         NEW s \in Response, NEW c \in Recorder, Writes(r, s, c)
  PROVE  TypeInv' /\ ReqInv(r)'
<1>1. kind' = kind
  BY DEF Writes, posVars
<1>2. App(r)' = App(r) /\ Chain(r)' = Chain(r) /\ Traced(r)' = Traced(r)
  BY <1>1, SameChain
<1> USE DEF Logged, Done, Hinted, Bypassed
<1>3. /\ way' = way /\ at' = at /\ how' = how /\ fault' = fault /\ hdr' = hdr
      /\ over' = over /\ span' = span /\ entry' = entry /\ panicLog' = panicLog
      /\ routed' = routed
  BY DEF Writes, posVars, obsVars
<1>4. TypeInv' /\ resp'[r] = s /\ resp[r] \in Response
  BY <1>1, <1>3 DEF Writes, TypeInv
<1>5. RespInv(r)'
  <2>1. /\ resp[r].status = 0 <=> resp[r].by = "nobody"
        /\ resp[r].status = 0 => resp[r].again = {} /\ "retry" \notin hdr[r]
        /\ App(r) /\ resp[r].by # "flush" => resp[r].again \subseteq {"handler"}
        /\ "security" \in hdr[r] /\ (App(r) => "id" \in hdr[r])
        /\ "retry" \in hdr[r] => resp[r].by = "limiter"
    BY DEF ReqInv, RespInv, DressedIn
  <2>2. DressedIn(r)'
    BY <1>2, <1>3, <1>4, <2>1 DEF Writes, SaysAgain, Begins, DressedIn
  <2>3. CASE SaysAgain(resp[r], s)
    BY <1>2, <1>3, <1>4, <2>1, <2>2, <2>3 DEF SaysAgain, ReqInv, RespInv
  <2>4. CASE Begins(r, s)
    BY <1>2, <1>3, <1>4, <2>1, <2>2, <2>4 DEF Begins, RespInv
  <2>. QED
    BY <2>3, <2>4 DEF Writes
<1>6. PosInv(r)'
  BY <1>1, <1>2, <1>3 DEF Writes, ReqInv, PosInv
<1>7. RecInv(r)'
  BY <1>2, <1>3, <1>4 DEF Writes, Agree, RecInv
<1>8. TraceInv(r)'
  BY <1>2, <1>3 DEF ReqInv, TraceInv
<1>9. LogInv(r)' /\ PanicInv(r)'
  BY <1>1, <1>2, <1>3 DEF ReqInv, LogInv, PanicInv
<1>. QED
  BY <1>4, <1>5, <1>6, <1>7, <1>8, <1>9 DEF ReqInv

(* Whatever the handler does keeps what is true of its request.            *)
LEMMA HandlerKeeps ==
  ASSUME TypeInv, NEW r \in Requests, ReqInv(r), HandlerStep(r)
  PROVE  TypeInv' /\ ReqInv(r)'
<1>1. way[r] = "handler"
  BY DEF HandlerStep, HandlerWriteHeader, HandlerWrite, HandlerFlush, HandlerHijack, HandlerEarlyHints,
         May, Recorded,
         HandlerRead, HandlerReturn, HandlerPanic, HandlerAbort, InHandler
<1>2. Place(r)
  BY <1>1, InPlace
<1>3. kind' = kind
  BY DEF HandlerStep, HandlerWriteHeader, HandlerWrite, HandlerFlush, HandlerHijack, HandlerEarlyHints,
         May, Recorded,
         HandlerRead, HandlerReturn, HandlerPanic, HandlerAbort, Out, posVars
<1>4. App(r)' = App(r) /\ Chain(r)' = Chain(r) /\ Traced(r)' = Traced(r)
  BY <1>3, SameChain
<1>5. /\ at[r] \in Nat /\ at[r] = Len(Chain(r)) /\ (App(r) => at[r] \in 6..9)
      /\ at[r] >= 3 /\ at[r] - 1 > 0 /\ (App(r) => at[r] - 1 >= 5)
      /\ "logging" \in Outside(r) <=> App(r)
  <2>1. at[r] = Len(Chain(r))
    BY <1>1 DEF ReqInv, PosInv
  <2>2. App(r) => at[r] \in 6..9
    BY <1>2, <2>1 DEF Place
  <2>3. ~App(r) => at[r] \in 3..4
    BY <1>2, <2>1 DEF Place
  <2>4. App(r) => ("logging" \in Outside(r) <=> at[r] > 4)
    BY <1>2 DEF Place
  <2>5. ~App(r) => "logging" \notin Outside(r)
    BY <1>2 DEF Place
  <2>6. at[r] \in 3..9
    BY <2>2, <2>3
  <2>7. App(r) => at[r] > 4 /\ at[r] - 1 >= 5
    BY <2>2
  <2>8. "logging" \in Outside(r) <=> App(r)
    BY <2>4, <2>5, <2>7
  <2>9. at[r] \in Nat /\ at[r] >= 3 /\ at[r] - 1 > 0
    BY <2>6
  <2>. QED
    BY <2>1, <2>2, <2>7, <2>8, <2>9
<1>6. resp[r] \in Response /\ rec[r] \in Recorder /\ hdr[r] \in SUBSET Headers
  BY DEF TypeInv
<1> USE DEF InHandler, posVars, obsVars, outVars, Logged, Done, Hinted, Bypassed
<1>7. /\ resp[r].status = 0 <=> resp[r].by = "nobody"
      /\ resp[r].status = 0 => resp[r].again = {}
      /\ App(r) /\ resp[r].by # "flush" => resp[r].again \subseteq {"handler"}
      /\ resp[r].status = 0 => "retry" \notin hdr[r]
      /\ "security" \in hdr[r] /\ (App(r) => "id" \in hdr[r])
  BY <1>1 DEF ReqInv, RespInv, DressedIn
<1>8. App(r) =>
        /\ rec[r].status # 0
        /\ ~rec[r].written => rec[r].status = 200
        /\ ~rec[r].written => resp[r].status = 0 \/ resp[r].by = "flush"
        /\ resp[r].by = "flush" => resp[r].status = 200
        /\ rec[r].written /\ ~Hinted(r) /\ ~Bypassed(r) => resp[r].status = rec[r].status
  BY <1>1 DEF ReqInv, RecInv
<1>9. ASSUME NEW c \in Recorder
       PROVE  /\ Recorded(r, c) \in [Requests -> Recorder]
              /\ App(r) => Recorded(r, c)[r] = c
  BY <1>5 DEF Recorded, TypeInv
<1>10. CASE \E status \in Statuses : HandlerWriteHeader(r, status)
  <2>1. PICK status \in Statuses : HandlerWriteHeader(r, status)
    BY <1>10
  <2> DEFINE s == SendStatus(resp[r], status, hdr[r], "handler")
             c == RecordStatus(rec[r], status)
  <2>2. status \in Nat \ {0} /\ status # 103
    BY StatusAssumption
  <2>3. /\ resp' = [resp EXCEPT ![r] = s] /\ rec' = Recorded(r, c)
        /\ UNCHANGED <<posVars, hdr, over, keep, obsVars>>
    BY <2>1 DEF HandlerWriteHeader, TypeInv
  <2>4. /\ s \in Response /\ s.taken = resp[r].taken
        /\ resp[r].taken => s = resp[r]
        /\ ~resp[r].taken /\ resp[r].status = 0 =>
             /\ s.status = status /\ s.headers = hdr[r] /\ s.by = "handler"
             /\ s.again = resp[r].again
        /\ ~resp[r].taken /\ resp[r].status # 0 =>
             /\ s.status = resp[r].status /\ s.headers = resp[r].headers
             /\ s.by = resp[r].by /\ s.again = resp[r].again \cup {"handler"}
    <3>1. s \in Response /\ s.taken = resp[r].taken
      BY <1>6, <2>2 DEF SendStatus, Response, Writers
    <3>2. resp[r].taken => s = resp[r]
      BY DEF SendStatus
    <3>3. ~resp[r].taken /\ resp[r].status = 0 =>
            /\ s.status = status /\ s.headers = hdr[r] /\ s.by = "handler"
            /\ s.again = resp[r].again
      BY <1>6 DEF SendStatus, Response
    <3>4. ~resp[r].taken /\ resp[r].status # 0 =>
            /\ s.status = resp[r].status /\ s.headers = resp[r].headers
            /\ s.by = resp[r].by /\ s.again = resp[r].again \cup {"handler"}
      BY <1>6 DEF SendStatus, Response
    <3>. QED
      BY <3>1, <3>2, <3>3, <3>4
  <2>5. /\ c \in Recorder /\ c.written
        /\ c.status = IF rec[r].written THEN rec[r].status ELSE status
    BY <1>6, <2>2 DEF RecordStatus, Recorder
  <2> HIDE DEF s, c
  <2>6. rec' \in [Requests -> Recorder] /\ (App(r) => rec'[r] = c)
    BY <1>9, <2>3, <2>5
  <2>7. App(r) => Agree(s, c)
    BY <1>7, <1>8, <2>2, <2>4, <2>5 DEF Agree
  <2>8. keep' \in [Requests -> BOOLEAN] /\ (keep'[r] => keep[r])
    BY <2>3 DEF TypeInv
  <2>9. SaysAgain(resp[r], s) \/ Begins(r, s)
    <3>1. CASE resp[r].taken \/ resp[r].status # 0
      BY <2>2, <2>4, <3>1 DEF SaysAgain
    <3>2. CASE ~resp[r].taken /\ resp[r].status = 0
      BY <2>2, <2>4, <3>2 DEF Begins
    <3>. QED
      BY <3>1, <3>2
  <2>10. Writes(r, s, c)
    BY <2>3, <2>6, <2>7, <2>8, <2>9 DEF Writes
  <2>. QED
    BY <1>1, <2>4, <2>5, <2>10, WriteKeeps
<1>11. CASE HandlerWrite(r)
  <2> DEFINE s == Commit(resp[r], hdr[r], "handler")
             c == RecordWrite(rec[r])
  <2>1. /\ resp' = [resp EXCEPT ![r] = s] /\ rec' = Recorded(r, c)
        /\ UNCHANGED <<posVars, hdr, over, keep, obsVars>>
    BY <1>11 DEF HandlerWrite, TypeInv
  <2>2. /\ s \in Response /\ s.taken = resp[r].taken /\ s.again = resp[r].again
        /\ resp[r].taken \/ resp[r].status # 0 => s = resp[r]
        /\ ~resp[r].taken /\ resp[r].status = 0 =>
             s.status = 200 /\ s.headers = hdr[r] /\ s.by = "handler"
    BY <1>6, CommitFacts, "handler" \in Writers DEF Writers
  <2>3. c \in Recorder /\ c.written /\ c.status = rec[r].status
    BY <1>6, RecordFacts
  <2> HIDE DEF s, c
  <2>4. rec' \in [Requests -> Recorder] /\ (App(r) => rec'[r] = c)
    BY <1>9, <2>1, <2>3
  <2>5. App(r) => Agree(s, c)
    BY <1>7, <1>8, <2>2, <2>3 DEF Agree
  <2>6. keep' \in [Requests -> BOOLEAN] /\ (keep'[r] => keep[r])
    BY <2>1 DEF TypeInv
  <2>7. SaysAgain(resp[r], s) \/ Begins(r, s)
    <3>1. CASE resp[r].taken \/ resp[r].status # 0
      BY <2>2, <3>1 DEF SaysAgain
    <3>2. CASE ~resp[r].taken /\ resp[r].status = 0
      BY <2>2, <3>2 DEF Begins
    <3>. QED
      BY <3>1, <3>2
  <2>8. Writes(r, s, c)
    BY <2>1, <2>4, <2>5, <2>6, <2>7 DEF Writes
  <2>. QED
    BY <1>1, <2>2, <2>3, <2>8, WriteKeeps
<1>12. CASE HandlerFlush(r)
  <2> DEFINE s == Commit(resp[r], hdr[r], "flush")
  <2>1. /\ resp' = [resp EXCEPT ![r] = s]
        /\ UNCHANGED <<posVars, hdr, rec, over, keep, obsVars>>
    BY <1>12 DEF HandlerFlush, TypeInv
  <2>2. /\ s \in Response /\ s.taken = resp[r].taken /\ s.again = resp[r].again
        /\ resp[r].taken \/ resp[r].status # 0 => s = resp[r]
        /\ ~resp[r].taken /\ resp[r].status = 0 =>
             s.status = 200 /\ s.headers = hdr[r] /\ s.by = "flush"
    BY <1>6, CommitFacts, "flush" \in Writers DEF Writers
  <2> HIDE DEF s
  <2>3. App(r) => Agree(s, rec[r])
    BY <1>7, <1>8, <2>2 DEF Agree
  <2>4. /\ rec' \in [Requests -> Recorder] /\ rec'[r] = rec[r]
        /\ keep' \in [Requests -> BOOLEAN] /\ (keep'[r] => keep[r])
    BY <2>1 DEF TypeInv
  <2>5. SaysAgain(resp[r], s) \/ Begins(r, s)
    <3>1. CASE resp[r].taken \/ resp[r].status # 0
      BY <2>2, <3>1 DEF SaysAgain
    <3>2. CASE ~resp[r].taken /\ resp[r].status = 0
      BY <2>2, <3>2 DEF Begins
    <3>. QED
      BY <3>1, <3>2
  <2>6. Writes(r, s, rec[r])
    BY <2>1, <2>3, <2>4, <2>5 DEF Writes
  <2>. QED
    BY <1>1, <1>6, <2>2, <2>6, WriteKeeps
<1>13. CASE HandlerHijack(r)
  <2> DEFINE s == [resp[r] EXCEPT !.taken = TRUE]
  <2>1. /\ resp' = [resp EXCEPT ![r] = s]
        /\ UNCHANGED <<posVars, hdr, rec, over, obsVars>>
    BY <1>13 DEF HandlerHijack, TypeInv
  <2>2. /\ s \in Response /\ s.taken /\ s.again = resp[r].again /\ s.by = resp[r].by
        /\ s.status = resp[r].status /\ s.headers = resp[r].headers
    BY <1>6 DEF Response
  <2>3. /\ rec' \in [Requests -> Recorder] /\ rec'[r] = rec[r]
        /\ keep' \in [Requests -> BOOLEAN] /\ (keep'[r] => keep[r])
    BY <1>13, <2>1 DEF HandlerHijack, TypeInv
  <2> HIDE DEF s
  <2>4. App(r) => Agree(s, rec[r])
    BY <1>8, <2>2 DEF Agree
  <2>5. SaysAgain(resp[r], s)
    BY <2>2 DEF SaysAgain
  <2>6. Writes(r, s, rec[r])
    BY <2>1, <2>3, <2>4, <2>5 DEF Writes
  <2>. QED
    BY <1>1, <1>6, <2>2, <2>6, WriteKeeps
<1>14. CASE HandlerEarlyHints(r)
  <2> DEFINE s == IF resp[r].status = 0 THEN resp[r]
                  ELSE SendStatus(resp[r], 103, hdr[r], "handler")
             c == RecordStatus(rec[r], 103)
  <2>1. /\ resp' = [resp EXCEPT ![r] = s] /\ rec' = Recorded(r, c)
        /\ UNCHANGED <<posVars, hdr, over, keep, obsVars>>
    BY <1>14 DEF HandlerEarlyHints, TypeInv
  <2>2. /\ s \in Response /\ s.taken = resp[r].taken
        /\ s.status = resp[r].status /\ s.headers = resp[r].headers
        /\ s.by = resp[r].by
        /\ resp[r].taken \/ resp[r].status = 0 => s.again = resp[r].again
        /\ ~resp[r].taken /\ resp[r].status # 0 =>
             s.again = resp[r].again \cup {"handler"}
    BY <1>6 DEF SendStatus, Response, Writers
  <2>3. /\ c \in Recorder /\ c.written
        /\ c.status = IF rec[r].written THEN rec[r].status ELSE 103
    BY <1>6, RecordFacts
  <2> HIDE DEF s, c
  <2>4. rec' \in [Requests -> Recorder] /\ (App(r) => rec'[r] = c)
    BY <1>9, <2>1, <2>3
  <2>5. App(r) => Agree(s, c)
    BY <1>7, <1>8, <2>2, <2>3 DEF Agree
  <2>6. keep' \in [Requests -> BOOLEAN] /\ (keep'[r] => keep[r])
    BY <2>1 DEF TypeInv
  <2>7. SaysAgain(resp[r], s)
    <3>1. CASE resp[r].taken \/ resp[r].status = 0
      BY <2>2, <3>1 DEF SaysAgain
    <3>2. CASE ~resp[r].taken /\ resp[r].status # 0
      BY <2>2, <3>2 DEF SaysAgain
    <3>. QED
      BY <3>1, <3>2
  <2>8. Writes(r, s, c)
    BY <2>1, <2>4, <2>5, <2>6, <2>7 DEF Writes
  <2>. QED
    BY <1>1, <2>2, <2>3, <2>8, WriteKeeps
<1>15. CASE HandlerRead(r)
  <2>1. TypeInv'
    BY <1>15 DEF HandlerRead, TypeInv, UnwrapWriter
  <2>2. ReqInv(r)'
    BY <1>1, <1>4, <1>15
       DEF HandlerRead, UnwrapWriter, TypeInv, ReqInv, PosInv, RespInv, DressedIn, RecInv,
           TraceInv, LogInv, PanicInv
  <2>. QED
    BY <2>1, <2>2
<1>16. ASSUME NEW w \in {"return", "panic", "abort"}, Out(r, w),
              NEW f \in {"none", "clean", "midway"}, fault' = [fault EXCEPT ![r] = f],
              f # "none" => w = "panic",
              f = "clean" => resp[r].status = 0 /\ ~resp[r].taken,
              UNCHANGED <<outVars, obsVars>>
       PROVE  TypeInv' /\ ReqInv(r)'
  <2>1. TypeInv'
    BY <1>5, <1>16 DEF TypeInv, Out
  <2>2. /\ at'[r] = at[r] - 1 /\ way'[r] = "out" /\ how'[r] = w /\ fault'[r] = f
    BY <1>16 DEF TypeInv, Out
  <2>3. PosInv(r)' /\ RespInv(r)'
    BY <1>1, <1>3, <1>4, <1>5, <1>16, <2>2 DEF ReqInv, PosInv, RespInv, DressedIn
  <2>4. at[r] - 1 > 0 /\ (App(r) => at[r] - 1 >= 5)
    BY <1>5, Zenon
  <2>5. RecInv(r)' /\ TraceInv(r)'
    BY <1>1, <1>4, <1>16, <2>2, <2>4 DEF ReqInv, RecInv, TraceInv
  <2>6. ~Logged(r)'
    BY <1>1, <1>16 DEF ReqInv, LogInv
  <2>7. LogInv(r)' /\ PanicInv(r)'
    <3>1. App(r) => ~(at'[r] < 5) /\ way'[r] # "done"
      BY <1>5, <2>2, <2>4
    <3>. QED
      BY <1>1, <1>4, <1>16, <2>2, <2>6, <3>1 DEF LogInv, PanicInv
  <2>. QED
    BY <2>1, <2>3, <2>5, <2>7 DEF ReqInv
<1>17. fault[r] = "none" /\ fault = [fault EXCEPT ![r] = "none"]
  BY <1>1 DEF ReqInv, PanicInv, TypeInv
<1>18. CASE HandlerReturn(r) \/ HandlerAbort(r)
  BY <1>16, <1>17, <1>18 DEF HandlerReturn, HandlerAbort
<1>19. CASE HandlerPanic(r)
  BY <1>16, <1>19 DEF HandlerPanic
<1>. QED
  BY <1>10, <1>11, <1>12, <1>13, <1>14, <1>15, <1>18, <1>19 DEF HandlerStep

-----------------------------------------------------------------------------
(* The way out.                                                            *)

(* A layer with nothing to write on the way out lets the call pass as it   *)
(* is: recovery only if it is no panic, logging only if it did not return. *)
LEMMA PassKeeps ==
  ASSUME TypeInv, NEW r \in Requests, ReqInv(r), way[r] = "out", at[r] > 0,
         Out(r, how[r]), UNCHANGED <<fault, outVars, obsVars>>,
         App(r) => at[r] # 1,
         App(r) /\ at[r] = 5 => how[r] # "panic",
         App(r) /\ at[r] = 4 => how[r] # "return"
  PROVE  TypeInv' /\ ReqInv(r)'
<1>1. /\ kind' = kind /\ at[r] \in Nat /\ at'[r] = at[r] - 1 /\ at'[r] \in Nat
      /\ way'[r] = "out" /\ how'[r] = how[r]
  BY DEF Out, TypeInv
<1>2. App(r)' = App(r) /\ Chain(r)' = Chain(r) /\ Traced(r)' = Traced(r)
  BY <1>1, SameChain
<1>3. TypeInv'
  BY <1>1 DEF TypeInv, Out, outVars, obsVars
<1> USE DEF outVars, obsVars, Logged, Done, Hinted, Bypassed
<1>4. at[r] < Len(Chain(r)) => at'[r] < Len(Chain(r))
  <2>1. Len(Chain(r)) \in Nat
    BY OnAChain DEF AppShape, AdminShape, ReqInv
  <2>. QED
    BY <1>1, <2>1
<1>5. PosInv(r)' /\ RespInv(r)'
  BY <1>1, <1>2, <1>4 DEF ReqInv, PosInv, RespInv, DressedIn
<1>6. RecInv(r)' /\ TraceInv(r)'
  BY <1>1, <1>2 DEF ReqInv, RecInv, TraceInv, Traced
<1>7. LogInv(r)' /\ PanicInv(r)'
  BY <1>1, <1>2 DEF ReqInv, LogInv, PanicInv
<1>. QED
  BY <1>3, <1>5, <1>6, <1>7 DEF ReqInv

(* Recovery turns a panic into a return: it has logged it, marked the span *)
(* and answered 500 unless the recorder saw a response begin.              *)
LEMMA RecoverKeeps ==
  ASSUME TypeInv, NEW r \in Requests, ReqInv(r), Recover(r)
  PROVE  TypeInv' /\ ReqInv(r)'
<1>1. way[r] = "out" /\ at[r] > 0 /\ Layer(r) = "recovery" /\ how[r] = "panic"
  BY DEF Recover, Leaving
<1>2. Place(r)
  BY <1>1, InPlace
<1>3. /\ kind' = kind /\ at[r] \in Nat /\ at'[r] = at[r] - 1 /\ way'[r] = "out"
      /\ how'[r] = "return" /\ fault' = fault /\ over' = over /\ keep' = keep
      /\ entry' = entry
  BY DEF Recover, Out, TypeInv
<1>4. App(r)' = App(r) /\ Chain(r)' = Chain(r) /\ Traced(r)' = Traced(r)
  BY <1>3, SameChain
<1>5. /\ App(r) => at[r] = 5
      /\ ~App(r) => at[r] = 2
  BY <1>1, <1>2 DEF Place
<1>6. /\ App(r) => {"logging", "identity", "tracing"} \subseteq Outside(r)
      /\ ~App(r) => "logging" \notin Outside(r) /\ "tracing" \notin Outside(r)
  BY <1>2, <1>5 DEF Place
<1>7. resp[r] \in Response /\ rec[r] \in Recorder /\ hdr[r] \in SUBSET Headers
      /\ span[r] \in Span
  BY DEF TypeInv
(* The panic entry and the span.                                           *)
<1>8. /\ panicLog' \in [Requests -> PanicEntry]
      /\ panicLog'[r] = [status |-> 500, id |-> HasID(r)]
  BY DEF Recover, TypeInv, PanicEntry, HasID
<1>9. /\ panicLog'[r] # None
      /\ App(r) => panicLog'[r].id
  <2>1. panicLog'[r].status = 500 /\ panicLog'[r].id = HasID(r)
    BY <1>8
  <2>2. None.status = 0
    BY DEF None
  <2>3. App(r) => HasID(r)
    BY <1>6 DEF HasID
  <2>. QED
    BY <2>1, <2>2, <2>3
<1>10. /\ span' \in [Requests -> Span]
       /\ span'[r].state = span[r].state
       /\ App(r) /\ span[r].state = "open" => span'[r].err
  <2> DEFINE p == [span[r] EXCEPT !.err = TRUE]
  <2>1. p \in Span /\ p.state = span[r].state /\ p.err
    BY <1>7 DEF Span
  <2>2. span' = IF HasSpan(r) THEN [span EXCEPT ![r] = p] ELSE span
    BY DEF Recover
  <2>3. App(r) /\ span[r].state = "open" => HasSpan(r)
    BY <1>6 DEF HasSpan
  <2> HIDE DEF p
  <2>. QED
    BY <2>1, <2>2, <2>3 DEF TypeInv
(* The response.                                                           *)
<1>11. /\ hdr' \in [Requests -> SUBSET Headers] /\ resp' \in [Requests -> Response]
       /\ rec' \in [Requests -> Recorder] /\ hdr'[r] = hdr[r]
       /\ App(r) /\ rec[r].written => rec'[r] = rec[r]
       /\ App(r) /\ ~rec[r].written => rec'[r].written /\ rec'[r].status = 500
       /\ \/ resp'[r] = resp[r] /\ (App(r) => rec[r].written \/ resp[r].taken)
          \/ /\ resp[r].status = 0 /\ ~resp[r].taken /\ ~resp'[r].taken
             /\ App(r) => ~rec[r].written
             /\ resp'[r].status = 500 /\ resp'[r].by = "recovery"
             /\ resp'[r].headers = hdr[r] /\ resp'[r].again = resp[r].again
          \/ /\ resp[r].status # 0
             /\ App(r) => ~rec[r].written
             /\ resp'[r].status = resp[r].status /\ resp'[r].by = resp[r].by
             /\ resp'[r].headers = resp[r].headers /\ resp'[r].taken = resp[r].taken
             /\ resp'[r].again = resp[r].again \cup {"recovery"}
  <2>1. CASE Begun(r)
    <3>1. App(r) /\ rec[r].written
      BY <1>6, <2>1 DEF Begun
    <3>2. UNCHANGED <<hdr, resp, rec>>
      BY <2>1 DEF Recover
    <3>. QED
      BY <3>1, <3>2 DEF TypeInv
  <2>2. CASE ~Begun(r)
    <3> DEFINE s == SendStatus(resp[r], 500, hdr[r], "recovery")
               c == RecordWrite(RecordStatus(rec[r], 500))
    <3>1. App(r) => ~rec[r].written
      BY <1>6, <2>2 DEF Begun
    <3>2. /\ hdr' = [hdr EXCEPT ![r] = hdr[r]] /\ resp' = [resp EXCEPT ![r] = s]
          /\ rec' = IF "logging" \in Outside(r) THEN [rec EXCEPT ![r] = c] ELSE rec
      BY <1>1, <2>2 DEF Recover, Respond
    <3>3. /\ s \in Response /\ s.taken = resp[r].taken
          /\ resp[r].taken => s = resp[r]
          /\ ~resp[r].taken /\ resp[r].status = 0 =>
               /\ s.status = 500 /\ s.headers = hdr[r] /\ s.by = "recovery"
               /\ s.again = resp[r].again
          /\ ~resp[r].taken /\ resp[r].status # 0 =>
               /\ s.status = resp[r].status /\ s.headers = resp[r].headers
               /\ s.by = resp[r].by /\ s.again = resp[r].again \cup {"recovery"}
      <4>1. s \in Response /\ s.taken = resp[r].taken
        <5>1. "recovery" \in Writers /\ 500 \in Nat
          BY DEF Writers
        <5>. QED
          BY <1>7, <5>1, SendStatusType
      <4>2. resp[r].taken => s = resp[r]
        BY DEF SendStatus
      <4>3. ~resp[r].taken /\ resp[r].status = 0 =>
              /\ s.status = 500 /\ s.headers = hdr[r] /\ s.by = "recovery"
              /\ s.again = resp[r].again
        BY <1>7 DEF SendStatus, Response
      <4>4. ~resp[r].taken /\ resp[r].status # 0 =>
              /\ s.status = resp[r].status /\ s.headers = resp[r].headers
              /\ s.by = resp[r].by /\ s.again = resp[r].again \cup {"recovery"}
        BY <1>7 DEF SendStatus, Response
      <4>. QED
        BY <4>1, <4>2, <4>3, <4>4
    <3>4. c \in Recorder /\ c.written
          /\ (~rec[r].written => c.status = 500)
      <4> DEFINE d == RecordStatus(rec[r], 500)
      <4>1. d \in Recorder /\ (~rec[r].written => d.status = 500)
        BY <1>7, RecordFacts
      <4> HIDE DEF d
      <4>2. RecordWrite(d) \in Recorder /\ RecordWrite(d).written
            /\ RecordWrite(d).status = d.status
        BY <4>1, RecordFacts
      <4>. QED
        BY <4>1, <4>2 DEF d
    <3> HIDE DEF s, c
    <3>5. /\ hdr' \in [Requests -> SUBSET Headers] /\ resp' \in [Requests -> Response]
          /\ rec' \in [Requests -> Recorder] /\ hdr'[r] = hdr[r] /\ resp'[r] = s
          /\ App(r) => rec'[r] = c
      BY <1>6, <3>2, <3>3, <3>4 DEF TypeInv
    <3>. QED
      BY <3>1, <3>3, <3>4, <3>5
  <2>. QED
    BY <2>1, <2>2
<1>12. TypeInv'
  BY <1>3, <1>5, <1>8, <1>10, <1>11 DEF TypeInv, Recover, Out
<1> USE DEF Logged, Done, Hinted, Bypassed
<1>13. PosInv(r)'
  <2>1. at[r] - 1 < Len(Chain(r))
    BY <1>2, <1>3 DEF Place
  <2>. QED
    BY <1>1, <1>3, <1>4, <2>1 DEF ReqInv, PosInv
(* Only a flush began a response the recorder does not know of.            *)
<1>14. App(r) =>
         /\ ~rec[r].written => rec[r].status = 200
         /\ ~rec[r].written => resp[r].status = 0 \/ resp[r].by = "flush"
         /\ resp[r].by = "flush" => resp[r].status = 200
         /\ rec[r].status # 0
         /\ rec[r].written /\ ~Hinted(r) /\ ~Bypassed(r) => resp[r].status = rec[r].status
  BY <1>1 DEF ReqInv, RecInv
<1>15. RespInv(r)'
  <2>1. /\ "security" \in hdr[r] /\ (App(r) => "id" \in hdr[r])
        /\ "retry" \in hdr[r] => resp[r].by = "limiter"
        /\ resp[r].status = 0 <=> resp[r].by = "nobody"
        /\ resp[r].status = 0 => resp[r].again = {}
        /\ App(r) /\ resp[r].by # "flush" => resp[r].again \subseteq {"handler"}
    BY <1>1 DEF ReqInv, RespInv, DressedIn
  <2>2. CASE resp'[r] = resp[r]
    BY <1>1, <1>3, <1>4, <1>11, <2>2 DEF ReqInv, RespInv, DressedIn
  <2>3. CASE resp[r].status = 0 /\ resp'[r].status = 500 /\ resp'[r].by = "recovery"
             /\ resp'[r].headers = hdr[r] /\ resp'[r].again = resp[r].again
    BY <1>1, <1>3, <1>4, <1>11, <2>1, <2>3 DEF RespInv, DressedIn
  <2>4. CASE /\ resp[r].status # 0
             /\ App(r) => ~rec[r].written
             /\ resp'[r].status = resp[r].status /\ resp'[r].by = resp[r].by
             /\ resp'[r].headers = resp[r].headers
             /\ resp'[r].again = resp[r].again \cup {"recovery"}
    <3>1. App(r) => resp[r].by = "flush"
      BY <1>14, <2>4
    <3>. QED
      BY <1>1, <1>3, <1>4, <1>11, <2>1, <2>4, <3>1 DEF ReqInv, RespInv, DressedIn
  <2>. QED
    BY <1>11, <2>2, <2>3, <2>4
<1>16. RecInv(r)' /\ TraceInv(r)'
  <2>1. at'[r] > 0
    BY <1>3, <1>5
  <2>2. TraceInv(r)'
    BY <1>1, <1>3, <1>4, <1>10, <2>1 DEF ReqInv, TraceInv
  <2>3. CASE App(r) /\ rec[r].written
    <3>1. resp'[r] = resp[r] /\ rec'[r] = rec[r]
      BY <1>11, <2>3
    <3>. QED
      BY <1>3, <1>4, <1>14, <2>2, <2>3, <3>1 DEF RecInv
  <2>4. CASE App(r) /\ ~rec[r].written
    <3>1. rec'[r].written /\ rec'[r].status = 500
      BY <1>11, <2>4
    <3>2. resp'[r].by = "flush" => resp[r].by = "flush" /\ resp'[r].status = resp[r].status
      BY <1>11, <2>4
    <3>3. resp'[r].taken \/ resp'[r].status = 500 \/ (resp'[r].by = "flush" /\ resp'[r].again # {})
      <4>1. resp[r].status # 0 => resp[r].by = "flush"
        BY <1>14, <2>4
      <4>. QED
        BY <1>11, <2>4, <4>1
    <3>. QED
      BY <1>3, <1>4, <1>14, <2>2, <2>4, <3>1, <3>2, <3>3 DEF RecInv
  <2>5. CASE ~App(r)
    BY <1>3, <1>4, <2>2, <2>5 DEF RecInv
  <2>. QED
    BY <2>3, <2>4, <2>5
<1>17. LogInv(r)'
  <2>1. ~Logged(r)
    BY <1>1 DEF ReqInv, LogInv
  <2>. QED
    BY <1>3, <2>1 DEF LogInv
<1>18. PanicInv(r)'
  <2>1. App(r) => at'[r] = 4
    BY <1>3, <1>5
  <2>2. App(r) /\ ShouldTrace(kind[r]) => span[r].state = "open"
    BY <1>1 DEF ReqInv, TraceInv, Traced
  <2>3. ShouldTrace(kind[r])' = ShouldTrace(kind[r])
    BY <1>3
  <2>4. App(r) /\ fault[r] = "clean" => resp[r].status = 0 /\ ~resp[r].taken
    BY <1>1, <1>5 DEF ReqInv, PanicInv
  <2>5. App(r) /\ fault[r] = "clean" /\ rec'[r].status # 103 => resp'[r].status = 500
    <3>1. resp[r].status = 0 => resp[r].by # "flush"
      BY DEF ReqInv, RespInv
    <3>. QED
      BY <1>11, <1>14, <2>4, <3>1
  <2>. QED
    BY <1>3, <1>4, <1>9, <1>10, <2>1, <2>2, <2>3, <2>5 DEF PanicInv
<1>. QED
  BY <1>12, <1>13, <1>15, <1>16, <1>17, <1>18 DEF ReqInv

(* Logging writes the entry from the recorder and the context.             *)
LEMMA LogKeeps ==
  ASSUME TypeInv, NEW r \in Requests, ReqInv(r), LeaveLogging(r)
  PROVE  TypeInv' /\ ReqInv(r)'
<1>1. way[r] = "out" /\ at[r] > 0 /\ Layer(r) = "logging" /\ how[r] = "return"
  BY DEF LeaveLogging, Leaving
<1>2. Place(r)
  BY <1>1, InPlace
<1>3. App(r) /\ at[r] = 4
  BY <1>1, <1>2 DEF Place
<1>4. /\ kind' = kind /\ at'[r] = 3 /\ way'[r] = "out" /\ how'[r] = "return"
      /\ UNCHANGED <<fault, hdr, resp, rec, over, keep, panicLog>>
  BY <1>3 DEF LeaveLogging, Out, TypeInv, outVars
<1>5. App(r)' = App(r) /\ Chain(r)' = Chain(r) /\ Traced(r)' = Traced(r)
  BY <1>4, SameChain
<1> DEFINE e == [status |-> rec[r].status, level |-> LevelForStatus(rec[r].status),
                 route |-> HasRoute(r), id |-> HasID(r), trace |-> HasSpan(r)]
<1>6. /\ e.status = rec[r].status /\ (e.level = "error" <=> rec[r].status >= 500)
      /\ e \in Entry /\ e # None /\ e.trace = HasSpan(r)
  <2>1. rec[r].status \in Nat
    BY DEF TypeInv, Recorder
  <2>2. LevelForStatus(rec[r].status) \in {"info", "warn", "error"}
        /\ (LevelForStatus(rec[r].status) = "error" <=> rec[r].status >= 500)
    BY <2>1 DEF LevelForStatus
  <2>3. {HasRoute(r), HasID(r), HasSpan(r)} \subseteq BOOLEAN
    BY DEF HasRoute, HasID, HasSpan, TypeInv
  <2>4. e \in Entry
    BY <2>1, <2>2, <2>3 DEF Entry
  <2>5. e.status # None.status
    BY <1>3 DEF None, ReqInv, RecInv
  <2>. QED
    BY <2>2, <2>4, <2>5
<1>7. entry' \in [Requests -> Entry] /\ entry'[r] = e
  <2>1. entry' = [entry EXCEPT ![r] = e]
    BY DEF LeaveLogging
  <2> HIDE DEF e
  <2>. QED
    BY <1>6, <2>1 DEF TypeInv
<1>8. HasSpan(r) <=> ShouldTrace(kind[r])
  <2>1. "tracing" \in Outside(r)
    BY <1>2, <1>3 DEF Place
  <2>2. span[r].state = IF Traced(r) THEN "open" ELSE "none"
    BY <1>1 DEF ReqInv, TraceInv
  <2>. QED
    BY <1>3, <2>1, <2>2 DEF HasSpan, Traced
<1>9. span' \in [Requests -> Span] /\ span'[r].state = span[r].state
      /\ span'[r].err = span[r].err
  <2> DEFINE p == [span[r] EXCEPT !.named = TRUE]
  <2>1. p \in Span /\ p.state = span[r].state /\ p.err = span[r].err
    BY DEF Span, TypeInv
  <2>2. span' = IF HasRoute(r) /\ HasSpan(r) THEN [span EXCEPT ![r] = p] ELSE span
    BY DEF LeaveLogging
  <2> HIDE DEF p
  <2>. QED
    BY <2>1, <2>2 DEF TypeInv
<1> HIDE DEF e
<1>10. TypeInv'
  BY <1>3, <1>4, <1>7, <1>9 DEF TypeInv, LeaveLogging, Out
<1> USE DEF Logged, Done, Hinted, Bypassed
<1>11. PosInv(r)' /\ RespInv(r)'
  <2>1. 3 < Len(Chain(r))
    BY <1>2, <1>3 DEF Place
  <2>. QED
    BY <1>1, <1>4, <1>5, <2>1 DEF ReqInv, PosInv, RespInv, DressedIn
<1>12. RecInv(r)' /\ TraceInv(r)'
  BY <1>1, <1>3, <1>4, <1>5, <1>9 DEF ReqInv, RecInv, TraceInv
<1>13. ShouldTrace(kind[r])' = ShouldTrace(kind[r])
  BY <1>4
<1>14. LogInv(r)'
  BY <1>3, <1>4, <1>5, <1>6, <1>7, <1>8, <1>13 DEF LogInv
<1>15. PanicInv(r)'
  BY <1>1, <1>3, <1>4, <1>5, <1>6, <1>7, <1>9, <1>13 DEF ReqInv, PanicInv
<1>. QED
  BY <1>10, <1>11, <1>12, <1>14, <1>15 DEF ReqInv

(* The tracing layer ends the span, the last thing on the way out.         *)
LEMMA TraceKeeps ==
  ASSUME TypeInv, NEW r \in Requests, ReqInv(r), LeaveTracing(r)
  PROVE  TypeInv' /\ ReqInv(r)'
<1>1. way[r] = "out" /\ at[r] > 0 /\ Layer(r) = "tracing"
  BY DEF LeaveTracing, Leaving
<1>2. Place(r)
  BY <1>1, InPlace
<1>3. App(r) /\ at[r] = 1
  BY <1>1, <1>2 DEF Place
<1>4. /\ kind' = kind /\ at'[r] = 0 /\ way'[r] = "out" /\ how'[r] = how[r]
      /\ UNCHANGED <<fault, hdr, resp, rec, over, keep, entry, panicLog>>
  BY <1>3 DEF LeaveTracing, Out, TypeInv, outVars
<1>5. App(r)' = App(r) /\ Chain(r)' = Chain(r) /\ Traced(r)' = Traced(r)
      /\ ShouldTrace(kind[r])' = ShouldTrace(kind[r])
  BY <1>4, SameChain
<1>6. /\ span' \in [Requests -> Span]
      /\ span'[r].err = span[r].err
      /\ span[r].state = "open" => span'[r].state = "ended"
      /\ span[r].state # "open" => span'[r].state = span[r].state
  <2> DEFINE p == [span[r] EXCEPT !.state = "ended"]
  <2>1. p \in Span /\ p.state = "ended" /\ p.err = span[r].err
    BY DEF Span, TypeInv
  <2>2. span' = IF span[r].state = "open" THEN [span EXCEPT ![r] = p] ELSE span
    BY DEF LeaveTracing
  <2> HIDE DEF p
  <2>. QED
    BY <2>1, <2>2 DEF TypeInv
<1>7. TypeInv'
  BY <1>3, <1>4, <1>6 DEF TypeInv, LeaveTracing, Out
<1> USE DEF Logged, Done, Hinted, Bypassed
<1>8. PosInv(r)' /\ RespInv(r)'
  <2>1. 0 < Len(Chain(r))
    BY <1>2, <1>3 DEF Place
  <2>. QED
    BY <1>1, <1>4, <1>5, <2>1 DEF ReqInv, PosInv, RespInv, DressedIn
<1>9. RecInv(r)' /\ TraceInv(r)'
  BY <1>1, <1>3, <1>4, <1>5, <1>6 DEF ReqInv, RecInv, TraceInv
<1>10. LogInv(r)' /\ PanicInv(r)'
  BY <1>1, <1>3, <1>4, <1>5, <1>6 DEF ReqInv, LogInv, PanicInv
<1>. QED
  BY <1>7, <1>8, <1>9, <1>10 DEF ReqInv

(* net/http finishes the response.                                         *)
LEMMA FinishKeeps ==
  ASSUME TypeInv, NEW r \in Requests, ReqInv(r), Finish(r)
  PROVE  TypeInv' /\ ReqInv(r)'
<1>1. way[r] = "out" /\ at[r] = 0
  BY DEF Finish
<1>2. /\ kind' = kind /\ at' = at /\ way'[r] = "done" /\ how' = how
      /\ UNCHANGED <<fault, hdr, rec, over, span, entry, panicLog>>
      /\ keep' \in [Requests -> BOOLEAN] /\ (keep'[r] => keep[r])
  BY DEF Finish, TypeInv, obsVars
<1>3. App(r)' = App(r) /\ Chain(r)' = Chain(r) /\ Traced(r)' = Traced(r)
      /\ ShouldTrace(kind[r])' = ShouldTrace(kind[r])
  BY <1>2, SameChain
<1>4. /\ resp' \in [Requests -> Response] /\ resp'[r].taken = resp[r].taken
      /\ resp'[r].again = resp[r].again
      /\ resp[r].taken \/ resp[r].status # 0 \/ how[r] # "return" => resp'[r] = resp[r]
      /\ ~resp[r].taken /\ resp[r].status = 0 /\ how[r] = "return" =>
           resp'[r].status = 200 /\ resp'[r].headers = hdr[r] /\ resp'[r].by = "net/http"
  <2> DEFINE s == Commit(resp[r], hdr[r], "net/http")
  <2>1. resp[r] \in Response /\ hdr[r] \in SUBSET Headers /\ "net/http" \in Writers
    BY DEF TypeInv, Writers
  <2>2. /\ s \in Response /\ s.taken = resp[r].taken /\ s.again = resp[r].again
        /\ resp[r].taken \/ resp[r].status # 0 => s = resp[r]
        /\ ~resp[r].taken /\ resp[r].status = 0 =>
             s.status = 200 /\ s.headers = hdr[r] /\ s.by = "net/http"
    BY <2>1, CommitFacts
  <2>3. resp' = IF how[r] = "return" THEN [resp EXCEPT ![r] = s] ELSE resp
    BY DEF Finish, TypeInv
  <2> HIDE DEF s
  <2>. QED
    BY <2>2, <2>3 DEF TypeInv
<1>5. TypeInv'
  BY <1>2, <1>4 DEF TypeInv, Finish
<1> USE DEF Logged, Done, Hinted, Bypassed
<1>6. PosInv(r)' /\ RespInv(r)'
  BY <1>1, <1>2, <1>3, <1>4 DEF ReqInv, PosInv, RespInv, DressedIn
<1>7. RecInv(r)' /\ TraceInv(r)'
  BY <1>1, <1>2, <1>3, <1>4 DEF ReqInv, RecInv, TraceInv
<1>8. LogInv(r)'
  BY <1>1, <1>2, <1>3, <1>4 DEF ReqInv, RecInv, LogInv
<1>9. PanicInv(r)'
  BY <1>1, <1>2, <1>3, <1>4 DEF ReqInv, PanicInv
<1>. QED
  BY <1>5, <1>6, <1>7, <1>8, <1>9 DEF ReqInv

(* Every step on the way out.                                              *)
LEMMA LeaveKeeps ==
  ASSUME TypeInv, NEW r \in Requests, ReqInv(r), LeaveStep(r)
  PROVE  TypeInv' /\ ReqInv(r)'
<1>1. CASE LeavePlain(r) \/ LeaveLimiter(r) \/ PassRecovery(r) \/ SkipLogging(r)
  <2>1. /\ way[r] = "out" /\ at[r] > 0 /\ Out(r, how[r])
        /\ UNCHANGED <<fault, outVars, obsVars>>
    BY <1>1 DEF LeavePlain, LeaveLimiter, PassRecovery, SkipLogging, Leaving
  <2>2. Place(r)
    BY <2>1, InPlace
  <2>3. /\ Layer(r) # "tracing"
        /\ Layer(r) = "recovery" => how[r] # "panic"
        /\ Layer(r) = "logging" => how[r] # "return"
    BY <1>1 DEF LeavePlain, LeaveLimiter, PassRecovery, SkipLogging, Leaving
  <2>4. /\ App(r) => at[r] # 1
        /\ App(r) /\ at[r] = 5 => how[r] # "panic"
        /\ App(r) /\ at[r] = 4 => how[r] # "return"
    BY <2>2, <2>3 DEF Place
  <2>. QED
    BY <2>1, <2>4, PassKeeps
<1>. QED
  BY <1>1, RecoverKeeps, LogKeeps, TraceKeeps, FinishKeeps DEF LeaveStep

(* A request arrives.                                                      *)
LEMMA ArriveKeeps ==
  ASSUME TypeInv, NEW r \in Requests, ReqInv(r), NEW k \in Kinds[r], Arrive(r, k)
  PROVE  TypeInv' /\ ReqInv(r)'
<1>1. /\ way[r] = "new" /\ way'[r] = "in" /\ at'[r] = 1 /\ kind'[r] = k /\ k \in Kind
      /\ UNCHANGED <<how, fault, hdr, resp, rec, over, keep, span, entry, panicLog>>
  BY KindsAssumption DEF Arrive, TypeInv, outVars, obsVars
<1>2. TypeInv'
  <2>1. k \in AnyKind
    BY <1>1 DEF AnyKind
  <2>. QED
    BY <1>1, <2>1 DEF TypeInv, Arrive
<1> USE DEF Logged, Done, Hinted, Bypassed
<1>3. PosInv(r)'
  <2> DEFINE n == Len(Chains[k.mux])
  <2>1. n \in 6..9 \/ n \in 3..4
    <3>1. k.mux \in {"app", "admin"}
      BY <1>1 DEF Kind
    <3>2. Len(Chains["app"]) \in 6..9 /\ Len(Chains["admin"]) \in 3..4
      BY AppChain, AdminChain DEF AppShape, AdminShape
    <3>. QED
      BY <3>1, <3>2
  <2>2. Len(Chain(r))' = n
    BY <1>1 DEF Chain
  <2> HIDE DEF n
  <2>3. 1 \in 1..n /\ 1 # n
    BY <2>1
  <2>4. over'[r] => ~keep'[r]
    BY <1>1 DEF ReqInv, PosInv
  <2>. QED
    BY <1>1, <2>2, <2>3, <2>4 DEF PosInv
<1>4. /\ resp[r].status = 0 /\ resp[r].by = "nobody" /\ resp[r].again = {}
      /\ ~resp[r].taken /\ rec[r].status = 200 /\ ~rec[r].written
      /\ "retry" \notin hdr[r]
  BY <1>1 DEF ReqInv, RespInv, DressedIn, RecInv
<1>5. RespInv(r)' /\ RecInv(r)'
  BY <1>1, <1>4 DEF RespInv, DressedIn, RecInv
<1>6. TraceInv(r)'
  BY <1>1 DEF ReqInv, TraceInv
<1>7. LogInv(r)' /\ PanicInv(r)'
  <2>1. ~Logged(r) /\ fault[r] = "none"
    BY <1>1 DEF ReqInv, LogInv, PanicInv
  <2>. QED
    BY <1>1, <2>1 DEF LogInv, PanicInv
<1>. QED
  BY <1>2, <1>3, <1>5, <1>6, <1>7 DEF ReqInv

-----------------------------------------------------------------------------
(* Concurrent requests.                                                    *)

Step(r) == (\E k \in Kinds[r] : Arrive(r, k)) \/ EnterStep(r) \/ HandlerStep(r) \/ LeaveStep(r)

(* A step of one request leaves the others where they are.                 *)
LEMMA OthersUntouched ==
  ASSUME TypeInv, NEW r \in Requests, Step(r), NEW q \in Requests, q # r
  PROVE  Untouched(q)
<1> USE DEF Untouched, TypeInv, In, Out, posVars, outVars, obsVars, Respond
<1>1. CASE \E k \in Kinds[r] : Arrive(r, k)
  BY <1>1 DEF Arrive
<1>2. CASE EnterTracing(r) \/ EnterHeaders(r) \/ EnterIdentity(r) \/ EnterLogging(r)
           \/ EnterPlain(r)
  BY <1>2 DEF EnterTracing, EnterHeaders, EnterIdentity, EnterLogging, EnterPlain
<1>3. CASE Acquire(r) \/ Shed(r) \/ EnterBody(r) \/ RefuseBody(r) \/ EnterMux(r)
  BY <1>3 DEF Acquire, Shed, EnterBody, RefuseBody, EnterMux
<1>4. CASE HandlerStep(r)
  BY <1>4 DEF HandlerStep, HandlerWriteHeader, HandlerWrite, HandlerFlush, HandlerHijack, HandlerEarlyHints,
         May, Recorded,
              HandlerRead, HandlerReturn, HandlerPanic, HandlerAbort
<1>5. CASE LeavePlain(r) \/ LeaveLimiter(r) \/ PassRecovery(r) \/ SkipLogging(r)
  BY <1>5 DEF LeavePlain, LeaveLimiter, PassRecovery, SkipLogging
<1>6. CASE Recover(r)
  BY <1>6 DEF Recover
<1>7. CASE LeaveLogging(r) \/ LeaveTracing(r) \/ Finish(r)
  BY <1>7 DEF LeaveLogging, LeaveTracing, Finish
<1>. QED
  BY <1>1, <1>2, <1>3, <1>4, <1>5, <1>6, <1>7 DEF Step, EnterStep, LeaveStep

(* Only Acquire and LeaveLimiter change who is past the limiter, and each  *)
(* takes or gives back one slot.                                           *)
LEMMA HolderStep ==
  ASSUME TypeInv, NEW r \in Requests, ReqInv(r), Step(r)
  PROVE  \/ ~Holds(r) /\ Holds(r)' /\ slots' = slots + 1 /\ slots < MaxInFlight
         \/ Holds(r) /\ ~Holds(r)' /\ slots' = slots - 1
         \/ (Holds(r)' <=> Holds(r)) /\ slots' = slots
<1> USE DEF In, Out, posVars, Entering, Leaving, InHandler
<1>1. at[r] \in Nat /\ at \in [Requests -> Nat] /\ way \in [Requests -> {"new", "in", "handler", "out", "done"}]
  BY DEF TypeInv
<1>2. CASE \E k \in Kinds[r] : Arrive(r, k)
  BY <1>1, <1>2 DEF Arrive, Holds
<1>3. CASE EnterStep(r) \/ HandlerStep(r) \/ LeaveStep(r)
  <2>1. App(r)' = App(r)
    <3>1. kind' = kind
      BY <1>3 DEF EnterStep, EnterTracing, EnterHeaders, EnterIdentity, EnterLogging,
         EnterPlain, Acquire, Shed, EnterBody, RefuseBody, EnterMux,
         HandlerStep, HandlerWriteHeader, HandlerWrite, HandlerFlush, HandlerHijack, HandlerEarlyHints,
         May, Recorded,
         HandlerRead, HandlerReturn, HandlerPanic, HandlerAbort,
         LeaveStep, LeavePlain, LeaveLimiter, PassRecovery, SkipLogging, Recover,
         LeaveLogging, LeaveTracing, Finish
    <3>. QED
      BY <3>1, SameChain
  <2>2. CASE Finish(r)
    BY <1>1, <2>1, <2>2 DEF Finish, Holds
  <2>3. ASSUME ~Finish(r) PROVE Place(r)
    <3>1. way[r] \in {"in", "handler"} \/ (way[r] = "out" /\ at[r] > 0)
      BY <1>3, <2>3 DEF EnterStep, EnterTracing, EnterHeaders, EnterIdentity,
         EnterLogging, EnterPlain, Acquire, Shed, EnterBody, RefuseBody, EnterMux,
         HandlerStep, HandlerWriteHeader, HandlerWrite, HandlerFlush, HandlerHijack, HandlerEarlyHints,
         May, Recorded,
         HandlerRead, HandlerReturn, HandlerPanic, HandlerAbort,
         LeaveStep, LeavePlain, LeaveLimiter, PassRecovery, SkipLogging, Recover,
         LeaveLogging, LeaveTracing
    <3>. QED
      BY <3>1, InPlace
  <2>4. ASSUME ~Finish(r)
        PROVE  /\ App(r) /\ MaxInFlight > 0 /\ at[r] = 6 => Layer(r) = "limiter"
               /\ Layer(r) = "limiter" => App(r) /\ MaxInFlight > 0 /\ at[r] = 6
    BY <2>3, <2>4 DEF Place
  <2>5. CASE EnterStep(r)
    <3>1. way[r] = "in" /\ ~Finish(r)
      BY <2>5 DEF EnterStep, EnterTracing, EnterHeaders, EnterIdentity, EnterLogging,
         EnterPlain, Acquire, Shed, EnterBody, RefuseBody, EnterMux, Finish
    <3>2. CASE Acquire(r)
      BY <1>1, <2>1, <2>4, <3>1, <3>2 DEF Acquire, Holds
    <3>3. CASE Shed(r)
      BY <1>1, <2>1, <2>4, <3>1, <3>3 DEF Shed, Holds
    <3>4. CASE EnterMux(r)
      BY <1>1, <2>1, <2>4, <3>1, <3>4 DEF EnterMux, Holds
    <3>5. CASE RefuseBody(r)
      BY <1>1, <2>1, <2>4, <3>1, <3>5 DEF RefuseBody, Holds
    <3>6. CASE EnterTracing(r) \/ EnterHeaders(r) \/ EnterIdentity(r) \/ EnterLogging(r)
               \/ EnterPlain(r) \/ EnterBody(r)
      <4>1. Layer(r) # "limiter" /\ at'[r] = at[r] + 1 /\ way' = way /\ slots' = slots
        BY <1>1, <3>6 DEF EnterTracing, EnterHeaders, EnterIdentity, EnterLogging,
                          EnterPlain, EnterBody
      <4>. QED
        BY <1>1, <2>1, <2>4, <3>1, <4>1 DEF Holds
    <3>. QED
      BY <2>5, <3>2, <3>3, <3>4, <3>5, <3>6 DEF EnterStep
  <2>6. CASE HandlerStep(r)
    <3>1. /\ way[r] = "handler" /\ slots' = slots
          /\ \/ at'[r] = at[r] /\ way'[r] = "handler"
             \/ at'[r] = at[r] - 1 /\ way'[r] = "out"
      BY <1>1, <2>6
         DEF HandlerStep, HandlerWriteHeader, HandlerWrite, HandlerFlush, HandlerHijack, HandlerEarlyHints,
         May, Recorded,
             HandlerRead, HandlerReturn, HandlerPanic, HandlerAbort
    <3>. QED
      BY <1>1, <2>1, <3>1 DEF Holds
  <2>7. CASE LeaveLimiter(r)
    <3>1. ~Finish(r)
      BY <2>7 DEF LeaveLimiter, Finish
    <3>. QED
      BY <1>1, <2>1, <2>4, <2>7, <3>1 DEF LeaveLimiter, Release, Holds
  <2>8. CASE LeavePlain(r) \/ PassRecovery(r) \/ SkipLogging(r) \/ Recover(r)
             \/ LeaveLogging(r) \/ LeaveTracing(r)
    <3>1. /\ way[r] = "out" /\ ~Finish(r) /\ Layer(r) # "limiter" /\ slots' = slots
          /\ at'[r] = at[r] - 1 /\ way'[r] = "out" /\ at[r] > 0
      BY <1>1, <2>8 DEF LeavePlain, PassRecovery, SkipLogging, Recover, LeaveLogging,
                        LeaveTracing, Finish
    <3>. QED
      BY <1>1, <2>1, <2>4, <3>1 DEF Holds
  <2>. QED
    BY <1>3, <2>2, <2>5, <2>6, <2>7, <2>8 DEF LeaveStep
<1>. QED
  BY <1>2, <1>3 DEF Step

(* The slots count the requests past the limiter after every step.         *)
LEMMA SlotKeeps ==
  ASSUME IInv, NEW r \in Requests, Step(r)
  PROVE  SlotInv'
<1>1. ReqInv(r) /\ TypeInv /\ IsFiniteSet(Holders) /\ slots = Cardinality(Holders)
      /\ slots <= MaxInFlight
  BY DEF IInv, SlotInv
<1>2. \A q \in Requests : q # r => (Holds(q)' <=> Holds(q))
  BY <1>1, OthersUntouched, Frame DEF IInv
<1>3. Cardinality(Holders) \in Nat
  BY <1>1, FS_CardinalityType
<1>4. CASE ~Holds(r) /\ Holds(r)' /\ slots' = slots + 1 /\ slots < MaxInFlight
  <2>1. Holders' = Holders \cup {r} /\ r \notin Holders
    BY <1>2, <1>4 DEF Holders
  <2>2. IsFiniteSet(Holders') /\ Cardinality(Holders') = Cardinality(Holders) + 1
    BY <1>1, <2>1, FS_AddElement
  <2>. QED
    BY <1>1, <1>3, <1>4, <2>2, LimitAssumption DEF SlotInv
<1>5. CASE Holds(r) /\ ~Holds(r)' /\ slots' = slots - 1
  <2>1. Holders' = Holders \ {r} /\ r \in Holders
    BY <1>2, <1>5 DEF Holders
  <2>2. IsFiniteSet(Holders') /\ Cardinality(Holders') = Cardinality(Holders) - 1
    BY <1>1, <2>1, FS_RemoveElement
  <2>. QED
    BY <1>1, <1>3, <1>5, <2>2, LimitAssumption DEF SlotInv
<1>6. CASE (Holds(r)' <=> Holds(r)) /\ slots' = slots
  <2>1. Holders' = Holders
    BY <1>2, <1>6 DEF Holders
  <2>. QED
    BY <1>1, <1>6, <2>1 DEF SlotInv
<1>. QED
  BY <1>1, <1>4, <1>5, <1>6, HolderStep

-----------------------------------------------------------------------------
(* The theorems.                                                           *)

(* Before the first request arrives the invariant holds.                   *)
LEMMA InitIInv == Init => IInv
<1> SUFFICES ASSUME Init PROVE IInv
  OBVIOUS
<1>1. TypeInv
  BY DEF Init, TypeInv, NoResponse, Headers, Response, Recorder, Span, Entry, PanicEntry, AnyKind
<1>2. ASSUME NEW r \in Requests PROVE ReqInv(r)
  <2>1. /\ way[r] = "new" /\ at[r] = 0 /\ ~over[r] /\ fault[r] = "none" /\ hdr[r] = {}
        /\ resp[r].status = 0 /\ resp[r].by = "nobody" /\ resp[r].again = {}
        /\ ~resp[r].taken /\ rec[r].status = 200 /\ ~rec[r].written
        /\ span[r].state = "none" /\ entry[r] = None
    BY <1>2 DEF Init, NoResponse
  <2>. QED
    BY <2>1 DEF ReqInv, PosInv, RespInv, DressedIn, RecInv, TraceInv, LogInv, PanicInv, Logged,
                Done, Hinted, Bypassed
<1>3. SlotInv
  <2>1. Holders = {} /\ slots = 0
    BY DEF Holders, Holds, Init
  <2>. QED
    BY <2>1, FS_EmptySet, LimitAssumption DEF SlotInv
<1>. QED
  BY <1>1, <1>2, <1>3 DEF IInv

(* No step of any request, and no interleaving of them, breaks the         *)
(* invariant.                                                              *)
LEMMA NextIInv == IInv /\ [Next]_vars => IInv'
<1> SUFFICES ASSUME IInv, [Next]_vars PROVE IInv'
  OBVIOUS
<1>1. ASSUME NEW r \in Requests, Step(r) PROVE IInv'
  <2>1. TypeInv /\ ReqInv(r)
    BY DEF IInv
  <2>2. TypeInv' /\ ReqInv(r)'
    BY <1>1, <2>1, ArriveKeeps, EnterKeeps, HandlerKeeps, LeaveKeeps DEF Step
  <2>3. ASSUME NEW q \in Requests, q # r PROVE ReqInv(q)'
    BY <1>1, <2>1, <2>3, OthersUntouched, Frame DEF IInv
  <2>4. SlotInv'
    BY <1>1, SlotKeeps
  <2>. QED
    BY <2>2, <2>3, <2>4 DEF IInv
<1>2. CASE UNCHANGED vars
  <2>1. ASSUME NEW q \in Requests PROVE ReqInv(q)' /\ (Holds(q)' <=> Holds(q))
    <3>1. Untouched(q)
      BY <1>2 DEF vars, posVars, outVars, obsVars, Untouched
    <3>. QED
      BY <3>1, Frame DEF IInv
  <2>2. TypeInv'
    BY <1>2 DEF IInv, TypeInv, vars, posVars, outVars, obsVars
  <2>3. Holders' = Holders /\ slots' = slots
    BY <1>2, <2>1 DEF Holders, vars
  <2>. QED
    BY <2>1, <2>2, <2>3 DEF IInv, SlotInv
<1>. QED
  BY <1>1, <1>2 DEF Next, Step

(* The inductive invariant holds in every state of every behaviour.        *)
THEOREM Inductive == Spec => []IInv
  BY InitIInv, NextIInv, PTL DEF Spec

(* The limiter is held by exactly the requests past it, for any limit and  *)
(* any number of requests: panics, aborts, refusals and shed requests      *)
(* included.                                                               *)
THEOREM SlotsAlwaysBalanced == Spec => []SlotsBalanced
<1>1. IInv => SlotsBalanced
  <2> SUFFICES ASSUME IInv PROVE SlotsBalanced
    OBVIOUS
  <2>1. ASSUME NEW r \in Requests PROVE HoldsSlot(r) <=> Holds(r)
    <3>1. TypeInv /\ ReqInv(r) /\ at[r] \in Nat
      BY DEF IInv, TypeInv
    <3>2. CASE way[r] \in {"in", "handler"} \/ (way[r] = "out" /\ at[r] > 0)
      <4>1. Place(r)
        BY <3>1, <3>2, InPlace
      <4>2. /\ "limiter" \in Outside(r) <=> App(r) /\ MaxInFlight > 0 /\ at[r] > 6
            /\ Layer(r) = "limiter" <=> App(r) /\ MaxInFlight > 0 /\ at[r] = 6
        <5>1. CASE App(r)
          BY <4>1, <5>1 DEF Place
        <5>2. CASE ~App(r)
          BY <4>1, <5>2 DEF Place
        <5>. QED
          BY <5>1, <5>2
      <4>. QED
        BY <3>1, <3>2, <4>2 DEF HoldsSlot, Holds, Leaving
    <3>3. CASE ~(way[r] \in {"in", "handler"} \/ (way[r] = "out" /\ at[r] > 0))
      <4>1. way[r] \notin {"in", "handler"} /\ (way[r] = "out" => at[r] = 0)
        BY <3>1, <3>3
      <4>2. at[r] = 0 => Outside(r) = {}
        BY DEF Outside
      <4>. QED
        BY <3>1, <4>1, <4>2 DEF HoldsSlot, Holds, Leaving
    <3>. QED
      BY <3>2, <3>3
  <2>2. Holders = {r \in Requests : HoldsSlot(r)}
    BY <2>1 DEF Holders
  <2>. QED
    BY <2>2 DEF IInv, SlotInv, SlotsBalanced
<1>. QED
  BY <1>1, Inductive, PTL

(* No layer of the application chain writes a status line after another,   *)
(* unless the response began with a flush; a handler may itself.           *)
THEOREM AlwaysSingleStatusLine == Spec => []SingleStatusLine
<1>1. IInv => SingleStatusLine
  BY DEF IInv, ReqInv, RespInv, DressedIn, SingleStatusLine
<1>. QED
  BY <1>1, Inductive, PTL

(* The served entry and the wire agree on the status, whatever a handler   *)
(* writes through the recorder, and the entry tells whether the request    *)
(* was traced.                                                             *)
THEOREM EntryAlwaysTellsWire == Spec => []EntryTellsWire
<1>1. IInv => EntryTellsWire
  BY DEF IInv, ReqInv, LogInv, TraceInv, EntryTellsWire, Done
<1>. QED
  BY <1>1, Inductive, PTL

(* Whoever writes it, a response carries the security headers and, on the  *)
(* application listener, the identifier; it carries the time to retry      *)
(* exactly if the request was shed, whatever statuses handlers answer.     *)
THEOREM ResponsesAlwaysDressed == Spec => []ResponsesDressed
<1>1. IInv => ResponsesDressed
  BY DEF IInv, ReqInv, RespInv, DressedIn, ResponsesDressed
<1>. QED
  BY <1>1, Inductive, PTL

(* A panic of an application handler leaves its complete record.           *)
THEOREM PanicAlwaysAccounted == Spec => []PanicAccounted
<1>1. IInv => PanicAccounted
  <2> SUFFICES ASSUME IInv, NEW r \in Requests, Done(r), App(r), fault[r] # "none"
               PROVE  /\ panicLog[r] # None /\ panicLog[r].id
                      /\ span[r].state # "none" => span[r].err
                      /\ Logged(r)
                      /\ fault[r] = "clean" /\ ~Hinted(r) => resp[r].status = 500
    BY DEF PanicAccounted
  <2>1. way[r] = "done" /\ at[r] = 0
    BY DEF IInv, ReqInv, PosInv, Done
  <2>2. span[r].state # "none" => ShouldTrace(kind[r])
    BY <2>1 DEF IInv, ReqInv, TraceInv, Traced
  <2>. QED
    BY <2>1, <2>2 DEF IInv, ReqInv, PanicInv
<1>. QED
  BY <1>1, Inductive, PTL

(* No handler starts on a body declared over the limit, and reading past   *)
(* the limit costs the connection.                                         *)
THEOREM OversizedAlwaysDropped == Spec => []OversizedDropped
<1>1. IInv => OversizedDropped
  BY DEF IInv, ReqInv, PosInv, OversizedDropped, InHandler
<1>. QED
  BY <1>1, Inductive, PTL
=============================================================================
