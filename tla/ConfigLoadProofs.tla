-------------------------- MODULE ConfigLoadProofs --------------------------
(***************************************************************************)
(* Proofs about ConfigLoad and ByteSize: integers of any width, any table  *)
(* of units that fits them, any numbers and durations an operator may      *)
(* write and any number of variables set.                                  *)
(***************************************************************************)
EXTENDS ConfigLoad, WellFoundedInduction, TLAPS

-----------------------------------------------------------------------------
(* Arithmetic of a fixed width.                                            *)

(* The least and the greatest integer, for any width.                      *)
LEMMA IntRange ==
  /\ MinInt \in Int /\ MaxInt \in Nat /\ MinInt = -(MaxInt + 1) /\ 1 <= MaxInt
  /\ \A u \in DOMAIN ByteUnits : ByteUnits[u] \in Nat /\ ByteUnits[u] >= 1 /\ ByteUnits[u] <= MaxInt
<1>1. 2^(Width - 1) \in Int
  BY UnitsAssumption
<1>2. 1 \in 1..MaxInt
  BY UnitsAssumption
<1>3. MaxInt \in Int /\ MinInt \in Int /\ MinInt = -(MaxInt + 1)
  BY <1>1 DEF MaxInt, MinInt
<1>4. \A u \in DOMAIN ByteUnits : ByteUnits[u] \in 1..MaxInt
  BY UnitsAssumption
<1>. QED
  BY <1>2, <1>3, <1>4

(* Wrap returns a value of the type, a multiple of 2^Width away.           *)
LEMMA WrapIs ==
  ASSUME NEW x \in Int
  PROVE  /\ Wrap(x) \in MinInt..MaxInt
         /\ \E k \in Int : x - Wrap(x) = (MaxInt - MinInt + 1) * k
<1> DEFINE P == MaxInt - MinInt + 1
           y == x - MinInt
<1>1. P \in Nat \ {0} /\ y \in Int /\ MinInt \in Int /\ MaxInt = MinInt + (P - 1)
  BY IntRange
<1>2. Wrap(x) = (y % P) + MinInt
  BY DEF Wrap
<1>3. x - Wrap(x) = y - (y % P)
  <2>1. y % P \in Int
    BY <1>1
  <2>. QED
    BY <1>1, <1>2, <2>1
<1> HIDE DEF P, y
<1>4. y % P \in 0..(P - 1) /\ y = P * (y \div P) + (y % P) /\ y \div P \in Int
  BY <1>1
<1>5. y - (y % P) = P * (y \div P)
  <2> DEFINE z == P * (y \div P)
             r == y % P
  <2>1. z \in Int /\ r \in Int /\ y = z + r
    BY <1>1, <1>4
  <2> HIDE DEF z, r
  <2>2. y - r = z
    BY <2>1
  <2>. QED
    BY <2>2 DEF z, r
<1>6. Wrap(x) \in MinInt..MaxInt
  BY <1>1, <1>2, <1>4
<1>. QED
  BY <1>3, <1>4, <1>5, <1>6 DEF P

(* Two values of the type that far apart are one.                          *)
LEMMA WrapUnique ==
  ASSUME NEW P \in Nat \ {0}, NEW d \in Int, NEW k \in Int, d = P * k, -P < d, d < P
  PROVE  d = 0
<1>1. k >= 1 => P * k >= P
  OBVIOUS
<1>2. k <= -1 => P * k <= -P
  OBVIOUS
<1>3. k = 0
  BY <1>1, <1>2
<1>. QED
  BY <1>3

(* What fits is not changed by wrapping.                                   *)
LEMMA WrapKeeps ==
  ASSUME NEW x \in MinInt..MaxInt
  PROVE  Wrap(x) = x
<1>1. x \in Int
  BY IntRange
<1>2. Wrap(x) \in MinInt..MaxInt
  BY <1>1, WrapIs
<1>3. PICK k \in Int : x - Wrap(x) = (MaxInt - MinInt + 1) * k
  BY <1>1, WrapIs
<1> DEFINE d == x - Wrap(x)
           P == MaxInt - MinInt + 1
<1>4. P \in Nat \ {0} /\ d \in Int /\ -P < d /\ d < P
  BY <1>2, IntRange
<1>5. d = 0
  <2>1. d = P * k
    BY <1>3
  <2> HIDE DEF d, P
  <2>. QED
    BY <1>4, <2>1, WrapUnique
<1>. QED
  BY <1>1, <1>2, <1>5, IntRange

(* Quot loses less than its divisor.                                       *)
LEMMA QuotIs ==
  ASSUME NEW x \in Int, NEW m \in Nat \ {0}
  PROVE  /\ Quot(x, m) \in Int
         /\ -m < x - m * Quot(x, m) /\ x - m * Quot(x, m) < m
<1>1. ASSUME NEW y \in Nat
      PROVE  y \div m \in Int /\ m * (y \div m) <= y /\ y < m * (y \div m) + m
  OBVIOUS
<1>2. CASE x >= 0
  <2>1. Quot(x, m) = x \div m
    BY <1>2 DEF Quot
  <2>2. x \div m \in Int /\ m * (x \div m) <= x /\ x < m * (x \div m) + m
    BY <1>1, <1>2
  <2>. QED
    BY <2>1, <2>2
<1>3. CASE x < 0
  <2> DEFINE q == (-x) \div m
  <2>1. Quot(x, m) = -q
    BY <1>3 DEF Quot
  <2>2. q \in Int /\ m * q <= -x /\ -x < m * q + m
    <3>1. -x \in Nat
      BY <1>3
    <3>. QED
      BY <1>1, <3>1
  <2> HIDE DEF q
  <2>3. m * (-q) = -(m * q)
    BY <2>2
  <2>. QED
    BY <2>1, <2>2, <2>3
<1>. QED
  BY <1>2, <1>3

(* A count that UnmarshalText accepts is the one its text means: where the *)
(* product wrapped, dividing it again does not give the number back.       *)
LEMMA AcceptedIsMeant ==
  ASSUME NEW t, t.count \in Int, UnmarshalText(t) # Fail
  PROVE  UnmarshalText(t) = Meant(t) /\ UnmarshalText(t) \in MinInt..MaxInt
<1>1. CASE t.unit = "none"
  <2>1. UnmarshalText(t) = t.count /\ t.count \in MinInt..MaxInt
    BY <1>1 DEF UnmarshalText
  <2>2. Meant(t) = t.count
    BY <1>1 DEF Meant
  <2>. QED
    BY <2>1, <2>2
<1>2. CASE t.unit # "none"
  <2> DEFINE n == t.count
             m == ByteUnits[t.unit]
             s == Wrap(n * m)
             P == MaxInt - MinInt + 1
  <2>1. t.unit \in DOMAIN ByteUnits /\ Quot(s, m) = n /\ UnmarshalText(t) = s
    BY <1>2 DEF UnmarshalText
  <2>2. Meant(t) = n * m
    BY <1>2 DEF Meant
  <2>3. m \in Nat \ {0} /\ m < P /\ P \in Nat \ {0} /\ n \in Int
    BY <2>1, IntRange
  <2>4. n * m \in Int /\ n * m = m * n
    BY <2>3
  <2>5. s \in MinInt..MaxInt /\ \E k \in Int : n * m - s = P * k
    BY <2>4, WrapIs
  <2>6. s \in Int
    BY <2>5, IntRange
  <2> HIDE DEF s, m, n, P
  <2>7. PICK k \in Int : n * m - s = P * k
    BY <2>5
  <2>8. -m < s - m * n /\ s - m * n < m
    BY <2>1, <2>3, <2>6, QuotIs
  <2> DEFINE x == n * m
             d == x - s
  <2>9. x \in Int /\ -m < s - x /\ s - x < m
    BY <2>4, <2>8
  <2> HIDE DEF x
  <2>10. d \in Int /\ -P < d /\ d < P
    BY <2>3, <2>6, <2>9
  <2>11. d = P * k
    BY <2>7 DEF x
  <2>12. d = 0
    <3> HIDE DEF d
    <3>. QED
      BY <2>3, <2>10, <2>11, WrapUnique
  <2>13. s = x
    BY <2>6, <2>9, <2>12
  <2>. QED
    BY <2>1, <2>2, <2>5, <2>13 DEF x
<1>. QED
  BY <1>1, <1>2

(* A set of numbers that is not empty has a least element.                 *)
LEMMA LeastNumber ==
  ASSUME NEW T, T \subseteq Nat, T # {}
  PROVE  \E m \in T : \A n \in T : m <= n
<1>1. PICK m \in T : \A n \in T : ~(<<n, m>> \in OpToRel(<, Nat))
  BY NatLessThanWellFounded, WFMin, Zenon
<1>2. \A n \in T : ~(n < m)
  BY <1>1 DEF OpToRel
<1>. QED
  BY <1>2

(* What UnmarshalText makes of an exact count of a unit.                   *)
LEMMA ReadsUnit ==
  ASSUME NEW u \in DOMAIN ByteUnits, NEW n \in Nat,
         n * ByteUnits[u] \in 0..MaxInt
  PROVE  UnmarshalText([count |-> n, unit |-> u]) = n * ByteUnits[u]
<1> DEFINE m == ByteUnits[u]
           b == n * m
           t == [count |-> n, unit |-> u]
<1>1. m \in Nat \ {0} /\ b \in Nat /\ b <= MaxInt /\ n <= b
  BY IntRange
<1>2. b \in MinInt..MaxInt /\ n \in MinInt..MaxInt
  <2> HIDE DEF b
  <2>. QED
    BY <1>1, IntRange
<1>3. Wrap(b) = b
  <2> HIDE DEF b
  <2>. QED
    BY <1>2, WrapKeeps
<1>4. Quot(b, m) = n
  <2>1. Quot(b, m) = b \div m
    BY <1>1 DEF Quot
  <2>2. b \div m = n
    BY <1>1
  <2>. QED
    BY <2>1, <2>2
<1>5. t.count = n /\ t.unit = u /\ u # "none"
  BY UnitsAssumption
<1>6. UnmarshalText(t) = Wrap(b)
  <2>1. Wrap(n * ByteUnits[t.unit]) = b
    BY <1>3, <1>5
  <2> HIDE DEF t, b
  <2>. QED
    BY <1>2, <1>3, <1>4, <1>5, <2>1 DEF UnmarshalText
<1>. QED
  BY <1>3, <1>6

(* What String writes reads back.                                          *)
LEMMA StringReadsBack ==
  ASSUME NEW b \in 1..MaxInt
  PROVE  UnmarshalText(String(b)) = b
<1> DEFINE exact == {i \in 1..Len(RenderUnits) : b # 0 /\ b % ByteUnits[RenderUnits[i]] = 0}
           first == CHOOSE i \in exact : \A j \in exact : i <= j
           unit == RenderUnits[first]
<1>0. b \in Nat /\ b <= MaxInt
  BY IntRange
<1>1. CASE exact = {}
  <2>1. String(b) = [count |-> b, unit |-> "b"]
    BY <1>1 DEF String
  <2>2. "b" \in DOMAIN ByteUnits /\ b * ByteUnits["b"] = b /\ b \in 0..MaxInt
    BY <1>0, IntRange, UnitsAssumption
  <2>. QED
    BY <1>0, <2>1, <2>2, ReadsUnit
<1>2. CASE exact # {}
  <2>1. String(b) = [count |-> Quot(b, ByteUnits[unit]), unit |-> unit]
    BY <1>2 DEF String
  <2>2. first \in exact
    <3>1. exact \subseteq Nat
      OBVIOUS
    <3>2. \E i \in exact : \A j \in exact : i <= j
      <4> HIDE DEF exact
      <4>. QED
        BY <1>2, <3>1, LeastNumber
    <3> HIDE DEF exact
    <3>. QED
      BY <3>2
  <2>3. unit \in DOMAIN ByteUnits /\ b % ByteUnits[unit] = 0
    <3>1. first \in 1..Len(RenderUnits) /\ b % ByteUnits[RenderUnits[first]] = 0
      BY <2>2
    <3> HIDE DEF first
    <3>. QED
      BY <3>1, UnitsAssumption
  <2> HIDE DEF unit, exact
  <2> DEFINE m == ByteUnits[unit]
             n == Quot(b, m)
  <2>4. m \in Nat \ {0}
    BY <2>3, IntRange
  <2>5. n = b \div m /\ n \in Nat /\ n * m = b
    <3>1. n = b \div m
      BY <1>0 DEF Quot
    <3>2. b % m = 0
      BY <2>3
    <3> HIDE DEF m, n
    <3>3. b = m * (b \div m) + (b % m) /\ b \div m \in Nat
      BY <1>0, <2>4
    <3>. QED
      BY <1>0, <2>4, <3>1, <3>2, <3>3
  <2>6. n * m \in 0..MaxInt
    BY <1>0, <2>5, IntRange
  <2> HIDE DEF n
  <2>7. UnmarshalText([count |-> n, unit |-> unit]) = n * m
    BY <2>3, <2>5, <2>6, ReadsUnit
  <2>. QED
    BY <2>1, <2>5, <2>7 DEF n
<1>. QED
  BY <1>1, <1>2

-----------------------------------------------------------------------------
(* The settings and what their variables may hold.                         *)

Blank == [is |-> "blank"]

(* The settings of no listener differ from one another and from the rest.  *)
LEMMA ApartWords ==
  /\ CIDRs # LogFormat /\ OTLPEndpoint \notin {CIDRs, LogFormat}
  /\ OTLPTracesEndpoint \notin {CIDRs, LogFormat, OTLPEndpoint}
  /\ \A l, f : <<l, f>> \in Words => f \in {"TRUSTED_CIDRS", "FORMAT", "ENDPOINT", "TRACES_ENDPOINT"}
  BY DEF Words, CIDRs, LogFormat, OTLPEndpoint, OTLPTracesEndpoint

(* The settings of no listener, and those of one.                          *)
LEMMA ListedSettings ==
  /\ Words \subseteq Settings
  /\ \A l \in Listeners : Addr(l) \in Settings /\ Body(l) \in Settings
  /\ \A s \in Settings : \/ s \in Words
                         \/ \E l \in Listeners : s = Addr(l) \/ s = Body(l)
                         \/ \E l \in Listeners : \E f \in Timeouts : s = <<l, f>>
  BY DEF Settings, Addr, Body

(* The texts of the settings of no listener.                               *)
LEMMA WordTexts ==
  /\ Texts(CIDRs) = {Blank} \cup [is : {"list"}, v : {"good", "bad"}]
  /\ Texts(LogFormat) = {Blank} \cup [is : {"word"}, v : {"json", "console", "logfmt"}]
  /\ \A s \in {OTLPEndpoint, OTLPTracesEndpoint} :
       Texts(s) = {Blank} \cup [is : {"word"}, v : Collectors \cup {"host:port"}]
  BY ApartWords DEF Texts, Words, Blank

(* The texts of the settings of a listener.                                *)
LEMMA ListenerTexts ==
  ASSUME NEW l \in Listeners
  PROVE  /\ Texts(Addr(l)) = {Blank} \cup [is : {"addr"}, v : {"good", "noport", "ip:0", "host:0"}]
         /\ Texts(Body(l)) = {Blank} \cup [is : {"size"}, count : Counts,
                                           unit : DOMAIN ByteUnits \cup {"none", "unknown"}]
         /\ \A f \in Timeouts :
              Texts(<<l, f>>) = {Blank} \cup [is : {"duration"}, v : Durations] \cup {[is |-> "junk"]}
<1>1. Addr(l) \notin Words /\ Body(l) \notin Words /\ \A f \in Timeouts : <<l, f>> \notin Words
  BY ApartWords DEF Addr, Body, Timeouts
<1>2. /\ Addr(l)[2] = "ADDR" /\ Body(l)[2] = "MAX_REQUEST_BODY_BYTES"
      /\ \A f : <<l, f>>[2] = f
  BY DEF Addr, Body
<1>3. \A s : s \notin Words => s # CIDRs /\ s # LogFormat
  BY DEF Words
<1>4. Texts(Addr(l)) = {Blank} \cup [is : {"addr"}, v : {"good", "noport", "ip:0", "host:0"}]
  BY <1>1, <1>2, <1>3 DEF Texts, Blank
<1>5. Texts(Body(l)) = {Blank} \cup [is : {"size"}, count : Counts,
                                     unit : DOMAIN ByteUnits \cup {"none", "unknown"}]
  BY <1>1, <1>2, <1>3 DEF Texts, Blank, Timeouts
<1>6. ASSUME NEW f \in Timeouts
      PROVE  Texts(<<l, f>>) = {Blank} \cup [is : {"duration"}, v : Durations] \cup {[is |-> "junk"]}
  <2>1. f # "ADDR"
    BY DEF Timeouts
  <2>. QED
    BY <1>1, <1>2, <1>3, <2>1 DEF Texts, Blank
<1>. QED
  BY <1>4, <1>5, <1>6

(* Which setting a text is for, by its kind.                               *)
LEMMA TextKinds ==
  ASSUME NEW s \in Settings, NEW t \in Texts(s)
  PROVE  /\ t.is = "list" => s = CIDRs
         /\ t.is = "addr" => \E l \in Listeners : s = Addr(l)
         /\ t.is = "size" => t.count \in Int
<1> USE DEF Blank
<1>1. CASE s \in Words
  <2>1. s \in {LogFormat, OTLPEndpoint, OTLPTracesEndpoint} => t.is \in {"blank", "word"}
    BY WordTexts
  <2>2. s = CIDRs => t.is \in {"blank", "list"}
    BY WordTexts
  <2>. QED
    BY <1>1, <2>1, <2>2 DEF Words
<1>2. ASSUME NEW l \in Listeners, s = Addr(l) \/ s = Body(l)
      PROVE  (s = Addr(l) /\ t.is \in {"blank", "addr"})
               \/ (t.is \in {"blank", "size"} /\ (t.is = "size" => t.count \in Int))
  <2>1. CASE s = Addr(l)
    BY <2>1, ListenerTexts
  <2>2. CASE s = Body(l)
    <3>1. t = Blank \/ t \in [is : {"size"}, count : Counts,
                              unit : DOMAIN ByteUnits \cup {"none", "unknown"}]
      BY <2>2, ListenerTexts
    <3>. QED
      BY <3>1, BoundsAssumption
  <2>. QED
    BY <1>2, <2>1, <2>2
<1>3. ASSUME NEW l \in Listeners, NEW f \in Timeouts, s = <<l, f>>
      PROVE  t.is \in {"blank", "duration", "junk"}
  <2>1. t = Blank \/ t \in [is : {"duration"}, v : Durations] \/ t = [is |-> "junk"]
    BY <1>3, ListenerTexts
  <2>. QED
    BY <2>1
<1>. QED
  BY <1>1, <1>2, <1>3, ListedSettings

(* The defaults the proofs need.                                           *)
LEMMA Defaults ==
  /\ \A s \in {CIDRs, OTLPEndpoint, OTLPTracesEndpoint} : Default[s] = "none"
  /\ \A l \in Listeners : Default[Addr(l)] = "good" /\ Default[Body(l)] = 1
<1>1. ASSUME NEW s \in {CIDRs, OTLPEndpoint, OTLPTracesEndpoint} PROVE Default[s] = "none"
  <2>1. s \in Words \ {LogFormat} /\ s \in Settings
    BY ApartWords, ListedSettings DEF Words
  <2>2. s # LogFormat /\ s[2] \in {"TRUSTED_CIDRS", "ENDPOINT", "TRACES_ENDPOINT"}
    BY <2>1 DEF CIDRs, OTLPEndpoint, OTLPTracesEndpoint
  <2>. QED
    BY <2>1, <2>2 DEF Default
<1>2. ASSUME NEW l \in Listeners PROVE Default[Addr(l)] = "good" /\ Default[Body(l)] = 1
  <2>1. Addr(l) \notin Words /\ Body(l) \notin Words
    BY ApartWords DEF Addr, Body
  <2>2. Addr(l)[2] = "ADDR" /\ Body(l)[2] = "MAX_REQUEST_BODY_BYTES"
    BY DEF Addr, Body
  <2>3. Addr(l) # LogFormat /\ Body(l) # LogFormat /\ Addr(l) \in Settings /\ Body(l) \in Settings
    BY <2>1, ListedSettings DEF Words
  <2>4. Default[Addr(l)] = "good"
    BY <2>1, <2>2, <2>3 DEF Default
  <2>5. Default[Body(l)] = 1
    BY <2>1, <2>2, <2>3 DEF Default
  <2>. QED
    BY <2>4, <2>5
<1>. QED
  BY <1>1, <1>2

-----------------------------------------------------------------------------
(* The invariant.                                                          *)

EnvOK == \A s \in DOMAIN env : s \in Settings /\ env[s] \in Texts(s)

(* The configuration is what the environment says.                         *)
AsWritten(c) ==
  \A s \in Settings :
    c[s] = IF s \in DOMAIN env /\ env[s].is = "size" THEN Meant(env[s])
           ELSE IF s \in DOMAIN env /\ env[s].is # "blank" THEN env[s].v
           ELSE Default[s]

(* What the tags and the hooks, once passed, guarantee.                    *)
TagsPassed ==
  /\ cfg[LogFormat] \in {"json", "console"}
  /\ \A s \in {OTLPEndpoint, OTLPTracesEndpoint} : cfg[s] \in Collectors \cup {"none"}
  /\ \A l \in Listeners : cfg[Body(l)] \in 1..MaxInt

HooksPassed == cfg[CIDRs] # "bad" /\ \A l \in Listeners : cfg[Addr(l)] # "ip:0"

(* The settings AllReportedAtOnce calls wrong.                             *)
Wrong == {s \in Given : env[s] \in {[is |-> "list", v |-> "bad"], [is |-> "addr", v |-> "ip:0"]}}

IInv ==
  /\ EnvOK
  /\ stage \in {"export", "tags", "hooks", "loaded", "refused", "started"}
  /\ stage # "refused" => errs.by # "hooks"
  /\ errs.by = "hooks" => errs.names = Wrong
  /\ stage \in {"tags", "hooks", "loaded", "started"} =>
       AsWritten(cfg) /\ \A l \in Listeners : cfg[Body(l)] \in MinInt..MaxInt
  /\ stage \in {"hooks", "loaded", "started"} => TagsPassed
  /\ stage \in {"loaded", "started"} => HooksPassed
  /\ ExportsWhereTold

-----------------------------------------------------------------------------
(* ProcessWith assembles what is written.                                  *)
LEMMA ProcessIsWritten ==
  ASSUME EnvOK, Unparsed = {}
  PROVE  AsWritten(Process) /\ \A l \in Listeners : Process[Body(l)] \in MinInt..MaxInt
<1>1. ASSUME NEW s \in Settings, s \in DOMAIN env, env[s].is = "size"
      PROVE  Process[s] = Meant(env[s]) /\ Process[s] \in MinInt..MaxInt
  <2>1. s \in Given /\ Value(env[s]) = UnmarshalText(env[s])
    BY <1>1 DEF Given, Value
  <2>2. UnmarshalText(env[s]) # Fail
    BY <1>1, <2>1 DEF Unparsed
  <2>3. env[s].count \in Int
    BY <1>1, TextKinds DEF EnvOK
  <2>4. Process[s] = UnmarshalText(env[s])
    BY <2>1 DEF Process
  <2>. QED
    BY <2>2, <2>3, <2>4, AcceptedIsMeant
<1>2. ASSUME NEW s \in Settings, s \in DOMAIN env, env[s].is \notin {"size", "blank"}
      PROVE  Process[s] = env[s].v
  <2>1. s \in Given
    BY <1>2 DEF Given
  <2>2. env[s].is # "junk"
    BY <2>1 DEF Unparsed
  <2>3. Value(env[s]) = env[s].v
    BY <1>2, <2>2 DEF Value
  <2>. QED
    BY <2>1, <2>3 DEF Process
<1>3. ASSUME NEW s \in Settings, s \notin DOMAIN env \/ env[s].is = "blank"
      PROVE  Process[s] = Default[s]
  BY <1>3 DEF Process, Given
<1>4. AsWritten(Process)
  BY <1>1, <1>2, <1>3 DEF AsWritten
<1>5. ASSUME NEW l \in Listeners PROVE Process[Body(l)] \in MinInt..MaxInt
  <2>1. Body(l) \in Settings
    BY ListedSettings
  <2>2. CASE Body(l) \in DOMAIN env /\ env[Body(l)].is = "size"
    BY <1>1, <2>1, <2>2
  <2>3. CASE Body(l) \notin DOMAIN env \/ env[Body(l)].is = "blank"
    <3>1. Process[Body(l)] = 1
      BY <1>3, <2>1, <2>3, Defaults
    <3>. QED
      BY <3>1, IntRange
  <2>4. Body(l) \in DOMAIN env => env[Body(l)].is \in {"size", "blank"}
    BY ListenerTexts DEF EnvOK, Blank
  <2>. QED
    BY <2>2, <2>3, <2>4
<1>. QED
  BY <1>4, <1>5

(* The hooks name exactly the settings that are wrong.                     *)
LEMMA HooksNameWrong ==
  ASSUME EnvOK, AsWritten(cfg)
  PROVE  HookErrors = Wrong
<1>0. \A s : s \in Wrong <=> /\ s \in DOMAIN env
                             /\ \/ env[s] = [is |-> "list", v |-> "bad"]
                                \/ env[s] = [is |-> "addr", v |-> "ip:0"]
  BY DEF Wrong, Given
<1>1. ASSUME NEW s PROVE s \in HookErrors <=> \/ s = CIDRs /\ cfg[s] = "bad"
                                             \/ \E l \in Listeners : s = Addr(l) /\ cfg[s] = "ip:0"
  BY DEF HookErrors, ValidateFields, CheckListenPorts
<1>2. ASSUME NEW s, s \in Wrong PROVE s \in HookErrors
  <2>1. s \in Settings /\ env[s] \in Texts(s) /\ s \in DOMAIN env
    BY <1>0, <1>2 DEF EnvOK
  <2>2. CASE env[s] = [is |-> "list", v |-> "bad"]
    <3>1. env[s].is = "list" /\ env[s].v = "bad"
      BY <2>2
    <3>2. s = CIDRs /\ cfg[s] = "bad"
      BY <2>1, <3>1, TextKinds DEF AsWritten
    <3>. QED
      BY <1>1, <3>2
  <2>3. CASE env[s] = [is |-> "addr", v |-> "ip:0"]
    <3>1. env[s].is = "addr" /\ env[s].v = "ip:0"
      BY <2>3
    <3>2. (\E l \in Listeners : s = Addr(l)) /\ cfg[s] = "ip:0"
      BY <2>1, <3>1, TextKinds DEF AsWritten
    <3>. QED
      BY <1>1, <3>2
  <2>. QED
    BY <1>0, <1>2, <2>2, <2>3
<1>3. ASSUME NEW s, s \in HookErrors PROVE s \in Wrong
  <2>1. CASE s = CIDRs /\ cfg[s] = "bad"
    <3>1. CIDRs \in Settings /\ Default[CIDRs] = "none"
      BY ListedSettings, Defaults DEF Words
    <3>2. CIDRs \in DOMAIN env => env[CIDRs] = Blank \/ env[CIDRs] \in [is : {"list"}, v : {"good", "bad"}]
      BY WordTexts DEF EnvOK
    <3>3. CIDRs \in DOMAIN env /\ env[CIDRs] \in [is : {"list"}, v : {"good", "bad"}]
      BY <2>1, <3>1, <3>2 DEF AsWritten, Blank
    <3>4. cfg[CIDRs] = env[CIDRs].v
      BY <3>1, <3>3 DEF AsWritten
    <3>5. env[CIDRs] = [is |-> "list", v |-> "bad"]
      BY <2>1, <3>3, <3>4
    <3>. QED
      BY <1>0, <2>1, <3>3, <3>5
  <2>2. ASSUME NEW l \in Listeners, s = Addr(l), cfg[s] = "ip:0" PROVE s \in Wrong
    <3> DEFINE T == [is : {"addr"}, v : {"good", "noport", "ip:0", "host:0"}]
    <3>1. s \in Settings /\ Default[s] = "good"
      BY <2>2, ListedSettings, Defaults
    <3>2. s \in DOMAIN env => env[s] = Blank \/ env[s] \in T
      BY <2>2, ListenerTexts DEF EnvOK
    <3>3. s \in DOMAIN env /\ env[s] \in T
      BY <2>2, <3>1, <3>2 DEF AsWritten, Blank
    <3>4. cfg[s] = env[s].v
      BY <3>1, <3>3 DEF AsWritten
    <3>5. env[s] = [is |-> "addr", v |-> "ip:0"]
      BY <2>2, <3>3, <3>4
    <3>. QED
      BY <1>0, <3>3, <3>5
  <2>. QED
    BY <1>1, <1>3, <2>1, <2>2
<1>. QED
  BY <1>2, <1>3

(* What it means that no tag is broken.                                    *)
LEMMA TagsMean ==
  ASSUME BrokenTags = {}, \A l \in Listeners : cfg[Body(l)] \in MinInt..MaxInt
  PROVE  TagsPassed
<1>1. \A s \in Words : WordsOK(s)
  BY DEF BrokenTags
<1>2. cfg[LogFormat] \in {"json", "console"}
  BY <1>1, ApartWords DEF WordsOK, Words
<1>3. ASSUME NEW s \in {OTLPEndpoint, OTLPTracesEndpoint}
      PROVE  cfg[s] \in Collectors \cup {"none"}
  <2>1. s \in Words /\ s # LogFormat /\ s # CIDRs
    BY ApartWords DEF Words
  <2>. QED
    BY <1>1, <2>1 DEF WordsOK
<1>4. ASSUME NEW l \in Listeners PROVE cfg[Body(l)] \in 1..MaxInt
  <2> DEFINE f == "MAX_REQUEST_BODY_BYTES"
  <2>1. f \in DOMAIN TagsOK(l) /\ (TagsOK(l)[f] <=> cfg[Body(l)] > 0)
    BY DEF TagsOK
  <2>2. ~TagsOK(l)[f] => <<l, f>> \in BrokenTags
    BY <2>1 DEF BrokenTags
  <2>. QED
    BY <2>1, <2>2, IntRange
<1>. QED
  BY <1>2, <1>3, <1>4 DEF TagsPassed

-----------------------------------------------------------------------------
(* Before anything is exported.                                            *)
LEMMA InitHolds == Init => IInv
  BY DEF Init, IInv, EnvOK, NoErrs, ExportsWhereTold

(* The operator sets a variable.                                           *)
LEMMA ExportKeeps ==
  ASSUME IInv, NEW s \in Settings, NEW t \in Texts(s), Export(s, t)
  PROVE  IInv'
<1> USE DEF Export
<1>1. EnvOK'
  <2>1. \A v \in DOMAIN env' : (v = s /\ env'[v] = t) \/ (v \in DOMAIN env /\ env'[v] = env[v])
    OBVIOUS
  <2>. QED
    BY <2>1 DEF IInv, EnvOK
<1>2. stage' = stage /\ stage = "export" /\ errs' = errs /\ errs.by # "hooks"
  BY DEF IInv
<1>. QED
  BY <1>1, <1>2 DEF IInv, ExportsWhereTold

(* Wherever the environment stays as it is.                                *)
LEMMA EnvSame ==
  ASSUME IInv, env' = env
  PROVE  EnvOK' /\ Wrong' = Wrong
  BY DEF IInv, EnvOK, Wrong, Given

(* Parsing: a count that wrapped was refused.                              *)
LEMMA DecodeKeeps ==
  ASSUME IInv, Decode
  PROVE  IInv'
<1> USE DEF Decode
<1>0. env' = env /\ exports' = exports /\ stage = "export"
  OBVIOUS
<1>1. CASE \E s \in Unparsed : Refuse("decode", {s})
  <2>1. stage' = "refused" /\ errs'.by = "decode"
    BY <1>1 DEF Refuse
  <2>. QED
    BY <1>0, <2>1, EnvSame DEF IInv, ExportsWhereTold
<1>2. CASE Unparsed = {} /\ cfg' = Process /\ stage' = "tags" /\ errs' = errs
  <2>1. AsWritten(Process) /\ \A l \in Listeners : Process[Body(l)] \in MinInt..MaxInt
    BY <1>2, ProcessIsWritten DEF IInv
  <2> DEFINE c == Process
  <2>2. AsWritten(c) /\ cfg' = c /\ \A l \in Listeners : c[Body(l)] \in MinInt..MaxInt
    BY <1>2, <2>1
  <2> HIDE DEF c
  <2>3. AsWritten(cfg)' /\ \A l \in Listeners : cfg'[Body(l)] \in MinInt..MaxInt
    BY <1>0, <2>2 DEF AsWritten
  <2>4. errs'.by # "hooks"
    BY <1>0, <1>2 DEF IInv
  <2>. QED
    BY <1>0, <1>2, <2>3, <2>4, EnvSame DEF IInv, ExportsWhereTold
<1>. QED
  BY <1>1, <1>2

(* The struct tags.                                                        *)
LEMMA ValidateTagsKeeps ==
  ASSUME IInv, ValidateTags
  PROVE  IInv'
<1> USE DEF ValidateTags
<1>0. env' = env /\ exports' = exports /\ stage = "tags"
  OBVIOUS
<1>1. CASE BrokenTags # {}
  <2>1. stage' = "refused" /\ errs'.by = "tags"
    BY <1>1 DEF Refuse
  <2>. QED
    BY <1>0, <2>1, EnvSame DEF IInv, ExportsWhereTold
<1>2. CASE BrokenTags = {}
  <2>1. stage' = "hooks" /\ cfg' = cfg /\ errs' = errs
    BY <1>2
  <2>2. TagsPassed
    BY <1>0, <1>2, TagsMean DEF IInv
  <2>3. TagsPassed' /\ AsWritten(cfg)' /\ \A l \in Listeners : cfg'[Body(l)] \in MinInt..MaxInt
    BY <1>0, <2>1, <2>2 DEF IInv, TagsPassed, AsWritten
  <2>4. errs'.by # "hooks"
    BY <1>0, <2>1 DEF IInv
  <2>. QED
    BY <1>0, <2>1, <2>3, <2>4, EnvSame DEF IInv, ExportsWhereTold
<1>. QED
  BY <1>1, <1>2

(* The hooks, joined: what they name is what is wrong.                     *)
LEMMA ValidateHooksKeeps ==
  ASSUME IInv, ValidateHooks
  PROVE  IInv'
<1> USE DEF ValidateHooks
<1>0. env' = env /\ exports' = exports /\ stage = "hooks"
  OBVIOUS
<1>1. CASE HookErrors # {}
  <2>1. stage' = "refused" /\ errs'.by = "hooks" /\ errs'.names = HookErrors
    BY <1>1 DEF Refuse
  <2>2. HookErrors = Wrong
    BY <1>0, HooksNameWrong DEF IInv
  <2>. QED
    BY <1>0, <2>1, <2>2, EnvSame DEF IInv, ExportsWhereTold
<1>2. CASE HookErrors = {}
  <2>1. stage' = "loaded" /\ cfg' = cfg /\ errs' = errs
    BY <1>2
  <2>2. HooksPassed
    BY <1>2 DEF HookErrors, ValidateFields, CheckListenPorts, HooksPassed
  <2>3. /\ TagsPassed' /\ HooksPassed' /\ AsWritten(cfg)'
        /\ \A l \in Listeners : cfg'[Body(l)] \in MinInt..MaxInt
    BY <1>0, <2>1, <2>2 DEF IInv, TagsPassed, HooksPassed, AsWritten
  <2>4. errs'.by # "hooks"
    BY <1>0, <2>1 DEF IInv
  <2>. QED
    BY <1>0, <2>1, <2>3, <2>4, EnvSame DEF IInv, ExportsWhereTold
<1>. QED
  BY <1>1, <1>2

(* The value of an endpoint, by its text.                                  *)
LEMMA EndpointValue ==
  ASSUME EnvOK, AsWritten(cfg), NEW s \in {OTLPEndpoint, OTLPTracesEndpoint}
  PROVE  IF s \in Given THEN cfg[s] = env[s].v /\ cfg[s] # "none" ELSE cfg[s] = "none"
<1>1. s \in Settings /\ Default[s] = "none"
  BY ListedSettings, Defaults DEF Words
<1>2. s \in DOMAIN env => env[s] = Blank \/ env[s] \in [is : {"word"}, v : Collectors \cup {"host:port"}]
  BY WordTexts DEF EnvOK
<1>3. s \in Given <=> s \in DOMAIN env /\ env[s].is # "blank"
  BY DEF Given
<1>4. CASE s \in Given
  <2>1. env[s] \in [is : {"word"}, v : Collectors \cup {"host:port"}]
    BY <1>2, <1>3, <1>4 DEF Blank
  <2>2. env[s].is = "word" /\ env[s].v # "none"
    BY <2>1 DEF Collectors
  <2>. QED
    BY <1>1, <1>3, <1>4, <2>2 DEF AsWritten
<1>5. CASE s \notin Given
  <2>1. s \notin DOMAIN env \/ env[s].is = "blank"
    BY <1>3, <1>5
  <2>. QED
    BY <1>1, <1>5, <2>1 DEF AsWritten
<1>. QED
  BY <1>4, <1>5

(* The constructors, on a configuration that was accepted.                 *)
LEMMA StartKeeps ==
  ASSUME IInv, Start
  PROVE  IInv'
<1> USE DEF Start
<1>0. env' = env /\ cfg' = cfg /\ errs' = errs /\ stage = "loaded"
  OBVIOUS
<1>1. EnvOK /\ AsWritten(cfg) /\ TagsPassed /\ HooksPassed /\ errs.by # "hooks"
  BY <1>0 DEF IInv
<1>2. ConfigFor /\ NewTrustedProxies
  BY <1>1 DEF ConfigFor, NewTrustedProxies, TagsPassed, HooksPassed
<1>3. /\ stage' = "started"
      /\ exports' = IF TracesEndpoint = "none" THEN "none" ELSE WithEndpointURL(TracesEndpoint)
  BY <1>2
<1>4. TracesEndpoint \in Collectors \cup {"none"}
  BY <1>1 DEF TracesEndpoint, TagsPassed
<1>5. exports' = TracesEndpoint
  BY <1>3, <1>4 DEF WithEndpointURL
<1>6. /\ IF OTLPTracesEndpoint \in Given
           THEN cfg[OTLPTracesEndpoint] = env[OTLPTracesEndpoint].v /\ cfg[OTLPTracesEndpoint] # "none"
           ELSE cfg[OTLPTracesEndpoint] = "none"
      /\ IF OTLPEndpoint \in Given
           THEN cfg[OTLPEndpoint] = env[OTLPEndpoint].v /\ cfg[OTLPEndpoint] # "none"
           ELSE cfg[OTLPEndpoint] = "none"
  BY <1>1, EndpointValue
<1>7. exports' = IF OTLPTracesEndpoint \in Given THEN env[OTLPTracesEndpoint].v
                 ELSE IF OTLPEndpoint \in Given THEN env[OTLPEndpoint].v
                 ELSE "none"
  BY <1>5, <1>6 DEF TracesEndpoint
<1>8. \A s : s \in Given' <=> s \in Given
  BY <1>0 DEF Given
<1>9. ExportsWhereTold'
  BY <1>0, <1>3, <1>7, <1>8 DEF ExportsWhereTold
<1>10. /\ TagsPassed' /\ HooksPassed' /\ AsWritten(cfg)'
       /\ \A l \in Listeners : cfg'[Body(l)] \in MinInt..MaxInt
  BY <1>0, <1>1 DEF IInv, TagsPassed, HooksPassed, AsWritten
<1>. QED
  BY <1>0, <1>1, <1>3, <1>9, <1>10, EnvSame DEF IInv

(* The rest.                                                               *)
LEMMA StutterKeeps ==
  ASSUME IInv, UNCHANGED vars
  PROVE  IInv'
<1>1. \A s : s \in Given' <=> s \in Given
  BY DEF vars, Given
<1>2. ExportsWhereTold'
  BY <1>1 DEF vars, IInv, ExportsWhereTold
<1>3. /\ TagsPassed' <=> TagsPassed
      /\ HooksPassed' <=> HooksPassed
      /\ AsWritten(cfg)' <=> AsWritten(cfg)
  BY DEF vars, TagsPassed, HooksPassed, AsWritten
<1>4. EnvOK' /\ Wrong' = Wrong
  BY EnvSame DEF vars
<1>. QED
  BY <1>2, <1>3, <1>4 DEF IInv, vars

(* One case per action.                                                    *)
THEOREM Inductive == Spec => []IInv
<1>1. ASSUME IInv, [Next]_vars PROVE IInv'
  BY <1>1, ExportKeeps, DecodeKeeps, ValidateTagsKeeps, ValidateHooksKeeps, StartKeeps,
     StutterKeeps DEF Next, Over
<1>. QED
  BY <1>1, InitHolds, PTL DEF Spec

(* For any width, units and numbers, what Load accepts is what the         *)
(* operator wrote: UnmarshalText never lets a product through that wrapped. *)
THEOREM AlwaysRunsAsWritten == Spec => []RunsAsWritten
<1>1. IInv => RunsAsWritten
  BY DEF IInv, RunsAsWritten, AsWritten
<1>. QED
  BY <1>1, Inductive, PTL

(* Whatever is set, one start-up reports all that the hooks can find wrong, *)
(* and nothing Load accepted fails in a constructor.                       *)
THEOREM AlwaysAllReportedAtOnce == Spec => []AllReportedAtOnce
<1>1. IInv => AllReportedAtOnce
  <2> SUFFICES ASSUME IInv
               PROVE  /\ errs.by = "hooks" => errs.names = Wrong
                      /\ stage = "started" => Wrong = {}
                      /\ stage # "crashed"
    BY DEF AllReportedAtOnce, Wrong
  <2>1. ASSUME stage = "started" PROVE Wrong = {}
    <3>1. HookErrors = Wrong
      BY <2>1, HooksNameWrong DEF IInv
    <3>2. HookErrors = {}
      BY <2>1 DEF IInv, HooksPassed, HookErrors, ValidateFields, CheckListenPorts
    <3>. QED
      BY <3>1, <3>2
  <2>. QED
    BY <2>1 DEF IInv
<1>. QED
  BY <1>1, Inductive, PTL

(* For any units, a byte count String renders reads back as itself.        *)
THEOREM AlwaysLoggedReadsBack == Spec => []LoggedReadsBack
<1>1. IInv => LoggedReadsBack
  BY StringReadsBack DEF IInv, LoggedReadsBack, TagsPassed
<1>. QED
  BY <1>1, Inductive, PTL

(* Whatever is set, TracesEndpoint sends the spans where they were told to *)
(* go, and the exporter never falls back to its own default.               *)
THEOREM AlwaysExportsWhereTold == Spec => []ExportsWhereTold
<1>1. IInv => ExportsWhereTold
  BY DEF IInv
<1>. QED
  BY <1>1, Inductive, PTL
=============================================================================
