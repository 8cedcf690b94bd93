-------------------------- MODULE ProxyTrustProofs --------------------------
(***************************************************************************)
(* Proofs about ProxyTrust: any addresses, any trusted networks, any       *)
(* number of hops and invented headers of any length.                      *)
(*                                                                         *)
(* The header is flattened by a recursive function.  What that computes is *)
(* obtained from its definition by least counterexamples, in the form the  *)
(* hops need: a line added, or an entry added to the last line, adds its   *)
(* entries at the end.                                                     *)
(***************************************************************************)
EXTENDS ProxyTrust, SequenceTheorems, WellFoundedInduction, TLAPS

-----------------------------------------------------------------------------
(* Flattening.                                                             *)

(* A set of numbers that is not empty has a least element.                 *)
LEMMA LeastNumber ==
  ASSUME NEW T, T \subseteq Nat, T # {}
  PROVE  \E m \in T : \A n \in T : m <= n
<1>1. PICK m \in T : \A n \in T : ~(<<n, m>> \in OpToRel(<, Nat))
  BY NatLessThanWellFounded, WFMin, Zenon
<1>2. \A n \in T : ~(n < m)
  BY <1>1 DEF OpToRel
<1>. QED
  BY <1>2

(* And, up to a bound, a greatest one.                                     *)
LEMMA LastExists ==
  ASSUME NEW n \in Nat, NEW T, T \subseteq 0..n, T # {}
  PROVE  \E m \in T : \A k \in T : k <= m
<1> DEFINE U == {n - k : k \in T}
<1>0. \A k \in T : k \in Nat /\ n - k \in Nat
  OBVIOUS
<1>1. U \subseteq Nat /\ U # {}
  BY <1>0
<1>2. PICK m \in U : \A k \in U : m <= k
  <2> HIDE DEF U
  <2>. QED
    BY <1>1, LeastNumber
<1>3. PICK j \in T : m = n - j
  BY <1>2
<1>4. \A k \in T : n - j <= n - k
  BY <1>2, <1>3
<1>. QED
  BY <1>0, <1>3, <1>4

(* f is the function FlattenSeq defines, up to line n.                     *)
Flattens(f, lines, n) ==
  \A i \in 1..n : f[i] = IF i = 1 THEN lines[1] ELSE f[i - 1] \o lines[i]

(* There is one for every sequence of lines.                               *)
LEMMA FlattensExists ==
  ASSUME NEW S, NEW lines \in Seq(Seq(S)), NEW n \in 0..Len(lines)
  PROVE  \E f \in [1..n -> Seq(S)] : Flattens(f, lines, n)
<1> DEFINE T == {k \in 0..Len(lines) : ~\E f \in [1..k -> Seq(S)] : Flattens(f, lines, k)}
<1> SUFFICES ASSUME T # {} PROVE FALSE
  OBVIOUS
<1>0. T \subseteq Nat
  OBVIOUS
<1>1. PICK m \in T : \A k \in T : m <= k
  <2> HIDE DEF T
  <2>. QED
    BY <1>0, LeastNumber
<1>2. CASE m = 0
  <2> DEFINE g == [i \in 1..0 |-> <<>>]
  <2>1. g \in [1..0 -> Seq(S)] /\ Flattens(g, lines, 0)
    BY DEF Flattens
  <2>2. 0 \notin T
    <3> HIDE DEF g
    <3>. QED
      BY <2>1
  <2>. QED
    BY <1>1, <1>2, <2>2
<1>3. CASE m # 0
  <2>1. m \in 1..Len(lines) /\ m - 1 \in 0..Len(lines) /\ m - 1 \notin T
    <3>1. m \in 0..Len(lines)
      BY <1>1
    <3> HIDE DEF T
    <3>. QED
      BY <1>1, <1>3, <3>1
  <2>2. PICK f \in [1..(m - 1) -> Seq(S)] : Flattens(f, lines, m - 1)
    BY <2>1
  <2> DEFINE last == IF m = 1 THEN lines[1] ELSE f[m - 1] \o lines[m]
             g == [i \in 1..m |-> IF i = m THEN last ELSE f[i]]
  <2>3. last \in Seq(S)
    <3>1. lines[m] \in Seq(S)
      BY <2>1, ElementOfSeq
    <3>2. CASE m = 1
      BY <3>1, <3>2
    <3>3. CASE m # 1
      <4>1. f[m - 1] \in Seq(S)
        BY <2>1, <2>2, <3>3
      <4>2. f[m - 1] \o lines[m] \in Seq(S)
        BY <3>1, <4>1, ConcatProperties, Zenon
      <4>. QED
        BY <3>3, <4>2
    <3>. QED
      BY <3>2, <3>3
  <2>4. g \in [1..m -> Seq(S)]
    <3> HIDE DEF last
    <3>. QED
      BY <2>1, <2>2, <2>3
  <2>5. Flattens(g, lines, m)
    <3> SUFFICES ASSUME NEW i \in 1..m
                 PROVE  g[i] = IF i = 1 THEN lines[1] ELSE g[i - 1] \o lines[i]
      BY DEF Flattens
    <3>1. CASE i = m
      <4>1. g[i] = last /\ (i # 1 => g[i - 1] = f[i - 1])
        BY <2>1, <3>1
      <4>. QED
        BY <3>1, <4>1
    <3>2. CASE i # m
      <4>1. i \in 1..(m - 1) /\ g[i] = f[i] /\ (i # 1 => g[i - 1] = f[i - 1])
        BY <2>1, <3>2
      <4>2. f[i] = IF i = 1 THEN lines[1] ELSE f[i - 1] \o lines[i]
        BY <2>2, <4>1 DEF Flattens
      <4>. QED
        BY <4>1, <4>2
    <3>. QED
      BY <3>1, <3>2
  <2>. QED
    BY <1>1, <2>4, <2>5
<1>. QED
  BY <1>2, <1>3

(* And only one.                                                           *)
LEMMA FlattensUnique ==
  ASSUME NEW lines, NEW n \in Nat, NEW f, NEW g,
         Flattens(f, lines, n), Flattens(g, lines, n)
  PROVE  \A i \in 1..n : f[i] = g[i]
<1> DEFINE T == {i \in 1..n : f[i] # g[i]}
<1> SUFFICES ASSUME T # {} PROVE FALSE
  OBVIOUS
<1>0. T \subseteq Nat
  OBVIOUS
<1>1. PICK m \in T : \A k \in T : m <= k
  <2> HIDE DEF T
  <2>. QED
    BY <1>0, LeastNumber
<1>2. m # 1 => f[m - 1] = g[m - 1]
  BY <1>1
<1>3. /\ f[m] = IF m = 1 THEN lines[1] ELSE f[m - 1] \o lines[m]
      /\ g[m] = IF m = 1 THEN lines[1] ELSE g[m - 1] \o lines[m]
  BY <1>1 DEF Flattens
<1>. QED
  BY <1>1, <1>2, <1>3

(* FlattenSeq is the last value of that function.                          *)
LEMMA FlattenSeqValue ==
  ASSUME NEW S, NEW lines \in Seq(Seq(S)), lines # <<>>, NEW f,
         Flattens(f, lines, Len(lines))
  PROVE  FlattenSeq(lines) = f[Len(lines)]
<1> DEFINE n == Len(lines)
           Def(h) == h = [i \in 1..n |-> IF i = 1 THEN lines[i] ELSE h[i - 1] \o lines[i]]
           fs == CHOOSE h : Def(h)
<1>1. n \in Nat \ {0}
  OBVIOUS
<1>2. FlattenSeq(lines) = fs[n]
  BY <1>1 DEF FlattenSeq
<1>3. PICK g \in [1..n -> Seq(S)] : Flattens(g, lines, n)
  BY FlattensExists, n \in 0..n
<1>4. Def(g)
  BY <1>3 DEF Flattens
<1>5. Def(fs)
  BY <1>4, Zenon
<1>6. Flattens(fs, lines, n)
  <2>1. fs = [i \in 1..n |-> IF i = 1 THEN lines[i] ELSE fs[i - 1] \o lines[i]]
    BY <1>5
  <2> HIDE DEF fs
  <2>. QED
    BY <2>1 DEF Flattens
<1>7. fs[n] = f[n]
  <2> HIDE DEF fs
  <2>. QED
    BY <1>1, <1>6, FlattensUnique
<1>. QED
  BY <1>2, <1>7

(* What FlattenSeq returns for no lines, and for a line more.              *)
LEMMA FlattenLine ==
  ASSUME NEW S, NEW lines \in Seq(Seq(S)), NEW x \in Seq(S)
  PROVE  /\ FlattenSeq(lines) \in Seq(S)
         /\ FlattenSeq(Append(lines, x)) = FlattenSeq(lines) \o x
<1> DEFINE n == Len(lines)
           more == Append(lines, x)
<1>1. /\ more \in Seq(Seq(S)) /\ more # <<>> /\ Len(more) = n + 1 /\ n \in Nat
      /\ more[n + 1] = x /\ \A i \in 1..n : more[i] = lines[i]
  BY AppendProperties
<1> HIDE DEF more
<1>2. PICK g \in [1..(n + 1) -> Seq(S)] : Flattens(g, more, n + 1)
  <2>1. n + 1 \in 0..Len(more)
    BY <1>1
  <2>. QED
    BY <1>1, <2>1, FlattensExists
<1>3. FlattenSeq(more) = g[n + 1]
  BY <1>1, <1>2, FlattenSeqValue
<1>4. CASE n = 0
  <2>1. lines = <<>>
    BY <1>4
  <2>2. FlattenSeq(lines) = <<>>
    BY <1>4, <2>1 DEF FlattenSeq
  <2>3. g[n + 1] = x
    BY <1>1, <1>2, <1>4 DEF Flattens
  <2>. QED
    BY <1>3, <2>2, <2>3, EmptySeq, ConcatEmptySeq DEF more
<1>5. CASE n # 0
  <2>0. \A i \in 1..(n + 1) : g[i] = IF i = 1 THEN more[1] ELSE g[i - 1] \o more[i]
    BY <1>2 DEF Flattens
  <2>1. Flattens(g, lines, n)
    <3>1. 1 \in 1..n /\ \A i \in 1..n : i \in 1..(n + 1)
      BY <1>1, <1>5
    <3> HIDE DEF n
    <3>2. \A i \in 1..n : g[i] = IF i = 1 THEN lines[1] ELSE g[i - 1] \o lines[i]
      BY <1>1, <2>0, <3>1
    <3>. QED
      BY <3>2 DEF Flattens
  <2>2. FlattenSeq(lines) = g[n]
    <3>1. lines # <<>>
      BY <1>5
    <3>. QED
      BY <2>1, <3>1, FlattenSeqValue
  <2>3. g[n + 1] = g[n] \o x
    <3>1. n + 1 \in 1..(n + 1) /\ n + 1 # 1 /\ (n + 1) - 1 = n
      BY <1>1, <1>5
    <3> HIDE DEF n
    <3>. QED
      BY <1>1, <2>0, <3>1
  <2>4. g[n] \in Seq(S)
    <3>1. n \in 1..(n + 1)
      BY <1>1, <1>5
    <3> HIDE DEF n
    <3>. QED
      BY <1>2, <3>1
  <2>. QED
    BY <1>3, <2>2, <2>3, <2>4 DEF more
<1>. QED
  BY <1>4, <1>5

(* And for an entry more on the last line.                                 *)
LEMMA FlattenEntry ==
  ASSUME NEW S, NEW lines \in Seq(Seq(S)), lines # <<>>, NEW e \in S
  PROVE  /\ [lines EXCEPT ![Len(lines)] = Append(@, e)] \in Seq(Seq(S))
         /\ FlattenSeq([lines EXCEPT ![Len(lines)] = Append(@, e)])
              = FlattenSeq(lines) \o <<e>>
<1> DEFINE n == Len(lines)
           longer == [lines EXCEPT ![n] = Append(lines[n], e)]
<1>1. n \in Nat \ {0} /\ n \in 0..n /\ lines[n] \in Seq(S)
  BY ElementOfSeq
<1>2. Append(lines[n], e) \in Seq(S) /\ Append(lines[n], e) = lines[n] \o <<e>>
  BY <1>1, AppendProperties, AppendIsConcat
<1>3. /\ longer \in Seq(Seq(S)) /\ Len(longer) = n /\ longer # <<>>
      /\ longer[n] = Append(lines[n], e) /\ \A i \in 1..n : i # n => longer[i] = lines[i]
  BY <1>1, <1>2, ExceptSeq
<1>4. PICK f \in [1..n -> Seq(S)] : Flattens(f, lines, n)
  BY <1>1, FlattensExists
<1>5. FlattenSeq(lines) = f[n]
  BY <1>4, FlattenSeqValue
<1> DEFINE g == [f EXCEPT ![n] = f[n] \o <<e>>]
<1>6. g[n] = f[n] \o <<e>> /\ \A i \in 1..n : i # n => g[i] = f[i]
  BY <1>1, <1>4
<1> HIDE DEF g, longer
<1>7. Flattens(g, longer, n)
  <2> SUFFICES ASSUME NEW i \in 1..n
               PROVE  g[i] = IF i = 1 THEN longer[1] ELSE g[i - 1] \o longer[i]
    BY DEF Flattens
  <2>1. f[i] = IF i = 1 THEN lines[1] ELSE f[i - 1] \o lines[i]
    BY <1>4 DEF Flattens
  <2>2. CASE i # n
    <3>1. i # 1 => i - 1 \in 1..n /\ i - 1 # n
      BY <1>1
    <3>. QED
      BY <1>3, <1>6, <2>1, <2>2, <3>1
  <2>3. CASE i = n /\ n = 1
    BY <1>2, <1>3, <1>6, <2>1, <2>3
  <2>4. CASE i = n /\ n # 1
    <3>0. n - 1 \in 1..n /\ n - 1 # n
      BY <1>1, <2>4
    <3> HIDE DEF n
    <3>1. f[n - 1] \in Seq(S) /\ n - 1 \in 1..n /\ n - 1 # n
      BY <1>4, <3>0
    <3>2. ASSUME NEW a \in Seq(S), NEW b \in Seq(S)
          PROVE  (a \o b) \o <<e>> = a \o (b \o <<e>>)
      OBVIOUS
    <3>3. (f[n - 1] \o lines[n]) \o <<e>> = f[n - 1] \o (lines[n] \o <<e>>)
      BY <1>1, <3>1, <3>2
    <3>4. g[n] = f[n] \o <<e>> /\ g[n - 1] = f[n - 1] /\ f[n] = f[n - 1] \o lines[n]
      BY <1>6, <2>1, <2>4, <3>1
    <3>. QED
      BY <1>2, <1>3, <2>4, <3>3, <3>4, Zenon
  <2>. QED
    BY <2>2, <2>3, <2>4
<1>8. FlattenSeq(longer) = g[n]
  BY <1>3, <1>7, FlattenSeqValue
<1>9. longer = [lines EXCEPT ![Len(lines)] = Append(@, e)]
  BY DEF longer
<1>. QED
  BY <1>3, <1>5, <1>6, <1>8, <1>9

-----------------------------------------------------------------------------
(* The invariant.                                                          *)

Typed ==
  /\ sender \in Addrs
  /\ outsider \in Addrs \cup {Blank}
  /\ header \in Seq(Seq(Written))
  /\ reqid \in {Bad, "proxy", "outsider"}
  /\ client = Blank => id = Blank

(* The entry a trusted proxy wrote for the last untrusted sender o, and an *)
(* entry written since; b says whether one of them is not an address.      *)
Marks(e, o, b) == IF e = Bad THEN b ELSE e.ip = o
Passes(e, b) == IF e = Bad THEN b ELSE Trusts(e.ip)

(* The entries end with that entry and those of the trusted proxies after  *)
(* it: nothing an untrusted sender invented stands to the right of it.     *)
Trail(all, o, b) ==
  \E i \in 1..Len(all) :
    /\ Marks(all[i], o, b)
    /\ \A j \in 1..Len(all) : i < j => Passes(all[j], b)

Travelled ==
  /\ outsider # Blank => ~Trusts(outsider)
  /\ ~Trusts(sender) => outsider = sender
  /\ outsider # Blank /\ Trusts(sender) => Trail(FlattenSeq(header), outsider, blurred)

(* Who named the request is on the side of the networks its sender is on.  *)
Named ==
  /\ reqid = "proxy" => Trusts(sender)
  /\ reqid = "outsider" => ~Trusts(sender)

IInv ==
  /\ Typed
  /\ Started => Travelled /\ Named
  /\ AttributionUnforgeable
  /\ IdentityUnforgeable

-----------------------------------------------------------------------------
(* One more entry keeps the trail, and one for o starts it.                *)
LEMMA TrailGrows ==
  ASSUME NEW all \in Seq(Written), NEW e \in Written, NEW o, NEW b, NEW c,
         Trail(all, o, b), b => c, Passes(e, c)
  PROVE  Trail(all \o <<e>>, o, c)
<1> DEFINE n == Len(all)
           more == all \o <<e>>
<1>1. /\ n \in Nat /\ Len(more) = n + 1 /\ more[n + 1] = e
      /\ \A i \in 1..n : more[i] = all[i]
  OBVIOUS
<1>2. PICK i \in 1..n : Marks(all[i], o, b) /\ \A j \in 1..n : i < j => Passes(all[j], b)
  BY DEF Trail
<1>3. \A j \in 1..(n + 1) : j = n + 1 \/ j \in 1..n
  BY <1>1
<1>4. i \in 1..(n + 1)
  BY <1>1
<1> HIDE DEF n, more
<1>5. Marks(more[i], o, c)
  BY <1>1, <1>2 DEF Marks
<1>6. ASSUME NEW j \in 1..(n + 1), i < j PROVE Passes(more[j], c)
  <2>1. CASE j = n + 1
    BY <1>1, <2>1
  <2>2. CASE j \in 1..n
    <3>1. Passes(all[j], b)
      BY <1>2, <1>6, <2>2
    <3>. QED
      BY <1>1, <2>2, <3>1 DEF Passes
  <2>. QED
    BY <1>3, <2>1, <2>2
<1>. QED
  BY <1>1, <1>4, <1>5, <1>6 DEF Trail, more

(* An entry for the untrusted sender starts a trail at the end.            *)
LEMMA TrailStarts ==
  ASSUME NEW all \in Seq(Written), NEW e \in Written, NEW o, NEW b, Marks(e, o, b)
  PROVE  Trail(all \o <<e>>, o, b)
<1> DEFINE n == Len(all)
           more == all \o <<e>>
<1>1. n + 1 \in 1..(n + 1) /\ Len(more) = n + 1 /\ more[n + 1] = e
  OBVIOUS
<1>2. \A j \in 1..(n + 1) : ~(n + 1 < j)
  BY <1>1
<1> HIDE DEF n, more
<1>. QED
  BY <1>1, <1>2 DEF Trail, more

(* What a trusted proxy writes adds one entry.                             *)
LEMMA ProxyWrites ==
  ASSUME NEW lines \in Seq(Seq(Written)), NEW e \in Written,
         NEW h \in {Append1(lines, e), Append(lines, <<e>>)}
  PROVE  /\ h \in Seq(Seq(Written))
         /\ FlattenSeq(lines) \in Seq(Written)
         /\ FlattenSeq(h) = FlattenSeq(lines) \o <<e>>
<1>0. <<e>> \in Seq(Written)
  OBVIOUS
<1>1. /\ FlattenSeq(lines) \in Seq(Written)
      /\ FlattenSeq(Append(lines, <<e>>)) = FlattenSeq(lines) \o <<e>>
      /\ Append(lines, <<e>>) \in Seq(Seq(Written))
  BY <1>0, FlattenLine, AppendProperties
<1>2. CASE h = Append(lines, <<e>>)
  BY <1>1, <1>2
<1>3. CASE h = Append1(lines, e) /\ lines = <<>>
  <2>1. h = Append(lines, <<e>>)
    BY <1>3 DEF Append1
  <2>. QED
    BY <1>1, <2>1
<1>4. CASE h = Append1(lines, e) /\ lines # <<>>
  <2>1. h = [lines EXCEPT ![Len(lines)] = Append(@, e)]
    BY <1>4 DEF Append1
  <2>2. /\ [lines EXCEPT ![Len(lines)] = Append(@, e)] \in Seq(Seq(Written))
        /\ FlattenSeq([lines EXCEPT ![Len(lines)] = Append(@, e)]) = FlattenSeq(lines) \o <<e>>
    BY <1>4, FlattenEntry, Zenon
  <2>. QED
    BY <1>1, <2>1, <2>2, Zenon
<1>. QED
  BY <1>2, <1>3, <1>4

(* An invented header is a header.                                         *)
LEMMA InventedTyped == Invented \subseteq Seq(Seq(Written))
<1> SUFFICES ASSUME NEW h \in Invented PROVE h \in Seq(Seq(Written))
  OBVIOUS
<1>1. CASE h = <<>>
  BY <1>1
<1>2. CASE h # <<>>
  <2>1. PICK line \in UNION {[1..n -> Written] : n \in 1..MaxForged} : h = <<line>>
    BY <1>2 DEF Invented
  <2>2. PICK n \in 1..MaxForged : line \in [1..n -> Written]
    BY <2>1
  <2>3. line \in Seq(Written)
    BY <2>2, BoundsAssumption
  <2>. QED
    BY <2>1, <2>3
<1>. QED
  BY <1>1, <1>2

-----------------------------------------------------------------------------
(* Before the first hop.                                                   *)
LEMMA InitHolds == Init => IInv
<1> SUFFICES ASSUME Init PROVE IInv
  OBVIOUS
<1> USE DEF Init
<1>1. header \in Seq(Seq(Written))
  BY InventedTyped
<1>2. Blank \notin Addrs /\ Bad # "proxy" /\ Bad # "outsider" /\ "proxy" # "outsider"
  BY MarksAssumption
<1>3. Typed
  BY <1>1 DEF Typed
<1>4. ASSUME Started PROVE Travelled /\ Named
  BY <1>2, <1>4 DEF Travelled, Named
<1>. QED
  BY <1>3, <1>4 DEF IInv, AttributionUnforgeable, IdentityUnforgeable

(* ClientIP finds the entry the trail starts with, or stops at one that is *)
(* not an address.                                                         *)
LEMMA WalkFinds ==
  ASSUME NEW all \in Seq(Written), NEW peer \in Addrs, NEW o \in Addrs, NEW b,
         Trusts(peer), ~Trusts(o), Trail(all, o, b)
  PROVE  LET f == [i \in 1..Len(all) |-> ParseAddr(all[i])]
         IN  ClientIP(peer, f) = o \/ (b /\ ClientIP(peer, f) = peer)
<1> DEFINE n == Len(all)
           f == [i \in 1..n |-> ParseAddr(all[i])]
           stops == {i \in 1..Len(f) : f[i] = Bad \/ ~Trusts(f[i])}
<1>0. n \in Nat /\ Len(f) = n /\ \A i \in 1..n : f[i] = ParseAddr(all[i]) /\ all[i] \in Written
  OBVIOUS
<1>1. PICK i \in 1..n : Marks(all[i], o, b) /\ \A j \in 1..n : i < j => Passes(all[j], b)
  BY DEF Trail
<1>2. Bad \notin Addrs
  BY MarksAssumption
<1>3. \A j \in 1..n : all[j] # Bad => f[j] \in Addrs /\ f[j] = all[j].ip /\ f[j] # Bad
  BY <1>0, <1>2 DEF Written, ParseAddr
<1>4. \A j \in 1..n : all[j] = Bad => f[j] = Bad
  BY <1>0 DEF ParseAddr
<1> HIDE DEF f
<1>5. i \in stops
  BY <1>0, <1>1, <1>3, <1>4 DEF Marks
<1>6. PICK last \in stops : \A j \in stops : j <= last
  <2>1. stops \subseteq 0..n /\ stops # {}
    BY <1>0, <1>5
  <2> HIDE DEF stops, n
  <2>. QED
    BY <1>0, <2>1, LastExists
<1>7. /\ LastOf(stops) \in stops
      /\ \A j \in stops : j <= LastOf(stops)
  <2> HIDE DEF stops
  <2>. QED
    BY <1>6 DEF LastOf
<1> DEFINE l == LastOf(stops)
<1>8. /\ l \in 1..n /\ (f[l] = Bad \/ ~Trusts(f[l]))
      /\ l = i \/ i < l
      /\ stops # {}
  BY <1>0, <1>5, <1>7
<1>9. ClientIP(peer, f) = IF f[l] = Bad THEN peer ELSE f[l]
  BY <1>8 DEF ClientIP
<1> HIDE DEF stops, l, n
<1>10. ASSUME l = i PROVE ClientIP(peer, f) = o \/ (b /\ ClientIP(peer, f) = peer)
  BY <1>1, <1>3, <1>4, <1>8, <1>9, <1>10 DEF Marks
<1>11. ASSUME i < l PROVE b /\ ClientIP(peer, f) = peer
  <2>1. Passes(all[l], b)
    BY <1>1, <1>8, <1>11
  <2>2. f[l] = Bad /\ b
    BY <1>3, <1>4, <1>8, <2>1 DEF Passes
  <2>. QED
    BY <1>9, <2>2
<1>. QED
  BY <1>8, <1>10, <1>11 DEF f, n

(* Whatever the header says, the answer is an address.                     *)
LEMMA AnswerIsAddress ==
  ASSUME NEW all \in Seq(Written), NEW peer \in Addrs
  PROVE  ClientIP(peer, [i \in 1..Len(all) |-> ParseAddr(all[i])]) \in Addrs
<1> DEFINE n == Len(all)
           f == [i \in 1..n |-> ParseAddr(all[i])]
           stops == {i \in 1..Len(f) : f[i] = Bad \/ ~Trusts(f[i])}
<1>0. n \in Nat /\ Len(f) = n /\ \A i \in 1..n : f[i] = ParseAddr(all[i]) /\ all[i] \in Written
  OBVIOUS
<1>1. \A i \in 1..n : f[i] = Bad \/ f[i] \in Addrs
  BY <1>0 DEF ParseAddr, Written
<1> HIDE DEF f
<1>2. SUFFICES ASSUME stops # {}, f[LastOf(stops)] # Bad PROVE f[LastOf(stops)] \in Addrs
  BY DEF ClientIP, f
<1>3. stops \subseteq 0..n /\ stops \subseteq 1..n
  BY <1>0
<1>4. LastOf(stops) \in stops
  <2> HIDE DEF stops, n
  <2>1. PICK last \in stops : \A j \in stops : j <= last
    BY <1>0, <1>2, <1>3, LastExists
  <2>. QED
    BY <2>1 DEF LastOf
<1>. QED
  BY <1>1, <1>2, <1>3, <1>4

(* A trusted proxy passes the request on.                                  *)
LEMMA ForwardTrustedKeeps ==
  ASSUME IInv, NEW p \in Addrs, ForwardTrusted(p)
  PROVE  IInv'
<1> USE DEF ForwardTrusted, InTransit
<1>0. Typed /\ Started /\ Travelled /\ Named
  BY DEF IInv
<1>1. /\ networks' = networks /\ outsider' = outsider /\ client' = client /\ id' = id
      /\ sender' = p /\ client = Blank /\ Trusts(p)
  OBVIOUS
<1>2. \A a : Trusts(a)' <=> Trusts(a)
  BY <1>1 DEF Trusts
<1>3. Bad # "proxy" /\ Bad # "outsider" /\ "proxy" # "outsider" /\ Bad \notin Addrs
  BY MarksAssumption
<1>4. PICK e \in Written :
        /\ e = Bad \/ e.ip = sender
        /\ header' \in {Append1(header, e), Append(header, <<e>>)}
        /\ blurred' = (blurred \/ e = Bad)
  OBVIOUS
<1>5. /\ header' \in Seq(Seq(Written))
      /\ FlattenSeq(header) \in Seq(Written)
      /\ FlattenSeq(header') = FlattenSeq(header) \o <<e>>
  BY <1>0, <1>4, ProxyWrites DEF Typed
<1>6. reqid' \in {Bad, "proxy"} \/ (reqid' = reqid /\ Trusts(sender))
  OBVIOUS
<1>7. Typed'
  BY <1>0, <1>1, <1>5, <1>6 DEF Typed
<1>8. Named'
  BY <1>0, <1>1, <1>2, <1>3, <1>6 DEF Named
<1>9. ASSUME outsider # Blank PROVE Trail(FlattenSeq(header'), outsider, blurred')
  <2>1. CASE Trusts(sender)
    <3>1. Trail(FlattenSeq(header), outsider, blurred)
      BY <1>0, <1>9, <2>1 DEF Travelled
    <3>2. Passes(e, blurred') /\ (blurred => blurred')
      BY <1>4, <2>1 DEF Passes
    <3>. QED
      BY <1>5, <3>1, <3>2, TrailGrows
  <2>2. CASE ~Trusts(sender)
    <3>1. Marks(e, outsider, blurred')
      BY <1>0, <1>4, <2>2 DEF Travelled, Marks
    <3>. QED
      BY <1>5, <3>1, TrailStarts
  <2>. QED
    BY <2>1, <2>2
<1>10. Trail(FlattenSeq(header'), outsider, blurred')
        <=> Trail(FlattenSeq(header), outsider, blurred)'
  BY <1>1, <1>2 DEF Trail, Passes, Marks
<1>11. Travelled'
  BY <1>0, <1>1, <1>2, <1>9, <1>10 DEF Travelled
<1>. QED
  BY <1>0, <1>1, <1>7, <1>8, <1>11 DEF IInv, Typed, AttributionUnforgeable, IdentityUnforgeable

(* Another hop does, with any header it likes.                             *)
LEMMA ForwardUntrustedKeeps ==
  ASSUME IInv, NEW p \in Addrs, ForwardUntrusted(p)
  PROVE  IInv'
<1> USE DEF ForwardUntrusted, InTransit
<1>0. Typed /\ Started
  BY DEF IInv
<1>1. /\ networks' = networks /\ client' = client /\ id' = id
      /\ sender' = p /\ outsider' = p /\ client = Blank /\ id = Blank
      /\ reqid' \in {Bad, "outsider"}
  BY <1>0 DEF Typed
<1>2. \A a : Trusts(a)' <=> Trusts(a)
  BY <1>1 DEF Trusts
<1>3. ~Trusts(p)' /\ Bad # "proxy" /\ "proxy" # "outsider"
  BY <1>2, MarksAssumption
<1>4. Typed'
  BY <1>0, <1>1, InventedTyped DEF Typed
<1>5. Travelled' /\ Named'
  BY <1>1, <1>3 DEF Travelled, Named
<1>. QED
  BY <1>1, <1>4, <1>5 DEF IInv, AttributionUnforgeable, IdentityUnforgeable

(* The service attributes and names the request.                           *)
LEMMA ArriveKeeps ==
  ASSUME IInv, Arrive
  PROVE  IInv'
<1> USE DEF Arrive, InTransit
<1>0. Typed /\ Started /\ Travelled /\ Named
  BY DEF IInv
<1>1. /\ networks' = networks /\ outsider' = outsider /\ sender' = sender
      /\ header' = header /\ blurred' = blurred /\ reqid' = reqid
  OBVIOUS
<1>2. /\ client' = ClientIP(sender, ForwardedFor(header))
      /\ id' = RequestID(sender, reqid)
  BY DEF Written, ParseAddr
<1>3. \A a : Trusts(a)' <=> Trusts(a)
  BY <1>1 DEF Trusts
<1> DEFINE all == FlattenSeq(header)
<1>4. all \in Seq(Written) /\ sender \in Addrs
  <2>1. <<>> \in Seq(Written)
    OBVIOUS
  <2>. QED
    BY <1>0, <2>1, FlattenLine DEF Typed
<1>5. ForwardedFor(header) = [i \in 1..Len(all) |-> ParseAddr(all[i])]
  BY DEF ForwardedFor
<1>6. client' \in Addrs
  <2> HIDE DEF all
  <2>. QED
    BY <1>2, <1>4, <1>5, AnswerIsAddress
<1>7. Typed'
  BY <1>0, <1>1, <1>6, MarksAssumption DEF Typed
<1>8. Named'
  BY <1>0, <1>1, <1>3 DEF Named
<1>9. Travelled'
  <2>1. Trail(all, outsider, blurred)' <=> Trail(all, outsider, blurred)
    BY <1>1, <1>3 DEF Trail, Passes, Marks
  <2>. QED
    BY <1>0, <1>1, <1>3, <2>1 DEF Travelled
<1>10. AttributionUnforgeable'
  <2> SUFFICES ASSUME outsider # Blank
               PROVE  client' = outsider \/ (blurred /\ client' = sender)
    BY <1>1 DEF AttributionUnforgeable
  <2>1. CASE ~Trusts(sender)
    BY <1>0, <1>2, <2>1 DEF Travelled, ClientIP
  <2>2. CASE Trusts(sender)
    <3>1. Trail(all, outsider, blurred) /\ ~Trusts(outsider) /\ outsider \in Addrs
      BY <1>0, <2>2 DEF Travelled, Typed
    <3> HIDE DEF all
    <3>. QED
      BY <1>2, <1>4, <1>5, <2>2, <3>1, WalkFinds
  <2>. QED
    BY <2>1, <2>2
<1>11. IdentityUnforgeable'
  <2>1. Bad # "proxy" /\ Bad # "outsider" /\ "service" # "outsider" /\ "proxy" # "outsider"
    BY MarksAssumption
  <2>. QED
    BY <1>0, <1>1, <1>2, <2>1 DEF IdentityUnforgeable, RequestID, Named, Typed
<1>. QED
  BY <1>7, <1>8, <1>9, <1>10, <1>11 DEF IInv

(* The rest.                                                               *)
LEMMA StutterKeeps ==
  ASSUME IInv, UNCHANGED vars
  PROVE  IInv'
<1>1. \A a : Trusts(a)' <=> Trusts(a)
  BY DEF vars, Trusts
<1>2. Trail(FlattenSeq(header), outsider, blurred)' <=> Trail(FlattenSeq(header), outsider, blurred)
  BY <1>1 DEF vars, Trail, Passes, Marks
<1>. QED
  BY <1>1, <1>2 DEF vars, IInv, Typed, Started, Travelled, Named,
                    AttributionUnforgeable, IdentityUnforgeable

(* The invariant holds of every step: one case per action.                 *)
THEOREM Inductive == Spec => []IInv
<1>1. ASSUME IInv, [Next]_vars PROVE IInv'
  BY <1>1, ForwardTrustedKeeps, ForwardUntrustedKeeps, ArriveKeeps, StutterKeeps
     DEF Next, Over
<1>. QED
  BY <1>1, InitHolds, PTL DEF Spec

(* For any addresses, trusted networks, number of hops and invented        *)
(* headers, ClientIP attributes a request to the last sender outside the   *)
(* trusted networks, or to its peer where a trusted proxy hid that sender. *)
THEOREM AttributionAlwaysUnforgeable == Spec => []AttributionUnforgeable
<1>1. IInv => AttributionUnforgeable
  BY DEF IInv
<1>. QED
  BY <1>1, Inductive, PTL

(* And the identifier requestID assigns was never chosen outside them.     *)
THEOREM IdentityAlwaysUnforgeable == Spec => []IdentityUnforgeable
<1>1. IInv => IdentityUnforgeable
  BY DEF IInv
<1>. QED
  BY <1>1, Inductive, PTL
=============================================================================
