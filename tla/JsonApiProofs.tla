--------------------------- MODULE JsonApiProofs ---------------------------
(***************************************************************************)
(* Proofs about JsonBody, ErrorDocument and JsonApi, which composes them.  *)
(*                                                                         *)
(* JsonBody: any limit, bodies of any length, handed over in any pieces.   *)
(* What the decoder sees is always a part of the body, so the first lemmas *)
(* say what scanning a part tells of the whole.  The invariant then        *)
(* accounts for the read errors: which body each of them can come from,    *)
(* and how much of it the decoder has by then.                             *)
(*                                                                         *)
(* ErrorDocument: errors of any shape and depth.  The walk is shown to be  *)
(* what its recursive definition says, and what it appends at each place   *)
(* of the tree to be what is owed of that place, from the last level up.   *)
(***************************************************************************)
EXTENDS JsonApi, SequenceTheorems, WellFoundedInduction, TLAPS

-----------------------------------------------------------------------------
(* A set of numbers that is not empty has a least element.                 *)
LEMMA LeastNumber ==
  ASSUME NEW T, T \subseteq Nat, T # {}
  PROVE  \E m \in T : \A n \in T : m <= n
<1>1. PICK m \in T : \A n \in T : ~(<<n, m>> \in OpToRel(<, Nat))
  BY NatLessThanWellFounded, WFMin, Zenon
<1>2. \A n \in T : ~(n < m)
  BY <1>1 DEF OpToRel
<1>. QED
  BY <1>2

-----------------------------------------------------------------------------
(* Scanning.                                                               *)

(* The least element of a set of numbers that is not empty.                *)
LEMMA MinIs ==
  ASSUME NEW T, T \subseteq Nat, T # {}
  PROVE  Min(T) \in T /\ \A n \in T : Min(T) <= n
<1>1. \E m \in T : \A n \in T : m <= n
  BY LeastNumber
<1>. QED
  BY <1>1 DEF Min

(* p is where the value of s begins.                                       *)
First(s, p) ==
  p \in 1..Len(s) /\ s[p] # "space" /\ \A k \in 1..(p - 1) : s[k] = "space"

(* What Scan reports, without the least elements it is defined by.         *)
ScanIs(s) ==
  \/ Scan(s).is = "blank" /\ \A k \in 1..Len(s) : s[k] = "space"
  \/ \E p \in 1..Len(s) : First(s, p) /\
       \/ s[p] = "rbrace" /\ Scan(s).is = "syntax"
       \/ /\ Scan(s) = [is |-> "number", end |-> Len(s)]
          /\ \A k \in p..Len(s) : s[k] = "digit"
       \/ \E q \in p..(Len(s) - 1) :
            /\ Scan(s) = [is |-> "value", end |-> q]
            /\ \A k \in p..q : s[k] = "digit"
            /\ s[q + 1] # "digit"
       \/ /\ Scan(s).is = "open" /\ s[p] = "lbrace"
          /\ \A k \in (p + 1)..Len(s) : s[k] = "space"
       \/ \E q \in (p + 1)..Len(s) :
            /\ s[p] = "lbrace" /\ s[q] # "space"
            /\ \A k \in (p + 1)..(q - 1) : s[k] = "space"
            /\ IF s[q] = "rbrace" THEN Scan(s) = [is |-> "value", end |-> q]
                             ELSE Scan(s).is = "syntax"

(* It reports one of these of every sequence of bytes.                     *)
LEMMA ScanCases ==
  ASSUME NEW s \in Seq(Bytes)
  PROVE  ScanIs(s)
<1> DEFINE lead == {j \in (0 + 1)..Len(s) : s[j] # "space"}
           b == Min(lead)
           skip == IF s[b] = "lbrace" THEN "space" ELSE "digit"
           after == {j \in (b + 1)..Len(s) : s[j] # skip}
<1> HIDE DEF b
<1>0. Len(s) \in Nat
  OBVIOUS
<1>1. CASE lead = {}
  <2>1. Scan(s).is = "blank"
    BY <1>1 DEF Scan
  <2>2. \A k \in 1..Len(s) : s[k] = "space"
    BY <1>1
  <2>. QED
    BY <2>1, <2>2 DEF ScanIs
<1>2. CASE lead # {}
  <2>1. b \in lead /\ \A n \in lead : b <= n
    <3>1. lead \subseteq Nat
      BY <1>0
    <3>. QED
      BY <1>2, <3>1, MinIs DEF b
  <2>2. b \in 1..Len(s) /\ First(s, b)
    BY <1>0, <2>1 DEF First
  <2>3. s[b] \in {"lbrace", "rbrace", "digit"}
    BY <2>2, ElementOfSeq DEF Bytes, First
  <2>4. after # {} => \E q : q = Min(after) /\ q \in after /\ \A n \in after : q <= n
    <3>1. after \subseteq Nat
      BY <1>0, <2>2
    <3> HIDE DEF after
    <3>. QED
      BY <3>1, MinIs
  <2>5. CASE s[b] = "rbrace"
    <3>1. Scan(s).is = "syntax"
      BY <1>2, <2>5 DEF Scan, b
    <3>. QED
      BY <2>2, <2>5, <3>1 DEF ScanIs
  <2>6. CASE s[b] = "digit"
    <3>1. CASE after = {}
      <4>1. Scan(s) = [is |-> "number", end |-> Len(s)]
        BY <1>2, <2>6, <3>1 DEF Scan, b
      <4>2. \A k \in b..Len(s) : s[k] = "digit"
        BY <1>0, <2>2, <2>6, <3>1
      <4>. QED
        BY <2>2, <4>1, <4>2 DEF ScanIs
    <3>2. CASE after # {}
      <4>0. PICK q : q = Min(after) /\ q \in after /\ \A n \in after : q <= n
        BY <2>4, <3>2
      <4>1. Scan(s) = [is |-> "value", end |-> q - 1]
        BY <1>2, <2>6, <3>2, <4>0 DEF Scan, b
      <4>2. q - 1 \in b..(Len(s) - 1) /\ s[(q - 1) + 1] # "digit"
        BY <1>0, <2>2, <2>6, <4>0
      <4>3. \A k \in b..(q - 1) : s[k] = "digit"
        BY <1>0, <2>2, <2>6, <4>0
      <4>. QED
        BY <2>2, <4>1, <4>2, <4>3 DEF ScanIs
    <3>. QED
      BY <3>1, <3>2
  <2>7. CASE s[b] = "lbrace"
    <3>1. CASE after = {}
      <4>1. Scan(s).is = "open"
        BY <1>2, <2>7, <3>1 DEF Scan, b
      <4>2. \A k \in (b + 1)..Len(s) : s[k] = "space"
        BY <1>0, <2>2, <2>7, <3>1
      <4>. QED
        BY <2>2, <2>7, <4>1, <4>2 DEF ScanIs
    <3>2. CASE after # {}
      <4>0. PICK q : q = Min(after) /\ q \in after /\ \A n \in after : q <= n
        BY <2>4, <3>2
      <4>1. IF s[q] = "rbrace" THEN Scan(s) = [is |-> "value", end |-> q]
                               ELSE Scan(s).is = "syntax"
        BY <1>2, <2>7, <3>2, <4>0 DEF Scan, b
      <4>2. q \in (b + 1)..Len(s) /\ s[q] # "space"
        BY <1>0, <2>2, <2>7, <4>0
      <4>3. \A k \in (b + 1)..(q - 1) : s[k] = "space"
        BY <1>0, <2>2, <2>7, <4>0
      <4>. QED
        BY <2>2, <2>7, <4>1, <4>2, <4>3 DEF ScanIs
    <3>. QED
      BY <3>1, <3>2
  <2>. QED
    BY <2>3, <2>5, <2>6, <2>7
<1>. QED
  BY <1>1, <1>2

(* Only white space scans as blank.                                        *)
LEMMA BlankIs ==
  ASSUME NEW s \in Seq(Bytes)
  PROVE  /\ Scan(s).is \in {"blank", "number", "value", "open", "syntax"}
         /\ Scan(s).is = "blank" <=> \A k \in 1..Len(s) : s[k] = "space"
<1>1. ScanIs(s)
  BY ScanCases
<1>. QED
  BY <1>1 DEF ScanIs, First

-----------------------------------------------------------------------------
(* A part of the body and the whole.                                       *)

(* The first value of s is at i..j: nothing but white space is before it,  *)
(* and a number goes as far as it can.                                     *)
Ends(s, i, j) ==
  /\ i \in 1..Len(s) /\ j \in i..Len(s)
  /\ \A k \in 1..(i - 1) : s[k] = "space"
  /\ \/ /\ \A k \in i..j : s[k] = "digit"
        /\ j < Len(s) => s[j + 1] # "digit"
     \/ /\ i < j /\ s[i] = "lbrace" /\ s[j] = "rbrace"
        /\ \A k \in (i + 1)..(j - 1) : s[k] = "space"

(* The bytes of a part.                                                    *)
LEMMA PartIs ==
  ASSUME NEW body \in Seq(Bytes), NEW m \in 0..Len(body), NEW a \in 0..m
  PROVE  LET s == SubSeq(body, a + 1, m)
         IN  /\ s \in Seq(Bytes) /\ Len(s) = m - a
             /\ \A k \in 1..(m - a) : s[k] = body[a + k]
<1>1. Len(body) \in Nat /\ m \in Int /\ a + 1 \in Int
  OBVIOUS
<1>2. \A k \in (a + 1)..m : body[k] \in Bytes
  BY <1>1, ElementOfSeq
<1>3. /\ SubSeq(body, a + 1, m) \in Seq(Bytes)
      /\ Len(SubSeq(body, a + 1, m)) = IF a + 1 <= m THEN m - (a + 1) + 1 ELSE 0
      /\ \A k \in 1..(m - (a + 1) + 1) : SubSeq(body, a + 1, m)[k] = body[(a + 1) + k - 1]
  BY <1>1, <1>2, SubSeqProperties
<1>4. Len(SubSeq(body, a + 1, m)) = m - a
  BY <1>1, <1>3
<1>5. \A k \in 1..(m - a) : (a + 1) + k - 1 = a + k /\ k \in 1..(m - (a + 1) + 1)
  BY <1>1
<1>. QED
  BY <1>3, <1>4, <1>5

(* A value found in the beginning of a body is its first: a number that    *)
(* goes to the end of it counts only if that is the end of the body.       *)
LEMMA FirstEnds ==
  ASSUME NEW body \in Seq(Bytes), NEW m \in 0..Len(body), NEW s \in Seq(Bytes),
         Len(s) = m, \A k \in 1..m : s[k] = body[k],
         Scan(s).is = "value" \/ (Scan(s).is = "number" /\ m = Len(body))
  PROVE  Scan(s).end \in 1..m /\ \E i \in 1..m : Ends(body, i, Scan(s).end)
<1>0. Len(body) \in Nat /\ m <= Len(body)
  OBVIOUS
<1>1. ScanIs(s)
  BY ScanCases
<1>2. PICK p \in 1..m : First(s, p) /\
       \/ /\ Scan(s) = [is |-> "number", end |-> m] /\ m = Len(body)
          /\ \A k \in p..m : s[k] = "digit"
       \/ \E q \in p..(m - 1) :
            /\ Scan(s) = [is |-> "value", end |-> q]
            /\ \A k \in p..q : s[k] = "digit"
            /\ s[q + 1] # "digit"
       \/ \E q \in (p + 1)..m :
            /\ s[p] = "lbrace" /\ s[q] = "rbrace"
            /\ \A k \in (p + 1)..(q - 1) : s[k] = "space"
            /\ Scan(s) = [is |-> "value", end |-> q]
  BY <1>1 DEF ScanIs
<1>3. \A k \in 1..(p - 1) : body[k] = "space"
  BY <1>0, <1>2 DEF First
<1>4. CASE /\ Scan(s) = [is |-> "number", end |-> m] /\ m = Len(body)
           /\ \A k \in p..m : s[k] = "digit"
  <2>1. \A k \in p..m : body[k] = "digit"
    BY <1>0, <1>4
  <2>. QED
    BY <1>0, <1>3, <1>4, <2>1 DEF Ends
<1>5. CASE \E q \in p..(m - 1) :
             /\ Scan(s) = [is |-> "value", end |-> q]
             /\ \A k \in p..q : s[k] = "digit"
             /\ s[q + 1] # "digit"
  <2>1. PICK q \in p..(m - 1) :
             /\ Scan(s) = [is |-> "value", end |-> q]
             /\ \A k \in p..q : s[k] = "digit"
             /\ s[q + 1] # "digit"
    BY <1>5
  <2>2. body[q + 1] # "digit" /\ \A k \in p..q : body[k] = "digit"
    BY <1>0, <2>1
  <2>3. q \in 1..m /\ p \in 1..Len(body) /\ q \in p..Len(body) /\ Scan(s).end = q
    BY <1>0, <2>1
  <2>4. Ends(body, p, q)
    BY <1>3, <2>2, <2>3 DEF Ends
  <2>. QED
    BY <2>3, <2>4
<1>6. CASE \E q \in (p + 1)..m :
             /\ s[p] = "lbrace" /\ s[q] = "rbrace"
             /\ \A k \in (p + 1)..(q - 1) : s[k] = "space"
             /\ Scan(s) = [is |-> "value", end |-> q]
  <2>1. PICK q \in (p + 1)..m :
             /\ s[p] = "lbrace" /\ s[q] = "rbrace"
             /\ \A k \in (p + 1)..(q - 1) : s[k] = "space"
             /\ Scan(s) = [is |-> "value", end |-> q]
    BY <1>6
  <2>2. /\ body[p] = "lbrace" /\ body[q] = "rbrace"
        /\ \A k \in (p + 1)..(q - 1) : body[k] = "space"
    BY <1>0, <2>1
  <2>. QED
    BY <1>0, <1>3, <2>1, <2>2 DEF Ends
<1>. QED
  BY <1>2, <1>4, <1>5, <1>6

(* The beginning of a single value is never malformed, and the whole of it *)
(* is a value.                                                             *)
LEMMA SingleScans ==
  ASSUME NEW body \in Seq(Bytes), NEW m \in 0..Len(body), NEW s \in Seq(Bytes),
         Len(s) = m, \A k \in 1..m : s[k] = body[k], SingleValue(body)
  PROVE  /\ Scan(s).is # "syntax"
         /\ m = Len(body) => Scan(s).is \in {"value", "number"}
<1>0. Len(body) \in Nat /\ m <= Len(body)
  OBVIOUS
<1>1. ScanIs(s)
  BY ScanCases
<1>2. PICK i, j \in 1..Len(body) :
        /\ i <= j
        /\ \A k \in 1..Len(body) : k < i \/ k > j => body[k] = "space"
        /\ \/ \A k \in i..j : body[k] = "digit"
           \/ /\ i < j /\ body[i] = "lbrace" /\ body[j] = "rbrace"
              /\ \A k \in (i + 1)..(j - 1) : body[k] = "space"
  BY DEF SingleValue
<1>3. body[i] \in {"digit", "lbrace"}
  BY <1>0, <1>2
<1>4. \A p \in 1..m : First(s, p) => p = i
  <2> SUFFICES ASSUME NEW p \in 1..m, First(s, p) PROVE p = i
    OBVIOUS
  <2>1. ~(p < i)
    BY <1>0, <1>2 DEF First
  <2>2. ~(i < p)
    BY <1>0, <1>2, <1>3 DEF First
  <2>. QED
    BY <1>0, <2>1, <2>2
<1>5. Scan(s).is # "syntax"
  <2> SUFFICES ASSUME Scan(s).is = "syntax" PROVE FALSE
    OBVIOUS
  <2>1. PICK p \in 1..m : First(s, p) /\
          \/ s[p] = "rbrace"
          \/ s[p] = "lbrace" /\ \E q \in (p + 1)..m : s[q] \notin {"space", "rbrace"}
    BY <1>1 DEF ScanIs
  <2>2. p = i /\ body[p] = s[p]
    BY <1>4, <2>1
  <2>3. PICK q \in (i + 1)..m : s[i] = "lbrace" /\ s[q] \notin {"space", "rbrace"}
    BY <1>3, <2>1, <2>2
  <2>. QED
    BY <1>0, <1>2, <2>2, <2>3
<1>6. ASSUME m = Len(body) PROVE Scan(s).is \notin {"blank", "open"}
  <2>1. CASE Scan(s).is = "blank"
    BY <1>0, <1>2, <1>3, <1>6, <2>1, BlankIs
  <2>2. CASE Scan(s).is = "open"
    <3>1. PICK p \in 1..m : First(s, p) /\ s[p] = "lbrace" /\ \A k \in (p + 1)..m : s[k] = "space"
      BY <1>1, <2>2 DEF ScanIs
    <3>2. p = i
      BY <1>4, <3>1
    <3>. QED
      BY <1>0, <1>2, <1>6, <3>1, <3>2
  <2>. QED
    BY <2>1, <2>2
<1>. QED
  BY <1>5, <1>6, BlankIs

(* A body is a single value if only white space follows its first.         *)
LEMMA RestBlank ==
  ASSUME NEW body \in Seq(Bytes), NEW i, NEW e, Ends(body, i, e)
  PROVE  SingleValue(body) <=> \A k \in (e + 1)..Len(body) : body[k] = "space"
<1>0. Len(body) \in Nat /\ i \in 1..Len(body) /\ e \in i..Len(body)
  BY DEF Ends
<1>1. ASSUME \A k \in (e + 1)..Len(body) : body[k] = "space" PROVE SingleValue(body)
  <2>1. \A k \in 1..Len(body) : k < i \/ k > e => body[k] = "space"
    BY <1>0, <1>1 DEF Ends
  <2>. QED
    BY <1>0, <2>1 DEF Ends, SingleValue
<1>2. ASSUME SingleValue(body) PROVE \A k \in (e + 1)..Len(body) : body[k] = "space"
  <2>1. PICK a, z \in 1..Len(body) :
          /\ a <= z
          /\ \A k \in 1..Len(body) : k < a \/ k > z => body[k] = "space"
          /\ \/ \A k \in a..z : body[k] = "digit"
             \/ /\ a < z /\ body[a] = "lbrace" /\ body[z] = "rbrace"
                /\ \A k \in (a + 1)..(z - 1) : body[k] = "space"
    BY <1>2 DEF SingleValue
  <2>2. body[i] \in {"digit", "lbrace"} /\ body[a] \in {"digit", "lbrace"}
    BY <1>0, <2>1 DEF Ends
  <2>3. a = i
    <3>1. ~(a < i)
      BY <1>0, <2>1, <2>2 DEF Ends
    <3>2. ~(i < a)
      BY <1>0, <2>1, <2>2
    <3>. QED
      BY <1>0, <2>1, <3>1, <3>2
  <2>4. ~(e < z)
    BY <1>0, <2>1, <2>3 DEF Ends
  <2>. QED
    BY <1>0, <2>1, <2>4
<1>. QED
  BY <1>1, <1>2

-----------------------------------------------------------------------------
(* The invariant.                                                          *)

Typed ==
  /\ req \in Requests
  /\ got \in 0..Len(req.body) /\ left \in Nat /\ got + left = Limit
  /\ start \in 0..got
  /\ pc = "type" => start = 0

(* Which body a read error can come from, and what was read by then.  An   *)
(* error is repeated, so Decode meets the one the reader is stuck with.    *)
Reads ==
  /\ sticky \in {"none", "eof", "broken", "max"} /\ seen \in {"none", sticky}
  /\ sticky = "eof" => ~req.breaks /\ got = Len(req.body)
  /\ sticky = "broken" => req.breaks
  /\ sticky = "max" => Len(req.body) > Limit

(* What the calls of Decode that returned have found.                      *)
Found ==
  /\ pc = "first" => req.json /\ start = 0
  /\ pc = "second" =>
       req.json /\ req.fits /\ \E i \in 1..start : Ends(req.body, i, start)

IInv == Typed /\ Reads /\ Found /\ AcceptedExactly

(* A body is a sequence of bytes.                                          *)
LEMMA RequestTyped ==
  ASSUME req \in Requests
  PROVE  /\ req.body \in Seq(Bytes) /\ Len(req.body) \in Nat
         /\ {req.json, req.fits, req.breaks} \subseteq BOOLEAN
<1>1. /\ req.body \in Bodies
      /\ {req.json, req.fits, req.breaks} \subseteq BOOLEAN
  BY DEF Requests
<1>2. req.body \in Seq(Bytes)
  BY <1>1, SeqDef, LimitAssumption DEF Bodies
<1>. QED
  BY <1>1, <1>2

(* What is buffered is the part of the body from start to got.             *)
LEMMA BufferedIs ==
  ASSUME Typed
  PROVE  /\ Buffered \in Seq(Bytes) /\ Len(Buffered) = got - start
         /\ \A k \in 1..(got - start) : Buffered[k] = req.body[start + k]
  BY RequestTyped, PartIs DEF Typed, Buffered

(* What Decode makes of it.                                                *)
LEMMA DecodeIs ==
  ASSUME Typed, Reads
  PROVE  /\ Decode = "value" => \/ Scan(Buffered).is = "value"
                                \/ Scan(Buffered).is = "number" /\ seen = "eof"
         /\ Decode = "eof" <=> Scan(Buffered).is = "blank" /\ seen = "eof"
         /\ Scan(Buffered).is \notin {"value", "syntax"} /\ seen = "none" => Decode = "refill"
         /\ Scan(Buffered).is \in {"value", "number"} /\ seen = "eof" => Decode = "value"
         /\ Scan(Buffered).is = "value" => Decode = "value"
<1>1. Scan(Buffered).is \in {"blank", "number", "value", "open", "syntax"}
  BY BufferedIs, BlankIs
<1>2. seen \in {"none", "eof", "broken", "max"}
  BY DEF Reads
<1>. QED
  BY <1>1, <1>2 DEF Decode

-----------------------------------------------------------------------------
(* The steps.                                                              *)

(* Before anything is read.                                                *)
LEMMA InitHolds == Init => IInv
<1> SUFFICES ASSUME Init PROVE IInv
  OBVIOUS
<1>1. Typed
  BY RequestTyped, LimitAssumption DEF Init, Typed
<1>. QED
  BY <1>1 DEF Init, IInv, Reads, Found, AcceptedExactly

(* The media type.                                                         *)
LEMMA RequireJSONKeeps ==
  ASSUME IInv, RequireJSONContentType
  PROVE  IInv'
<1> USE DEF IInv, RequireJSONContentType, Return
<1>1. Typed'
  BY DEF Typed
<1>2. Reads'
  BY DEF Reads
<1>3. Found'
  BY DEF Typed, Found
<1>4. AcceptedExactly'
  BY DEF AcceptedExactly
<1>. QED
  BY <1>1, <1>2, <1>3, <1>4

(* A read, or the error of an earlier one again.                           *)
LEMMA RefillKeeps ==
  ASSUME IInv, Refill
  PROVE  IInv'
<1>0. Typed /\ Reads /\ Found /\ AcceptedExactly /\ pc # "done"
  BY DEF IInv, Refill
<1>1. UNCHANGED <<req, pc, start, result>>
  BY DEF Refill
<1>2. Found' /\ AcceptedExactly'
  BY <1>0, <1>1 DEF Found, AcceptedExactly
<1>3. CASE sticky # "none"
  <2>1. seen' = sticky /\ UNCHANGED <<got, left, sticky>>
    BY <1>3 DEF Refill
  <2>. QED
    BY <1>0, <1>1, <1>2, <2>1 DEF IInv, Typed, Reads
<1>4. CASE sticky = "none"
  <2>1. PICK p \in Pieces :
          /\ got' = got + LimitedRead(p[1], p[2]).n
          /\ left' = left - LimitedRead(p[1], p[2]).n
          /\ sticky' = LimitedRead(p[1], p[2]).err /\ seen' = sticky'
    BY <1>4 DEF Refill
  <2>2. /\ p[1] \in 0..(Len(req.body) - got)
        /\ p[2] \in {"none", IF req.breaks THEN "broken" ELSE "eof"}
        /\ p[2] # "none" => p[1] = Len(req.body) - got
    BY <2>1 DEF Pieces
  <2>3. /\ Len(req.body) \in Nat /\ got \in 0..Len(req.body) /\ left \in Nat
        /\ got + left = Limit /\ start \in 0..got /\ req.breaks \in BOOLEAN
    BY <1>0, RequestTyped DEF Typed
  <2>4. CASE p[1] <= left
    <3>1. got' = got + p[1] /\ left' = left - p[1] /\ sticky' = p[2] /\ seen' = p[2]
      BY <2>1, <2>4 DEF LimitedRead
    <3>2. Typed'
      <4>1. got' \in 0..Len(req.body) /\ left' \in Nat /\ got' + left' = Limit /\ start \in 0..got'
        <5>1. PICK k : k = p[1]
          OBVIOUS
        <5>2. PICK n : n = Len(req.body)
          OBVIOUS
        <5>3. p[1] \in Nat /\ p[1] <= Len(req.body) - got /\ got \in Nat
              /\ start \in Nat /\ start <= got
          BY <2>2, <2>3
        <5>4. /\ got + k \in 0..n /\ left - k \in Nat /\ (got + k) + (left - k) = Limit
              /\ start \in 0..(got + k)
          BY <2>3, <2>4, <5>1, <5>2, <5>3
        <5>. QED
          BY <3>1, <5>1, <5>2, <5>4
      <4>. QED
        BY <1>0, <1>1, <4>1 DEF Typed
    <3>3. Reads'
      BY <1>1, <2>2, <2>3, <3>1 DEF Reads
    <3>. QED
      BY <1>2, <3>2, <3>3 DEF IInv
  <2>5. CASE ~(p[1] <= left)
    <3>1. got' = got + left /\ left' = left - left /\ sticky' = "max" /\ seen' = "max"
      BY <2>1, <2>5 DEF LimitedRead
    <3>2. Typed'
      BY <1>0, <1>1, <2>2, <2>3, <2>5, <3>1 DEF Typed
    <3>3. Reads'
      BY <1>1, <2>2, <2>3, <2>5, <3>1 DEF Reads
    <3>. QED
      BY <1>2, <3>2, <3>3 DEF IInv
  <2>. QED
    BY <2>4, <2>5
<1>. QED
  BY <1>3, <1>4

(* What a request has to be for DecodeJSON to accept it.                   *)
Acceptable ==
  /\ req.json /\ req.fits /\ ~req.breaks
  /\ Len(req.body) <= Limit /\ SingleValue(req.body)

(* The first value.                                                        *)
LEMMA DecodeFirstKeeps ==
  ASSUME IInv, DecodeFirst
  PROVE  IInv'
<1>0. Typed /\ Reads /\ Found /\ AcceptedExactly /\ pc = "first" /\ Decode # "refill"
  BY DEF IInv, DecodeFirst
<1>1. start = 0 /\ req.json /\ UNCHANGED <<req, got, left, sticky>>
  BY <1>0 DEF DecodeFirst, Found
<1>2. /\ req.body \in Seq(Bytes) /\ Len(req.body) \in Nat /\ got \in 0..Len(req.body)
      /\ Buffered \in Seq(Bytes) /\ Len(Buffered) = got
      /\ \A k \in 1..got : Buffered[k] = req.body[k]
  <2>1. /\ req.body \in Seq(Bytes) /\ Len(req.body) \in Nat /\ got \in 0..Len(req.body)
    BY <1>0, RequestTyped DEF Typed
  <2>2. /\ Buffered \in Seq(Bytes) /\ Len(Buffered) = got - 0
        /\ \A k \in 1..(got - 0) : Buffered[k] = req.body[0 + k]
    BY <1>0, <1>1, BufferedIs
  <2>3. got - 0 = got /\ \A k \in 1..got : 0 + k = k
    BY <2>1
  <2>. QED
    BY <2>1, <2>2, <2>3
<1>3. CASE Decode = "value" /\ req.fits
  <2>1. pc' = "second" /\ start' = start + Scan(Buffered).end /\ seen' = "none" /\ result' = result
    BY <1>3 DEF DecodeFirst, Return
  <2>2. Scan(Buffered).is = "value" \/ (Scan(Buffered).is = "number" /\ got = Len(req.body))
    BY <1>0, <1>3, DecodeIs DEF Reads
  <2>3. Scan(Buffered).end \in 1..got /\ \E i \in 1..got : Ends(req.body, i, Scan(Buffered).end)
    BY <1>2, <2>2, FirstEnds
  <2>4. start' = Scan(Buffered).end
    BY <1>1, <1>2, <2>1, <2>3
  <2>5. Typed'
    BY <1>0, <1>1, <1>2, <2>1, <2>3, <2>4 DEF Typed
  <2>6. Reads'
    BY <1>0, <1>1, <2>1 DEF Reads
  <2>7. \E i \in 1..start' : Ends(req.body, i, start')
    BY <1>2, <2>3, <2>4 DEF Ends
  <2>8. Found'
    BY <1>1, <1>3, <2>1, <2>7 DEF Found
  <2>. QED
    BY <2>1, <2>5, <2>6, <2>8 DEF IInv, AcceptedExactly
<1>4. CASE ~(Decode = "value" /\ req.fits)
  <2>1. pc' = "done" /\ result' \in {"400", "413"} /\ UNCHANGED <<start, seen>>
    BY <1>4 DEF DecodeFirst, Return, ClientErrorForDecode
  <2>2. ~Acceptable
    <3> SUFFICES ASSUME Acceptable, Decode # "value" PROVE FALSE
      BY <1>4 DEF Acceptable
    <3>1. /\ Scan(Buffered).is # "syntax"
          /\ got = Len(req.body) => Scan(Buffered).is \in {"value", "number"}
      BY <1>2, SingleScans DEF Acceptable
    <3>2. seen \in {"none", "eof"}
      BY <1>0, <1>2, LimitAssumption DEF Acceptable, Reads
    <3>3. seen = "eof" => got = Len(req.body)
      BY <1>0 DEF Reads
    <3>. QED
      BY <1>0, <3>1, <3>2, <3>3, DecodeIs
  <2>3. Typed' /\ Reads' /\ Found'
    BY <1>0, <1>1, <2>1 DEF Typed, Reads, Found
  <2>4. AcceptedExactly'
    BY <1>1, <2>1, <2>2 DEF AcceptedExactly, Acceptable
  <2>. QED
    BY <2>3, <2>4 DEF IInv
<1>. QED
  BY <1>3, <1>4

(* What follows it.                                                        *)
LEMMA DecodeSecondKeeps ==
  ASSUME IInv, DecodeSecond
  PROVE  IInv'
<1>0. Typed /\ Reads /\ Found /\ pc = "second" /\ Decode # "refill"
  BY DEF IInv, DecodeSecond
<1>1. /\ pc' = "done" /\ result' = IF Decode = "eof" THEN "ok" ELSE "400"
      /\ UNCHANGED <<req, got, left, sticky, seen, start>>
  BY DEF DecodeSecond, Return, EndOfBody
<1>2. /\ req.body \in Seq(Bytes) /\ Len(req.body) \in Nat
      /\ got \in 0..Len(req.body) /\ start \in 0..got
      /\ left \in Nat /\ got + left = Limit
  BY <1>0, RequestTyped DEF Typed
<1>3. /\ Buffered \in Seq(Bytes) /\ Len(Buffered) = got - start
      /\ \A k \in 1..(got - start) : Buffered[k] = req.body[start + k]
  BY <1>0, BufferedIs
<1>4. req.json /\ req.fits /\ \E i \in 1..start : Ends(req.body, i, start)
  BY <1>0 DEF Found
<1>5. SingleValue(req.body) <=> \A k \in (start + 1)..Len(req.body) : req.body[k] = "space"
  BY <1>2, <1>4, RestBlank
<1>6. ASSUME Decode = "eof" PROVE Acceptable
  <2>1. Scan(Buffered).is = "blank" /\ got = Len(req.body) /\ ~req.breaks
    BY <1>0, <1>6, DecodeIs DEF Reads
  <2>2. \A k \in 1..(got - start) : Buffered[k] = "space"
    BY <1>3, <2>1, BlankIs
  <2>3. \A k \in (start + 1)..Len(req.body) : req.body[k] = "space"
    <3> TAKE k \in (start + 1)..Len(req.body)
    <3>1. k - start \in 1..(got - start) /\ start + (k - start) = k
      BY <1>2, <2>1
    <3>. QED
      BY <1>3, <2>2, <3>1
  <2>. QED
    BY <1>2, <1>4, <1>5, <2>1, <2>3 DEF Acceptable
<1>7. ASSUME Acceptable PROVE Decode = "eof"
  <2>1. seen \in {"none", "eof"}
    BY <1>0, <1>2, <1>7, LimitAssumption DEF Acceptable, Reads
  <2>2. \A k \in 1..(got - start) : Buffered[k] = "space"
    <3> TAKE k \in 1..(got - start)
    <3>1. start + k \in (start + 1)..Len(req.body)
      BY <1>2
    <3>. QED
      BY <1>3, <1>5, <1>7, <3>1 DEF Acceptable
  <2>3. Scan(Buffered).is = "blank"
    BY <1>3, <2>2, BlankIs
  <2>. QED
    BY <1>0, <2>1, <2>3, DecodeIs
<1>8. AcceptedExactly'
  BY <1>1, <1>6, <1>7 DEF AcceptedExactly, Acceptable
<1>9. Typed' /\ Reads' /\ Found'
  BY <1>0, <1>1 DEF Typed, Reads, Found
<1>. QED
  BY <1>8, <1>9 DEF IInv

-----------------------------------------------------------------------------
(* The theorems.                                                           *)

(* The invariant holds in every state of DecodeJSON: what was read, which  *)
(* errors that can have brought, and what the first value was.             *)
THEOREM Inductive == Spec => []IInv
<1>1. IInv /\ UNCHANGED vars => IInv'
  BY DEF vars, IInv, Typed, Reads, Found, AcceptedExactly
<1>2. IInv /\ [Next]_vars => IInv'
  BY <1>1, RequireJSONKeeps, RefillKeeps, DecodeFirstKeeps, DecodeSecondKeeps DEF Next, Returned
<1>. QED
  BY <1>2, InitHolds, PTL DEF Spec

(* DecodeJSON accepts exactly the bodies that are, within the limit and to *)
(* their proper end, one value that fits, for any limit, bodies of any     *)
(* length and whatever pieces they arrive in.                              *)
THEOREM AlwaysAcceptedExactly == Spec => []AcceptedExactly
<1>1. IInv => AcceptedExactly
  BY DEF IInv
<1>. QED
  BY <1>1, Inductive, PTL

-----------------------------------------------------------------------------
(* The recursive functions of the model.                                   *)

(* f is the way down from e to place p, as Along defines it, n steps long. *)
Leads(f, e, p, n) ==
  f = [k \in 0..n |-> IF k = 0 THEN e ELSE Unwrap(f[k - 1], p[k])]

(* There is a way of every length.                                         *)
LEMMA LeadsExists ==
  ASSUME NEW e, NEW p, NEW n \in Nat
  PROVE  \E f : Leads(f, e, p, n)
<1> DEFINE T == {k \in Nat : ~\E f : Leads(f, e, p, k)}
<1> SUFFICES ASSUME T # {} PROVE FALSE
  OBVIOUS
<1>1. PICK m \in T : \A k \in T : m <= k
  <2>1. T \subseteq Nat
    OBVIOUS
  <2> HIDE DEF T
  <2>. QED
    BY <2>1, LeastNumber
<1>2. CASE m = 0
  <2> DEFINE g == [i \in 0..0 |-> e]
  <2>1. Leads(g, e, p, 0)
    BY DEF Leads
  <2> HIDE DEF g
  <2>. QED
    BY <1>1, <1>2, <2>1
<1>3. CASE m # 0
  <2>1. m \in Nat /\ m - 1 \in Nat /\ m - 1 \notin T
    <3> HIDE DEF T
    <3>1. m \in Nat
      BY <1>1 DEF T
    <3>. QED
      BY <1>1, <1>3, <3>1
  <2>2. PICK f : Leads(f, e, p, m - 1)
    BY <2>1
  <2> DEFINE last == Unwrap(f[m - 1], p[m])
             g == [i \in 0..m |-> IF i = m THEN last ELSE f[i]]
             step(i) == IF i = 0 THEN e ELSE Unwrap(g[i - 1], p[i])
  <2>3. \A i \in 0..m : g[i] = step(i)
    <3> SUFFICES ASSUME NEW i \in 0..m PROVE g[i] = step(i)
      OBVIOUS
    <3>1. CASE i = m
      <4>1. g[i] = last /\ g[i - 1] = f[i - 1] /\ i # 0
        BY <1>3, <2>1, <3>1
      <4> HIDE DEF g
      <4>. QED
        BY <3>1, <4>1
    <3>2. CASE i # m
      <4>1. g[i] = f[i] /\ (i # 0 => g[i - 1] = f[i - 1]) /\ i \in 0..(m - 1)
        BY <1>3, <2>1, <3>2
      <4>2. f[i] = IF i = 0 THEN e ELSE Unwrap(f[i - 1], p[i])
        BY <2>2, <4>1 DEF Leads
      <4> HIDE DEF g
      <4>. QED
        BY <4>1, <4>2
    <3>. QED
      BY <3>1, <3>2
  <2>4. g = [i \in 0..m |-> step(i)]
    <3> HIDE DEF step
    <3>. QED
      BY <2>3
  <2>5. Leads(g, e, p, m)
    <3> HIDE DEF g
    <3>. QED
      BY <2>4 DEF Leads
  <2> HIDE DEF g
  <2>. QED
    BY <1>1, <2>5
<1>. QED
  BY <1>2, <1>3

(* A place is a sequence of at most MaxDepth steps.                        *)
LEMMA PlaceIs ==
  ASSUME NEW p \in Places
  PROVE  /\ Len(p) \in 0..MaxDepth
         /\ p \in [1..Len(p) -> 1..MaxJoined]
<1>1. PICK n \in 0..MaxDepth : p \in [1..n -> 1..MaxJoined]
  BY DEF Places
<1>2. n \in Nat /\ p \in Seq(1..MaxJoined)
  BY <1>1, ShapeAssumption
<1>3. Len(p) = n
  BY <1>1, <1>2
<1>. QED
  BY <1>1, <1>3

(* What Along says of each step of the way.                                *)
LEMMA AlongIs ==
  ASSUME NEW e, NEW p \in Places
  PROVE  /\ Along(e, p)[0] = e
         /\ \A n \in 1..Len(p) : Along(e, p)[n] = Unwrap(Along(e, p)[n - 1], p[n])
<1>1. Len(p) \in Nat
  BY PlaceIs, ShapeAssumption
<1>2. \E f : Leads(f, e, p, Len(p))
  BY <1>1, LeadsExists
<1>3. Leads(Along(e, p), e, p, Len(p))
  BY <1>2 DEF Along, Leads
<1> DEFINE w == Along(e, p)
<1>4. \A n \in 0..Len(p) : w[n] = IF n = 0 THEN e ELSE Unwrap(w[n - 1], p[n])
  <2>1. w = [n \in 0..Len(p) |-> IF n = 0 THEN e ELSE Unwrap(w[n - 1], p[n])]
    BY <1>3 DEF Leads
  <2> HIDE DEF w
  <2>. QED
    BY <2>1
<1> HIDE DEF w
<1>5. w[0] = e /\ \A n \in 1..Len(p) : w[n] = Unwrap(w[n - 1], p[n])
  BY <1>1, <1>4
<1>. QED
  BY <1>5 DEF w

(* f is what the loop over the joined errors has appended after each of n. *)
Gathers(f, walk, kids, n) ==
  f = [k \in 0..n |-> IF k = 0 THEN <<>> ELSE f[k - 1] \o walk[kids[k]]]

(* There is such a function for every number of joined errors.             *)
LEMMA GathersExists ==
  ASSUME NEW walk, NEW kids, NEW n \in Nat
  PROVE  \E f : Gathers(f, walk, kids, n)
<1> DEFINE T == {k \in Nat : ~\E f : Gathers(f, walk, kids, k)}
<1> SUFFICES ASSUME T # {} PROVE FALSE
  OBVIOUS
<1>1. PICK m \in T : \A k \in T : m <= k
  <2>1. T \subseteq Nat
    OBVIOUS
  <2> HIDE DEF T
  <2>. QED
    BY <2>1, LeastNumber
<1>2. CASE m = 0
  <2> DEFINE g == [i \in 0..0 |-> <<>>]
  <2>1. Gathers(g, walk, kids, 0)
    BY DEF Gathers
  <2> HIDE DEF g
  <2>. QED
    BY <1>1, <1>2, <2>1
<1>3. CASE m # 0
  <2>1. m \in Nat /\ m - 1 \in Nat /\ m - 1 \notin T
    <3> HIDE DEF T
    <3>1. m \in Nat
      BY <1>1 DEF T
    <3>. QED
      BY <1>1, <1>3, <3>1
  <2>2. PICK f : Gathers(f, walk, kids, m - 1)
    BY <2>1
  <2> DEFINE last == f[m - 1] \o walk[kids[m]]
             g == [i \in 0..m |-> IF i = m THEN last ELSE f[i]]
             step(i) == IF i = 0 THEN <<>> ELSE g[i - 1] \o walk[kids[i]]
  <2>3. \A i \in 0..m : g[i] = step(i)
    <3> SUFFICES ASSUME NEW i \in 0..m PROVE g[i] = step(i)
      OBVIOUS
    <3>1. CASE i = m
      <4>1. g[i] = last /\ g[i - 1] = f[i - 1] /\ i # 0
        BY <1>3, <2>1, <3>1
      <4> HIDE DEF g
      <4>. QED
        BY <3>1, <4>1
    <3>2. CASE i # m
      <4>1. g[i] = f[i] /\ (i # 0 => g[i - 1] = f[i - 1]) /\ i \in 0..(m - 1)
        BY <1>3, <2>1, <3>2
      <4>2. f[i] = IF i = 0 THEN <<>> ELSE f[i - 1] \o walk[kids[i]]
        BY <2>2, <4>1 DEF Gathers
      <4> HIDE DEF g
      <4>. QED
        BY <4>1, <4>2
    <3>. QED
      BY <3>1, <3>2
  <2>4. g = [i \in 0..m |-> step(i)]
    <3> HIDE DEF step
    <3>. QED
      BY <2>3
  <2>5. Gathers(g, walk, kids, m)
    <3> HIDE DEF g
    <3>. QED
      BY <2>4 DEF Gathers
  <2> HIDE DEF g
  <2>. QED
    BY <1>1, <2>5
<1>. QED
  BY <1>2, <1>3

(* AppendEach is the last value of such a function.                        *)
LEMMA AppendEachIs ==
  ASSUME NEW walk, NEW kids, Len(kids) \in Nat
  PROVE  \E f : /\ f[0] = <<>>
                /\ \A n \in 1..Len(kids) : f[n] = f[n - 1] \o walk[kids[n]]
                /\ AppendEach(walk, kids) = f[Len(kids)]
<1> DEFINE w == CHOOSE f : Gathers(f, walk, kids, Len(kids))
<1>1. Gathers(w, walk, kids, Len(kids))
  BY GathersExists
<1>2. AppendEach(walk, kids) = w[Len(kids)]
  BY DEF AppendEach, Gathers
<1> HIDE DEF w
<1>3. \A n \in 0..Len(kids) : w[n] = IF n = 0 THEN <<>> ELSE w[n - 1] \o walk[kids[n]]
  BY <1>1 DEF Gathers
<1>4. w[0] = <<>>
  BY <1>3
<1>5. ASSUME NEW n \in 1..Len(kids) PROVE w[n] = w[n - 1] \o walk[kids[n]]
  <2>1. n \in 0..Len(kids) /\ n # 0
    OBVIOUS
  <2>. QED
    BY <1>3, <2>1, Zenon
<1>. QED
  BY <1>2, <1>4, <1>5

(* It depends on the walk only through what it says of the kids.           *)
LEMMA AppendEachSame ==
  ASSUME NEW v, NEW w, NEW kids, Len(kids) \in Nat,
         \A n \in 1..Len(kids) : v[kids[n]] = w[kids[n]]
  PROVE  AppendEach(v, kids) = AppendEach(w, kids)
<1>1. PICK f : /\ f[0] = <<>>
               /\ \A n \in 1..Len(kids) : f[n] = f[n - 1] \o v[kids[n]]
               /\ AppendEach(v, kids) = f[Len(kids)]
  BY AppendEachIs
<1>2. PICK g : /\ g[0] = <<>>
               /\ \A n \in 1..Len(kids) : g[n] = g[n - 1] \o w[kids[n]]
               /\ AppendEach(w, kids) = g[Len(kids)]
  BY AppendEachIs
<1> DEFINE T == {k \in 0..Len(kids) : f[k] # g[k]}
<1>3. CASE T = {}
  BY <1>1, <1>2, <1>3
<1>4. CASE T # {}
  <2>1. PICK m \in T : \A k \in T : m <= k
    <3>1. T \subseteq Nat
      OBVIOUS
    <3> HIDE DEF T
    <3>. QED
      BY <1>4, <3>1, LeastNumber
  <2>2. m \in 1..Len(kids) /\ m - 1 \notin T
    <3>1. m \in 0..Len(kids) /\ f[m] # g[m]
      BY <2>1
    <3>2. m # 0
      BY <1>1, <1>2, <3>1
    <3> HIDE DEF T
    <3>. QED
      BY <2>1, <3>1, <3>2
  <2>3. f[m - 1] = g[m - 1]
    BY <2>2
  <2>4. f[m] = g[m]
    BY <1>1, <1>2, <2>2, <2>3
  <2>. QED
    BY <2>1, <2>4
<1>. QED
  BY <1>3, <1>4

(* f is the levels of errors Trees is built from, up to level n.           *)
Stacks(f, n) ==
  f = [d \in 0..n |-> IF d = 0 THEN Leaves ELSE Above(f[d - 1])]

(* There are levels up to every number.                                    *)
LEMMA StacksExists ==
  ASSUME NEW n \in Nat
  PROVE  \E f : Stacks(f, n)
<1> DEFINE T == {k \in Nat : ~\E f : Stacks(f, k)}
<1> SUFFICES ASSUME T # {} PROVE FALSE
  OBVIOUS
<1>1. PICK m \in T : \A k \in T : m <= k
  <2>1. T \subseteq Nat
    OBVIOUS
  <2> HIDE DEF T
  <2>. QED
    BY <2>1, LeastNumber
<1>2. CASE m = 0
  <2> DEFINE g == [i \in 0..0 |-> Leaves]
  <2>1. Stacks(g, 0)
    BY DEF Stacks
  <2> HIDE DEF g
  <2>. QED
    BY <1>1, <1>2, <2>1
<1>3. CASE m # 0
  <2>1. m \in Nat /\ m - 1 \in Nat /\ m - 1 \notin T
    <3> HIDE DEF T
    <3>1. m \in Nat
      BY <1>1 DEF T
    <3>. QED
      BY <1>1, <1>3, <3>1
  <2>2. PICK f : Stacks(f, m - 1)
    BY <2>1
  <2> DEFINE last == Above(f[m - 1])
             g == [i \in 0..m |-> IF i = m THEN last ELSE f[i]]
             step(i) == IF i = 0 THEN Leaves ELSE Above(g[i - 1])
  <2>3. \A i \in 0..m : g[i] = step(i)
    <3> SUFFICES ASSUME NEW i \in 0..m PROVE g[i] = step(i)
      OBVIOUS
    <3>1. CASE i = m
      <4>1. g[i] = last /\ g[i - 1] = f[i - 1] /\ i # 0
        BY <1>3, <2>1, <3>1
      <4> HIDE DEF g
      <4>. QED
        BY <3>1, <4>1
    <3>2. CASE i # m
      <4>1. g[i] = f[i] /\ (i # 0 => g[i - 1] = f[i - 1]) /\ i \in 0..(m - 1)
        BY <1>3, <2>1, <3>2
      <4>2. f[i] = IF i = 0 THEN Leaves ELSE Above(f[i - 1])
        BY <2>2, <4>1 DEF Stacks
      <4> HIDE DEF g
      <4>. QED
        BY <4>1, <4>2
    <3>. QED
      BY <3>1, <3>2
  <2>4. g = [i \in 0..m |-> step(i)]
    <3> HIDE DEF step
    <3>. QED
      BY <2>3
  <2>5. Stacks(g, m)
    <3> HIDE DEF g
    <3>. QED
      BY <2>4 DEF Stacks
  <2> HIDE DEF g
  <2>. QED
    BY <1>1, <2>5
<1>. QED
  BY <1>2, <1>3

(* Trees is the last of its levels.                                        *)
LEMMA TreesIs ==
  \E f : /\ f[0] = Leaves /\ Trees = f[MaxDepth]
         /\ \A d \in 1..MaxDepth : f[d] = Above(f[d - 1])
<1>0. MaxDepth \in Nat
  BY ShapeAssumption
<1> DEFINE w == CHOOSE f : Stacks(f, MaxDepth)
<1>1. Stacks(w, MaxDepth)
  BY <1>0, StacksExists
<1>2. Trees = w[MaxDepth]
  BY DEF Trees, Stacks
<1> HIDE DEF w
<1>3. \A d \in 0..MaxDepth : w[d] = IF d = 0 THEN Leaves ELSE Above(w[d - 1])
  BY <1>1 DEF Stacks
<1>4. w[0] = Leaves /\ \A d \in 1..MaxDepth : w[d] = Above(w[d - 1])
  BY <1>0, <1>3
<1>. QED
  BY <1>2, <1>4

-----------------------------------------------------------------------------
(* Trees of errors and the places in them.                                 *)

(* Two places that agree on the first n steps lead the same way there.     *)
LEMMA AlongPrefix ==
  ASSUME NEW e, NEW p \in Places, NEW q \in Places,
         NEW n \in 0..Len(p), n <= Len(q), \A k \in 1..n : p[k] = q[k]
  PROVE  Along(e, p)[n] = Along(e, q)[n]
<1>0. Len(p) \in Nat /\ Len(q) \in Nat
  BY PlaceIs, ShapeAssumption
<1> DEFINE T == {k \in 0..n : Along(e, p)[k] # Along(e, q)[k]}
<1> SUFFICES ASSUME T # {} PROVE FALSE
  BY <1>0
<1>1. PICK m \in T : \A k \in T : m <= k
  <2>1. T \subseteq Nat
    OBVIOUS
  <2> HIDE DEF T
  <2>. QED
    BY <2>1, LeastNumber
<1>2. m \in 1..n
  BY <1>0, <1>1, AlongIs
<1>3. Along(e, p)[m - 1] = Along(e, q)[m - 1]
  <2>1. m - 1 \in 0..n /\ m - 1 \notin T
    <3> HIDE DEF T
    <3>. QED
      BY <1>1, <1>2
  <2>. QED
    BY <2>1
<1>4. Along(e, p)[m] = Unwrap(Along(e, p)[m - 1], p[m])
  BY <1>0, <1>2, AlongIs
<1>5. Along(e, q)[m] = Unwrap(Along(e, q)[m - 1], q[m])
  BY <1>0, <1>2, AlongIs
<1>. QED
  BY <1>1, <1>2, <1>3, <1>4, <1>5

(* The place one step below another.                                       *)
LEMMA OneBelow ==
  ASSUME NEW e, NEW p \in Places, Len(p) < MaxDepth, NEW i \in 1..MaxJoined
  PROVE  /\ Append(p, i) \in Places
         /\ Len(Append(p, i)) = Len(p) + 1
         /\ \A k \in 1..Len(p) : Append(p, i)[k] = p[k]
         /\ Append(p, i)[Len(p) + 1] = i
         /\ Along(e, Append(p, i))[Len(p)] = At(e, p)
         /\ At(e, Append(p, i)) = Unwrap(At(e, p), i)
<1>0. /\ Len(p) \in 0..MaxDepth /\ MaxDepth \in Nat /\ Len(p) \in Nat
      /\ p \in [1..Len(p) -> 1..MaxJoined] /\ p \in Seq(1..MaxJoined)
  BY PlaceIs, ShapeAssumption
<1>1. /\ Append(p, i) \in Seq(1..MaxJoined)
      /\ Len(Append(p, i)) = Len(p) + 1
      /\ \A k \in 1..Len(p) : Append(p, i)[k] = p[k]
      /\ Append(p, i)[Len(p) + 1] = i
  BY <1>0
<1>2. Append(p, i) \in [1..(Len(p) + 1) -> 1..MaxJoined] /\ Len(p) + 1 \in 0..MaxDepth
  <2> DEFINE s == Append(p, i)
  <2>1. s \in Seq(1..MaxJoined) /\ Len(s) = Len(p) + 1
    BY <1>1
  <2> HIDE DEF s
  <2>2. s \in [1..Len(s) -> 1..MaxJoined]
    BY <2>1, LenProperties
  <2>. QED
    BY <1>0, <2>1, <2>2 DEF s
<1>3. Append(p, i) \in Places
  BY <1>2 DEF Places
<1> DEFINE r == Append(p, i)
<1> HIDE DEF r
<1>4. r \in Places /\ Len(r) = Len(p) + 1 /\ \A k \in 1..Len(p) : r[k] = p[k]
  BY <1>1, <1>3 DEF r
<1>5. Along(e, r)[Len(p)] = Along(e, p)[Len(p)]
  <2>1. Len(p) \in 0..Len(r) /\ Len(p) <= Len(p) /\ \A k \in 1..Len(p) : r[k] = p[k]
    BY <1>0, <1>4
  <2>. QED
    BY <1>4, <2>1, AlongPrefix
<1>6. Along(e, r)[Len(r)] = Unwrap(Along(e, r)[Len(r) - 1], r[Len(r)])
  <2>1. Len(r) \in 1..Len(r)
    BY <1>0, <1>4
  <2>. QED
    BY <1>4, <2>1, AlongIs
<1>7. Len(r) - 1 = Len(p)
  BY <1>0, <1>4
<1>8. r[Len(r)] = i
  BY <1>1, <1>4 DEF r
<1>. QED
  BY <1>1, <1>3, <1>5, <1>6, <1>7, <1>8 DEF At, r

(* Below an error that wraps nothing there is nothing.                     *)
LEMMA NilBelow ==
  ASSUME NEW e, NEW p \in Places, NEW n \in 0..Len(p),
         Len(Along(e, p)[n].kids) = 0
  PROVE  \A m \in (n + 1)..Len(p) : Along(e, p)[m] = Err("nil", <<>>)
<1>0. Len(p) \in Nat /\ n \in Nat
  BY PlaceIs, ShapeAssumption
<1> DEFINE T == {m \in (n + 1)..Len(p) : Along(e, p)[m] # Err("nil", <<>>)}
<1> SUFFICES ASSUME T # {} PROVE FALSE
  OBVIOUS
<1>1. PICK m \in T : \A k \in T : m <= k
  <2>1. T \subseteq Nat
    BY <1>0
  <2> HIDE DEF T
  <2>. QED
    BY <2>1, LeastNumber
<1>2. m \in (n + 1)..Len(p) /\ m \in 1..Len(p) /\ p[m] \in 1..MaxJoined
  BY <1>0, <1>1, PlaceIs
<1>3. Along(e, p)[m] = Unwrap(Along(e, p)[m - 1], p[m])
  BY <1>2, AlongIs
<1>4. Len(Along(e, p)[m - 1].kids) = 0
  <2>1. CASE m = n + 1
    <3>1. m - 1 = n
      BY <1>0, <2>1
    <3>. QED
      BY <3>1
  <2>2. CASE m # n + 1
    <3>1. m - 1 \in (n + 1)..Len(p) /\ m - 1 \notin T
      <4> HIDE DEF T
      <4>. QED
        BY <1>0, <1>1, <1>2, <2>2
    <3>2. Along(e, p)[m - 1] = Err("nil", <<>>)
      BY <3>1
    <3>. QED
      BY <3>2 DEF Err
  <2>. QED
    BY <2>1, <2>2
<1>5. ~(p[m] <= Len(Along(e, p)[m - 1].kids))
  BY <1>2, <1>4, ShapeAssumption
<1>. QED
  BY <1>1, <1>3, <1>5 DEF Unwrap

(* Every error in a tree can be walked: it wraps at most MaxJoined others, *)
(* none at the last level, and a status is a number.                       *)
Shaped(e) ==
  \A p \in Places : /\ At(e, p).status \in Nat
                    /\ Len(At(e, p).kids) \in 0..MaxJoined
                    /\ Len(p) = MaxDepth => Len(At(e, p).kids) = 0

(* A sufficient condition: what may be wrapped at each level.              *)
Stratifies(level) ==
  /\ \A d \in 1..MaxDepth : \A x \in level[d], i \in 1..MaxJoined : Unwrap(x, i) \in level[d - 1]
  /\ \A d \in 0..MaxDepth : \A x \in level[d] : x.status \in Nat /\ Len(x.kids) \in 0..MaxJoined
  /\ \A x \in level[0] : Len(x.kids) = 0

(* A step down a tree is a level down.                                     *)
LEMMA LevelDown ==
  ASSUME NEW e, NEW level, Stratifies(level), e \in level[MaxDepth], NEW p \in Places
  PROVE  \A n \in 0..Len(p) : Along(e, p)[n] \in level[MaxDepth - n]
<1>0. Len(p) \in Nat /\ Len(p) <= MaxDepth /\ MaxDepth \in Nat
  BY PlaceIs, ShapeAssumption
<1> DEFINE T == {n \in 0..Len(p) : Along(e, p)[n] \notin level[MaxDepth - n]}
<1> SUFFICES ASSUME T # {} PROVE FALSE
  OBVIOUS
<1>1. PICK m \in T : \A k \in T : m <= k
  <2>1. T \subseteq Nat
    BY <1>0
  <2> HIDE DEF T
  <2>. QED
    BY <2>1, LeastNumber
<1>2. m \in 0..Len(p) /\ Along(e, p)[m] \notin level[MaxDepth - m]
  BY <1>1
<1>3. CASE m = 0
  <2>1. MaxDepth - m = MaxDepth
    BY <1>0, <1>3
  <2>2. Along(e, p)[m] = e
    BY <1>3, AlongIs
  <2>. QED
    BY <1>2, <2>1, <2>2
<1>4. CASE m # 0
  <2>1. m \in 1..Len(p) /\ p[m] \in 1..MaxJoined
    BY <1>0, <1>2, <1>4, PlaceIs
  <2>2. Along(e, p)[m] = Unwrap(Along(e, p)[m - 1], p[m])
    BY <2>1, AlongIs
  <2>3. Along(e, p)[m - 1] \in level[MaxDepth - (m - 1)]
    <3>1. m - 1 \in 0..Len(p) /\ m - 1 \notin T
      <4> HIDE DEF T
      <4>. QED
        BY <1>0, <1>1, <2>1
    <3>. QED
      BY <3>1
  <2> DEFINE d == MaxDepth - (m - 1)
  <2>4. d \in 1..MaxDepth /\ MaxDepth - m = d - 1
    BY <1>0, <2>1
  <2> HIDE DEF d
  <2>5. Unwrap(Along(e, p)[m - 1], p[m]) \in level[d - 1]
    BY <2>1, <2>3, <2>4 DEF Stratifies, d
  <2>. QED
    BY <1>2, <2>2, <2>4, <2>5
<1>. QED
  BY <1>3, <1>4

(* So that whatever the levels say of every error holds in the tree.       *)
LEMMA StratifiedIsShaped ==
  ASSUME NEW e, NEW level, Stratifies(level), e \in level[MaxDepth]
  PROVE  Shaped(e)
<1> SUFFICES ASSUME NEW p \in Places
             PROVE  /\ At(e, p).status \in Nat
                    /\ Len(At(e, p).kids) \in 0..MaxJoined
                    /\ Len(p) = MaxDepth => Len(At(e, p).kids) = 0
  BY DEF Shaped
<1>0. Len(p) \in 0..MaxDepth /\ MaxDepth \in Nat
  BY PlaceIs, ShapeAssumption
<1>1. At(e, p) \in level[MaxDepth - Len(p)]
  <2>1. Len(p) \in 0..Len(p)
    BY <1>0
  <2>. QED
    BY <2>1, LevelDown DEF At
<1> DEFINE d == MaxDepth - Len(p)
<1>2. d \in 0..MaxDepth /\ (Len(p) = MaxDepth => d = 0)
  BY <1>0
<1> HIDE DEF d
<1>. QED
  BY <1>1, <1>2 DEF Stratifies, d

(* Every error in Trees is shaped so.                                      *)
LEMMA TreesShaped == \A e \in Trees : Shaped(e)
<1>0. MaxDepth \in Nat /\ MaxJoined \in Nat \ {0} /\ Statuses \subseteq Nat
  BY ShapeAssumption, StatusesAssumption
<1>1. PICK f : /\ f[0] = Leaves /\ Trees = f[MaxDepth]
               /\ \A d \in 1..MaxDepth : f[d] = Above(f[d - 1])
  BY TreesIs
<1>2. \A d \in 0..MaxDepth : Err("nil", <<>>) \in f[d]
  <2> SUFFICES ASSUME NEW d \in 0..MaxDepth PROVE Err("nil", <<>>) \in f[d]
    OBVIOUS
  <2>1. Err("nil", <<>>) \in Leaves
    BY DEF Leaves
  <2>2. CASE d = 0
    BY <1>1, <2>1, <2>2
  <2>3. CASE d # 0
    <3>1. d \in 1..MaxDepth
      BY <1>0, <2>3
    <3>2. f[d] = Above(f[d - 1])
      BY <1>1, <3>1
    <3>. QED
      BY <2>1, <3>2 DEF Above
  <2>. QED
    BY <2>2, <2>3
<1>3. \A x \in Leaves : x.status \in Nat /\ Len(x.kids) = 0
  BY <1>0 DEF Leaves, Err, ClientError
<1>4. ASSUME NEW S, NEW x \in Above(S)
      PROVE  /\ x.status \in Nat /\ Len(x.kids) \in 0..MaxJoined
             /\ \A i \in 1..MaxJoined : i <= Len(x.kids) => x.kids[i] \in S
  <2>1. CASE x \in Leaves
    BY <1>0, <1>3, <2>1
  <2>2. CASE \E e \in S : x = Err("wrap", <<e>>)
    BY <1>0, <2>2 DEF Err
  <2>3. CASE \E n \in 1..MaxJoined : \E kids \in [1..n -> S] : x = Err("join", kids)
    <3>1. PICK n \in 1..MaxJoined : \E kids \in [1..n -> S] : x = Err("join", kids)
      BY <2>3
    <3>2. PICK kids \in [1..n -> S] : x = Err("join", kids)
      BY <3>1
    <3>3. n \in Nat /\ kids \in Seq(S)
      BY <1>0, <3>2
    <3>4. Len(kids) = n
      BY <3>2, <3>3
    <3>. QED
      BY <1>0, <3>2, <3>4 DEF Err
  <2>4. CASE \E s \in Statuses, e \in S : x = ClientError(s, <<>>, <<e>>)
    BY <1>0, <2>4 DEF ClientError
  <2>5. CASE x \in {Err("join", kids) : kids \in UNION {[1..n -> S] : n \in 1..MaxJoined}}
    <3>1. PICK kids \in UNION {[1..n -> S] : n \in 1..MaxJoined} : x = Err("join", kids)
      BY <2>5
    <3>. QED
      BY <2>3, <3>1
  <2>6. CASE x \in {Err("wrap", <<e>>) : e \in S}
    BY <2>2, <2>6
  <2>7. CASE x \in {ClientError(s, <<>>, <<e>>) : s \in Statuses, e \in S}
    BY <2>4, <2>7
  <2> DEFINE wraps == {Err("wrap", <<e>>) : e \in S}
             joins == {Err("join", kids) : kids \in UNION {[1..n -> S] : n \in 1..MaxJoined}}
             causes == {ClientError(s, <<>>, <<e>>) : s \in Statuses, e \in S}
  <2>8. Above(S) = Leaves \cup wraps \cup joins \cup causes
    BY DEF Above
  <2> HIDE DEF wraps, joins, causes
  <2>9. x \in Leaves \/ x \in wraps \/ x \in joins \/ x \in causes
    BY <2>8
  <2>. QED
    BY <2>1, <2>5, <2>6, <2>7, <2>9 DEF wraps, joins, causes
<1>5. Stratifies(f)
  <2>1. ASSUME NEW d \in 1..MaxDepth, NEW x \in f[d], NEW i \in 1..MaxJoined
        PROVE  Unwrap(x, i) \in f[d - 1]
    <3>1. x \in Above(f[d - 1]) /\ d - 1 \in 0..MaxDepth
      BY <1>0, <1>1
    <3>. QED
      BY <1>2, <1>4, <3>1 DEF Unwrap
  <2>2. ASSUME NEW d \in 0..MaxDepth, NEW x \in f[d]
        PROVE  x.status \in Nat /\ Len(x.kids) \in 0..MaxJoined
    <3>1. CASE d = 0
      BY <1>0, <1>1, <1>3, <3>1
    <3>2. CASE d # 0
      <4>1. d \in 1..MaxDepth
        BY <1>0, <3>2
      <4>2. x \in Above(f[d - 1])
        BY <1>1, <4>1
      <4>. QED
        BY <1>4, <4>2
    <3>. QED
      BY <3>1, <3>2
  <2>3. \A x \in f[0] : Len(x.kids) = 0
    BY <1>1, <1>3
  <2>. QED
    BY <2>1, <2>2, <2>3 DEF Stratifies
<1>. QED
  BY <1>1, <1>5, StratifiedIsShaped

-----------------------------------------------------------------------------
(* The walk.                                                               *)

(* What stands in the last k levels of e's tree.                           *)
Deep(e, k) == {At(e, p) : p \in {q \in Places : Len(q) >= MaxDepth - k}}

(* w is the walk over those, as Walk defines it over all.                  *)
Walks(w, e, k) ==
  w = [t \in Deep(e, k) |->
         IF t.kind = "client" THEN <<ErrorObject(t)>> ELSE AppendEach(w, t.kids)]

(* The errors one wraps stand one level further down.                      *)
LEMMA KidsDeeper ==
  ASSUME NEW e, Shaped(e), NEW k \in 0..MaxDepth, NEW t \in Deep(e, k)
  PROVE  /\ Len(t.kids) \in Nat
         /\ k = 0 => Len(t.kids) = 0
         /\ \A n \in 1..Len(t.kids) : k - 1 \in 0..MaxDepth /\ t.kids[n] \in Deep(e, k - 1)
<1>0. MaxDepth \in Nat /\ MaxJoined \in Nat
  BY ShapeAssumption
<1>1. PICK p \in Places : Len(p) >= MaxDepth - k /\ t = At(e, p)
  BY DEF Deep
<1>2. Len(p) \in 0..MaxDepth
  BY PlaceIs
<1>3. Len(t.kids) \in 0..MaxJoined /\ (Len(p) = MaxDepth => Len(t.kids) = 0)
  BY <1>1 DEF Shaped
<1>4. k = 0 => Len(p) = MaxDepth
  BY <1>0, <1>1, <1>2
<1>5. ASSUME NEW n \in 1..Len(t.kids)
      PROVE  k - 1 \in 0..MaxDepth /\ t.kids[n] \in Deep(e, k - 1)
  <2>1. Len(p) < MaxDepth /\ n \in 1..MaxJoined /\ n <= Len(t.kids) /\ k # 0
    BY <1>0, <1>2, <1>3, <1>4
  <2>2. /\ Append(p, n) \in Places /\ Len(Append(p, n)) = Len(p) + 1
        /\ At(e, Append(p, n)) = t.kids[n]
    BY <1>1, <2>1, OneBelow DEF Unwrap
  <2> DEFINE q == Append(p, n)
  <2> HIDE DEF q
  <2>3. q \in Places /\ Len(q) = Len(p) + 1 /\ At(e, q) = t.kids[n]
    BY <2>2 DEF q
  <2>4. Len(q) >= MaxDepth - (k - 1) /\ k - 1 \in 0..MaxDepth
    BY <1>0, <1>1, <1>2, <2>1, <2>3
  <2>. QED
    BY <2>3, <2>4 DEF Deep
<1>. QED
  BY <1>0, <1>3, <1>4, <1>5

(* There is such a walk over any number of levels.                         *)
LEMMA WalksExists ==
  ASSUME NEW e, Shaped(e), NEW k \in 0..MaxDepth
  PROVE  \E w : Walks(w, e, k)
<1>0. MaxDepth \in Nat
  BY ShapeAssumption
<1> DEFINE T == {d \in 0..MaxDepth : ~\E w : Walks(w, e, d)}
<1> SUFFICES ASSUME T # {} PROVE FALSE
  OBVIOUS
<1>1. PICK m \in T : \A d \in T : m <= d
  <2>1. T \subseteq Nat
    BY <1>0
  <2> HIDE DEF T
  <2>. QED
    BY <2>1, LeastNumber
<1>2. m \in 0..MaxDepth /\ ~\E w : Walks(w, e, m)
  BY <1>1
<1> DEFINE body(w, t) == IF t.kind = "client" THEN <<ErrorObject(t)>> ELSE AppendEach(w, t.kids)
<1>3. PICK v : m = 0 \/ Walks(v, e, m - 1)
  <2>1. CASE m = 0
    BY <2>1
  <2>2. CASE m # 0
    <3>1. m - 1 \in 0..MaxDepth /\ m - 1 \notin T
      <4> HIDE DEF T
      <4>. QED
        BY <1>0, <1>1, <1>2, <2>2
    <3>. QED
      BY <3>1
  <2>. QED
    BY <2>1, <2>2
<1> DEFINE g == [t \in Deep(e, m) |-> body(v, t)]
<1>4. ASSUME NEW t \in Deep(e, m) PROVE g[t] = body(g, t)
  <2>1. g[t] = body(v, t)
    OBVIOUS
  <2>2. ASSUME NEW n \in 1..Len(t.kids) PROVE v[t.kids[n]] = g[t.kids[n]]
    <3> DEFINE x == t.kids[n]
    <3>1. m # 0 /\ x \in Deep(e, m - 1)
      <4>1. n \in Nat /\ Len(t.kids) # 0
        BY <1>2, KidsDeeper
      <4>. QED
        BY <1>2, <4>1, KidsDeeper
    <3>2. x \in Deep(e, m)
      <4>1. PICK p \in Places : Len(p) >= MaxDepth - (m - 1) /\ x = At(e, p)
        BY <3>1 DEF Deep
      <4>2. Len(p) >= MaxDepth - m
        BY <1>0, <1>2, <4>1, PlaceIs
      <4>. QED
        BY <4>1, <4>2 DEF Deep
    <3> HIDE DEF x
    <3>3. g[x] = body(v, x)
      BY <3>2
    <3>4. v[x] = body(v, x)
      <4>1. Walks(v, e, m - 1)
        BY <1>3, <3>1
      <4>2. v = [y \in Deep(e, m - 1) |-> body(v, y)]
        BY <4>1 DEF Walks
      <4> HIDE DEF body
      <4>. QED
        BY <3>1, <4>2
    <3>. QED
      BY <3>3, <3>4 DEF x
  <2>3. Len(t.kids) \in Nat
    BY <1>2, KidsDeeper
  <2> HIDE DEF g
  <2>4. AppendEach(v, t.kids) = AppendEach(g, t.kids)
    BY <2>2, <2>3, AppendEachSame
  <2>. QED
    BY <2>1, <2>4
<1>5. g = [t \in Deep(e, m) |-> body(g, t)]
  <2> HIDE DEF body
  <2>. QED
    BY <1>4
<1>6. Walks(g, e, m)
  <2> HIDE DEF g
  <2>. QED
    BY <1>5 DEF Walks
<1>. QED
  BY <1>2, <1>6

(* So Walk is what its definition says at every error of the tree.         *)
LEMMA WalkIs ==
  ASSUME NEW e, Shaped(e), NEW t \in Subtrees(e)
  PROVE  Walk(e)[t] = IF t.kind = "client" THEN <<ErrorObject(t)>>
                      ELSE AppendEach(Walk(e), t.kids)
<1>0. MaxDepth \in 0..MaxDepth /\ MaxDepth \in Nat
  BY ShapeAssumption
<1>1. Deep(e, MaxDepth) = Subtrees(e)
  <2>1. \A q \in Places : Len(q) >= MaxDepth - MaxDepth
    BY <1>0, PlaceIs
  <2>. QED
    BY <2>1 DEF Deep, Subtrees
<1> DEFINE w == CHOOSE x : Walks(x, e, MaxDepth)
<1>2. Walks(w, e, MaxDepth)
  BY <1>0, WalksExists
<1>3. Walk(e) = w
  BY <1>1, Zenon DEF Walk, Walks
<1> HIDE DEF w
<1> DEFINE body(x) == IF x.kind = "client" THEN <<ErrorObject(x)>> ELSE AppendEach(w, x.kids)
<1>4. w = [x \in Subtrees(e) |-> body(x)]
  BY <1>1, <1>2 DEF Walks
<1>5. w[t] = body(t)
  <2> HIDE DEF body
  <2>. QED
    BY <1>4
<1>. QED
  BY <1>3, <1>5

-----------------------------------------------------------------------------
(* What the walk reports.                                                  *)

(* q is the places the objects are reported of.                            *)
ReportedAt(q, objects, e, places) ==
  /\ q \in [1..Len(objects) -> places]
  /\ \A p \in places : \E i \in 1..Len(objects) : q[i] = p
  /\ \A i, j \in 1..Len(objects) : i < j => Before(q[i], q[j])
  /\ \A i \in 1..Len(objects) : objects[i] = ErrorObject(At(e, q[i]))

(* Reports names them.                                                     *)
LEMMA ReportsIs ==
  ASSUME NEW objects, NEW e, NEW places
  PROVE  Reports(objects, e, places) <=> \E q : ReportedAt(q, objects, e, places)
  BY Zenon DEF Reports, ReportedAt

(* No object reports no place.                                             *)
LEMMA ReportsNone ==
  ASSUME NEW e
  PROVE  Reports(<<>>, e, {})
<1> DEFINE q == [i \in 1..0 |-> 0]
<1>1. ReportedAt(q, <<>>, e, {})
  BY DEF ReportedAt
<1>. QED
  BY <1>1, ReportsIs

(* One object reports one place.                                           *)
LEMMA ReportsOne ==
  ASSUME NEW e, NEW p
  PROVE  Reports(<<ErrorObject(At(e, p))>>, e, {p})
<1> DEFINE q == [i \in 1..1 |-> p]
           o == ErrorObject(At(e, p))
<1> HIDE DEF o
<1>1. Len(<<o>>) = 1 /\ <<o>>[1] = o
  OBVIOUS
<1>2. \A i \in 1..1 : i = 1
  OBVIOUS
<1>3. q \in [1..Len(<<o>>) -> {p}] /\ q[1] = p
  BY <1>1
<1> HIDE DEF q
<1>4. ReportedAt(q, <<o>>, e, {p})
  <2>1. \A x \in {p} : \E i \in 1..Len(<<o>>) : q[i] = x
    BY <1>1, <1>3
  <2>2. \A i, j \in 1..Len(<<o>>) : i < j => Before(q[i], q[j])
    BY <1>1
  <2>3. \A i \in 1..Len(<<o>>) : <<o>>[i] = ErrorObject(At(e, q[i]))
    BY <1>1, <1>2, <1>3, Zenon DEF o
  <2>. QED
    BY <1>3, <2>1, <2>2, <2>3 DEF ReportedAt
<1>. QED
  BY <1>4, ReportsIs DEF o

(* What reports some places, and then what reports places to their right.  *)
LEMMA ReportsBoth ==
  ASSUME NEW e, NEW X, NEW s \in Seq(X), NEW t \in Seq(X), NEW A, NEW B,
         Reports(s, e, A), Reports(t, e, B),
         \A a \in A, b \in B : Before(a, b)
  PROVE  Reports(s \o t, e, A \cup B)
<1>1. PICK q : ReportedAt(q, s, e, A)
  BY ReportsIs
<1>2. PICK r : ReportedAt(r, t, e, B)
  BY ReportsIs
<1> DEFINE m == Len(s)
           n == Len(t)
           u == s \o t
           both == [i \in 1..(m + n) |-> IF i <= m THEN q[i] ELSE r[i - m]]
<1>3. /\ m \in Nat /\ n \in Nat /\ Len(u) = m + n
      /\ \A i \in 1..m : u[i] = s[i]
      /\ \A i \in (m + 1)..(m + n) : u[i] = t[i - m]
  OBVIOUS
<1>4. /\ \A i \in 1..m : both[i] = q[i]
      /\ \A i \in (m + 1)..(m + n) : both[i] = r[i - m] /\ i - m \in 1..n
      /\ \A i \in 1..n : both[i + m] = r[i] /\ i + m \in (m + 1)..(m + n)
  <2>0. m \in Nat /\ n \in Nat
    BY <1>3
  <2> HIDE DEF m, n
  <2>. QED
    BY <2>0
<1>5. /\ \A i \in 1..m : q[i] \in A /\ s[i] = ErrorObject(At(e, q[i]))
      /\ \A p \in A : \E i \in 1..m : q[i] = p
      /\ \A i, j \in 1..m : i < j => Before(q[i], q[j])
  BY <1>1 DEF ReportedAt
<1>6. /\ \A i \in 1..n : r[i] \in B /\ t[i] = ErrorObject(At(e, r[i]))
      /\ \A p \in B : \E i \in 1..n : r[i] = p
      /\ \A i, j \in 1..n : i < j => Before(r[i], r[j])
  BY <1>2 DEF ReportedAt
<1>7. \A i \in 1..(m + n) : i \in 1..m \/ i \in (m + 1)..(m + n)
  BY <1>3
<1>8. \A i \in 1..(m + n) : both[i] \in A \cup B
  BY <1>4, <1>5, <1>6, <1>7
<1>9. both \in [1..(m + n) -> A \cup B]
  <2> HIDE DEF m, n
  <2>. QED
    BY <1>8
<1> HIDE DEF both, u, m, n
<1>10. \A p \in A \cup B : \E i \in 1..(m + n) : both[i] = p
  <2>1. ASSUME NEW p \in A PROVE \E i \in 1..(m + n) : both[i] = p
    <3>1. PICK i \in 1..m : q[i] = p
      BY <1>5
    <3>2. i \in 1..(m + n)
      BY <1>3
    <3>. QED
      BY <1>4, <3>1, <3>2
  <2>2. ASSUME NEW p \in B PROVE \E i \in 1..(m + n) : both[i] = p
    <3>1. PICK i \in 1..n : r[i] = p
      BY <1>6
    <3>2. i + m \in 1..(m + n)
      BY <1>3
    <3>. QED
      BY <1>4, <3>1, <3>2
  <2>. QED
    BY <2>1, <2>2
<1>11. ASSUME NEW i \in 1..(m + n), NEW j \in 1..(m + n), i < j
       PROVE  Before(both[i], both[j])
  <2>1. CASE i \in 1..m /\ j \in 1..m
    BY <1>4, <1>5, <1>11, <2>1
  <2>2. CASE i \in 1..m /\ j \in (m + 1)..(m + n)
    BY <1>4, <1>5, <1>6, <2>2
  <2>3. CASE i \in (m + 1)..(m + n) /\ j \in (m + 1)..(m + n)
    <3>1. i - m \in 1..n /\ j - m \in 1..n /\ i - m < j - m
      BY <1>3, <1>11, <2>3
    <3>. QED
      BY <1>4, <1>6, <2>3, <3>1
  <2>4. ~(i \in (m + 1)..(m + n) /\ j \in 1..m)
    BY <1>3, <1>11
  <2>. QED
    BY <1>7, <2>1, <2>2, <2>3, <2>4
<1>12. ASSUME NEW i \in 1..(m + n) PROVE u[i] = ErrorObject(At(e, both[i]))
  <2>1. CASE i \in 1..m
    BY <1>3, <1>4, <1>5, <2>1
  <2>2. CASE i \in (m + 1)..(m + n)
    BY <1>3, <1>4, <1>6, <2>2
  <2>. QED
    BY <1>7, <2>1, <2>2
<1>13. ReportedAt(both, u, e, A \cup B)
  BY <1>3, <1>9, <1>10, <1>11, <1>12 DEF ReportedAt
<1>. QED
  BY <1>13, ReportsIs DEF u

(* What is owed of place p and below it.                                   *)
Under(e, p) ==
  {r \in Places : /\ Len(p) <= Len(r) /\ \A k \in 1..Len(p) : r[k] = p[k]
                  /\ At(e, r).kind = "client"
                  /\ \A n \in Len(p)..(Len(r) - 1) : Along(e, r)[n].kind # "client"}

(* Of a place with a ClientError, that one.                                *)
LEMMA UnderClient ==
  ASSUME NEW e, NEW p \in Places, At(e, p).kind = "client"
  PROVE  Under(e, p) = {p}
<1>0. Len(p) \in Nat
  BY PlaceIs, ShapeAssumption
<1>1. p \in Under(e, p)
  BY <1>0 DEF Under
<1>2. ASSUME NEW r \in Under(e, p) PROVE r = p
  <2>1. /\ r \in Places /\ Len(p) <= Len(r) /\ Len(r) \in Nat
        /\ \A k \in 1..Len(p) : r[k] = p[k]
        /\ \A n \in Len(p)..(Len(r) - 1) : Along(e, r)[n].kind # "client"
    BY PlaceIs, ShapeAssumption DEF Under
  <2>2. Along(e, r)[Len(p)] = At(e, p)
    <3>1. Len(p) \in 0..Len(r)
      BY <1>0, <2>1
    <3>. QED
      BY <1>0, <2>1, <3>1, AlongPrefix DEF At
  <2>3. Len(r) = Len(p)
    <3>1. CASE Len(p) < Len(r)
      <4>1. Len(p) \in Len(p)..(Len(r) - 1)
        BY <1>0, <2>1, <3>1
      <4>. QED
        BY <2>1, <2>2, <4>1
    <3>. QED
      BY <1>0, <2>1, <3>1
  <2>4. r \in [1..Len(p) -> 1..MaxJoined] /\ p \in [1..Len(p) -> 1..MaxJoined]
    BY <2>1, <2>3, PlaceIs
  <2>. QED
    BY <2>1, <2>4
<1>. QED
  BY <1>1, <1>2

(* Of another place, what is owed of the errors it wraps.                  *)
LEMMA UnderOther ==
  ASSUME NEW e, Shaped(e), NEW p \in Places, At(e, p).kind # "client"
  PROVE  /\ Len(At(e, p).kids) \in 0..MaxJoined
         /\ Len(At(e, p).kids) # 0 => Len(p) < MaxDepth
         /\ Under(e, p) = UNION {Under(e, Append(p, i)) : i \in 1..Len(At(e, p).kids)}
<1> DEFINE x == At(e, p)
           m == Len(x.kids)
<1>0. /\ Len(p) \in Nat /\ Len(p) <= MaxDepth /\ MaxDepth \in Nat
      /\ MaxJoined \in Nat
  BY PlaceIs, ShapeAssumption
<1>1. m \in 0..MaxJoined /\ (m # 0 => Len(p) < MaxDepth)
  BY <1>0 DEF Shaped
<1>2. ASSUME NEW r \in Under(e, p)
      PROVE  \E i \in 1..m : r \in Under(e, Append(p, i))
  <2>1. /\ r \in Places /\ Len(p) <= Len(r) /\ Len(r) \in Nat
        /\ \A k \in 1..Len(p) : r[k] = p[k]
        /\ At(e, r).kind = "client"
        /\ \A n \in Len(p)..(Len(r) - 1) : Along(e, r)[n].kind # "client"
    BY PlaceIs, ShapeAssumption DEF Under
  <2>2. Along(e, r)[Len(p)] = x
    <3>1. Len(p) \in 0..Len(r)
      BY <1>0, <2>1
    <3>. QED
      BY <1>0, <2>1, <3>1, AlongPrefix DEF At
  <2>3. Len(r) # Len(p)
    BY <2>1, <2>2 DEF At
  <2>4. Len(p) + 1 \in 1..Len(r) /\ Len(p) \in 0..Len(r)
    BY <1>0, <2>1, <2>3
  <2> DEFINE i == r[Len(p) + 1]
  <2>5. i \in 1..MaxJoined
    BY <2>1, <2>4, PlaceIs
  <2>6. i <= m
    <3> SUFFICES ASSUME ~(i <= m) PROVE FALSE
      OBVIOUS
    <3>1. Along(e, r)[Len(p) + 1] = Err("nil", <<>>)
      <4>1. Along(e, r)[Len(p) + 1] = Unwrap(Along(e, r)[Len(p) + 1 - 1], r[Len(p) + 1])
        BY <2>1, <2>4, AlongIs
      <4>2. Len(p) + 1 - 1 = Len(p)
        BY <1>0
      <4>. QED
        BY <2>2, <4>1, <4>2 DEF Unwrap
    <3>2. At(e, r) = Err("nil", <<>>)
      <4>1. CASE Len(r) = Len(p) + 1
        BY <3>1, <4>1 DEF At
      <4>2. CASE Len(r) # Len(p) + 1
        <5> DEFINE n == Len(p) + 1
        <5>1. n \in 0..Len(r) /\ Len(r) \in (n + 1)..Len(r)
          BY <1>0, <2>1, <2>4, <4>2
        <5>2. Len(Along(e, r)[n].kids) = 0
          BY <3>1 DEF Err
        <5> HIDE DEF n
        <5>. QED
          BY <2>1, <5>1, <5>2, NilBelow DEF At
      <4>. QED
        BY <4>1, <4>2
    <3>. QED
      BY <2>1, <3>2 DEF Err
  <2>7. i \in 1..m
    BY <1>0, <1>1, <2>5, <2>6
  <2>8. Len(p) < MaxDepth
    BY <1>0, <1>1, <2>7
  <2>9. /\ Len(Append(p, i)) = Len(p) + 1
        /\ \A k \in 1..Len(p) : Append(p, i)[k] = p[k]
        /\ Append(p, i)[Len(p) + 1] = i
    BY <2>5, <2>8, OneBelow
  <2> DEFINE q == Append(p, i)
  <2> HIDE DEF q
  <2>10. Len(q) <= Len(r) /\ \A k \in 1..Len(q) : r[k] = q[k]
    <3>1. Len(q) = Len(p) + 1
      BY <2>9 DEF q
    <3>2. ASSUME NEW k \in 1..Len(q) PROVE r[k] = q[k]
      <4>1. CASE k = Len(p) + 1
        BY <2>9, <4>1 DEF q
      <4>2. CASE k # Len(p) + 1
        <5>1. k \in 1..Len(p)
          BY <1>0, <3>1, <4>2
        <5>. QED
          BY <2>1, <2>9, <5>1 DEF q
      <4>. QED
        BY <4>1, <4>2
    <3>. QED
      BY <1>0, <2>4, <3>1, <3>2
  <2>11. \A n \in Len(q)..(Len(r) - 1) : n \in Len(p)..(Len(r) - 1)
    BY <1>0, <2>1, <2>9 DEF q
  <2>12. r \in Under(e, q)
    BY <2>1, <2>10, <2>11 DEF Under
  <2>. QED
    BY <2>7, <2>12 DEF q
<1>3. ASSUME NEW i \in 1..m, NEW r \in Under(e, Append(p, i))
      PROVE  r \in Under(e, p)
  <2>0. Len(p) < MaxDepth /\ i \in 1..MaxJoined
    BY <1>0, <1>1
  <2> DEFINE q == Append(p, i)
  <2>1. /\ Len(q) = Len(p) + 1 /\ q \in Places
        /\ \A k \in 1..Len(p) : q[k] = p[k]
    BY <2>0, OneBelow
  <2> HIDE DEF q
  <2>2. /\ r \in Places /\ Len(q) <= Len(r) /\ Len(r) \in Nat
        /\ \A k \in 1..Len(q) : r[k] = q[k]
        /\ At(e, r).kind = "client"
        /\ \A n \in Len(q)..(Len(r) - 1) : Along(e, r)[n].kind # "client"
    BY PlaceIs, ShapeAssumption DEF Under, q
  <2>3. Len(p) <= Len(r) /\ \A k \in 1..Len(p) : r[k] = p[k]
    BY <1>0, <2>1, <2>2
  <2>4. Along(e, r)[Len(p)] = x
    <3>1. Len(p) \in 0..Len(r)
      BY <1>0, <2>2, <2>3
    <3>. QED
      BY <1>0, <2>2, <2>3, <3>1, AlongPrefix DEF At
  <2>5. ASSUME NEW n \in Len(p)..(Len(r) - 1) PROVE Along(e, r)[n].kind # "client"
    <3>1. CASE n = Len(p)
      BY <2>4, <3>1
    <3>2. CASE n # Len(p)
      <4>1. n \in Len(q)..(Len(r) - 1)
        BY <1>0, <2>1, <2>2, <3>2
      <4>. QED
        BY <2>2, <4>1
    <3>. QED
      BY <3>1, <3>2
  <2>. QED
    BY <2>2, <2>3, <2>5 DEF Under
<1>4. Under(e, p) = UNION {Under(e, Append(p, i)) : i \in 1..m}
  BY <1>2, <1>3
<1>. QED
  BY <1>1, <1>4

(* The objects that can come of a tree.                                    *)
ObjectsOf(e) == {ErrorObject(t) : t \in Subtrees(e)}

(* What the walk appends at a place is what is owed of it.                 *)
Accounts(e, p) ==
  /\ Walk(e)[At(e, p)] \in Seq(ObjectsOf(e))
  /\ Reports(Walk(e)[At(e, p)], e, Under(e, p))

(* It is so of a place if it is so of those one step below.                *)
LEMMA AccountsStep ==
  ASSUME NEW e, Shaped(e), NEW p \in Places,
         Len(p) < MaxDepth => \A i \in 1..MaxJoined : Accounts(e, Append(p, i))
  PROVE  Accounts(e, p)
<1> DEFINE x == At(e, p)
           m == Len(x.kids)
           W == Walk(e)
           O == ObjectsOf(e)
<1>1. x \in Subtrees(e) /\ ErrorObject(x) \in O
  BY DEF Subtrees, ObjectsOf
<1>2. W[x] = IF x.kind = "client" THEN <<ErrorObject(x)>> ELSE AppendEach(W, x.kids)
  BY <1>1, WalkIs
<1>3. CASE x.kind = "client"
  <2>1. W[x] = <<ErrorObject(x)>>
    BY <1>2, <1>3
  <2>2. Under(e, p) = {p}
    BY <1>3, UnderClient
  <2>3. Reports(<<ErrorObject(x)>>, e, {p})
    BY ReportsOne
  <2> HIDE DEF x, W, O
  <2>4. <<ErrorObject(x)>> \in Seq(O)
    BY <1>1
  <2>. QED
    BY <2>1, <2>2, <2>3, <2>4 DEF Accounts, x, W, O
<1>4. CASE x.kind # "client"
  <2>1. /\ m \in 0..MaxJoined
        /\ m # 0 => Len(p) < MaxDepth
        /\ Under(e, p) = UNION {Under(e, Append(p, i)) : i \in 1..m}
    BY <1>4, UnderOther
  <2>2. m \in Nat /\ MaxJoined \in Nat
    BY <2>1, ShapeAssumption
  <2>3. PICK f : /\ f[0] = <<>>
                 /\ \A n \in 1..m : f[n] = f[n - 1] \o W[x.kids[n]]
                 /\ AppendEach(W, x.kids) = f[m]
    <3> HIDE DEF W, x
    <3>1. PICK kids : kids = x.kids
      OBVIOUS
    <3>2. Len(kids) \in Nat
      BY <2>2, <3>1
    <3>3. \E f : /\ f[0] = <<>>
                 /\ \A n \in 1..Len(kids) : f[n] = f[n - 1] \o W[kids[n]]
                 /\ AppendEach(W, kids) = f[Len(kids)]
      BY <3>2, AppendEachIs
    <3>. QED
      BY <3>1, <3>3
  <2>4. ASSUME NEW i \in 1..m
        PROVE  /\ Len(p) < MaxDepth /\ i \in 1..MaxJoined
               /\ W[x.kids[i]] \in Seq(O)
               /\ Reports(W[x.kids[i]], e, Under(e, Append(p, i)))
    <3>1. Len(p) < MaxDepth /\ i \in 1..MaxJoined /\ i <= m
      <4>1. m \in 0..MaxJoined /\ m \in Nat /\ MaxJoined \in Nat
            /\ (m # 0 => Len(p) < MaxDepth)
        BY <2>1, <2>2
      <4> HIDE DEF m
      <4>. QED
        BY <4>1
    <3>2. At(e, Append(p, i)) = x.kids[i]
      BY <3>1, OneBelow DEF Unwrap
    <3>3. Accounts(e, Append(p, i))
      BY <3>1
    <3>. QED
      BY <3>1, <3>2, <3>3 DEF Accounts
  <2> DEFINE upto(n) == UNION {Under(e, Append(p, i)) : i \in 1..n}
             good(n) == f[n] \in Seq(O) /\ Reports(f[n], e, upto(n))
             T == {n \in 0..m : ~good(n)}
  <2> HIDE DEF x, m, W, O
  <2>5. CASE T # {}
    <3>1. PICK n \in T : \A k \in T : n <= k
      <4>1. T \subseteq Nat
        BY <2>2
      <4> HIDE DEF T
      <4>. QED
        BY <2>5, <4>1, LeastNumber
    <3>2. n \in 0..m /\ ~good(n)
      BY <3>1
    <3>3. CASE n = 0
      <4>1. upto(0) = {}
        OBVIOUS
      <4>2. f[0] \in Seq(O)
        BY <2>3
      <4> HIDE DEF upto
      <4>. QED
        BY <2>3, <3>2, <3>3, <4>1, <4>2, ReportsNone
    <3>4. CASE n # 0
      <4>1. n \in 1..m /\ n - 1 \in 0..m /\ n - 1 \notin T
        <5> HIDE DEF T, good
        <5>. QED
          BY <2>2, <3>1, <3>2, <3>4
      <4>2. good(n - 1)
        <5> HIDE DEF good
        <5>. QED
          BY <4>1
      <4> DEFINE B == Under(e, Append(p, n))
                 s == f[n - 1]
                 t == W[x.kids[n]]
      <4>3. t \in Seq(O) /\ Reports(t, e, B)
        BY <2>4, <4>1
      <4>4. ASSUME NEW a \in upto(n - 1), NEW b \in B PROVE Before(a, b)
        <5>0. Len(p) \in Nat
          BY PlaceIs, ShapeAssumption
        <5>1. PICK i \in 1..(n - 1) : a \in Under(e, Append(p, i))
          OBVIOUS
        <5>2. i \in 1..m /\ i < n /\ i \in Nat /\ n \in Nat
          BY <2>2, <4>1
        <5> DEFINE at == Len(p) + 1
        <5>3. /\ Len(Append(p, i)) = at /\ Append(p, i)[at] = i
              /\ \A k \in 1..Len(p) : Append(p, i)[k] = p[k]
          BY <2>4, <5>2, OneBelow
        <5>4. /\ Len(Append(p, n)) = at /\ Append(p, n)[at] = n
              /\ \A k \in 1..Len(p) : Append(p, n)[k] = p[k]
          BY <2>4, <4>1, OneBelow
        <5>5. at \in 1..at /\ \A k \in 1..(at - 1) : k \in 1..Len(p) /\ k \in 1..at
          BY <5>0
        <5>6. a \in Places /\ b \in Places /\ at <= Len(a) /\ at <= Len(b)
          BY <5>1, <5>3, <5>4 DEF Under
        <5>7. /\ \A k \in 1..at : a[k] = Append(p, i)[k]
              /\ \A k \in 1..at : b[k] = Append(p, n)[k]
          BY <5>1, <5>3, <5>4 DEF Under
        <5>8. a[at] < b[at] /\ \A k \in 1..(at - 1) : a[k] = b[k]
          <6> HIDE DEF at
          <6>. QED
            BY <5>2, <5>3, <5>4, <5>5, <5>7
        <5>9. at \in 1..Len(a)
          <6>1. Len(a) \in Nat
            BY <5>6, PlaceIs, ShapeAssumption
          <6>. QED
            BY <5>0, <5>6, <6>1
        <5> HIDE DEF at
        <5>. QED
          BY <5>6, <5>8, <5>9 DEF Before
      <4>5. upto(n) = upto(n - 1) \cup B
        <5>1. \A i \in 1..n : i \in 1..(n - 1) \/ i = n
          BY <4>1
        <5>2. n \in 1..n /\ \A i \in 1..(n - 1) : i \in 1..n
          BY <4>1
        <5>. QED
          BY <5>1, <5>2
      <4>6. f[n] = s \o t
        BY <2>3, <4>1
      <4>7. s \in Seq(O) /\ Reports(s, e, upto(n - 1))
        BY <4>2
      <4> HIDE DEF upto, B, s, t
      <4>8. s \o t \in Seq(O)
        BY <4>3, <4>7
      <4>9. Reports(s \o t, e, upto(n - 1) \cup B)
        BY <4>3, <4>4, <4>7, ReportsBoth
      <4>. QED
        BY <3>2, <4>5, <4>6, <4>8, <4>9
    <3>. QED
      BY <3>3, <3>4
  <2>6. CASE T = {}
    <3>1. m \in 0..m
      BY <2>2
    <3>2. good(m)
      <4> HIDE DEF good
      <4>. QED
        BY <2>6, <3>1
    <3>. QED
      BY <1>2, <1>4, <2>1, <2>3, <3>2 DEF Accounts, x, W, O
  <2>. QED
    BY <2>5, <2>6
<1>. QED
  BY <1>3, <1>4

(* So it is of every place, from the last level up.                        *)
LEMMA AllAccounted ==
  ASSUME NEW e, Shaped(e)
  PROVE  \A p \in Places : Accounts(e, p)
<1>0. MaxDepth \in Nat
  BY ShapeAssumption
<1> DEFINE T == {d \in 0..MaxDepth : \E p \in Places : Len(p) = MaxDepth - d /\ ~Accounts(e, p)}
<1>1. CASE T # {}
  <2>1. PICK d \in T : \A k \in T : d <= k
    <3>1. T \subseteq Nat
      BY <1>0
    <3> HIDE DEF T
    <3>. QED
      BY <1>1, <3>1, LeastNumber
  <2>2. PICK p \in Places : Len(p) = MaxDepth - d /\ ~Accounts(e, p)
    BY <2>1
  <2>3. ASSUME Len(p) < MaxDepth, NEW i \in 1..MaxJoined PROVE Accounts(e, Append(p, i))
    <3>1. Append(p, i) \in Places /\ Len(Append(p, i)) = Len(p) + 1
      BY <2>3, OneBelow
    <3>2. d \in 0..MaxDepth /\ Len(p) \in 0..MaxDepth
      BY <2>1, PlaceIs
    <3>3. d - 1 \in 0..MaxDepth /\ Len(p) + 1 = MaxDepth - (d - 1)
      BY <1>0, <2>2, <2>3, <3>2
    <3>4. d - 1 \notin T
      <4> HIDE DEF T
      <4>. QED
        BY <2>1, <3>2, <3>3
    <3>. QED
      BY <3>1, <3>3, <3>4
  <2>. QED
    BY <2>2, <2>3, AccountsStep
<1>2. CASE T = {}
  <2> SUFFICES ASSUME NEW p \in Places PROVE Accounts(e, p)
    OBVIOUS
  <2> DEFINE d == MaxDepth - Len(p)
  <2>1. d \in 0..MaxDepth /\ Len(p) = MaxDepth - d
    BY <1>0, PlaceIs
  <2> HIDE DEF d
  <2>. QED
    BY <1>2, <2>1
<1>. QED
  BY <1>1, <1>2

(* The root is a place.                                                    *)
LEMMA RootIs ==
  ASSUME NEW e
  PROVE  /\ <<>> \in Places /\ Len(<<>>) = 0 /\ At(e, <<>>) = e /\ e \in Subtrees(e)
         /\ Under(e, <<>>) = Owed(e)
<1>0. MaxDepth \in Nat
  BY ShapeAssumption
<1>1. <<>> \in [1..0 -> 1..MaxJoined] /\ 0 \in 0..MaxDepth
  BY <1>0
<1>2. <<>> \in Places
  BY <1>1 DEF Places
<1>3. At(e, <<>>) = e
  BY <1>2, AlongIs DEF At
<1>4. e \in Subtrees(e)
  BY <1>2, <1>3 DEF Subtrees
<1>5. \A r \in Places : Len(r) \in Nat
  BY PlaceIs, ShapeAssumption
<1>6. Under(e, <<>>) = Owed(e)
  BY <1>5 DEF Under, Owed
<1>. QED
  BY <1>2, <1>3, <1>4, <1>6

(* What WriteError collects is what is owed of the error.                  *)
LEMMA CollectedIsOwed ==
  ASSUME NEW e, Shaped(e)
  PROVE  /\ AppendClientErrors(<<>>, e) = Walk(e)[e]
         /\ AppendClientErrors(<<>>, e) \in Seq(ObjectsOf(e))
         /\ Reports(AppendClientErrors(<<>>, e), e, Owed(e))
<1>1. Walk(e)[e] \in Seq(ObjectsOf(e)) /\ Reports(Walk(e)[e], e, Owed(e))
  BY AllAccounted, RootIs DEF Accounts
<1>2. AppendClientErrors(<<>>, e) = Walk(e)[e]
  BY <1>1 DEF AppendClientErrors
<1>. QED
  BY <1>1, <1>2

-----------------------------------------------------------------------------
(* The endpoint.                                                           *)

(* A handler that takes no body may find any tree, one that accepted its   *)
(* body a single error: those are shaped.                                  *)
LEMMA FailsShaped == \A e \in Trees \cup Leaves : Shaped(e)
<1>1. PICK f : /\ f[0] = Leaves /\ Trees = f[MaxDepth]
               /\ \A d \in 1..MaxDepth : f[d] = Above(f[d - 1])
  BY TreesIs
<1>2. MaxDepth \in 1..MaxDepth
  BY ShapeAssumption
<1>3. Trees = Above(f[MaxDepth - 1])
  BY <1>1, <1>2
<1>4. Leaves \subseteq Trees
  BY <1>3 DEF Above
<1>. QED
  BY <1>4, TreesShaped

(* The ClientError DecodeJSON returns.                                     *)
Rejection(s, f) == ClientError(s, DecodePointer(f), <<Err("plain", <<>>)>>)

(* It is shaped, as it is or wrapped.                                      *)
LEMMA RejectionShaped ==
  ASSUME NEW s \in Nat, NEW f,
         NEW e \in {Rejection(s, f), Err("wrap", <<Rejection(s, f)>>)}
  PROVE  Shaped(e)
<1> DEFINE c == Rejection(s, f)
           nil == Err("nil", <<>>)
           plain == Err("plain", <<>>)
           wrap == Err("wrap", <<c>>)
           level == [d \in 0..MaxDepth |-> IF d = MaxDepth THEN {wrap, c}
                                           ELSE IF d = MaxDepth - 1 THEN {c, plain, nil}
                                           ELSE {plain, nil}]
<1>0. MaxDepth \in Nat /\ MaxDepth > 1 /\ MaxJoined \in Nat /\ MaxJoined > 0
  BY ShapeAssumption
<1>1. /\ c.status \in Nat /\ c.kids = <<plain>>
      /\ nil.status = 0 /\ nil.kids = <<>>
      /\ plain.status = 0 /\ plain.kids = <<>>
  BY DEF Rejection, ClientError, Err
<1>2. wrap.status = 0 /\ wrap.kids = <<c>>
  <2> HIDE DEF c
  <2>. QED
    BY DEF Err
<1> HIDE DEF c, nil, plain, wrap
<1>3. /\ c.status \in Nat /\ Len(c.kids) = 1 /\ c.kids[1] = plain
      /\ nil.status \in Nat /\ Len(nil.kids) = 0
      /\ plain.status \in Nat /\ Len(plain.kids) = 0
      /\ wrap.status \in Nat /\ Len(wrap.kids) = 1 /\ wrap.kids[1] = c
  BY <1>1, <1>2
<1>4. ASSUME NEW i \in 1..MaxJoined
      PROVE  /\ Unwrap(nil, i) = nil /\ Unwrap(plain, i) = nil
             /\ Unwrap(c, i) \in {plain, nil} /\ Unwrap(wrap, i) \in {c, nil}
  <2>1. i \in Nat /\ i > 0 /\ (i <= 1 => i = 1)
    BY <1>0
  <2>. QED
    BY <1>3, <2>1 DEF Unwrap, nil
<1>5. /\ level[MaxDepth] = {wrap, c}
      /\ level[MaxDepth - 1] = {c, plain, nil}
      /\ \A d \in 0..(MaxDepth - 2) : level[d] = {plain, nil}
      /\ MaxDepth - 2 \in 0..(MaxDepth - 2) /\ 0 \in 0..(MaxDepth - 2)
  BY <1>0
<1>6. \A d \in 0..MaxDepth : d = MaxDepth \/ d = MaxDepth - 1 \/ d \in 0..(MaxDepth - 2)
  BY <1>0
<1> HIDE DEF level
<1>7. ASSUME NEW d \in 1..MaxDepth, NEW x \in level[d], NEW i \in 1..MaxJoined
      PROVE  Unwrap(x, i) \in level[d - 1]
  <2>1. CASE d = MaxDepth
    BY <1>4, <1>5, <2>1
  <2>2. CASE d = MaxDepth - 1
    <3>1. d - 1 \in 0..(MaxDepth - 2)
      BY <1>0, <2>2
    <3>. QED
      BY <1>4, <1>5, <2>2, <3>1
  <2>3. CASE d \in 0..(MaxDepth - 2)
    <3>1. d - 1 \in 0..(MaxDepth - 2)
      BY <1>0, <2>3
    <3>. QED
      BY <1>4, <1>5, <2>3, <3>1
  <2>4. d \in 0..MaxDepth
    BY <1>0
  <2>. QED
    BY <1>6, <2>1, <2>2, <2>3, <2>4
<1>8. \A d \in 0..MaxDepth : \A x \in level[d] : x \in {wrap, c, plain, nil}
  BY <1>5, <1>6
<1>9. \A x \in {wrap, c, plain, nil} : x.status \in Nat /\ Len(x.kids) \in 0..MaxJoined
  <2>1. 0 \in 0..MaxJoined /\ 1 \in 0..MaxJoined
    BY <1>0
  <2>. QED
    BY <1>3, <2>1, Zenon
<1>10. Stratifies(level)
  <2>1. \A x \in level[0] : x = plain \/ x = nil
    BY <1>5
  <2>2. \A x \in level[0] : Len(x.kids) = 0
    BY <1>3, <2>1, Zenon
  <2>3. \A d \in 0..MaxDepth : \A x \in level[d] : x.status \in Nat /\ Len(x.kids) \in 0..MaxJoined
    BY <1>8, <1>9, Zenon
  <2>4. \A d \in 1..MaxDepth : \A x \in level[d], i \in 1..MaxJoined : Unwrap(x, i) \in level[d - 1]
    BY <1>7, Zenon
  <2>. QED
    BY <2>2, <2>3, <2>4, Zenon DEF Stratifies
<1>11. e \in level[MaxDepth]
  BY <1>5 DEF c, wrap
<1>. QED
  BY <1>10, <1>11, StratifiedIsShaped

(* What an error wraps is part of its tree.                                *)
LEMMA WrappedBelow ==
  ASSUME NEW e, NEW x, e.kids = <<x>>
  PROVE  x \in Subtrees(e)
<1>1. PICK root \in Places : Len(root) = 0 /\ At(e, root) = e
  BY RootIs
<1>2. PICK i \in 1..MaxJoined : i = 1
  BY ShapeAssumption
<1>3. Len(root) < MaxDepth
  BY <1>1, ShapeAssumption
<1>4. Append(root, i) \in Places /\ At(e, Append(root, i)) = Unwrap(At(e, root), i)
  BY <1>3, OneBelow
<1>5. Unwrap(e, i) = x
  BY <1>2 DEF Unwrap
<1>. QED
  BY <1>1, <1>4, <1>5 DEF Subtrees

(* And is all there is to tell the client.                                 *)
LEMMA RejectionReported ==
  ASSUME NEW s \in Nat, NEW f,
         NEW e \in {Rejection(s, f), Err("wrap", <<Rejection(s, f)>>)}
  PROVE  AppendClientErrors(<<>>, e) = <<ErrorObject(Rejection(s, f))>>
<1> DEFINE c == Rejection(s, f)
           W == Walk(e)
           o == <<ErrorObject(c)>>
<1>1. Shaped(e) /\ e \in Subtrees(e)
  BY RejectionShaped, RootIs
<1>2. c.kind = "client"
  BY DEF Rejection, ClientError
<1> HIDE DEF c
<1>3. CASE e = c
  <2>1. W[e] = o
    BY <1>1, <1>2, <1>3, WalkIs
  <2>. QED
    BY <1>1, <2>1, CollectedIsOwed DEF c
<1>4. CASE e = Err("wrap", <<c>>)
  <2>1. e.kind = "wrap" /\ e.kids = <<c>>
    BY <1>4 DEF Err
  <2>2. c \in Subtrees(e)
    BY <2>1, WrappedBelow
  <2>3. W[c] = o
    BY <1>1, <1>2, <2>2, WalkIs
  <2>4. W[e] = AppendEach(W, e.kids)
    BY <1>1, <2>1, WalkIs
  <2>5. PICK kids : kids = e.kids
    OBVIOUS
  <2>6. Len(kids) = 1 /\ Len(kids) \in Nat /\ kids[1] = c
    BY <2>1, <2>5
  <2> HIDE DEF W, o
  <2>7. PICK g : /\ g[0] = <<>>
                 /\ \A n \in 1..Len(kids) : g[n] = g[n - 1] \o W[kids[n]]
                 /\ AppendEach(W, kids) = g[Len(kids)]
    BY <2>6, AppendEachIs
  <2>8. g[1] = <<>> \o o
    <3>1. 1 \in 1..Len(kids) /\ 1 - 1 = 0
      BY <2>6
    <3>2. g[1] = g[1 - 1] \o W[kids[1]]
      BY <2>7, <3>1, Zenon
    <3>. QED
      BY <2>3, <2>6, <2>7, <3>1, <3>2
  <2>9. <<>> \o o = o
    BY DEF o
  <2>10. W[e] = o
    BY <2>4, <2>5, <2>6, <2>7, <2>8, <2>9
  <2>. QED
    BY <1>1, <2>10, CollectedIsOwed DEF c, W, o
<1>. QED
  BY <1>3, <1>4 DEF c

(* What the handler and the response owe to each other.                    *)
Handled ==
  /\ fault = NoFault \/ fault \in Faults
  /\ err = NoError \/ Shaped(err)
  /\ fault # NoFault =>
       \E s \in Nat : err \in {Rejection(s, fault), Err("wrap", <<Rejection(s, fault)>>)}
  /\ \/ response = NoResponse
     \/ /\ err = NoError /\ result = "ok"
        /\ response \in {InternalError, [status |-> 200, objects |-> <<>>]}
     \/ err # NoError /\ response = ErrorResponse(err)

(* Before the handler is called.                                           *)
LEMMA HandledInit == ApiInit => Handled
  BY DEF ApiInit, Handled

(* What DecodeJSON returned is passed on.                                  *)
LEMMA RejectKeeps ==
  ASSUME Handled, Reject
  PROVE  Handled'
<1> DEFINE s == StatusOf(result)
           c == ClientError(s, DecodePointer(fault'), <<Err("plain", <<>>)>>)
<1>1. /\ result \in {"400", "413", "415"} /\ err = NoError
      /\ fault' \in Faults \cup {NoFault}
      /\ err' \in {c, Err("wrap", <<c>>)}
      /\ UNCHANGED <<vars, response>>
  BY DEF Reject
<1>2. s \in Nat
  <2>1. result = "400" => s = 400
    BY DEF StatusOf
  <2>2. result = "413" => s = 413
    BY DEF StatusOf
  <2>3. result = "415" => s = 415
    BY DEF StatusOf
  <2> HIDE DEF s
  <2>. QED
    BY <1>1, <2>1, <2>2, <2>3
<1> HIDE DEF s
<1>3. err' \in {Rejection(s, fault'), Err("wrap", <<Rejection(s, fault')>>)}
  BY <1>1 DEF Rejection
<1>4. Shaped(err)'
  <2>1. \A e \in {Rejection(s, fault'), Err("wrap", <<Rejection(s, fault')>>)} : Shaped(e)
    BY <1>2, RejectionShaped
  <2>. QED
    BY <1>3, <2>1 DEF Shaped
<1>5. response = NoResponse
  <2>1. result # "ok"
    BY <1>1
  <2>. QED
    BY <1>1, <2>1 DEF Handled
<1>6. response' = NoResponse
  BY <1>1, <1>5 DEF NoResponse
<1>. QED
  BY <1>1, <1>2, <1>3, <1>4, <1>6 DEF Handled

(* The handler fails by itself.                                            *)
LEMMA FailKeeps ==
  ASSUME Handled, Fail
  PROVE  Handled'
<1>1. /\ err = NoError /\ response = NoResponse
      /\ err' \in Trees \cup Leaves
      /\ UNCHANGED <<vars, fault, response>>
  BY DEF Fail
<1>2. fault = NoFault
  <2>1. \A s \in Nat : NoError \notin {Rejection(s, fault), Err("wrap", <<Rejection(s, fault)>>)}
    <3> SUFFICES ASSUME NEW s \in Nat
                 PROVE  NoError \notin {Rejection(s, fault), Err("wrap", <<Rejection(s, fault)>>)}
      OBVIOUS
    <3> DEFINE c == Rejection(s, fault)
    <3>1. NoError.kind = "none"
      BY DEF NoError, Err
    <3>2. c.kind = "client"
      BY DEF Rejection, ClientError
    <3> HIDE DEF c
    <3>3. Err("wrap", <<c>>).kind = "wrap"
      BY DEF Err
    <3>. QED
      BY <3>1, <3>2, <3>3 DEF c
  <2>. QED
    BY <1>1, <2>1 DEF Handled
<1>3. Shaped(err)'
  <2>1. \A e \in Trees \cup Leaves : Shaped(e)
    BY FailsShaped
  <2>. QED
    BY <1>1, <2>1 DEF Shaped
<1>4. fault' = NoFault /\ response' = NoResponse
  BY <1>1, <1>2 DEF NoFault, NoResponse
<1>. QED
  BY <1>3, <1>4 DEF Handled

(* WriteError answers with the document of the error.                      *)
LEMMA WriteErrorKeeps ==
  ASSUME Handled, WriteError
  PROVE  Handled'
  BY DEF Handled, WriteError

(* WriteJSON answers a handler that has no error.                          *)
LEMMA WriteJSONKeeps ==
  ASSUME Handled, WriteJSON
  PROVE  Handled'
<1>1. /\ result = "ok" /\ err = NoError
      /\ response' \in {InternalError, [status |-> 200, objects |-> <<>>]}
      /\ UNCHANGED <<vars, fault, err>>
  BY DEF WriteJSON
<1>2. result' = result
  BY <1>1 DEF vars
<1>. QED
  BY <1>1, <1>2 DEF Handled

(* Decoding touches neither; nothing else happens before it is over.       *)
LEMMA DecodeStepKeeps ==
  ASSUME Handled, DecodeStep
  PROVE  Handled'
<1>1. response = NoResponse /\ UNCHANGED <<fault, err, response>>
  BY DEF DecodeStep, apiVars
<1>2. response' = NoResponse
  BY <1>1 DEF NoResponse
<1>. QED
  BY <1>1, <1>2 DEF Handled

(* Nor does a stutter.                                                     *)
LEMMA StutterKeeps ==
  ASSUME Handled, UNCHANGED <<vars, apiVars>>
  PROVE  Handled'
<1>1. UNCHANGED <<fault, err, response, result>>
  BY DEF vars, apiVars
<1>. QED
  BY <1>1 DEF Handled

-----------------------------------------------------------------------------
(* What follows of a response.                                             *)

(* Every error owed is in the document, in order.                          *)
LEMMA HandledReported == Handled => EveryFailureReported
<1> SUFFICES ASSUME Handled, response # NoResponse, Owed(err) # {}
             PROVE  Reports(response.objects, err, Owed(err))
  BY DEF EveryFailureReported
<1>1. err # NoError
  <2> SUFFICES ASSUME err = NoError PROVE FALSE
    OBVIOUS
  <2>1. PICK p \in Places : At(err, p).kind = "client"
    BY DEF Owed
  <2>2. Len(p) \in Nat /\ 0 \in 0..Len(p) /\ Along(err, p)[0] = err
    BY AlongIs, PlaceIs, ShapeAssumption
  <2>3. Len(err.kids) = 0 /\ err.kind = "none"
    BY DEF NoError, Err
  <2>4. \A m \in (0 + 1)..Len(p) : Along(err, p)[m] = Err("nil", <<>>)
    BY <2>2, <2>3, NilBelow
  <2>5. CASE Len(p) = 0
    BY <2>1, <2>2, <2>3, <2>5 DEF At
  <2>6. CASE Len(p) # 0
    <3>1. Len(p) \in (0 + 1)..Len(p)
      BY <2>2, <2>6
    <3>2. At(err, p) = Err("nil", <<>>)
      BY <2>4, <3>1 DEF At
    <3>. QED
      BY <2>1, <3>2 DEF Err
  <2>. QED
    BY <2>5, <2>6
<1>2. Shaped(err) /\ response = ErrorResponse(err)
  BY <1>1 DEF Handled
<1> DEFINE found == AppendClientErrors(<<>>, err)
<1>3. Reports(found, err, Owed(err))
  BY <1>2, CollectedIsOwed
<1>4. found # <<>>
  <2>1. PICK q : ReportedAt(q, found, err, Owed(err))
    BY <1>3, ReportsIs
  <2>2. \E i : i \in 1..Len(found)
    BY <2>1 DEF ReportedAt
  <2> HIDE DEF found
  <2>. QED
    BY <2>2
<1>5. response.objects = found
  BY <1>2, <1>4 DEF ErrorResponse
<1>. QED
  BY <1>3, <1>5

(* A status contradicts none of its objects, those of the statuses in all. *)
Fits(status, all) ==
  /\ status \in 400..499 <=> all \subseteq 400..499
  /\ \A s \in Nat : all = {s} => status = s
  /\ status \in all \cup {400, 500}

(* The status for objects of the statuses in all, the first's among them.  *)
LEMMA OneStatus ==
  ASSUME NEW all, NEW first \in all, \A s \in all : s \in Nat, NEW status,
         status = IF all = {first} THEN first
                  ELSE IF \E s \in all : s < 400 \/ s >= 500 THEN 500 ELSE 400
  PROVE  Fits(status, all)
<1> USE DEF Fits
<1>1. CASE all = {first}
  BY <1>1
<1>2. CASE all # {first}
  <2>1. \A s : all # {s}
    BY <1>2
  <2>2. CASE \E s \in all : s < 400 \/ s >= 500
    <3>1. status = 500
      BY <1>2, <2>2, Zenon
    <3>2. \E s \in all : s \notin 400..499
      BY <2>2
    <3>3. status \notin 400..499 /\ ~(all \subseteq 400..499)
      BY <3>1, <3>2
    <3>. QED
      BY <2>1, <3>1, <3>3, Zenon
  <2>3. CASE ~\E s \in all : s < 400 \/ s >= 500
    <3>1. status = 400
      BY <1>2, <2>3, Zenon
    <3>2. \A s \in all : s \in 400..499
      BY <2>3
    <3>3. status \in 400..499 /\ all \subseteq 400..499
      BY <3>1, <3>2
    <3>. QED
      BY <2>1, <3>1, <3>3, Zenon
  <2>. QED
    BY <2>2, <2>3
<1>. QED
  BY <1>1, <1>2

(* A document's status fits objects with statuses of any value.            *)
LEMMA StatusFits ==
  ASSUME NEW n \in Nat \ {0}, NEW objects, NEW X, objects \in Seq(X), Len(objects) = n,
         \A o \in X : o.status \in Nat
  PROVE  Fits(DocumentStatus(objects), {o.status : o \in ToSet(objects)})
<1> DEFINE all == {o.status : o \in ToSet(objects)}
           first == objects[1].status
<1>1. objects # <<>> /\ 1 \in 1..Len(objects)
  BY EmptySeq
<1>2. \A i \in 1..Len(objects) : objects[i] \in X /\ objects[i] \in ToSet(objects)
  BY DEF ToSet
<1>3. \A o \in ToSet(objects) : o \in X
  BY DEF ToSet
<1>4. first \in all /\ \A s \in all : s \in Nat
  BY <1>1, <1>2, <1>3
<1>5. DocumentStatus(objects) =
        IF all = {first} THEN first
        ELSE IF \E s \in all : s < 400 \/ s >= 500 THEN 500 ELSE 400
  BY <1>1 DEF DocumentStatus
<1> HIDE DEF all, first
<1>6. Fits(DocumentStatus(objects), all)
  <2>1. PICK S, x, r : S = all /\ x = first /\ r = DocumentStatus(objects)
    OBVIOUS
  <2>2. x \in S /\ \A s \in S : s \in Nat
    BY <1>4, <2>1
  <2>3. r = IF S = {x} THEN x
            ELSE IF \E s \in S : s < 400 \/ s >= 500 THEN 500 ELSE 400
    BY <1>5, <2>1, Zenon
  <2>4. Fits(r, S)
    BY <2>2, <2>3, OneStatus
  <2>. QED
    BY <2>1, <2>4, Zenon
<1>. QED
  BY <1>6 DEF all

(* Which is what is asked of a response.                                   *)
LEMMA FittingFits ==
  ASSUME Fits(response.status, {o.status : o \in ToSet(response.objects)})
  PROVE  StatusFitsObjects
<1> DEFINE all == {o.status : o \in ToSet(response.objects)}
<1>1. /\ response.status \in 400..499 <=> all \subseteq 400..499
      /\ \A s \in Statuses : all = {s} => response.status = s
      /\ response.status \in all \cup {400, 500}
  <2>1. PICK S, r : S = all /\ r = response.status
    OBVIOUS
  <2>2. Fits(r, S)
    BY <2>1, Zenon
  <2> HIDE DEF all
  <2>3. \A s \in Statuses : s \in Nat
    BY StatusesAssumption
  <2>4. /\ r \in 400..499 <=> S \subseteq 400..499
        /\ \A s \in Nat : S = {s} => r = s
        /\ r \in S \cup {400, 500}
    BY <2>2, Zenon DEF Fits
  <2>5. /\ r \in 400..499 <=> S \subseteq 400..499
        /\ \A s \in Statuses : S = {s} => r = s
        /\ r \in S \cup {400, 500}
    BY <2>3, <2>4, Zenon
  <2>6. response.status \in 400..499 <=> all \subseteq 400..499
    <3>1. r \in 400..499 <=> S \subseteq 400..499
      BY <2>5, Zenon
    <3>2. r \in 400..499 <=> response.status \in 400..499
      BY <2>1, Zenon
    <3>3. S \subseteq 400..499 <=> all \subseteq 400..499
      BY <2>1
    <3>. QED
      BY <3>1, <3>2, <3>3
  <2>7. \A s \in Statuses : all = {s} => response.status = s
    BY <2>1, <2>5, Zenon
  <2>8. response.status \in all \cup {400, 500}
    BY <2>1, <2>5
  <2>. QED
    BY <2>6, <2>7, <2>8
<1>. QED
  BY <1>1, Zenon DEF StatusFitsObjects

(* The status of a response fits its objects.                              *)
LEMMA HandledFits == Handled => StatusFitsObjects
<1> SUFFICES ASSUME Handled PROVE StatusFitsObjects
  OBVIOUS
<1> DEFINE found == AppendClientErrors(<<>>, err)
<1>1. CASE response = NoResponse
  BY <1>1 DEF NoResponse, StatusFitsObjects
<1>2. CASE response = [status |-> 200, objects |-> <<>>]
  BY <1>2 DEF StatusFitsObjects
<1>3. ASSUME response = InternalError PROVE StatusFitsObjects
  <2> DEFINE o == ErrorObject(ClientError(500, <<>>, <<>>))
  <2>1. o.status = 500
    BY DEF ErrorObject, ClientError
  <2>2. response.status = 500 /\ response.objects = <<o>>
    BY <1>3 DEF InternalError
  <2> HIDE DEF o
  <2>3. ToSet(<<o>>) = {o}
    BY DEF ToSet
  <2>4. {x.status : x \in ToSet(response.objects)} = {500}
    BY <2>1, <2>2, <2>3
  <2>5. Fits(500, {500})
    BY DEF Fits
  <2>. QED
    BY <2>2, <2>4, <2>5, FittingFits
<1>4. CASE err # NoError /\ response = ErrorResponse(err)
  <2>1. Shaped(err)
    BY <1>4 DEF Handled
  <2>2. found \in Seq(ObjectsOf(err))
    BY <2>1, CollectedIsOwed
  <2>3. CASE found = <<>>
    BY <1>3, <1>4, <2>3 DEF ErrorResponse
  <2>4. CASE found # <<>>
    <3>1. response.status = DocumentStatus(found) /\ response.objects = found
      BY <1>4, <2>4 DEF ErrorResponse
    <3>2. \A o \in ObjectsOf(err) : o.status \in Nat
      <4>1. \A t \in Subtrees(err) : t.status \in Nat
        BY <2>1 DEF Subtrees, Shaped
      <4>. QED
        BY <4>1 DEF ObjectsOf, ErrorObject
    <3> HIDE DEF found
    <3>3. Len(found) \in Nat \ {0}
      BY <2>2, <2>4, EmptySeq
    <3>4. Fits(response.status, {o.status : o \in ToSet(response.objects)})
      BY <2>2, <3>1, <3>2, <3>3, StatusFits
    <3>. QED
      BY <3>4, FittingFits
  <2>. QED
    BY <2>3, <2>4
<1>. QED
  BY <1>1, <1>2, <1>3, <1>4 DEF Handled

(* Where decodePointer points, it points to the member at fault exactly if *)
(* the error told enough to locate it.                                     *)
Points(p, f) ==
  /\ p # <<>> => ((p = f.names /\ f.exact /\ Unescaped(p)) <=> ~Unlocatable(f))
  /\ f.names = <<"plain">> /\ f.exact => p = f.names

LEMMA PointsAtFault ==
  ASSUME NEW f \in Faults
  PROVE  Points(DecodePointer(f), f)
<1> DEFINE last == f.names[Len(f.names)]
           p == DecodePointer(f)
<1>1. CASE f.is = "type"
  <2>1. p = IF Len(f.names) # 1 \/ f.names = <<"dotted">> THEN <<>> ELSE f.names
    BY <1>1, Zenon DEF DecodePointer
  <2>2. f.names = <<"plain">> => p = f.names
    <3>1. f.names = <<"plain">> => Len(f.names) = 1 /\ f.names # <<"dotted">>
      OBVIOUS
    <3>. QED
      BY <2>1, <3>1, Zenon
  <2> HIDE DEF p
  <2>3. p # <<>> => p = f.names
    BY <2>1, Zenon
  <2>. QED
    BY <1>1, <2>2, <2>3 DEF Points, Unlocatable, p
<1>2. CASE f.is = "unknown"
  <2>1. p = IF last \in {"slashed", "empty"} THEN <<>> ELSE <<last>>
    BY <1>2, Zenon DEF DecodePointer
  <2>2. \/ \E n \in Names : f.names = <<n>>
        \/ \E m \in FieldNames, n \in Names : f.names = <<m, n>>
    BY <1>2 DEF Faults
  <2> HIDE DEF p
  <2>3. CASE \E n \in Names : f.names = <<n>>
    <3>1. PICK n \in Names : f.names = <<n>>
      BY <2>3
    <3>2. last = n /\ Len(f.names) = 1
      BY <3>1
    <3>3. p = IF n \in {"slashed", "empty"} THEN <<>> ELSE <<n>>
      BY <2>1, <3>2, Zenon
    <3>4. (p # <<>> => p = f.names) /\ (n = "plain" => p = f.names)
      BY <3>1, <3>3
    <3>5. f.names = <<"plain">> => n = "plain"
      BY <3>1
    <3>. QED
      BY <1>2, <3>2, <3>4, <3>5 DEF Points, Unlocatable, p
  <2>4. CASE \E m \in FieldNames, n \in Names : f.names = <<m, n>>
    <3>1. Len(f.names) = 2
      BY <2>4
    <3>2. f.names # <<"plain">> /\ f.names # <<last>>
      BY <3>1
    <3>3. p = <<>> \/ p = <<last>>
      BY <2>1, Zenon
    <3>4. Unlocatable(f)
      BY <1>2, <3>1 DEF Unlocatable
    <3>. QED
      BY <3>2, <3>3, <3>4 DEF Points, p
  <2>. QED
    BY <2>2, <2>3, <2>4
<1>3. f.is \in {"type", "unknown"}
  BY DEF Faults
<1>. QED
  BY <1>1, <1>2, <1>3

(* So does the response.                                                   *)
LEMMA HandledPoints == Handled => PointerSound
<1> SUFFICES ASSUME Handled, response # NoResponse, fault # NoFault
             PROVE  Points(response.objects[1].pointer, fault)
  BY DEF PointerSound, Points
<1>1. PICK s \in Nat : err \in {Rejection(s, fault), Err("wrap", <<Rejection(s, fault)>>)}
  BY DEF Handled
<1> DEFINE c == Rejection(s, fault)
<1>2. AppendClientErrors(<<>>, err) = <<ErrorObject(c)>>
  BY <1>1, RejectionReported
<1>3. ErrorObject(c).pointer = DecodePointer(fault)
  BY DEF ErrorObject, Rejection, ClientError
<1>4. err # NoError
  <2>1. NoError.kind = "none"
    BY DEF NoError, Err
  <2>2. c.kind = "client"
    BY DEF Rejection, ClientError
  <2> HIDE DEF c
  <2>3. Err("wrap", <<c>>).kind = "wrap"
    BY DEF Err
  <2>. QED
    BY <1>1, <2>1, <2>2, <2>3 DEF c
<1>5. response = ErrorResponse(err)
  BY <1>4 DEF Handled
<1> HIDE DEF c
<1>6. response.objects = <<ErrorObject(c)>>
  <2> DEFINE o == ErrorObject(c)
  <2> HIDE DEF o
  <2>1. AppendClientErrors(<<>>, err) = <<o>> /\ <<o>> # <<>>
    BY <1>2 DEF o
  <2>. QED
    BY <1>5, <2>1 DEF ErrorResponse, o
<1>7. Points(DecodePointer(fault), fault)
  BY PointsAtFault DEF Handled
<1>. QED
  BY <1>3, <1>6, <1>7

-----------------------------------------------------------------------------
(* The theorems about the endpoint.                                        *)

(* Within an endpoint DecodeJSON does nothing JsonBody does not describe:  *)
(* whatever the handler and the response do leaves its state alone.        *)
THEOREM EndpointDecodes == ApiSpec => Spec
<1>1. ApiInit => Init
  BY DEF ApiInit
<1>2. [ApiNext]_<<vars, apiVars>> => [Next]_vars
  BY DEF ApiNext, DecodeStep, Reject, Fail, WriteError, WriteJSON, Answered, Next
<1>. QED
  BY <1>1, <1>2, PTL DEF ApiSpec, Spec

(* So an endpoint, too, accepts exactly the bodies it should.              *)
THEOREM EndpointAcceptedExactly == ApiSpec => []AcceptedExactly
  BY EndpointDecodes, AlwaysAcceptedExactly, PTL

(* What the handler passes to WriteError is an error that can be walked, a *)
(* fault in the body reaches it as the ClientError DecodeJSON made of it,  *)
(* and the response is what WriteError or WriteJSON makes of that.         *)
THEOREM ApiInductive == ApiSpec => []Handled
<1>1. Handled /\ [ApiNext]_<<vars, apiVars>> => Handled'
  <2> SUFFICES ASSUME Handled, [ApiNext]_<<vars, apiVars>> PROVE Handled'
    OBVIOUS
  <2>1. CASE DecodeStep
    BY <2>1, DecodeStepKeeps
  <2>2. CASE Reject
    BY <2>2, RejectKeeps
  <2>3. CASE Fail
    BY <2>3, FailKeeps
  <2>4. CASE WriteError
    BY <2>4, WriteErrorKeeps
  <2>5. CASE WriteJSON
    BY <2>5, WriteJSONKeeps
  <2>6. CASE Answered \/ UNCHANGED <<vars, apiVars>>
    BY <2>6, StutterKeeps DEF Answered
  <2>. QED
    BY <2>1, <2>2, <2>3, <2>4, <2>5, <2>6 DEF ApiNext
<1>. QED
  BY <1>1, HandledInit, PTL DEF ApiSpec

(* Every failure a handler reports, in an error joined of any number of    *)
(* others and wrapped to any depth, reaches the client exactly once and in *)
(* the order it was joined, and the cause of none does.                    *)
THEOREM AlwaysEveryFailureReported == ApiSpec => []EveryFailureReported
  BY ApiInductive, HandledReported, PTL

(* No response has a status its objects contradict, however many there are.*)
THEOREM AlwaysStatusFitsObjects == ApiSpec => []StatusFitsObjects
  BY ApiInductive, HandledFits, PTL

(* A pointer in a response locates the member at fault exactly if the      *)
(* decode error told enough to locate it.                                  *)
THEOREM AlwaysPointerSound == ApiSpec => []PointerSound
  BY ApiInductive, HandledPoints, PTL
=============================================================================
