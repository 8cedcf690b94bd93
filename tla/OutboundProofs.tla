--------------------------- MODULE OutboundProofs ---------------------------
(***************************************************************************)
(* Proofs about Outbound: any number of calls and connections, and every   *)
(* setting of the pool.                                                    *)
(*                                                                         *)
(* The pool's operations are operators on the connections and the calls,   *)
(* so what they keep is stated of any such pair, once, and every action    *)
(* that uses one cites it.                                                 *)
(***************************************************************************)
EXTENDS Outbound, FiniteSetTheorems, TLAPS

-----------------------------------------------------------------------------
(* The inductive invariant.                                                *)

ConnStates == {Free, Idle} \cup [st : {"dial", "tls", "busy"}, for : Calls]
CallStates == {"new", "wait", "sent", "body", "ok", "err"}

Typed(cn, ca) == cn \in [Conns -> ConnStates] /\ ca \in [Calls -> CallStates]

(* Among the connections S, a call that needs one has one, its own.        *)
Paired(cn, ca, S) ==
  \A c \in Calls :
    /\ ca[c] \in {"sent", "body"} <=> \E k \in S : cn[k] = Busy(c)
    /\ \A k, l \in S : cn[k] = Busy(c) /\ cn[l] = Busy(c) => k = l

(* The bounds of the settings p.                                           *)
Bounded(cn, p) ==
  /\ IsFiniteSet(Open(cn))
  /\ p["MaxConnsPerHost"] > 0 => Cardinality(Open(cn)) <= p["MaxConnsPerHost"]
  /\ p["MaxIdleConns"] > 0 => Cardinality(IdleIn(cn)) <= p["MaxIdleConns"]
  /\ p["MaxIdleConnsPerHost"] > 0 => Cardinality(IdleIn(cn)) <= p["MaxIdleConnsPerHost"]

Quiet(cn, closed) == closed => IdleIn(cn) = {}

Good(cn, ca, p, closed) ==
  Typed(cn, ca) /\ Paired(cn, ca, Conns) /\ Bounded(cn, p) /\ Quiet(cn, closed)

(* What every call has told its peer.                                      *)
ToldInv ==
  \A c \in Calls : call[c] # "new" =>
    told[c] = Told(wired.client, ServerContext(wired.server, inbound))

IInv ==
  /\ cfg \in [Durations \cup Counts -> Int] /\ pool = cfg
  /\ closeIdle \in BOOLEAN /\ retired \in BOOLEAN /\ (retired => closeIdle)
  /\ Good(conn, call, pool, closeIdle)
  /\ inbound \in Inbound /\ wired \in Wirings /\ DOMAIN told = Calls /\ ToldInv

-----------------------------------------------------------------------------
(* Connections, by their state.                                            *)

(* The states a connection can be in differ.                               *)
LEMMA States ==
  /\ Free # Idle
  /\ \A c : Busy(c) # Free /\ Busy(c) # Idle /\ Dial(c) # Free /\ Dial(c) # Idle
  /\ \A c, d : Dial(c) # Busy(d) /\ (Busy(c) = Busy(d) => c = d)
  /\ {Free, Idle} \subseteq ConnStates
  /\ \A c \in Calls : Busy(c) \in ConnStates /\ Dial(c) \in ConnStates
<1>1. /\ Free.st = "none" /\ Idle.st = "idle"
      /\ \A c : Busy(c).st = "busy" /\ Dial(c).st = "dial" /\ Busy(c).for = c
  BY DEF Free, Idle, Busy, Dial
<1>2. \A c \in Calls : Busy(c) \in ConnStates /\ Dial(c) \in ConnStates
  BY DEF ConnStates, Busy, Dial
<1>3. \A c, d : Busy(c) = Busy(d) => c = d
  BY <1>1
<1>. QED
  BY <1>1, <1>2, <1>3 DEF ConnStates

(* A connection being dialled is not free, idle or busy.                   *)
LEMMA DialStates ==
  ASSUME NEW x \in ConnStates, x.st \in {"dial", "tls"}
  PROVE  x # Free /\ x # Idle /\ (\A c : x # Busy(c)) /\ x.for \in Calls
<1>1. x # Free /\ x # Idle /\ (\A c : x # Busy(c))
  <2>1. Free.st = "none" /\ Idle.st = "idle" /\ \A c : Busy(c).st = "busy"
    BY DEF Free, Idle, Busy
  <2>. QED
    BY <2>1
<1>2. x \in [st : {"dial", "tls", "busy"}, for : Calls]
  BY <1>1 DEF ConnStates
<1>. QED
  BY <1>1, <1>2

(* Fewer connections, open or idle, keep every bound.                      *)
LEMMA Shrinks ==
  ASSUME NEW cn, NEW dn, NEW p \in [Durations \cup Counts -> Int],
         Bounded(cn, p), Open(dn) \subseteq Open(cn), IdleIn(dn) \subseteq IdleIn(cn)
  PROVE  Bounded(dn, p)
<1>1. IsFiniteSet(Open(cn)) /\ IsFiniteSet(IdleIn(cn))
  <2>1. IdleIn(cn) \subseteq Open(cn)
    BY States DEF IdleIn, Open
  <2>. QED
    BY <2>1, FS_Subset DEF Bounded
<1>2. /\ IsFiniteSet(Open(dn)) /\ Cardinality(Open(dn)) <= Cardinality(Open(cn))
      /\ Cardinality(IdleIn(dn)) <= Cardinality(IdleIn(cn))
  BY <1>1, FS_Subset
<1>3. /\ Cardinality(Open(dn)) \in Nat /\ Cardinality(Open(cn)) \in Nat
      /\ Cardinality(IdleIn(dn)) \in Nat /\ Cardinality(IdleIn(cn)) \in Nat
  BY <1>1, <1>2, FS_Subset, FS_CardinalityType
<1>4. p["MaxConnsPerHost"] \in Int /\ p["MaxIdleConns"] \in Int
      /\ p["MaxIdleConnsPerHost"] \in Int
  BY DEF Counts
<1>. QED
  BY <1>2, <1>3, <1>4 DEF Bounded

(* An open connection k takes on a state that is not idle.                 *)
LEMMA Retyped ==
  ASSUME NEW cn \in [Conns -> ConnStates], NEW p \in [Durations \cup Counts -> Int],
         NEW closed, NEW k \in Conns, cn[k] # Free, NEW x \in ConnStates, x # Idle,
         Bounded(cn, p), Quiet(cn, closed)
  PROVE  Bounded([cn EXCEPT ![k] = x], p) /\ Quiet([cn EXCEPT ![k] = x], closed)
<1> DEFINE dn == [cn EXCEPT ![k] = x]
<1>1. Open(dn) \subseteq Open(cn) /\ IdleIn(dn) \subseteq IdleIn(cn)
  BY DEF Open, IdleIn
<1>. QED
  BY <1>1, Shrinks DEF Quiet

(* Connection k, not counted, is given to call c.                          *)
LEMMA Assigned ==
  ASSUME NEW cn, NEW ca, Typed(cn, ca), NEW p \in [Durations \cup Counts -> Int],
         NEW closed, NEW k \in Conns, cn[k] # Free, NEW c \in Calls,
         ca[c] \notin {"sent", "body"}, Paired(cn, ca, Conns \ {k}),
         Bounded(cn, p), Quiet(cn, closed)
  PROVE  Good([cn EXCEPT ![k] = Busy(c)], [ca EXCEPT ![c] = "sent"], p, closed)
<1> DEFINE dn == [cn EXCEPT ![k] = Busy(c)]
           da == [ca EXCEPT ![c] = "sent"]
<1>1. Typed(dn, da)
  BY States DEF Typed, CallStates
<1>2. Paired(dn, da, Conns)
  <2> SUFFICES ASSUME NEW d \in Calls
               PROVE  /\ da[d] \in {"sent", "body"} <=> \E l \in Conns : dn[l] = Busy(d)
                      /\ \A l, m \in Conns : dn[l] = Busy(d) /\ dn[m] = Busy(d) => l = m
    BY DEF Paired
  <2>1. dn[k] = Busy(c) /\ \A l \in Conns \ {k} : dn[l] = cn[l]
    BY DEF Typed
  <2>2. da[c] = "sent" /\ (d # c => da[d] = ca[d])
    BY DEF Typed
  <2>3. \A l \in Conns \ {k} : cn[l] # Busy(c)
    BY DEF Paired
  <2>4. /\ ca[d] \in {"sent", "body"} <=> \E l \in Conns \ {k} : cn[l] = Busy(d)
        /\ \A l, m \in Conns \ {k} : cn[l] = Busy(d) /\ cn[m] = Busy(d) => l = m
    BY DEF Paired
  <2> HIDE DEF dn, da
  <2>5. CASE d = c
    BY <2>1, <2>2, <2>3, <2>5
  <2>6. CASE d # c
    <3>1. dn[k] # Busy(d)
      BY <2>1, <2>6, States
    <3>. QED
      BY <2>1, <2>2, <2>4, <2>6, <3>1
  <2>. QED
    BY <2>5, <2>6
<1>3. Bounded(dn, p) /\ Quiet(dn, closed)
  BY Retyped, States DEF Typed
<1>. QED
  BY <1>1, <1>2, <1>3 DEF Good

(* Connection k, not counted, takes a state that serves no call.           *)
LEMMA Unassigned ==
  ASSUME NEW cn, NEW ca, Typed(cn, ca), NEW k \in Conns, NEW x \in ConnStates,
         \A c : x # Busy(c), Paired(cn, ca, Conns \ {k})
  PROVE  Typed([cn EXCEPT ![k] = x], ca) /\ Paired([cn EXCEPT ![k] = x], ca, Conns)
<1> DEFINE dn == [cn EXCEPT ![k] = x]
<1>1. dn[k] = x /\ \A l \in Conns \ {k} : dn[l] = cn[l]
  BY DEF Typed
<1>2. Typed(dn, ca)
  BY DEF Typed
<1> HIDE DEF dn
<1>3. ASSUME NEW c \in Calls
      PROVE  /\ ca[c] \in {"sent", "body"} <=> \E l \in Conns : dn[l] = Busy(c)
             /\ \A l, m \in Conns : dn[l] = Busy(c) /\ dn[m] = Busy(c) => l = m
  <2>1. /\ ca[c] \in {"sent", "body"} <=> \E l \in Conns \ {k} : cn[l] = Busy(c)
        /\ \A l, m \in Conns \ {k} : cn[l] = Busy(c) /\ cn[m] = Busy(c) => l = m
    BY DEF Paired
  <2>. QED
    BY <1>1, <2>1
<1>4. Paired(dn, ca, Conns)
  BY <1>3 DEF Paired
<1>. QED
  BY <1>2, <1>4 DEF dn

(* Closing a connection that serves no call, whoever then gets its slot.   *)
LEMMA CloseGood ==
  ASSUME NEW cn, NEW ca, Typed(cn, ca), NEW p \in [Durations \cup Counts -> Int],
         NEW closed, NEW k \in Conns, cn[k] # Free, Paired(cn, ca, Conns \ {k}),
         Bounded(cn, p), Quiet(cn, closed), NEW o \in Close(cn, ca, k)
  PROVE  Good(o[1], o[2], p, closed)
<1>1. ASSUME NEW x \in {Free} \cup {Dial(c) : c \in Calls}
      PROVE  Good([cn EXCEPT ![k] = x], ca, p, closed)
  <2>1. x \in ConnStates /\ x # Idle /\ \A c : x # Busy(c)
    BY <1>1, States
  <2>2. Typed([cn EXCEPT ![k] = x], ca) /\ Paired([cn EXCEPT ![k] = x], ca, Conns)
    BY <2>1, Unassigned
  <2>3. Bounded([cn EXCEPT ![k] = x], p) /\ Quiet([cn EXCEPT ![k] = x], closed)
    BY <2>1, Retyped DEF Typed
  <2>. QED
    BY <2>2, <2>3 DEF Good
<1>2. \E x \in {Free} \cup {Dial(c) : c \in Calls} : o = <<[cn EXCEPT ![k] = x], ca>>
  BY DEF Close, Waiting
<1>3. PICK x \in {Free} \cup {Dial(c) : c \in Calls} : o = <<[cn EXCEPT ![k] = x], ca>>
  BY <1>2
<1>4. o[1] = [cn EXCEPT ![k] = x] /\ o[2] = ca
  BY <1>3
<1>. QED
  BY <1>1, <1>4

(* A connection that is no longer used: handed on, closed, kept idle       *)
(* within the bounds, or kept while another one is evicted.                *)
LEMMA PutIdleGood ==
  ASSUME NEW cn, NEW ca, Typed(cn, ca), pool \in [Durations \cup Counts -> Int],
         NEW k \in Conns, cn[k] \notin {Free, Idle}, Paired(cn, ca, Conns \ {k}),
         Bounded(cn, pool), closeIdle \in BOOLEAN, Quiet(cn, closeIdle),
         NEW o \in PutIdle(cn, ca, k)
  PROVE  Good(o[1], o[2], pool, closeIdle)
<1> DEFINE kept == [cn EXCEPT ![k] = Idle]
           gone == [cn EXCEPT ![k] = Free]
<1>1. CASE Waiting(ca) # {}
  <2>1. PICK c \in Waiting(ca) : o = <<[cn EXCEPT ![k] = Busy(c)], [ca EXCEPT ![c] = "sent"]>>
    BY <1>1 DEF PutIdle
  <2>2. o[1] = [cn EXCEPT ![k] = Busy(c)] /\ o[2] = [ca EXCEPT ![c] = "sent"]
    BY <2>1
  <2>3. c \in Calls /\ ca[c] \notin {"sent", "body"}
    BY <2>1 DEF Waiting
  <2>. QED
    BY <2>2, <2>3, Assigned
<1>2. CASE o \in Close(cn, ca, k)
  BY <1>2, CloseGood
<1>3. CASE Waiting(ca) = {} /\ o \notin Close(cn, ca, k)
  <2>1. ~closeIdle /\ ~(Cardinality(IdleIn(gone)) >= IdlePerHost)
    BY <1>3 DEF PutIdle
  <2>2. IdleIn(gone) = IdleIn(cn) /\ k \notin IdleIn(cn)
        /\ IdleIn(kept) = IdleIn(cn) \cup {k} /\ Open(kept) = Open(cn)
    BY States DEF Typed, IdleIn, Open
  <2>3. Typed(kept, ca) /\ Paired(kept, ca, Conns)
    BY Unassigned, States
  <2>4. IsFiniteSet(IdleIn(cn)) /\ Cardinality(IdleIn(cn)) \in Nat
        /\ Cardinality(IdleIn(kept)) = Cardinality(IdleIn(cn)) + 1
    <3>1. IdleIn(cn) \subseteq Open(cn)
      BY States DEF IdleIn, Open
    <3>2. IsFiniteSet(IdleIn(cn))
      BY <3>1, FS_Subset DEF Bounded
    <3>. QED
      BY <2>2, <3>2, FS_AddElement, FS_CardinalityType
  <2>5. pool["MaxIdleConns"] \in Int /\ pool["MaxIdleConnsPerHost"] \in Int
    BY DEF Counts
  <2>6. pool["MaxIdleConnsPerHost"] > 0 =>
          Cardinality(IdleIn(kept)) <= pool["MaxIdleConnsPerHost"]
    BY <2>1, <2>2, <2>4, <2>5 DEF IdlePerHost
  <2>7. CASE pool["MaxIdleConns"] # 0 /\ Cardinality(IdleIn(kept)) > pool["MaxIdleConns"]
    <3>1. PICK v \in IdleIn(kept) : o = <<[kept EXCEPT ![v] = Free], ca>>
      BY <1>3, <2>1, <2>7 DEF PutIdle
    <3> DEFINE dn == [kept EXCEPT ![v] = Free]
    <3>2. o[1] = dn /\ o[2] = ca
      BY <3>1
    <3>3. v \in Conns /\ kept[v] = Idle
      BY <3>1 DEF IdleIn
    <3> HIDE DEF kept
    <3>4. Paired(kept, ca, Conns \ {v})
      <4>1. \A c : kept[v] # Busy(c)
        BY <3>3, States
      <4>. QED
        BY <2>3, <3>3, <4>1 DEF Paired
    <3>5. Typed(dn, ca) /\ Paired(dn, ca, Conns)
      BY <2>3, <3>3, <3>4, Unassigned, States
    <3>6. IdleIn(dn) = IdleIn(kept) \ {v} /\ Open(dn) \subseteq Open(kept)
      BY <2>3, <3>3, States DEF Typed, IdleIn, Open
    <3>7. IsFiniteSet(IdleIn(kept)) /\ Cardinality(IdleIn(dn)) = Cardinality(IdleIn(cn))
      <4>1. IsFiniteSet(IdleIn(kept))
        BY <2>2, <2>4, FS_AddElement
      <4>2. Cardinality(IdleIn(dn)) = Cardinality(IdleIn(kept)) - 1
        BY <3>1, <3>6, <4>1, FS_RemoveElement
      <4>. QED
        BY <2>4, <4>1, <4>2
    <3>8. IsFiniteSet(Open(dn)) /\ Cardinality(Open(dn)) <= Cardinality(Open(cn))
          /\ Cardinality(Open(dn)) \in Nat /\ Cardinality(Open(cn)) \in Nat
      BY <2>2, <3>6, FS_Subset, FS_CardinalityType DEF Bounded
    <3>9. pool["MaxConnsPerHost"] \in Int
      BY DEF Counts
    <3>10. Bounded(dn, pool)
      BY <2>4, <2>5, <3>7, <3>8, <3>9 DEF Bounded
    <3>. QED
      BY <2>1, <3>2, <3>5, <3>10 DEF Good, Quiet
  <2>8. CASE ~(pool["MaxIdleConns"] # 0 /\ Cardinality(IdleIn(kept)) > pool["MaxIdleConns"])
    <3>1. o = <<kept, ca>>
      BY <1>3, <2>1, <2>8 DEF PutIdle
    <3>2. o[1] = kept /\ o[2] = ca
      BY <3>1
    <3> HIDE DEF kept
    <3>3. pool["MaxIdleConns"] > 0 => Cardinality(IdleIn(kept)) <= pool["MaxIdleConns"]
      BY <2>4, <2>5, <2>8
    <3>4. Bounded(kept, pool)
      BY <2>2, <2>6, <3>3 DEF Bounded
    <3>. QED
      BY <2>1, <2>3, <3>2, <3>4 DEF Good, Quiet
  <2>. QED
    BY <2>7, <2>8
<1>. QED
  BY <1>1, <1>2, <1>3

(* Neither of the two starts a call that was not made.                     *)
LEMMA NewStays ==
  ASSUME NEW cn, NEW ca \in [Calls -> CallStates], NEW k \in Conns,
         NEW o \in Close(cn, ca, k) \cup PutIdle(cn, ca, k), NEW d \in Calls,
         ca[d] = "new"
  PROVE  o[2][d] = "new"
<1>1. ASSUME NEW x \in Close(cn, ca, k) PROVE x[2] = ca
  <2>1. \E dn : x = <<dn, ca>>
    BY <1>1 DEF Close
  <2>. QED
    BY <2>1
<1>2. CASE o \in Close(cn, ca, k)
  BY <1>1, <1>2
<1>3. CASE Waiting(ca) # {} /\ o \in PutIdle(cn, ca, k)
  <2>1. PICK c \in Waiting(ca) : o = <<[cn EXCEPT ![k] = Busy(c)], [ca EXCEPT ![c] = "sent"]>>
    BY <1>3 DEF PutIdle
  <2>2. o[2] = [ca EXCEPT ![c] = "sent"] /\ ca[c] = "wait"
    BY <2>1 DEF Waiting
  <2>. QED
    BY <2>2
<1>4. CASE Waiting(ca) = {} /\ o \in PutIdle(cn, ca, k) \ Close(cn, ca, k)
  <2>1. \E dn : o = <<dn, ca>>
    BY <1>4 DEF PutIdle
  <2>. QED
    BY <2>1
<1>. QED
  BY <1>2, <1>3, <1>4

-----------------------------------------------------------------------------
(* The actions.                                                            *)

(* A step whose outcomes are all good keeps the invariant.                 *)
LEMMA BecomesKeeps ==
  ASSUME IInv, NEW outcomes, Becomes(outcomes),
         \A o \in outcomes : /\ Good(o[1], o[2], pool, closeIdle)
                             /\ \A d \in Calls : call[d] = "new" => o[2][d] = "new"
  PROVE  IInv'
<1>1. PICK o \in outcomes : conn' = o[1] /\ call' = o[2]
  BY DEF Becomes
<1>2. UNCHANGED <<cfg, pool, inbound, wired, closeIdle, retired, told>>
  BY DEF Becomes, fixed
<1>3. Good(conn', call', pool', closeIdle')
  BY <1>1, <1>2
<1>4. \A d \in Calls : call[d] = "new" => call'[d] = "new"
  BY <1>1
<1>5. Good(conn, call, pool, closeIdle)'
  BY <1>3 DEF Good, Typed, Paired, Bounded, Quiet, Open, IdleIn
<1>6. ToldInv'
  BY <1>2, <1>4 DEF IInv, ToldInv
<1>. QED
  BY <1>2, <1>5, <1>6 DEF IInv

(* What the invariant says, as the actions use it.                         *)
LEMMA Unfolded ==
  ASSUME IInv
  PROVE  /\ Typed(conn, call) /\ Paired(conn, call, Conns) /\ Bounded(conn, pool)
         /\ Quiet(conn, closeIdle) /\ closeIdle \in BOOLEAN
         /\ pool \in [Durations \cup Counts -> Int]
         /\ conn \in [Conns -> ConnStates] /\ call \in [Calls -> CallStates]
  BY DEF IInv, Good, Typed

(* A connection that is not busy is not counted.                           *)
LEMMA NotCounted ==
  ASSUME NEW k \in Conns, Paired(conn, call, Conns), \A c : conn[k] # Busy(c)
  PROVE  Paired(conn, call, Conns \ {k})
  BY DEF Paired

(* Nor is the one a call gives up by ending.                               *)
LEMMA GivenUp ==
  ASSUME IInv, NEW k \in Conns, NEW c \in Calls, conn[k] = Busy(c),
         NEW r \in {"ok", "err"}
  PROVE  /\ Typed(conn, [call EXCEPT ![c] = r])
         /\ Paired(conn, [call EXCEPT ![c] = r], Conns \ {k})
         /\ \A d \in Calls : call[d] = "new" => [call EXCEPT ![c] = r][d] = "new"
<1> DEFINE ca == [call EXCEPT ![c] = r]
<1>1. Typed(conn, call) /\ Paired(conn, call, Conns) /\ call \in [Calls -> CallStates]
  BY Unfolded
<1>2. ca[c] = r /\ \A d \in Calls : d # c => ca[d] = call[d]
  BY <1>1
<1>3. Typed(conn, ca)
  BY <1>1 DEF Typed, CallStates
<1>4. call[c] # "new"
  BY <1>1 DEF Paired
<1> HIDE DEF ca
<1>5. Paired(conn, ca, Conns \ {k})
  <2> SUFFICES ASSUME NEW d \in Calls
               PROVE  /\ ca[d] \in {"sent", "body"} <=>
                           \E l \in Conns \ {k} : conn[l] = Busy(d)
                      /\ \A l, m \in Conns \ {k} :
                           conn[l] = Busy(d) /\ conn[m] = Busy(d) => l = m
    BY DEF Paired
  <2>1. /\ call[d] \in {"sent", "body"} <=> \E l \in Conns : conn[l] = Busy(d)
        /\ \A l, m \in Conns : conn[l] = Busy(d) /\ conn[m] = Busy(d) => l = m
    BY <1>1 DEF Paired
  <2>2. CASE d = c
    BY <1>2, <2>1, <2>2
  <2>3. CASE d # c
    <3>1. conn[k] # Busy(d)
      BY <2>3, States
    <3>. QED
      BY <1>2, <2>1, <2>3, <3>1
  <2>. QED
    BY <2>2, <2>3
<1>6. \A d \in Calls : call[d] = "new" => ca[d] = "new"
  BY <1>2, <1>4
<1>. QED
  BY <1>3, <1>5, <1>6 DEF ca

(* A dial fails: its call, if it still waits, fails with it.               *)
LEMMA DialFailedKeeps ==
  ASSUME IInv, NEW k \in Conns, conn[k].st \in {"dial", "tls"}, DialFailed(k)
  PROVE  IInv'
<1> DEFINE c == conn[k].for
           ca == IF call[c] = "wait" THEN [call EXCEPT ![c] = "err"] ELSE call
<1>1. conn[k] \in ConnStates
  BY Unfolded
<1>2. conn[k] # Free /\ (\A d : conn[k] # Busy(d)) /\ c \in Calls
  BY <1>1, DialStates
<1>3. Typed(conn, ca)
  BY <1>2, Unfolded DEF Typed, CallStates
<1>4. \A d \in Calls : /\ ca[d] \in {"sent", "body"} <=> call[d] \in {"sent", "body"}
                       /\ call[d] = "new" => ca[d] = "new"
  BY <1>2, Unfolded
<1> HIDE DEF ca
<1>5. Paired(conn, ca, Conns \ {k})
  <2>1. Paired(conn, call, Conns \ {k})
    BY <1>2, NotCounted, Unfolded
  <2>. QED
    BY <1>4, <2>1 DEF Paired
<1>6. \A o \in Close(conn, ca, k) : Good(o[1], o[2], pool, closeIdle)
  BY <1>2, <1>3, <1>5, CloseGood, Unfolded
<1>7. \A o \in Close(conn, ca, k) : \A d \in Calls : call[d] = "new" => o[2][d] = "new"
  BY <1>3, <1>4, NewStays DEF Typed
<1>8. Becomes(Close(conn, ca, k))
  BY DEF DialFailed, ca
<1>. QED
  BY <1>6, <1>7, <1>8, BecomesKeeps

(* A call ends.                                                            *)
LEMMA EndKeeps ==
  ASSUME IInv, NEW c \in Calls, call[c] # "new", NEW r \in {"ok", "err"}, End(c, r)
  PROVE  IInv'
<1> DEFINE ca == [call EXCEPT ![c] = r]
           mine == {k \in Conns : conn[k] = Busy(c)}
<1>1. CASE mine = {}
  <2>1. Becomes({<<conn, ca>>})
    BY <1>1 DEF End
  <2>2. call[c] \notin {"sent", "body"}
    BY <1>1, Unfolded DEF Paired
  <2>3. \A d \in Calls : /\ ca[d] \in {"sent", "body"} <=> call[d] \in {"sent", "body"}
                         /\ call[d] = "new" => ca[d] = "new"
    BY <2>2, Unfolded
  <2>4. Typed(conn, ca)
    BY Unfolded DEF Typed, CallStates
  <2> HIDE DEF ca
  <2>5. Paired(conn, ca, Conns)
    BY <2>3, Unfolded DEF Paired
  <2>6. Good(conn, ca, pool, closeIdle)
    BY <2>4, <2>5, Unfolded DEF Good
  <2>7. \A o \in {<<conn, ca>>} : o[1] = conn /\ o[2] = ca
    OBVIOUS
  <2>. QED
    BY <2>1, <2>3, <2>6, <2>7, BecomesKeeps
<1>2. CASE mine # {}
  <2> DEFINE outcomes == UNION {Close(conn, ca, k) : k \in mine}
  <2>1. Becomes(outcomes)
    BY <1>2 DEF End
  <2>2. ASSUME NEW o \in outcomes
        PROVE  /\ Good(o[1], o[2], pool, closeIdle)
               /\ \A d \in Calls : call[d] = "new" => o[2][d] = "new"
    <3>1. PICK k \in mine : o \in Close(conn, ca, k)
      BY <2>2
    <3>2. k \in Conns /\ conn[k] = Busy(c) /\ conn[k] # Free
      BY <3>1, States
    <3>3. /\ Typed(conn, ca) /\ Paired(conn, ca, Conns \ {k})
          /\ \A d \in Calls : call[d] = "new" => ca[d] = "new"
      BY <3>2, GivenUp
    <3> HIDE DEF ca
    <3>4. Good(o[1], o[2], pool, closeIdle)
      BY <3>1, <3>2, <3>3, CloseGood, Unfolded
    <3>. QED
      BY <3>1, <3>2, <3>3, <3>4, NewStays DEF Typed
  <2>. QED
    BY <2>1, <2>2, BecomesKeeps
<1>. QED
  BY <1>1, <1>2

(* A connection comes up, and goes to its call or to whoever can use it.   *)
LEMMA ReadyKeeps ==
  ASSUME IInv, NEW k \in Conns, Ready(k)
  PROVE  IInv'
<1> DEFINE c == conn[k].for
<1>1. conn[k] \in ConnStates /\ conn[k].st = "tls"
  BY Unfolded DEF Ready
<1>2. conn[k] # Free /\ conn[k] # Idle /\ (\A d : conn[k] # Busy(d)) /\ c \in Calls
  BY <1>1, DialStates
<1>3. Paired(conn, call, Conns \ {k})
  BY <1>2, NotCounted, Unfolded
<1>4. CASE call[c] = "wait"
  <2> DEFINE dn == [conn EXCEPT ![k] = Busy(c)]
             da == [call EXCEPT ![c] = "sent"]
  <2>1. Becomes({<<dn, da>>})
    BY <1>4 DEF Ready
  <2>2. Good(dn, da, pool, closeIdle)
    BY <1>2, <1>3, <1>4, Assigned, Unfolded
  <2>3. \A d \in Calls : call[d] = "new" => da[d] = "new"
    BY <1>2, <1>4, Unfolded
  <2>4. \A o \in {<<dn, da>>} : o[1] = dn /\ o[2] = da
    OBVIOUS
  <2> HIDE DEF dn, da
  <2>. QED
    BY <2>1, <2>2, <2>3, <2>4, BecomesKeeps
<1>5. CASE call[c] # "wait"
  <2>1. Becomes(PutIdle(conn, call, k))
    BY <1>5 DEF Ready
  <2>2. \A o \in PutIdle(conn, call, k) : Good(o[1], o[2], pool, closeIdle)
    BY <1>2, <1>3, PutIdleGood, Unfolded
  <2>3. \A o \in PutIdle(conn, call, k) : \A d \in Calls : call[d] = "new" => o[2][d] = "new"
    BY NewStays, Unfolded
  <2>. QED
    BY <2>1, <2>2, <2>3, BecomesKeeps
<1>. QED
  BY <1>4, <1>5

(* The body is read to its end.                                            *)
LEMMA ReadToEndKeeps ==
  ASSUME IInv, NEW c \in Calls, ReadToEnd(c)
  PROVE  IInv'
<1> DEFINE ca == [call EXCEPT ![c] = "ok"]
<1>1. PICK k \in Conns : conn[k] = Busy(c) /\ Becomes(PutIdle(conn, ca, k))
  BY DEF ReadToEnd
<1>2. /\ Typed(conn, ca) /\ Paired(conn, ca, Conns \ {k})
      /\ \A d \in Calls : call[d] = "new" => ca[d] = "new"
  BY <1>1, GivenUp
<1>3. conn[k] \notin {Free, Idle}
  BY <1>1, States
<1> HIDE DEF ca
<1>4. \A o \in PutIdle(conn, ca, k) : Good(o[1], o[2], pool, closeIdle)
  BY <1>2, <1>3, PutIdleGood, Unfolded
<1>5. \A o \in PutIdle(conn, ca, k) : \A d \in Calls : call[d] = "new" => o[2][d] = "new"
  BY <1>2, NewStays DEF Typed
<1>. QED
  BY <1>1, <1>4, <1>5, BecomesKeeps

(* An idle connection is closed.                                           *)
LEMMA IdleClosedKeeps ==
  ASSUME IInv, NEW k \in Conns, conn[k] = Idle, Becomes(Close(conn, call, k))
  PROVE  IInv'
<1>1. conn[k] # Free /\ \A c : conn[k] # Busy(c)
  BY States
<1>2. Paired(conn, call, Conns \ {k})
  BY <1>1, NotCounted, Unfolded
<1>3. \A o \in Close(conn, call, k) : Good(o[1], o[2], pool, closeIdle)
  BY <1>1, <1>2, CloseGood, Unfolded
<1>4. \A o \in Close(conn, call, k) : \A d \in Calls : call[d] = "new" => o[2][d] = "new"
  BY NewStays, Unfolded
<1>. QED
  BY <1>3, <1>4, BecomesKeeps

(* A dial reaches its handshake, and the headers of a response arrive.     *)
LEMMA ProgressKeeps ==
  ASSUME IInv
  PROVE  /\ \A k \in Conns : Connected(k) => IInv'
         /\ \A c \in Calls : Headers(c) => IInv'
<1>1. ASSUME NEW k \in Conns, Connected(k) PROVE IInv'
  <2> DEFINE x == [conn[k] EXCEPT !.st = "tls"]
             dn == [conn EXCEPT ![k] = x]
  <2>1. conn[k] \in ConnStates /\ conn[k].st = "dial"
    BY <1>1, Unfolded DEF Connected
  <2>2. conn[k] # Free /\ conn[k] # Idle /\ (\A c : conn[k] # Busy(c))
        /\ conn[k].for \in Calls
    BY <2>1, DialStates
  <2>3. conn[k] \in [st : {"dial", "tls", "busy"}, for : Calls]
    BY <2>1, <2>2 DEF ConnStates
  <2>4. x.st = "tls" /\ x \in ConnStates
    BY <2>3 DEF ConnStates
  <2>5. Becomes({<<dn, call>>})
    BY <1>1 DEF Connected
  <2> HIDE DEF x
  <2>6. x # Idle /\ (\A c : x # Busy(c))
    BY <2>4, DialStates
  <2>7. Typed(dn, call) /\ Paired(dn, call, Conns)
    BY <2>2, <2>4, <2>6, NotCounted, Unassigned, Unfolded
  <2>8. Bounded(dn, pool) /\ Quiet(dn, closeIdle)
    BY <2>2, <2>4, <2>6, Retyped, Unfolded
  <2>9. Good(dn, call, pool, closeIdle)
    BY <2>7, <2>8 DEF Good
  <2>10. \A o \in {<<dn, call>>} : o[1] = dn /\ o[2] = call
    OBVIOUS
  <2> HIDE DEF dn
  <2>. QED
    BY <2>5, <2>9, <2>10, BecomesKeeps
<1>2. ASSUME NEW c \in Calls, Headers(c) PROVE IInv'
  <2> DEFINE ca == [call EXCEPT ![c] = "body"]
  <2>1. Becomes({<<conn, ca>>}) /\ call[c] = "sent"
    BY <1>2 DEF Headers
  <2>2. \A d \in Calls : /\ ca[d] \in {"sent", "body"} <=> call[d] \in {"sent", "body"}
                         /\ call[d] = "new" => ca[d] = "new"
    BY <2>1, Unfolded
  <2>3. Typed(conn, ca)
    BY Unfolded DEF Typed, CallStates
  <2> HIDE DEF ca
  <2>4. Paired(conn, ca, Conns)
    BY <2>2, Unfolded DEF Paired
  <2>5. Good(conn, ca, pool, closeIdle)
    BY <2>3, <2>4, Unfolded DEF Good
  <2>6. \A o \in {<<conn, ca>>} : o[1] = conn /\ o[2] = ca
    OBVIOUS
  <2>. QED
    BY <2>1, <2>2, <2>5, <2>6, BecomesKeeps
<1>. QED
  BY <1>1, <1>2

(* A call is made: with an idle connection, with a dial that the cap still *)
(* allows, or waiting.                                                     *)
LEMMA BeginKeeps ==
  ASSUME IInv, NEW c \in Calls, Begin(c)
  PROVE  IInv'
<1>1. /\ call[c] = "new" /\ closeIdle' = FALSE /\ retired' = FALSE
      /\ UNCHANGED <<cfg, pool, inbound, wired>>
      /\ told' = [told EXCEPT ![c] = Told(wired.client, ServerContext(wired.server, inbound))]
  BY DEF Begin, fixed
<1> DEFINE waits == [call EXCEPT ![c] = "wait"]
<1>2. Typed(conn, waits) /\ Paired(conn, waits, Conns)
  <2>1. \A d \in Calls : waits[d] \in {"sent", "body"} <=> call[d] \in {"sent", "body"}
    BY <1>1, Unfolded
  <2>2. Typed(conn, waits)
    BY Unfolded DEF Typed, CallStates
  <2> HIDE DEF waits
  <2>. QED
    BY <2>1, <2>2, Unfolded DEF Paired
<1>3. Good(conn', call', pool, FALSE)
  <2>1. CASE \E k \in IdleIn(conn) : /\ conn' = [conn EXCEPT ![k] = Busy(c)]
                                     /\ call' = [call EXCEPT ![c] = "sent"]
    <3>1. PICK k \in IdleIn(conn) : /\ conn' = [conn EXCEPT ![k] = Busy(c)]
                                    /\ call' = [call EXCEPT ![c] = "sent"]
      BY <2>1
    <3>2. k \in Conns /\ conn[k] # Free /\ (\A d : conn[k] # Busy(d))
      BY <3>1, States DEF IdleIn
    <3>3. Paired(conn, call, Conns \ {k}) /\ Quiet(conn, FALSE)
      BY <3>2, NotCounted, Unfolded DEF Quiet
    <3>. QED
      BY <1>1, <3>1, <3>2, <3>3, Assigned, Unfolded
  <2>2. CASE /\ MayDial /\ Open(conn) # Conns
             /\ conn' = [conn EXCEPT ![FreeSlot] = Dial(c)] /\ call' = waits
    <3> DEFINE k == FreeSlot
    <3>1. k \in Conns /\ conn[k] = Free
      BY <2>2 DEF FreeSlot, Open
    <3> HIDE DEF k
    <3>2. conn' = [conn EXCEPT ![k] = Dial(c)] /\ call' = waits
      BY <2>2 DEF k
    <3> HIDE DEF waits
    <3>3. Paired(conn, waits, Conns \ {k})
      BY <1>2, <3>1, States DEF Paired
    <3>4. Dial(c) \in ConnStates /\ \A d : Dial(c) # Busy(d)
      BY States
    <3>5. Typed(conn', call') /\ Paired(conn', call', Conns)
      BY <1>2, <3>1, <3>2, <3>3, <3>4, Unassigned
    <3>6. Open(conn') = Open(conn) \cup {k} /\ k \notin Open(conn)
          /\ IdleIn(conn') = IdleIn(conn)
      BY <3>1, <3>2, States, Unfolded DEF Open, IdleIn
    <3>7. IsFiniteSet(Open(conn')) /\ Cardinality(Open(conn')) = Cardinality(Open(conn)) + 1
          /\ Cardinality(Open(conn)) \in Nat
      BY <3>6, FS_AddElement, FS_CardinalityType, Unfolded DEF Bounded
    <3>8. pool["MaxConnsPerHost"] \in Int
      BY Unfolded DEF Counts
    <3>9. pool["MaxConnsPerHost"] > 0 => Cardinality(Open(conn')) <= pool["MaxConnsPerHost"]
      BY <2>2, <3>7, <3>8 DEF MayDial
    <3>10. Bounded(conn', pool)
      BY <3>6, <3>7, <3>9, Unfolded DEF Bounded
    <3>. QED
      BY <3>5, <3>10 DEF Good, Quiet
  <2>3. CASE conn' = conn /\ call' = waits
    BY <1>2, <2>3, Unfolded DEF Good, Quiet
  <2>. QED
    BY <2>1, <2>2, <2>3 DEF Begin
<1>4. Good(conn, call, pool, closeIdle)'
  BY <1>1, <1>3 DEF Good, Typed, Paired, Bounded, Quiet, Open, IdleIn
<1>5. \A d \in Calls : d # c /\ call[d] = "new" => call'[d] = "new"
  <2>1. \E s : call' = [call EXCEPT ![c] = s]
    BY DEF Begin
  <2>. QED
    BY <2>1, Unfolded
<1>6. ToldInv' /\ DOMAIN told' = Calls
  <2>1. \A d \in Calls : told'[d] = IF d = c
          THEN Told(wired.client, ServerContext(wired.server, inbound)) ELSE told[d]
    BY <1>1 DEF IInv
  <2>2. Told(wired.client, ServerContext(wired.server, inbound))'
          = Told(wired.client, ServerContext(wired.server, inbound))
    BY <1>1
  <2>. QED
    BY <1>1, <1>5, <2>1, <2>2 DEF IInv, ToldInv
<1>. QED
  BY <1>1, <1>4, <1>6 DEF IInv

(* The idle connections are closed, and no others.                         *)
LEMMA CloseIdleKeeps ==
  ASSUME IInv, CloseIdleConnections
  PROVE  IInv'
<1>1. /\ conn' = [k \in Conns |-> IF conn[k] = Idle THEN Free ELSE conn[k]]
      /\ closeIdle' = TRUE /\ retired' = TRUE
      /\ UNCHANGED <<cfg, pool, inbound, wired, call, told>>
  BY DEF CloseIdleConnections, CloseIdlePool, fixed
<1>2. /\ conn' \in [Conns -> ConnStates]
      /\ \A k \in Conns : \A c : conn'[k] = Busy(c) <=> conn[k] = Busy(c)
      /\ Open(conn') \subseteq Open(conn) /\ IdleIn(conn') = {}
  BY <1>1, States, Unfolded DEF Open, IdleIn
<1>3. Typed(conn', call) /\ Paired(conn', call, Conns)
  BY <1>2, Unfolded DEF Typed, Paired
<1>4. Bounded(conn', pool)
  BY <1>2, Shrinks, Unfolded
<1>5. Good(conn', call', pool', closeIdle')
  BY <1>1, <1>2, <1>3, <1>4 DEF Good, Quiet
<1>6. Good(conn, call, pool, closeIdle)'
  BY <1>5 DEF Good, Typed, Paired, Bounded, Quiet, Open, IdleIn
<1>. QED
  BY <1>1, <1>6 DEF IInv, ToldInv

-----------------------------------------------------------------------------
(* The theorems.                                                           *)

(* Before the client is built there is no connection and no call.          *)
LEMMA InitIInv == Init => IInv
<1> SUFFICES ASSUME Init PROVE IInv
  OBVIOUS
<1>1. cfg \in [Durations \cup Counts -> Int]
  BY MaxCountAssumption DEF Init, Configs, Default
<1>2. conn = [k \in Conns |-> Free] /\ call = [c \in Calls |-> "new"]
      /\ told = [c \in Calls |-> NoTrace]
      /\ closeIdle = FALSE /\ retired = FALSE /\ pool = cfg
  BY DEF Init
<1>3. Open(conn) = {} /\ IdleIn(conn) = {}
  BY <1>2, States DEF Open, IdleIn
<1>4. Typed(conn, call) /\ Paired(conn, call, Conns)
  BY <1>2, States DEF Typed, Paired, CallStates
<1>5. Bounded(conn, pool)
  <2>1. pool["MaxConnsPerHost"] \in Int /\ pool["MaxIdleConns"] \in Int
        /\ pool["MaxIdleConnsPerHost"] \in Int
    BY <1>1, <1>2 DEF Counts
  <2>. QED
    BY <1>3, <2>1, FS_EmptySet DEF Bounded
<1>6. inbound \in Inbound /\ wired \in Wirings
  <2>1. [probe |-> FALSE, trace |-> NoTrace] \in Inbound
    BY DEF Inbound
  <2>2. [server |-> NilTelemetry, client |-> NilTelemetry] \in Wirings
    <3>1. [server |-> NilTelemetry, client |-> NilTelemetry]
            \in [server : {NilTelemetry, SetupTracing(TRUE)},
                 client : {NilTelemetry, SetupTracing(TRUE)}]
      OBVIOUS
    <3>. QED
      BY <3>1, Zenon DEF Wirings
  <2>. QED
    BY <2>1, <2>2 DEF Init
<1>7. ToldInv
  BY <1>2 DEF ToldInv
<1>. QED
  BY <1>1, <1>2, <1>3, <1>4, <1>5, <1>6, <1>7 DEF IInv, Good, Quiet

(* Every action keeps the invariant.                                       *)
LEMMA NextIInv == IInv /\ [Next]_vars => IInv'
<1> SUFFICES ASSUME IInv, [Next]_vars PROVE IInv'
  OBVIOUS
<1>1. CASE New
  <2>1. UNCHANGED <<cfg, pool, conn, call, closeIdle, retired, told, inbound, wired>>
    BY <1>1 DEF New, NewTransport, poolVars, IInv
  <2>. QED
    BY <2>1 DEF IInv, ToldInv, Good, Typed, Paired, Bounded, Quiet, Open, IdleIn
<1>2. CASE UNCHANGED vars
  BY <1>2 DEF vars, IInv, ToldInv, Good, Typed, Paired, Bounded, Quiet, Open, IdleIn
<1>3. ASSUME NEW c \in Calls, CloseBody(c) \/ Aborted(c) \/ HeadersExpire(c) \/ TimeoutExpires(c)
      PROVE  IInv'
  <2>1. call[c] # "new" /\ (End(c, "ok") \/ End(c, "err"))
    BY <1>3 DEF CloseBody, Aborted, HeadersExpire, TimeoutExpires
  <2>. QED
    BY <2>1, EndKeeps
<1>4. ASSUME NEW k \in Conns, DialFails(k) \/ ConnectExpires(k) \/ HandshakeExpires(k)
      PROVE  IInv'
  <2>1. conn[k].st \in {"dial", "tls"} /\ DialFailed(k)
    BY <1>4 DEF DialFails, ConnectExpires, HandshakeExpires
  <2>. QED
    BY <2>1, DialFailedKeeps
<1>5. ASSUME NEW k \in Conns, IdleExpires(k) \/ PeerCloses(k)
      PROVE  IInv'
  <2>1. conn[k] = Idle /\ Becomes(Close(conn, call, k))
    BY <1>5 DEF IdleExpires, PeerCloses
  <2>. QED
    BY <2>1, IdleClosedKeeps
<1>. QED
  BY <1>1, <1>2, <1>3, <1>4, <1>5, BeginKeeps, ProgressKeeps, ReadToEndKeeps,
     ReadyKeeps, CloseIdleKeeps DEF Next, Refused

(* The inductive invariant holds in every state of every behaviour.        *)
THEOREM Inductive == Spec => []IInv
  BY InitIInv, NextIInv, PTL DEF Spec

(* The pool never exceeds the caps it was configured with, dials begun for *)
(* calls that have given up included.                                      *)
THEOREM PoolAlwaysBounded == Spec => []PoolBounded
<1>1. IInv => PoolBounded
  BY DEF IInv, Good, Bounded, PoolBounded
<1>. QED
  BY <1>1, Inductive, PTL

(* A retired client holds no idle connection and took none from a call.    *)
THEOREM RetiredAlwaysHoldsNone == Spec => []RetiredHoldsNone
<1>1. IInv => RetiredHoldsNone
  <2> SUFFICES ASSUME IInv, retired, NEW c \in Calls
               PROVE  /\ IdleIn(conn) = {}
                      /\ Cardinality({k \in Conns : conn[k] = Busy(c)}) =
                           IF call[c] \in {"sent", "body"} THEN 1 ELSE 0
    BY DEF RetiredHoldsNone, IInv, Good, Quiet
  <2>1. IdleIn(conn) = {}
    BY DEF IInv, Good, Quiet
  <2> DEFINE mine == {k \in Conns : conn[k] = Busy(c)}
  <2>2. CASE call[c] \in {"sent", "body"}
    <3>1. PICK k \in Conns : conn[k] = Busy(c)
      BY <2>2, Unfolded DEF Paired
    <3>2. mine = {k}
      BY <3>1, Unfolded DEF Paired
    <3>. QED
      BY <2>1, <2>2, <3>2, FS_Singleton
  <2>3. CASE call[c] \notin {"sent", "body"}
    <3>1. mine = {}
      BY <2>3, Unfolded DEF Paired
    <3>. QED
      BY <2>1, <2>3, <3>1, FS_EmptySet
  <2>. QED
    BY <2>2, <2>3
<1>. QED
  BY <1>1, Inductive, PTL

(* The telemetry a process is built with: none, or the same on both sides. *)
LEMMA WiredSides ==
  ASSUME NEW w \in Wirings
  PROVE  \E e \in BOOLEAN : /\ w.server \in {NilTelemetry, SetupTracing(e)}
                            /\ w.client \in {NilTelemetry, SetupTracing(e)}
<1>1. PICK e \in BOOLEAN : w \in [server : {NilTelemetry, SetupTracing(e)},
                                   client : {NilTelemetry, SetupTracing(e)}]
  BY DEF Wirings
<1>. QED
  BY <1>1

(* A call joins the trace it is made for, and a trace begun here is        *)
(* recorded.                                                               *)
THEOREM TraceAlwaysJoined == Spec => []TraceJoined
<1>1. IInv => TraceJoined
  <2> SUFFICES ASSUME IInv, NEW c \in Calls, call[c] # "new"
               PROVE  /\ NilTelemetry \notin {wired.server, wired.client} /\ ~inbound.probe
                           /\ inbound.trace # NoTrace => told[c] = inbound.trace
                      /\ told[c].by = "service" =>
                           "sdk" \in {wired.server.tracer, wired.client.tracer}
    BY DEF TraceJoined
  <2> DEFINE s == wired.server
             l == wired.client
             got == ServerContext(s, inbound)
  <2>1. told[c] = Told(l, got)
    BY DEF IInv, ToldInv
  <2>2. PICK e \in BOOLEAN : s \in {NilTelemetry, SetupTracing(e)}
                             /\ l \in {NilTelemetry, SetupTracing(e)}
    BY WiredSides DEF IInv
  <2>3. /\ \A t : Instrument(t).tracer = IF t.tracer = "nil" THEN "noop" ELSE t.tracer
        /\ \A t : Instrument(t).propagator
                    = IF t.propagator = "nil" THEN "empty" ELSE t.propagator
    BY DEF Instrument
  <2>4. /\ SetupTracing(e).propagator = "w3c"
        /\ SetupTracing(e).tracer = IF e THEN "sdk" ELSE "noop"
        /\ NilTelemetry.tracer = "nil" /\ NilTelemetry.propagator = "nil"
    BY DEF SetupTracing, NilTelemetry
  <2> HIDE DEF s, l
  <2>5. ASSUME NilTelemetry \notin {s, l}, ~inbound.probe, inbound.trace # NoTrace
        PROVE  told[c] = inbound.trace
    <3>1. /\ Instrument(s).propagator = "w3c" /\ Instrument(l).propagator = "w3c"
      BY <2>2, <2>3, <2>4, <2>5
    <3>2. got = inbound.trace
      BY <2>5, <3>1 DEF ServerContext, StartSpan, Carry
    <3>. QED
      BY <2>1, <2>5, <3>1, <3>2 DEF Told, StartSpan, Carry
  <2>6. ASSUME "sdk" \notin {s.tracer, l.tracer}
        PROVE  told[c].by # "service"
    <3>1. Instrument(s).tracer = "noop" /\ Instrument(l).tracer = "noop"
      BY <2>2, <2>3, <2>4, <2>6
    <3>2. inbound.trace.by # "service" /\ NoTrace.by # "service"
      BY DEF IInv, Inbound, NoTrace
    <3>3. told[c] \in {NoTrace, inbound.trace}
      BY <2>1, <3>1 DEF Told, ServerContext, StartSpan, Carry
    <3>. QED
      BY <3>2, <3>3
  <2>. QED
    BY <2>5, <2>6 DEF s, l
<1>. QED
  BY <1>1, Inductive, PTL
=============================================================================
