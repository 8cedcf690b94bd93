-------------------------- MODULE ReadinessProofs --------------------------
(***************************************************************************)
(* Proofs about Readiness: any checks, any number of probes, any timeout   *)
(* and any number of changes of the dependencies.                          *)
(*                                                                         *)
(* The names of an answer are gathered by a recursive function and sorted  *)
(* by a choice of an order.  What both compute is obtained from their      *)
(* definitions by least counterexamples.                                   *)
(***************************************************************************)
EXTENDS Readiness, SequenceTheorems, WellFoundedInduction, TLAPS

-----------------------------------------------------------------------------
(* Collecting and sorting.                                                 *)

(* A set of numbers that is not empty has a least element.                 *)
LEMMA LeastNumber ==
  ASSUME NEW T, T \subseteq Nat, T # {}
  PROVE  \E m \in T : \A n \in T : m <= n
<1>1. PICK m \in T : \A n \in T : ~(<<n, m>> \in OpToRel(<, Nat))
  BY NatLessThanWellFounded, WFMin, Zenon
<1>2. \A n \in T : ~(n < m)
  BY <1>1 DEF OpToRel
<1>. QED
  BY <1>2

(* f is the function Collected defines, up to slot n.                      *)
Collects(f, names, results, n) ==
  f = [i \in 0..n |->
         IF i = 0 THEN <<>>
         ELSE IF results[i] = "err" THEN Append(f[i - 1], names[i])
         ELSE f[i - 1]]

(* A function as Collected defines it exists for every number of checks.   *)
LEMMA CollectsExists ==
  ASSUME NEW names, NEW results, NEW n \in Nat
  PROVE  \E f : Collects(f, names, results, n)
<1> DEFINE T == {k \in Nat : ~\E f : Collects(f, names, results, k)}
<1> SUFFICES ASSUME T # {} PROVE FALSE
  OBVIOUS
<1>1. PICK m \in T : \A k \in T : m <= k
  <2>1. T \subseteq Nat
    OBVIOUS
  <2> HIDE DEF T
  <2>. QED
    BY <2>1, LeastNumber
<1>2. CASE m = 0
  <2> DEFINE g == [i \in 0..0 |-> <<>>]
  <2>1. Collects(g, names, results, 0)
    BY DEF Collects
  <2> HIDE DEF g
  <2>. QED
    BY <1>1, <1>2, <2>1
<1>3. CASE m # 0
  <2>1. m - 1 \in Nat /\ m - 1 \notin T
    <3> HIDE DEF T
    <3>1. m \in Nat
      BY <1>1 DEF T
    <3>. QED
      BY <1>1, <1>3, <3>1
  <2>2. PICK f : Collects(f, names, results, m - 1)
    BY <2>1
  <2> DEFINE last == IF results[m] = "err" THEN Append(f[m - 1], names[m]) ELSE f[m - 1]
             g == [i \in 0..m |-> IF i = m THEN last ELSE f[i]]
             step(i) == IF i = 0 THEN <<>>
                        ELSE IF results[i] = "err" THEN Append(g[i - 1], names[i])
                        ELSE g[i - 1]
  <2>3. \A i \in 0..m : g[i] = step(i)
    <3> SUFFICES ASSUME NEW i \in 0..m PROVE g[i] = step(i)
      OBVIOUS
    <3>1. CASE i = m
      <4>1. g[i] = last /\ g[i - 1] = f[i - 1] /\ i # 0
        BY <1>3, <2>1, <3>1
      <4> HIDE DEF g
      <4>. QED
        BY <3>1, <4>1
    <3>2. CASE i # m
      <4>1. g[i] = f[i] /\ (i # 0 => g[i - 1] = f[i - 1]) /\ i \in 0..(m - 1)
        BY <1>3, <2>1, <3>2
      <4>2. f[i] = IF i = 0 THEN <<>>
                   ELSE IF results[i] = "err" THEN Append(f[i - 1], names[i])
                   ELSE f[i - 1]
        BY <2>2, <4>1 DEF Collects
      <4> HIDE DEF g
      <4>. QED
        BY <4>1, <4>2
    <3>. QED
      BY <3>1, <3>2
  <2>4. g = [i \in 0..m |-> step(i)]
    <3> HIDE DEF step
    <3>. QED
      BY <2>3
  <2>5. Collects(g, names, results, m)
    <3> HIDE DEF g
    <3>. QED
      BY <2>4 DEF Collects
  <2> HIDE DEF g
  <2>. QED
    BY <1>1, <2>5
<1>. QED
  BY <1>2, <1>3

(* No name twice.                                                          *)
Distinct(s) == \A i, j \in 1..Len(s) : s[i] = s[j] => i = j

(* Collected returns the names of the failed slots, none of them twice.    *)
LEMMA CollectedNames ==
  ASSUME NEW names \in Seq(Nat), Distinct(names), NEW results,
         Len(results) = Len(names)
  PROVE  /\ Collected(names, results) \in Seq(Nat)
         /\ Distinct(Collected(names, results))
         /\ \A x : x \in Names(Collected(names, results)) <=>
              \E j \in 1..Len(names) : results[j] = "err" /\ x = names[j]
<1> DEFINE n == Len(names)
           f == CHOOSE h : Collects(h, names, results, n)
           Good(s, i) == /\ s \in Seq(Nat) /\ Distinct(s)
                         /\ \A k \in 1..Len(s) :
                              \E j \in 1..i : results[j] = "err" /\ s[k] = names[j]
                         /\ \A j \in 1..i : results[j] = "err" =>
                              \E k \in 1..Len(s) : s[k] = names[j]
<1>0. n \in Nat
  OBVIOUS
<1>1. Collects(f, names, results, n)
  BY <1>0, CollectsExists, Zenon
<1>2. Collected(names, results) = f[n]
  BY DEF Collected, Collects
<1> HIDE DEF f
<1>3. \A i \in 0..n : f[i] = IF i = 0 THEN <<>>
                             ELSE IF results[i] = "err" THEN Append(f[i - 1], names[i])
                             ELSE f[i - 1]
  BY <1>1 DEF Collects
<1> DEFINE T == {i \in 0..n : ~Good(f[i], i)}
<1>4. T = {}
  <2> SUFFICES ASSUME T # {} PROVE FALSE
    OBVIOUS
  <2>1. PICK m \in T : \A k \in T : m <= k
    <3>1. T \subseteq Nat
      OBVIOUS
    <3> HIDE DEF T
    <3>. QED
      BY <3>1, LeastNumber
  <2>2. m # 0
    <3>1. f[0] = <<>>
      BY <1>0, <1>3
    <3>2. Good(<<>>, 0)
      BY DEF Distinct
    <3> HIDE DEF Good
    <3>. QED
      BY <2>1, <3>1, <3>2
  <2>3. m \in 1..n /\ m - 1 \in 0..n /\ m - 1 \notin T
    <3>1. m \in 0..n
      BY <2>1
    <3> HIDE DEF T
    <3>. QED
      BY <1>0, <2>1, <2>2, <3>1
  <2> DEFINE s == f[m - 1]
  <2>4. Good(s, m - 1)
    BY <2>3
  <2>5. f[m] = IF results[m] = "err" THEN Append(s, names[m]) ELSE s
    BY <1>3, <2>2, <2>3
  <2> HIDE DEF s
  <2>6. CASE results[m] # "err"
    <3>1. Good(s, m)
      BY <2>3, <2>4, <2>6
    <3> HIDE DEF Good
    <3>. QED
      BY <2>1, <2>5, <2>6, <3>1
  <2>7. CASE results[m] = "err"
    <3> DEFINE t == Append(s, names[m])
               l == Len(s)
    <3>1. names[m] \in Nat
      BY <2>3
    <3>2. /\ t \in Seq(Nat) /\ Len(t) = l + 1 /\ l \in Nat
          /\ t[l + 1] = names[m] /\ \A k \in 1..l : t[k] = s[k]
      BY <2>4, <3>1, AppendProperties
    <3>3. \A k \in 1..(l + 1) : k \in 1..l \/ k = l + 1
      BY <3>2
    <3>4. l + 1 \in 1..(l + 1) /\ \A k \in 1..l : k \in 1..(l + 1)
      BY <3>2
    <3> HIDE DEF t
    <3>5. \A k \in 1..l : s[k] # names[m]
      <4> SUFFICES ASSUME NEW k \in 1..l PROVE s[k] # names[m]
        OBVIOUS
      <4>1. PICK j \in 1..(m - 1) : s[k] = names[j]
        BY <2>4
      <4>. QED
        BY <1>0, <2>3, <4>1 DEF Distinct
    <3>6. Distinct(t)
      <4> SUFFICES ASSUME NEW i \in 1..(l + 1), NEW j \in 1..(l + 1), t[i] = t[j]
                   PROVE  i = j
        BY <3>2 DEF Distinct
      <4>1. Distinct(s)
        BY <2>4
      <4> HIDE DEF Good
      <4>2. CASE i \in 1..l /\ j \in 1..l
        BY <3>2, <4>1, <4>2 DEF Distinct
      <4> HIDE DEF l
      <4>3. CASE i = l + 1 \/ j = l + 1
        BY <3>2, <3>3, <3>5, <4>3
      <4>. QED
        BY <3>3, <4>2, <4>3
    <3>7. \A k \in 1..Len(t) : \E j \in 1..m : results[j] = "err" /\ t[k] = names[j]
      <4> SUFFICES ASSUME NEW k \in 1..Len(t)
                   PROVE  \E j \in 1..m : results[j] = "err" /\ t[k] = names[j]
        OBVIOUS
      <4>1. CASE k = l + 1
        BY <2>3, <2>7, <3>2, <4>1
      <4>2. CASE k \in 1..l
        <5>1. PICK j \in 1..(m - 1) : results[j] = "err" /\ s[k] = names[j]
          BY <2>4, <4>2
        <5>2. t[k] = names[j] /\ j \in 1..m
          BY <2>3, <3>2, <4>2, <5>1
        <5>. QED
          BY <5>1, <5>2
      <4>. QED
        BY <3>2, <3>3, <4>1, <4>2
    <3>8. \A j \in 1..m : results[j] = "err" => \E k \in 1..Len(t) : t[k] = names[j]
      <4> SUFFICES ASSUME NEW j \in 1..m, results[j] = "err"
                   PROVE  \E k \in 1..Len(t) : t[k] = names[j]
        OBVIOUS
      <4>1. CASE j = m
        BY <3>2, <3>4, <4>1
      <4>2. CASE j # m
        <5>1. PICK k \in 1..l : s[k] = names[j]
          BY <2>3, <2>4, <4>2
        <5>. QED
          BY <3>2, <5>1
      <4>. QED
        BY <4>1, <4>2
    <3>9. Good(t, m)
      BY <3>2, <3>6, <3>7, <3>8
    <3> HIDE DEF Good
    <3>. QED
      BY <2>1, <2>5, <2>7, <3>9 DEF t
  <2>. QED
    BY <2>6, <2>7
<1>5. Good(f[n], n)
  <2> HIDE DEF Good
  <2>. QED
    BY <1>0, <1>4
<1> DEFINE c == f[n]
<1>6. ASSUME NEW x
      PROVE  x \in Names(c) <=> \E j \in 1..n : results[j] = "err" /\ x = names[j]
  <2>1. x \in Names(c) <=> \E k \in 1..Len(c) : x = c[k]
    BY DEF Names
  <2> HIDE DEF c, n
  <2>. QED
    BY <1>5, <2>1 DEF c
<1>. QED
  BY <1>2, <1>5, <1>6

(* f rearranges s into order.                                              *)
Orders(f, s) == f \in Bijection(1..Len(s), 1..Len(s)) /\ Sorts(f, s)

(* f permutes 1..n, spelled out.                                           *)
LEMMA Permutes ==
  ASSUME NEW n \in Nat, NEW f
  PROVE  f \in Bijection(1..n, 1..n) <=>
           /\ f \in [1..n -> 1..n]
           /\ \A i, j \in 1..n : f[i] = f[j] => i = j
           /\ \A y \in 1..n : \E i \in 1..n : f[i] = y
  BY DEF Bijection, Injection, Surjection, IsInjective

(* Every sequence of numbers can be sorted: its least number first, then   *)
(* the others, where the last has taken the least's place.                 *)
LEMMA OrderExists ==
  ASSUME NEW s \in Seq(Nat)
  PROVE  \E f : Orders(f, s)
<1> DEFINE T == {k \in Nat : \E u \in Seq(Nat) : Len(u) = k /\ ~\E f : Orders(f, u)}
<1> SUFFICES ASSUME T # {} PROVE FALSE
  OBVIOUS
<1>1. PICK n \in T : \A k \in T : n <= k
  <2>1. T \subseteq Nat
    OBVIOUS
  <2> HIDE DEF T
  <2>. QED
    BY <2>1, LeastNumber
<1>2. PICK u \in Seq(Nat) : n \in Nat /\ Len(u) = n /\ ~\E f : Orders(f, u)
  BY <1>1
<1>3. n # 0
  <2> SUFFICES ASSUME n = 0 PROVE FALSE
    OBVIOUS
  <2> DEFINE g == [i \in 1..0 |-> 0]
  <2>1. g \in [1..0 -> 1..0] /\ 1..0 = {}
    OBVIOUS
  <2> HIDE DEF g
  <2>2. Orders(g, u)
    BY <1>2, <2>1, Permutes DEF Orders, Sorts
  <2>. QED
    BY <1>2, <2>2
<1>4. n - 1 \in Nat /\ n - 1 \notin T /\ 1 \in 1..n
  <2> HIDE DEF T
  <2>. QED
    BY <1>1, <1>2, <1>3
<1>5. \A i \in 1..n : u[i] \in Nat
  BY <1>2, ElementOfSeq
<1>6. PICK k \in 1..n : \A i \in 1..n : u[k] <= u[i]
  <2> DEFINE V == {u[i] : i \in 1..n}
  <2>1. V \subseteq Nat /\ u[1] \in V
    BY <1>4, <1>5
  <2>2. PICK v \in V : \A w \in V : v <= w
    <3> HIDE DEF V
    <3>. QED
      BY <2>1, LeastNumber
  <2>. QED
    BY <2>2
<1> DEFINE c == [i \in 1..(n - 1) |-> IF i = k THEN n ELSE i]
           t == [i \in 1..(n - 1) |-> u[c[i]]]
<1>7. /\ \A i \in 1..(n - 1) : c[i] \in 1..n /\ c[i] # k
      /\ \A i, j \in 1..(n - 1) : c[i] = c[j] => i = j
      /\ \A y \in 1..n : y # k => \E i \in 1..(n - 1) : c[i] = y
  <2>1. \A i \in 1..(n - 1) : c[i] = (IF i = k THEN n ELSE i) /\ i # n /\ i \in 1..n
    BY <1>2, <1>4
  <2>2. n \in 1..n /\ \A y \in 1..n : y # n => y \in 1..(n - 1)
    BY <1>2, <1>3
  <2> HIDE DEF c
  <2>. QED
    BY <2>1, <2>2
<1> HIDE DEF c
<1>8. t \in Seq(Nat) /\ Len(t) = n - 1 /\ \A i \in 1..(n - 1) : t[i] = u[c[i]]
  <2>1. \A i \in 1..(n - 1) : u[c[i]] \in Nat
    BY <1>5, <1>7
  <2> DEFINE m == n - 1
             d == [i \in 1..m |-> u[c[i]]]
  <2>2. m \in Nat /\ \A i \in 1..m : u[c[i]] \in Nat
    BY <1>4, <2>1
  <2> HIDE DEF m
  <2>3. d \in Seq(Nat) /\ Len(d) = m /\ \A i \in 1..m : d[i] = u[c[i]]
    BY <2>2, IsASeq
  <2>. QED
    BY <2>3 DEF m
<1> HIDE DEF t
<1>9. PICK q : Orders(q, t)
  BY <1>4, <1>8
<1>10. /\ q \in [1..(n - 1) -> 1..(n - 1)]
       /\ \A i, j \in 1..(n - 1) : q[i] = q[j] => i = j
       /\ \A y \in 1..(n - 1) : \E i \in 1..(n - 1) : q[i] = y
       /\ \A i, j \in 1..(n - 1) : i < j => t[q[i]] <= t[q[j]]
  <2> DEFINE m == n - 1
  <2>1. m \in Nat /\ Len(t) = m
    BY <1>4, <1>8
  <2> HIDE DEF m
  <2>2. q \in Bijection(1..m, 1..m) /\ \A i, j \in 1..m : i < j => t[q[i]] <= t[q[j]]
    BY <1>9, <2>1 DEF Orders, Sorts
  <2>3. /\ q \in [1..m -> 1..m]
        /\ \A i, j \in 1..m : q[i] = q[j] => i = j
        /\ \A y \in 1..m : \E i \in 1..m : q[i] = y
    BY <2>1, <2>2, Permutes
  <2>. QED
    BY <2>2, <2>3 DEF m
<1> DEFINE p == [i \in 1..n |-> IF i = 1 THEN k ELSE c[q[i - 1]]]
<1>11. /\ p[1] = k
       /\ \A i \in 1..n : i # 1 => i - 1 \in 1..(n - 1) /\ p[i] = c[q[i - 1]]
       /\ \A i \in 1..(n - 1) : i + 1 \in 1..n /\ p[i + 1] = c[q[i]]
  <2>1. \A i \in 1..n : i # 1 => i - 1 \in 1..(n - 1)
    BY <1>2
  <2>2. \A i \in 1..(n - 1) : i + 1 \in 1..n /\ i + 1 # 1 /\ (i + 1) - 1 = i
    BY <1>2
  <2>. QED
    BY <1>4, <2>1, <2>2
<1>12. p \in [1..n -> 1..n]
  <2>1. \A i \in 1..n : (IF i = 1 THEN k ELSE c[q[i - 1]]) \in 1..n
    BY <1>6, <1>7, <1>10, <1>11
  <2>. QED
    BY <2>1
<1> HIDE DEF p
<1> DEFINE D == 1..n
           E == 1..(n - 1)
<1> HIDE DEF D, E
<1>13. /\ \A i \in E : c[i] \in D /\ c[i] # k
       /\ \A i, j \in E : c[i] = c[j] => i = j
       /\ \A i \in D : i # 1 => i - 1 \in E /\ q[i - 1] \in E /\ p[i] = c[q[i - 1]]
       /\ \A i, j \in E : q[i] = q[j] => i = j
       /\ \A i, j \in E : i < j => t[q[i]] <= t[q[j]]
       /\ \A i \in E : t[i] = u[c[i]]
       /\ \A i \in D : i \in Nat
  <2>1. \A i \in D : i # 1 => i - 1 \in E /\ p[i] = c[q[i - 1]]
    BY <1>11 DEF D, E
  <2>2. \A i \in E : q[i] \in E
    BY <1>10 DEF E
  <2>3. \A i \in D : i \in Nat
    BY DEF D
  <2>4. /\ \A i \in E : c[i] \in D /\ c[i] # k
        /\ \A i, j \in E : c[i] = c[j] => i = j
        /\ \A i, j \in E : q[i] = q[j] => i = j
        /\ \A i, j \in E : i < j => t[q[i]] <= t[q[j]]
        /\ \A i \in E : t[i] = u[c[i]]
    BY <1>7, <1>8, <1>10 DEF D, E
  <2>. QED
    BY <2>1, <2>2, <2>3, <2>4
<1>14. \A i, j \in D : p[i] = p[j] => i = j
  <2> SUFFICES ASSUME NEW i \in D, NEW j \in D, p[i] = p[j] PROVE i = j
    OBVIOUS
  <2>1. CASE i = 1 \/ j = 1
    <3>1. \A a \in D : a # 1 => q[a - 1] \in E /\ p[a] = c[q[a - 1]]
      BY <1>13
    <3>2. \A a \in E : c[a] # k
      BY <1>13
    <3>3. \A a \in D : a # 1 => p[a] # k
      BY <3>1, <3>2, Zenon
    <3>. QED
      BY <1>11, <2>1, <3>3
  <2>2. CASE i # 1 /\ j # 1
    <3> DEFINE a == q[i - 1]
               b == q[j - 1]
    <3>1. a \in E /\ b \in E /\ p[i] = c[a] /\ p[j] = c[b]
      BY <1>13, <2>2
    <3>2. a = b
      <4>1. \A x, y \in E : c[x] = c[y] => x = y
        BY <1>13
      <4> HIDE DEF a, b
      <4>. QED
        BY <3>1, <4>1, Zenon
    <3>3. i - 1 = j - 1
      BY <1>13, <2>2, <3>2
    <3>. QED
      BY <1>13, <3>3
  <2>. QED
    BY <2>1, <2>2
<1>15. \A y \in 1..n : \E i \in 1..n : p[i] = y
  <2> SUFFICES ASSUME NEW y \in 1..n PROVE \E i \in 1..n : p[i] = y
    OBVIOUS
  <2>1. CASE y = k
    BY <1>4, <1>11, <2>1
  <2>2. CASE y # k
    <3>1. PICK a \in 1..(n - 1) : c[a] = y
      BY <1>7, <2>2
    <3>2. PICK i \in 1..(n - 1) : q[i] = a
      BY <1>10, <3>1
    <3>. QED
      BY <1>11, <3>1, <3>2
  <2>. QED
    BY <2>1, <2>2
<1>16. \A i, j \in D : i < j => u[p[i]] <= u[p[j]]
  <2> SUFFICES ASSUME NEW i \in D, NEW j \in D, i < j PROVE u[p[i]] <= u[p[j]]
    OBVIOUS
  <2>0. p[j] \in 1..n
    BY <1>12 DEF D
  <2>1. CASE i = 1
    BY <1>6, <1>11, <2>0, <2>1
  <2>2. CASE i # 1
    <3>1. j # 1 /\ i - 1 < j - 1
      BY <1>2, <2>2 DEF D
    <3>2. t[q[i - 1]] <= t[q[j - 1]]
      BY <1>13, <2>2, <3>1
    <3>3. t[q[i - 1]] = u[p[i]] /\ t[q[j - 1]] = u[p[j]]
      BY <1>13, <2>2, <3>1
    <3>. QED
      BY <3>2, <3>3
  <2>. QED
    BY <2>1, <2>2
<1>17. Orders(p, u)
  BY <1>2, <1>12, <1>14, <1>15, <1>16, Permutes DEF Orders, Sorts, D
<1>. QED
  BY <1>2, <1>17

(* Sort keeps the names and puts them in order, strictly where none occurs *)
(* twice.                                                                  *)
LEMMA SortNames ==
  ASSUME NEW s \in Seq(Nat), Distinct(s)
  PROVE  /\ Sort(s) \in Seq(Nat)
         /\ \A i \in 1..(Len(Sort(s)) - 1) : Sort(s)[i] < Sort(s)[i + 1]
         /\ \A x : x \in Names(Sort(s)) <=> x \in Names(s)
<1> DEFINE n == Len(s)
           f == CHOOSE g \in Bijection(1..n, 1..n) : Sorts(g, s)
           r == [i \in 1..n |-> s[f[i]]]
<1>0. n \in Nat
  OBVIOUS
<1>1. Orders(f, s)
  <2>1. \E g \in Bijection(1..n, 1..n) : Sorts(g, s)
    BY OrderExists DEF Orders
  <2>. QED
    BY <2>1 DEF Orders
<1>2. Sort(s) = r
  BY DEF Sort
<1> HIDE DEF f
<1>3. /\ f \in [1..n -> 1..n]
      /\ \A i, j \in 1..n : f[i] = f[j] => i = j
      /\ \A y \in 1..n : \E i \in 1..n : f[i] = y
      /\ \A i, j \in 1..n : i < j => s[f[i]] <= s[f[j]]
  BY <1>0, <1>1, Permutes DEF Orders, Sorts
<1>4. r \in Seq(Nat) /\ Len(r) = n /\ \A i \in 1..n : r[i] = s[f[i]] /\ s[f[i]] \in Nat
  <2>1. \A i \in 1..n : s[i] \in Nat
    BY ElementOfSeq
  <2>2. \A i \in 1..n : s[f[i]] \in Nat
    BY <1>3, <2>1
  <2>. QED
    BY <1>0, <2>2, IsASeq
<1> HIDE DEF r
<1>5. \A i \in 1..(n - 1) : r[i] < r[i + 1]
  <2> SUFFICES ASSUME NEW i \in 1..(n - 1) PROVE r[i] < r[i + 1]
    OBVIOUS
  <2>1. i \in 1..n /\ i + 1 \in 1..n /\ i < i + 1
    BY <1>0
  <2>2. i # i + 1
    OBVIOUS
  <2> DEFINE j == i + 1
             D == 1..n
  <2> HIDE DEF j, D
  <2>3. \A a, b \in D : s[a] = s[b] => a = b
    BY DEF Distinct, D
  <2>4. /\ i \in D /\ j \in D /\ i < j /\ i # j
        /\ f[i] \in D /\ f[j] \in D
        /\ r[i] = s[f[i]] /\ r[j] = s[f[j]] /\ r[i] \in Nat /\ r[j] \in Nat
        /\ s[f[i]] <= s[f[j]] /\ f[i] # f[j]
    BY <1>3, <1>4, <2>1, <2>2 DEF j, D
  <2>5. s[f[i]] # s[f[j]]
    BY <2>3, <2>4
  <2>. QED
    BY <2>4, <2>5 DEF j
<1>6. ASSUME NEW x PROVE x \in Names(r) <=> x \in Names(s)
  <2>1. x \in Names(r) <=> \E i \in 1..n : x = s[f[i]]
    BY <1>4 DEF Names
  <2>2. x \in Names(s) <=> \E i \in 1..n : x = s[i]
    BY DEF Names
  <2>. QED
    BY <1>3, <2>1, <2>2
<1>. QED
  BY <1>2, <1>4, <1>5, <1>6

-----------------------------------------------------------------------------
(* The invariant.                                                          *)

Outs == {"none", "up", "down", "hung", "panic", "ctx"}

Typed ==
  /\ checks \in Seq(Checks) /\ Distinct(checks)
  /\ draining \in BOOLEAN
  /\ dep \in [Checks -> {"up", "down", "hung", "panic"}]
  /\ pc \in [Probes -> {"new", "arrived", "clone", "running", "answered"}]
  /\ before \in [Probes -> [draining : BOOLEAN, checks : SUBSET Nat]]
  /\ snapshot \in [Probes -> Seq(Checks)]
  /\ late \in [Probes -> BOOLEAN]
  /\ outcome \in [Probes -> Seq(Outs)]
  /\ result \in [Probes -> Seq({"pending", "nil", "err"})]
  /\ answer \in [Probes -> [status : {"none", "draining", "ready", "not_ready"},
                            failing : Seq(Nat)]]

(* What held when a probe arrived, compared with now.                      *)
Grown(p) ==
  /\ before[p].draining => draining
  /\ before[p].checks \subseteq Names(checks)

(* The slots of a probe that runs or ran its checks.                       *)
Slots(p) ==
  /\ Distinct(snapshot[p])
  /\ before[p].checks \subseteq Names(snapshot[p])
  /\ Len(outcome[p]) = Len(snapshot[p]) /\ Len(result[p]) = Len(snapshot[p])
  /\ \A i \in 1..Len(snapshot[p]) :
       /\ result[p][i] = IF outcome[p][i] = "none" THEN "pending"
                         ELSE RunCheck(outcome[p][i])
       /\ outcome[p][i] = "ctx" => late[p]

(* What the answer of a probe says, as AnswerExact has it.                 *)
Exact(p) ==
  LET f == answer[p].failing
  IN  /\ before[p].checks \subseteq Names(snapshot[p])
      /\ answer[p].status = "ready" <=> f = <<>>
      /\ \A i \in 1..(Len(f) - 1) : f[i] < f[i + 1]
      /\ Names(f) = {snapshot[p][i] : i \in {j \in 1..Len(snapshot[p]) : ~Passed(p, j)}}
      /\ \A i \in 1..Len(outcome[p]) : outcome[p][i] = "ctx" => late[p]

(* How far a probe has come.                                               *)
Stage(p) ==
  /\ pc[p] # "answered" => answer[p].status = "none"
  /\ pc[p] \in {"new", "arrived", "clone"} => snapshot[p] = <<>>
  /\ pc[p] \in {"clone", "running"} => ~before[p].draining
  /\ pc[p] = "running" => Slots(p)
  /\ pc[p] = "answered" =>
       \/ answer[p].status = "draining" /\ snapshot[p] = <<>>
       \/ answer[p].status \in {"ready", "not_ready"} /\ Exact(p) /\ ~before[p].draining

IInv == Typed /\ \A p \in Probes : Grown(p) /\ Stage(p)

-----------------------------------------------------------------------------
(* Before the first registration and probe.                                *)
LEMMA InitHolds == Init => IInv
<1> SUFFICES ASSUME Init PROVE IInv
  OBVIOUS
<1> USE DEF Init
<1>1. Typed
  <2>1. \A S : <<>> \in Seq(S)
    OBVIOUS
  <2>2. Distinct(<<>>)
    BY DEF Distinct
  <2>3. before \in [Probes -> [draining : BOOLEAN, checks : SUBSET Nat]]
    OBVIOUS
  <2>4. answer \in [Probes -> [status : {"none", "draining", "ready", "not_ready"},
                               failing : Seq(Nat)]]
    BY <2>1 DEF NoAnswer
  <2>. QED
    BY <2>1, <2>2, <2>3, <2>4 DEF Typed
<1>2. ASSUME NEW p \in Probes PROVE Grown(p) /\ Stage(p)
  BY DEF Grown, Stage, NoAnswer
<1>. QED
  BY <1>1, <1>2 DEF IInv

(* Nothing of a probe changes while another one, or none, steps.           *)
Same(p) ==
  /\ pc'[p] = pc[p] /\ before'[p] = before[p] /\ snapshot'[p] = snapshot[p]
  /\ late'[p] = late[p] /\ outcome'[p] = outcome[p] /\ result'[p] = result[p]
  /\ answer'[p] = answer[p]

(* A probe whose own state stays as it is keeps its stage.                 *)
LEMMA SameKeeps ==
  ASSUME IInv, NEW p \in Probes, Same(p), draining => draining',
         Names(checks) \subseteq Names(checks)'
  PROVE  Grown(p)' /\ Stage(p)'
<1>1. Grown(p) /\ Stage(p)
  BY DEF IInv
<1>2. Grown(p)'
  BY <1>1 DEF Grown, Same
<1>3. Slots(p)' <=> Slots(p)
  BY DEF Slots, Same
<1>4. Exact(p)' <=> Exact(p)
  BY DEF Exact, Same, Passed
<1>5. Stage(p)'
  BY <1>1, <1>3, <1>4 DEF Stage, Same
<1>. QED
  BY <1>2, <1>5

(* The registry only grows, and never by a name it has.                    *)
LEMMA AddCheckKeeps ==
  ASSUME IInv, NEW c \in Checks, AddCheck(c)
  PROVE  IInv'
<1> USE DEF AddCheck, probeVars
<1>0. Typed
  BY DEF IInv
<1>1. CASE checks' = checks
  <2>1. Typed'
    BY <1>0, <1>1 DEF Typed, Distinct
  <2>2. ASSUME NEW p \in Probes PROVE Grown(p)' /\ Stage(p)'
    BY <1>1, SameKeeps DEF Same, Names
  <2>. QED
    BY <2>1, <2>2 DEF IInv
<1>2. CASE checks' = Append(checks, c) /\ ~Taken(c)
  <2> DEFINE n == Len(checks)
  <2>1. /\ checks' \in Seq(Checks) /\ Len(checks') = n + 1 /\ n \in Nat
        /\ checks'[n + 1] = c /\ \A i \in 1..n : checks'[i] = checks[i]
    BY <1>0, <1>2, AppendProperties DEF Typed
  <2>2. \A i \in 1..(n + 1) : i \in 1..n \/ i = n + 1
    BY <2>1
  <2>3. \A i \in 1..n : checks[i] # c /\ i \in 1..(n + 1)
    BY <1>2, <2>1 DEF Taken, Names
  <2>4. \A i, j \in 1..n : checks[i] = checks[j] => i = j
    BY <1>0 DEF Typed, Distinct
  <2> HIDE DEF n
  <2>5. Distinct(checks')
    <3> SUFFICES ASSUME NEW i \in 1..(n + 1), NEW j \in 1..(n + 1), checks'[i] = checks'[j]
                 PROVE  i = j
      BY <2>1 DEF Distinct
    <3>1. CASE i \in 1..n /\ j \in 1..n
      BY <2>1, <2>4, <3>1
    <3>2. CASE i = n + 1 \/ j = n + 1
      BY <2>1, <2>2, <2>3, <3>2
    <3>. QED
      BY <2>2, <3>1, <3>2
  <2>6. Names(checks) \subseteq Names(checks)'
    BY <2>1, <2>3 DEF Names, n
  <2>7. Typed'
    BY <1>0, <2>1, <2>5 DEF Typed
  <2>8. ASSUME NEW p \in Probes PROVE Grown(p)' /\ Stage(p)'
    BY <2>6, SameKeeps DEF Same
  <2>. QED
    BY <2>7, <2>8 DEF IInv
<1>. QED
  BY <1>1, <1>2

(* Shutdown begins.                                                        *)
LEMMA SetDrainingKeeps ==
  ASSUME IInv, SetDraining
  PROVE  IInv'
<1> USE DEF SetDraining, probeVars
<1>1. Typed'
  BY DEF IInv, Typed, Distinct
<1>2. ASSUME NEW p \in Probes PROVE Grown(p)' /\ Stage(p)'
  BY SameKeeps DEF Same, Names
<1>. QED
  BY <1>1, <1>2 DEF IInv

(* A dependency changes.                                                   *)
LEMMA FlipKeeps ==
  ASSUME IInv, NEW c \in Checks, NEW d \in {"up", "down", "hung", "panic"}, Flip(c, d)
  PROVE  IInv'
<1> USE DEF Flip, probeVars
<1>1. Typed'
  BY DEF IInv, Typed, Distinct
<1>2. ASSUME NEW p \in Probes PROVE Grown(p)' /\ Stage(p)'
  BY SameKeeps DEF Same, Names
<1>. QED
  BY <1>1, <1>2 DEF IInv

(* The steps of one probe.                                                 *)
LEMMA ArriveKeeps ==
  ASSUME IInv, NEW q \in Probes, Arrive(q)
  PROVE  IInv'
<1> USE DEF Arrive
<1>0. Typed /\ Grown(q) /\ Stage(q)
  BY DEF IInv
<1>1. Names(checks) \in SUBSET Nat
  <2>1. \A i \in 1..Len(checks) : checks[i] \in Checks
    BY <1>0, ElementOfSeq DEF Typed
  <2>. QED
    BY <2>1, ChecksAssumption DEF Names
<1>2. Typed'
  BY <1>0, <1>1 DEF Typed, Distinct
<1>3. ASSUME NEW p \in Probes, p # q PROVE Grown(p)' /\ Stage(p)'
  BY <1>0, <1>3, SameKeeps DEF Same, Names, Typed
<1>4. /\ pc'[q] = "arrived" /\ pc[q] = "new" /\ answer'[q] = answer[q]
      /\ snapshot'[q] = snapshot[q] /\ draining' = draining /\ checks' = checks
      /\ before'[q].draining = draining /\ before'[q].checks = Names(checks)
  BY <1>0 DEF Typed
<1>5. Grown(q)' /\ Stage(q)'
  BY <1>0, <1>4 DEF Grown, Stage, Names
<1>. QED
  BY <1>2, <1>3, <1>5 DEF IInv

(* The handler saw the flag.                                               *)
LEMMA AnswerDrainingKeeps ==
  ASSUME IInv, NEW q \in Probes, AnswerDraining(q)
  PROVE  IInv'
<1> USE DEF AnswerDraining, Respond
<1>0. Typed /\ Grown(q) /\ Stage(q)
  BY DEF IInv
<1>1. <<>> \in Seq(Nat)
  OBVIOUS
<1>2. Typed'
  BY <1>0, <1>1 DEF Typed, Distinct
<1>3. ASSUME NEW p \in Probes, p # q PROVE Grown(p)' /\ Stage(p)'
  BY <1>0, <1>3, SameKeeps DEF Same, Names, Typed
<1>4. /\ pc'[q] = "answered" /\ pc[q] = "arrived" /\ answer'[q].status = "draining"
      /\ snapshot'[q] = snapshot[q] /\ draining' = draining /\ checks' = checks
      /\ before'[q] = before[q]
  BY <1>0 DEF Typed
<1>5. Grown(q)' /\ Stage(q)'
  BY <1>0, <1>4 DEF Grown, Stage, Names
<1>. QED
  BY <1>2, <1>3, <1>5 DEF IInv

(* The handler did not.                                                    *)
LEMMA ServingKeeps ==
  ASSUME IInv, NEW q \in Probes, Serving(q)
  PROVE  IInv'
<1> USE DEF Serving
<1>0. Typed /\ Grown(q) /\ Stage(q)
  BY DEF IInv
<1>1. Typed'
  BY <1>0 DEF Typed, Distinct
<1>2. ASSUME NEW p \in Probes, p # q PROVE Grown(p)' /\ Stage(p)'
  BY <1>0, <1>2, SameKeeps DEF Same, Names, Typed
<1>3. /\ pc'[q] = "clone" /\ pc[q] = "arrived" /\ answer'[q] = answer[q] /\ ~draining
      /\ snapshot'[q] = snapshot[q] /\ draining' = draining /\ checks' = checks
      /\ before'[q] = before[q]
  BY <1>0 DEF Typed
<1>4. Grown(q)' /\ Stage(q)'
  BY <1>0, <1>3 DEF Grown, Stage, Names
<1>. QED
  BY <1>1, <1>2, <1>4 DEF IInv

(* The registry is cloned and a goroutine started for every check.         *)
LEMMA RunChecksKeeps ==
  ASSUME IInv, NEW q \in Probes, RunChecks(q)
  PROVE  IInv'
<1> USE DEF RunChecks, ResultSlots
<1>0. Typed /\ Grown(q) /\ Stage(q)
  BY DEF IInv
<1> DEFINE n == Len(checks)
           fresh(x) == [i \in 1..n |-> x]
<1>1. /\ n \in Nat /\ fresh("none") \in Seq(Outs)
      /\ fresh("pending") \in Seq({"pending", "nil", "err"})
      /\ Len(fresh("none")) = n /\ Len(fresh("pending")) = n
  BY <1>0 DEF Typed, Outs
<1>2. Typed'
  <2> HIDE DEF fresh
  <2>1. /\ outcome' = [outcome EXCEPT ![q] = fresh("none")]
        /\ result' = [result EXCEPT ![q] = fresh("pending")]
    BY DEF fresh
  <2>. QED
    BY <1>0, <1>1, <2>1 DEF Typed, Distinct
<1>3. ASSUME NEW p \in Probes, p # q PROVE Grown(p)' /\ Stage(p)'
  BY <1>0, <1>3, SameKeeps DEF Same, Names, Typed
<1>4. /\ pc'[q] = "running" /\ pc[q] = "clone" /\ answer'[q] = answer[q]
      /\ snapshot'[q] = checks /\ draining' = draining /\ checks' = checks
      /\ before'[q] = before[q]
      /\ outcome'[q] = fresh("none") /\ result'[q] = fresh("pending")
  BY <1>0 DEF Typed
<1>5. /\ Distinct(checks) /\ before[q].checks \subseteq Names(checks)
      /\ \A i \in 1..n : fresh("none")[i] = "none" /\ fresh("pending")[i] = "pending"
  BY <1>0 DEF Typed, Grown
<1>6. Slots(q)'
  <2> HIDE DEF fresh
  <2>. QED
    BY <1>1, <1>4, <1>5 DEF Slots
<1>7. Grown(q)' /\ Stage(q)'
  BY <1>0, <1>4, <1>6 DEF Grown, Stage, Names
<1>. QED
  BY <1>2, <1>3, <1>7 DEF IInv

(* The context of a probe expires.                                         *)
LEMMA DeadlineKeeps ==
  ASSUME IInv, NEW q \in Probes, Deadline(q)
  PROVE  IInv'
<1> USE DEF Deadline
<1>0. Typed /\ Grown(q) /\ Stage(q)
  BY DEF IInv
<1>1. Typed'
  BY <1>0 DEF Typed, Distinct
<1>2. ASSUME NEW p \in Probes, p # q PROVE Grown(p)' /\ Stage(p)'
  BY <1>0, <1>2, SameKeeps DEF Same, Names, Typed
<1>3. /\ pc[q] = "running" /\ pc' = pc /\ answer' = answer /\ late'[q]
      /\ snapshot' = snapshot /\ draining' = draining /\ checks' = checks
      /\ before' = before /\ outcome' = outcome /\ result' = result
  BY <1>0 DEF Typed
<1>4. Slots(q)'
  BY <1>0, <1>3 DEF Slots, Stage
<1>5. Grown(q)' /\ Stage(q)'
  BY <1>0, <1>3, <1>4 DEF Grown, Stage, Names
<1>. QED
  BY <1>1, <1>2, <1>5 DEF IInv

(* A check of a probe returns.                                             *)
LEMMA CheckReturnsKeeps ==
  ASSUME IInv, NEW q \in Probes, NEW k, CheckReturns(q, k)
  PROVE  IInv'
<1> USE DEF CheckReturns
<1>0. Typed /\ Grown(q) /\ Stage(q) /\ Slots(q)
  BY DEF IInv, Stage
<1>1. /\ k \in 1..Len(snapshot[q]) /\ snapshot[q][k] \in Checks /\ result[q][k] = "pending"
      /\ Len(outcome[q]) = Len(snapshot[q]) /\ Len(result[q]) = Len(snapshot[q])
  <2>1. snapshot[q] \in Seq(Checks)
    BY <1>0 DEF Typed
  <2>. QED
    BY <1>0, <2>1, ElementOfSeq DEF Slots
<1>2. PICK o \in Outcomes(q, snapshot[q][k]) :
        /\ outcome' = [outcome EXCEPT ![q][k] = o]
        /\ result' = [result EXCEPT ![q][k] = RunCheck(o)]
  OBVIOUS
<1>3. o \in Outs /\ o # "none" /\ (o = "ctx" => late[q])
  <2>1. dep[snapshot[q][k]] \in {"up", "down", "hung", "panic"}
    BY <1>0, <1>1 DEF Typed
  <2>2. EffectiveTimeout # 0
    BY DEF EffectiveTimeout
  <2>. QED
    BY <2>1, <2>2 DEF Outcomes, Cancelled, Outs
<1> DEFINE u == [outcome[q] EXCEPT ![k] = o]
           r == [result[q] EXCEPT ![k] = RunCheck(o)]
<1>4. /\ outcome[q] \in Seq(Outs) /\ result[q] \in Seq({"pending", "nil", "err"})
      /\ RunCheck(o) \in {"pending", "nil", "err"}
  BY <1>0 DEF Typed, RunCheck
<1>5. /\ u \in Seq(Outs) /\ r \in Seq({"pending", "nil", "err"})
      /\ Len(u) = Len(snapshot[q]) /\ Len(r) = Len(snapshot[q])
      /\ u[k] = o /\ r[k] = RunCheck(o)
      /\ \A i \in 1..Len(snapshot[q]) : i # k => u[i] = outcome[q][i] /\ r[i] = result[q][i]
  BY <1>1, <1>3, <1>4, ExceptSeq
<1>6. outcome' = [outcome EXCEPT ![q] = u] /\ result' = [result EXCEPT ![q] = r]
  BY <1>2
<1> HIDE DEF u, r
<1>7. Typed'
  BY <1>0, <1>5, <1>6 DEF Typed, Distinct
<1>8. ASSUME NEW p \in Probes, p # q PROVE Grown(p)' /\ Stage(p)'
  BY <1>0, <1>6, <1>8, SameKeeps DEF Same, Names, Typed
<1>9. /\ pc[q] = "running" /\ pc' = pc /\ answer' = answer /\ late' = late
      /\ snapshot' = snapshot /\ draining' = draining /\ checks' = checks
      /\ before' = before /\ outcome'[q] = u /\ result'[q] = r
  BY <1>0, <1>6 DEF Typed
<1>10. Slots(q)'
  <2>1. ASSUME NEW i \in 1..Len(snapshot[q])
        PROVE  /\ r[i] = IF u[i] = "none" THEN "pending" ELSE RunCheck(u[i])
               /\ u[i] = "ctx" => late[q]
    BY <1>0, <1>3, <1>5 DEF Slots
  <2>. QED
    BY <1>0, <1>5, <1>9, <2>1 DEF Slots
<1>11. Grown(q)' /\ Stage(q)'
  BY <1>0, <1>9, <1>10 DEF Grown, Stage, Names
<1>. QED
  BY <1>7, <1>8, <1>11 DEF IInv

(* Where every slot is filled, the sorted names are those of the checks    *)
(* that did not pass.                                                      *)
LEMMA AnswerChecksKeeps ==
  ASSUME IInv, NEW q \in Probes, AnswerChecks(q)
  PROVE  IInv'
<1> USE DEF AnswerChecks, Respond
<1>0. Typed /\ Grown(q) /\ Stage(q) /\ Slots(q)
  BY DEF IInv, Stage
<1> DEFINE names == snapshot[q]
           c == Collected(names, result[q])
           f == Failing(q)
<1>1. names \in Seq(Nat) /\ Distinct(names) /\ Len(result[q]) = Len(names)
  <2>1. names \in Seq(Checks)
    BY <1>0 DEF Typed
  <2>2. \A i \in 1..Len(names) : names[i] \in Nat
    BY <2>1, ElementOfSeq, ChecksAssumption
  <2>3. names \in Seq(Nat)
    BY <2>1, <2>2
  <2>. QED
    BY <1>0, <2>3 DEF Slots
<1>2. /\ c \in Seq(Nat) /\ Distinct(c)
      /\ \A x : x \in Names(c) <=> \E j \in 1..Len(names) : result[q][j] = "err" /\ x = names[j]
  <2> DEFINE res == result[q]
  <2>1. Len(res) = Len(names) /\ names \in Seq(Nat) /\ Distinct(names)
    BY <1>1
  <2> HIDE DEF names, res
  <2>2. /\ Collected(names, res) \in Seq(Nat) /\ Distinct(Collected(names, res))
        /\ \A x : x \in Names(Collected(names, res)) <=>
             \E j \in 1..Len(names) : res[j] = "err" /\ x = names[j]
    BY <2>1, CollectedNames
  <2>. QED
    BY <2>2 DEF res
<1>3. f = Sort(c)
  BY DEF Failing
<1>4. /\ f \in Seq(Nat)
      /\ \A i \in 1..(Len(f) - 1) : f[i] < f[i + 1]
      /\ \A x : x \in Names(f) <=> x \in Names(c)
  <2> HIDE DEF c, f
  <2>. QED
    BY <1>2, <1>3, SortNames
<1>5. \A j \in 1..Len(names) : result[q][j] = "err" <=> ~Passed(q, j)
  BY <1>0 DEF Slots, Finished, Passed, RunCheck
<1>6. Names(f) = {names[i] : i \in {j \in 1..Len(names) : ~Passed(q, j)}}
  <2>1. \A x : x \in Names(f) <=> \E j \in 1..Len(names) : ~Passed(q, j) /\ x = names[j]
    BY <1>2, <1>4, <1>5
  <2> HIDE DEF f, names
  <2>. QED
    BY <2>1
<1> HIDE DEF f
<1>7. /\ answer' = [answer EXCEPT ![q] = [status |-> IF f = <<>> THEN "ready" ELSE "not_ready",
                                          failing |-> f]]
      /\ pc' = [pc EXCEPT ![q] = "answered"]
  BY DEF f
<1>8. Typed'
  BY <1>0, <1>4, <1>7 DEF Typed, Distinct
<1>9. ASSUME NEW p \in Probes, p # q PROVE Grown(p)' /\ Stage(p)'
  BY <1>0, <1>7, <1>9, SameKeeps DEF Same, Names, Typed
<1>10. /\ pc'[q] = "answered" /\ pc[q] = "running"
       /\ answer'[q].failing = f
       /\ answer'[q].status \in {"ready", "not_ready"}
       /\ answer'[q].status = "ready" <=> f = <<>>
       /\ snapshot' = snapshot /\ draining' = draining /\ checks' = checks
       /\ before' = before /\ outcome' = outcome /\ late' = late
  BY <1>0, <1>7 DEF Typed
<1>11. Exact(q)'
  <2>1. \A i \in 1..Len(outcome[q]) : outcome[q][i] = "ctx" => late[q]
    BY <1>0 DEF Slots
  <2>2. before[q].checks \subseteq Names(snapshot[q])
    BY <1>0 DEF Slots
  <2>3. \A j : Passed(q, j)' <=> Passed(q, j)
    BY <1>10 DEF Passed
  <2>4. (Names(answer[q].failing) = {snapshot[q][i] : i \in {j \in 1..Len(snapshot[q]) : ~Passed(q, j)}})'
    BY <1>6, <1>10, <2>3
  <2>. QED
    BY <1>4, <1>10, <2>1, <2>2, <2>4 DEF Exact
<1>12. Grown(q)' /\ Stage(q)'
  BY <1>0, <1>10, <1>11 DEF Grown, Stage, Names
<1>. QED
  BY <1>8, <1>9, <1>12 DEF IInv

(* One case per action.                                                    *)
THEOREM Inductive == Spec => []IInv
<1>1. ASSUME IInv, [Next]_vars PROVE IInv'
  <2>1. CASE UNCHANGED vars
    <3>1. Typed'
      BY <1>1, <2>1 DEF vars, probeVars, IInv, Typed, Distinct
    <3>2. ASSUME NEW p \in Probes PROVE Grown(p)' /\ Stage(p)'
      BY <1>1, <2>1, SameKeeps DEF vars, probeVars, Same, Names
    <3>. QED
      BY <3>1, <3>2 DEF IInv
  <2>2. ASSUME NEW c \in Checks, AddCheck(c) PROVE IInv'
    BY <1>1, <2>2, AddCheckKeeps
  <2>3. CASE SetDraining
    BY <1>1, <2>3, SetDrainingKeeps
  <2>4. ASSUME NEW c \in Checks, NEW d \in {"up", "down", "hung", "panic"}, Flip(c, d)
        PROVE  IInv'
    BY <1>1, <2>4, FlipKeeps
  <2>5. ASSUME NEW p \in Probes, Arrive(p) \/ HandlerStep(p) \/ CheckStep(p) \/ Deadline(p)
        PROVE  IInv'
    <3>1. CASE HandlerStep(p)
      BY <1>1, <3>1, AnswerDrainingKeeps, ServingKeeps, RunChecksKeeps, AnswerChecksKeeps
         DEF HandlerStep
    <3>2. CASE CheckStep(p)
      BY <1>1, <3>2, CheckReturnsKeeps DEF CheckStep
    <3>. QED
      BY <1>1, <2>5, <3>1, <3>2, ArriveKeeps, DeadlineKeeps
  <2>. QED
    BY <1>1, <2>1, <2>2, <2>3, <2>4, <2>5 DEF Next
<1>. QED
  BY <1>1, InitHolds, PTL DEF Spec

(* For any registry, any timeout and any interleaving of probes with       *)
(* registrations, outages and deadlines, the answer of failing names       *)
(* exactly the checks that did not pass in the probe, sorted.              *)
THEOREM AnswerAlwaysExact == Spec => []AnswerExact
<1>1. IInv => AnswerExact
  <2> SUFFICES ASSUME IInv, NEW p \in Probes, answer[p].status \in {"ready", "not_ready"}
               PROVE  Exact(p)
    BY DEF AnswerExact, Exact
  <2>. QED
    BY DEF IInv, Stage
<1>. QED
  BY <1>1, Inductive, PTL

(* For any number of probes, one that arrives after SetDraining runs no    *)
(* check and is answered "draining".                                       *)
THEOREM DrainingAlwaysWins == Spec => []DrainingWins
<1>1. IInv => DrainingWins
  <2> SUFFICES ASSUME IInv, NEW p \in Probes, before[p].draining
               PROVE  answer[p].status \in {"none", "draining"} /\ snapshot[p] = <<>>
    BY DEF DrainingWins
  <2>1. Stage(p) /\ pc[p] \in {"new", "arrived", "clone", "running", "answered"}
    BY DEF IInv, Typed
  <2>. QED
    BY <2>1 DEF Stage
<1>. QED
  BY <1>1, Inductive, PTL
=============================================================================
