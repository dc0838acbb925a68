------------------------- MODULE SubsequenceProofs --------------------------
(***************************************************************************)
(* What a loop over a sequence leaves behind, for any sequence: a value    *)
(* computed from place to place (Recursion) and the items that are kept of *)
(* a sequence (OnlyPlaces, OnlyAppend, OnlyHead).                          *)
(*                                                                         *)
(* The library has no induction over a sequence that can be used here, so  *)
(* what holds at every place is a set of places that has all of them       *)
(* (UpToPlace), from the least natural number outside it (LeastNatural).   *)
(***************************************************************************)
EXTENDS Subsequences, Integers, SequenceTheorems, WellFoundedInduction, TLAPS

\* Numbers have a least one: what every loop over a sequence of rules, messages
\* or hashes rests on.
LEMMA LeastNatural ==
  ASSUME NEW S \in SUBSET Nat, S # {}
  PROVE  \E n \in S : \A m \in S : n <= m
<1> DEFINE R == OpToRel(<, Nat)
<1>1. IsWellFoundedOn(R, Nat)
  BY NatLessThanWellFounded, Zenon
<1>2. \A m, n \in Nat : <<m, n>> \in R <=> m < n
  BY DEF OpToRel
<1> HIDE DEF R
<1>3. PICK n \in S : \A m \in S : ~(<<m, n>> \in R)
  BY <1>1, WFMin, Zenon
<1>4. ASSUME NEW m \in S PROVE n <= m
  <2>1. m \in Nat /\ n \in Nat
    OBVIOUS
  <2>2. ~(m < n)
    BY <1>2, <1>3, <2>1
  <2>3. QED
    BY <2>1, <2>2
<1>5. QED
  BY <1>4

\* Induction over the places of a sequence, as a fact about a set of numbers.
LEMMA UpToPlace ==
  ASSUME NEW N \in Nat, NEW S \in SUBSET (0..N), 0 \in S,
         \A n \in 1..N : n - 1 \in S => n \in S
  PROVE  S = 0..N
<1> DEFINE Rest == (0..N) \ S
<1>1. SUFFICES ASSUME Rest # {} PROVE FALSE
  OBVIOUS
<1>2. Rest \in SUBSET Nat
  OBVIOUS
<1>3. PICK n \in Rest : \A m \in Rest : n <= m
  BY <1>1, <1>2, LeastNatural
<1>4. n \in 1..N
  OBVIOUS
<1>5. n - 1 \in 0..N /\ n - 1 < n
  BY <1>4
<1>6. n - 1 \in S
  BY <1>3, <1>5
<1>7. QED
  BY <1>4, <1>6

\* What is computed from place to place, g giving the next value.
Computes(f, S, a, N, g) == /\ f \in [0..N -> S]
                           /\ f[0] = a
                           /\ \A n \in 1..N : f[n] = g[<<n, f[n - 1]>>]

\* It is defined at every place.
LEMMA Recursion ==
  ASSUME NEW S, NEW a \in S, NEW N \in Nat, NEW g \in [(1..N) \X S -> S]
  PROVE  \E f : Computes(f, S, a, N, g)
<1> DEFINE Upto(f, n) == /\ f[0] = a
                         /\ \A m \in 1..n : f[m] = g[<<m, f[m - 1]>>]
           Good == {n \in 0..N : \E f \in [0..N -> S] : Upto(f, n)}
<1>1. 0 \in Good
  <2>1. [m \in 0..N |-> a] \in [0..N -> S] /\ Upto([m \in 0..N |-> a], 0)
    OBVIOUS
  <2>2. 0 \in 0..N
    OBVIOUS
  <2>3. QED
    BY <2>1, <2>2
<1>2. ASSUME NEW n \in 1..N, n - 1 \in Good PROVE n \in Good
  <2>1. PICK f \in [0..N -> S] : Upto(f, n - 1)
    BY <1>2
  <2>2. n - 1 \in 0..N /\ n \in 0..N /\ f[n - 1] \in S
    OBVIOUS
  <2>3. PICK y \in S : y = g[<<n, f[n - 1]>>]
    BY <2>2
  <2> DEFINE h == [f EXCEPT ![n] = y]
  <2>4. h \in [0..N -> S] /\ h[0] = a
    BY <2>1
  <2>5. ASSUME NEW m \in 1..n PROVE h[m] = g[<<m, h[m - 1]>>]
    <3>1. m - 1 \in 0..N /\ m - 1 # n /\ m \in 0..N
      OBVIOUS
    <3>2. h[m - 1] = f[m - 1]
      BY <3>1
    <3>3. CASE m = n
      BY <2>2, <2>3, <3>2, <3>3
    <3>4. CASE m # n
      <4>1. m \in 1..n - 1 /\ h[m] = f[m]
        BY <3>1, <3>4
      <4>2. QED
        BY <2>1, <3>2, <4>1
    <3>5. QED
      BY <3>3, <3>4
  <2> HIDE DEF h
  <2>6. Upto(h, n)
    BY <2>4, <2>5
  <2>7. QED
    BY <2>2, <2>4, <2>6
<1>3. Good \in SUBSET (0..N)
  OBVIOUS
<1> HIDE DEF Good
<1>4. Good = 0..N
  BY <1>1, <1>2, <1>3, UpToPlace
<1>5. N \in Good
  BY <1>4
<1>6. QED
  BY <1>5 DEF Good, Computes

\* What is kept of the items up to each place.
Keeps(kept, q, P, T) ==
  /\ kept \in [0..Len(q) -> Seq(T)]
  /\ kept[0] = <<>>
  /\ \A n \in 1..Len(q) :
       kept[n] = IF q[n] \in P THEN Append(kept[n - 1], q[n]) ELSE kept[n - 1]

\* What Only keeps is computed place by place (Vec::retain, Iterator::filter).
LEMMA OnlyRecursive ==
  ASSUME NEW T, NEW q \in Seq(T), NEW P
  PROVE  \E kept : Keeps(kept, q, P, T) /\ Only(q, P) = kept[Len(q)]
<1>1. PICK N \in Nat : N = Len(q)
  BY LenProperties
<1>2. \A n \in 1..N : q[n] \in T
  BY <1>1, ElementOfSeq
<1> DEFINE Next1(n, k) == IF q[n] \in P THEN Append(k, q[n]) ELSE k
           g == [p \in (1..N) \X Seq(T) |-> Next1(p[1], p[2])]
<1>3. ASSUME NEW n \in 1..N, NEW k \in Seq(T)
      PROVE  Next1(n, k) \in Seq(T)
  BY <1>2, AppendProperties
<1>4. <<>> \in Seq(T)
  OBVIOUS
<1> DEFINE body(k, n) == IF n = 0 THEN <<>>
                         ELSE IF q[n] \in P THEN Append(k[n - 1], q[n])
                              ELSE k[n - 1]
           rec(k) == k = [n \in 0..Len(q) |-> body(k, n)]
           kept == CHOOSE k : rec(k)
<1>5. \E f : rec(f)
  <2> HIDE DEF Next1
  <2>1. ASSUME NEW p \in (1..N) \X Seq(T) PROVE g[p] \in Seq(T)
    BY <1>3
  <2>2. g \in [(1..N) \X Seq(T) -> Seq(T)]
    BY <2>1
  <2>3. \A n \in 1..N : \A k \in Seq(T) : g[<<n, k>>] = Next1(n, k)
    OBVIOUS
  <2> HIDE DEF g
  <2>4. PICK f : Computes(f, Seq(T), <<>>, N, g)
    <3> DEFINE V == Seq(T)
               a == <<>>
    <3>1. a \in V /\ g \in [(1..N) \X V -> V] /\ N \in Nat
      BY <1>4, <2>2
    <3> HIDE DEF V, a
    <3>2. \E f : Computes(f, V, a, N, g)
      BY ONLY <3>1, Recursion
    <3>3. QED
      BY <3>2 DEF V, a
  <2>5. ASSUME NEW n \in 1..N PROVE f[n] = Next1(n, f[n - 1])
    <3>1. n - 1 \in 0..N /\ f[n - 1] \in Seq(T)
      BY <2>4 DEF Computes
    <3>2. QED
      BY <2>3, <2>4, <3>1 DEF Computes
  <2>6. ASSUME NEW n \in 0..N PROVE f[n] = body(f, n)
    <3>1. CASE n = 0
      BY <2>4, <3>1 DEF Computes
    <3>2. CASE n # 0
      <4>1. n \in 1..N
        BY <3>2
      <4>2. QED
        BY <2>5, <4>1, <3>2 DEF Next1
    <3>3. QED
      BY <3>1, <3>2
  <2>7. f = [n \in 0..N |-> f[n]]
    BY <2>4 DEF Computes
  <2> HIDE DEF body
  <2>8. [n \in 0..N |-> f[n]] = [n \in 0..N |-> body(f, n)]
    BY <2>6
  <2>9. QED
    BY <1>1, <2>7, <2>8
<1>6. rec(kept)
  <2> HIDE DEF rec
  <2> QED
    BY <1>5, Zenon
<1>7. Only(q, P) = kept[Len(q)]
  BY DEF Only
<1> HIDE DEF kept
<1>8. DOMAIN kept = 0..N /\ \A n \in 0..N : kept[n] = body(kept, n)
  <2> HIDE DEF body
  <2> QED
    BY <1>1, <1>6
<1>9. kept = [n \in 0..N |-> kept[n]]
  <2>1. kept = [n \in 0..N |-> body(kept, n)]
    BY <1>1, <1>6
  <2> HIDE DEF body, rec
  <2>2. QED
    BY ONLY <2>1
<1>10. kept[0] = <<>> /\ \A n \in 1..N : kept[n] = Next1(n, kept[n - 1])
  <2>1. 0 \in 0..N /\ \A n \in 1..N : n \in 0..N /\ n # 0
    OBVIOUS
  <2>2. QED
    BY <1>8, <2>1
<1> HIDE DEF body, rec
<1> DEFINE Typed == {n \in 0..N : kept[n] \in Seq(T)}
<1>11. Typed = 0..N
  <2>1. 0 \in Typed
    <3>1. 0 \in 0..N /\ kept[0] \in Seq(T)
      BY <1>4, <1>10
    <3> HIDE DEF Next1
    <3>2. QED
      BY <3>1
  <2>2. ASSUME NEW n \in 1..N, n - 1 \in Typed PROVE n \in Typed
    <3>1. kept[n - 1] \in Seq(T)
      BY <2>2
    <3> HIDE DEF Next1
    <3>2. QED
      BY <1>3, <1>10, <3>1
  <2>3. Typed \in SUBSET (0..N)
    OBVIOUS
  <2> HIDE DEF Typed
  <2>4. QED
    BY <2>1, <2>2, <2>3, UpToPlace
<1>12. kept \in [0..N -> Seq(T)]
  BY <1>9, <1>11
<1>13. \A n \in 1..N : kept[n] = IF q[n] \in P THEN Append(kept[n - 1], q[n])
                                  ELSE kept[n - 1]
  BY <1>10
<1> HIDE DEF Next1
<1>14. Keeps(kept, q, P, T)
  BY <1>1, <1>10, <1>12, <1>13 DEF Keeps
<1>15. QED
  BY <1>7, <1>14, Zenon

\* What is kept of a sequence q is r, from the increasing places p.
KeptFrom(p, r, q, P) ==
  /\ p \in [1..Len(r) -> 1..Len(q)]
  /\ \A k \in 1..Len(r) : r[k] = q[p[k]] /\ q[p[k]] \in P
  /\ \A k, l \in 1..Len(r) : k < l => p[k] < p[l]
  /\ \A i \in 1..Len(q) : q[i] \in P => \E k \in 1..Len(r) : p[k] = i

\* What is kept comes from increasing places, which are all those of its items
\* (Vec::retain, Iterator::filter).
LEMMA OnlyPlaces ==
  ASSUME NEW T, NEW q \in Seq(T), NEW P
  PROVE  Only(q, P) \in Seq(T) /\ \E p : KeptFrom(p, Only(q, P), q, P)
<1>1. PICK N \in Nat : N = Len(q)
  BY LenProperties
<1>2. PICK kept : Keeps(kept, q, P, T) /\ Only(q, P) = kept[Len(q)]
  BY OnlyRecursive, Zenon
<1>3. /\ kept \in [0..N -> Seq(T)]
      /\ kept[0] = <<>>
      /\ \A n \in 1..N : kept[n] = IF q[n] \in P THEN Append(kept[n - 1], q[n])
                                   ELSE kept[n - 1]
      /\ Only(q, P) = kept[N]
  BY <1>1, <1>2 DEF Keeps
<1>4. \A n \in 1..N : q[n] \in T
  BY <1>1, ElementOfSeq
<1> DEFINE Places(r, n, p) ==
             /\ p \in [1..Len(r) -> 1..n]
             /\ \A k \in 1..Len(r) : r[k] = q[p[k]] /\ q[p[k]] \in P
             /\ \A k, l \in 1..Len(r) : k < l => p[k] < p[l]
             /\ \A i \in 1..n : q[i] \in P => \E k \in 1..Len(r) : p[k] = i
           Good == {n \in 0..N : \E p : Places(kept[n], n, p)}
<1>5. 0 \in Good
  <2>1. 0 \in 0..N /\ Len(kept[0]) = 0 /\ 1..0 = {}
    BY <1>3
  <2>2. Places(kept[0], 0, [k \in 1..0 |-> k])
    BY <2>1
  <2> HIDE DEF Places
  <2>3. QED
    BY <2>1, <2>2
<1>6. ASSUME NEW n \in 1..N, n - 1 \in Good PROVE n \in Good
  <2>1. n \in 0..N /\ n - 1 \in 0..N
    OBVIOUS
  <2> DEFINE r == kept[n - 1]
  <2>2. r \in Seq(T) /\ q[n] \in T
    BY <1>3, <1>4, <2>1
  <2>3. PICK p : Places(r, n - 1, p)
    BY <1>6
  <2>4. kept[n] = IF q[n] \in P THEN Append(r, q[n]) ELSE r
    BY <1>3
  <2> HIDE DEF r
  <2>5. PICK m \in Nat : m = Len(r)
    BY <2>2, LenProperties
  <2>6. /\ \A k \in 1..m : p[k] \in 1..n - 1 /\ r[k] = q[p[k]] /\ q[p[k]] \in P
        /\ \A k, l \in 1..m : k < l => p[k] < p[l]
        /\ \A i \in 1..n - 1 : q[i] \in P => \E k \in 1..m : p[k] = i
        /\ p \in [1..m -> 1..n - 1]
    BY <2>3, <2>5
  <2>7. CASE q[n] \notin P
    <3>1. p \in [1..m -> 1..n]
      <4>1. \A k \in 1..m : p[k] \in 1..n
        BY <2>6
      <4>2. QED
        BY <2>6, <4>1
    <3>2. \A i \in 1..n : q[i] \in P => \E k \in 1..m : p[k] = i
      <4>1. \A i \in 1..n : q[i] \in P => i \in 1..n - 1
        BY <2>7
      <4>2. QED
        BY <2>6, <4>1
    <3>3. Places(r, n, p)
      BY <2>5, <2>6, <3>1, <3>2
    <3> HIDE DEF Places
    <3>4. QED
      BY <2>1, <2>4, <2>7, <3>3
  <2>8. CASE q[n] \in P
    <3> DEFINE s == Append(r, q[n])
               t == [k \in 1..m + 1 |-> IF k = m + 1 THEN n ELSE p[k]]
    <3>1. Len(s) = m + 1 /\ s[m + 1] = q[n] /\ \A k \in 1..m : s[k] = r[k]
      BY <2>2, <2>5, AppendProperties
    <3>2. \A k \in 1..m + 1 : k = m + 1 \/ k \in 1..m
      OBVIOUS
    <3>3. t[m + 1] = n /\ \A k \in 1..m : t[k] = p[k]
      OBVIOUS
    <3>4. t \in [1..m + 1 -> 1..n]
      <4>1. \A k \in 1..m : p[k] \in 1..n
        BY <2>6
      <4>2. QED
        BY <4>1
    <3> HIDE DEF s, t
    <3>5. \A k \in 1..m + 1 : s[k] = q[t[k]] /\ q[t[k]] \in P
      BY <2>6, <2>8, <3>1, <3>2, <3>3
    <3>6. ASSUME NEW k \in 1..m + 1, NEW l \in 1..m + 1, k < l PROVE t[k] < t[l]
      <4>1. k \in 1..m /\ p[k] \in 1..n - 1 /\ t[k] = p[k]
        BY <2>6, <3>2, <3>3, <3>6
      <4>2. CASE l = m + 1
        BY <3>3, <4>1, <4>2
      <4>3. CASE l \in 1..m
        BY <2>6, <3>3, <3>6, <4>1, <4>3
      <4>4. QED
        BY <3>2, <4>2, <4>3
    <3>7. ASSUME NEW i \in 1..n, q[i] \in P PROVE \E k \in 1..m + 1 : t[k] = i
      <4>1. CASE i = n
        <5>1. m + 1 \in 1..m + 1
          OBVIOUS
        <5>2. QED
          BY <3>3, <4>1, <5>1
      <4>2. CASE i # n
        <5>1. i \in 1..n - 1
          BY <4>2
        <5>2. PICK k \in 1..m : p[k] = i
          BY <2>6, <3>7, <5>1
        <5>3. k \in 1..m + 1
          OBVIOUS
        <5>4. QED
          BY <3>3, <5>2, <5>3
      <4>3. QED
        BY <4>1, <4>2
    <3>8. Places(s, n, t)
      BY <3>1, <3>4, <3>5, <3>6, <3>7
    <3> HIDE DEF Places
    <3>9. QED
      BY <2>1, <2>4, <2>8, <3>8 DEF s
  <2>9. QED
    BY <2>7, <2>8
<1>7. Good \in SUBSET (0..N)
  OBVIOUS
<1> HIDE DEF Good
<1>8. Good = 0..N
  BY <1>5, <1>6, <1>7, UpToPlace
<1>9. N \in Good /\ N \in 0..N
  BY <1>8
<1>10. PICK p : Places(kept[N], N, p)
  BY <1>9 DEF Good
<1>11. kept[N] \in Seq(T)
  BY <1>3, <1>9
<1> DEFINE r == Only(q, P)
<1>12. r \in Seq(T)
  BY <1>3, <1>11
<1>13. Places(r, Len(q), p)
  <2> HIDE DEF Places
  <2>1. QED
    BY <1>1, <1>3, <1>10
<1> HIDE DEF r
<1>14. KeptFrom(p, r, q, P)
  BY <1>13 DEF KeptFrom
<1>15. QED
  BY <1>12, <1>14 DEF r

\* One more item: it is kept behind the others, or not (Iterator::filter).
LEMMA OnlyAppend ==
  ASSUME NEW T, NEW q \in Seq(T), NEW x \in T, NEW P
  PROVE  Only(Append(q, x), P) = IF x \in P THEN Append(Only(q, P), x) ELSE Only(q, P)
<1>1. PICK N \in Nat : N = Len(q)
  BY LenProperties
<1>2. PICK r : r = Append(q, x)
  OBVIOUS
<1>3. /\ r \in Seq(T) /\ Len(r) = N + 1 /\ r[N + 1] = x
      /\ \A n \in 1..N : r[n] = q[n]
  BY <1>1, <1>2, AppendProperties
<1>4. PICK k : Keeps(k, q, P, T) /\ Only(q, P) = k[Len(q)]
  BY OnlyRecursive, Zenon
<1>5. PICK l : Keeps(l, r, P, T) /\ Only(r, P) = l[Len(r)]
  BY <1>3, OnlyRecursive, Zenon
<1>6. /\ k[0] = <<>>
      /\ \A n \in 1..N : k[n] = IF q[n] \in P THEN Append(k[n - 1], q[n]) ELSE k[n - 1]
  BY <1>1, <1>4 DEF Keeps
<1>7. /\ l[0] = <<>>
      /\ \A n \in 1..N + 1 : l[n] = IF r[n] \in P THEN Append(l[n - 1], r[n]) ELSE l[n - 1]
  BY <1>3, <1>5 DEF Keeps
<1> DEFINE Same == {n \in 0..N : k[n] = l[n]}
<1>8. Same = 0..N
  <2>1. 0 \in Same
    BY <1>6, <1>7
  <2>2. ASSUME NEW n \in 1..N, n - 1 \in Same PROVE n \in Same
    <3>1. k[n - 1] = l[n - 1] /\ n \in 1..N + 1 /\ r[n] = q[n]
      BY <1>3, <2>2
    <3>2. k[n] = l[n]
      BY <1>6, <1>7, <3>1
    <3>3. QED
      BY <3>2
  <2>3. Same \in SUBSET (0..N)
    OBVIOUS
  <2> HIDE DEF Same
  <2>4. QED
    BY <2>1, <2>2, <2>3, UpToPlace
<1>9. k[N] = l[N]
  <2>1. N \in 0..N
    OBVIOUS
  <2>2. QED
    BY <1>8, <2>1
<1>10. N + 1 \in 1..N + 1 /\ (N + 1) - 1 = N
  OBVIOUS
<1>11. l[N + 1] = IF x \in P THEN Append(l[N], x) ELSE l[N]
  BY <1>3, <1>7, <1>10
<1>12. QED
  BY <1>1, <1>2, <1>3, <1>4, <1>5, <1>9, <1>11

\* Nothing is kept of nothing.
LEMMA OnlyEmpty ==
  ASSUME NEW P
  PROVE  Only(<<>>, P) = <<>>
<1>1. PICK T : T = {}
  OBVIOUS
<1> DEFINE q == <<>>
<1>2. q \in Seq(T) /\ Len(q) = 0
  OBVIOUS
<1> HIDE DEF q
<1>3. PICK k : Keeps(k, q, P, T) /\ Only(q, P) = k[Len(q)]
  BY <1>2, OnlyRecursive, Zenon
<1>4. QED
  BY <1>2, <1>3 DEF Keeps, q

\* An item put in front of a sequence and another put behind it
LEMMA FrontAndBehind ==
  ASSUME NEW T, NEW h \in T, NEW x \in T, NEW s \in Seq(T)
  PROVE  Append(<<h>> \o s, x) = <<h>> \o Append(s, x)
<1> DEFINE f == <<h>>
           b == <<x>>
<1>1. f \in Seq(T) /\ b \in Seq(T)
  OBVIOUS
<1> HIDE DEF f
<1>2. PICK c \in Seq(T) : c = f \o s
  BY <1>1, ConcatProperties
<1>3. Append(c, x) = c \o b /\ Append(s, x) = s \o b
  BY <1>2, AppendIsConcat
<1> HIDE DEF b
<1>4. (f \o s) \o b = f \o (s \o b)
  BY <1>1, ConcatAssociative
<1>5. QED
  BY <1>2, <1>3, <1>4 DEF f

\* The first item is kept in front of the others, or not.
LEMMA OnlyHead ==
  ASSUME NEW T, NEW q \in Seq(T), q # <<>>, NEW P
  PROVE  Only(q, P) = IF Head(q) \in P THEN <<Head(q)>> \o Only(Tail(q), P)
                      ELSE Only(Tail(q), P)
<1>1. PICK h \in T, r \in Seq(T) : h = Head(q) /\ r = Tail(q)
  BY HeadTailProperties
<1>2. PICK N \in Nat : /\ Len(r) = N /\ Len(q) = N + 1 /\ q[1] = h
                       /\ \A n \in 1..N : r[n] = q[n + 1]
  <2>1. PICK N \in Nat : N = Len(r)
    BY LenProperties
  <2>2. Len(q) \in Nat /\ N = Len(q) - 1 /\ \A n \in 1..N : r[n] = q[n + 1]
    BY <1>1, <2>1, HeadTailProperties, LenProperties
  <2>3. q[1] = h
    BY <1>1
  <2>4. QED
    BY <2>1, <2>2, <2>3
<1>3. PICK k : Keeps(k, q, P, T) /\ Only(q, P) = k[Len(q)]
  BY OnlyRecursive, Zenon
<1>4. PICK l : Keeps(l, r, P, T) /\ Only(r, P) = l[Len(r)]
  BY OnlyRecursive, Zenon
<1>5. /\ k[0] = <<>>
      /\ \A n \in 1..N + 1 : k[n] = IF q[n] \in P THEN Append(k[n - 1], q[n]) ELSE k[n - 1]
  BY <1>2, <1>3 DEF Keeps
<1>6. /\ l \in [0..N -> Seq(T)] /\ l[0] = <<>>
      /\ \A n \in 1..N : l[n] = IF r[n] \in P THEN Append(l[n - 1], r[n]) ELSE l[n - 1]
  BY <1>2, <1>4 DEF Keeps
<1>7. \A n \in 1..N : r[n] \in T
  BY <1>2, ElementOfSeq
<1> DEFINE With(s) == IF h \in P THEN <<h>> \o s ELSE s
           Same == {n \in 0..N : k[n + 1] = With(l[n])}
<1>8. Same = 0..N
  <2>1. 0 \in Same
    <3>1. 0 \in 0..N /\ 1 \in 1..N + 1 /\ 1 - 1 = 0 /\ 0 + 1 = 1
      OBVIOUS
    <3>2. k[1] = IF h \in P THEN Append(<<>>, h) ELSE <<>>
      BY <1>2, <1>5, <3>1
    <3>3. Append(<<>>, h) = <<h>> /\ <<h>> \o <<>> = <<h>>
      OBVIOUS
    <3>4. With(l[0]) = IF h \in P THEN <<h>> ELSE <<>>
      BY <1>6, <3>3
    <3>5. k[1] = With(l[0])
      BY <3>2, <3>3, <3>4
    <3> HIDE DEF With
    <3>6. QED
      BY <3>1, <3>5
  <2>2. ASSUME NEW n \in 1..N, n - 1 \in Same PROVE n \in Same
    <3>1. /\ n + 1 \in 1..N + 1 /\ (n + 1) - 1 = n /\ (n - 1) + 1 = n
          /\ n \in 0..N /\ n - 1 \in 0..N
      OBVIOUS
    <3>2. PICK s \in Seq(T), y \in T : s = l[n - 1] /\ y = r[n] /\ y = q[n + 1]
      BY <1>2, <1>6, <1>7, <3>1
    <3>3. k[n] = With(s)
      BY <2>2, <3>1, <3>2
    <3>4. k[n + 1] = IF y \in P THEN Append(k[n], y) ELSE k[n]
      BY <1>5, <3>1, <3>2
    <3>5. l[n] = IF y \in P THEN Append(s, y) ELSE s
      BY <1>6, <3>2
    <3>6. Append(With(s), y) = With(Append(s, y))
      BY FrontAndBehind
    <3> HIDE DEF With
    <3>7. k[n + 1] = With(l[n])
      BY <3>3, <3>4, <3>5, <3>6
    <3>8. QED
      BY <3>1, <3>7
  <2>3. Same \in SUBSET (0..N)
    OBVIOUS
  <2> HIDE DEF Same
  <2>4. QED
    BY <2>1, <2>2, <2>3, UpToPlace
<1>9. k[N + 1] = With(l[N])
  <2>1. N \in 0..N
    OBVIOUS
  <2> HIDE DEF With
  <2>2. QED
    BY <1>8, <2>1
<1>10. QED
  BY <1>1, <1>2, <1>3, <1>4, <1>9
=============================================================================
