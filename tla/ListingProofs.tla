--------------------------- MODULE ListingProofs ---------------------------
(***************************************************************************)
(* Induction over the naturals, stated about a set so that the provers can *)
(* use it; that functions recursive over the naturals exist; and what the  *)
(* operators of Listing return, for every input.                           *)
(***************************************************************************)
EXTENDS Listing, Integers, SequencesExt, FiniteSetTheorems, WellFoundedInduction, TLAPS

(* A set of naturals that is not empty has a least element.                *)
LEMMA Least ==
  ASSUME NEW T, T \subseteq Nat, T # {}
  PROVE  \E x \in T : \A y \in T : x <= y
<1>1. PICK x \in T : \A y \in T : <<y, x>> \notin OpToRel(<, Nat)
  BY NatLessThanWellFounded, WFMin
<1>2. \A y \in T : ~(y < x)
  BY <1>1 DEF OpToRel
<1>3. x \in Nat /\ \A y \in T : y \in Nat
  OBVIOUS
<1>4. \A y \in T : x <= y
  BY <1>2, <1>3
<1> QED
  BY <1>4

(* A bounded one has a greatest.                                           *)
LEMMA Greatest ==
  ASSUME NEW n \in Nat, NEW T, T \subseteq 0 .. n, T # {}
  PROVE  \E x \in T : \A y \in T : y <= x
<1> DEFINE D == {n - x : x \in T}
<1>1. \A x \in T : x \in Nat /\ x <= n /\ n - x \in Nat /\ n - x \in D
  OBVIOUS
<1>2. D \subseteq Nat /\ D # {}
  BY <1>1, Zenon
<1>3. PICK d \in D : \A y \in D : d <= y
  BY <1>2, Least
<1>4. PICK x \in T : d = n - x
  OBVIOUS
<1> HIDE DEF D
<1>5. \A y \in T : n - x <= n - y
  BY <1>1, <1>3, <1>4
<1> QED
  BY <1>1, <1>5

(* A set that holds n + 1 whenever it holds n holds all there is from 0.   *)
LEMMA Induction ==
  ASSUME NEW T, 0 \in T, \A n \in Nat : n \in T => n + 1 \in T
  PROVE  Nat \subseteq T
<1> SUFFICES ASSUME Nat \ T # {} PROVE FALSE
  OBVIOUS
<1>1. PICK x \in Nat \ T : \A y \in Nat \ T : x <= y
  BY Least
<1>2. x - 1 \in Nat /\ x - 1 \in T /\ (x - 1) + 1 = x
  BY <1>1
<1> QED
  BY <1>1, <1>2

(* Steps F[1], F[2], ... can be taken one after the other from b.          *)
Iterates(w, b, F, m) == w[0] = b /\ \A k \in 1 .. m : w[k] = F[k][w[k - 1]]

LEMMA Iteration ==
  ASSUME NEW V, NEW b \in V, NEW F \in [Nat -> [V -> V]], NEW m \in Nat
  PROVE  \E w \in [0 .. m -> V] : Iterates(w, b, F, m)
<1> DEFINE Reached(n) == \E w \in [0 .. n -> V] :
             w[0] = b /\ \A k \in 1 .. n : w[k] = F[k][w[k - 1]]
           T == {n \in Nat : Reached(n)}
<1>1. 0 \in T
  <2> DEFINE x == [k \in 0 .. 0 |-> b]
  <2>1. x \in [0 .. 0 -> V] /\ x[0] = b /\ 1 .. 0 = {}
    OBVIOUS
  <2> HIDE DEF x
  <2>2. Reached(0)
    BY <2>1
  <2> QED
    BY <2>2
<1>2. ASSUME NEW n \in Nat, n \in T PROVE n + 1 \in T
  <2>1. PICK w \in [0 .. n -> V] : w[0] = b /\ \A k \in 1 .. n : w[k] = F[k][w[k - 1]]
    BY <1>2
  <2> DEFINE x == [k \in 0 .. n + 1 |-> IF k = n + 1 THEN F[n + 1][w[n]] ELSE w[k]]
  <2>2. F[n + 1][w[n]] \in V
    OBVIOUS
  <2>3. x \in [0 .. n + 1 -> V]
    BY <2>2
  <2>4. x[0] = b /\ \A k \in 1 .. n + 1 : x[k] = F[k][x[k - 1]]
    <3>1. x[0] = b
      BY <2>1
    <3>2. ASSUME NEW k \in 1 .. n + 1 PROVE x[k] = F[k][x[k - 1]]
      <4>1. k - 1 \in 0 .. n /\ x[k - 1] = w[k - 1]
        OBVIOUS
      <4>2. CASE k = n + 1
        <5>1. x[k] = F[n + 1][w[n]] /\ k - 1 = n
          BY <4>2
        <5> QED
          BY <4>1, <4>2, <5>1
      <4>3. CASE k # n + 1
        BY <2>1, <4>1, <4>3
      <4> QED
        BY <4>2, <4>3
    <3> QED
      BY <3>1, <3>2
  <2> HIDE DEF x
  <2> QED
    BY <2>3, <2>4
<1> HIDE DEF T
<1>3. Nat \subseteq T
  BY <1>1, <1>2, Induction
<1> QED
  BY <1>3 DEF T, Iterates

(* The same up to m.                                                       *)
LEMMA UpTo ==
  ASSUME NEW m \in Nat, NEW T, 0 \in T, \A n \in 0 .. m - 1 : n \in T => n + 1 \in T
  PROVE  \A n \in 0 .. m : n \in T
<1> DEFINE U == {n \in Nat : n <= m => n \in T}
<1>1. 0 \in U
  OBVIOUS
<1>2. ASSUME NEW n \in Nat, n \in U PROVE n + 1 \in U
  <2>1. CASE n + 1 <= m
    <3>1. n \in 0 .. m - 1 /\ n \in T
      BY <1>2, <2>1
    <3> QED
      BY <3>1
  <2> QED
    BY <2>1
<1> HIDE DEF U
<1>3. Nat \subseteq U
  BY <1>1, <1>2, Induction
<1> QED
  BY <1>3 DEF U

(***************************************************************************)
(* Sequences and their sets of elements.                                   *)
(***************************************************************************)
LEMMA ConcatSet ==
  ASSUME NEW S, NEW s \in Seq(S), NEW t \in Seq(S)
  PROVE  s \o t \in Seq(S) /\ ToSet(s \o t) = ToSet(s) \cup ToSet(t)
<1> DEFINE c == s \o t
<1>1. /\ c \in Seq(S) /\ Len(s) \in Nat /\ Len(t) \in Nat /\ Len(c) = Len(s) + Len(t)
      /\ \A i \in 1 .. Len(s) : c[i] = s[i]
      /\ \A i \in 1 .. Len(t) : c[Len(s) + i] = t[i]
  OBVIOUS
<1>2. \A i \in 1 .. Len(c) : i \in 1 .. Len(s) \/ \E k \in 1 .. Len(t) : i = Len(s) + k
  <2> SUFFICES ASSUME NEW i \in 1 .. Len(c), i \notin 1 .. Len(s)
               PROVE  \E k \in 1 .. Len(t) : i = Len(s) + k
    OBVIOUS
  <2>1. i - Len(s) \in 1 .. Len(t) /\ i = Len(s) + (i - Len(s))
    BY <1>1
  <2> QED
    BY <2>1
<1>3. \A i \in 1 .. Len(s) : i \in 1 .. Len(c)
  BY <1>1
<1>4. \A i \in 1 .. Len(t) : Len(s) + i \in 1 .. Len(c)
  BY <1>1
<1> HIDE DEF c
<1>5. DOMAIN c = 1 .. Len(c) /\ DOMAIN s = 1 .. Len(s) /\ DOMAIN t = 1 .. Len(t)
  BY <1>1
<1>6. ToSet(c) \subseteq ToSet(s) \cup ToSet(t)
  <2> SUFFICES ASSUME NEW i \in 1 .. Len(c) PROVE c[i] \in ToSet(s) \cup ToSet(t)
    BY <1>5 DEF ToSet
  <2>1. CASE i \in 1 .. Len(s)
    BY <1>1, <1>5, <2>1 DEF ToSet
  <2>2. ASSUME NEW k \in 1 .. Len(t), i = Len(s) + k PROVE c[i] \in ToSet(t)
    BY <1>1, <1>5, <2>2 DEF ToSet
  <2> QED
    BY <1>2, <2>1, <2>2
<1>7. ToSet(s) \cup ToSet(t) \subseteq ToSet(c)
  <2>1. ASSUME NEW i \in 1 .. Len(s) PROVE s[i] \in ToSet(c)
    BY <1>1, <1>3, <1>5 DEF ToSet
  <2>2. ASSUME NEW i \in 1 .. Len(t) PROVE t[i] \in ToSet(c)
    BY <1>1, <1>4, <1>5 DEF ToSet
  <2> QED
    BY <1>5, <2>1, <2>2 DEF ToSet
<1> QED
  BY <1>1, <1>6, <1>7 DEF c

LEMMA ConcatInjective ==
  ASSUME NEW S, NEW s \in Seq(S), NEW t \in Seq(S),
         IsInjective(s), IsInjective(t), ToSet(s) \cap ToSet(t) = {}
  PROVE  IsInjective(s \o t)
<1> DEFINE c == s \o t
<1>1. /\ Len(s) \in Nat /\ Len(t) \in Nat
      /\ DOMAIN c = 1 .. Len(s) + Len(t) /\ DOMAIN s = 1 .. Len(s) /\ DOMAIN t = 1 .. Len(t)
      /\ \A i \in 1 .. Len(s) : c[i] = s[i]
  OBVIOUS
<1>2. \A i \in DOMAIN c : i \notin DOMAIN s => i - Len(s) \in DOMAIN t /\ c[i] = t[i - Len(s)]
  OBVIOUS
<1>3. \A i \in DOMAIN s, k \in DOMAIN t : s[i] # t[k]
  BY DEF ToSet
<1> HIDE DEF c
<1> SUFFICES ASSUME NEW i \in DOMAIN c, NEW k \in DOMAIN c, c[i] = c[k] PROVE i = k
  BY Zenon DEF IsInjective, c
<1>4. CASE i \in DOMAIN s /\ k \in DOMAIN s
  BY <1>1, <1>4 DEF IsInjective
<1>5. CASE i \notin DOMAIN s /\ k \notin DOMAIN s
  <2>1. t[i - Len(s)] = t[k - Len(s)] /\ i - Len(s) \in DOMAIN t /\ k - Len(s) \in DOMAIN t
    BY <1>2, <1>5
  <2>2. i - Len(s) = k - Len(s)
    BY <2>1 DEF IsInjective
  <2> QED
    BY <1>1, <2>2
<1>6. CASE i \in DOMAIN s /\ k \notin DOMAIN s
  BY <1>1, <1>2, <1>3, <1>6
<1>7. CASE i \notin DOMAIN s /\ k \in DOMAIN s
  BY <1>1, <1>2, <1>3, <1>7
<1> QED
  BY <1>4, <1>5, <1>6, <1>7

LEMMA ReverseSet ==
  ASSUME NEW S, NEW s \in Seq(S)
  PROVE  /\ Reverse(s) \in Seq(S) /\ ToSet(Reverse(s)) = ToSet(s)
         /\ IsInjective(s) => IsInjective(Reverse(s))
<1> DEFINE n == Len(s)
           r == Reverse(s)
<1>1. n \in Nat /\ DOMAIN s = 1 .. n /\ \A i \in 1 .. n : s[i] \in S
  OBVIOUS
<1>2. r = [i \in 1 .. n |-> s[(n - i) + 1]]
  BY DEF Reverse
<1> HIDE DEF n, r
<1>3. \A i \in 1 .. n : (n - i) + 1 \in 1 .. n /\ n - ((n - i) + 1) + 1 = i
  BY <1>1
<1>4. r \in Seq(S) /\ DOMAIN r = 1 .. n /\ \A i \in 1 .. n : r[i] = s[(n - i) + 1]
  BY <1>1, <1>2, <1>3
<1>5. ToSet(r) = ToSet(s)
  <2>1. ASSUME NEW i \in 1 .. n PROVE r[i] \in ToSet(s)
    BY <1>1, <1>3, <1>4 DEF ToSet
  <2>2. ASSUME NEW i \in 1 .. n PROVE s[i] \in ToSet(r)
    <3>1. r[(n - i) + 1] = s[i] /\ (n - i) + 1 \in 1 .. n
      BY <1>3, <1>4
    <3> QED
      BY <1>4, <3>1 DEF ToSet
  <2> QED
    BY <1>1, <1>4, <2>1, <2>2 DEF ToSet
<1>6. ASSUME IsInjective(s) PROVE IsInjective(r)
  <2> SUFFICES ASSUME NEW i \in 1 .. n, NEW k \in 1 .. n, r[i] = r[k] PROVE i = k
    BY <1>4, Zenon DEF IsInjective
  <2>1. (n - i) + 1 = (n - k) + 1
    BY <1>1, <1>3, <1>4, <1>6 DEF IsInjective
  <2> QED
    BY <1>1, <2>1
<1> QED
  BY <1>4, <1>5, <1>6 DEF r

LEMMA HeadAndTail ==
  ASSUME NEW S, NEW s \in Seq(S), s # <<>>
  PROVE  /\ Head(s) \in S /\ Tail(s) \in Seq(S)
         /\ ToSet(s) = {Head(s)} \cup ToSet(Tail(s))
         /\ IsInjective(s) => IsInjective(Tail(s)) /\ Head(s) \notin ToSet(Tail(s))
<1> DEFINE t == Tail(s)
           n == Len(s)
<1>1. /\ t \in Seq(S) /\ Head(s) = s[1] /\ n \in Nat /\ n > 0 /\ DOMAIN s = 1 .. n
      /\ DOMAIN t = 1 .. n - 1 /\ \A i \in 1 .. n - 1 : t[i] = s[i + 1]
  OBVIOUS
<1>2. Head(s) \in S
  OBVIOUS
<1> HIDE DEF t, n
<1>3. \A i \in 1 .. n : i = 1 \/ (i - 1 \in 1 .. n - 1 /\ (i - 1) + 1 = i)
  BY <1>1
<1>4. \A i \in 1 .. n - 1 : i + 1 \in 1 .. n /\ i + 1 # 1
  BY <1>1
<1>5. 1 \in 1 .. n
  BY <1>1
<1>6. ToSet(s) = {Head(s)} \cup ToSet(t)
  <2>1. ASSUME NEW i \in 1 .. n PROVE s[i] \in {Head(s)} \cup ToSet(t)
    <3>1. CASE i = 1
      BY <1>1, <3>1
    <3>2. CASE i # 1
      <4>1. i - 1 \in 1 .. n - 1 /\ t[i - 1] = s[i]
        BY <1>1, <1>3, <3>2
      <4> QED
        BY <1>1, <4>1 DEF ToSet
    <3> QED
      BY <3>1, <3>2
  <2>2. Head(s) \in ToSet(s)
    BY <1>1, <1>5 DEF ToSet
  <2>3. ASSUME NEW i \in 1 .. n - 1 PROVE t[i] \in ToSet(s)
    BY <1>1, <1>4 DEF ToSet
  <2> QED
    BY <1>1, <2>1, <2>2, <2>3 DEF ToSet
<1>7. ASSUME IsInjective(s) PROVE IsInjective(t) /\ Head(s) \notin ToSet(t)
  <2>1. \A i, k \in 1 .. n : s[i] = s[k] => i = k
    BY <1>1, <1>7 DEF IsInjective
  <2>2. ASSUME NEW i \in 1 .. n - 1, NEW k \in 1 .. n - 1, t[i] = t[k] PROVE i = k
    <3>1. i + 1 = k + 1
      BY <1>1, <1>4, <2>1, <2>2
    <3> QED
      BY <1>1, <3>1
  <2>3. IsInjective(t)
    BY <1>1, <2>2, Zenon DEF IsInjective
  <2>4. Head(s) \notin ToSet(t)
    BY <1>1, <1>4, <1>5, <2>1 DEF ToSet
  <2> QED
    BY <2>3, <2>4
<1> QED
  BY <1>1, <1>2, <1>6, <1>7 DEF t

LEMMA InjectiveSize ==
  ASSUME NEW S, NEW s \in Seq(S), IsInjective(s)
  PROVE  IsFiniteSet(ToSet(s)) /\ Cardinality(ToSet(s)) = Len(s)
<1>1. Len(s) \in Nat /\ DOMAIN s = 1 .. Len(s) /\ 1 \in Int /\ Len(s) \in Int
  OBVIOUS
<1>2. IsFiniteSet(1 .. Len(s)) /\ Cardinality(1 .. Len(s)) = Len(s)
  BY <1>1, FS_Interval
<1>3. s \in [1 .. Len(s) -> ToSet(s)] /\ \A x \in ToSet(s) : \E i \in 1 .. Len(s) : s[i] = x
  BY <1>1 DEF ToSet
<1>4. s \in Bijection(1 .. Len(s), ToSet(s))
  BY <1>3 DEF Bijection, Injection, Surjection
<1>5. ExistsBijection(1 .. Len(s), ToSet(s))
  BY <1>4 DEF ExistsBijection
<1> QED
  BY <1>2, <1>5, FS_Bijection

(***************************************************************************)
(* Kept.                                                                   *)
(***************************************************************************)

(* w[k] is what is kept of the first k elements.                           *)
KeepsUp(w, s, I) ==
  /\ w[0] = <<>>
  /\ \A k \in 1 .. Len(s) :
       w[k] = IF k \in I THEN Append(w[k - 1], s[k]) ELSE w[k - 1]
  /\ Kept(s, I) = w[Len(s)]

LEMMA KeptSteps ==
  ASSUME NEW S, NEW s \in Seq(S), NEW I
  PROVE  \E w \in [0 .. Len(s) -> Seq(S)] : KeepsUp(w, s, I)
<1> DEFINE m == Len(s)
           Step(k, x) == IF k \in I /\ k \in 1 .. m THEN Append(x, s[k]) ELSE x
           F == [k \in Nat |-> [x \in Seq(S) |-> Step(k, x)]]
           Obeys(w) == w = [n \in 0 .. m |->
             IF n = 0 THEN <<>> ELSE IF n \in I THEN Append(w[n - 1], s[n]) ELSE w[n - 1]]
           v == CHOOSE x : Obeys(x)
<1>1. m \in Nat /\ <<>> \in Seq(S) /\ \A k \in 1 .. m : s[k] \in S
  OBVIOUS
<1>2. ASSUME NEW k \in Nat, NEW x \in Seq(S) PROVE Step(k, x) \in Seq(S)
  BY <1>1
<1>3. F \in [Nat -> [Seq(S) -> Seq(S)]]
  <2> HIDE DEF Step
  <2> QED
    BY <1>2
<1>4. ASSUME NEW k \in 1 .. m, NEW x \in Seq(S)
      PROVE  F[k][x] = IF k \in I THEN Append(x, s[k]) ELSE x
  BY <1>1
<1>5. Kept(s, I) = v[m]
  BY Zenon DEF Kept
<1> HIDE DEF F, m
<1>6. PICK w \in [0 .. m -> Seq(S)] : Iterates(w, <<>>, F, m)
  BY <1>1, <1>3, Iteration
<1>7. w[0] = <<>> /\ \A k \in 1 .. m : w[k] = F[k][w[k - 1]]
  BY <1>6 DEF Iterates
<1>8. Obeys(w)
  <2>1. ASSUME NEW n \in 0 .. m
        PROVE  w[n] = IF n = 0 THEN <<>>
                      ELSE IF n \in I THEN Append(w[n - 1], s[n]) ELSE w[n - 1]
    <3>1. CASE n = 0
      BY <1>7, <3>1
    <3>2. CASE n # 0
      <4>1. n \in 1 .. m /\ n - 1 \in 0 .. m
        BY <1>1, <3>2
      <4> QED
        BY <1>4, <1>7, <3>2, <4>1, Zenon
    <3> QED
      BY <3>1, <3>2
  <2> QED
    BY <2>1, Zenon
<1>9. Obeys(v)
  BY <1>8, Zenon
<1> HIDE DEF v
<1>10. ASSUME NEW n \in 0 .. m
       PROVE  v[n] = IF n = 0 THEN <<>>
                     ELSE IF n \in I THEN Append(v[n - 1], s[n]) ELSE v[n - 1]
  BY <1>9, Zenon
<1>11. v[0] = <<>>
  BY <1>1, <1>10
<1>12. ASSUME NEW k \in 1 .. m
       PROVE  v[k] = IF k \in I THEN Append(v[k - 1], s[k]) ELSE v[k - 1]
  <2>1. k \in 0 .. m /\ k # 0
    BY <1>1
  <2> QED
    BY <1>10, <2>1, Zenon
<1>13. v \in [0 .. m -> Seq(S)]
  <2> DEFINE T == {n \in 0 .. m : v[n] \in Seq(S)}
  <2>1. 0 \in T
    <3>1. 0 \in 0 .. m
      BY <1>1
    <3> QED
      BY <1>1, <1>11, <3>1, Zenon
  <2>2. ASSUME NEW n \in 0 .. m - 1, n \in T PROVE n + 1 \in T
    <3>1. n + 1 \in 1 .. m /\ (n + 1) - 1 = n /\ v[n] \in Seq(S) /\ s[n + 1] \in S
      BY <1>1, <2>2 DEF m
    <3>2. v[n + 1] = IF n + 1 \in I THEN Append(v[n], s[n + 1]) ELSE v[n]
      BY <1>12, <3>1
    <3>3. Append(v[n], s[n + 1]) \in Seq(S)
      BY <3>1
    <3>4. n + 1 \in 0 .. m
      BY <1>1
    <3> QED
      BY <3>1, <3>2, <3>3, <3>4, Zenon
  <2> HIDE DEF T
  <2>3. \A n \in 0 .. m : n \in T
    BY <1>1, <2>1, <2>2, UpTo
  <2>4. \A n \in 0 .. m : v[n] \in Seq(S)
    BY <2>3 DEF T
  <2> QED
    BY <1>9, <2>4, Zenon
<1> QED
  BY <1>5, <1>11, <1>12, <1>13 DEF m, KeepsUp

(* t lists the elements of s at the places J, in their order.              *)
Enumerates(e, t, s, J) ==
  /\ e \in [1 .. Len(t) -> J]
  /\ \A k \in 1 .. Len(t) : t[k] = s[e[k]]
  /\ \A k, l \in 1 .. Len(t) : k < l => e[k] < e[l]
  /\ \A i \in J : \E k \in 1 .. Len(t) : e[k] = i

LEMMA KeptEnumerates ==
  ASSUME NEW S, NEW s \in Seq(S), NEW I
  PROVE  /\ Kept(s, I) \in Seq(S)
         /\ \E e : Enumerates(e, Kept(s, I), s, {i \in 1 .. Len(s) : i \in I})
<1>1. PICK w \in [0 .. Len(s) -> Seq(S)] : KeepsUp(w, s, I)
  BY KeptSteps
<1> DEFINE m == Len(s)
           J(n) == {i \in 1 .. n : i \in I}
           Good(n) == \E e : Enumerates(e, w[n], s, J(n))
           T == {n \in 0 .. m : Good(n)}
<1>2. m \in Nat
  OBVIOUS
<1>3. 0 \in T
  <2> DEFINE e == [k \in 1 .. 0 |-> k]
  <2>1. w[0] = <<>> /\ Len(<<>>) = 0 /\ 1 .. 0 = {} /\ J(0) = {}
    BY <1>1 DEF KeepsUp
  <2>2. Enumerates(e, <<>>, s, {})
    BY <2>1 DEF Enumerates
  <2> HIDE DEF e, J
  <2> QED
    BY <1>2, <2>1, <2>2
<1>4. ASSUME NEW n \in 0 .. m - 1, n \in T PROVE n + 1 \in T
  <2>1. Good(n)
    BY <1>4
  <2>2. PICK e : Enumerates(e, w[n], s, J(n))
    BY <2>1
  <2>3. n \in 0 .. m /\ n + 1 \in 1 .. m /\ n + 1 \in 0 .. m /\ (n + 1) - 1 = n /\ n \in Nat
    BY <1>2
  <2>4. w[n] \in Seq(S) /\ Len(w[n]) \in Nat /\ s[n + 1] \in S
    BY <2>3
  <2>5. w[n + 1] = IF n + 1 \in I THEN Append(w[n], s[n + 1]) ELSE w[n]
    BY <1>1, <2>3 DEF KeepsUp
  <2>6. Good(n + 1)
    <3>1. CASE n + 1 \notin I
      <4>1. J(n + 1) = J(n) /\ w[n + 1] = w[n]
        BY <2>3, <2>5, <3>1
      <4> HIDE DEF J
      <4> QED
        BY <2>2, <4>1
    <3>2. CASE n + 1 \in I
      <4> DEFINE l == Len(w[n])
                 d == [k \in 1 .. l + 1 |-> IF k = l + 1 THEN n + 1 ELSE e[k]]
      <4>1. J(n + 1) = J(n) \cup {n + 1} /\ \A i \in J(n) : i \in Nat /\ i <= n
        BY <2>3, <3>2
      <4>2. /\ Len(w[n + 1]) = l + 1 /\ w[n + 1][l + 1] = s[n + 1]
            /\ \A k \in 1 .. l : w[n + 1][k] = w[n][k]
        BY <2>4, <2>5, <3>2
      <4> HIDE DEF J
      <4>3. /\ e \in [1 .. l -> J(n)]
            /\ \A k \in 1 .. l : w[n][k] = s[e[k]]
            /\ \A j, k \in 1 .. l : j < k => e[j] < e[k]
            /\ \A i \in J(n) : \E k \in 1 .. l : e[k] = i
        BY <2>2 DEF Enumerates
      <4>4. l \in Nat
        BY <2>4
      <4> HIDE DEF l
      <4>5. d \in [1 .. l + 1 -> J(n + 1)]
        BY <4>1, <4>3, <4>4
      <4>6. \A k \in 1 .. l : d[k] = e[k] /\ k \in 1 .. l + 1 /\ e[k] \in Nat /\ e[k] <= n
        BY <4>1, <4>3, <4>4
      <4>7. d[l + 1] = n + 1 /\ l + 1 \in 1 .. l + 1
        BY <4>4
      <4>8. \A k \in 1 .. l + 1 : k \in 1 .. l \/ k = l + 1
        BY <4>4
      <4> HIDE DEF d
      <4>9. \A k \in 1 .. l + 1 : w[n + 1][k] = s[d[k]]
        BY <4>2, <4>3, <4>6, <4>7, <4>8 DEF l
      <4>10. \A j, k \in 1 .. l + 1 : j < k => d[j] < d[k]
        <5> SUFFICES ASSUME NEW j \in 1 .. l + 1, NEW k \in 1 .. l + 1, j < k
                     PROVE  d[j] < d[k]
          OBVIOUS
        <5>1. j \in 1 .. l
          BY <4>4
        <5>2. CASE k = l + 1
          BY <2>3, <4>6, <4>7, <5>1, <5>2
        <5>3. CASE k \in 1 .. l
          BY <4>3, <4>6, <5>1, <5>3
        <5> QED
          BY <4>8, <5>2, <5>3
      <4>11. \A i \in J(n + 1) : \E k \in 1 .. l + 1 : d[k] = i
        <5>1. ASSUME NEW i \in J(n) PROVE \E k \in 1 .. l + 1 : d[k] = i
          BY <4>3, <4>6
        <5> QED
          BY <4>1, <4>7, <5>1
      <4>12. Enumerates(d, w[n + 1], s, J(n + 1))
        BY <4>2, <4>5, <4>9, <4>10, <4>11 DEF Enumerates, l
      <4> QED
        BY <4>12
    <3> QED
      BY <3>1, <3>2
  <2> HIDE DEF Good
  <2> QED
    BY <2>3, <2>6
<1> HIDE DEF T
<1>5. \A n \in 0 .. m : n \in T
  BY <1>2, <1>3, <1>4, UpTo
<1>6. Good(m)
  BY <1>2, <1>5 DEF T
<1>7. Kept(s, I) = w[m] /\ w[m] \in Seq(S)
  BY <1>1, <1>2 DEF KeepsUp
<1>8. J(m) = {i \in 1 .. Len(s) : i \in I}
  OBVIOUS
<1> HIDE DEF J, m
<1> QED
  BY <1>6, <1>7, <1>8

(* The elements kept, which differ from each other if they differ in s.    *)
LEMMA KeptSet ==
  ASSUME NEW S, NEW s \in Seq(S), NEW I, I \subseteq DOMAIN s
  PROVE  /\ Kept(s, I) \in Seq(S)
         /\ ToSet(Kept(s, I)) = {s[i] : i \in I}
         /\ (\A i, j \in I : s[i] = s[j] => i = j) => IsInjective(Kept(s, I))
<1> DEFINE J == {i \in 1 .. Len(s) : i \in I}
           r == Kept(s, I)
<1>1. r \in Seq(S) /\ \E e : Enumerates(e, r, s, J)
  BY KeptEnumerates
<1>2. J = I
  OBVIOUS
<1>3. PICK e : Enumerates(e, r, s, J)
  BY <1>1
<1>4. Len(r) \in Nat /\ DOMAIN r = 1 .. Len(r)
  BY <1>1
<1> HIDE DEF r, J
<1>5. e \in [1 .. Len(r) -> I]
  BY <1>2, <1>3 DEF Enumerates
<1>6. /\ \A k \in 1 .. Len(r) : r[k] = s[e[k]]
      /\ \A k, l \in 1 .. Len(r) : k < l => e[k] < e[l]
      /\ \A i \in I : \E k \in 1 .. Len(r) : e[k] = i
  BY <1>2, <1>3 DEF Enumerates
<1>7. ToSet(r) = {s[i] : i \in I}
  <2>1. ASSUME NEW k \in 1 .. Len(r) PROVE \E i \in I : r[k] = s[i]
    BY <1>5, <1>6
  <2>2. ASSUME NEW i \in I PROVE \E k \in 1 .. Len(r) : s[i] = r[k]
    BY <1>5, <1>6
  <2>3. ToSet(r) = {r[k] : k \in 1 .. Len(r)}
    BY <1>4 DEF ToSet
  <2>4. \A x : x \in ToSet(r) <=> \E k \in 1 .. Len(r) : x = r[k]
    BY <2>3
  <2>5. \A x : x \in {s[i] : i \in I} <=> \E i \in I : x = s[i]
    OBVIOUS
  <2>6. \A x : x \in ToSet(r) <=> x \in {s[i] : i \in I}
    BY <2>1, <2>2, <2>4, <2>5, Zenon
  <2> QED
    BY <2>6, Zenon
<1>8. ASSUME \A i, j \in I : s[i] = s[j] => i = j PROVE IsInjective(r)
  <2> SUFFICES ASSUME NEW k \in 1 .. Len(r), NEW l \in 1 .. Len(r), r[k] = r[l] PROVE k = l
    BY <1>4, Zenon DEF IsInjective
  <2>1. e[k] = e[l] /\ e[k] \in I
    BY <1>5, <1>6, <1>8
  <2>2. e[k] \in Nat
    BY <2>1
  <2> QED
    BY <1>4, <1>6, <2>1, <2>2
<1> QED
  BY <1>1, <1>7, <1>8 DEF r

(* A function that increases over 1 .. n is never behind its argument.     *)
LEMMA IncreasingAhead ==
  ASSUME NEW n \in Nat, NEW e \in [1 .. n -> Nat \ {0}],
         \A k, l \in 1 .. n : k < l => e[k] < e[l]
  PROVE  \A k \in 1 .. n : k <= e[k]
<1> DEFINE T == {k \in 0 .. n : k = 0 \/ k <= e[k]}
<1>1. 0 \in T
  OBVIOUS
<1>2. ASSUME NEW k \in 0 .. n - 1, k \in T PROVE k + 1 \in T
  <2>1. k + 1 \in 1 .. n /\ k + 1 \in 0 .. n /\ e[k + 1] \in Nat /\ e[k + 1] # 0
    OBVIOUS
  <2>2. CASE k = 0
    BY <2>1, <2>2
  <2>3. CASE k # 0
    <3>1. k \in 1 .. n /\ k <= e[k] /\ e[k] \in Nat
      BY <1>2, <2>3
    <3>2. e[k] < e[k + 1]
      BY <2>1, <3>1
    <3> QED
      BY <2>1, <3>1, <3>2
  <2> QED
    BY <2>2, <2>3
<1> HIDE DEF T
<1>3. \A k \in 0 .. n : k \in T
  BY <1>1, <1>2, UpTo
<1> QED
  BY <1>3 DEF T

(* No more is kept than there is.                                          *)
LEMMA KeptLength ==
  ASSUME NEW S, NEW s \in Seq(S), NEW I
  PROVE  Len(Kept(s, I)) <= Len(s)
<1> DEFINE r == Kept(s, I)
<1>1. r \in Seq(S) /\ \E e : Enumerates(e, r, s, {i \in 1 .. Len(s) : i \in I})
  BY KeptEnumerates
<1> HIDE DEF r
<1>2. PICK e : Enumerates(e, r, s, {i \in 1 .. Len(s) : i \in I})
  BY <1>1
<1>3. Len(r) \in Nat /\ Len(s) \in Nat
  BY <1>1
<1>4. /\ e \in [1 .. Len(r) -> {i \in 1 .. Len(s) : i \in I}]
      /\ \A k, l \in 1 .. Len(r) : k < l => e[k] < e[l]
  BY <1>2 DEF Enumerates
<1>5. e \in [1 .. Len(r) -> Nat \ {0}] /\ \A k \in 1 .. Len(r) : e[k] <= Len(s)
  BY <1>4
<1>6. \A k \in 1 .. Len(r) : k <= e[k]
  BY <1>3, <1>4, <1>5, IncreasingAhead
<1>7. CASE Len(r) # 0
  <2>1. Len(r) \in 1 .. Len(r)
    BY <1>3, <1>7
  <2> QED
    BY <1>3, <1>5, <1>6, <2>1 DEF r
<1> QED
  BY <1>3, <1>7 DEF r

(* Where x is first, if it is in s at all.                                 *)
LEMMA FirstPlace ==
  ASSUME NEW S, NEW s \in Seq(S), NEW i \in DOMAIN s
  PROVE  \E f \in Firsts(s) : f <= i /\ s[f] = s[i]
<1> DEFINE P == {k \in DOMAIN s : s[k] = s[i]}
<1>1. P \subseteq Nat /\ P # {} /\ DOMAIN s = 1 .. Len(s) /\ Len(s) \in Nat
  OBVIOUS
<1>2. PICK f \in P : \A k \in P : f <= k
  BY <1>1, Least
<1>3. f \in DOMAIN s /\ s[f] = s[i] /\ f <= i
  BY <1>2
<1>4. ASSUME NEW l \in 1 .. f - 1 PROVE s[l] # s[f]
  <2>1. l \in DOMAIN s /\ l < f /\ l \in Nat /\ f \in Nat
    BY <1>1, <1>3
  <2> QED
    BY <1>2, <1>3, <2>1
<1> QED
  BY <1>3, <1>4 DEF Firsts

(* Unique(s): e gives the place in s of each element.                      *)
UniqueIn(e, s) ==
  /\ Unique(s) \in Seq(ToSet(s)) /\ IsInjective(Unique(s))
  /\ ToSet(Unique(s)) = ToSet(s)
  /\ e \in [1 .. Len(Unique(s)) -> Firsts(s)]
  /\ \A k \in 1 .. Len(Unique(s)) : k <= e[k] /\ Unique(s)[k] = s[e[k]]
  /\ \A k, l \in 1 .. Len(Unique(s)) : k < l => e[k] < e[l]
  /\ \A f \in Firsts(s) : \E k \in 1 .. Len(Unique(s)) : e[k] = f

LEMMA UniqueProperties ==
  ASSUME NEW S, NEW s \in Seq(S)
  PROVE  \E e : UniqueIn(e, s)
<1> DEFINE F == Firsts(s)
           J == {i \in 1 .. Len(s) : i \in F}
           u == Unique(s)
<1>1. F \subseteq DOMAIN s /\ DOMAIN s = 1 .. Len(s) /\ Len(s) \in Nat
  BY DEF Firsts
<1>2. s \in Seq(ToSet(s))
  BY <1>1 DEF ToSet
<1>3. J = F /\ u = Kept(s, F)
  BY <1>1 DEF Unique
<1>4. \A i, j \in F : s[i] = s[j] => i = j
  BY <1>1 DEF Firsts
<1> HIDE DEF F, J, u
<1>5. u \in Seq(ToSet(s)) /\ ToSet(u) = {s[i] : i \in F} /\ IsInjective(u)
  BY <1>1, <1>2, <1>3, <1>4, KeptSet
<1>6. \E e : Enumerates(e, Kept(s, F), s, {i \in 1 .. Len(s) : i \in F})
  BY <1>2, KeptEnumerates
<1>7. PICK e : Enumerates(e, u, s, F)
  BY <1>3, <1>6 DEF J
<1>8. /\ e \in [1 .. Len(u) -> F]
      /\ \A k \in 1 .. Len(u) : u[k] = s[e[k]]
      /\ \A k, l \in 1 .. Len(u) : k < l => e[k] < e[l]
      /\ \A i \in F : \E k \in 1 .. Len(u) : e[k] = i
  BY <1>7 DEF Enumerates
<1>9. Len(u) \in Nat /\ e \in [1 .. Len(u) -> Nat \ {0}]
  BY <1>1, <1>5, <1>8
<1>10. \A k \in 1 .. Len(u) : k <= e[k]
  BY <1>8, <1>9, IncreasingAhead
<1>11. ToSet(s) = {s[i] : i \in F}
  <2>1. \A i \in DOMAIN s : \E f \in F : s[f] = s[i]
    BY FirstPlace DEF F
  <2>2. \A x : x \in {s[i] : i \in F} <=> \E i \in F : x = s[i]
    OBVIOUS
  <2>3. \A x : x \in ToSet(s) <=> \E i \in DOMAIN s : x = s[i]
    BY DEF ToSet
  <2> QED
    BY <1>1, <2>1, <2>2, <2>3
<1> QED
  BY <1>5, <1>8, <1>10, <1>11 DEF UniqueIn, F, u

LEMMA UniqueHead ==
  ASSUME NEW S, NEW s \in Seq(S), s # <<>>
  PROVE  Len(Unique(s)) >= 1 /\ Unique(s)[1] = s[1]
<1>1. PICK e : UniqueIn(e, s)
  BY UniqueProperties
<1>2. 1 \in Firsts(s) /\ DOMAIN s = 1 .. Len(s)
  BY DEF Firsts
<1>3. PICK k \in 1 .. Len(Unique(s)) : e[k] = 1
  BY <1>1, <1>2 DEF UniqueIn
<1>4. k <= e[k] /\ Unique(s)[k] = s[e[k]] /\ Unique(s) \in Seq(ToSet(s))
  BY <1>1 DEF UniqueIn
<1>5. k = 1
  BY <1>3, <1>4
<1> QED
  BY <1>3, <1>4, <1>5

(* What u lists in some order, Unique(u \o v) lists in the same order.     *)
LEMMA UniqueOrder ==
  ASSUME NEW S, NEW u \in Seq(S), NEW v \in Seq(S), IsInjective(u),
         NEW i \in DOMAIN u, NEW j \in DOMAIN u, i < j,
         NEW k \in 1 .. Len(Unique(u \o v)), NEW l \in 1 .. Len(Unique(u \o v)),
         Unique(u \o v)[k] = u[i], Unique(u \o v)[l] = u[j]
  PROVE  k < l
<1> DEFINE s == u \o v
<1>1. /\ s \in Seq(S) /\ DOMAIN s = 1 .. Len(s) /\ DOMAIN u = 1 .. Len(u)
      /\ Len(u) \in Nat /\ Len(s) \in Nat /\ Len(u) <= Len(s)
      /\ \A m \in 1 .. Len(u) : s[m] = u[m]
  OBVIOUS
<1> HIDE DEF s
<1>2. PICK e : UniqueIn(e, s)
  BY <1>1, UniqueProperties
<1>3. /\ e \in [1 .. Len(Unique(s)) -> Firsts(s)] /\ Unique(s) \in Seq(ToSet(s))
      /\ \A m \in 1 .. Len(Unique(s)) : Unique(s)[m] = s[e[m]]
      /\ \A m, n \in 1 .. Len(Unique(s)) : m < n => e[m] < e[n]
  BY <1>2 DEF UniqueIn
<1>4. ASSUME NEW m \in 1 .. Len(u), NEW n \in 1 .. Len(Unique(s)), Unique(s)[n] = u[m]
      PROVE  e[n] = m
  <2>1. e[n] \in Firsts(s) /\ s[e[n]] = u[m]
    BY <1>3, <1>4
  <2>2. e[n] \in 1 .. Len(s) /\ \A q \in 1 .. e[n] - 1 : s[q] # s[e[n]]
    BY <1>1, <2>1 DEF Firsts
  <2>3. s[m] = s[e[n]] /\ m \in 1 .. Len(s)
    BY <1>1, <2>1
  <2>4. e[n] <= m
    BY <1>1, <2>2, <2>3
  <2>5. e[n] \in 1 .. Len(u) /\ u[e[n]] = u[m]
    BY <1>1, <2>1, <2>2, <2>4
  <2> QED
    BY <1>1, <2>5 DEF IsInjective
<1>5. e[k] = i /\ e[l] = j
  BY <1>1, <1>4 DEF s
<1>6. k \in Nat /\ l \in Nat /\ Len(Unique(s)) \in Nat
  BY <1>3
<1>7. CASE k = l
  BY <1>1, <1>5, <1>7
<1>8. CASE l < k
  <2>1. e[l] < e[k]
    BY <1>3, <1>8 DEF s
  <2> QED
    BY <1>1, <1>5, <2>1
<1> QED
  BY <1>6, <1>7, <1>8

(***************************************************************************)
(* FirstOf.                                                                *)
(***************************************************************************)
LEMMA FirstOfProperties ==
  ASSUME NEW S, NEW s \in Seq(S), NEW n \in Nat
  PROVE  /\ FirstOf(s, n) \in Seq(S)
         /\ Len(FirstOf(s, n)) = IF Len(s) < n THEN Len(s) ELSE n
         /\ DOMAIN FirstOf(s, n) = {k \in DOMAIN s : k <= n}
         /\ \A k \in DOMAIN FirstOf(s, n) : FirstOf(s, n)[k] = s[k]
         /\ IsInjective(s) => IsInjective(FirstOf(s, n))
<1> DEFINE m == IF Len(s) < n THEN Len(s) ELSE n
           t == FirstOf(s, n)
<1>1. m \in Nat /\ m <= Len(s) /\ Len(s) \in Nat /\ DOMAIN s = 1 .. Len(s)
      /\ \A k \in 1 .. Len(s) : k <= n <=> k \in 1 .. m
  OBVIOUS
<1>2. t = SubSeq(s, 1, m)
  BY DEF FirstOf
<1> HIDE DEF m, t
<1>3. t \in Seq(S) /\ Len(t) = m /\ DOMAIN t = 1 .. m /\ \A k \in 1 .. m : t[k] = s[k]
  BY <1>1, <1>2
<1>4. 1 .. m = {k \in DOMAIN s : k <= n}
  BY <1>1
<1>5. ASSUME IsInjective(s) PROVE IsInjective(t)
  <2> SUFFICES ASSUME NEW k \in 1 .. m, NEW l \in 1 .. m, t[k] = t[l] PROVE k = l
    BY <1>3, Zenon DEF IsInjective
  <2>1. k \in DOMAIN s /\ l \in DOMAIN s /\ s[k] = s[l]
    BY <1>1, <1>3
  <2> QED
    BY <1>5, <2>1 DEF IsInjective
<1> QED
  BY <1>3, <1>4, <1>5 DEF m, t

(* What comes among the first n of s is among the first n of Unique(s).    *)
LEMMA UniqueKeepsFirst ==
  ASSUME NEW S, NEW s \in Seq(S), NEW n \in Nat, NEW i \in DOMAIN s, i <= n
  PROVE  s[i] \in ToSet(FirstOf(Unique(s), n))
<1> DEFINE u == Unique(s)
<1>1. PICK e : UniqueIn(e, s)
  BY UniqueProperties
<1>2. PICK f \in Firsts(s) : f <= i /\ s[f] = s[i]
  BY FirstPlace
<1>3. PICK k \in 1 .. Len(u) : e[k] = f
  BY <1>1 DEF UniqueIn
<1>4. k <= f /\ u[k] = s[i] /\ f \in DOMAIN s
  BY <1>1, <1>2, <1>3 DEF UniqueIn, Firsts
<1>5. u \in Seq(ToSet(s))
  BY <1>1 DEF UniqueIn
<1> HIDE DEF u
<1>6. k <= n
  BY <1>2, <1>4, <1>5
<1>7. k \in DOMAIN FirstOf(u, n) /\ FirstOf(u, n)[k] = u[k]
  <2>1. /\ DOMAIN FirstOf(u, n) = {x \in DOMAIN u : x <= n}
        /\ \A x \in DOMAIN FirstOf(u, n) : FirstOf(u, n)[x] = u[x]
    BY <1>5, FirstOfProperties
  <2>2. k \in DOMAIN u
    BY <1>5
  <2> QED
    BY <1>6, <2>1, <2>2
<1> QED
  BY <1>4, <1>7 DEF ToSet, u

(* What comes before an element of the first n of Unique(s) that s holds   *)
(* once is among them too.                                                 *)
LEMMA UniqueKeepsEarlier ==
  ASSUME NEW S, NEW s \in Seq(S), NEW n \in Nat, NEW i \in DOMAIN s, NEW j \in Firsts(s), i < j,
         s[j] \in ToSet(FirstOf(Unique(s), n))
  PROVE  s[i] \in ToSet(FirstOf(Unique(s), n))
<1> DEFINE u == Unique(s)
<1>1. PICK e : UniqueIn(e, s)
  BY UniqueProperties
<1>2. PICK f \in Firsts(s) : f <= i /\ s[f] = s[i]
  BY FirstPlace
<1>3. PICK k \in 1 .. Len(u) : e[k] = f
  BY <1>1 DEF UniqueIn
<1>4. /\ u \in Seq(ToSet(s)) /\ IsInjective(u) /\ e \in [1 .. Len(u) -> Firsts(s)]
      /\ \A g \in Firsts(s) : \E l \in 1 .. Len(u) : e[l] = g
      /\ \A l \in 1 .. Len(u) : u[l] = s[e[l]]
      /\ \A a, b \in 1 .. Len(u) : a < b => e[a] < e[b]
  BY <1>1 DEF UniqueIn
<1>5. f \in Nat /\ j \in Nat /\ f < j /\ DOMAIN s = 1 .. Len(s)
  BY <1>2 DEF Firsts
<1> HIDE DEF u
<1>6. PICK l \in 1 .. Len(u) : e[l] = j
  BY <1>4
<1>7. Len(u) \in Nat /\ DOMAIN u = 1 .. Len(u)
  BY <1>4
<1>8. k < l
  <2>1. CASE l < k
    <3>1. j < f
      BY <1>3, <1>4, <1>6, <2>1
    <3> QED
      BY <1>5, <3>1
  <2>2. CASE l = k
    BY <1>3, <1>5, <1>6, <2>2
  <2> QED
    BY <1>3, <1>6, <2>1, <2>2
<1> DEFINE t == FirstOf(u, n)
           V == ToSet(s)
<1>9. u \in Seq(V)
  BY <1>4
<1> HIDE DEF V
<1>10. DOMAIN t = {x \in DOMAIN u : x <= n} /\ \A x \in DOMAIN t : t[x] = u[x]
  BY <1>9, FirstOfProperties
<1>11. s[j] \in ToSet(t)
  BY DEF u
<1> HIDE DEF t
<1>12. PICK c \in DOMAIN t : t[c] = s[j]
  BY <1>11 DEF ToSet
<1>13. c \in DOMAIN u /\ c <= n /\ u[c] = s[j]
  BY <1>10, <1>12
<1>14. c = l
  BY <1>4, <1>6, <1>7, <1>13 DEF IsInjective
<1>15. k \in DOMAIN u /\ k <= n
  BY <1>7, <1>8, <1>13, <1>14
<1>16. k \in DOMAIN t /\ t[k] = s[i]
  BY <1>2, <1>3, <1>4, <1>15, <1>10
<1>17. s[i] \in ToSet(t)
  BY <1>16 DEF ToSet
<1> QED
  BY <1>17 DEF t, u

(***************************************************************************)
(* InOrder.                                                                *)
(***************************************************************************)
(* ahead puts any two members of C one ahead of the other.                 *)
Orders(ahead, C) ==
  /\ \A i, j, k \in C : <<i, j>> \in ahead /\ <<j, k>> \in ahead => <<i, k>> \in ahead
  /\ \A i \in C : <<i, i>> \notin ahead
  /\ \A i, j \in C : i # j => <<i, j>> \in ahead \/ <<j, i>> \in ahead

(* How many members of C are ahead of one, itself included.                *)
PlaceIn(C, ahead, i) == Cardinality({j \in C : <<j, i>> \in ahead}) + 1

LEMMA PlaceProperties ==
  ASSUME NEW C, IsFiniteSet(C), NEW ahead, Orders(ahead, C)
  PROVE  /\ Cardinality(C) \in Nat
         /\ \A i \in C : PlaceIn(C, ahead, i) \in 1 .. Cardinality(C)
         /\ \A i, j \in C : <<i, j>> \in ahead => PlaceIn(C, ahead, i) < PlaceIn(C, ahead, j)
         /\ \A k \in 1 .. Cardinality(C) : \E i \in C : PlaceIn(C, ahead, i) = k
<1> DEFINE Before(i) == {j \in C : <<j, i>> \in ahead}
           place == [i \in C |-> Cardinality(Before(i)) + 1]
           n == Cardinality(C)
<1>1. n \in Nat
  BY FS_CardinalityType
<1>2. ASSUME NEW i \in C PROVE IsFiniteSet(Before(i)) /\ Cardinality(Before(i)) \in Nat
  <2>1. Before(i) \in SUBSET C
    OBVIOUS
  <2> HIDE DEF Before
  <2> QED
    BY <2>1, FS_Subset, FS_CardinalityType
<1>3. ASSUME NEW i \in C PROVE Cardinality(Before(i)) + 1 \in 1 .. n
  <2>1. Before(i) \in SUBSET (C \ {i}) /\ IsFiniteSet(C \ {i}) /\ Cardinality(C \ {i}) = n - 1
    BY FS_RemoveElement DEF Orders
  <2> HIDE DEF Before
  <2>2. Cardinality(Before(i)) <= n - 1
    BY <2>1, FS_Subset
  <2> HIDE DEF n
  <2> QED
    BY <1>1, <1>2, <2>2
<1>4. ASSUME NEW i \in C, NEW j \in C, <<i, j>> \in ahead
      PROVE  Cardinality(Before(i)) < Cardinality(Before(j))
  <2>1. Before(i) \in SUBSET (Before(j) \ {i}) /\ i \in Before(j)
    BY <1>4 DEF Orders
  <2> HIDE DEF Before
  <2>2. IsFiniteSet(Before(j) \ {i}) /\ Cardinality(Before(j) \ {i}) = Cardinality(Before(j)) - 1
    BY <1>2, <2>1, FS_RemoveElement
  <2>3. Cardinality(Before(i)) <= Cardinality(Before(j)) - 1
    BY <2>1, <2>2, FS_Subset
  <2> QED
    BY <1>2, <2>3
<1>5. place \in [C -> 1 .. n]
  <2> HIDE DEF Before, n
  <2> QED
    BY <1>3
<1>6. \A i, j \in C : place[i] = place[j] => i = j
  <2> SUFFICES ASSUME NEW i \in C, NEW j \in C, i # j PROVE place[i] # place[j]
    OBVIOUS
  <2>1. place[i] = Cardinality(Before(i)) + 1 /\ place[j] = Cardinality(Before(j)) + 1
    OBVIOUS
  <2> HIDE DEF place, Before
  <2>2. <<i, j>> \in ahead \/ <<j, i>> \in ahead
    BY DEF Orders
  <2> QED
    BY <1>2, <1>4, <2>1, <2>2
<1>7. IsFiniteSet(1 .. n) /\ Cardinality(1 .. n) = n
  <2> HIDE DEF n
  <2>1. 1 \in Int /\ n \in Int
    BY <1>1
  <2> QED
    BY <1>1, <2>1, FS_Interval
<1>8. \A k \in 1 .. n : \E i \in C : place[i] = k
  <2> HIDE DEF place
  <2>1. place \in Injection(C, 1 .. n)
    BY <1>5, <1>6 DEF Injection, IsInjective
  <2>2. place \in Surjection(C, 1 .. n)
    BY <1>7, <2>1, FS_Injection
  <2> QED
    BY <2>2 DEF Surjection
<1>9. ASSUME NEW i \in C
      PROVE  /\ PlaceIn(C, ahead, i) = Cardinality(Before(i)) + 1
             /\ place[i] = PlaceIn(C, ahead, i)
  BY DEF PlaceIn
<1>10. ASSUME NEW i \in C, NEW j \in C, <<i, j>> \in ahead
       PROVE  PlaceIn(C, ahead, i) < PlaceIn(C, ahead, j)
  <2> HIDE DEF Before, place
  <2> QED
    BY <1>2, <1>4, <1>9, <1>10
<1> HIDE DEF Before, place
<1> QED
  BY <1>1, <1>3, <1>8, <1>9, <1>10

(* f lists C in the order of ahead.                                        *)
Ordered(f, C, ahead) ==
  /\ f \in [1 .. Cardinality(C) -> C]
  /\ Cardinality(C) \in Nat /\ f \in Seq(C) /\ Len(f) = Cardinality(C)
  /\ \A k \in 1 .. Cardinality(C) : PlaceIn(C, ahead, f[k]) = k
  /\ \A i \in C : PlaceIn(C, ahead, i) \in 1 .. Cardinality(C) /\ f[PlaceIn(C, ahead, i)] = i
  /\ \A k, l \in 1 .. Cardinality(C) : k < l => <<f[k], f[l]>> \in ahead

LEMMA InOrderSorts ==
  ASSUME NEW C, IsFiniteSet(C), NEW ahead, Orders(ahead, C)
  PROVE  Ordered(InOrder(C, ahead), C, ahead)
<1> DEFINE n == Cardinality(C)
           f == InOrder(C, ahead)
           P(i) == PlaceIn(C, ahead, i)
<1>1. /\ n \in Nat
      /\ \A i \in C : P(i) \in 1 .. n
      /\ \A i, j \in C : <<i, j>> \in ahead => P(i) < P(j)
      /\ \A k \in 1 .. n : \E i \in C : P(i) = k
  BY PlaceProperties
<1>2. f = [k \in 1 .. n |-> CHOOSE i \in C : P(i) = k]
  BY DEF InOrder, PlaceIn
<1> HIDE DEF f, P, n
<1>3. ASSUME NEW k \in 1 .. n PROVE f[k] \in C /\ P(f[k]) = k
  BY <1>1, <1>2
<1>4. f \in [1 .. n -> C]
  BY <1>2, <1>3
<1>5. \A i, j \in C : i # j => P(i) # P(j)
  <2> SUFFICES ASSUME NEW i \in C, NEW j \in C, i # j PROVE P(i) # P(j)
    OBVIOUS
  <2>1. <<i, j>> \in ahead \/ <<j, i>> \in ahead
    BY DEF Orders
  <2>2. P(i) \in Nat /\ P(j) \in Nat
    BY <1>1
  <2> QED
    BY <1>1, <2>1, <2>2
<1>6. ASSUME NEW i \in C PROVE P(i) \in 1 .. n /\ f[P(i)] = i
  <2>1. P(i) \in 1 .. n
    BY <1>1
  <2> QED
    BY <1>3, <1>5, <2>1
<1>7. ASSUME NEW k \in 1 .. n, NEW l \in 1 .. n, k < l PROVE <<f[k], f[l]>> \in ahead
  <2>1. f[k] \in C /\ f[l] \in C /\ P(f[k]) = k /\ P(f[l]) = l
    BY <1>3
  <2>2. f[k] # f[l]
    BY <1>7, <2>1
  <2>3. CASE <<f[l], f[k]>> \in ahead
    <3>1. l < k
      BY <1>1, <2>1, <2>3
    <3> QED
      BY <1>1, <1>7, <3>1
  <2> QED
    BY <2>1, <2>2, <2>3 DEF Orders
<1>8. f \in Seq(C) /\ Len(f) = n
  BY <1>1, <1>4
<1> QED
  BY <1>1, <1>3, <1>4, <1>6, <1>7, <1>8 DEF Ordered, f, P, n

(***************************************************************************)
(* FlattenSeq and SumTo.                                                   *)
(***************************************************************************)
(* v[k] is the concatenation of the first k sequences of ss.               *)
Concatenates(v, ss) ==
  /\ v[0] = <<>>
  /\ \A k \in 1 .. Len(ss) : v[k] = v[k - 1] \o ss[k]
  /\ FlattenSeq(ss) = v[Len(ss)]

LEMMA FlattenSteps ==
  ASSUME NEW S, NEW ss \in Seq(Seq(S))
  PROVE  \E v \in [0 .. Len(ss) -> Seq(S)] : Concatenates(v, ss)
<1> DEFINE m == Len(ss)
           Step(k, x) == IF k \in 1 .. m THEN x \o ss[k] ELSE x
           F == [k \in Nat |-> [x \in Seq(S) |-> Step(k, x)]]
           Obeys(w) == w = [n \in 1 .. m |-> IF n = 1 THEN ss[n] ELSE w[n - 1] \o ss[n]]
           v == CHOOSE x : Obeys(x)
<1>1. m \in Nat /\ DOMAIN ss = 1 .. m /\ \A k \in 1 .. m : ss[k] \in Seq(S)
  OBVIOUS
<1>2. CASE m = 0
  <2>1. FlattenSeq(ss) = <<>> /\ ss = <<>>
    BY <1>2 DEF FlattenSeq
  <2>2. [k \in 0 .. m |-> <<>>] \in [0 .. m -> Seq(S)]
    OBVIOUS
  <2>3. Concatenates([k \in 0 .. m |-> <<>>], ss)
    BY <1>2, <2>1 DEF Concatenates
  <2> QED
    BY <2>2, <2>3
<1>3. CASE m # 0
  <2>1. FlattenSeq(ss) = v[m]
    BY <1>3, Zenon DEF FlattenSeq
  <2>2. ASSUME NEW k \in Nat, NEW x \in Seq(S) PROVE Step(k, x) \in Seq(S)
    BY <1>1
  <2>3. F \in [Nat -> [Seq(S) -> Seq(S)]]
    <3> HIDE DEF Step
    <3> QED
      BY <2>2
  <2>4. ASSUME NEW k \in 1 .. m, NEW x \in Seq(S) PROVE F[k][x] = x \o ss[k]
    BY <1>1
  <2>5. <<>> \in Seq(S)
    OBVIOUS
  <2> HIDE DEF F, m
  <2>6. PICK w \in [0 .. m -> Seq(S)] : Iterates(w, <<>>, F, m)
    BY <1>1, <2>3, <2>5, Iteration
  <2>7. w[0] = <<>> /\ \A k \in 1 .. m : w[k] = F[k][w[k - 1]]
    BY <2>6 DEF Iterates
  <2>8. ASSUME NEW k \in 1 .. m PROVE w[k] = w[k - 1] \o ss[k] /\ w[k - 1] \in Seq(S)
    <3>1. k - 1 \in 0 .. m
      BY <1>1
    <3>2. w[k - 1] \in Seq(S)
      BY <3>1
    <3> QED
      BY <2>4, <2>7, <3>2
  <2>9. Obeys([n \in 1 .. m |-> w[n]])
    <3> DEFINE u == [n \in 1 .. m |-> w[n]]
    <3>1. ASSUME NEW n \in 1 .. m
          PROVE  u[n] = IF n = 1 THEN ss[n] ELSE u[n - 1] \o ss[n]
      <4>1. CASE n = 1
        <5>1. w[n] = w[n - 1] \o ss[n] /\ n - 1 = 0
          BY <1>1, <2>8, <4>1
        <5>2. w[1] = <<>> \o ss[1] /\ ss[1] \in Seq(S)
          BY <1>1, <2>7, <4>1, <5>1
        <5>3. <<>> \o ss[1] = ss[1]
          BY <5>2
        <5> QED
          BY <4>1, <5>2, <5>3
      <4>2. CASE n # 1
        <5>1. n - 1 \in 1 .. m
          BY <1>1, <4>2
        <5> QED
          BY <2>8, <4>2, <5>1
      <4> QED
        BY <4>1, <4>2
    <3> QED
      BY <3>1, Zenon
  <2>10. Obeys(v)
    BY <2>9, Zenon
  <2> HIDE DEF v
  <2>11. ASSUME NEW n \in 1 .. m PROVE v[n] = IF n = 1 THEN ss[n] ELSE v[n - 1] \o ss[n]
    BY <2>10, Zenon
  <2> DEFINE T == {n \in 0 .. m : n = 0 \/ v[n] \in Seq(S)}
  <2>12. 0 \in T
    BY <1>1
  <2>13. ASSUME NEW n \in 0 .. m - 1, n \in T PROVE n + 1 \in T
    <3>1. n + 1 \in 1 .. m /\ (n + 1) - 1 = n /\ n \in Nat /\ n + 1 \in 0 .. m
      BY <1>1
    <3>2. ss[n + 1] \in Seq(S)
      BY <1>1, <3>1
    <3>3. v[n + 1] = IF n + 1 = 1 THEN ss[n + 1] ELSE v[(n + 1) - 1] \o ss[n + 1]
      BY <2>11, <3>1
    <3>4. CASE n = 0
      BY <3>1, <3>2, <3>3, <3>4
    <3>5. CASE n # 0
      <4>1. v[n] \in Seq(S) /\ n + 1 # 1
        BY <2>13, <3>1, <3>5
      <4>2. v[n + 1] = v[n] \o ss[n + 1]
        BY <3>1, <3>3, <4>1, Zenon
      <4>3. v[n] \o ss[n + 1] \in Seq(S)
        BY <3>2, <4>1
      <4> QED
        BY <3>1, <4>2, <4>3, Zenon
    <3> QED
      BY <3>4, <3>5
  <2> HIDE DEF T
  <2>14. \A n \in 0 .. m : n \in T
    BY <1>1, <2>12, <2>13, UpTo
  <2>15. ASSUME NEW n \in 1 .. m PROVE v[n] \in Seq(S)
    BY <1>1, <2>14 DEF T
  <2> DEFINE u == [n \in 0 .. m |-> IF n = 0 THEN <<>> ELSE v[n]]
  <2>16. u \in [0 .. m -> Seq(S)]
    BY <2>15
  <2>17. ASSUME NEW n \in 1 .. m PROVE u[n] = u[n - 1] \o ss[n]
    <3>1. n - 1 \in 0 .. m /\ n \in 0 .. m /\ n # 0
      BY <1>1
    <3>2. u[n] = v[n]
      BY <3>1
    <3>3. CASE n = 1
      <4>1. u[n - 1] = <<>> /\ v[n] = ss[n] /\ ss[n] \in Seq(S)
        BY <1>1, <2>11, <3>1, <3>3
      <4>2. <<>> \o ss[n] = ss[n]
        BY <4>1
      <4> HIDE DEF u
      <4> QED
        BY <3>2, <4>1, <4>2, Zenon
    <3>4. CASE n # 1
      <4>1. u[n - 1] = v[n - 1]
        BY <3>1, <3>4
      <4> HIDE DEF u
      <4> QED
        BY <2>11, <3>2, <3>4, <4>1, Zenon
    <3> QED
      BY <3>3, <3>4
  <2>18. u[0] = <<>> /\ u[m] = v[m]
    BY <1>1, <1>3
  <2> HIDE DEF u
  <2>19. Concatenates(u, ss)
    BY <2>1, <2>17, <2>18 DEF Concatenates, m
  <2> QED
    BY <2>16, <2>19 DEF m
<1> QED
  BY <1>2, <1>3

LEMMA FlattenedSet ==
  ASSUME NEW S, NEW ss \in Seq(Seq(S))
  PROVE  /\ FlattenSeq(ss) \in Seq(S)
         /\ ToSet(FlattenSeq(ss)) = UNION {ToSet(ss[i]) : i \in DOMAIN ss}
<1> DEFINE m == Len(ss)
           Up(n) == UNION {ToSet(ss[i]) : i \in 1 .. n}
           F == FlattenSeq(ss)
<1>1. m \in Nat /\ DOMAIN ss = 1 .. m /\ \A k \in 1 .. m : ss[k] \in Seq(S)
  OBVIOUS
<1>2. PICK v \in [0 .. m -> Seq(S)] : Concatenates(v, ss)
  BY FlattenSteps
<1>3. v[0] = <<>> /\ F = v[m] /\ \A k \in 1 .. m : v[k] = v[k - 1] \o ss[k]
  BY <1>2 DEF Concatenates
<1> DEFINE T == {n \in 0 .. m : ToSet(v[n]) = Up(n)}
<1> HIDE DEF m, F
<1>4. 0 \in T
  BY <1>1, <1>3 DEF ToSet
<1>5. ASSUME NEW n \in 0 .. m - 1, n \in T PROVE n + 1 \in T
  <2>1. n + 1 \in 1 .. m /\ (n + 1) - 1 = n /\ n \in 0 .. m /\ n + 1 \in 0 .. m
    BY <1>1
  <2>2. ss[n + 1] \in Seq(S) /\ v[n] \in Seq(S)
    BY <1>1, <2>1
  <2>3. Up(n + 1) = Up(n) \cup ToSet(ss[n + 1])
    <3>1. 1 .. n + 1 = (1 .. n) \cup {n + 1}
      BY <1>1, <2>1
    <3> QED
      BY <3>1
  <2>4. v[n + 1] = v[n] \o ss[n + 1]
    BY <1>3, <2>1
  <2>5. ToSet(v[n]) = Up(n)
    BY <1>5
  <2> HIDE DEF Up
  <2>6. ToSet(v[n] \o ss[n + 1]) = ToSet(v[n]) \cup ToSet(ss[n + 1])
    BY <2>2, ConcatSet
  <2> QED
    BY <2>1, <2>3, <2>4, <2>5, <2>6, Zenon
<1> HIDE DEF T
<1>6. \A n \in 0 .. m : n \in T
  BY <1>1, <1>4, <1>5, UpTo
<1>7. m \in 0 .. m
  BY <1>1
<1>8. v[m] \in Seq(S) /\ ToSet(v[m]) = Up(m)
  BY <1>6, <1>7, Zenon DEF T
<1>9. Up(m) = UNION {ToSet(ss[i]) : i \in DOMAIN ss}
  BY <1>1
<1> QED
  BY <1>3, <1>8, <1>9 DEF F

(* Sequence k of ss begins in FlattenSeq(ss) after at[k - 1].              *)
Places(at, ss) ==
  /\ at[0] = 0
  /\ \A k \in 1 .. Len(ss) : at[k] = at[k - 1] + Len(ss[k])
  /\ Len(FlattenSeq(ss)) = at[Len(ss)]
  /\ \A k, l \in 0 .. Len(ss) : k <= l => at[k] <= at[l]
  /\ \A k \in 1 .. Len(ss) : \A j \in 1 .. Len(ss[k]) :
       FlattenSeq(ss)[at[k - 1] + j] = ss[k][j]
  /\ \A i \in 1 .. Len(FlattenSeq(ss)) :
       \E k \in 1 .. Len(ss) : \E j \in 1 .. Len(ss[k]) : i = at[k - 1] + j

LEMMA FlattenedPlaces ==
  ASSUME NEW S, NEW ss \in Seq(Seq(S))
  PROVE  \E at \in [0 .. Len(ss) -> Nat] : Places(at, ss)
<1> DEFINE m == Len(ss)
           F == FlattenSeq(ss)
           L(k) == Len(ss[k])
<1>1. m \in Nat /\ \A k \in 1 .. m : ss[k] \in Seq(S) /\ L(k) \in Nat
  OBVIOUS
<1>2. PICK v \in [0 .. m -> Seq(S)] : Concatenates(v, ss)
  BY FlattenSteps
<1>3. v[0] = <<>> /\ F = v[m] /\ \A k \in 1 .. m : v[k] = v[k - 1] \o ss[k]
  BY <1>2 DEF Concatenates
<1> DEFINE at == [k \in 0 .. m |-> Len(v[k])]
           Grows(n) == \A k \in 0 .. n : at[k] <= at[n]
           Holds(n) == \A k \in 1 .. n : \A j \in 1 .. L(k) :
                         at[k - 1] + j <= at[n] /\ v[n][at[k - 1] + j] = ss[k][j]
           Covers(n) == \A i \in 1 .. at[n] : \E k \in 1 .. n : \E j \in 1 .. L(k) : i = at[k - 1] + j
           T == {n \in 0 .. m : Grows(n) /\ Holds(n) /\ Covers(n)}
<1> HIDE DEF m, F
<1>4. at \in [0 .. m -> Nat] /\ \A k \in 0 .. m : at[k] = Len(v[k])
  <2>1. \A k \in 0 .. m : v[k] \in Seq(S)
    BY <1>2
  <2> QED
    BY <2>1
<1>5. at[0] = 0
  BY <1>1, <1>3
<1> HIDE DEF at
<1>6. ASSUME NEW n \in 0 .. m - 1
      PROVE  /\ n + 1 \in 1 .. m /\ n \in 0 .. m /\ n + 1 \in 0 .. m /\ n \in Nat
             /\ at[n + 1] = at[n] + L(n + 1)
             /\ \A i \in 1 .. at[n] : v[n + 1][i] = v[n][i]
             /\ \A j \in 1 .. L(n + 1) : v[n + 1][at[n] + j] = ss[n + 1][j]
  <2>1. n + 1 \in 1 .. m /\ n \in 0 .. m /\ n + 1 \in 0 .. m /\ n \in Nat /\ (n + 1) - 1 = n
    BY <1>1
  <2>2. v[n + 1] = v[n] \o ss[n + 1] /\ v[n] \in Seq(S) /\ ss[n + 1] \in Seq(S)
    BY <1>1, <1>3, <2>1
  <2>3. at[n] = Len(v[n]) /\ at[n + 1] = Len(v[n + 1])
    BY <1>4, <2>1
  <2> QED
    BY <2>1, <2>2, <2>3
<1> HIDE DEF L
<1>7. 0 \in T
  BY <1>1, <1>5
<1>8. ASSUME NEW n \in 0 .. m - 1, n \in T PROVE n + 1 \in T
  <2>1. n + 1 \in 1 .. m /\ n \in 0 .. m /\ n + 1 \in 0 .. m /\ n \in Nat
    BY <1>6
  <2>2. at[n] \in Nat /\ at[n + 1] = at[n] + L(n + 1) /\ L(n + 1) \in Nat
    BY <1>1, <1>4, <1>6, <2>1
  <2>3. Grows(n) /\ Holds(n) /\ Covers(n)
    BY <1>8
  <2>4. Grows(n + 1)
    <3> SUFFICES ASSUME NEW k \in 0 .. n + 1 PROVE at[k] <= at[n + 1]
      OBVIOUS
    <3>1. at[k] \in Nat
      BY <1>1, <1>4, <2>1
    <3>2. CASE k = n + 1
      BY <2>2, <3>1, <3>2
    <3>3. CASE k # n + 1
      <4>1. k \in 0 .. n
        BY <2>1, <3>3
      <4>2. at[k] <= at[n]
        BY <2>3, <4>1
      <4> QED
        BY <2>2, <3>1, <4>2
    <3> QED
      BY <3>2, <3>3
  <2>5. Holds(n + 1)
    <3> SUFFICES ASSUME NEW k \in 1 .. n + 1, NEW j \in 1 .. L(k)
                 PROVE  at[k - 1] + j <= at[n + 1] /\ v[n + 1][at[k - 1] + j] = ss[k][j]
      OBVIOUS
    <3>1. k - 1 \in 0 .. m /\ k \in 1 .. m
      BY <1>1, <2>1
    <3>2. at[k - 1] \in Nat /\ L(k) \in Nat
      BY <1>1, <1>4, <3>1
    <3>3. CASE k = n + 1
      <4>1. k - 1 = n
        BY <2>1, <3>3
      <4>2. v[n + 1][at[n] + j] = ss[n + 1][j]
        BY <1>6, <3>3
      <4> QED
        BY <2>2, <3>3, <4>1, <4>2
    <3>4. CASE k # n + 1
      <4>1. k \in 1 .. n
        BY <2>1, <3>4
      <4>2. at[k - 1] + j <= at[n] /\ v[n][at[k - 1] + j] = ss[k][j]
        BY <2>3, <4>1
      <4>3. at[k - 1] + j \in 1 .. at[n]
        BY <2>2, <3>2, <4>2
      <4>4. v[n + 1][at[k - 1] + j] = v[n][at[k - 1] + j]
        BY <1>6, <4>3
      <4>5. at[k - 1] + j <= at[n + 1]
        BY <2>2, <3>2, <4>2
      <4> QED
        BY <4>2, <4>4, <4>5
    <3> QED
      BY <3>3, <3>4
  <2>6. Covers(n + 1)
    <3> SUFFICES ASSUME NEW i \in 1 .. at[n + 1]
                 PROVE  \E k \in 1 .. n + 1 : \E j \in 1 .. L(k) : i = at[k - 1] + j
      OBVIOUS
    <3>1. CASE i <= at[n]
      <4>1. i \in 1 .. at[n]
        BY <2>2, <3>1
      <4>2. PICK k \in 1 .. n : \E j \in 1 .. L(k) : i = at[k - 1] + j
        BY <2>3, <4>1
      <4>3. k \in 1 .. n + 1
        BY <2>1
      <4> QED
        BY <4>2, <4>3
    <3>2. CASE ~(i <= at[n])
      <4>1. i - at[n] \in 1 .. L(n + 1) /\ i = at[n] + (i - at[n])
        BY <2>2, <3>2
      <4>2. n + 1 \in 1 .. n + 1 /\ (n + 1) - 1 = n
        BY <2>1
      <4>3. i = at[(n + 1) - 1] + (i - at[n])
        BY <4>1, <4>2
      <4> QED
        BY <4>1, <4>2, <4>3
    <3> QED
      BY <3>1, <3>2
  <2> HIDE DEF Grows, Holds, Covers
  <2> QED
    BY <2>1, <2>4, <2>5, <2>6
<1> HIDE DEF T
<1>9. \A n \in 0 .. m : n \in T
  BY <1>1, <1>7, <1>8, UpTo
<1>10. \A n \in 0 .. m : Grows(n) /\ Holds(n) /\ Covers(n)
  BY <1>9, Zenon DEF T
<1>11. m \in 0 .. m /\ Len(F) = at[m]
  BY <1>1, <1>3, <1>4
<1>12. \A k \in 1 .. m : at[k] = at[k - 1] + L(k)
  <2> SUFFICES ASSUME NEW k \in 1 .. m PROVE at[k] = at[k - 1] + L(k)
    OBVIOUS
  <2>1. k - 1 \in 0 .. m - 1 /\ (k - 1) + 1 = k
    BY <1>1
  <2> QED
    BY <1>6, <2>1
<1>13. \A k, l \in 0 .. m : k <= l => at[k] <= at[l]
  <2> SUFFICES ASSUME NEW k \in 0 .. m, NEW l \in 0 .. m, k <= l PROVE at[k] <= at[l]
    OBVIOUS
  <2>1. k \in 0 .. l
    BY <1>1
  <2> QED
    BY <1>10, <2>1
<1>14. \A k \in 1 .. m : \A j \in 1 .. L(k) : F[at[k - 1] + j] = ss[k][j]
  BY <1>3, <1>10, <1>11
<1>15. \A i \in 1 .. Len(F) : \E k \in 1 .. m : \E j \in 1 .. L(k) : i = at[k - 1] + j
  <2>1. \A i \in 1 .. at[m] : \E k \in 1 .. m : \E j \in 1 .. L(k) : i = at[k - 1] + j
    BY <1>10, <1>11, Zenon
  <2> QED
    BY <1>11, <2>1, Zenon
<1>16. Places(at, ss)
  BY <1>5, <1>11, <1>12, <1>13, <1>14, <1>15 DEF Places, m, F, L
<1> QED
  BY <1>4, <1>16 DEF m

LEMMA SumSteps ==
  ASSUME NEW s \in Seq(Nat)
  PROVE  /\ SumTo(s, 0) = 0
         /\ \A n \in 1 .. Len(s) : SumTo(s, n) = SumTo(s, n - 1) + s[n]
         /\ \A n \in 0 .. Len(s) : SumTo(s, n) \in Nat
<1> DEFINE m == Len(s)
           Step(k, x) == IF k \in 1 .. m THEN x + s[k] ELSE x
           F == [k \in Nat |-> [x \in Nat |-> Step(k, x)]]
           Obeys(w) == w = [n \in 0 .. m |-> IF n = 0 THEN 0 ELSE w[n - 1] + s[n]]
           v == CHOOSE x : Obeys(x)
<1>1. m \in Nat /\ \A k \in 1 .. m : s[k] \in Nat
  OBVIOUS
<1>2. \A n : SumTo(s, n) = v[n]
  BY Zenon DEF SumTo
<1>3. ASSUME NEW k \in Nat, NEW x \in Nat PROVE Step(k, x) \in Nat
  BY <1>1
<1>4. F \in [Nat -> [Nat -> Nat]]
  <2> HIDE DEF Step
  <2> QED
    BY <1>3
<1>5. ASSUME NEW k \in 1 .. m, NEW x \in Nat PROVE F[k][x] = x + s[k]
  BY <1>1
<1> HIDE DEF F, m
<1>6. PICK w \in [0 .. m -> Nat] : Iterates(w, 0, F, m)
  BY <1>1, <1>4, Iteration
<1>7. w[0] = 0 /\ \A k \in 1 .. m : w[k] = F[k][w[k - 1]]
  BY <1>6 DEF Iterates
<1>8. Obeys(w)
  <2>1. ASSUME NEW n \in 0 .. m PROVE w[n] = IF n = 0 THEN 0 ELSE w[n - 1] + s[n]
    <3>1. CASE n = 0
      BY <1>7, <3>1
    <3>2. CASE n # 0
      <4>1. n \in 1 .. m /\ n - 1 \in 0 .. m
        BY <1>1, <3>2
      <4> QED
        BY <1>5, <1>7, <3>2, <4>1, Zenon
    <3> QED
      BY <3>1, <3>2
  <2> QED
    BY <2>1, Zenon
<1>9. Obeys(v)
  BY <1>8, Zenon
<1> HIDE DEF v
<1>10. ASSUME NEW n \in 0 .. m PROVE v[n] = IF n = 0 THEN 0 ELSE v[n - 1] + s[n]
  BY <1>9, Zenon
<1>11. v[0] = 0
  BY <1>1, <1>10
<1>12. ASSUME NEW n \in 1 .. m PROVE v[n] = v[n - 1] + s[n]
  <2>1. n \in 0 .. m /\ n # 0
    BY <1>1
  <2> QED
    BY <1>10, <2>1, Zenon
<1> DEFINE T == {n \in 0 .. m : v[n] \in Nat}
<1>13. 0 \in T
  BY <1>1, <1>11
<1>14. ASSUME NEW n \in 0 .. m - 1, n \in T PROVE n + 1 \in T
  <2>1. n + 1 \in 1 .. m /\ n + 1 \in 0 .. m /\ (n + 1) - 1 = n
    BY <1>1
  <2>2. v[n + 1] = v[n] + s[n + 1] /\ s[n + 1] \in Nat
    BY <1>1, <1>12, <2>1
  <2> QED
    BY <1>14, <2>1, <2>2
<1> HIDE DEF T
<1>15. \A n \in 0 .. m : n \in T
  BY <1>1, <1>13, <1>14, UpTo
<1>16. \A n \in 0 .. m : v[n] \in Nat
  BY <1>15 DEF T
<1> QED
  BY <1>2, <1>11, <1>12, <1>16 DEF m
=============================================================================
