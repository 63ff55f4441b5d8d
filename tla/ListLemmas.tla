------------------------------ MODULE ListLemmas ------------------------------
(***************************************************************************)
(* Lemmas about the operators on sequences: what Keep and FlattenSeq       *)
(* return, which elements it has and in which order.  The order is stated  *)
(* with Before, so that a proof about sequences becomes one about sets.    *)
(***************************************************************************)
EXTENDS Lists, Integers, SequencesExt, WellFoundedInduction, TLAPS

(* x stands before y in s.                                                  *)
Before(s, x, y) == \E i, j \in DOMAIN s : i < j /\ s[i] = x /\ s[j] = y

(***************************************************************************)
(* Induction without an operator: a set of numbers with 0 and the          *)
(* successor of each of its members has every number.                      *)
(***************************************************************************)
LEMMA LeastNat ==
  ASSUME NEW T, T \subseteq Nat, T # {}
  PROVE  \E n \in T : \A m \in T : n <= m
<1>1. PICK n \in T : \A m \in T : ~ (<<m, n>> \in OpToRel(<, Nat))
  BY WFMin, NatLessThanWellFounded
<1>2. \A m \in T : ~ (m < n)
  BY <1>1 DEF OpToRel
<1>3. \A m \in T : n \in Nat /\ m \in Nat
  OBVIOUS
<1> QED BY <1>2, <1>3

(* Induction over the natural numbers, for a set of numbers.               *)
LEMMA SetInduction ==
  ASSUME NEW T, 0 \in T, \A n \in Nat : n \in T => n + 1 \in T
  PROVE  Nat \subseteq T
<1> SUFFICES ASSUME ~ (Nat \subseteq T) PROVE FALSE
  OBVIOUS
<1>1. PICK n \in Nat \ T : \A m \in Nat \ T : n <= m
  BY LeastNat
<1>2. n - 1 \in Nat /\ n - 1 \in T
  BY <1>1
<1> QED BY <1>1, <1>2

(***************************************************************************)
(* A function on 0..N can be defined by its first value and each next one. *)
(***************************************************************************)
Recursive(N, V, v0, G) ==
    { f \in [0..N -> V] : f[0] = v0 /\ \A n \in 1..N : f[n] = G[<<n, f[n - 1]>>] }

(* There is a function for every definition by recursion on the numbers up *)
(* to N.                                                                   *)
LEMMA Recursion ==
  ASSUME NEW N \in Nat, NEW V, NEW v0 \in V, NEW G \in [(1..N) \X V -> V]
  PROVE  Recursive(N, V, v0, G) # {}
<1> DEFINE Sol(m) == { f \in [0..m -> V] : f[0] = v0 /\ \A n \in 1..m : f[n] = G[<<n, f[n - 1]>>] }
           T == { m \in Nat : m <= N => Sol(m) # {} }
<1>1. 0 \in T
  <2>1. [n \in 0..0 |-> v0] \in Sol(0)
    OBVIOUS
  <2> QED BY <2>1
<1>2. ASSUME NEW m \in Nat, m \in T PROVE m + 1 \in T
  <2> SUFFICES ASSUME m + 1 <= N PROVE Sol(m + 1) # {}
    OBVIOUS
  <2>1. PICK f \in Sol(m) : TRUE
    BY <1>2
  <2> DEFINE g == [n \in 0..(m + 1) |-> IF n = m + 1 THEN G[<<m + 1, f[m]>>] ELSE f[n]]
  <2>2. f[m] \in V /\ m + 1 \in 1..N
    BY <2>1
  <2>3. G[<<m + 1, f[m]>>] \in V
    BY <2>2
  <2>4. g \in [0..(m + 1) -> V] /\ g[0] = v0
    BY <2>1, <2>3
  <2>5. ASSUME NEW n \in 1..(m + 1) PROVE g[n] = G[<<n, g[n - 1]>>]
    <3>1. CASE n = m + 1
      <4>1. g[n - 1] = f[m] /\ g[n] = G[<<m + 1, f[m]>>]
        BY <3>1
      <4> QED BY <4>1, <3>1
    <3>2. CASE n # m + 1
      <4>1. n \in 1..m /\ g[n - 1] = f[n - 1] /\ g[n] = f[n]
        BY <3>2
      <4> QED BY <4>1, <2>1
    <3> QED BY <3>1, <3>2
  <2>6. g \in Sol(m + 1)
    BY <2>4, <2>5
  <2> QED BY <2>6
<1>3. Nat \subseteq T
  <2> HIDE DEF T
  <2> QED BY <1>1, <1>2, SetInduction
<1>4. N \in T
  <2> HIDE DEF T
  <2> QED BY <1>3
<1> QED BY <1>4 DEF Recursive

(***************************************************************************)
(* Elements and order of the sequences that Append, \o, Head, Tail and     *)
(* SubSeq make.                                                            *)
(***************************************************************************)
LEMMA AppendElements ==
  ASSUME NEW S, NEW s \in Seq(S), NEW e \in S
  PROVE  /\ Append(s, e) \in Seq(S)
         /\ ToSet(Append(s, e)) = ToSet(s) \cup {e}
         /\ \A x, y : Before(Append(s, e), x, y) <=> Before(s, x, y) \/ (x \in ToSet(s) /\ y = e)
<1> DEFINE a == Append(s, e)
<1>1. a \in Seq(S) /\ Len(a) = Len(s) + 1 /\ a[Len(a)] = e /\ \A i \in 1..Len(s) : a[i] = s[i]
  OBVIOUS
<1>2. DOMAIN a = 1..(Len(s) + 1) /\ DOMAIN s = 1..Len(s) /\ Len(s) \in Nat
  BY <1>1
<1>3. ToSet(a) = ToSet(s) \cup {e}
  BY <1>1, <1>2 DEF ToSet
<1>4. ASSUME NEW x, NEW y, Before(a, x, y) PROVE Before(s, x, y) \/ (x \in ToSet(s) /\ y = e)
  <2>1. PICK i \in DOMAIN a, j \in DOMAIN a : i < j /\ a[i] = x /\ a[j] = y
    BY <1>4 DEF Before
  <2>2. i \in DOMAIN s /\ s[i] = x
    BY <2>1, <1>1, <1>2
  <2>3. CASE j = Len(s) + 1
    BY <2>1, <2>2, <2>3, <1>1 DEF ToSet
  <2>4. CASE j # Len(s) + 1
    BY <2>1, <2>2, <2>4, <1>1, <1>2 DEF Before
  <2> QED BY <2>3, <2>4
<1>5. ASSUME NEW x, NEW y, Before(s, x, y) PROVE Before(a, x, y)
  <2>1. PICK i \in DOMAIN s, j \in DOMAIN s : i < j /\ s[i] = x /\ s[j] = y
    BY <1>5 DEF Before
  <2>2. i \in DOMAIN a /\ j \in DOMAIN a /\ a[i] = x /\ a[j] = y
    BY <2>1, <1>1, <1>2
  <2> QED BY <2>1, <2>2 DEF Before
<1>6. ASSUME NEW x, x \in ToSet(s) PROVE Before(a, x, e)
  <2>1. PICK i \in DOMAIN s : s[i] = x
    BY <1>6 DEF ToSet
  <2>2. i \in DOMAIN a /\ a[i] = x /\ i < Len(a) /\ Len(a) \in DOMAIN a
    BY <2>1, <1>1, <1>2
  <2> QED BY <2>2, <1>1 DEF Before
<1> HIDE DEF a
<1>7. \A x, y : Before(a, x, y) <=> Before(s, x, y) \/ (x \in ToSet(s) /\ y = e)
  BY <1>4, <1>5, <1>6
<1> QED BY <1>1, <1>3, <1>7 DEF a

(* The elements of a concatenation and their order.                        *)
LEMMA ConcatElements ==
  ASSUME NEW S, NEW s \in Seq(S), NEW t \in Seq(S)
  PROVE  /\ s \o t \in Seq(S)
         /\ ToSet(s \o t) = ToSet(s) \cup ToSet(t)
         /\ \A x, y : Before(s \o t, x, y) <=>
                \/ Before(s, x, y) \/ Before(t, x, y)
                \/ x \in ToSet(s) /\ y \in ToSet(t)
<1> DEFINE c == s \o t
<1>1. /\ c \in Seq(S) /\ Len(c) = Len(s) + Len(t) /\ Len(s) \in Nat /\ Len(t) \in Nat
      /\ DOMAIN c = 1..(Len(s) + Len(t)) /\ DOMAIN s = 1..Len(s) /\ DOMAIN t = 1..Len(t)
  OBVIOUS
<1>2. \A i \in DOMAIN s : i \in DOMAIN c /\ c[i] = s[i]
  BY <1>1
<1>3. \A i \in DOMAIN t : Len(s) + i \in DOMAIN c /\ c[Len(s) + i] = t[i]
  BY <1>1
<1>4. \A i \in DOMAIN c : i \notin DOMAIN s =>
         i - Len(s) \in DOMAIN t /\ c[i] = t[i - Len(s)] /\ i > Len(s)
  BY <1>1
<1> HIDE DEF c
<1>5. ToSet(c) = ToSet(s) \cup ToSet(t)
  BY <1>2, <1>3, <1>4 DEF ToSet
<1>6. ASSUME NEW x, NEW y, Before(c, x, y)
      PROVE  Before(s, x, y) \/ Before(t, x, y) \/ (x \in ToSet(s) /\ y \in ToSet(t))
  <2>1. PICK i \in DOMAIN c, j \in DOMAIN c : i < j /\ c[i] = x /\ c[j] = y
    BY <1>6 DEF Before
  <2>2. CASE j \in DOMAIN s
    <3>1. i \in DOMAIN s
      BY <2>1, <2>2, <1>1
    <3> QED BY <3>1, <2>1, <2>2, <1>2 DEF Before
  <2>3. CASE j \notin DOMAIN s /\ i \in DOMAIN s
    <3>1. s[i] = x /\ j - Len(s) \in DOMAIN t /\ t[j - Len(s)] = y
      BY <2>1, <2>3, <1>2, <1>4
    <3> QED BY <3>1, <2>3 DEF ToSet
  <2>4. CASE j \notin DOMAIN s /\ i \notin DOMAIN s
    <3>1. /\ j - Len(s) \in DOMAIN t /\ t[j - Len(s)] = y
          /\ i - Len(s) \in DOMAIN t /\ t[i - Len(s)] = x
      BY <2>1, <2>4, <1>4
    <3>2. i - Len(s) < j - Len(s)
      BY <2>1, <1>1
    <3> QED BY <3>1, <3>2 DEF Before
  <2> QED BY <2>2, <2>3, <2>4
<1>7. ASSUME NEW x, NEW y, Before(s, x, y) PROVE Before(c, x, y)
  BY <1>7, <1>2 DEF Before
<1>8. ASSUME NEW x, NEW y, Before(t, x, y) PROVE Before(c, x, y)
  <2>1. PICK i \in DOMAIN t, j \in DOMAIN t : i < j /\ t[i] = x /\ t[j] = y
    BY <1>8 DEF Before
  <2>2. Len(s) + i < Len(s) + j
    BY <2>1, <1>1
  <2> QED BY <2>1, <2>2, <1>3 DEF Before
<1>9. ASSUME NEW x \in ToSet(s), NEW y \in ToSet(t) PROVE Before(c, x, y)
  <2>1. PICK i \in DOMAIN s : s[i] = x
    BY DEF ToSet
  <2>2. PICK j \in DOMAIN t : t[j] = y
    BY DEF ToSet
  <2>3. i < Len(s) + j
    BY <1>1
  <2> QED BY <2>1, <2>2, <2>3, <1>2, <1>3 DEF Before
<1>10. \A x, y : Before(c, x, y) <=>
         Before(s, x, y) \/ Before(t, x, y) \/ (x \in ToSet(s) /\ y \in ToSet(t))
  BY <1>6, <1>7, <1>8, <1>9
<1> QED BY <1>1, <1>5, <1>10 DEF c

(* The elements of a part of a list and their order.                       *)
LEMMA SubSeqElements ==
  ASSUME NEW S, NEW s \in Seq(S), NEW m \in 1..(Len(s) + 1), NEW n \in 0..Len(s)
  PROVE  /\ SubSeq(s, m, n) \in Seq(S)
         /\ Len(SubSeq(s, m, n)) = IF m <= n THEN n - m + 1 ELSE 0
         /\ ToSet(SubSeq(s, m, n)) = { s[i] : i \in m..n }
         /\ \A x, y : Before(SubSeq(s, m, n), x, y) => Before(s, x, y)
<1> DEFINE u == SubSeq(s, m, n)
<1>1. /\ u \in Seq(S) /\ DOMAIN u = 1..(n - m + 1) /\ Len(s) \in Nat /\ DOMAIN s = 1..Len(s)
      /\ Len(u) = IF m <= n THEN n - m + 1 ELSE 0
  OBVIOUS
<1>2. \A i \in DOMAIN u : m + i - 1 \in m..n /\ m + i - 1 \in DOMAIN s /\ u[i] = s[m + i - 1]
  BY <1>1
<1>3. \A i \in m..n : i - m + 1 \in DOMAIN u /\ u[i - m + 1] = s[i]
  BY <1>1
<1> HIDE DEF u
<1>4. ToSet(u) = { s[i] : i \in m..n }
  BY <1>2, <1>3 DEF ToSet
<1>5. ASSUME NEW x, NEW y, Before(u, x, y) PROVE Before(s, x, y)
  <2>1. PICK i \in DOMAIN u, j \in DOMAIN u : i < j /\ u[i] = x /\ u[j] = y
    BY <1>5 DEF Before
  <2>2. m + i - 1 < m + j - 1
    BY <2>1, <1>1
  <2> QED BY <2>1, <2>2, <1>2 DEF Before
<1> QED BY <1>1, <1>4, <1>5 DEF u

(* A part of a sequence without repetition has the order of the whole.      *)
LEMMA SubSeqOrder ==
  ASSUME NEW S, NEW s \in Seq(S), NEW m \in 1..(Len(s) + 1), NEW n \in 0..Len(s),
         \A x \in ToSet(s) : ~ Before(s, x, x),
         NEW x \in ToSet(SubSeq(s, m, n)), NEW y \in ToSet(SubSeq(s, m, n)), Before(s, x, y)
  PROVE  Before(SubSeq(s, m, n), x, y)
<1> DEFINE u == SubSeq(s, m, n)
<1>1. /\ DOMAIN u = 1..(n - m + 1) /\ Len(s) \in Nat /\ DOMAIN s = 1..Len(s)
      /\ \A i \in DOMAIN u : m + i - 1 \in DOMAIN s /\ u[i] = s[m + i - 1]
  OBVIOUS
<1>2. PICK i \in DOMAIN u : u[i] = x
  BY DEF ToSet
<1>3. PICK j \in DOMAIN u : u[j] = y
  BY DEF ToSet
<1>4. PICK k \in DOMAIN s, l \in DOMAIN s : k < l /\ s[k] = x /\ s[l] = y
  BY DEF Before
<1>5. s[m + i - 1] = x /\ s[m + j - 1] = y /\ m + i - 1 \in DOMAIN s /\ m + j - 1 \in DOMAIN s
  BY <1>1, <1>2, <1>3
<1>6. x \in ToSet(s) /\ y \in ToSet(s)
  BY <1>4 DEF ToSet
<1>7. \A a, b \in DOMAIN s : s[a] = s[b] /\ s[a] \in ToSet(s) => ~ (a < b)
  BY DEF Before
<1>8. m + i - 1 = k /\ m + j - 1 = l
  <2>1. \A a, b \in DOMAIN s : s[a] = s[b] /\ s[a] \in ToSet(s) => a = b
    <3>1. \A a \in DOMAIN s : a \in Int
      OBVIOUS
    <3> QED BY <3>1, <1>7
  <2> QED BY <2>1, <1>4, <1>5, <1>6
<1>9. i < j
  BY <1>1, <1>4, <1>8
<1> HIDE DEF u
<1> QED BY <1>2, <1>3, <1>9 DEF Before, u

(* A function applied to each element of a sequence.                        *)
LEMMA MapElements ==
  ASSUME NEW S, NEW V, NEW s \in Seq(S), NEW f \in [S -> V], NEW m \in Seq(V),
         DOMAIN m = DOMAIN s, \A i \in DOMAIN s : m[i] = f[s[i]]
  PROVE  /\ ToSet(m) = { f[x] : x \in ToSet(s) }
         /\ \A p, q : Before(m, p, q) <=>
                \E x, y \in ToSet(s) : Before(s, x, y) /\ f[x] = p /\ f[y] = q
<1>1. DOMAIN m = DOMAIN s /\ DOMAIN s = 1..Len(s) /\ Len(s) \in Nat
  OBVIOUS
<1>2. \A i \in DOMAIN s : s[i] \in S /\ f[s[i]] \in V /\ m[i] = f[s[i]]
  OBVIOUS
<1>4. ToSet(m) = { f[x] : x \in ToSet(s) }
  BY <1>1, <1>2 DEF ToSet
<1>5. ASSUME NEW p, NEW q, Before(m, p, q)
      PROVE  \E x, y \in ToSet(s) : Before(s, x, y) /\ f[x] = p /\ f[y] = q
  <2>1. PICK i \in DOMAIN s, j \in DOMAIN s : i < j /\ m[i] = p /\ m[j] = q
    BY <1>1, <1>5 DEF Before
  <2>2. Before(s, s[i], s[j]) /\ s[i] \in ToSet(s) /\ s[j] \in ToSet(s)
    BY <2>1 DEF Before, ToSet
  <2> QED BY <2>1, <2>2, <1>2
<1>6. ASSUME NEW x \in ToSet(s), NEW y \in ToSet(s), Before(s, x, y) PROVE Before(m, f[x], f[y])
  <2>1. PICK i \in DOMAIN s, j \in DOMAIN s : i < j /\ s[i] = x /\ s[j] = y
    BY <1>6 DEF Before
  <2>2. m[i] = f[x] /\ m[j] = f[y]
    BY <2>1, <1>2
  <2> QED BY <2>1, <2>2, <1>1 DEF Before
<1> QED BY <1>4, <1>5, <1>6

(* A list that is not empty is its head and its tail.                      *)
LEMMA HeadTailElements ==
  ASSUME NEW S, NEW s \in Seq(S), s # <<>>
  PROVE  /\ Head(s) \in S /\ Tail(s) \in Seq(S) /\ Head(s) = s[1]
         /\ Len(s) \in Nat \ {0} /\ Len(Tail(s)) = Len(s) - 1
         /\ \A i \in DOMAIN Tail(s) : i + 1 \in DOMAIN s /\ Tail(s)[i] = s[i + 1]
         /\ ToSet(s) = {Head(s)} \cup ToSet(Tail(s))
         /\ \A x, y : Before(s, x, y) <=> Before(Tail(s), x, y) \/ (x = Head(s) /\ y \in ToSet(Tail(s)))
<1>1. /\ Head(s) \in S /\ Tail(s) \in Seq(S) /\ Head(s) = s[1]
      /\ Len(s) \in Nat \ {0} /\ Len(Tail(s)) = Len(s) - 1
      /\ DOMAIN s = 1..Len(s) /\ DOMAIN Tail(s) = 1..(Len(s) - 1)
  OBVIOUS
<1>2. \A i \in DOMAIN Tail(s) : i + 1 \in DOMAIN s /\ Tail(s)[i] = s[i + 1]
  BY <1>1
<1>3. \A i \in DOMAIN s : i # 1 => i - 1 \in DOMAIN Tail(s) /\ Tail(s)[i - 1] = s[i]
  <2> SUFFICES ASSUME NEW i \in DOMAIN s, i # 1
               PROVE  i - 1 \in DOMAIN Tail(s) /\ Tail(s)[i - 1] = s[i]
    OBVIOUS
  <2>1. i - 1 \in DOMAIN Tail(s) /\ (i - 1) + 1 = i
    BY <1>1
  <2> QED BY <2>1, <1>2
<1>4. 1 \in DOMAIN s
  BY <1>1
<1> DEFINE t == Tail(s)
           h == Head(s)
<1>5. ToSet(s) = {h} \cup ToSet(t)
  <2>1. h = s[1] /\ \A i \in DOMAIN t : i + 1 \in DOMAIN s /\ t[i] = s[i + 1]
    BY <1>1, <1>2
  <2>2. \A i \in DOMAIN s : i # 1 => i - 1 \in DOMAIN t /\ t[i - 1] = s[i]
    BY <1>3
  <2> HIDE DEF t, h
  <2>3. ToSet(s) \subseteq {h} \cup ToSet(t)
    BY <2>1, <2>2 DEF ToSet
  <2>4. {h} \cup ToSet(t) \subseteq ToSet(s)
    BY <2>1, <1>4 DEF ToSet
  <2> QED BY <2>3, <2>4
<1>6. \A x, y : Before(s, x, y) <=> Before(t, x, y) \/ (x = h /\ y \in ToSet(t))
  <2>1. /\ h = s[1] /\ \A i \in DOMAIN t : i + 1 \in DOMAIN s /\ t[i] = s[i + 1] /\ i \in Nat \ {0}
        /\ DOMAIN s \subseteq Nat /\ DOMAIN t \subseteq Nat
    BY <1>1, <1>2
  <2>2. \A i \in DOMAIN s : i # 1 => i - 1 \in DOMAIN t /\ t[i - 1] = s[i]
    BY <1>3
  <2> HIDE DEF t, h
  <2>3. ASSUME NEW x, NEW y, Before(s, x, y) PROVE Before(t, x, y) \/ (x = h /\ y \in ToSet(t))
    <3>1. PICK i \in DOMAIN s, j \in DOMAIN s : i < j /\ s[i] = x /\ s[j] = y
      BY <2>3 DEF Before
    <3>2. j # 1 /\ j - 1 \in DOMAIN t /\ t[j - 1] = y
      BY <3>1, <1>1, <2>2
    <3>3. CASE i = 1
      BY <3>1, <3>2, <3>3, <2>1 DEF ToSet
    <3>4. CASE i # 1
      <4>1. i - 1 \in DOMAIN t /\ t[i - 1] = x /\ i - 1 < j - 1
        BY <3>1, <3>4, <2>1, <2>2
      <4> QED BY <4>1, <3>2 DEF Before
    <3> QED BY <3>3, <3>4
  <2>4. ASSUME NEW x, NEW y, Before(t, x, y) PROVE Before(s, x, y)
    <3>1. PICK i \in DOMAIN t, j \in DOMAIN t : i < j /\ t[i] = x /\ t[j] = y
      BY <2>4 DEF Before
    <3>2. i + 1 < j + 1
      BY <3>1, <2>1
    <3> QED BY <3>1, <3>2, <2>1 DEF Before
  <2>5. ASSUME NEW y \in ToSet(t) PROVE Before(s, h, y)
    <3>1. PICK j \in DOMAIN t : t[j] = y
      BY DEF ToSet
    <3>2. 1 < j + 1
      BY <3>1, <2>1
    <3> QED BY <3>1, <3>2, <2>1, <1>4 DEF Before
  <2> QED BY <2>3, <2>4, <2>5
<1> QED BY <1>1, <1>2, <1>5, <1>6

(***************************************************************************)
(* Keep returns the elements in T, in their order.                         *)
(***************************************************************************)
LEMMA KeepDef ==
  ASSUME NEW S, NEW s \in Seq(S), NEW T
  PROVE  \E K \in [0..Len(s) -> Seq(S)] :
            /\ K[0] = <<>> /\ Keep(s, T) = K[Len(s)]
            /\ \A n \in 1..Len(s) : K[n] = IF s[n] \in T THEN Append(K[n - 1], s[n]) ELSE K[n - 1]
<1> DEFINE G == [p \in (1..Len(s)) \X Seq(S) |-> IF s[p[1]] \in T THEN Append(p[2], s[p[1]]) ELSE p[2]]
           Eq(f) == f = [n \in 0..Len(s) |-> IF n = 0 THEN <<>>
                              ELSE IF s[n] \in T THEN Append(f[n - 1], s[n]) ELSE f[n - 1]]
           K == CHOOSE f : Eq(f)
<1>1. Len(s) \in Nat /\ <<>> \in Seq(S) /\ \A n \in 1..Len(s) : s[n] \in S
  OBVIOUS
<1>2. G \in [(1..Len(s)) \X Seq(S) -> Seq(S)]
  BY <1>1
<1>3. PICK f \in [0..Len(s) -> Seq(S)] : f[0] = <<>> /\ \A n \in 1..Len(s) : f[n] = G[<<n, f[n - 1]>>]
  <2> DEFINE N == Len(s)
             V == Seq(S)
             v0 == <<>>
  <2>1. N \in Nat /\ v0 \in V /\ G \in [(1..N) \X V -> V]
    BY <1>1, <1>2
  <2> HIDE DEF G, N, V, v0
  <2>2. PICK f \in Recursive(N, V, v0, G) : TRUE
    BY <2>1, Recursion
  <2> QED BY <2>2 DEF N, V, v0, Recursive
<1>4. \A n \in 1..Len(s) : f[n] = IF s[n] \in T THEN Append(f[n - 1], s[n]) ELSE f[n - 1]
  <2> SUFFICES ASSUME NEW n \in 1..Len(s)
               PROVE  f[n] = IF s[n] \in T THEN Append(f[n - 1], s[n]) ELSE f[n - 1]
    OBVIOUS
  <2>1. f[n - 1] \in Seq(S)
    BY <1>1, <1>3
  <2> QED BY <2>1, <1>3
<1>5. Eq(f)
  <2> DEFINE g == [n \in 0..Len(s) |-> IF n = 0 THEN <<>>
                              ELSE IF s[n] \in T THEN Append(f[n - 1], s[n]) ELSE f[n - 1]]
  <2>1. ASSUME NEW n \in 0..Len(s) PROVE f[n] = g[n]
    <3>1. CASE n = 0
      BY <1>3, <3>1
    <3>2. CASE n # 0
      <4>1. n \in 1..Len(s)
        BY <1>1, <3>2
      <4> HIDE DEF Eq, K, G
      <4> QED BY <4>1, <3>2, <1>4
    <3> QED BY <3>1, <3>2
  <2>2. DOMAIN f = DOMAIN g /\ f = [n \in DOMAIN f |-> f[n]] /\ g = [n \in DOMAIN g |-> g[n]]
    OBVIOUS
  <2>3. f = g
    <3> HIDE DEF g
    <3> QED BY <2>1, <2>2
  <2> QED BY <2>3
<1>6. Eq(K)
  <2> HIDE DEF Eq
  <2> QED BY <1>5
<1>7. Keep(s, T) = K[Len(s)]
  BY DEF Keep
<1> DEFINE R(n) == IF s[n] \in T THEN Append(K[n - 1], s[n]) ELSE K[n - 1]
<1>8. K[0] = <<>> /\ DOMAIN K = 0..Len(s) /\ \A n \in 1..Len(s) : K[n] = R(n)
  <2> DEFINE g == [n \in 0..Len(s) |-> IF n = 0 THEN <<>> ELSE R(n)]
  <2>1. K = g
    <3> HIDE DEF K
    <3> QED BY <1>6
  <2>2. DOMAIN g = 0..Len(s) /\ \A n \in 0..Len(s) : g[n] = IF n = 0 THEN <<>> ELSE R(n)
    <3> HIDE DEF R
    <3> QED OBVIOUS
  <2>3. 0 \in 0..Len(s) /\ \A n \in 1..Len(s) : n \in 0..Len(s) /\ n # 0
    BY <1>1
  <2> HIDE DEF g, R, K
  <2> QED BY <2>1, <2>2, <2>3
<1>9. \A n \in 0..Len(s) : K[n] \in Seq(S)
  <2> DEFINE P == { n \in Nat : n <= Len(s) => K[n] \in Seq(S) }
  <2> HIDE DEF K
  <2>1. 0 \in P
    BY <1>1, <1>8
  <2>2. ASSUME NEW n \in Nat, n \in P PROVE n + 1 \in P
    <3> SUFFICES ASSUME n + 1 <= Len(s) PROVE K[n + 1] \in Seq(S)
      OBVIOUS
    <3>1. K[n] \in Seq(S) /\ n + 1 \in 1..Len(s) /\ (n + 1) - 1 = n
      BY <2>2, <1>1
    <3>2. K[n + 1] = IF s[n + 1] \in T THEN Append(K[n], s[n + 1]) ELSE K[n]
      BY <3>1, <1>8
    <3> QED BY <3>1, <3>2, <1>1
  <2>3. Nat \subseteq P
    <3> HIDE DEF P
    <3> QED BY <2>1, <2>2, SetInduction
  <2> QED BY <2>3, <1>1
<1>10. K \in [0..Len(s) -> Seq(S)]
  <2>1. K = [n \in 0..Len(s) |-> K[n]]
    <3> HIDE DEF K
    <3> QED BY <1>6
  <2> HIDE DEF K
  <2> QED BY <2>1, <1>9
<1> HIDE DEF K
<1> QED BY <1>7, <1>8, <1>10

(* Keep takes exactly the elements that pass, in their order.              *)
LEMMA KeepElements ==
  ASSUME NEW S, NEW s \in Seq(S), NEW T
  PROVE  /\ Keep(s, T) \in Seq(S)
         /\ ToSet(Keep(s, T)) = ToSet(s) \cap T
         /\ \A x, y : Before(Keep(s, T), x, y) <=> x \in T /\ y \in T /\ Before(s, x, y)
<1>1. PICK K \in [0..Len(s) -> Seq(S)] :
            /\ K[0] = <<>> /\ Keep(s, T) = K[Len(s)]
            /\ \A n \in 1..Len(s) : K[n] = IF s[n] \in T THEN Append(K[n - 1], s[n]) ELSE K[n - 1]
  BY KeepDef
<1> DEFINE First(n) == { s[i] : i \in 1..n }
           Ordered(n, x, y) == \E i, j \in 1..n : i < j /\ s[i] = x /\ s[j] = y
           Kept(n) == /\ ToSet(K[n]) = First(n) \cap T
                      /\ \A x, y : Before(K[n], x, y) <=> x \in T /\ y \in T /\ Ordered(n, x, y)
           P == { n \in Nat : n <= Len(s) => Kept(n) }
<1>2. Len(s) \in Nat /\ DOMAIN s = 1..Len(s) /\ \A n \in 1..Len(s) : s[n] \in S
  OBVIOUS
<1>3. 0 \in P
  <2>1. ToSet(<<>>) = {} /\ \A x, y : ~ Before(<<>>, x, y)
    BY DEF ToSet, Before
  <2>2. First(0) = {} /\ \A x, y : ~ Ordered(0, x, y)
    OBVIOUS
  <2>3. Kept(0)
    <3> HIDE DEF First, Ordered
    <3> QED BY <2>1, <2>2, <1>1
  <2> QED BY <2>3
<1>4. ASSUME NEW n \in Nat, n \in P PROVE n + 1 \in P
  <2> SUFFICES ASSUME n + 1 <= Len(s) PROVE Kept(n + 1)
    OBVIOUS
  <2> DEFINE e == s[n + 1]
  <2>1. /\ Kept(n) /\ n + 1 \in 1..Len(s) /\ e \in S /\ K[n] \in Seq(S)
        /\ K[n + 1] = IF e \in T THEN Append(K[n], e) ELSE K[n]
    <3>1. (n + 1) - 1 = n /\ n <= Len(s) /\ n + 1 \in 1..Len(s) /\ n \in 0..Len(s)
      BY <1>2
    <3>2. Kept(n)
      <4> HIDE DEF Kept
      <4> QED BY <1>4, <3>1
    <3> HIDE DEF Kept, P
    <3>3. K[n + 1] = IF s[n + 1] \in T THEN Append(K[n], s[n + 1]) ELSE K[n]
      BY <1>1, <3>1
    <3>4. K[n] \in Seq(S) /\ e \in S
      BY <1>2, <3>1
    <3> QED BY <3>1, <3>2, <3>3, <3>4
  <2>2. First(n + 1) = First(n) \cup {e}
    <3>1. 1..(n + 1) = 1..n \cup {n + 1}
      OBVIOUS
    <3> HIDE DEF P, Kept
    <3> QED BY <3>1
  <2>3. \A x, y : Ordered(n + 1, x, y) <=> Ordered(n, x, y) \/ (x \in First(n) /\ y = e)
    <3>1. ASSUME NEW x, NEW y, Ordered(n + 1, x, y) PROVE Ordered(n, x, y) \/ (x \in First(n) /\ y = e)
      <4>1. PICK i \in 1..(n + 1), j \in 1..(n + 1) : i < j /\ s[i] = x /\ s[j] = y
        BY <3>1
      <4>2. i \in 1..n
        BY <4>1
      <4>3. CASE j = n + 1
        BY <4>1, <4>2, <4>3
      <4>4. CASE j # n + 1
        BY <4>1, <4>2, <4>4
      <4> QED BY <4>3, <4>4
    <3>2. ASSUME NEW x, NEW y, Ordered(n, x, y) PROVE Ordered(n + 1, x, y)
      BY <3>2
    <3>3. ASSUME NEW x \in First(n) PROVE Ordered(n + 1, x, e)
      <4>1. PICK i \in 1..n : s[i] = x
        BY <3>3
      <4>2. i \in 1..(n + 1) /\ n + 1 \in 1..(n + 1) /\ i < n + 1
        OBVIOUS
      <4> QED BY <4>1, <4>2
    <3> HIDE DEF Ordered, First, e
    <3> QED BY <3>1, <3>2, <3>3
  <2> HIDE DEF First, Ordered, e
  <2>4. CASE e \in T
    <3>1. /\ ToSet(K[n + 1]) = ToSet(K[n]) \cup {e}
          /\ \A x, y : Before(K[n + 1], x, y) <=> Before(K[n], x, y) \/ (x \in ToSet(K[n]) /\ y = e)
      BY <2>1, <2>4, AppendElements
    <3> QED BY <3>1, <2>1, <2>2, <2>3, <2>4
  <2>5. CASE e \notin T
    BY <2>1, <2>2, <2>3, <2>5
  <2> QED BY <2>4, <2>5
<1>5. Nat \subseteq P
  <2> HIDE DEF P
  <2> QED BY <1>3, <1>4, SetInduction
<1>6. Kept(Len(s))
  <2> HIDE DEF Kept
  <2> QED BY <1>5, <1>2
<1>7. First(Len(s)) = ToSet(s) /\ \A x, y : Ordered(Len(s), x, y) <=> Before(s, x, y)
  BY <1>2 DEF ToSet, Before
<1> HIDE DEF First, Ordered
<1> QED BY <1>1, <1>2, <1>6, <1>7

(***************************************************************************)
(* FlattenSeq returns the elements of its sequences, block after block.    *)
(***************************************************************************)
LEMMA FlattenDef ==
  ASSUME NEW S, NEW ss \in Seq(Seq(S)), ss # <<>>
  PROVE  \E F \in [0..Len(ss) -> Seq(S)] :
            /\ F[0] = <<>> /\ FlattenSeq(ss) = F[Len(ss)]
            /\ \A n \in 1..Len(ss) : F[n] = F[n - 1] \o ss[n]
<1> DEFINE N == Len(ss)
           G == [p \in (1..N) \X Seq(S) |-> p[2] \o ss[p[1]]]
           Eq(f) == f = [i \in 1..N |-> IF i = 1 THEN ss[i] ELSE f[i - 1] \o ss[i]]
           K == CHOOSE f : Eq(f)
<1>1. N \in Nat /\ N # 0 /\ <<>> \in Seq(S) /\ \A n \in 1..N : ss[n] \in Seq(S)
  OBVIOUS
<1>2. G \in [(1..N) \X Seq(S) -> Seq(S)]
  BY <1>1
<1>3. PICK f \in [0..N -> Seq(S)] : f[0] = <<>> /\ \A n \in 1..N : f[n] = G[<<n, f[n - 1]>>]
  <2> DEFINE V == Seq(S)
             v0 == <<>>
  <2>1. N \in Nat /\ v0 \in V /\ G \in [(1..N) \X V -> V]
    BY <1>1, <1>2
  <2> HIDE DEF G, N, V, v0
  <2>2. PICK f \in Recursive(N, V, v0, G) : TRUE
    BY <2>1, Recursion
  <2> QED BY <2>2 DEF V, v0, Recursive
<1> HIDE DEF N
<1>4. \A n \in 1..N : f[n - 1] \in Seq(S) /\ f[n] = f[n - 1] \o ss[n]
  <2> SUFFICES ASSUME NEW n \in 1..N PROVE f[n - 1] \in Seq(S) /\ f[n] = f[n - 1] \o ss[n]
    OBVIOUS
  <2>1. f[n - 1] \in Seq(S)
    BY <1>1, <1>3
  <2> QED BY <2>1, <1>3
<1>5. f[1] = ss[1]
  <2>1. 1 \in 1..N /\ 1 - 1 = 0
    BY <1>1
  <2>2. f[1] = <<>> \o ss[1]
    <3>1. f[1] = f[1 - 1] \o ss[1] /\ f[0] = <<>>
      BY <2>1, <1>3, <1>4, Zenon
    <3> QED BY <3>1, <2>1
  <2>3. ss[1] \in Seq(S)
    BY <1>1, <2>1
  <2> QED BY <2>2, <2>3
<1> DEFINE h == [i \in 1..N |-> f[i]]
<1>6. Eq(h)
  <2> DEFINE g == [i \in 1..N |-> IF i = 1 THEN ss[i] ELSE h[i - 1] \o ss[i]]
  <2>1. ASSUME NEW i \in 1..N PROVE h[i] = g[i]
    <3>1. CASE i = 1
      BY <1>5, <3>1
    <3>2. CASE i # 1
      <4>1. i - 1 \in 1..N
        BY <1>1, <3>2
      <4>2. h[i] = f[i] /\ h[i - 1] = f[i - 1] /\ g[i] = h[i - 1] \o ss[i]
        BY <4>1, <3>2
      <4> HIDE DEF h, g
      <4> QED BY <4>2, <1>4
    <3> QED BY <3>1, <3>2
  <2>2. DOMAIN h = DOMAIN g /\ h = [i \in DOMAIN h |-> h[i]] /\ g = [i \in DOMAIN g |-> g[i]]
        /\ DOMAIN h = 1..N
    OBVIOUS
  <2>3. h = g
    <3> HIDE DEF g, h
    <3> QED BY <2>1, <2>2
  <2> QED BY <2>3
<1>7. Eq(K)
  <2> HIDE DEF Eq, h
  <2> QED BY <1>6
<1>8. FlattenSeq(ss) = K[N]
  BY <1>1 DEF FlattenSeq, N
<1> DEFINE R(i) == IF i = 1 THEN ss[i] ELSE K[i - 1] \o ss[i]
<1>9. \A i \in 1..N : K[i] = R(i)
  <2> DEFINE g == [i \in 1..N |-> R(i)]
  <2>1. K = g
    <3> HIDE DEF K
    <3> QED BY <1>7
  <2>2. \A i \in 1..N : g[i] = R(i)
    <3> HIDE DEF R
    <3> QED OBVIOUS
  <2> HIDE DEF g, R, K
  <2> QED BY <2>1, <2>2
<1>10. \A n \in 1..N : K[n] = f[n]
  <2> DEFINE P == { n \in Nat : n \in 1..N => K[n] = f[n] }
  <2> HIDE DEF K, Eq, G
  <2>1. 0 \in P
    OBVIOUS
  <2>2. ASSUME NEW n \in Nat, n \in P PROVE n + 1 \in P
    <3> SUFFICES ASSUME n + 1 \in 1..N PROVE K[n + 1] = f[n + 1]
      OBVIOUS
    <3>1. CASE n = 0
      BY <3>1, <1>5, <1>9
    <3>2. CASE n # 0
      <4>1. n \in 1..N /\ (n + 1) - 1 = n /\ n + 1 # 1
        BY <3>2, <1>1
      <4>2. K[n] = f[n] /\ K[n + 1] = K[n] \o ss[n + 1]
        BY <4>1, <2>2, <1>9
      <4>3. f[n + 1] = f[n] \o ss[n + 1]
        BY <4>1, <1>4
      <4> QED BY <4>2, <4>3
    <3> QED BY <3>1, <3>2
  <2>3. Nat \subseteq P
    <3> HIDE DEF P
    <3> QED BY <2>1, <2>2, SetInduction
  <2> QED BY <2>3, <1>1
<1> HIDE DEF K, G, Eq
<1>11. FlattenSeq(ss) = f[N]
  BY <1>8, <1>10, <1>1
<1> QED BY <1>3, <1>4, <1>11 DEF N

(* The elements of a list of lists laid end to end.                        *)
LEMMA FlattenElements ==
  ASSUME NEW S, NEW ss \in Seq(Seq(S))
  PROVE  /\ FlattenSeq(ss) \in Seq(S)
         /\ ToSet(FlattenSeq(ss)) = UNION { ToSet(ss[i]) : i \in DOMAIN ss }
         /\ \A x, y : Before(FlattenSeq(ss), x, y) <=>
                \/ \E i \in DOMAIN ss : Before(ss[i], x, y)
                \/ \E i, j \in DOMAIN ss : i < j /\ x \in ToSet(ss[i]) /\ y \in ToSet(ss[j])
<1>1. CASE ss = <<>>
  <2>1. FlattenSeq(ss) = <<>> /\ DOMAIN ss = {}
    BY <1>1 DEF FlattenSeq
  <2>2. ToSet(<<>>) = {} /\ (\A x, y : ~ Before(<<>>, x, y)) /\ <<>> \in Seq(S)
    BY DEF ToSet, Before
  <2> QED BY <2>1, <2>2
<1>2. CASE ss # <<>>
  <2>1. PICK F \in [0..Len(ss) -> Seq(S)] :
            /\ F[0] = <<>> /\ FlattenSeq(ss) = F[Len(ss)]
            /\ \A n \in 1..Len(ss) : F[n] = F[n - 1] \o ss[n]
    BY <1>2, FlattenDef
  <2> DEFINE N == Len(ss)
             Union(n) == UNION { ToSet(ss[i]) : i \in 1..n }
             Inside(n, x, y) == \E i \in 1..n : Before(ss[i], x, y)
             Across(n, x, y) == \E i, j \in 1..n : i < j /\ x \in ToSet(ss[i]) /\ y \in ToSet(ss[j])
             Flat(n) == /\ ToSet(F[n]) = Union(n)
                        /\ \A x, y : Before(F[n], x, y) <=> Inside(n, x, y) \/ Across(n, x, y)
             P == { n \in Nat : n <= N => Flat(n) }
  <2>2. N \in Nat /\ DOMAIN ss = 1..N /\ \A n \in 1..N : ss[n] \in Seq(S)
    OBVIOUS
  <2>3. 0 \in P
    <3>1. ToSet(<<>>) = {} /\ \A x, y : ~ Before(<<>>, x, y)
      BY DEF ToSet, Before
    <3>2. Union(0) = {} /\ \A x, y : ~ Inside(0, x, y) /\ ~ Across(0, x, y)
      OBVIOUS
    <3>3. Flat(0)
      <4> HIDE DEF Union, Inside, Across
      <4> QED BY <3>1, <3>2, <2>1
    <3> QED BY <3>3
  <2>4. ASSUME NEW n \in Nat, n \in P PROVE n + 1 \in P
    <3> SUFFICES ASSUME n + 1 <= N PROVE Flat(n + 1)
      <4> HIDE DEF Flat
      <4> QED OBVIOUS
    <3> DEFINE t == ss[n + 1]
    <3>1. n <= N /\ n + 1 \in 1..N /\ n \in 0..N /\ (n + 1) - 1 = n
      BY <2>2
    <3>2. Flat(n)
      <4> HIDE DEF Flat
      <4> QED BY <2>4, <3>1
    <3>3. F[n] \in Seq(S) /\ t \in Seq(S) /\ F[n + 1] = F[n] \o t
      <4> HIDE DEF Flat, P, N
      <4> QED BY <2>1, <2>2, <3>1 DEF N
    <3>4. Union(n + 1) = Union(n) \cup ToSet(t)
      <4>1. 1..(n + 1) = (1..n) \cup {n + 1}
        OBVIOUS
      <4> QED BY <4>1
    <3>5. \A x, y : Inside(n + 1, x, y) <=> Inside(n, x, y) \/ Before(t, x, y)
      <4>1. \A i : i \in 1..(n + 1) <=> i \in 1..n \/ i = n + 1
        OBVIOUS
      <4> QED BY <4>1
    <3>6. \A x, y : Across(n + 1, x, y) <=> Across(n, x, y) \/ (x \in Union(n) /\ y \in ToSet(t))
      <4>1. ASSUME NEW x, NEW y, Across(n + 1, x, y)
            PROVE  Across(n, x, y) \/ (x \in Union(n) /\ y \in ToSet(t))
        <5>1. PICK i \in 1..(n + 1), j \in 1..(n + 1) : i < j /\ x \in ToSet(ss[i]) /\ y \in ToSet(ss[j])
          BY <4>1
        <5>2. i \in 1..n
          BY <5>1
        <5>3. CASE j = n + 1
          BY <5>1, <5>2, <5>3
        <5>4. CASE j # n + 1
          <6>1. j \in 1..n
            BY <5>4
          <6>2. Across(n, x, y)
            BY <6>1, <5>1, <5>2
          <6> QED BY <6>2
        <5> QED BY <5>3, <5>4
      <4>2. ASSUME NEW x, NEW y, Across(n, x, y) PROVE Across(n + 1, x, y)
        BY <4>2
      <4>3. ASSUME NEW x \in Union(n), NEW y \in ToSet(t) PROVE Across(n + 1, x, y)
        <5>1. PICK i \in 1..n : x \in ToSet(ss[i])
          BY <4>3
        <5>2. i \in 1..(n + 1) /\ n + 1 \in 1..(n + 1) /\ i < n + 1
          OBVIOUS
        <5> QED BY <5>1, <5>2
      <4> HIDE DEF Across, Union, t
      <4> QED BY <4>1, <4>2, <4>3
    <3> HIDE DEF Union, Inside, Across, t
    <3>7. /\ ToSet(F[n + 1]) = ToSet(F[n]) \cup ToSet(t)
          /\ \A x, y : Before(F[n + 1], x, y) <=>
                \/ Before(F[n], x, y) \/ Before(t, x, y)
                \/ x \in ToSet(F[n]) /\ y \in ToSet(t)
      BY <3>3, ConcatElements
    <3> QED BY <3>2, <3>4, <3>5, <3>6, <3>7
  <2>5. Nat \subseteq P
    <3> HIDE DEF P
    <3> QED BY <2>3, <2>4, SetInduction
  <2>6. Flat(N)
    <3> HIDE DEF Flat, N
    <3> QED BY <2>5, <2>2
  <2>7. F[N] \in Seq(S) /\ F[N] = FlattenSeq(ss)
    <3> HIDE DEF Flat, P
    <3> QED BY <2>1, <2>2
  <2>8. Union(N) = UNION { ToSet(ss[i]) : i \in DOMAIN ss }
    BY <2>2
  <2>9. \A x, y : /\ Inside(N, x, y) <=> \E i \in DOMAIN ss : Before(ss[i], x, y)
                  /\ Across(N, x, y) <=>
                       \E i, j \in DOMAIN ss : i < j /\ x \in ToSet(ss[i]) /\ y \in ToSet(ss[j])
    BY <2>2
  <2> HIDE DEF Union, Inside, Across, N
  <2> QED BY <2>6, <2>7, <2>8, <2>9
<1> QED BY <1>1, <1>2

(***************************************************************************)
(* Two sequences without repetition that have the same elements in the     *)
(* same order are equal.                                                   *)
(***************************************************************************)
LEMMA SameOrder ==
  ASSUME NEW S, NEW s \in Seq(S), NEW t \in Seq(S), ToSet(s) = ToSet(t),
         \A x : ~ Before(s, x, x), \A x : ~ Before(t, x, x),
         \A x, y : Before(t, x, y) => Before(s, x, y)
  PROVE  s = t
<1>1. Len(s) \in Nat /\ Len(t) \in Nat /\ DOMAIN s = 1..Len(s) /\ DOMAIN t = 1..Len(t)
  OBVIOUS
<1>2. \A i, j \in DOMAIN s : i < j => s[i] # s[j]
  BY DEF Before
<1>3. \A i, j \in DOMAIN t : i < j => t[i] # t[j]
  BY DEF Before
<1> DEFINE P == { n \in Nat : \A i \in 1..n : i \in DOMAIN s /\ i \in DOMAIN t => s[i] = t[i] }
<1>4. 0 \in P
  OBVIOUS
<1>5. ASSUME NEW n \in Nat, n \in P PROVE n + 1 \in P
  <2> DEFINE k == n + 1
  <2> SUFFICES ASSUME k \in DOMAIN s, k \in DOMAIN t, s[k] # t[k] PROVE FALSE
    BY <1>5
  <2>1. PICK j \in DOMAIN t : t[j] = s[k]
    BY DEF ToSet
  <2>2. \A i \in 1..n : i \in DOMAIN s /\ i \in DOMAIN t /\ i < k /\ s[i] = t[i]
    BY <1>1, <1>5
  <2>3. ~ (j \in 1..n)
    BY <2>1, <2>2, <1>2
  <2>4. k < j
    BY <2>1, <2>3, <1>1
  <2>5. Before(t, t[k], s[k])
    BY <2>1, <2>4 DEF Before
  <2>6. PICK i \in DOMAIN s, m \in DOMAIN s : i < m /\ s[i] = t[k] /\ s[m] = s[k]
    BY <2>5 DEF Before
  <2>7. m = k
    BY <2>6, <1>1, <1>2
  <2>8. i \in 1..n
    BY <2>6, <2>7, <1>1
  <2>9. t[i] = t[k]
    BY <2>6, <2>8, <2>2
  <2> QED BY <2>8, <2>9, <2>2, <1>3
<1>6. Nat \subseteq P
  <2> HIDE DEF P
  <2> QED BY <1>4, <1>5, SetInduction
<1>7. \A i \in DOMAIN s : i \in DOMAIN t => s[i] = t[i]
  BY <1>1, <1>6
<1>8. Len(t) <= Len(s)
  <2> SUFFICES ASSUME Len(s) < Len(t) PROVE FALSE
    BY <1>1
  <2>1. Len(s) + 1 \in DOMAIN t
    BY <1>1
  <2>2. PICK i \in DOMAIN s : s[i] = t[Len(s) + 1]
    BY <2>1 DEF ToSet
  <2>3. i \in DOMAIN t /\ i < Len(s) + 1
    BY <1>1
  <2> QED BY <2>1, <2>2, <2>3, <1>3, <1>7
<1>9. Len(s) <= Len(t)
  <2> SUFFICES ASSUME Len(t) < Len(s) PROVE FALSE
    BY <1>1
  <2>1. Len(t) + 1 \in DOMAIN s
    BY <1>1
  <2>2. PICK i \in DOMAIN t : t[i] = s[Len(t) + 1]
    BY <2>1 DEF ToSet
  <2>3. i \in DOMAIN s /\ i < Len(t) + 1
    BY <1>1
  <2> QED BY <2>1, <2>2, <2>3, <1>2, <1>7
<1> DEFINE m == Len(s)
           n == Len(t)
<1>10. m = n
  <2>1. m \in Nat /\ n \in Nat /\ n <= m /\ m <= n
    BY <1>1, <1>8, <1>9
  <2> HIDE DEF m, n
  <2> QED BY <2>1
<1> QED BY <1>1, <1>7, <1>10

(* A list none of whose elements comes before another has at most one.     *)
LEMMA AtMostOneElement ==
  ASSUME NEW S, NEW s \in Seq(S), \A x, y : ~ Before(s, x, y)
  PROVE  Len(s) <= 1
<1> SUFFICES ASSUME Len(s) > 1 PROVE FALSE
  OBVIOUS
<1>1. 1 \in DOMAIN s /\ 2 \in DOMAIN s /\ 1 < 2
  OBVIOUS
<1>2. Before(s, s[1], s[2])
  BY <1>1 DEF Before
<1> QED BY <1>2
=============================================================================
