------------------------- MODULE SubsequenceProofs -------------------------
(***************************************************************************)
(* Select keeps the chosen elements, all of them and in their order.       *)
(*                                                                         *)
(* The provers take no induction scheme, whose parameter is a predicate.   *)
(* Induction on a natural number is therefore done with a set in place of  *)
(* the predicate, from the theorem that a non-empty set of naturals has a  *)
(* least element.                                                          *)
(***************************************************************************)
EXTENDS Subsequence, FiniteSetTheorems, WellFoundedInduction, TLAPS

\* A non-empty set of natural numbers has a least member.
LEMMA LeastNatural ==
    ASSUME NEW T \in SUBSET Nat, T # {}
    PROVE  \E x \in T : \A y \in T : x <= y
  <1> DEFINE R == {p \in Nat \X Nat : p[1] < p[2]}
  <1>1. OpToRel(<, Nat) = R
    BY DEF OpToRel
  <1>2. IsWellFoundedOn(OpToRel(<, Nat), Nat)
    BY NatLessThanWellFounded
  <1>3. IsWellFoundedOn(R, Nat)
    BY <1>1, <1>2
  <1>4. PICK x \in T : \A y \in T : ~ (<<y, x>> \in R)
    <2> HIDE DEF R
    <2> QED
      BY <1>3, WFMin
  <1>5. ASSUME NEW y \in T PROVE x <= y
    <2>1. <<y, x>> \in Nat \X Nat /\ <<y, x>>[1] = y /\ <<y, x>>[2] = x
      OBVIOUS
    <2>2. ~ (y < x)
      BY <1>4, <2>1
    <2>3. QED
      BY <2>2
  <1>6. QED
    BY <1>5

\* Induction over the naturals, for a set.
LEMMA SetInduction ==
    ASSUME NEW P, 0 \in P, \A n \in Nat : n \in P => n + 1 \in P
    PROVE  Nat \subseteq P
  <1> DEFINE T == Nat \ P
  <1>1. SUFFICES ASSUME T # {} PROVE FALSE
    OBVIOUS
  <1>2. PICK x \in T : \A y \in T : x <= y
    BY <1>1, LeastNatural
  <1>3. x # 0 /\ x - 1 \in Nat
    OBVIOUS
  <1>4. x - 1 \in P
    BY <1>2, <1>3
  <1>5. QED
    BY <1>3, <1>4

\* m lists the members of K in increasing order.
Enumerates(m, n, K) ==
    /\ m \in [1 .. n -> K]
    /\ \A j, k \in 1 .. n : j < k => m[j] < m[k]
    /\ \A x \in K : \E j \in 1 .. n : m[j] = x

\* Every finite set of positions can be listed in increasing order.
LEMMA Enumeration ==
    ASSUME NEW N \in Nat, NEW K \in SUBSET (1 .. N)
    PROVE  \E n \in 0 .. N : \E m : Enumerates(m, n, K)
  <1> DEFINE P == {M \in Nat : \A J \in SUBSET (1 .. M) :
                                 \E n \in 0 .. M : \E m : Enumerates(m, n, J)}
  <1>1. 0 \in P
    <2>1. ASSUME NEW J \in SUBSET (1 .. 0) PROVE \E n \in 0 .. 0 : \E m : Enumerates(m, n, J)
      <3>1. Enumerates([j \in 1 .. 0 |-> 0], 0, J)
        BY DEF Enumerates
      <3>2. QED
        BY <3>1
    <2>2. QED
      BY <2>1
  <1>2. ASSUME NEW M \in Nat, M \in P PROVE M + 1 \in P
    <2>1. SUFFICES ASSUME NEW J \in SUBSET (1 .. M + 1)
                   PROVE  \E n \in 0 .. M + 1 : \E m : Enumerates(m, n, J)
      OBVIOUS
    <2> DEFINE L == J \cap (1 .. M)
    <2>2. PICK n \in 0 .. M : \E m : Enumerates(m, n, L)
      BY <1>2
    <2>m. PICK m : Enumerates(m, n, L)
      BY <2>2
    <2>0. \A x \in J : x = M + 1 \/ x \in 1 .. M
      BY <2>1
    <2>3. CASE M + 1 \notin J
      <3>1. L = J
        BY <2>3, <2>0
      <3>2. QED
        BY <2>m, <3>1
    <2>4. CASE M + 1 \in J
      <3> DEFINE w == [j \in 1 .. n + 1 |-> IF j = n + 1 THEN M + 1 ELSE m[j]]
      <3>1. J = L \cup {M + 1}
        BY <2>4, <2>0
      <3>2. \A j \in 1 .. n : m[j] \in L
        BY <2>m DEF Enumerates
      <3>3. w \in [1 .. n + 1 -> J]
        BY <3>1, <3>2
      <3>4. ASSUME NEW j \in 1 .. n + 1, NEW k \in 1 .. n + 1, j < k PROVE w[j] < w[k]
        <4>1. j \in 1 .. n /\ w[j] = m[j] /\ m[j] \in 1 .. M
          BY <3>2, <3>4
        <4>2. CASE k = n + 1
          BY <4>1, <4>2
        <4>3. CASE k # n + 1
          <5>1. k \in 1 .. n /\ w[k] = m[k]
            BY <4>3
          <5>2. QED
            BY <4>1, <5>1, <3>4, <2>m DEF Enumerates
        <4>4. QED
          BY <4>2, <4>3
      <3>5. ASSUME NEW x \in J PROVE \E j \in 1 .. n + 1 : w[j] = x
        <4>1. CASE x = M + 1
          <5>1. n + 1 \in 1 .. n + 1 /\ w[n + 1] = M + 1
            OBVIOUS
          <5>2. QED
            BY <4>1, <5>1
        <4>2. CASE x \in L
          <5>1. PICK j \in 1 .. n : m[j] = x
            BY <4>2, <2>m DEF Enumerates
          <5>2. j \in 1 .. n + 1 /\ w[j] = x
            BY <5>1
          <5>3. QED
            BY <5>2
        <4>3. QED
          BY <4>1, <4>2, <3>1
      <3> HIDE DEF w
      <3>6. Enumerates(w, n + 1, J)
        BY <3>3, <3>4, <3>5 DEF Enumerates
      <3>7. QED
        BY <3>6
    <2>5. QED
      BY <2>3, <2>4
  <1> HIDE DEF P
  <1>3. Nat \subseteq P
    BY <1>1, <1>2, SetInduction
  <1>4. N \in P
    BY <1>3
  <1>5. QED
    BY <1>4 DEF P

\* The j-th member of an enumeration of K is the one with j members up to it.
LEMMA EnumerationRanks ==
    ASSUME NEW N \in Nat, NEW K \in SUBSET (1 .. N), NEW n \in Nat, NEW m,
           Enumerates(m, n, K)
    PROVE  /\ Cardinality(K) = n
           /\ \A j \in 1 .. n : Nth(K, j) = m[j]
  <1>1. \A j, k \in 1 .. n : m[j] <= m[k] <=> j <= k
    <2>0. \A x \in K : x \in Int
      OBVIOUS
    <2>1. \A j \in 1 .. n : m[j] \in Int
      BY <2>0 DEF Enumerates
    <2>2. QED
      BY <2>1 DEF Enumerates
  <1>2. ASSUME NEW j \in 0 .. n, NEW L, L = {m[k] : k \in 1 .. j}
        PROVE  Cardinality(L) = j
    <2> DEFINE f == [k \in 1 .. j |-> m[k]]
    <2>1. f \in [1 .. j -> L]
      BY <1>2
    <2>2. \A x, y \in 1 .. j : f[x] = f[y] => x = y
      <3>1. \A x, y \in 1 .. j : x \in 1 .. n /\ y \in 1 .. n /\ f[x] = m[x] /\ f[y] = m[y]
        OBVIOUS
      <3>2. \A k \in 1 .. n : m[k] \in Int
        <4>1. \A x \in K : x \in Int
          OBVIOUS
        <4>2. QED
          BY <4>1 DEF Enumerates
      <3>3. QED
        BY <3>1, <3>2, <1>1
    <2>3. \A x \in L : \E k \in 1 .. j : f[k] = x
      BY <1>2
    <2>4. f \in Bijection(1 .. j, L)
      BY <2>1, <2>2, <2>3 DEF Bijection, Injection, Surjection, IsInjective
    <2>5. ExistsBijection(1 .. j, L)
      BY <2>4 DEF ExistsBijection
    <2>6. QED
      BY <2>5, FS_CountingElements
  <1>3. K = {m[k] : k \in 1 .. n}
    BY DEF Enumerates
  <1>4. Cardinality(K) = n
    BY <1>2, <1>3
  <1>5. \A j \in 1 .. n : Cardinality({x \in K : x <= m[j]}) = j
    <2>1. TAKE j \in 1 .. n
    <2>2. {x \in K : x <= m[j]} = {m[k] : k \in 1 .. j}
      BY <1>1, <1>3
    <2>3. QED
      BY <2>2, <1>2
  <1>6. ASSUME NEW j \in 1 .. n PROVE Nth(K, j) = m[j]
    <2>1. m[j] \in K /\ Cardinality({x \in K : x <= m[j]}) = j
      BY <1>5 DEF Enumerates
    <2>2. ASSUME NEW y \in K, Cardinality({x \in K : x <= y}) = j PROVE y = m[j]
      <3>1. PICK k \in 1 .. n : m[k] = y
        BY DEF Enumerates
      <3>2. k = j
        BY <3>1, <2>2, <1>5
      <3>3. QED
        BY <3>1, <3>2
    <2>3. QED
      BY <2>1, <2>2 DEF Nth
  <1>7. QED
    BY <1>4, <1>6

\* What retain leaves: an increasing list of the kept positions says where each
\* element of the result comes from.
THEOREM SelectIsSubsequence ==
    ASSUME NEW S, NEW q \in Seq(S), NEW K \in SUBSET DOMAIN q
    PROVE  /\ Select(q, K) \in Seq(S)
           /\ \E m : /\ Enumerates(m, Len(Select(q, K)), K)
                     /\ \A j \in DOMAIN Select(q, K) : Select(q, K)[j] = q[m[j]]
  <1>1. K \in SUBSET (1 .. Len(q)) /\ Len(q) \in Nat
    OBVIOUS
  <1>2. PICK n \in 0 .. Len(q) : \E m : Enumerates(m, n, K)
    BY <1>1, Enumeration
  <1>m. PICK m : Enumerates(m, n, K)
    BY <1>2
  <1>3. Cardinality(K) = n /\ \A j \in 1 .. n : Nth(K, j) = m[j]
    <2>1. n \in Nat
      OBVIOUS
    <2>2. QED
      BY <2>1, <1>1, <1>m, EnumerationRanks
  <1>4. Select(q, K) = [j \in 1 .. n |-> q[m[j]]]
    BY <1>3 DEF Select
  <1>5. \A j \in 1 .. n : q[m[j]] \in S
    BY <1>m DEF Enumerates
  <1>6. Select(q, K) \in Seq(S) /\ Len(Select(q, K)) = n /\ DOMAIN Select(q, K) = 1 .. n
    BY <1>4, <1>5
  <1>7. QED
    BY <1>m, <1>4, <1>6

\* A subsequence is no longer than the list, and repeats nothing the list does
\* not repeat.
LEMMA SelectKeepsDistinct ==
    ASSUME NEW S, NEW q \in Seq(S), NEW K \in SUBSET DOMAIN q
    PROVE  /\ Len(Select(q, K)) <= Len(q)
           /\ \A j \in DOMAIN Select(q, K) : \E k \in K : Select(q, K)[j] = q[k]
           /\ (\A i, j \in DOMAIN q : q[i] = q[j] => i = j)
                => \A i, j \in DOMAIN Select(q, K) :
                       Select(q, K)[i] = Select(q, K)[j] => i = j
  <1>1. K \in SUBSET (1 .. Len(q)) /\ Len(q) \in Nat
    OBVIOUS
  <1>2. PICK n \in 0 .. Len(q) : \E m : Enumerates(m, n, K)
    BY <1>1, Enumeration
  <1>3. PICK m : Enumerates(m, n, K)
    BY <1>2
  <1>4. n \in Nat
    OBVIOUS
  <1>5. Cardinality(K) = n /\ \A j \in 1 .. n : Nth(K, j) = m[j]
    BY <1>1, <1>3, <1>4, EnumerationRanks
  <1>6. Select(q, K) = [j \in 1 .. n |-> q[m[j]]]
    BY <1>5 DEF Select
  <1> HIDE DEF Select
  <1>7. \A j \in 1 .. n : m[j] \in K
    BY <1>3 DEF Enumerates
  <1>8. Len(Select(q, K)) = n /\ DOMAIN Select(q, K) = 1 .. n
    BY <1>4, <1>6
  <1>9. ASSUME \A i, j \in DOMAIN q : q[i] = q[j] => i = j,
               NEW i \in 1 .. n, NEW j \in 1 .. n, Select(q, K)[i] = Select(q, K)[j]
        PROVE  i = j
    <2>1. q[m[i]] = q[m[j]]
      BY <1>6, <1>9
    <2>2. m[i] = m[j] /\ m[i] \in Int
      BY <2>1, <1>7, <1>9, <1>1
    <2>3. ~ (i < j) /\ ~ (j < i)
      BY <2>2, <1>3 DEF Enumerates
    <2> QED BY <2>3, <1>4
  <1>10. Len(Select(q, K)) <= Len(q)
    BY <1>8, <1>1
  <1>11. \A j \in DOMAIN Select(q, K) : \E k \in K : Select(q, K)[j] = q[k]
    BY <1>6, <1>7, <1>8
  <1> QED BY <1>8, <1>9, <1>10, <1>11
=============================================================================
