----------------------------- MODULE Induction -----------------------------
(***************************************************************************)
(* Induction and primitive recursion over the natural numbers, stated of   *)
(* sets and functions instead of operators: a fact holds of every number   *)
(* if the set of the numbers it holds of is closed, and a function that is *)
(* defined by recursion over an interval satisfies its definition.         *)
(***************************************************************************)
EXTENDS Naturals, WellFoundedInduction, TLAPS

LEMMA LeastNumber ==
  ASSUME NEW T, T \subseteq Nat, T # {}
  PROVE  \E m \in T : \A n \in T : m <= n
<1> DEFINE R == {p \in Nat \X Nat : p[1] < p[2]}
<1>1. IsWellFoundedOn(R, Nat)
  BY NatLessThanWellFounded DEF OpToRel
<1> HIDE DEF R
<1>2. PICK m \in T : \A n \in T : ~(<<n, m>> \in R)
  BY <1>1, WFMin
<1>3. \A n \in T : <<n, m>> \in Nat \X Nat
  BY <1>2
<1>4. \A n \in T : ~(n < m)
  BY <1>2, <1>3 DEF R
<1> QED BY <1>2, <1>4

LEMMA Induct ==
  ASSUME NEW T, 0 \in T, \A n \in Nat : n \in T => n + 1 \in T
  PROVE  \A n \in Nat : n \in T
<1> DEFINE Bad == {n \in Nat : n \notin T}
<1> SUFFICES ASSUME Bad # {} PROVE FALSE
  OBVIOUS
<1>1. PICK m \in Bad : \A n \in Bad : m <= n
  BY LeastNumber
<1>2. m # 0 /\ m - 1 \in Nat /\ m - 1 \notin Bad
  BY <1>1
<1> QED BY <1>1, <1>2

(* A value for every number, from the one before it. *)
Iterates(f, S, a, G) ==
  f \in [Nat -> S] /\ f[0] = a /\ \A n \in Nat \ {0} : f[n] = G[<<n, f[n - 1]>>]

LEMMA Recursion ==
  ASSUME NEW S, NEW a \in S, NEW G \in [Nat \X S -> S]
  PROVE  \E f : Iterates(f, S, a, G)
<1> DEFINE Up(n) == {f \in [0 .. n -> S] : f[0] = a /\ \A k \in 1 .. n : f[k] = G[<<k, f[k - 1]>>]}
           Exists == {n \in Nat : Up(n) # {}}
<1>1. \A n \in Nat : Up(n) # {}
  <2>1. 0 \in Exists
    <3>1. [k \in 0 .. 0 |-> a] \in Up(0)
      OBVIOUS
    <3> QED BY <3>1
  <2>2. ASSUME NEW n \in Nat, n \in Exists PROVE n + 1 \in Exists
    <3>1. PICK f \in Up(n) : TRUE
      BY <2>2
    <3> DEFINE g == [k \in 0 .. n + 1 |-> IF k = n + 1 THEN G[<<n + 1, f[n]>>] ELSE f[k]]
    <3>2. /\ f \in [0 .. n -> S] /\ f[0] = a
          /\ \A k \in 1 .. n : f[k] = G[<<k, f[k - 1]>>]
      BY <3>1
    <3>3. \A k \in 0 .. n : g[k] = f[k] /\ k # n + 1
      OBVIOUS
    <3>4. n \in 0 .. n /\ f[n] \in S /\ <<n + 1, f[n]>> \in Nat \X S
      BY <3>2
    <3>5. g[n + 1] = G[<<n + 1, f[n]>>] /\ G[<<n + 1, f[n]>>] \in S
      BY <3>4
    <3>6. g \in [0 .. n + 1 -> S]
      <4>1. ASSUME NEW k \in 0 .. n + 1 PROVE g[k] \in S
        <5>1. k \in 0 .. n \/ k = n + 1
          OBVIOUS
        <5> QED BY <3>2, <3>3, <3>5, <5>1
      <4> QED BY <4>1
    <3> HIDE DEF g
    <3>7. g[0] = a
      BY <3>2, <3>3
    <3>8. ASSUME NEW k \in 1 .. n + 1 PROVE g[k] = G[<<k, g[k - 1]>>]
      <4>1. CASE k \in 1 .. n
        <5>1. k \in 0 .. n /\ k - 1 \in 0 .. n
          BY <4>1
        <5> QED BY <3>2, <3>3, <4>1, <5>1
      <4>2. CASE k = n + 1
        <5>1. k - 1 = n /\ g[n] = f[n]
          BY <3>3, <3>4, <4>2
        <5> QED BY <3>5, <4>2, <5>1
      <4> QED BY <4>1, <4>2
    <3>9. g \in Up(n + 1)
      BY <3>6, <3>7, <3>8
    <3> QED BY <3>9
  <2> HIDE DEF Up
  <2>3. \A n \in Nat : n \in Exists
    <3> HIDE DEF Exists
    <3> QED BY <2>1, <2>2, Induct
  <2> QED BY <2>3
<1>2. ASSUME NEW m \in Nat, NEW n \in Nat, NEW f \in Up(m), NEW g \in Up(n)
      PROVE  \A k \in Nat : k <= m /\ k <= n => f[k] = g[k]
  <2> DEFINE Same == {k \in Nat : k <= m /\ k <= n => f[k] = g[k]}
  <2>1. 0 \in Same
    OBVIOUS
  <2>2. ASSUME NEW k \in Nat, k \in Same PROVE k + 1 \in Same
    <3>1. SUFFICES ASSUME k + 1 <= m, k + 1 <= n PROVE f[k + 1] = g[k + 1]
      OBVIOUS
    <3>2. f[k] = g[k] /\ k + 1 \in 1 .. m /\ k + 1 \in 1 .. n /\ (k + 1) - 1 = k
      BY <2>2, <3>1
    <3> QED BY <3>2
  <2>3. \A k \in Nat : k \in Same
    <3> HIDE DEF Same
    <3> QED BY <2>1, <2>2, Induct
  <2> QED BY <2>3
<1> DEFINE Pick(n) == CHOOSE f \in Up(n) : TRUE
           h == [n \in Nat |-> Pick(n)[n]]
<1>3. \A n \in Nat : Pick(n) \in Up(n)
  <2> HIDE DEF Up
  <2> QED BY <1>1
<1>4. ASSUME NEW n \in Nat PROVE Pick(n) \in [0 .. n -> S] /\ h[n] = Pick(n)[n] /\ h[n] \in S
  <2>1. Pick(n) \in [0 .. n -> S]
    <3> HIDE DEF Pick
    <3> QED BY <1>3
  <2>2. h[n] = Pick(n)[n]
    OBVIOUS
  <2> HIDE DEF h, Pick
  <2> QED BY <2>1, <2>2
<1>5. h \in [Nat -> S]
  <2>1. \A n \in Nat : Pick(n)[n] \in S
    <3> HIDE DEF h, Pick
    <3> QED BY <1>4
  <2> HIDE DEF Pick
  <2> QED BY <2>1
<1>6. h[0] = a
  <2> HIDE DEF h, Pick
  <2> QED BY <1>3, <1>4
<1>7. ASSUME NEW n \in Nat \ {0} PROVE h[n] = G[<<n, h[n - 1]>>]
  <2> HIDE DEF h, Pick
  <2>1. n - 1 \in Nat /\ n \in 1 .. n /\ n - 1 <= n /\ n - 1 <= n - 1
    OBVIOUS
  <2>2. Pick(n)[n] = G[<<n, Pick(n)[n - 1]>>]
    BY <1>3, <2>1
  <2>3. Pick(n)[n - 1] = Pick(n - 1)[n - 1]
    <3> HIDE DEF Up
    <3> QED BY <1>2, <1>3, <2>1
  <2>4. h[n] = Pick(n)[n] /\ h[n - 1] = Pick(n - 1)[n - 1]
    BY <1>4, <2>1
  <2> QED BY <2>2, <2>3, <2>4
<1> HIDE DEF h
<1> QED BY <1>5, <1>6, <1>7 DEF Iterates
=============================================================================
