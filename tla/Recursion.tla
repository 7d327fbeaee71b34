----------------------------- MODULE Recursion ------------------------------
(***************************************************************************)
(* Induction over the naturals without an operator parameter: what is to   *)
(* be shown is a set, of the numbers it holds for.  From it follows that a *)
(* function defined by recursion exists, which for one written as          *)
(* f[n \in 0 .. N] == ... means that it satisfies its equation.            *)
(***************************************************************************)
EXTENDS Naturals, WellFoundedInduction, TLAPS

\* Every nonempty set of naturals has a least element.
LEMMA LeastNat ==
  ASSUME NEW T, T \subseteq Nat, T # {}
  PROVE  \E m \in T : \A n \in T : m <= n
<1>1. PICK m \in T : \A n \in T : ~(<<n, m>> \in OpToRel(<, Nat))
  BY NatLessThanWellFounded, WFMin
<1>2. ASSUME NEW n \in T PROVE m <= n
  <2>1. ~(<<n, m>> \in {ss \in Nat \X Nat : ss[1] < ss[2]})
    BY <1>1 DEF OpToRel
  <2>2. ~(n < m)
    BY <2>1
  <2> QED BY <2>2
<1> QED BY <1>2

\* A set that has 0 and with every number the next one has them all.
LEMMA SetInduction ==
  ASSUME NEW S, 0 \in S, \A n \in Nat : n \in S => n + 1 \in S
  PROVE  Nat \subseteq S
<1> SUFFICES ASSUME Nat \ S # {} PROVE FALSE
  OBVIOUS
<1>1. PICK m \in Nat \ S : \A n \in Nat \ S : m <= n
  BY LeastNat
<1>2. m # 0 /\ m - 1 \in Nat /\ (m - 1) + 1 = m
  BY <1>1
<1>3. m - 1 \in S
  BY <1>1, <1>2
<1> QED BY <1>1, <1>2, <1>3

\* The same up to a bound.
LEMMA InductionUpTo ==
  ASSUME NEW N \in Nat, NEW S, 0 \in S, \A n \in 1 .. N : n - 1 \in S => n \in S
  PROVE  0 .. N \subseteq S
<1> DEFINE T == {n \in Nat : n <= N => n \in S}
<1>1. 0 \in T
  OBVIOUS
<1>2. ASSUME NEW n \in Nat, n \in T PROVE n + 1 \in T
  <2>1. ASSUME n + 1 <= N PROVE n + 1 \in S
    <3>1. n \in S /\ n + 1 \in 1 .. N /\ (n + 1) - 1 = n
      BY <1>2, <2>1
    <3> QED BY <3>1
  <2> QED BY <2>1
<1>3. Nat \subseteq T
  <2> HIDE DEF T
  <2> QED BY <1>1, <1>2, SetInduction
<1> QED BY <1>3

\* What a recursion keeps.
LEMMA RecursiveKeeps ==
  ASSUME NEW N \in Nat, NEW X, NEW f, f[0] \in X,
         \A n \in 1 .. N : f[n - 1] \in X => f[n] \in X
  PROVE  \A n \in 0 .. N : f[n] \in X
<1> DEFINE S == {n \in 0 .. N : f[n] \in X}
<1>1. 0 \in S
  OBVIOUS
<1>2. ASSUME NEW n \in 1 .. N, n - 1 \in S PROVE n \in S
  BY <1>2
<1>3. 0 .. N \subseteq S
  <2> HIDE DEF S
  <2> QED BY <1>1, <1>2, InductionUpTo
<1> QED BY <1>3

Steps(N, X) == [1 .. N -> [X -> X]]

Follows(f, N, X, first, step) ==
  /\ f \in [0 .. N -> X]
  /\ f[0] = first
  /\ \A n \in 1 .. N : f[n] = step[n][f[n - 1]]

\* A function defined by recursion over 0 .. N exists, with values in X.
LEMMA RecursiveExists ==
  ASSUME NEW X, NEW N \in Nat, NEW x0 \in X, NEW G \in Steps(N, X)
  PROVE  \E f : Follows(f, N, X, x0, G)
<1> USE DEF Steps, Follows
<1> DEFINE Fits(k, f) == f[0] = x0 /\ \A n \in 1 .. k : f[n] = G[n][f[n - 1]]
           S == {k \in Nat : k <= N => \E f \in [0 .. N -> X] : Fits(k, f)}
<1>1. 0 \in S
  <2>1. [n \in 0 .. N |-> x0] \in [0 .. N -> X]
    OBVIOUS
  <2>2. Fits(0, [n \in 0 .. N |-> x0])
    OBVIOUS
  <2> QED BY <2>1, <2>2
<1>2. ASSUME NEW k \in Nat, k \in S PROVE k + 1 \in S
  <2>1. ASSUME k + 1 <= N PROVE \E f \in [0 .. N -> X] : Fits(k + 1, f)
    <3>1. PICK f \in [0 .. N -> X] : Fits(k, f)
      BY <1>2, <2>1
    <3>2. k \in 0 .. N /\ k + 1 \in 1 .. N /\ k + 1 \in 0 .. N
      BY <2>1
    <3>3. G[k + 1][f[k]] \in X
      BY <3>2
    <3>4. PICK g : g = [f EXCEPT ![k + 1] = G[k + 1][f[k]]]
      OBVIOUS
    <3>5. g \in [0 .. N -> X]
      BY <3>3, <3>4
    <3>6. /\ g[k + 1] = G[k + 1][f[k]]
          /\ \A n \in 0 .. k : g[n] = f[n]
      BY <3>2, <3>4
    <3>7. ASSUME NEW n \in 1 .. k + 1 PROVE g[n] = G[n][g[n - 1]]
      <4>1. n - 1 \in 0 .. k
        OBVIOUS
      <4>2. g[n - 1] = f[n - 1]
        BY <3>6, <4>1
      <4>3. CASE n = k + 1
        BY <3>6, <4>2, <4>3
      <4>4. CASE n # k + 1
        BY <3>1, <3>6, <4>2, <4>4
      <4> QED BY <4>3, <4>4
    <3> QED BY <3>1, <3>5, <3>6, <3>7
  <2> QED BY <2>1
<1> HIDE DEF S
<1>3. N \in S
  BY <1>1, <1>2, SetInduction
<1> QED BY <1>3 DEF S
=============================================================================
