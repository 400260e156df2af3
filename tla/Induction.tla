------------------------------ MODULE Induction ------------------------------
(***************************************************************************)
(* Least and greatest elements of sets of naturals, and what follows from  *)
(* them: induction over the naturals up to a bound, and recursion.         *)
(*                                                                         *)
(* An induction is over a set Good, of the numbers for which a fact holds. *)
(***************************************************************************)
EXTENDS Integers, FiniteSetsExt, FiniteSetTheorems, WellFoundedInduction, TLAPS

\* A non-empty set of naturals has a least element.
LEMMA NatHasMin ==
    ASSUME NEW S \in SUBSET Nat, S # {}
    PROVE  \E x \in S : \A y \in S : x <= y
<1>1. PICK x \in S : \A y \in S : ~ (<<y, x>> \in OpToRel(<, Nat))
      BY NatLessThanWellFounded, WFMin
<1>2. \A y \in S : ~ (y < x)
      BY <1>1 DEF OpToRel
<1>. QED
      BY <1>2

\* A non-empty set of naturals below a bound has a greatest element.
LEMMA BoundedHasMax ==
    ASSUME NEW N \in Nat, NEW S \in SUBSET (0..N), S # {}
    PROVE  \E x \in S : \A y \in S : x >= y
<1>. DEFINE T == {N - y : y \in S}
<1>1. T \in SUBSET Nat /\ T # {}
  <2>1. \A y \in S : N - y \in Nat
        OBVIOUS
  <2>2. PICK y \in S : TRUE
        OBVIOUS
  <2>3. N - y \in T
        BY <2>2
  <2>. QED
        BY <2>1, <2>3
<1>2. PICK t \in T : \A u \in T : t <= u
      BY <1>1, NatHasMin
<1>3. PICK x \in S : t = N - x
      OBVIOUS
<1>4. \A y \in S : x >= y
      BY <1>2, <1>3
<1>. QED
      BY <1>4

\* Max picks a greatest element of such a set.
LEMMA MaxBounded ==
    ASSUME NEW N \in Nat, NEW S \in SUBSET (0..N), S # {}
    PROVE  Max(S) \in S /\ \A y \in S : y <= Max(S)
<1>1. PICK x \in S : \A y \in S : x >= y
      BY BoundedHasMax
<1>2. Max(S) \in S /\ \A y \in S : Max(S) >= y
      BY <1>1 DEF Max
<1>. QED
      BY <1>2

\* Min picks a least element of a set of naturals.
LEMMA MinNat ==
    ASSUME NEW S \in SUBSET Nat, S # {}
    PROVE  Min(S) \in S /\ \A y \in S : Min(S) <= y
<1>1. PICK x \in S : \A y \in S : x <= y
      BY NatHasMin
<1>2. Min(S) \in S /\ \A y \in S : Min(S) =< y
      BY <1>1 DEF Min
<1>. QED
      BY <1>2

\* A finite, non-empty set of naturals has a greatest element: if some had none,
\* one with the fewest elements would, and taking an element out of it would leave
\* a smaller one.
LEMMA FiniteHasMax ==
    ASSUME NEW S \in SUBSET Nat, IsFiniteSet(S), S # {}
    PROVE  \E x \in S : \A y \in S : x >= y
<1>. DEFINE Bad(T) == T # {} /\ IsFiniteSet(T) /\ ~ \E x \in T : \A y \in T : x >= y
            Sizes == {n \in Nat : \E T \in SUBSET Nat : Bad(T) /\ Cardinality(T) = n}
<1>1. SUFFICES ASSUME Bad(S) PROVE FALSE
      OBVIOUS
<1>2. Sizes \in SUBSET Nat /\ Sizes # {}
  <2>1. Cardinality(S) \in Nat
        BY FS_CardinalityType
  <2>2. Cardinality(S) \in Sizes
        BY <1>1, <2>1
  <2>. QED BY <2>2
<1>3. PICK n \in Sizes : \A k \in Sizes : n <= k
  <2>. HIDE DEF Sizes
  <2>. QED BY <1>2, NatHasMin
<1>4. PICK T \in SUBSET Nat : Bad(T) /\ Cardinality(T) = n
      OBVIOUS
<1>5. PICK t \in T : TRUE
      BY <1>4
<1>. DEFINE U == T \ {t}
<1>6. IsFiniteSet(U) /\ Cardinality(U) = n - 1 /\ n \in Nat /\ Cardinality(U) \in Nat
      BY <1>4, <1>5, FS_RemoveElement, FS_CardinalityType
<1>7. ~Bad(U)
  <2>1. ~ (n - 1 \in Sizes)
    <3>. HIDE DEF Sizes
    <3>. QED BY <1>3, <1>6
  <2>. HIDE DEF Bad
  <2>. QED BY <1>6, <2>1
<1>8. CASE U = {}
  <2>1. T = {t} /\ t \in Nat
        BY <1>5, <1>8
  <2>. QED BY <1>4, <2>1
<1>9. CASE U # {}
  <2>1. PICK x \in U : \A y \in U : x >= y
        BY <1>6, <1>7, <1>9
  <2>2. x \in T /\ t \in T /\ \A y \in T : y \in Nat
        BY <1>5
  <2>3. CASE x >= t
    <3>1. \A y \in T : x >= y
          BY <2>1, <2>2, <2>3
    <3>. QED BY <1>4, <2>2, <3>1
  <2>4. CASE ~ (x >= t)
    <3>1. \A y \in T : t >= y
          BY <2>1, <2>2, <2>4
    <3>. QED BY <1>4, <2>2, <3>1
  <2>. QED BY <2>3, <2>4
<1>. QED BY <1>8, <1>9

LEMMA MaxFinite ==
    ASSUME NEW S \in SUBSET Nat, IsFiniteSet(S), S # {}
    PROVE  Max(S) \in S /\ \A y \in S : y <= Max(S)
<1>1. PICK x \in S : \A y \in S : x >= y
      BY FiniteHasMax
<1>2. Max(S) \in S /\ \A y \in S : Max(S) >= y
      BY <1>1 DEF Max
<1>. QED
      BY <1>2

-----------------------------------------------------------------------------
\* Induction up to a bound, over the set of the numbers for which a fact holds.
LEMMA UpToInduction ==
    ASSUME NEW N \in Nat, NEW Good, 0 \in Good,
           \A n \in 1..N : n - 1 \in Good => n \in Good
    PROVE  \A n \in 0..N : n \in Good
<1>. DEFINE Bad == {n \in 0..N : n \notin Good}
<1>. SUFFICES ASSUME Bad # {} PROVE FALSE
     OBVIOUS
<1>0. Bad \in SUBSET Nat
      OBVIOUS
<1>1. PICK x \in Bad : \A y \in Bad : x <= y
      BY <1>0, NatHasMin
<1>2. x \in 1..N
      BY <1>1
<1>3. x - 1 \in Good
      BY <1>1, <1>2
<1>. QED
     BY <1>1, <1>2, <1>3

\* The same, from the bound down.
LEMMA DownInduction ==
    ASSUME NEW N \in Nat, NEW Good,
           \A n \in 1..N : (\A m \in (n + 1)..N : m \in Good) => n \in Good
    PROVE  \A n \in 1..N : n \in Good
<1>. DEFINE Bad == {k \in 0..N : N - k \in 1..N /\ N - k \notin Good}
<1>. SUFFICES ASSUME Bad # {} PROVE FALSE
  <2>1. ASSUME NEW n \in 1..N, n \notin Good PROVE Bad # {}
    <3>1. N - n \in 0..N /\ N - (N - n) = n
          OBVIOUS
    <3>. QED
         BY <3>1, <2>1
  <2>. QED
       BY <2>1
<1>0. Bad \in SUBSET Nat
      OBVIOUS
<1>1. PICK x \in Bad : \A y \in Bad : x <= y
      BY <1>0, NatHasMin
<1>2. \A m \in ((N - x) + 1)..N : m \in Good
  <2>1. SUFFICES ASSUME NEW m \in ((N - x) + 1)..N, m \notin Good PROVE FALSE
        OBVIOUS
  <2>2. N - m \in 0..N /\ N - (N - m) = m /\ m \in 1..N
        BY <1>1
  <2>3. N - m \in Bad
        BY <2>1, <2>2
  <2>4. x <= N - m
        BY <1>1, <2>3
  <2>. QED
       BY <2>4, <1>1
<1>. QED
     BY <1>1, <1>2

Recursive(f, N, base, step) ==
    \A n \in 0..N : f[n] = IF n = 0 THEN base ELSE step[<<n, f[n - 1]>>]

\* A function may be defined by recursion over 0..N.
LEMMA Recursion ==
    ASSUME NEW N \in Nat, NEW V, NEW base \in V, NEW step \in [(1..N) \X V -> V]
    PROVE  \E f \in [0..N -> V] : Recursive(f, N, base, step)
<1>. DEFINE Built(k) ==
         \E f \in [0..k -> V] :
             \A n \in 0..k : f[n] = IF n = 0 THEN base ELSE step[<<n, f[n - 1]>>]
<1>. DEFINE Good == {k \in 0..N : Built(k)}
<1>1. 0 \in Good
  <2>. DEFINE f == [n \in 0..0 |-> base]
  <2>1. f \in [0..0 -> V] /\ \A n \in 0..0 : n = 0 /\ f[n] = base
        OBVIOUS
  <2>. HIDE DEF f
  <2>2. Built(0)
        BY <2>1
  <2>. QED
       BY <2>2
<1>2. ASSUME NEW k \in 1..N, k - 1 \in Good PROVE k \in Good
  <2>1. PICK f \in [0..(k - 1) -> V] :
            \A n \in 0..(k - 1) : f[n] = IF n = 0 THEN base ELSE step[<<n, f[n - 1]>>]
        BY <1>2
  <2>. DEFINE g == [n \in 0..k |-> IF n = k THEN step[<<k, f[k - 1]>>] ELSE f[n]]
  <2>2. f[k - 1] \in V
        OBVIOUS
  <2>3. g \in [0..k -> V]
        BY <2>2
  <2>4. ASSUME NEW n \in 0..k
        PROVE  g[n] = IF n = 0 THEN base ELSE step[<<n, g[n - 1]>>]
    <3>1. CASE n = k
      <4>1. g[k] = step[<<k, f[k - 1]>>] /\ g[k - 1] = f[k - 1] /\ k # 0
            OBVIOUS
      <4>. QED
           BY <3>1, <4>1
    <3>2. CASE n # k
      <4>1. n \in 0..(k - 1) /\ g[n] = f[n]
            BY <3>2
      <4>2. n # 0 => n - 1 \in 0..k /\ n - 1 # k /\ g[n - 1] = f[n - 1]
            BY <3>2
      <4>. QED
           BY <2>1, <4>1, <4>2
    <3>. QED
         BY <3>1, <3>2
  <2>. HIDE DEF g
  <2>5. Built(k)
        BY <2>3, <2>4
  <2>. QED
       BY <2>5
<1>. HIDE DEF Good
<1>3. \A n \in 0..N : n \in Good
      BY <1>1, <1>2, UpToInduction
<1>. QED
     BY <1>3 DEF Good, Recursive

=============================================================================
