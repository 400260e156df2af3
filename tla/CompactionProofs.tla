-------------------------- MODULE CompactionProofs --------------------------
(***************************************************************************)
(* The proof that the passes of the merge pipeline over sorted sequences   *)
(* compute what LsmDB takes them to compute on sets, that compaction keeps *)
(* every table sorted and the ranges of a level disjoint, and that tables  *)
(* stay above the levels whose budgets wrap around.                        *)
(***************************************************************************)
EXTENDS Compaction, Induction, SequenceTheorems, TLAPS

Rows == Seq(Record)

\* No record comes after one it should come before.
InOrder(s) == \A i, j \in DOMAIN s : i < j => ~P!Before(s[j], s[i])

LEMMA RecordTypes ==
    ASSUME NEW r \in Record
    PROVE  r.key \in Nat /\ r.key \in Keys /\ r.seq \in Nat /\ r.seq \in 1..MaxSeq
<1>1. r.key \in Keys /\ r.seq \in 1..MaxSeq
      BY DEF Record
<1>2. r.key \in Nat
      BY <1>1, KeysAssumption
<1>3. r.seq \in Nat
      BY <1>1, SeqAssumption
<1>. QED BY <1>1, <1>2, <1>3

LEMMA BeforeChain ==
    ASSUME NEW x \in Record, NEW y \in Record, NEW z \in Record,
           ~P!Before(y, x), ~P!Before(z, y)
    PROVE  ~P!Before(z, x)
BY RecordTypes DEF P!Before

LEMMA BeforeTotal ==
    ASSUME NEW x \in Record, NEW y \in Record
    PROVE  /\ ~P!Before(x, x)
           /\ P!Before(x, y) => ~P!Before(y, x)
BY RecordTypes DEF P!Before

-----------------------------------------------------------------------------
(***************************************************************************)
(* Selected.                                                               *)
(***************************************************************************)
Selecting(upto, s, I) ==
    /\ upto[0] = <<>>
    /\ \A n \in 1..Len(s) :
           upto[n] = IF n \in I THEN Append(upto[n - 1], s[n]) ELSE upto[n - 1]

LEMMA SelectedSteps ==
    ASSUME NEW s, NEW I, Len(s) \in Nat
    PROVE  \E upto : Selecting(upto, s, I) /\ P!Selected(s, I) = upto[Len(s)]
<1>. DEFINE N == Len(s)
            Step(n, v) == IF n \in I THEN Append(v, s[n]) ELSE v
            Base == <<>>
            Solves(f, k) == f = [n \in 0..k |-> IF n = 0 THEN Base ELSE Step(n, f[n - 1])]
<1>1. P!Selected(s, I) = (CHOOSE f : Solves(f, N))[N]
      BY DEF P!Selected
<1>2. N \in Nat
      OBVIOUS
<1>. HIDE DEF N, Step, Base
<1>. DEFINE Good == {k \in 0..N : \E f : Solves(f, k)}
<1>3. 0 \in Good
  <2>. DEFINE g == [n \in 0..0 |-> Base]
  <2>1. \A n \in 0..0 : n = 0
        OBVIOUS
  <2>2. \A n \in 0..0 : g[n] = IF n = 0 THEN Base ELSE Step(n, g[n - 1])
        BY <2>1
  <2>3. g = [n \in 0..0 |-> g[n]]
        OBVIOUS
  <2>. HIDE DEF g
  <2>4. Solves(g, 0)
        BY <2>2, <2>3
  <2>. QED BY <1>2, <2>4
<1>4. ASSUME NEW k \in 1..N, k - 1 \in Good PROVE k \in Good
  <2>1. PICK f : Solves(f, k - 1)
        BY <1>4
  <2>. DEFINE g == [n \in 0..k |-> IF n = k THEN Step(k, f[k - 1]) ELSE f[n]]
  <2>2. ASSUME NEW n \in 0..k PROVE g[n] = IF n = 0 THEN Base ELSE Step(n, g[n - 1])
    <3>1. CASE n = k
      <4>1. n # 0 /\ k - 1 \in 0..k /\ k - 1 # k
            BY <1>2, <3>1
      <4>2. g[k] = Step(k, f[k - 1]) /\ g[k - 1] = f[k - 1]
            BY <4>1, <3>1
      <4>. HIDE DEF g
      <4>. QED BY <3>1, <4>1, <4>2, Zenon
    <3>2. CASE n # k
      <4>1. n \in 0..(k - 1) /\ g[n] = f[n]
            BY <1>2, <3>2
      <4>2. n # 0 => n - 1 \in 0..k /\ n - 1 # k
            BY <1>2, <3>2
      <4>3. n # 0 => g[n - 1] = f[n - 1]
            BY <4>2
      <4>4. f[n] = IF n = 0 THEN Base ELSE Step(n, f[n - 1])
            BY <2>1, <4>1, Zenon
      <4>. HIDE DEF g
      <4>. QED BY <4>1, <4>3, <4>4, Zenon
    <3>. QED BY <3>1, <3>2
  <2>3. g = [n \in 0..k |-> g[n]]
        OBVIOUS
  <2>. HIDE DEF g
  <2>4. Solves(g, k)
        BY <2>2, <2>3
  <2>. QED BY <1>2, <2>4
<1>. HIDE DEF Good
<1>5. \A n \in 0..N : n \in Good
      BY <1>2, <1>3, <1>4, UpToInduction
<1>6. \E f : Solves(f, N)
      BY <1>2, <1>5 DEF Good
<1>. DEFINE upto == CHOOSE f : Solves(f, N)
<1>7. Solves(upto, N)
      BY <1>6
<1>. HIDE DEF upto
<1>8. upto[0] = Base
      BY <1>2, <1>7
<1>9. ASSUME NEW n \in 1..N PROVE upto[n] = Step(n, upto[n - 1])
  <2>1. n \in 0..N /\ n # 0
        BY <1>2
  <2>2. upto[n] = IF n = 0 THEN Base ELSE Step(n, upto[n - 1])
        BY <1>7, <2>1, Zenon
  <2>. QED BY <2>1, <2>2
<1>10. P!Selected(s, I) = upto[N]
       BY <1>1 DEF upto
<1>. QED BY <1>8, <1>9, <1>10 DEF Selecting, Step, Base, N

\* u holds the elements of s at the positions of I up to n, and at says which.
Picks(u, at, S, s, I, n) ==
    /\ u \in Seq(S) /\ at \in Seq(Nat) /\ Len(at) = Len(u)
    /\ \A i \in 1..Len(u) : at[i] \in I /\ at[i] <= n /\ u[i] = s[at[i]]
    /\ \A i, j \in 1..Len(u) : i < j => at[i] < at[j]
    /\ \A m \in I : m <= n => \E i \in 1..Len(u) : at[i] = m

LEMMA PickOne ==
    ASSUME NEW S, NEW s \in Seq(S), NEW I \in SUBSET (1..Len(s)), NEW n \in 1..Len(s),
           NEW u, NEW at, Picks(u, at, S, s, I, n - 1)
    PROVE  /\ n \in I => Picks(Append(u, s[n]), Append(at, n), S, s, I, n)
           /\ n \notin I => Picks(u, at, S, s, I, n)
<1>. DEFINE L == Len(u)
            v == Append(u, s[n])
            bt == Append(at, n)
<1>0. n \in Nat /\ s[n] \in S /\ L \in Nat /\ u \in Seq(S) /\ at \in Seq(Nat) /\ Len(at) = L
      BY DEF Picks
<1>1. /\ \A i \in 1..L : at[i] \in I /\ at[i] <= n - 1 /\ u[i] = s[at[i]] /\ at[i] \in Nat
      /\ \A i, j \in 1..L : i < j => at[i] < at[j]
      /\ \A m \in I : m <= n - 1 => \E i \in 1..L : at[i] = m
      BY <1>0 DEF Picks
<1>2. v \in Seq(S) /\ bt \in Seq(Nat) /\ Len(v) = L + 1 /\ Len(bt) = L + 1
      BY <1>0
<1>3. /\ \A i \in 1..L : v[i] = u[i] /\ bt[i] = at[i]
      /\ v[L + 1] = s[n] /\ bt[L + 1] = n
      BY <1>0
<1>4. \A i \in 1..(L + 1) : i = L + 1 \/ i \in 1..L
      BY <1>0
<1>5. ASSUME n \in I PROVE Picks(v, bt, S, s, I, n)
  <2>. HIDE DEF v, bt, L
  <2>1. ASSUME NEW i \in 1..(L + 1) PROVE bt[i] \in I /\ bt[i] <= n /\ v[i] = s[bt[i]]
    <3>1. CASE i = L + 1
          BY <1>0, <1>3, <1>5, <3>1
    <3>2. CASE i \in 1..L
          BY <1>0, <1>1, <1>3, <3>2
    <3>. QED BY <1>4, <3>1, <3>2
  <2>2. ASSUME NEW i \in 1..(L + 1), NEW j \in 1..(L + 1), i < j PROVE bt[i] < bt[j]
    <3>1. i \in 1..L
          BY <1>0, <2>2
    <3>2. CASE j = L + 1
          BY <1>0, <1>1, <1>3, <3>1, <3>2
    <3>3. CASE j \in 1..L
          BY <1>0, <1>1, <1>3, <2>2, <3>1, <3>3
    <3>. QED BY <1>4, <3>2, <3>3
  <2>3. ASSUME NEW m \in I, m <= n PROVE \E i \in 1..(L + 1) : bt[i] = m
    <3>1. CASE m = n
          BY <1>0, <1>3, <3>1
    <3>2. CASE m # n
      <4>1. m <= n - 1
            BY <1>0, <2>3, <3>2
      <4>2. PICK i \in 1..L : at[i] = m
            BY <1>1, <4>1
      <4>3. i \in 1..(L + 1) /\ bt[i] = m
            BY <1>0, <1>3, <4>2
      <4>. QED BY <4>3
    <3>. QED BY <3>1, <3>2
  <2>. QED BY <1>2, <2>1, <2>2, <2>3 DEF Picks
<1>6. ASSUME n \notin I PROVE Picks(u, at, S, s, I, n)
  <2>1. \A i \in 1..L : at[i] \in I /\ at[i] <= n /\ u[i] = s[at[i]]
        BY <1>0, <1>1
  <2>2. ASSUME NEW m \in I, m <= n PROVE m <= n - 1
    <3>1. m # n /\ m \in Nat
          BY <1>6
    <3>. QED BY <1>0, <2>2, <3>1
  <2>. QED BY <1>0, <1>1, <2>1, <2>2 DEF Picks
<1>. QED BY <1>5, <1>6

\* Selected has the elements at the positions I, in their order.
LEMMA SelectedPicks ==
    ASSUME NEW S, NEW s \in Seq(S), NEW I \in SUBSET (1..Len(s))
    PROVE  \E at : Picks(P!Selected(s, I), at, S, s, I, Len(s))
<1>0. Len(s) \in Nat
      OBVIOUS
<1>1. PICK upto : Selecting(upto, s, I) /\ P!Selected(s, I) = upto[Len(s)]
      BY <1>0, SelectedSteps
<1>. DEFINE N == Len(s)
            Good == {n \in 0..N : \E at : Picks(upto[n], at, S, s, I, n)}
<1>2. 0 \in Good
  <2>1. upto[0] = <<>> /\ \A m \in I : ~(m <= 0)
        BY <1>1 DEF Selecting
  <2>2. Picks(<<>>, <<>>, S, s, I, 0)
        BY <2>1 DEF Picks
  <2>. QED BY <1>0, <2>1, <2>2
<1>3. ASSUME NEW n \in 1..N, n - 1 \in Good PROVE n \in Good
  <2>1. PICK at : Picks(upto[n - 1], at, S, s, I, n - 1)
        BY <1>3
  <2>2. upto[n] = IF n \in I THEN Append(upto[n - 1], s[n]) ELSE upto[n - 1]
        BY <1>1 DEF Selecting
  <2>3. \E bt : Picks(upto[n], bt, S, s, I, n)
    <3>1. /\ n \in I => Picks(Append(upto[n - 1], s[n]), Append(at, n), S, s, I, n)
          /\ n \notin I => Picks(upto[n - 1], at, S, s, I, n)
          BY <2>1, PickOne
    <3>. QED BY <2>2, <3>1, Zenon
  <2>. QED BY <1>0, <2>3
<1>. HIDE DEF Good
<1>4. \A n \in 0..N : n \in Good
      BY <1>0, <1>2, <1>3, UpToInduction
<1>5. N \in Good
      BY <1>0, <1>4
<1>. QED BY <1>1, <1>5 DEF Good

\* It keeps the order, and its elements are those at the positions I.
LEMMA SelectedKeeps ==
    ASSUME NEW s \in Rows, NEW I \in SUBSET (DOMAIN s), InOrder(s)
    PROVE  /\ P!Selected(s, I) \in Rows
           /\ InOrder(P!Selected(s, I))
           /\ ToSet(P!Selected(s, I)) = {s[i] : i \in I}
<1>. DEFINE u == P!Selected(s, I)
<1>0. s \in Seq(Record) /\ I \in SUBSET (1..Len(s)) /\ DOMAIN s = 1..Len(s)
      BY DEF Rows
<1>1. PICK at : Picks(u, at, Record, s, I, Len(s))
      BY <1>0, SelectedPicks
<1>. HIDE DEF u
<1>2. u \in Rows /\ DOMAIN u = 1..Len(u)
      BY <1>1 DEF Picks, Rows
<1>3. InOrder(u)
  <2>1. SUFFICES ASSUME NEW i \in DOMAIN u, NEW j \in DOMAIN u, i < j
                 PROVE  ~P!Before(u[j], u[i])
        BY DEF InOrder
  <2>2. /\ at[i] \in DOMAIN s /\ at[j] \in DOMAIN s /\ at[i] < at[j]
        /\ u[i] = s[at[i]] /\ u[j] = s[at[j]]
        BY <1>0, <1>1, <1>2, <2>1 DEF Picks
  <2>. QED BY <2>2, Zenon DEF InOrder
<1>4. ToSet(u) = {s[i] : i \in I}
  <2>1. ASSUME NEW i \in DOMAIN u PROVE u[i] \in {s[k] : k \in I}
        BY <1>1, <1>2 DEF Picks
  <2>2. ASSUME NEW k \in I PROVE s[k] \in {u[i] : i \in DOMAIN u}
    <3>1. k <= Len(s)
          BY <1>0
    <3>2. PICK i \in DOMAIN u : at[i] = k
          BY <1>1, <1>2, <3>1 DEF Picks
    <3>3. u[i] = s[k]
          BY <1>1, <1>2, <3>2 DEF Picks
    <3>. QED BY <3>3
  <2>. QED BY <2>1, <2>2 DEF ToSet
<1>. QED BY <1>2, <1>3, <1>4 DEF u

-----------------------------------------------------------------------------
(***************************************************************************)
(* Total.                                                                  *)
(***************************************************************************)
Adding(upto, q) ==
    /\ upto[0] = 0
    /\ \A n \in 1..Len(q) : upto[n] = upto[n - 1] + q[n]

LEMMA TotalSteps ==
    ASSUME NEW q, Len(q) \in Nat
    PROVE  \E upto : Adding(upto, q) /\ P!Total(q) = upto[Len(q)]
<1>. DEFINE N == Len(q)
            Step(n, v) == v + q[n]
            Base == 0
            Solves(f, k) == f = [n \in 0..k |-> IF n = 0 THEN Base ELSE Step(n, f[n - 1])]
<1>1. P!Total(q) = (CHOOSE f : Solves(f, N))[N]
      BY DEF P!Total
<1>2. N \in Nat
      OBVIOUS
<1>. HIDE DEF N, Step, Base
<1>. DEFINE Good == {k \in 0..N : \E f : Solves(f, k)}
<1>3. 0 \in Good
  <2>. DEFINE g == [n \in 0..0 |-> Base]
  <2>1. \A n \in 0..0 : n = 0
        OBVIOUS
  <2>2. \A n \in 0..0 : g[n] = IF n = 0 THEN Base ELSE Step(n, g[n - 1])
        BY <2>1
  <2>3. g = [n \in 0..0 |-> g[n]]
        OBVIOUS
  <2>. HIDE DEF g
  <2>4. Solves(g, 0)
        BY <2>2, <2>3
  <2>. QED BY <1>2, <2>4
<1>4. ASSUME NEW k \in 1..N, k - 1 \in Good PROVE k \in Good
  <2>1. PICK f : Solves(f, k - 1)
        BY <1>4
  <2>. DEFINE g == [n \in 0..k |-> IF n = k THEN Step(k, f[k - 1]) ELSE f[n]]
  <2>2. ASSUME NEW n \in 0..k PROVE g[n] = IF n = 0 THEN Base ELSE Step(n, g[n - 1])
    <3>1. CASE n = k
      <4>1. n # 0 /\ k - 1 \in 0..k /\ k - 1 # k
            BY <1>2, <3>1
      <4>2. g[k] = Step(k, f[k - 1]) /\ g[k - 1] = f[k - 1]
            BY <4>1, <3>1
      <4>. HIDE DEF g
      <4>. QED BY <3>1, <4>1, <4>2, Zenon
    <3>2. CASE n # k
      <4>1. n \in 0..(k - 1) /\ g[n] = f[n]
            BY <1>2, <3>2
      <4>2. n # 0 => n - 1 \in 0..k /\ n - 1 # k
            BY <1>2, <3>2
      <4>3. n # 0 => g[n - 1] = f[n - 1]
            BY <4>2
      <4>4. f[n] = IF n = 0 THEN Base ELSE Step(n, f[n - 1])
            BY <2>1, <4>1, Zenon
      <4>. HIDE DEF g
      <4>. QED BY <4>1, <4>3, <4>4, Zenon
    <3>. QED BY <3>1, <3>2
  <2>3. g = [n \in 0..k |-> g[n]]
        OBVIOUS
  <2>. HIDE DEF g
  <2>4. Solves(g, k)
        BY <2>2, <2>3
  <2>. QED BY <1>2, <2>4
<1>. HIDE DEF Good
<1>5. \A n \in 0..N : n \in Good
      BY <1>2, <1>3, <1>4, UpToInduction
<1>6. \E f : Solves(f, N)
      BY <1>2, <1>5 DEF Good
<1>. DEFINE upto == CHOOSE f : Solves(f, N)
<1>7. Solves(upto, N)
      BY <1>6
<1>. HIDE DEF upto
<1>8. upto[0] = Base
      BY <1>2, <1>7
<1>9. ASSUME NEW n \in 1..N PROVE upto[n] = Step(n, upto[n - 1])
  <2>1. n \in 0..N /\ n # 0
        BY <1>2
  <2>2. upto[n] = IF n = 0 THEN Base ELSE Step(n, upto[n - 1])
        BY <1>7, <2>1, Zenon
  <2>. QED BY <2>1, <2>2
<1>10. P!Total(q) = upto[N]
       BY <1>1 DEF upto
<1>. QED BY <1>8, <1>9, <1>10 DEF Adding, Step, Base, N

\* A sum grows with its terms, and strictly if one of them does.
LEMMA TotalGrows ==
    ASSUME NEW q \in Seq(Nat), NEW r \in Seq(Nat), Len(r) = Len(q),
           \A i \in 1..Len(q) : q[i] <= r[i]
    PROVE  /\ P!Total(q) \in Nat /\ P!Total(r) \in Nat
           /\ P!Total(q) <= P!Total(r)
           /\ (\E i \in 1..Len(q) : q[i] < r[i]) => P!Total(q) < P!Total(r)
<1>. DEFINE N == Len(q)
<1>0. N \in Nat /\ Len(r) = N /\ \A i \in 1..N : q[i] \in Nat /\ r[i] \in Nat /\ q[i] <= r[i]
      OBVIOUS
<1>1. PICK a : Adding(a, q) /\ P!Total(q) = a[N]
      BY <1>0, TotalSteps
<1>2. PICK b : Adding(b, r) /\ P!Total(r) = b[N]
      BY <1>0, TotalSteps
<1>. DEFINE Good == {n \in 0..N : /\ a[n] \in Nat /\ b[n] \in Nat /\ a[n] <= b[n]
                                  /\ (\E i \in 1..n : q[i] < r[i]) => a[n] < b[n]}
<1>3. 0 \in Good
      BY <1>0, <1>1, <1>2 DEF Adding
<1>4. ASSUME NEW n \in 1..N, n - 1 \in Good PROVE n \in Good
  <2>1. a[n] = a[n - 1] + q[n] /\ b[n] = b[n - 1] + r[n]
        BY <1>0, <1>1, <1>2 DEF Adding
  <2>2. a[n - 1] \in Nat /\ b[n - 1] \in Nat /\ a[n - 1] <= b[n - 1]
        BY <1>4
  <2>3. q[n] \in Nat /\ r[n] \in Nat /\ q[n] <= r[n]
        BY <1>0
  <2>4. ASSUME NEW i \in 1..n, q[i] < r[i] PROVE a[n] < b[n]
    <3>1. CASE i = n
          BY <2>1, <2>2, <2>3, <2>4, <3>1
    <3>2. CASE i # n
      <4>1. i \in 1..(n - 1)
            BY <3>2
      <4>2. a[n - 1] < b[n - 1]
            BY <1>4, <2>4, <4>1
      <4>. QED BY <2>1, <2>2, <2>3, <4>2
    <3>. QED BY <3>1, <3>2
  <2>5. a[n] \in Nat /\ b[n] \in Nat /\ a[n] <= b[n]
        BY <2>1, <2>2, <2>3, SMTT(30)
  <2>. QED BY <2>4, <2>5
<1>. HIDE DEF Good
<1>5. \A n \in 0..N : n \in Good
      BY <1>0, <1>3, <1>4, UpToInduction
<1>6. N \in Good
      BY <1>0, <1>5
<1>. QED BY <1>1, <1>2, <1>6 DEF Good

\* Sequences that agree but for term k.
AlikeBut(k, q, r) ==
    /\ q \in Seq(Nat) /\ r \in Seq(Nat) /\ Len(r) = Len(q) /\ k \in 1..Len(q)
    /\ \A i \in 1..Len(q) : i # k => r[i] = q[i]

\* A sum changes as much as the one term that changes.
LEMMA TotalChange ==
    ASSUME NEW k, NEW q, NEW r, AlikeBut(k, q, r)
    PROVE  /\ P!Total(q) \in Nat /\ P!Total(r) \in Nat
           /\ P!Total(r) + q[k] = P!Total(q) + r[k]
<1>. DEFINE N == Len(q)
<1>0. /\ N \in Nat /\ Len(r) = N /\ k \in 1..N
      /\ \A i \in 1..N : q[i] \in Nat /\ r[i] \in Nat /\ (i # k => r[i] = q[i])
      BY DEF AlikeBut
<1>1. PICK a : Adding(a, q) /\ P!Total(q) = a[N]
      BY <1>0, TotalSteps
<1>2. PICK b : Adding(b, r) /\ P!Total(r) = b[N]
      BY <1>0, TotalSteps
<1>. DEFINE Good == {n \in 0..N : /\ a[n] \in Nat /\ b[n] \in Nat
                                  /\ n < k => b[n] = a[n]
                                  /\ n >= k => b[n] + q[k] = a[n] + r[k]}
<1>3. 0 \in Good
      BY <1>0, <1>1, <1>2 DEF Adding
<1>4. ASSUME NEW n \in 1..N, n - 1 \in Good PROVE n \in Good
  <2>1. a[n] = a[n - 1] + q[n] /\ b[n] = b[n - 1] + r[n]
        BY <1>0, <1>1, <1>2 DEF Adding
  <2>2. /\ a[n - 1] \in Nat /\ b[n - 1] \in Nat
        /\ n - 1 < k => b[n - 1] = a[n - 1]
        /\ n - 1 >= k => b[n - 1] + q[k] = a[n - 1] + r[k]
        BY <1>4
  <2>3. q[n] \in Nat /\ r[n] \in Nat /\ q[k] \in Nat /\ r[k] \in Nat /\ (n # k => r[n] = q[n])
        BY <1>0
  <2>4. a[n] \in Nat /\ b[n] \in Nat /\ n \in Nat /\ k \in Nat /\ n \in 0..N
    <3>1. n \in Nat /\ k \in Nat /\ n \in 0..N
          BY <1>0
    <3>2. a[n] \in Nat
          BY <2>1, <2>2, <2>3, SMTT(30)
    <3>3. b[n] \in Nat
          BY <2>1, <2>2, <2>3, SMTT(30)
    <3>. QED BY <3>1, <3>2, <3>3
  <2>5. CASE n = k
    <3>1. b[n - 1] = a[n - 1] /\ ~(n < k)
          BY <2>2, <2>4, <2>5
    <3>2. b[n] + q[n] = a[n] + r[n]
          BY <2>1, <2>2, <2>3, <3>1
    <3>. QED BY <2>4, <2>5, <3>1, <3>2
  <2>6. CASE n < k
    <3>1. b[n - 1] = a[n - 1] /\ ~(n >= k) /\ r[n] = q[n]
          BY <2>2, <2>3, <2>4, <2>6
    <3>2. b[n] = a[n]
          BY <2>1, <3>1
    <3>. QED BY <2>4, <3>1, <3>2
  <2>7. CASE n > k
    <3>1. b[n - 1] + q[k] = a[n - 1] + r[k] /\ ~(n < k) /\ r[n] = q[n]
          BY <2>2, <2>3, <2>4, <2>7
    <3>. DEFINE x == q[n]  y == a[n - 1]  z == b[n - 1]  u == q[k]  v == r[k]
    <3>2. x \in Nat /\ y \in Nat /\ z \in Nat /\ u \in Nat /\ v \in Nat /\ z + u = y + v
          BY <2>2, <2>3, <3>1
    <3>3. b[n] = z + x /\ a[n] = y + x
          BY <2>1, <3>1
    <3>. HIDE DEF x, y, z, u, v
    <3>4. b[n] + u = a[n] + v
          BY <3>2, <3>3
    <3>. QED BY <2>4, <3>1, <3>4 DEF u, v
  <2>. QED BY <2>4, <2>5, <2>6, <2>7
<1>. HIDE DEF Good
<1>5. \A n \in 0..N : n \in Good
      BY <1>0, <1>3, <1>4, UpToInduction
<1>6. N \in Good /\ N >= k
      BY <1>0, <1>5
<1>. QED BY <1>1, <1>2, <1>6 DEF Good

\* A sum with one term one greater is one greater.
LEMMA TotalAddsOne ==
    ASSUME NEW q \in Seq(Nat), NEW r \in Seq(Nat), Len(r) = Len(q), NEW k \in 1..Len(q),
           r[k] = q[k] + 1, \A i \in 1..Len(q) : i # k => r[i] = q[i]
    PROVE  P!Total(r) = P!Total(q) + 1
<1>1. /\ P!Total(q) \in Nat /\ P!Total(r) \in Nat
      /\ P!Total(r) + q[k] = P!Total(q) + r[k]
      BY TotalChange DEF AlikeBut
<1>2. q[k] \in Nat
      OBVIOUS
<1>. QED BY <1>1, <1>2, SMTT(30)

LEMMA TotalOfZeros ==
    ASSUME NEW q \in Seq(Nat), \A i \in 1..Len(q) : q[i] = 0
    PROVE  P!Total(q) = 0
<1>. DEFINE N == Len(q)
<1>0. N \in Nat
      OBVIOUS
<1>1. PICK a : Adding(a, q) /\ P!Total(q) = a[N]
      BY <1>0, TotalSteps
<1>. DEFINE Good == {n \in 0..N : a[n] = 0}
<1>2. 0 \in Good
      BY <1>0, <1>1, SMTT(30) DEF Adding
<1>3. ASSUME NEW n \in 1..N, n - 1 \in Good PROVE n \in Good
      BY <1>0, <1>1, <1>3, SMTT(30) DEF Adding
<1>. HIDE DEF Good
<1>4. \A n \in 0..N : n \in Good
      BY <1>0, <1>2, <1>3, UpToInduction
<1>5. N \in Good
      BY <1>0, <1>4
<1>. QED BY <1>1, <1>5 DEF Good

-----------------------------------------------------------------------------
(***************************************************************************)
(* mergeAll.                                                               *)
(***************************************************************************)
\* A non-empty set of records has one that none comes before.
LEMMA FirstRecord ==
    ASSUME NEW R \in SUBSET Record, R # {}
    PROVE  \E x \in R : \A y \in R : ~P!Before(y, x)
<1>0. \A x \in R : x.key \in Nat /\ x.seq \in 0..MaxSeq /\ x.seq \in Nat
  <2>1. SUFFICES ASSUME NEW x \in R PROVE x.key \in Nat /\ x.seq \in 0..MaxSeq /\ x.seq \in Nat
        OBVIOUS
  <2>2. x.key \in Nat /\ x.seq \in Nat /\ x.seq \in 1..MaxSeq
        BY RecordTypes
  <2>. QED BY <2>2, SeqAssumption
<1>. DEFINE K == {x.key : x \in R}
<1>1. PICK k \in K : \A m \in K : k <= m
  <2>1. K \in SUBSET Nat /\ K # {}
        BY <1>0
  <2>. QED BY <2>1, NatHasMin
<1>. DEFINE Q == {x.seq : x \in {y \in R : y.key = k}}
<1>2. PICK q \in Q : \A m \in Q : q >= m
  <2>1. Q \in SUBSET (0..MaxSeq) /\ Q # {}
        BY <1>0
  <2>. HIDE DEF Q
  <2>. QED BY <2>1, BoundedHasMax, SeqAssumption
<1>3. PICK x \in R : x.key = k /\ x.seq = q
      BY <1>2
<1>4. ASSUME NEW y \in R PROVE ~P!Before(y, x)
  <2>1. k <= y.key /\ (y.key = k => q >= y.seq)
        BY <1>1, <1>2
  <2>2. y.key \in Nat /\ x.key \in Nat /\ y.seq \in Nat /\ x.seq \in Nat
        BY <1>0
  <2>. QED BY <1>3, <2>1, <2>2 DEF P!Before
<1>. QED BY <1>4

\* The sources a compaction or a scan merges.
Sorted(sources) ==
    /\ sources \in Seq(Rows)
    /\ \A i \in DOMAIN sources : InOrder(sources[i])

LEMMA SourceTypes ==
    ASSUME NEW sources, Sorted(sources)
    PROVE  /\ Len(sources) \in Nat /\ DOMAIN sources = 1..Len(sources)
           /\ \A i \in DOMAIN sources :
                  /\ sources[i] \in Rows /\ Len(sources[i]) \in Nat
                  /\ DOMAIN sources[i] = 1..Len(sources[i])
                  /\ \A j \in 1..Len(sources[i]) : sources[i][j] \in Record
BY DEF Sorted, Rows

\* at is a position in each source, behind its end when it is exhausted.
Positions(at, sources) ==
    /\ at \in Seq(Nat) /\ Len(at) = Len(sources)
    /\ \A i \in DOMAIN sources : at[i] \in 1..(Len(sources[i]) + 1)

LEMMA WinnerComesFirst ==
    ASSUME NEW sources, Sorted(sources), NEW at, Positions(at, sources),
           NEW e \in DOMAIN sources, at[e] <= Len(sources[e])
    PROVE  LET w == P!Winner(sources, at)
           IN  /\ w \in DOMAIN sources /\ at[w] <= Len(sources[w])
               /\ sources[w][at[w]] \in Record
               /\ \A j \in DOMAIN sources : at[j] <= Len(sources[j]) =>
                      ~P!Before(sources[j][at[j]], sources[w][at[w]])
<1>. DEFINE queue == {i \in DOMAIN sources : at[i] <= Len(sources[i])}
            R == {sources[i][at[i]] : i \in queue}
<1>1. \A i \in queue : sources[i][at[i]] \in Record
      BY SourceTypes DEF Positions
<1>2. R \in SUBSET Record /\ R # {}
      BY <1>1
<1>3. PICK x \in R : \A y \in R : ~P!Before(y, x)
  <2>. HIDE DEF R
  <2>. QED BY <1>2, FirstRecord
<1>4. PICK i \in queue : x = sources[i][at[i]]
      OBVIOUS
<1>5. \A j \in queue : ~P!Before(sources[j][at[j]], sources[i][at[i]])
      BY <1>3, <1>4
<1>. DEFINE w == P!Winner(sources, at)
<1>6. w = CHOOSE c \in queue : \A j \in queue : ~P!Before(sources[j][at[j]], sources[c][at[c]])
      BY DEF P!Winner
<1>7. w \in queue /\ \A j \in queue : ~P!Before(sources[j][at[j]], sources[w][at[w]])
  <2>. HIDE DEF w, queue
  <2>. QED BY <1>5, <1>6, Zenon
<1>. HIDE DEF w
<1>. QED BY <1>1, <1>7 DEF w

Gone(at) == [i \in DOMAIN at |-> at[i] - 1]

Lengths(sources) == [i \in DOMAIN sources |-> Len(sources[i])]

\* The records in front of the positions.
Passed(sources, at) ==
    UNION {{sources[i][j] : j \in 1..(at[i] - 1)} : i \in DOMAIN sources}

\* After n turns the result has the n records in front of the positions, in their
\* order, and no record behind a position comes before one of them.
Taken(turn, sources, n) ==
    /\ Positions(turn.at, sources)
    /\ P!Total(Gone(turn.at)) = n
    /\ turn.result \in Rows /\ InOrder(turn.result)
    /\ ToSet(turn.result) = Passed(sources, turn.at)
    /\ \A k \in DOMAIN turn.result, i \in DOMAIN sources :
           \A j \in turn.at[i]..Len(sources[i]) :
               ~P!Before(sources[i][j], turn.result[k])

LEMMA GoneAndLengths ==
    ASSUME NEW sources, Sorted(sources), NEW at, Positions(at, sources)
    PROVE  /\ DOMAIN at = DOMAIN sources
           /\ Lengths(sources) \in Seq(Nat) /\ Len(Lengths(sources)) = Len(sources)
           /\ Gone(at) \in Seq(Nat) /\ Len(Gone(at)) = Len(sources)
           /\ \A i \in DOMAIN sources :
                  /\ at[i] \in Nat /\ at[i] >= 1
                  /\ Lengths(sources)[i] = Len(sources[i]) /\ Gone(at)[i] = at[i] - 1
                  /\ Gone(at)[i] <= Lengths(sources)[i]
<1>. DEFINE N == Len(sources)
<1>1. N \in Nat /\ DOMAIN sources = 1..N /\ \A i \in 1..N : Len(sources[i]) \in Nat
      BY SourceTypes
<1>2. DOMAIN at = 1..N /\ \A i \in 1..N : at[i] \in Nat /\ at[i] >= 1 /\ at[i] <= Len(sources[i]) + 1
  <2>1. DOMAIN at = 1..N
        BY <1>1 DEF Positions
  <2>2. SUFFICES ASSUME NEW i \in 1..N
                 PROVE  at[i] \in Nat /\ at[i] >= 1 /\ at[i] <= Len(sources[i]) + 1
        BY <2>1
  <2>3. at[i] \in 1..(Len(sources[i]) + 1) /\ Len(sources[i]) \in Nat
        BY <1>1 DEF Positions
  <2>. QED BY <2>3
<1>3. Lengths(sources) = [i \in 1..N |-> Len(sources[i])] /\ Gone(at) = [i \in 1..N |-> at[i] - 1]
      BY <1>1, <1>2 DEF Lengths, Gone
<1>4. Lengths(sources) \in [1..N -> Nat]
      BY <1>1, <1>3
<1>5. Gone(at) \in [1..N -> Nat]
      BY <1>2, <1>3
<1>6. Lengths(sources) \in Seq(Nat) /\ Gone(at) \in Seq(Nat)
      BY <1>1, <1>4, <1>5, IsASeq
<1>7. Len(Lengths(sources)) = N /\ Len(Gone(at)) = N
      BY <1>1, <1>4, <1>5, <1>6
<1>8. \A i \in 1..N : Lengths(sources)[i] = Len(sources[i]) /\ Gone(at)[i] = at[i] - 1
      BY <1>3
<1>9. \A i \in 1..N : Gone(at)[i] <= Lengths(sources)[i]
      BY <1>1, <1>2, <1>8
<1>. QED BY <1>1, <1>2, <1>6, <1>7, <1>8, <1>9

\* Before the last turn some source is not exhausted.
LEMMA NotExhausted ==
    ASSUME NEW sources, Sorted(sources), NEW at, Positions(at, sources),
           P!Total(Gone(at)) < P!Total(Lengths(sources))
    PROVE  \E e \in DOMAIN sources : at[e] <= Len(sources[e])
<1>. DEFINE g == Gone(at)
            q == Lengths(sources)
<1>1. SUFFICES ASSUME \A e \in DOMAIN sources : ~(at[e] <= Len(sources[e])) PROVE FALSE
      OBVIOUS
<1>2. /\ q \in Seq(Nat) /\ g \in Seq(Nat) /\ Len(g) = Len(q) /\ DOMAIN sources = 1..Len(q)
      BY GoneAndLengths, SourceTypes
<1>3. \A i \in 1..Len(q) : q[i] <= g[i]
  <2>1. SUFFICES ASSUME NEW i \in DOMAIN sources PROVE q[i] <= g[i]
        BY <1>2
  <2>2. at[i] \in Nat /\ Len(sources[i]) \in Nat /\ q[i] = Len(sources[i]) /\ g[i] = at[i] - 1
        BY GoneAndLengths, SourceTypes
  <2>. HIDE DEF g, q
  <2>. QED BY <1>1, <2>2
<1>. HIDE DEF g, q
<1>4. P!Total(q) \in Nat /\ P!Total(g) \in Nat /\ P!Total(q) <= P!Total(g)
      BY <1>2, <1>3, TotalGrows
<1>5. P!Total(g) < P!Total(q)
      BY DEF g, q
<1>. QED BY <1>4, <1>5

\* After the last turn all of them are.
LEMMA AllExhausted ==
    ASSUME NEW sources, Sorted(sources), NEW at, Positions(at, sources),
           P!Total(Gone(at)) = P!Total(Lengths(sources))
    PROVE  \A i \in DOMAIN sources : at[i] = Len(sources[i]) + 1
<1>. DEFINE g == Gone(at)
            q == Lengths(sources)
<1>1. SUFFICES ASSUME NEW e \in DOMAIN sources, at[e] # Len(sources[e]) + 1 PROVE FALSE
      OBVIOUS
<1>2. /\ q \in Seq(Nat) /\ g \in Seq(Nat) /\ Len(g) = Len(q) /\ DOMAIN sources = 1..Len(q)
      BY GoneAndLengths, SourceTypes
<1>3. \A i \in 1..Len(q) : g[i] <= q[i]
      BY <1>2, GoneAndLengths
<1>4. g[e] < q[e]
  <2>1. at[e] \in Nat /\ Len(sources[e]) \in Nat /\ q[e] = Len(sources[e]) /\ g[e] = at[e] - 1
        BY GoneAndLengths, SourceTypes
  <2>2. at[e] \in 1..(Len(sources[e]) + 1)
        BY DEF Positions
  <2>. HIDE DEF g, q
  <2>. QED BY <1>1, <2>1, <2>2
<1>. HIDE DEF g, q
<1>5. P!Total(q) \in Nat /\ P!Total(g) \in Nat /\ P!Total(g) < P!Total(q)
  <2>1. \E i \in 1..Len(g) : g[i] < q[i]
        BY <1>2, <1>4
  <2>2. \A i \in 1..Len(g) : g[i] <= q[i]
        BY <1>2, <1>3
  <2>3. Len(q) = Len(g)
        BY <1>2
  <2>. QED BY <1>2, <2>1, <2>2, <2>3, TotalGrows
<1>6. P!Total(g) = P!Total(q)
      BY DEF g, q
<1>. QED BY <1>5, <1>6

LEMMA AppendedInOrder ==
    ASSUME NEW s \in Rows, InOrder(s), NEW x \in Record,
           \A k \in DOMAIN s : ~P!Before(x, s[k])
    PROVE  /\ Append(s, x) \in Rows /\ InOrder(Append(s, x))
           /\ ToSet(Append(s, x)) = ToSet(s) \cup {x}
           /\ \A k \in DOMAIN Append(s, x) :
                  Append(s, x)[k] = x \/ (k \in DOMAIN s /\ Append(s, x)[k] = s[k])
<1>. DEFINE t == Append(s, x)
            L == Len(s)
<1>1. /\ L \in Nat /\ DOMAIN s = 1..L /\ t \in Rows /\ DOMAIN t = 1..(L + 1)
      /\ (\A i \in 1..L : t[i] = s[i]) /\ t[L + 1] = x
      BY DEF Rows
<1>. HIDE DEF t, L
<1>2. \A k \in 1..(L + 1) : k = L + 1 \/ k \in 1..L
      BY <1>1
<1>3. InOrder(t)
  <2>1. SUFFICES ASSUME NEW i \in 1..(L + 1), NEW j \in 1..(L + 1), i < j
                 PROVE  ~P!Before(t[j], t[i])
        BY <1>1 DEF InOrder
  <2>2. i \in 1..L
        BY <1>1, <2>1
  <2>3. CASE j = L + 1
        BY <1>1, <2>2, <2>3
  <2>4. CASE j \in 1..L
        BY <1>1, <2>1, <2>2, <2>4 DEF InOrder
  <2>. QED BY <1>2, <2>3, <2>4
<1>4. ToSet(t) = ToSet(s) \cup {x}
  <2>1. \A k \in 1..(L + 1) : t[k] \in ToSet(s) \cup {x}
        BY <1>1, <1>2 DEF ToSet
  <2>2. \A k \in 1..L : s[k] \in ToSet(t)
    <3>1. SUFFICES ASSUME NEW k \in 1..L PROVE s[k] \in ToSet(t)
          OBVIOUS
    <3>2. k \in DOMAIN t /\ t[k] = s[k]
          BY <1>1
    <3>. QED BY <3>2 DEF ToSet
  <2>3. x \in ToSet(t)
    <3>1. L + 1 \in DOMAIN t
          BY <1>1
    <3>. QED BY <1>1, <3>1 DEF ToSet
  <2>4. \A y \in ToSet(t) : \E k \in 1..(L + 1) : y = t[k]
        BY <1>1 DEF ToSet
  <2>5. \A y \in ToSet(s) : \E k \in 1..L : y = s[k]
        BY <1>1 DEF ToSet
  <2>. QED BY <2>1, <2>2, <2>3, <2>4, <2>5
<1>5. \A k \in DOMAIN t : t[k] = x \/ (k \in DOMAIN s /\ t[k] = s[k])
      BY <1>1, <1>2
<1>. QED BY <1>1, <1>3, <1>4, <1>5 DEF t

\* One turn of the loop.
LEMMA AdvanceTakes ==
    ASSUME NEW sources, Sorted(sources), NEW n \in Nat \ {0}, NEW turn,
           Taken(turn, sources, n - 1), n <= P!Total(Lengths(sources))
    PROVE  Taken(P!Advance(sources, turn), sources, n)
<1>. DEFINE at == turn.at
            res == turn.result
            w == P!Winner(sources, at)
            bt == [at EXCEPT ![w] = @ + 1]
            x == sources[w][at[w]]
            rest == Append(res, x)
<1>0. /\ Positions(at, sources) /\ P!Total(Gone(at)) = n - 1 /\ res \in Rows /\ InOrder(res)
      /\ ToSet(res) = Passed(sources, at)
      BY DEF Taken
<1>1. \A k \in DOMAIN res, i \in DOMAIN sources :
          \A j \in at[i]..Len(sources[i]) : ~P!Before(sources[i][j], res[k])
      BY DEF Taken
<1>2. P!Advance(sources, turn).at = bt /\ P!Advance(sources, turn).result = rest
      BY DEF P!Advance
<1>. HIDE DEF at, res
<1>3. PICK e \in DOMAIN sources : at[e] <= Len(sources[e])
  <2>1. P!Total(Gone(at)) \in Nat /\ P!Total(Lengths(sources)) \in Nat
    <3>1. /\ Gone(at) \in Seq(Nat) /\ Lengths(sources) \in Seq(Nat)
          /\ Len(Lengths(sources)) = Len(Gone(at)) /\ DOMAIN sources = 1..Len(Gone(at))
          BY <1>0, GoneAndLengths, SourceTypes
    <3>2. \A i \in 1..Len(Gone(at)) : Gone(at)[i] <= Lengths(sources)[i]
          BY <1>0, <3>1, GoneAndLengths
    <3>. QED BY <3>1, <3>2, TotalGrows
  <2>2. P!Total(Gone(at)) < P!Total(Lengths(sources))
        BY <1>0, <2>1
  <2>. QED BY <1>0, <2>2, NotExhausted
<1>4. /\ w \in DOMAIN sources /\ at[w] <= Len(sources[w]) /\ x \in Record
      /\ \A j \in DOMAIN sources : at[j] <= Len(sources[j]) => ~P!Before(sources[j][at[j]], x)
      BY <1>0, <1>3, WinnerComesFirst
<1>. HIDE DEF w, x
<1>5. /\ at \in Seq(Nat) /\ Len(at) = Len(sources) /\ DOMAIN at = DOMAIN sources
      /\ \A i \in DOMAIN sources : at[i] \in Nat /\ at[i] >= 1 /\ at[i] <= Len(sources[i]) + 1
      /\ \A i \in DOMAIN sources : Len(sources[i]) \in Nat
      BY <1>0, SourceTypes, GoneAndLengths DEF Positions
<1>6. /\ DOMAIN bt = DOMAIN sources /\ bt[w] = at[w] + 1
      /\ \A i \in DOMAIN sources : i # w => bt[i] = at[i]
      BY <1>4, <1>5
<1>. DEFINE Moves(i) == /\ at[i] \in Nat /\ at[i] >= 1 /\ Len(sources[i]) \in Nat
                        /\ at[i] <= Len(sources[i]) + 1
                        /\ \/ i = w /\ bt[i] = at[i] + 1 /\ at[i] <= Len(sources[i])
                           \/ i # w /\ bt[i] = at[i]
<1>61. \A i \in DOMAIN sources : Moves(i)
  <2>1. SUFFICES ASSUME NEW i \in DOMAIN sources PROVE Moves(i)
        OBVIOUS
  <2>. HIDE DEF bt
  <2>2. CASE i = w
        BY <1>4, <1>5, <1>6, <2>2
  <2>3. CASE i # w
        BY <1>5, <1>6, <2>3
  <2>. QED BY <2>2, <2>3
<1>7. Positions(bt, sources)
  <2>1. bt \in Seq(Nat) /\ Len(bt) = Len(sources)
        BY <1>4, <1>5, ExceptSeq
  <2>. HIDE DEF bt
  <2>2. \A i \in DOMAIN sources : bt[i] \in 1..(Len(sources[i]) + 1)
    <3>1. SUFFICES ASSUME NEW i \in DOMAIN sources PROVE bt[i] \in 1..(Len(sources[i]) + 1)
          OBVIOUS
    <3>2. Moves(i)
          BY <1>61
    <3>. QED BY <3>2
  <2>. QED BY <2>1, <2>2 DEF Positions
<1>. HIDE DEF bt
<1>8. P!Total(Gone(bt)) = n
  <2>. DEFINE g == Gone(at)
              h == Gone(bt)
  <2>1. /\ g \in Seq(Nat) /\ h \in Seq(Nat) /\ Len(g) = Len(sources) /\ Len(h) = Len(sources)
        /\ \A i \in DOMAIN sources : g[i] = at[i] - 1 /\ h[i] = bt[i] - 1
        BY <1>0, <1>7, GoneAndLengths
  <2>2. DOMAIN sources = 1..Len(g)
        BY <2>1, SourceTypes
  <2>. HIDE DEF g, h
  <2>3. h[w] = g[w] + 1 /\ \A i \in DOMAIN sources : i # w => h[i] = g[i]
    <3>1. ASSUME NEW i \in DOMAIN sources PROVE h[i] = IF i = w THEN g[i] + 1 ELSE g[i]
      <4>1. Moves(i) /\ g[i] = at[i] - 1 /\ h[i] = bt[i] - 1
            BY <1>61, <2>1
      <4>. QED BY <4>1
    <3>2. w \in DOMAIN sources
          BY <1>4
    <3>. QED BY <3>1, <3>2
  <2>4. P!Total(h) = P!Total(g) + 1
        BY <1>4, <2>1, <2>2, <2>3, TotalAddsOne
  <2>5. P!Total(g) = n - 1
        BY <1>0 DEF g
  <2>. QED BY <2>4, <2>5 DEF h
<1>9. \A k \in DOMAIN res : ~P!Before(x, res[k])
  <2>1. at[w] \in at[w]..Len(sources[w])
        BY <1>4, <1>5
  <2>. QED BY <1>1, <1>4, <2>1 DEF x
<1>10. /\ rest \in Rows /\ InOrder(rest) /\ ToSet(rest) = ToSet(res) \cup {x}
       /\ \A k \in DOMAIN rest : rest[k] = x \/ (k \in DOMAIN res /\ rest[k] = res[k])
       BY <1>0, <1>4, <1>9, AppendedInOrder
<1>. HIDE DEF rest
<1>11. ToSet(rest) = Passed(sources, bt)
  <2>1. Passed(sources, bt) = Passed(sources, at) \cup {x}
    <3>1. ASSUME NEW y \in Passed(sources, bt) PROVE y \in Passed(sources, at) \cup {x}
      <4>0. PICK i \in DOMAIN sources : y \in {sources[i][j] : j \in 1..(bt[i] - 1)}
            BY DEF Passed
      <4>1. PICK j \in 1..(bt[i] - 1) : y = sources[i][j]
            BY <4>0
      <4>2. (i = w /\ j = at[w]) \/ j \in 1..(at[i] - 1)
        <5>1. Moves(i)
              BY <1>61
        <5>. QED BY <5>1
      <4>3. CASE i = w /\ j = at[w]
            BY <4>1, <4>3 DEF x
      <4>4. CASE j \in 1..(at[i] - 1)
            BY <4>1, <4>4 DEF Passed
      <4>. QED BY <4>2, <4>3, <4>4
    <3>2. ASSUME NEW y \in Passed(sources, at) PROVE y \in Passed(sources, bt)
      <4>0. PICK i \in DOMAIN sources : y \in {sources[i][j] : j \in 1..(at[i] - 1)}
            BY DEF Passed
      <4>1. PICK j \in 1..(at[i] - 1) : y = sources[i][j]
            BY <4>0
      <4>2. j \in 1..(bt[i] - 1)
        <5>1. Moves(i)
              BY <1>61
        <5>. QED BY <5>1
      <4>. QED BY <4>1, <4>2 DEF Passed
    <3>3. x \in Passed(sources, bt)
      <4>1. at[w] \in 1..(bt[w] - 1)
            BY <1>4, <1>5, <1>6
      <4>. QED BY <1>4, <4>1 DEF Passed, x
    <3>. QED BY <3>1, <3>2, <3>3
  <2>. QED BY <1>0, <1>10, <2>1
<1>12. ASSUME NEW k \in DOMAIN rest, NEW i \in DOMAIN sources, NEW j \in bt[i]..Len(sources[i])
       PROVE  ~P!Before(sources[i][j], rest[k])
  <2>1. j \in at[i]..Len(sources[i]) /\ at[i] <= Len(sources[i]) /\ j \in Nat
    <3>1. Moves(i)
          BY <1>61
    <3>. QED BY <3>1
  <2>2. CASE k \in DOMAIN res /\ rest[k] = res[k]
        BY <1>1, <2>1, <2>2
  <2>3. CASE rest[k] = x
    <3>1. ~P!Before(sources[i][at[i]], x)
          BY <1>4, <2>1
    <3>2. /\ DOMAIN sources[i] = 1..Len(sources[i]) /\ InOrder(sources[i])
          /\ sources[i][j] \in Record /\ sources[i][at[i]] \in Record
      <4>1. j \in 1..Len(sources[i]) /\ at[i] \in 1..Len(sources[i])
        <5>1. Moves(i)
              BY <1>61
        <5>. QED BY <2>1, <5>1
      <4>2. InOrder(sources[i])
            BY DEF Sorted
      <4>. QED BY <4>1, <4>2, SourceTypes
    <3>3. at[i] \in DOMAIN sources[i] /\ j \in DOMAIN sources[i] /\ (at[i] = j \/ at[i] < j)
          BY <1>5, <2>1, <3>2
    <3>4. ~P!Before(sources[i][j], sources[i][at[i]])
      <4>1. CASE at[i] = j
            BY <3>2, <4>1, BeforeTotal
      <4>2. CASE at[i] < j
            BY <3>2, <3>3, <4>2, Zenon DEF InOrder
      <4>. QED BY <3>3, <4>1, <4>2
    <3>5. ~P!Before(sources[i][j], x)
          BY <1>4, <3>1, <3>2, <3>4, BeforeChain
    <3>. QED BY <2>3, <3>5
  <2>. QED BY <1>10, <2>2, <2>3
<1>. QED BY <1>2, <1>7, <1>8, <1>10, <1>11, <1>12 DEF Taken

Merging(upto, sources, N) ==
    /\ upto[0] = [at |-> [i \in DOMAIN sources |-> 1], result |-> <<>>]
    /\ \A n \in 1..N : upto[n] = P!Advance(sources, upto[n - 1])

LEMMA MergeSteps ==
    ASSUME NEW sources, P!Total(Lengths(sources)) \in Nat
    PROVE  \E upto : /\ Merging(upto, sources, P!Total(Lengths(sources)))
                     /\ P!mergeAll(sources) = upto[P!Total(Lengths(sources))].result
<1>. DEFINE N == P!Total(Lengths(sources))
            Step(n, v) == P!Advance(sources, v)
            Base == [at |-> [i \in DOMAIN sources |-> 1], result |-> <<>>]
            Solves(f, k) == f = [n \in 0..k |-> IF n = 0 THEN Base ELSE Step(n, f[n - 1])]
<1>1. P!mergeAll(sources) = (CHOOSE f : Solves(f, N))[N].result
      BY DEF P!mergeAll, Lengths
<1>2. N \in Nat
      OBVIOUS
<1>. HIDE DEF N, Step, Base
<1>. DEFINE Good == {k \in 0..N : \E f : Solves(f, k)}
<1>3. 0 \in Good
  <2>. DEFINE g == [n \in 0..0 |-> Base]
  <2>1. \A n \in 0..0 : n = 0
        OBVIOUS
  <2>2. \A n \in 0..0 : g[n] = IF n = 0 THEN Base ELSE Step(n, g[n - 1])
        BY <2>1
  <2>3. g = [n \in 0..0 |-> g[n]]
        OBVIOUS
  <2>. HIDE DEF g
  <2>4. Solves(g, 0)
        BY <2>2, <2>3
  <2>. QED BY <1>2, <2>4
<1>4. ASSUME NEW k \in 1..N, k - 1 \in Good PROVE k \in Good
  <2>1. PICK f : Solves(f, k - 1)
        BY <1>4
  <2>. DEFINE g == [n \in 0..k |-> IF n = k THEN Step(k, f[k - 1]) ELSE f[n]]
  <2>2. ASSUME NEW n \in 0..k PROVE g[n] = IF n = 0 THEN Base ELSE Step(n, g[n - 1])
    <3>1. CASE n = k
      <4>1. n # 0 /\ k - 1 \in 0..k /\ k - 1 # k
            BY <1>2, <3>1
      <4>2. g[k] = Step(k, f[k - 1]) /\ g[k - 1] = f[k - 1]
            BY <4>1, <3>1
      <4>. HIDE DEF g
      <4>. QED BY <3>1, <4>1, <4>2, Zenon
    <3>2. CASE n # k
      <4>1. n \in 0..(k - 1) /\ g[n] = f[n]
            BY <1>2, <3>2
      <4>2. n # 0 => n - 1 \in 0..k /\ n - 1 # k
            BY <1>2, <3>2
      <4>3. n # 0 => g[n - 1] = f[n - 1]
            BY <4>2
      <4>4. f[n] = IF n = 0 THEN Base ELSE Step(n, f[n - 1])
            BY <2>1, <4>1, Zenon
      <4>. HIDE DEF g
      <4>. QED BY <4>1, <4>3, <4>4, Zenon
    <3>. QED BY <3>1, <3>2
  <2>3. g = [n \in 0..k |-> g[n]]
        OBVIOUS
  <2>. HIDE DEF g
  <2>4. Solves(g, k)
        BY <2>2, <2>3
  <2>. QED BY <1>2, <2>4
<1>. HIDE DEF Good
<1>5. \A n \in 0..N : n \in Good
      BY <1>2, <1>3, <1>4, UpToInduction
<1>6. \E f : Solves(f, N)
      BY <1>2, <1>5 DEF Good
<1>. DEFINE upto == CHOOSE f : Solves(f, N)
<1>7. Solves(upto, N)
      BY <1>6
<1>. HIDE DEF upto
<1>8. upto[0] = Base
      BY <1>2, <1>7
<1>9. ASSUME NEW n \in 1..N PROVE upto[n] = Step(n, upto[n - 1])
  <2>1. n \in 0..N /\ n # 0
        BY <1>2
  <2>2. upto[n] = IF n = 0 THEN Base ELSE Step(n, upto[n - 1])
        BY <1>7, <2>1, Zenon
  <2>. QED BY <2>1, <2>2
<1>10. P!mergeAll(sources) = upto[N].result
       BY <1>1 DEF upto
<1>. QED BY <1>8, <1>9, <1>10 DEF Merging, Step, Base, N

\* The turns of the loop, from the first to the last.
AllTurns(upto, sources, N) ==
    /\ Merging(upto, sources, N)
    /\ \A n \in 0..N : Taken(upto[n], sources, n)

LEMMA MergeTurns ==
    ASSUME NEW sources, Sorted(sources)
    PROVE  /\ P!Total(Lengths(sources)) \in Nat
           /\ \E upto : /\ AllTurns(upto, sources, P!Total(Lengths(sources)))
                        /\ P!mergeAll(sources) = upto[P!Total(Lengths(sources))].result
<1>. DEFINE N == P!Total(Lengths(sources))
            at == [i \in DOMAIN sources |-> 1]
            first == [at |-> at, result |-> <<>>]
<1>1. Positions(at, sources)
  <2>1. Len(sources) \in Nat /\ DOMAIN sources = 1..Len(sources)
        BY SourceTypes
  <2>2. at \in [1..Len(sources) -> Nat]
        BY <2>1
  <2>3. at \in Seq(Nat)
        BY <2>1, <2>2, IsASeq
  <2>4. Len(at) = Len(sources)
        BY <2>1, <2>2, <2>3
  <2>5. \A i \in DOMAIN sources : at[i] \in 1..(Len(sources[i]) + 1)
        BY SourceTypes
  <2>. QED BY <2>3, <2>4, <2>5 DEF Positions
<1>2. N \in Nat /\ P!Total(Gone(at)) = 0
  <2>. DEFINE g == Gone(at)
              q == Lengths(sources)
  <2>1. /\ g \in Seq(Nat) /\ q \in Seq(Nat) /\ Len(q) = Len(g) /\ DOMAIN sources = 1..Len(g)
        /\ \A i \in DOMAIN sources : g[i] = at[i] - 1 /\ g[i] <= q[i]
        BY <1>1, GoneAndLengths, SourceTypes
  <2>2. \A i \in 1..Len(g) : g[i] = 0
    <3>1. SUFFICES ASSUME NEW i \in DOMAIN sources PROVE g[i] = 0
          BY <2>1
    <3>2. at[i] = 1 /\ g[i] = at[i] - 1
          BY <2>1
    <3>. HIDE DEF at, g
    <3>. QED BY <3>2
  <2>. HIDE DEF g, q, at
  <2>3. P!Total(g) = 0
        BY <2>1, <2>2, TotalOfZeros
  <2>4. P!Total(q) \in Nat
        BY <2>1, TotalGrows
  <2>. QED BY <2>3, <2>4 DEF g, q
<1>3. PICK upto : Merging(upto, sources, N) /\ P!mergeAll(sources) = upto[N].result
      BY <1>2, MergeSteps
<1>4. Taken(first, sources, 0)
  <2>1. first.at = at /\ first.result = <<>>
        OBVIOUS
  <2>2. <<>> \in Rows /\ InOrder(<<>>) /\ DOMAIN <<>> = {}
        BY DEF Rows, InOrder
  <2>3. ToSet(<<>>) = {} /\ Passed(sources, at) = {}
    <3>1. \A i \in DOMAIN sources : 1..(at[i] - 1) = {}
          OBVIOUS
    <3>. QED BY <3>1 DEF Passed, ToSet
  <2>. HIDE DEF first
  <2>. QED BY <1>1, <1>2, <2>1, <2>2, <2>3 DEF Taken
<1>5. upto[0] = first
      BY <1>3 DEF Merging
<1>. HIDE DEF N, first, at
<1>. DEFINE Good == {n \in 0..N : Taken(upto[n], sources, n)}
<1>6. 0 \in Good
      BY <1>2, <1>4, <1>5
<1>7. ASSUME NEW n \in 1..N, n - 1 \in Good PROVE n \in Good
  <2>1. n \in Nat \ {0} /\ n <= N /\ n \in 0..N
        BY <1>2
  <2>2. upto[n] = P!Advance(sources, upto[n - 1])
        BY <1>3 DEF Merging
  <2>3. Taken(upto[n - 1], sources, n - 1)
        BY <1>7
  <2>4. Taken(P!Advance(sources, upto[n - 1]), sources, n)
        BY <2>1, <2>3, AdvanceTakes DEF N
  <2>. QED BY <2>1, <2>2, <2>4
<1>. HIDE DEF Good
<1>8. \A n \in 0..N : n \in Good
      BY <1>2, <1>6, <1>7, UpToInduction
<1>9. \A n \in 0..N : Taken(upto[n], sources, n)
      BY <1>8 DEF Good
<1>. QED BY <1>2, <1>3, <1>9 DEF AllTurns, N

\* mergeAll returns the records of all sources, in order.
LEMMA MergeSorted ==
    ASSUME NEW sources, Sorted(sources)
    PROVE  /\ P!mergeAll(sources) \in Rows
           /\ InOrder(P!mergeAll(sources))
           /\ ToSet(P!mergeAll(sources)) = UNION {ToSet(sources[i]) : i \in DOMAIN sources}
<1>. DEFINE N == P!Total(Lengths(sources))
<1>1. N \in Nat
      BY MergeTurns
<1>2. PICK upto : AllTurns(upto, sources, N) /\ P!mergeAll(sources) = upto[N].result
      BY MergeTurns
<1>. HIDE DEF N
<1>3. N \in 0..N
      BY <1>1
<1>9. Taken(upto[N], sources, N)
      BY <1>2, <1>3 DEF AllTurns
<1>. DEFINE bt == upto[N].at
<1>10. Positions(bt, sources) /\ P!Total(Gone(bt)) = P!Total(Lengths(sources))
       BY <1>9 DEF Taken, N
<1>11. \A i \in DOMAIN sources : bt[i] = Len(sources[i]) + 1
       BY <1>10, AllExhausted
<1>12. Passed(sources, bt) = UNION {ToSet(sources[i]) : i \in DOMAIN sources}
  <2>1. ASSUME NEW i \in DOMAIN sources
        PROVE  {sources[i][j] : j \in 1..(bt[i] - 1)} = ToSet(sources[i])
    <3>1. Len(sources[i]) \in Nat /\ DOMAIN sources[i] = 1..Len(sources[i])
          BY SourceTypes
    <3>2. 1..(bt[i] - 1) = DOMAIN sources[i]
          BY <1>11, <3>1
    <3>. QED BY <3>2, Zenon DEF ToSet
  <2>2. {{sources[i][j] : j \in 1..(bt[i] - 1)} : i \in DOMAIN sources}
            = {ToSet(sources[i]) : i \in DOMAIN sources}
        BY <2>1
  <2>. QED BY <2>2, Zenon DEF Passed
<1>. QED BY <1>2, <1>9, <1>12 DEF Taken

-----------------------------------------------------------------------------
(***************************************************************************)
(* The passes over merged records.                                         *)
(***************************************************************************)
\* A sequence number is written once.
Unique(R) == \A x, y \in R : x.seq = y.seq => x = y

\* What the order says of two positions.
LEMMA OrderMeans ==
    ASSUME NEW s \in Rows, InOrder(s), NEW i \in DOMAIN s, NEW j \in DOMAIN s, i <= j
    PROVE  /\ s[i] \in Record /\ s[j] \in Record
           /\ s[i].key \in Nat /\ s[j].key \in Nat /\ s[i].seq \in Nat /\ s[j].seq \in Nat
           /\ s[i].key <= s[j].key
           /\ s[i].key = s[j].key => s[i].seq >= s[j].seq
<1>1. /\ DOMAIN s = 1..Len(s) /\ i \in Nat /\ j \in Nat /\ s[i] \in Record /\ s[j] \in Record
      BY DEF Rows
<1>2. s[i].key \in Nat /\ s[j].key \in Nat /\ s[i].seq \in Nat /\ s[j].seq \in Nat
      BY <1>1, RecordTypes
<1>3. CASE i = j
      BY <1>1, <1>2, <1>3
<1>4. CASE i < j
  <2>1. ~P!Before(s[j], s[i])
        BY <1>4, Zenon DEF InOrder
  <2>. QED BY <1>1, <1>2, <2>1 DEF P!Before
<1>. QED BY <1>1, <1>3, <1>4

\* An earlier record of the key is at or below the oldest snapshot.
Covered(recs, oldest, n) ==
    \E m \in DOMAIN recs : m < n /\ recs[m].key = recs[n].key /\ recs[m].seq <= oldest

LEMMA CoveredStep ==
    ASSUME NEW recs \in Rows, InOrder(recs), NEW oldest, NEW n \in DOMAIN recs
    PROVE  Covered(recs, oldest, n) <=>
               /\ n > 1 /\ recs[n].key = recs[n - 1].key
               /\ recs[n - 1].seq <= oldest \/ Covered(recs, oldest, n - 1)
<1>0. DOMAIN recs = 1..Len(recs) /\ Len(recs) \in Nat /\ n \in Nat
      BY DEF Rows
<1>1. ASSUME Covered(recs, oldest, n)
      PROVE  /\ n > 1 /\ recs[n].key = recs[n - 1].key
             /\ recs[n - 1].seq <= oldest \/ Covered(recs, oldest, n - 1)
  <2>1. PICK m \in DOMAIN recs : m < n /\ recs[m].key = recs[n].key /\ recs[m].seq <= oldest
        BY <1>1 DEF Covered
  <2>2. n > 1 /\ n - 1 \in DOMAIN recs /\ m <= n - 1 /\ n - 1 <= n /\ m \in Nat
        BY <1>0, <2>1
  <2>3. recs[m].key <= recs[n - 1].key /\ recs[m].key \in Nat /\ recs[n - 1].key \in Nat
        BY <2>2, OrderMeans
  <2>4. recs[n - 1].key <= recs[n].key /\ recs[n].key \in Nat
        BY <2>2, OrderMeans
  <2>5. recs[n].key = recs[n - 1].key
        BY <2>1, <2>3, <2>4
  <2>6. CASE m = n - 1
        BY <2>1, <2>2, <2>5, <2>6
  <2>7. CASE m # n - 1
    <3>1. m < n - 1 /\ recs[m].key = recs[n - 1].key
          BY <1>0, <2>1, <2>2, <2>5, <2>7
    <3>2. Covered(recs, oldest, n - 1)
          BY <2>1, <3>1 DEF Covered
    <3>. QED BY <2>2, <2>5, <3>2
  <2>. QED BY <2>6, <2>7
<1>2. ASSUME n > 1, recs[n].key = recs[n - 1].key,
             recs[n - 1].seq <= oldest \/ Covered(recs, oldest, n - 1)
      PROVE  Covered(recs, oldest, n)
  <2>1. n - 1 \in DOMAIN recs /\ n - 1 < n
        BY <1>0, <1>2
  <2>2. CASE recs[n - 1].seq <= oldest
        BY <1>2, <2>1, <2>2 DEF Covered
  <2>3. CASE Covered(recs, oldest, n - 1)
    <3>1. PICK m \in DOMAIN recs :
              m < n - 1 /\ recs[m].key = recs[n - 1].key /\ recs[m].seq <= oldest
          BY <2>3 DEF Covered
    <3>2. m < n
          BY <1>0, <3>1
    <3>. QED BY <1>2, <3>1, <3>2 DEF Covered
  <2>. QED BY <1>2, <2>2, <2>3
<1>. QED BY <1>1, <1>2

\* What keptSnapshotBoundary says when the pass looks at record n.
LEMMA KeptIsCovered ==
    ASSUME NEW recs \in Rows, InOrder(recs), NEW oldest
    PROVE  P!retainForCompaction(recs, oldest)
               = P!Selected(recs, {n \in DOMAIN recs :
                                       recs[n].seq > oldest \/ ~Covered(recs, oldest, n)})
<1>. DEFINE N == Len(recs)
            Body(n, b) == /\ n > 1 /\ recs[n].key = recs[n - 1].key
                          /\ recs[n - 1].seq <= oldest \/ b
            Solves(f) == f = [n \in 1..N |-> Body(n, f[n - 1])]
            kept == CHOOSE f : Solves(f)
<1>0. N \in Nat /\ DOMAIN recs = 1..N
      BY DEF Rows
<1>1. P!retainForCompaction(recs, oldest)
          = P!Selected(recs, {n \in DOMAIN recs : recs[n].seq > oldest \/ ~kept[n]})
      BY DEF P!retainForCompaction
<1>. DEFINE g == [n \in 1..N |-> Covered(recs, oldest, n)]
<1>2. ASSUME NEW n \in 1..N PROVE g[n] = Body(n, g[n - 1])
  <2>1. g[n] = Covered(recs, oldest, n)
        OBVIOUS
  <2>2. n > 1 => n - 1 \in 1..N
        BY <1>0
  <2>3. n > 1 => g[n - 1] = Covered(recs, oldest, n - 1)
        BY <2>2
  <2>4. Covered(recs, oldest, n) <=>
               /\ n > 1 /\ recs[n].key = recs[n - 1].key
               /\ recs[n - 1].seq <= oldest \/ Covered(recs, oldest, n - 1)
        BY <1>0, CoveredStep
  <2>5. Covered(recs, oldest, n) \in BOOLEAN
        BY DEF Covered
  <2>. HIDE DEF g
  <2>. QED BY <2>1, <2>3, <2>4, <2>5, Zenon
<1>3. Solves(g)
  <2>1. g = [n \in 1..N |-> g[n]]
        OBVIOUS
  <2>. HIDE DEF g, Body
  <2>. QED BY <1>2, <2>1
<1>4. Solves(kept)
  <2>. HIDE DEF g, Body
  <2>. QED BY <1>3
<1>. HIDE DEF kept
<1>5. ASSUME NEW n \in 1..N PROVE kept[n] = Body(n, kept[n - 1])
  <2>. HIDE DEF Body
  <2>. QED BY <1>4
<1>. DEFINE Good == {n \in 0..N : n > 0 => (kept[n] <=> Covered(recs, oldest, n))}
<1>6. 0 \in Good
      BY <1>0
<1>7. ASSUME NEW n \in 1..N, n - 1 \in Good PROVE n \in Good
  <2>1. n \in 0..N /\ (n > 1 => n - 1 > 0)
        BY <1>0
  <2>2. n > 1 => (kept[n - 1] <=> Covered(recs, oldest, n - 1))
        BY <1>7, <2>1
  <2>3. kept[n] <=> /\ n > 1 /\ recs[n].key = recs[n - 1].key
                    /\ recs[n - 1].seq <= oldest \/ kept[n - 1]
        BY <1>5, Zenon
  <2>4. Covered(recs, oldest, n) <=>
               /\ n > 1 /\ recs[n].key = recs[n - 1].key
               /\ recs[n - 1].seq <= oldest \/ Covered(recs, oldest, n - 1)
        BY <1>0, CoveredStep
  <2>5. kept[n] <=> Covered(recs, oldest, n)
        BY <2>2, <2>3, <2>4, Zenon
  <2>. QED BY <2>1, <2>5, Zenon
<1>. HIDE DEF Good
<1>8. \A n \in 0..N : n \in Good
      BY <1>0, <1>6, <1>7, UpToInduction
<1>9. \A n \in DOMAIN recs : kept[n] <=> Covered(recs, oldest, n)
  <2>1. SUFFICES ASSUME NEW n \in DOMAIN recs PROVE kept[n] <=> Covered(recs, oldest, n)
        OBVIOUS
  <2>2. n \in 0..N /\ n > 0
        BY <1>0
  <2>. QED BY <1>8, <2>2, Zenon DEF Good
<1>10. {n \in DOMAIN recs : recs[n].seq > oldest \/ ~kept[n]}
           = {n \in DOMAIN recs : recs[n].seq > oldest \/ ~Covered(recs, oldest, n)}
       BY <1>9, Zenon
<1>. QED BY <1>1, <1>10

\* The pass keeps what the set of Versions keeps, in order.
LEMMA RetainMatches ==
    ASSUME NEW recs \in Rows, InOrder(recs), Unique(ToSet(recs)), NEW oldest \in Nat
    PROVE  /\ P!retainForCompaction(recs, oldest) \in Rows
           /\ InOrder(P!retainForCompaction(recs, oldest))
           /\ ToSet(P!retainForCompaction(recs, oldest)) = retainForCompaction(ToSet(recs), oldest)
<1>. DEFINE I == {n \in DOMAIN recs : recs[n].seq > oldest \/ ~Covered(recs, oldest, n)}
            out == P!retainForCompaction(recs, oldest)
            kept == retainForCompaction(ToSet(recs), oldest)
<1>0. DOMAIN recs = 1..Len(recs) /\ Len(recs) \in Nat
      BY DEF Rows
<1>1. out = P!Selected(recs, I)
      BY KeptIsCovered
<1>2. out \in Rows /\ InOrder(out) /\ ToSet(out) = {recs[n] : n \in I}
  <2>1. I \in SUBSET (DOMAIN recs)
        OBVIOUS
  <2>. HIDE DEF I, out
  <2>. QED BY <1>1, <2>1, SelectedKeeps
<1>3. ASSUME NEW n \in I PROVE recs[n] \in kept
  <2>1. n \in DOMAIN recs /\ recs[n] \in ToSet(recs)
        BY DEF ToSet
  <2>2. CASE recs[n].seq > oldest
        BY <2>1, <2>2 DEF retainForCompaction
  <2>3. CASE ~Covered(recs, oldest, n)
    <3>1. ASSUME NEW q \in ToSet(recs), q.key = recs[n].key, q.seq <= oldest
          PROVE  q.seq <= recs[n].seq
      <4>1. PICK p \in DOMAIN recs : q = recs[p]
            BY DEF ToSet
      <4>2. ~(p < n)
            BY <2>3, <3>1, <4>1 DEF Covered
      <4>3. n <= p
            BY <1>0, <2>1, <4>2
      <4>4. recs[n].seq >= recs[p].seq /\ recs[n].seq \in Nat /\ recs[p].seq \in Nat
            BY <2>1, <3>1, <4>1, <4>3, OrderMeans
      <4>. QED BY <4>1, <4>4
    <3>. QED BY <2>1, <3>1 DEF retainForCompaction
  <2>. QED BY <2>2, <2>3
<1>4. ASSUME NEW r \in kept PROVE r \in {recs[n] : n \in I}
  <2>1. r \in ToSet(recs)
        BY DEF retainForCompaction
  <2>2. PICK p \in DOMAIN recs : r = recs[p]
        BY <2>1 DEF ToSet
  <2>3. CASE r.seq > oldest
        BY <2>2, <2>3
  <2>4. CASE ~(r.seq > oldest)
    <3>. DEFINE M == {m \in DOMAIN recs : recs[m].key = r.key /\ recs[m].seq <= oldest}
    <3>0. r.seq \in Nat /\ r.seq <= oldest
      <4>1. p \in Nat
            BY <1>0
      <4>2. r.seq \in Nat
            BY <2>2, <4>1, OrderMeans
      <4>. QED BY <2>4, <4>2
    <3>1. p \in M /\ M \in SUBSET Nat /\ M # {}
          BY <1>0, <2>2, <3>0
    <3>2. PICK m \in M : \A y \in M : m <= y
          BY <3>1, NatHasMin
    <3>3. m \in DOMAIN recs /\ m <= p /\ recs[m].key = r.key /\ recs[m].seq <= oldest
          BY <3>1, <3>2
    <3>4. recs[m].seq >= r.seq /\ recs[m].seq \in Nat
          BY <2>2, <3>3, OrderMeans
    <3>5. recs[m].seq <= r.seq
      <4>1. recs[m] \in ToSet(recs)
            BY <3>3 DEF ToSet
      <4>. QED BY <2>4, <3>3, <4>1 DEF retainForCompaction
    <3>6. recs[m] = r
      <4>1. recs[m] \in ToSet(recs)
            BY <3>3 DEF ToSet
      <4>2. recs[m].seq = r.seq
            BY <3>0, <3>4, <3>5
      <4>. QED BY <2>1, <4>1, <4>2 DEF Unique
    <3>7. ~Covered(recs, oldest, m)
      <4>1. SUFFICES ASSUME NEW l \in DOMAIN recs, l < m, recs[l].key = recs[m].key,
                            recs[l].seq <= oldest
                     PROVE  FALSE
            BY DEF Covered
      <4>2. l \in M
            BY <3>3, <4>1
      <4>3. m <= l /\ l \in Nat /\ m \in Nat
            BY <1>0, <3>2, <4>2
      <4>. QED BY <4>1, <4>3
    <3>8. m \in I
          BY <3>3, <3>7
    <3>. QED BY <3>6, <3>8
  <2>. QED BY <2>3, <2>4
<1>5. ToSet(out) = kept
  <2>. HIDE DEF I, out, kept
  <2>. QED BY <1>2, <1>3, <1>4
<1>. QED BY <1>2, <1>5

LEMMA IteratorKeeps ==
    ASSUME NEW s \in Rows, InOrder(s), NEW readSeq
    PROVE  /\ P!SnapshotIterator(s, readSeq) \in Rows
           /\ InOrder(P!SnapshotIterator(s, readSeq))
           /\ ToSet(P!SnapshotIterator(s, readSeq)) = {r \in ToSet(s) : r.seq <= readSeq}
<1>. DEFINE I == {n \in DOMAIN s : s[n].seq <= readSeq}
            u == P!SnapshotIterator(s, readSeq)
<1>1. u = P!Selected(s, I)
      BY DEF P!SnapshotIterator
<1>2. u \in Rows /\ InOrder(u) /\ ToSet(u) = {s[n] : n \in I}
  <2>1. I \in SUBSET (DOMAIN s)
        OBVIOUS
  <2>. HIDE DEF I, u
  <2>. QED BY <1>1, <2>1, SelectedKeeps
<1>3. {s[n] : n \in I} = {r \in ToSet(s) : r.seq <= readSeq}
      BY DEF ToSet
<1>. QED BY <1>2, <1>3

\* The keys ascend, each once.
Ascending(s) == \A i, j \in DOMAIN s : i < j => s[i].key < s[j].key

\* unique leaves the newest version of each key.
LEMMA FirstIsNewest ==
    ASSUME NEW recs \in Rows, InOrder(recs), Unique(ToSet(recs))
    PROVE  /\ P!FirstPerKey(recs) \in Rows
           /\ InOrder(P!FirstPerKey(recs)) /\ Ascending(P!FirstPerKey(recs))
           /\ ToSet(P!FirstPerKey(recs))
                  = {r \in ToSet(recs) : \A q \in ToSet(recs) : q.key = r.key => q.seq <= r.seq}
<1>. DEFINE I == {n \in DOMAIN recs : n > 1 => recs[n].key # recs[n - 1].key}
            out == P!FirstPerKey(recs)
            newest == {r \in ToSet(recs) : \A q \in ToSet(recs) : q.key = r.key => q.seq <= r.seq}
<1>0. DOMAIN recs = 1..Len(recs) /\ Len(recs) \in Nat /\ recs \in Seq(Record)
      BY DEF Rows
<1>1. out = P!Selected(recs, I) /\ I \in SUBSET (1..Len(recs)) /\ I \in SUBSET (DOMAIN recs)
      BY <1>0 DEF P!FirstPerKey
<1>. HIDE DEF out
<1>2. out \in Rows /\ InOrder(out) /\ ToSet(out) = {recs[n] : n \in I}
  <2>. HIDE DEF I
  <2>. QED BY <1>1, SelectedKeeps
<1>3. \A n \in I, m \in DOMAIN recs : m < n => recs[m].key < recs[n].key
  <2>1. SUFFICES ASSUME NEW n \in I, NEW m \in DOMAIN recs, m < n PROVE recs[m].key < recs[n].key
        OBVIOUS
  <2>2. n > 1 /\ n \in DOMAIN recs /\ n - 1 \in DOMAIN recs /\ m <= n - 1 /\ n - 1 <= n
        BY <1>0, <2>1
  <2>3. recs[m].key <= recs[n - 1].key /\ recs[m].key \in Nat /\ recs[n - 1].key \in Nat
        BY <2>2, OrderMeans
  <2>4. recs[n - 1].key <= recs[n].key /\ recs[n].key \in Nat
        BY <2>2, OrderMeans
  <2>5. recs[n].key # recs[n - 1].key
        BY <2>2
  <2>. QED BY <2>3, <2>4, <2>5
<1>4. Ascending(out)
  <2>1. PICK at : Picks(out, at, Record, recs, I, Len(recs))
    <3>. HIDE DEF I
    <3>. QED BY <1>0, <1>1, SelectedPicks
  <2>2. SUFFICES ASSUME NEW i \in DOMAIN out, NEW j \in DOMAIN out, i < j
                 PROVE  out[i].key < out[j].key
        BY DEF Ascending
  <2>. HIDE DEF I
  <2>3. DOMAIN out = 1..Len(out)
        BY <1>2 DEF Rows
  <2>4. /\ at[i] \in I /\ at[j] \in I /\ at[i] < at[j] /\ out[i] = recs[at[i]]
        /\ out[j] = recs[at[j]] /\ at[i] \in DOMAIN recs
        BY <1>1, <2>1, <2>2, <2>3 DEF Picks
  <2>. QED BY <1>3, <2>4
<1>5. ASSUME NEW n \in I PROVE recs[n] \in newest
  <2>1. n \in DOMAIN recs /\ recs[n] \in ToSet(recs) /\ n \in Nat
        BY <1>0 DEF ToSet
  <2>2. ASSUME NEW q \in ToSet(recs), q.key = recs[n].key PROVE q.seq <= recs[n].seq
    <3>1. PICK p \in DOMAIN recs : q = recs[p]
          BY DEF ToSet
    <3>2. p \in Nat
          BY <1>0
    <3>3. CASE p < n
      <4>1. recs[p].key < recs[n].key
            BY <1>3, <3>3
      <4>2. recs[p].key \in Nat
            BY <2>1, <3>1, <3>2, <3>3, OrderMeans
      <4>. QED BY <2>2, <3>1, <4>1, <4>2
    <3>4. CASE n <= p
      <4>1. recs[n].seq >= recs[p].seq /\ recs[n].seq \in Nat /\ recs[p].seq \in Nat
            BY <2>1, <2>2, <3>1, <3>4, OrderMeans
      <4>. QED BY <3>1, <4>1
    <3>. QED BY <2>1, <3>2, <3>3, <3>4
  <2>. QED BY <2>1, <2>2
<1>6. ASSUME NEW r \in newest PROVE r \in {recs[n] : n \in I}
  <2>2. PICK p \in DOMAIN recs : r = recs[p]
        BY DEF ToSet
  <2>. DEFINE M == {m \in DOMAIN recs : recs[m].key = r.key}
  <2>3. p \in M /\ M \in SUBSET Nat /\ M # {}
        BY <1>0, <2>2
  <2>4. PICK m \in M : \A y \in M : m <= y
        BY <2>3, NatHasMin
  <2>5. m \in DOMAIN recs /\ m <= p /\ recs[m].key = r.key /\ recs[m] \in ToSet(recs) /\ m \in Nat
        BY <1>0, <2>3, <2>4 DEF ToSet
  <2>6. recs[m].seq >= r.seq /\ recs[m].seq \in Nat /\ r.seq \in Nat
        BY <2>2, <2>5, OrderMeans
  <2>7. recs[m].seq <= r.seq
        BY <2>5
  <2>8. recs[m] = r
    <3>1. recs[m].seq = r.seq
          BY <2>6, <2>7
    <3>. QED BY <2>5, <3>1 DEF Unique
  <2>9. m \in I
    <3>1. SUFFICES ASSUME m > 1, recs[m].key = recs[m - 1].key PROVE FALSE
          BY <2>5
    <3>2. m - 1 \in DOMAIN recs
          BY <1>0, <2>5, <3>1
    <3>3. m - 1 \in M
          BY <2>5, <3>1, <3>2
    <3>4. m <= m - 1
          BY <2>4, <3>3
    <3>. QED BY <2>5, <3>4
  <2>. QED BY <2>8, <2>9
<1>7. ToSet(out) = newest
  <2>. HIDE DEF I, newest
  <2>. QED BY <1>2, <1>5, <1>6
<1>. QED BY <1>2, <1>4, <1>7 DEF out

LEMMA WithoutTombstonesIs ==
    ASSUME NEW recs \in Rows, InOrder(recs), Ascending(recs)
    PROVE  /\ P!WithoutTombstones(recs) \in Rows /\ Ascending(P!WithoutTombstones(recs))
           /\ ToSet(P!WithoutTombstones(recs)) = {r \in ToSet(recs) : r.val # Tombstone}
<1>. DEFINE I == {n \in DOMAIN recs : recs[n].val # Tombstone}
            out == P!WithoutTombstones(recs)
<1>0. DOMAIN recs = 1..Len(recs) /\ recs \in Seq(Record)
      BY DEF Rows
<1>1. out = P!Selected(recs, I) /\ I \in SUBSET (1..Len(recs)) /\ I \in SUBSET (DOMAIN recs)
      BY <1>0 DEF P!WithoutTombstones
<1>. HIDE DEF out
<1>2. out \in Rows /\ ToSet(out) = {recs[n] : n \in I}
  <2>. HIDE DEF I
  <2>. QED BY <1>1, SelectedKeeps
<1>3. ToSet(out) = {r \in ToSet(recs) : r.val # Tombstone}
      BY <1>2 DEF ToSet
<1>. HIDE DEF I
<1>4. PICK at : Picks(out, at, Record, recs, I, Len(recs))
      BY <1>0, <1>1, SelectedPicks
<1>5. Ascending(out)
  <2>1. SUFFICES ASSUME NEW i \in DOMAIN out, NEW j \in DOMAIN out, i < j
                 PROVE  out[i].key < out[j].key
        BY DEF Ascending
  <2>2. DOMAIN out = 1..Len(out)
        BY <1>2 DEF Rows
  <2>3. /\ at[i] \in DOMAIN recs /\ at[j] \in DOMAIN recs /\ at[i] < at[j]
        /\ out[i] = recs[at[i]] /\ out[j] = recs[at[j]]
        BY <1>1, <1>4, <2>1, <2>2 DEF Picks
  <2>. QED BY <2>3 DEF Ascending
<1>. QED BY <1>2, <1>3, <1>5 DEF out

-----------------------------------------------------------------------------
(***************************************************************************)
(* writeCompactionOutput.                                                  *)
(***************************************************************************)
\* Every key of s is smaller than every key of t.
Apart(s, t) == \A a \in DOMAIN s, b \in DOMAIN t : s[a].key < t[b].key

\* Sorted tables of ascending, disjoint ranges.
Tables(output) ==
    /\ output \in Seq(Rows)
    /\ \A i \in DOMAIN output : output[i] # <<>> /\ InOrder(output[i])
    /\ \A i, j \in DOMAIN output : i < j => Apart(output[i], output[j])

Contents(output) == UNION {ToSet(output[i]) : i \in DOMAIN output}

\* The loop has cut the records in front of begin into tables.
Sliced(loop, recs, n) ==
    /\ loop.begin \in 1..(n + 1)
    /\ Tables(loop.output)
    /\ \A i \in DOMAIN loop.output, m \in loop.begin..Len(recs) :
           \A a \in DOMAIN loop.output[i] : loop.output[i][a].key < recs[m].key
    /\ Contents(loop.output) = {recs[m] : m \in 1..(loop.begin - 1)}

LEMMA SliceIs ==
    ASSUME NEW recs \in Rows, InOrder(recs), NEW b \in 1..Len(recs), NEW n \in b..Len(recs)
    PROVE  LET s == SubSeq(recs, b, n)
           IN  /\ s \in Rows /\ s # <<>> /\ InOrder(s)
               /\ \A a \in DOMAIN s : b + a - 1 \in b..n /\ s[a] = recs[b + a - 1]
               /\ ToSet(s) = {recs[m] : m \in b..n}
<1>. DEFINE s == SubSeq(recs, b, n)
<1>0. /\ Len(recs) \in Nat /\ DOMAIN recs = 1..Len(recs) /\ b \in Nat /\ n \in Nat
      /\ 1 <= b /\ b <= n /\ n <= Len(recs)
      BY DEF Rows
<1>1. s \in Rows /\ Len(s) = n - b + 1 /\ \A a \in 1..(n - b + 1) : s[a] = recs[b + a - 1]
      BY <1>0, SubSeqProperties DEF Rows
<1>2. DOMAIN s = 1..(n - b + 1)
      BY <1>1 DEF Rows
<1>. HIDE DEF s
<1>3. s # <<>>
  <2>1. 1 \in DOMAIN s
        BY <1>0, <1>2
  <2>. QED BY <2>1
<1>4. \A a \in DOMAIN s : b + a - 1 \in b..n /\ b + a - 1 \in DOMAIN recs /\ a \in Nat
      BY <1>0, <1>2
<1>5. InOrder(s)
  <2>1. SUFFICES ASSUME NEW i \in DOMAIN s, NEW j \in DOMAIN s, i < j
                 PROVE  ~P!Before(s[j], s[i])
        BY DEF InOrder
  <2>2. s[i] = recs[b + i - 1] /\ s[j] = recs[b + j - 1] /\ b + i - 1 < b + j - 1
        BY <1>0, <1>1, <1>2, <1>4, <2>1
  <2>3. b + i - 1 \in DOMAIN recs /\ b + j - 1 \in DOMAIN recs
        BY <1>4
  <2>4. ~P!Before(recs[b + j - 1], recs[b + i - 1])
        BY <2>2, <2>3 DEF InOrder
  <2>. QED BY <2>2, <2>4
<1>6. ToSet(s) = {recs[m] : m \in b..n}
  <2>1. ASSUME NEW a \in DOMAIN s PROVE s[a] \in {recs[m] : m \in b..n}
        BY <1>1, <1>2, <1>4
  <2>2. ASSUME NEW m \in b..n PROVE recs[m] \in {s[a] : a \in DOMAIN s}
    <3>1. m - b + 1 \in DOMAIN s /\ b + (m - b + 1) - 1 = m
          BY <1>0, <1>2
    <3>2. s[m - b + 1] = recs[m]
          BY <1>1, <1>2, <3>1
    <3>. QED BY <3>1, <3>2
  <2>. QED BY <2>1, <2>2 DEF ToSet
<1>. QED BY <1>1, <1>2, <1>3, <1>4, <1>5, <1>6 DEF s

\* A cut behind record n, between two keys.
LEMMA CutHere ==
    ASSUME NEW recs \in Rows, InOrder(recs), NEW n \in 1..Len(recs), NEW loop,
           Sliced(loop, recs, n - 1), n < Len(recs) => recs[n].key # recs[n + 1].key
    PROVE  Sliced([output |-> Append(loop.output, SubSeq(recs, loop.begin, n)),
                   begin |-> n + 1], recs, n)
<1>. DEFINE b == loop.begin
            out == loop.output
            s == SubSeq(recs, b, n)
            new == Append(out, s)
            K == Len(out)
<1>0. /\ Len(recs) \in Nat /\ DOMAIN recs = 1..Len(recs) /\ n \in Nat /\ b \in 1..n /\ b \in Nat
      /\ b \in 1..Len(recs) /\ n \in b..Len(recs)
      BY DEF Rows, Sliced
<1>1. /\ s \in Rows /\ s # <<>> /\ InOrder(s)
      /\ \A a \in DOMAIN s : b + a - 1 \in b..n /\ s[a] = recs[b + a - 1]
      /\ ToSet(s) = {recs[m] : m \in b..n}
  <2>. HIDE DEF b
  <2>. QED BY <1>0, SliceIs
<1>2. /\ Tables(out) /\ Contents(out) = {recs[m] : m \in 1..(b - 1)}
      /\ \A i \in DOMAIN out, m \in b..Len(recs) :
             \A a \in DOMAIN out[i] : out[i][a].key < recs[m].key
      BY DEF Sliced
<1>. HIDE DEF b, out, s
<1>3. /\ K \in Nat /\ DOMAIN out = 1..K /\ new \in Seq(Rows) /\ DOMAIN new = 1..(K + 1)
      /\ (\A i \in 1..K : new[i] = out[i]) /\ new[K + 1] = s
  <2>1. out \in Seq(Rows)
        BY <1>2 DEF Tables
  <2>. QED BY <1>1, <2>1
<1>. HIDE DEF new, K
<1>4. \A i \in 1..(K + 1) : i = K + 1 \/ i \in 1..K
      BY <1>3
<1>5. \A i \in DOMAIN out : Apart(out[i], s)
  <2>1. SUFFICES ASSUME NEW i \in DOMAIN out, NEW c \in DOMAIN out[i], NEW a \in DOMAIN s
                 PROVE  out[i][c].key < s[a].key
        BY DEF Apart
  <2>2. b + a - 1 \in b..n /\ s[a] = recs[b + a - 1]
        BY <1>1
  <2>3. b + a - 1 \in b..Len(recs)
        BY <1>0, <2>2
  <2>. QED BY <1>2, <2>2, <2>3
<1>6. Tables(new)
  <2>1. ASSUME NEW i \in 1..(K + 1) PROVE new[i] # <<>> /\ InOrder(new[i])
    <3>1. CASE i = K + 1
          BY <1>1, <1>3, <3>1
    <3>2. CASE i \in 1..K
          BY <1>2, <1>3, <3>2 DEF Tables
    <3>. QED BY <1>4, <3>1, <3>2
  <2>2. ASSUME NEW i \in 1..(K + 1), NEW j \in 1..(K + 1), i < j PROVE Apart(new[i], new[j])
    <3>1. i \in 1..K
          BY <1>3, <2>2
    <3>2. CASE j = K + 1
          BY <1>3, <1>5, <3>1, <3>2
    <3>3. CASE j \in 1..K
          BY <1>2, <1>3, <2>2, <3>1, <3>3 DEF Tables
    <3>. QED BY <1>4, <3>2, <3>3
  <2>. QED BY <1>3, <2>1, <2>2 DEF Tables
<1>7. ASSUME NEW i \in DOMAIN new, NEW m \in (n + 1)..Len(recs), NEW a \in DOMAIN new[i]
      PROVE  new[i][a].key < recs[m].key
  <2>1. m \in b..Len(recs) /\ m \in DOMAIN recs /\ n < Len(recs) /\ n + 1 \in DOMAIN recs
        BY <1>0
  <2>2. CASE i \in 1..K
        BY <1>2, <1>3, <2>1, <2>2
  <2>3. CASE i = K + 1
    <3>1. new[i] = s
          BY <1>3, <2>3
    <3>2. b + a - 1 \in b..n /\ s[a] = recs[b + a - 1]
          BY <1>1, <3>1
    <3>3. b + a - 1 \in DOMAIN recs /\ b + a - 1 <= n /\ n \in DOMAIN recs /\ n <= n + 1 /\ n + 1 <= m
          BY <1>0, <3>2
    <3>4. s[a].key <= recs[n].key /\ s[a].key \in Nat /\ recs[n].key \in Nat
          BY <3>2, <3>3, OrderMeans
    <3>5. recs[n].key <= recs[n + 1].key /\ recs[n + 1].key \in Nat
          BY <2>1, <3>3, OrderMeans
    <3>6. recs[n + 1].key <= recs[m].key /\ recs[m].key \in Nat
          BY <2>1, <3>3, OrderMeans
    <3>7. recs[n].key # recs[n + 1].key
          BY <2>1
    <3>. QED BY <3>1, <3>4, <3>5, <3>6, <3>7
  <2>. QED BY <1>3, <1>4, <2>2, <2>3
<1>8. Contents(new) = {recs[m] : m \in 1..n}
  <2>1. Contents(new) = Contents(out) \cup ToSet(s)
    <3>1. ASSUME NEW x \in Contents(new) PROVE x \in Contents(out) \cup ToSet(s)
      <4>1. PICK i \in DOMAIN new : x \in ToSet(new[i])
            BY DEF Contents
      <4>2. CASE i = K + 1
            BY <1>3, <4>1, <4>2
      <4>3. CASE i \in 1..K
            BY <1>3, <4>1, <4>3 DEF Contents
      <4>. QED BY <1>3, <1>4, <4>2, <4>3
    <3>2. ASSUME NEW x \in Contents(out) PROVE x \in Contents(new)
      <4>1. PICK i \in DOMAIN out : x \in ToSet(out[i])
            BY DEF Contents
      <4>2. i \in DOMAIN new /\ new[i] = out[i]
            BY <1>3
      <4>. QED BY <4>1, <4>2 DEF Contents
    <3>3. ASSUME NEW x \in ToSet(s) PROVE x \in Contents(new)
      <4>1. K + 1 \in DOMAIN new /\ new[K + 1] = s
            BY <1>3
      <4>. QED BY <3>3, <4>1 DEF Contents
    <3>. QED BY <3>1, <3>2, <3>3
  <2>2. 1..n = (1..(b - 1)) \cup (b..n)
        BY <1>0
  <2>3. {recs[m] : m \in 1..n} = {recs[m] : m \in 1..(b - 1)} \cup {recs[m] : m \in b..n}
        BY <2>2
  <2>. QED BY <1>1, <1>2, <2>1, <2>3
<1>. DEFINE next == [output |-> new, begin |-> n + 1]
<1>9. next.output = new /\ next.begin = n + 1
      OBVIOUS
<1>10. n + 1 \in 1..(n + 1) /\ (n + 1) - 1 = n
       BY <1>0
<1>. HIDE DEF next
<1>11. Sliced(next, recs, n)
       BY <1>6, <1>7, <1>8, <1>9, <1>10 DEF Sliced
<1>. QED BY <1>11 DEF next, new, out, s, b

Slicing(upto, recs, threshold) ==
    /\ upto[0] = [output |-> <<>>, begin |-> 1]
    /\ \A n \in 1..Len(recs) : upto[n] = P!Cut(recs, threshold, upto[n - 1], n)

FinalSlice(recs, end) ==
    IF end.begin > Len(recs) THEN end.output
    ELSE Append(end.output, SubSeq(recs, end.begin, Len(recs)))

LEMMA SliceSteps ==
    ASSUME NEW recs, Len(recs) \in Nat, NEW threshold
    PROVE  \E upto : /\ Slicing(upto, recs, threshold)
                     /\ P!writeCompactionOutput(recs, threshold)
                            = FinalSlice(recs, upto[Len(recs)])
<1>. DEFINE N == Len(recs)
            Step(n, v) == P!Cut(recs, threshold, v, n)
            Base == [output |-> <<>>, begin |-> 1]
            Solves(f, k) == f = [n \in 0..k |-> IF n = 0 THEN Base ELSE Step(n, f[n - 1])]
<1>1. P!writeCompactionOutput(recs, threshold) = FinalSlice(recs, (CHOOSE f : Solves(f, N))[N])
      BY DEF P!writeCompactionOutput, FinalSlice
<1>2. N \in Nat
      OBVIOUS
<1>. HIDE DEF N, Step, Base
<1>. DEFINE Good == {k \in 0..N : \E f : Solves(f, k)}
<1>3. 0 \in Good
  <2>. DEFINE g == [n \in 0..0 |-> Base]
  <2>1. \A n \in 0..0 : n = 0
        OBVIOUS
  <2>2. \A n \in 0..0 : g[n] = IF n = 0 THEN Base ELSE Step(n, g[n - 1])
        BY <2>1
  <2>3. g = [n \in 0..0 |-> g[n]]
        OBVIOUS
  <2>. HIDE DEF g
  <2>4. Solves(g, 0)
        BY <2>2, <2>3
  <2>. QED BY <1>2, <2>4
<1>4. ASSUME NEW k \in 1..N, k - 1 \in Good PROVE k \in Good
  <2>1. PICK f : Solves(f, k - 1)
        BY <1>4
  <2>. DEFINE g == [n \in 0..k |-> IF n = k THEN Step(k, f[k - 1]) ELSE f[n]]
  <2>2. ASSUME NEW n \in 0..k PROVE g[n] = IF n = 0 THEN Base ELSE Step(n, g[n - 1])
    <3>1. CASE n = k
      <4>1. n # 0 /\ k - 1 \in 0..k /\ k - 1 # k
            BY <1>2, <3>1
      <4>2. g[k] = Step(k, f[k - 1]) /\ g[k - 1] = f[k - 1]
            BY <4>1, <3>1
      <4>. HIDE DEF g
      <4>. QED BY <3>1, <4>1, <4>2, Zenon
    <3>2. CASE n # k
      <4>1. n \in 0..(k - 1) /\ g[n] = f[n]
            BY <1>2, <3>2
      <4>2. n # 0 => n - 1 \in 0..k /\ n - 1 # k
            BY <1>2, <3>2
      <4>3. n # 0 => g[n - 1] = f[n - 1]
            BY <4>2
      <4>4. f[n] = IF n = 0 THEN Base ELSE Step(n, f[n - 1])
            BY <2>1, <4>1, Zenon
      <4>. HIDE DEF g
      <4>. QED BY <4>1, <4>3, <4>4, Zenon
    <3>. QED BY <3>1, <3>2
  <2>3. g = [n \in 0..k |-> g[n]]
        OBVIOUS
  <2>. HIDE DEF g
  <2>4. Solves(g, k)
        BY <2>2, <2>3
  <2>. QED BY <1>2, <2>4
<1>. HIDE DEF Good
<1>5. \A n \in 0..N : n \in Good
      BY <1>2, <1>3, <1>4, UpToInduction
<1>6. \E f : Solves(f, N)
      BY <1>2, <1>5 DEF Good
<1>. DEFINE upto == CHOOSE f : Solves(f, N)
<1>7. Solves(upto, N)
      BY <1>6
<1>. HIDE DEF upto
<1>8. upto[0] = Base
      BY <1>2, <1>7
<1>9. ASSUME NEW n \in 1..N PROVE upto[n] = Step(n, upto[n - 1])
  <2>1. n \in 0..N /\ n # 0
        BY <1>2
  <2>2. upto[n] = IF n = 0 THEN Base ELSE Step(n, upto[n - 1])
        BY <1>7, <2>1, Zenon
  <2>. QED BY <2>1, <2>2
<1>10. P!writeCompactionOutput(recs, threshold) = FinalSlice(recs, upto[N])
       BY <1>1 DEF upto
<1>. QED BY <1>8, <1>9, <1>10 DEF Slicing, Step, Base, N

\* The output is sorted tables of ascending ranges, with the records it is given.
LEMMA OutputIsTables ==
    ASSUME NEW recs \in Rows, InOrder(recs), NEW threshold
    PROVE  /\ Tables(P!writeCompactionOutput(recs, threshold))
           /\ Contents(P!writeCompactionOutput(recs, threshold)) = ToSet(recs)
<1>. DEFINE N == Len(recs)
<1>0. N \in Nat /\ DOMAIN recs = 1..N
      BY DEF Rows
<1>1. PICK upto : /\ Slicing(upto, recs, threshold)
                  /\ P!writeCompactionOutput(recs, threshold) = FinalSlice(recs, upto[N])
      BY <1>0, SliceSteps
<1>. DEFINE Good == {n \in 0..N : Sliced(upto[n], recs, n)}
<1>2. 0 \in Good
  <2>1. upto[0] = [output |-> <<>>, begin |-> 1]
        BY <1>1 DEF Slicing
  <2>2. upto[0].output = <<>> /\ upto[0].begin = 1
        BY <2>1
  <2>3. Tables(<<>>) /\ Contents(<<>>) = {}
        BY DEF Tables, Contents
  <2>4. {recs[m] : m \in 1..0} = {} /\ DOMAIN <<>> = {} /\ 1 \in 1..(0 + 1) /\ 1 - 1 = 0
        OBVIOUS
  <2>5. Sliced(upto[0], recs, 0)
        BY <2>2, <2>3, <2>4 DEF Sliced
  <2>. QED BY <1>0, <2>5
<1>3. ASSUME NEW n \in 1..N, n - 1 \in Good PROVE n \in Good
  <2>. DEFINE loop == upto[n - 1]
              cut == [output |-> Append(loop.output, SubSeq(recs, loop.begin, n)), begin |-> n + 1]
  <2>1. Sliced(loop, recs, n - 1)
        BY <1>3
  <2>2. upto[n] = P!Cut(recs, threshold, loop, n)
        BY <1>1 DEF Slicing
  <2>3. \/ upto[n] = loop
        \/ upto[n] = cut /\ (n < Len(recs) => recs[n].key # recs[n + 1].key)
        BY <2>2 DEF P!Cut
  <2>. HIDE DEF loop
  <2>4. CASE upto[n] = loop
    <3>1. loop.begin \in 1..(n + 1)
          BY <1>0, <2>1 DEF Sliced
    <3>. QED BY <1>0, <2>1, <2>4, <3>1 DEF Sliced
  <2>5. CASE upto[n] = cut /\ (n < Len(recs) => recs[n].key # recs[n + 1].key)
    <3>1. Sliced(cut, recs, n)
          BY <2>1, <2>5, CutHere
    <3>. HIDE DEF cut
    <3>. QED BY <1>0, <2>5, <3>1
  <2>. QED BY <2>3, <2>4, <2>5
<1>. HIDE DEF Good
<1>4. \A n \in 0..N : n \in Good
      BY <1>0, <1>2, <1>3, UpToInduction
<1>. DEFINE end == upto[N]
<1>5. Sliced(end, recs, N)
      BY <1>0, <1>4 DEF Good
<1>. HIDE DEF end
<1>6. ToSet(recs) = {recs[m] : m \in 1..N}
      BY <1>0 DEF ToSet
<1>7. CASE end.begin > N
  <2>1. end.begin = N + 1 /\ (N + 1) - 1 = N
        BY <1>0, <1>5, <1>7 DEF Sliced
  <2>2. FinalSlice(recs, end) = end.output
        BY <1>7 DEF FinalSlice
  <2>3. Contents(end.output) = ToSet(recs) /\ Tables(end.output)
        BY <1>5, <1>6, <2>1 DEF Sliced
  <2>. QED BY <1>1, <2>2, <2>3 DEF end
<1>8. CASE ~(end.begin > N)
  <2>. DEFINE last == [output |-> Append(end.output, SubSeq(recs, end.begin, N)), begin |-> N + 1]
  <2>0. end.begin \in 1..N /\ N \in 1..N
        BY <1>0, <1>5, <1>8 DEF Sliced
  <2>1. Sliced(end, recs, N - 1)
    <3>1. end.begin \in 1..((N - 1) + 1)
          BY <1>0, <2>0
    <3>. QED BY <1>5, <3>1 DEF Sliced
  <2>2. N < Len(recs) => recs[N].key # recs[N + 1].key
        BY <1>0
  <2>3. Sliced(last, recs, N)
    <3>. HIDE DEF N
    <3>1. N \in 1..Len(recs)
          BY <2>0 DEF N
    <3>. QED BY <2>1, <2>2, <3>1, CutHere
  <2>4. FinalSlice(recs, end) = last.output
        BY <1>8 DEF FinalSlice
  <2>5. last.begin - 1 = N
        BY <1>0
  <2>. HIDE DEF last
  <2>6. Contents(last.output) = ToSet(recs) /\ Tables(last.output)
        BY <1>6, <2>3, <2>5 DEF Sliced
  <2>. QED BY <1>1, <2>4, <2>6 DEF end
<1>. QED BY <1>7, <1>8

-----------------------------------------------------------------------------
(***************************************************************************)
(* Tables in levels.                                                       *)
(***************************************************************************)
\* The tables of any level: sorted and non-empty.
Runs(level) ==
    /\ level \in Seq(Rows)
    /\ \A i \in DOMAIN level : level[i] # <<>> /\ InOrder(level[i])

LEMMA TablesAreRuns == ASSUME NEW level, Tables(level) PROVE Runs(level)
BY DEF Tables, Runs

LEMMA SelectedRuns ==
    ASSUME NEW level, Runs(level), NEW I \in SUBSET (DOMAIN level)
    PROVE  /\ Runs(P!Selected(level, I))
           /\ ToSet(P!Selected(level, I)) = {level[i] : i \in I}
           /\ Tables(level) => Tables(P!Selected(level, I))
<1>. DEFINE u == P!Selected(level, I)
<1>0. level \in Seq(Rows) /\ DOMAIN level = 1..Len(level) /\ I \in SUBSET (1..Len(level))
      BY DEF Runs
<1>1. PICK at : Picks(u, at, Rows, level, I, Len(level))
      BY <1>0, SelectedPicks
<1>. HIDE DEF u
<1>2. /\ u \in Seq(Rows) /\ DOMAIN u = 1..Len(u)
      /\ \A i \in DOMAIN u : at[i] \in I /\ at[i] \in DOMAIN level /\ u[i] = level[at[i]]
      BY <1>0, <1>1 DEF Picks
<1>3. Runs(u)
      BY <1>2 DEF Runs
<1>4. ToSet(u) = {level[i] : i \in I}
  <2>1. ASSUME NEW k \in I PROVE level[k] \in {u[i] : i \in DOMAIN u}
    <3>1. k <= Len(level)
          BY <1>0
    <3>2. PICK i \in DOMAIN u : at[i] = k
          BY <1>1, <1>2, <3>1 DEF Picks
    <3>. QED BY <1>2, <3>2
  <2>2. ASSUME NEW i \in DOMAIN u PROVE u[i] \in {level[k] : k \in I}
        BY <1>2
  <2>. QED BY <2>1, <2>2 DEF ToSet
<1>5. ASSUME Tables(level) PROVE Tables(u)
  <2>1. ASSUME NEW i \in DOMAIN u, NEW j \in DOMAIN u, i < j PROVE Apart(u[i], u[j])
    <3>1. at[i] < at[j]
          BY <1>1, <1>2, <2>1 DEF Picks
    <3>. QED BY <1>2, <1>5, <3>1 DEF Tables
  <2>. QED BY <1>3, <2>1 DEF Tables, Runs
<1>. QED BY <1>3, <1>4, <1>5 DEF u

LEMMA WithoutIs ==
    ASSUME NEW level, Runs(level), NEW gone
    PROVE  /\ Runs(Without(level, gone))
           /\ ToSet(Without(level, gone)) = ToSet(level) \ ToSet(gone)
           /\ Tables(level) => Tables(Without(level, gone))
<1>. DEFINE I == {i \in DOMAIN level : level[i] \notin ToSet(gone)}
            u == Without(level, gone)
<1>1. u = P!Selected(level, I) /\ I \in SUBSET (DOMAIN level)
      BY DEF Without
<1>2. {level[i] : i \in I} = ToSet(level) \ ToSet(gone)
      BY DEF ToSet
<1>. HIDE DEF I, u
<1>3. Runs(u) /\ ToSet(u) = {level[i] : i \in I} /\ (Tables(level) => Tables(u))
      BY <1>1, SelectedRuns
<1>. QED BY <1>2, <1>3 DEF u

\* The first and the last key of a table bound the others.
LEMMA KeyRange ==
    ASSUME NEW t \in Rows, t # <<>>, InOrder(t)
    PROVE  /\ 1 \in DOMAIN t /\ Len(t) \in DOMAIN t
           /\ minKeyOf(t) \in Nat /\ maxKeyOf(t) \in Nat
           /\ minKeyOf(t) \in Keys /\ maxKeyOf(t) \in Keys
           /\ \A a \in DOMAIN t : /\ t[a].key \in Nat
                                  /\ minKeyOf(t) <= t[a].key /\ t[a].key <= maxKeyOf(t)
<1>1. /\ Len(t) \in Nat /\ Len(t) >= 1 /\ DOMAIN t = 1..Len(t) /\ 1 \in DOMAIN t
      /\ Len(t) \in DOMAIN t /\ t[1] \in Record /\ t[Len(t)] \in Record
  <2>1. Len(t) \in Nat /\ DOMAIN t = 1..Len(t) /\ t \in Seq(Record)
        BY DEF Rows
  <2>2. Len(t) # 0
        BY <2>1, EmptySeq
  <2>3. 1 \in DOMAIN t /\ Len(t) \in DOMAIN t /\ Len(t) >= 1
        BY <2>1, <2>2
  <2>4. t[1] \in Record /\ t[Len(t)] \in Record
        BY <2>1, <2>3
  <2>. QED BY <2>1, <2>3, <2>4
<1>2. minKeyOf(t) = t[1].key /\ maxKeyOf(t) = t[Len(t)].key
      BY DEF minKeyOf, maxKeyOf
<1>3. /\ minKeyOf(t) \in Nat /\ maxKeyOf(t) \in Nat
      /\ minKeyOf(t) \in Keys /\ maxKeyOf(t) \in Keys
      BY <1>1, <1>2, RecordTypes
<1>4. ASSUME NEW a \in DOMAIN t
      PROVE  t[a].key \in Nat /\ minKeyOf(t) <= t[a].key /\ t[a].key <= maxKeyOf(t)
  <2>1. 1 <= a /\ a <= Len(t)
        BY <1>1
  <2>2. t[1].key <= t[a].key /\ t[a].key \in Nat
        BY <1>1, <2>1, OrderMeans
  <2>3. t[a].key <= t[Len(t)].key
        BY <1>1, <2>1, OrderMeans
  <2>. QED BY <1>2, <2>2, <2>3
<1>. QED BY <1>1, <1>3, <1>4

LEMMA ApartMeans ==
    ASSUME NEW s \in Rows, s # <<>>, InOrder(s), NEW t \in Rows, t # <<>>, InOrder(t)
    PROVE  Apart(s, t) <=> maxKeyOf(s) < minKeyOf(t)
<1>1. /\ 1 \in DOMAIN t /\ Len(s) \in DOMAIN s /\ maxKeyOf(s) \in Nat /\ minKeyOf(t) \in Nat
      /\ \A a \in DOMAIN s : s[a].key \in Nat /\ s[a].key <= maxKeyOf(s)
      /\ \A a \in DOMAIN t : t[a].key \in Nat /\ minKeyOf(t) <= t[a].key
      BY KeyRange
<1>2. maxKeyOf(s) = s[Len(s)].key /\ minKeyOf(t) = t[1].key
      BY DEF minKeyOf, maxKeyOf
<1>3. ASSUME Apart(s, t) PROVE maxKeyOf(s) < minKeyOf(t)
      BY <1>1, <1>2, <1>3 DEF Apart
<1>4. ASSUME maxKeyOf(s) < minKeyOf(t), NEW a \in DOMAIN s, NEW b \in DOMAIN t
      PROVE  s[a].key < t[b].key
  <2>1. s[a].key \in Nat /\ s[a].key <= maxKeyOf(s) /\ t[b].key \in Nat /\ minKeyOf(t) <= t[b].key
        BY <1>1
  <2>. QED BY <1>1, <1>4, <2>1
<1>. QED BY <1>3, <1>4 DEF Apart

Inserted(u, S, s, p, e) ==
    /\ u \in Seq(S) /\ Len(u) = Len(s) + 1 /\ u[p] = e
    /\ \A i \in 1..(p - 1) : u[i] = s[i]
    /\ \A i \in (p + 1)..(Len(s) + 1) : u[i] = s[i - 1]

LEMMA InsertedAt ==
    ASSUME NEW S, NEW s \in Seq(S), NEW p \in 1..(Len(s) + 1), NEW e \in S
    PROVE  Inserted(InsertAt(s, p, e), S, s, p, e)
<1>. DEFINE L == Len(s)
            a == SubSeq(s, 1, p - 1)
            b == SubSeq(s, p, L)
            ae == a \o <<e>>
            u == ae \o b
<1>0. L \in Nat /\ p \in Nat /\ 1 <= p /\ p <= L + 1
      OBVIOUS
<1>1. a \in Seq(S) /\ Len(a) = p - 1 /\ \A i \in 1..(p - 1) : a[i] = s[i]
  <2>1. CASE p = 1
        BY <1>0, <2>1
  <2>2. CASE p # 1
        BY <1>0, <2>2, SubSeqProperties
  <2>. QED BY <2>1, <2>2
<1>2. b \in Seq(S) /\ Len(b) = L - p + 1 /\ \A i \in 1..(L - p + 1) : b[i] = s[p + i - 1]
  <2>1. CASE p = L + 1
        BY <1>0, <2>1
  <2>2. CASE p # L + 1
        BY <1>0, <2>2, SubSeqProperties
  <2>. QED BY <2>1, <2>2
<1>. HIDE DEF a, b
<1>3. ae \in Seq(S) /\ Len(ae) = p /\ ae[p] = e /\ \A i \in 1..(p - 1) : ae[i] = s[i]
  <2>1. ae \in Seq(S) /\ Len(ae) = p
        BY <1>0, <1>1
  <2>2. ae[p] = e
        BY <1>0, <1>1
  <2>3. \A i \in 1..(p - 1) : ae[i] = a[i]
        BY <1>0, <1>1
  <2>. QED BY <1>1, <2>1, <2>2, <2>3
<1>. HIDE DEF ae
<1>4. u \in Seq(S) /\ Len(u) = L + 1
      BY <1>0, <1>2, <1>3
<1>5. \A i \in 1..p : u[i] = ae[i]
      BY <1>0, <1>2, <1>3, SMTT(30)
<1>6. \A i \in (p + 1)..(L + 1) : u[i] = b[i - p]
      BY <1>0, <1>2, <1>3, SMTT(30)
<1>. HIDE DEF u
<1>7. ASSUME NEW i \in (p + 1)..(L + 1) PROVE u[i] = s[i - 1]
  <2>1. i - p \in 1..(L - p + 1) /\ p + (i - p) - 1 = i - 1
        BY <1>0
  <2>2. b[i - p] = s[p + (i - p) - 1]
        BY <1>2, <2>1
  <2>. QED BY <1>6, <2>1, <2>2
<1>8. u[p] = e /\ \A i \in 1..(p - 1) : u[i] = s[i]
  <2>1. p \in 1..p /\ \A i \in 1..(p - 1) : i \in 1..p
        BY <1>0
  <2>. QED BY <1>3, <1>5, <2>1
<1>9. InsertAt(s, p, e) = u
      BY DEF InsertAt, u, ae, a, b
<1>. QED BY <1>4, <1>7, <1>8, <1>9 DEF Inserted

\* Where the positions of an insertion come from.
LEMMA InsertedFrom ==
    ASSUME NEW S, NEW s \in Seq(S), NEW p \in 1..(Len(s) + 1), NEW e \in S,
           NEW u, Inserted(u, S, s, p, e)
    PROVE  /\ DOMAIN u = 1..(Len(s) + 1)
           /\ \A i \in DOMAIN u :
                  \/ i < p /\ i \in DOMAIN s /\ u[i] = s[i]
                  \/ i = p /\ u[i] = e
                  \/ i > p /\ i - 1 \in DOMAIN s /\ i - 1 >= p /\ u[i] = s[i - 1]
           /\ ToSet(u) = ToSet(s) \cup {e}
<1>0. /\ Len(s) \in Nat /\ DOMAIN s = 1..Len(s) /\ p \in Nat /\ 1 <= p /\ p <= Len(s) + 1
      /\ DOMAIN u = 1..(Len(s) + 1)
      BY DEF Inserted
<1>1. ASSUME NEW i \in DOMAIN u
      PROVE  \/ i < p /\ i \in DOMAIN s /\ u[i] = s[i]
             \/ i = p /\ u[i] = e
             \/ i > p /\ i - 1 \in DOMAIN s /\ i - 1 >= p /\ u[i] = s[i - 1]
  <2>0. i \in Nat
        BY <1>0
  <2>1. CASE i < p
    <3>1. i \in 1..(p - 1) /\ i \in DOMAIN s
          BY <1>0, <2>1
    <3>. QED BY <2>1, <3>1 DEF Inserted
  <2>2. CASE i = p
        BY <2>2 DEF Inserted
  <2>3. CASE i > p
    <3>1. i \in (p + 1)..(Len(s) + 1) /\ i - 1 \in DOMAIN s /\ i - 1 >= p
          BY <1>0, <2>3
    <3>. QED BY <2>3, <3>1 DEF Inserted
  <2>. QED BY <1>0, <2>0, <2>1, <2>2, <2>3
<1>2. ASSUME NEW k \in DOMAIN s PROVE \E i \in DOMAIN u : u[i] = s[k]
  <2>1. CASE k < p
    <3>1. k \in 1..(p - 1) /\ k \in DOMAIN u
          BY <1>0, <2>1
    <3>. QED BY <3>1 DEF Inserted
  <2>2. CASE ~(k < p)
    <3>1. k + 1 \in (p + 1)..(Len(s) + 1) /\ k + 1 \in DOMAIN u /\ (k + 1) - 1 = k
          BY <1>0, <2>2
    <3>2. u[k + 1] = s[(k + 1) - 1]
          BY <3>1 DEF Inserted
    <3>. QED BY <3>1, <3>2
  <2>. QED BY <2>1, <2>2
<1>3. p \in DOMAIN u /\ u[p] = e
      BY <1>0 DEF Inserted
<1>4. ToSet(u) = ToSet(s) \cup {e}
  <2>1. ASSUME NEW x \in ToSet(u) PROVE x \in ToSet(s) \cup {e}
        BY <1>1 DEF ToSet
  <2>2. ASSUME NEW x \in ToSet(s) PROVE x \in ToSet(u)
        BY <1>2 DEF ToSet
  <2>3. e \in ToSet(u)
        BY <1>3 DEF ToSet
  <2>. QED BY <2>1, <2>2, <2>3
<1>. QED BY <1>0, <1>1, <1>4

\* addTable puts a table that overlaps no other where the level stays in order.
LEMMA InsertKeeps ==
    ASSUME NEW level, Tables(level), NEW t \in Rows, t # <<>>, InOrder(t),
           \A i \in DOMAIN level : Apart(level[i], t) \/ Apart(t, level[i])
    PROVE  /\ Tables(InsertTable(level, t))
           /\ ToSet(InsertTable(level, t)) = ToSet(level) \cup {t}
<1>. DEFINE L == Len(level)
            P0 == {i \in 1..(L + 1) : i <= L => minKeyOf(level[i]) >= minKeyOf(t)}
            p == Min(P0)
            u == InsertTable(level, t)
<1>0. level \in Seq(Rows) /\ L \in Nat /\ DOMAIN level = 1..L
      BY DEF Tables
<1>1. p \in P0 /\ \A y \in P0 : p <= y
  <2>1. L + 1 \in P0 /\ P0 \in SUBSET Nat
        BY <1>0
  <2>. HIDE DEF P0
  <2>. QED BY <2>1, MinNat
<1>2. u = InsertAt(level, p, t)
      BY DEF InsertTable
<1>3. p \in 1..(L + 1) /\ p \in Nat
      BY <1>0, <1>1
<1>. HIDE DEF u, p
<1>4. Inserted(u, Rows, level, p, t)
      BY <1>0, <1>2, <1>3, InsertedAt
<1>5. \A i \in DOMAIN level : level[i] \in Rows /\ level[i] # <<>> /\ InOrder(level[i])
      BY <1>0 DEF Tables
<1>51. \A i \in DOMAIN level : /\ minKeyOf(level[i]) \in Nat /\ maxKeyOf(level[i]) \in Nat
                               /\ minKeyOf(level[i]) <= maxKeyOf(level[i])
  <2>1. SUFFICES ASSUME NEW i \in DOMAIN level
                 PROVE  /\ minKeyOf(level[i]) \in Nat /\ maxKeyOf(level[i]) \in Nat
                        /\ minKeyOf(level[i]) <= maxKeyOf(level[i])
        OBVIOUS
  <2>2. level[i] \in Rows /\ level[i] # <<>> /\ InOrder(level[i])
        BY <1>5
  <2>3. /\ 1 \in DOMAIN level[i] /\ minKeyOf(level[i]) \in Nat /\ maxKeyOf(level[i]) \in Nat
        /\ \A a \in DOMAIN level[i] : /\ level[i][a].key \in Nat
                                      /\ minKeyOf(level[i]) <= level[i][a].key
                                      /\ level[i][a].key <= maxKeyOf(level[i])
        BY <2>2, KeyRange
  <2>. QED BY <2>3
<1>52. minKeyOf(t) \in Nat /\ maxKeyOf(t) \in Nat /\ minKeyOf(t) <= maxKeyOf(t)
  <2>1. /\ 1 \in DOMAIN t /\ minKeyOf(t) \in Nat /\ maxKeyOf(t) \in Nat
        /\ \A a \in DOMAIN t : t[a].key \in Nat /\ minKeyOf(t) <= t[a].key /\ t[a].key <= maxKeyOf(t)
        BY KeyRange
  <2>. QED BY <2>1
<1>6. ASSUME NEW i \in DOMAIN level, i < p PROVE Apart(level[i], t)
  <2>1. ~(minKeyOf(level[i]) >= minKeyOf(t))
    <3>1. i \in Nat /\ i \in 1..(L + 1) /\ i <= L /\ ~(p <= i)
          BY <1>0, <1>3, <1>6
    <3>. QED BY <1>1, <3>1
  <2>2. ~(maxKeyOf(t) < minKeyOf(level[i]))
        BY <1>51, <1>52, <2>1
  <2>3. ~Apart(t, level[i])
        BY <1>5, <2>2, ApartMeans
  <2>. QED BY <2>3
<1>7. ASSUME NEW i \in DOMAIN level, i >= p PROVE Apart(t, level[i])
  <2>1. p \in DOMAIN level /\ minKeyOf(level[p]) >= minKeyOf(t)
    <3>1. p \in DOMAIN level /\ p <= L
          BY <1>0, <1>3, <1>7
    <3>. QED BY <1>1, <3>1
  <2>2. minKeyOf(level[i]) >= minKeyOf(t)
    <3>1. CASE i = p
          BY <2>1, <3>1
    <3>2. CASE i # p
      <4>1. p < i
            BY <1>0, <1>3, <1>7, <3>2
      <4>2. Apart(level[p], level[i])
            BY <2>1, <4>1 DEF Tables
      <4>3. maxKeyOf(level[p]) < minKeyOf(level[i])
            BY <1>5, <2>1, <4>2, ApartMeans
      <4>. QED BY <1>51, <1>52, <2>1, <4>3
    <3>. QED BY <3>1, <3>2
  <2>3. ~(maxKeyOf(level[i]) < minKeyOf(t))
        BY <1>51, <1>52, <2>2
  <2>4. ~Apart(level[i], t)
        BY <1>5, <2>3, ApartMeans
  <2>. QED BY <2>4
<1>8. /\ DOMAIN u = 1..(L + 1) /\ ToSet(u) = ToSet(level) \cup {t}
      /\ \A i \in DOMAIN u :
             \/ i < p /\ i \in DOMAIN level /\ u[i] = level[i]
             \/ i = p /\ u[i] = t
             \/ i > p /\ i - 1 \in DOMAIN level /\ i - 1 >= p /\ u[i] = level[i - 1]
      BY <1>0, <1>3, <1>4, InsertedFrom
<1>9. ASSUME NEW i \in DOMAIN u PROVE u[i] # <<>> /\ InOrder(u[i])
      BY <1>5, <1>8
<1>10. ASSUME NEW i \in DOMAIN u, NEW j \in DOMAIN u, i < j PROVE Apart(u[i], u[j])
  <2>0. i \in Nat /\ j \in Nat
        BY <1>0, <1>8
  <2>1. CASE i < p /\ i \in DOMAIN level /\ u[i] = level[i]
    <3>1. CASE j < p /\ j \in DOMAIN level /\ u[j] = level[j]
          BY <1>10, <2>1, <3>1 DEF Tables
    <3>2. CASE j = p /\ u[j] = t
          BY <1>6, <2>1, <3>2
    <3>3. CASE j > p /\ j - 1 \in DOMAIN level /\ j - 1 >= p /\ u[j] = level[j - 1]
      <4>1. i < j - 1
            BY <1>3, <2>0, <2>1, <3>3
      <4>. QED BY <2>1, <3>3, <4>1 DEF Tables
    <3>. QED BY <1>8, <3>1, <3>2, <3>3
  <2>2. CASE i = p /\ u[i] = t
    <3>1. j > p
          BY <1>10, <2>2
    <3>2. j - 1 \in DOMAIN level /\ j - 1 >= p /\ u[j] = level[j - 1]
          BY <1>3, <1>8, <2>0, <3>1
    <3>. QED BY <1>7, <2>2, <3>2
  <2>3. CASE i > p /\ i - 1 \in DOMAIN level /\ i - 1 >= p /\ u[i] = level[i - 1]
    <3>1. j > p /\ i - 1 < j - 1
          BY <1>3, <1>10, <2>0, <2>3
    <3>2. j - 1 \in DOMAIN level /\ u[j] = level[j - 1]
          BY <1>3, <1>8, <2>0, <3>1
    <3>. QED BY <2>3, <3>1, <3>2 DEF Tables
  <2>. QED BY <1>8, <2>1, <2>2, <2>3
<1>11. u \in Seq(Rows)
       BY <1>4 DEF Inserted
<1>. QED BY <1>8, <1>9, <1>10, <1>11 DEF Tables, u

\* A record is put into the memtable where its order asks for it.
LEMMA MemInsert ==
    ASSUME NEW s \in Rows, InOrder(s), NEW r \in Record
    PROVE  LET p == Min({i \in 1..(Len(s) + 1) : i <= Len(s) => KeyLess(r, s[i])})
           IN  /\ InsertAt(s, p, r) \in Rows /\ InOrder(InsertAt(s, p, r))
               /\ ToSet(InsertAt(s, p, r)) = ToSet(s) \cup {r}
<1>. DEFINE L == Len(s)
            P0 == {i \in 1..(L + 1) : i <= L => KeyLess(r, s[i])}
            p == Min(P0)
            u == InsertAt(s, p, r)
<1>0. s \in Seq(Record) /\ L \in Nat /\ DOMAIN s = 1..L /\ \A i \in DOMAIN s : s[i] \in Record
      BY DEF Rows
<1>1. p \in P0 /\ \A y \in P0 : p <= y
  <2>1. L + 1 \in P0 /\ P0 \in SUBSET Nat
        BY <1>0
  <2>. HIDE DEF P0
  <2>. QED BY <2>1, MinNat
<1>2. p \in 1..(L + 1) /\ p \in Nat
      BY <1>0, <1>1
<1>3. \A x, y : KeyLess(x, y) <=> P!Before(x, y)
      BY DEF KeyLess, P!Before
<1>. HIDE DEF p
<1>4. Inserted(u, Record, s, p, r)
      BY <1>0, <1>2, InsertedAt
<1>. HIDE DEF u
<1>5. ASSUME NEW i \in DOMAIN s, i < p PROVE ~P!Before(r, s[i])
  <2>1. i \in Nat /\ i \in 1..(L + 1) /\ i <= L /\ ~(p <= i)
        BY <1>0, <1>2, <1>5
  <2>2. ~KeyLess(r, s[i])
        BY <1>1, <2>1
  <2>. QED BY <1>3, <2>2
<1>6. ASSUME NEW i \in DOMAIN s, i >= p PROVE ~P!Before(s[i], r)
  <2>1. p \in DOMAIN s /\ p <= L
        BY <1>0, <1>2, <1>6
  <2>2. P!Before(r, s[p])
        BY <1>1, <1>3, <2>1
  <2>3. ~P!Before(s[p], r)
        BY <1>0, <2>1, <2>2, BeforeTotal
  <2>4. ~P!Before(s[i], s[p])
    <3>1. CASE i = p
          BY <1>0, <3>1, BeforeTotal
    <3>2. CASE i # p
      <4>1. p < i
            BY <1>0, <1>2, <1>6, <3>2
      <4>. QED BY <2>1, <4>1 DEF InOrder
    <3>. QED BY <3>1, <3>2
  <2>. QED BY <1>0, <2>1, <2>3, <2>4, BeforeChain
<1>7. /\ DOMAIN u = 1..(L + 1) /\ ToSet(u) = ToSet(s) \cup {r}
      /\ \A i \in DOMAIN u :
             \/ i < p /\ i \in DOMAIN s /\ u[i] = s[i]
             \/ i = p /\ u[i] = r
             \/ i > p /\ i - 1 \in DOMAIN s /\ i - 1 >= p /\ u[i] = s[i - 1]
      BY <1>0, <1>2, <1>4, InsertedFrom
<1>8. ASSUME NEW i \in DOMAIN u, NEW j \in DOMAIN u, i < j PROVE ~P!Before(u[j], u[i])
  <2>0. i \in Nat /\ j \in Nat
        BY <1>0, <1>7
  <2>1. CASE i < p /\ i \in DOMAIN s /\ u[i] = s[i]
    <3>1. CASE j < p /\ j \in DOMAIN s /\ u[j] = s[j]
          BY <1>8, <2>1, <3>1 DEF InOrder
    <3>2. CASE j = p /\ u[j] = r
          BY <1>5, <2>1, <3>2
    <3>3. CASE j > p /\ j - 1 \in DOMAIN s /\ j - 1 >= p /\ u[j] = s[j - 1]
      <4>1. i < j - 1
            BY <1>2, <2>0, <2>1, <3>3
      <4>. QED BY <2>1, <3>3, <4>1 DEF InOrder
    <3>. QED BY <1>7, <3>1, <3>2, <3>3
  <2>2. CASE i = p /\ u[i] = r
    <3>1. j > p
          BY <1>8, <2>2
    <3>2. j - 1 \in DOMAIN s /\ j - 1 >= p /\ u[j] = s[j - 1]
          BY <1>2, <1>7, <2>0, <3>1
    <3>. QED BY <1>6, <2>2, <3>2
  <2>3. CASE i > p /\ i - 1 \in DOMAIN s /\ i - 1 >= p /\ u[i] = s[i - 1]
    <3>1. j > p /\ i - 1 < j - 1
          BY <1>2, <1>8, <2>0, <2>3
    <3>2. j - 1 \in DOMAIN s /\ u[j] = s[j - 1]
          BY <1>2, <1>7, <2>0, <3>1
    <3>. QED BY <2>3, <3>1, <3>2 DEF InOrder
  <2>. QED BY <1>7, <2>1, <2>2, <2>3
<1>9. u \in Rows
      BY <1>4 DEF Inserted, Rows
<1>10. u \in Rows /\ InOrder(u) /\ ToSet(u) = ToSet(s) \cup {r}
       BY <1>7, <1>8, <1>9 DEF InOrder
<1>. QED BY <1>10 DEF u, p

-----------------------------------------------------------------------------
(***************************************************************************)
(* The invariant.                                                          *)
(***************************************************************************)
LevelsOK(L) ==
    /\ L \in [0..MaxLevel -> Seq(Rows)]
    /\ Runs(L[0])
    /\ \A l \in 1..MaxLevel : Tables(L[l])

\* The records of all tables, and of the memtable.
Held(L) == UNION {Contents(L[l]) : l \in 0..MaxLevel}
Stored == ToSet(mem) \cup Held(levels)

\* The tables a job has chosen, and their records.
Chosen(j) == ToSet(j.tables) \cup ToSet(j.below)
InputsOf(j) == UNION {ToSet(t) : t \in Chosen(j)}

(***************************************************************************)
(* The tables of a job are in the levels, and each table that stays in the *)
(* target level is on one side of all of them: the output, whose slices    *)
(* may span several of the chosen tables, has room between its neighbours. *)
(***************************************************************************)
JobOK(j, L) ==
    /\ j.level \in 0..MaxLevel /\ j.back # "compact"
    /\ Runs(j.tables) /\ Runs(j.below)
    /\ ToSet(j.tables) \subseteq ToSet(L[j.level])
    /\ ToSet(j.below) \subseteq ToSet(L[Target(j.level)])
    /\ \A u \in ToSet(L[Target(j.level)]) \ ToSet(j.below) :
           (Target(j.level) = j.level => u \notin ToSet(j.tables)) =>
               \/ \A t \in Chosen(j) : Apart(u, t)
               \/ \A t \in Chosen(j) : Apart(t, u)

CompactionInv ==
    /\ mem \in Rows /\ InOrder(mem)
    /\ LevelsOK(levels)
    /\ nextSeq \in Nat \ {0}
    /\ Unique(Stored)
    /\ \A r \in Stored : r.seq < nextSeq
    /\ pc = "compact" => JobOK(job, levels)

LEMMA TargetIs ==
    ASSUME NEW l \in 0..MaxLevel
    PROVE  /\ Target(l) \in 1..MaxLevel
           /\ l < MaxLevel => Target(l) = l + 1
           /\ l = MaxLevel => Target(l) = l
<1>. DEFINE T == {l + 1, MaxLevel}
<1>0. MaxLevel \in Nat /\ MaxLevel >= 1 /\ l \in Nat /\ l <= MaxLevel
      BY LevelAssumption
<1>1. T \in SUBSET Nat /\ T # {}
      BY <1>0
<1>. HIDE DEF T
<1>2. Min(T) \in T /\ \A y \in T : Min(T) <= y
      BY <1>1, MinNat
<1>3. Target(l) = Min(T)
      BY DEF Target, T
<1>4. Target(l) \in {l + 1, MaxLevel} /\ Target(l) <= l + 1 /\ Target(l) <= MaxLevel
      BY <1>2, <1>3 DEF T
<1>. QED BY <1>0, <1>4

LEMMA LevelsAreRuns ==
    ASSUME NEW L, LevelsOK(L), NEW l \in 0..MaxLevel
    PROVE  /\ Runs(L[l])
           /\ l # 0 => Tables(L[l])
           /\ \A t \in ToSet(L[l]) : t \in Rows /\ t # <<>> /\ InOrder(t)
<1>1. l # 0 => l \in 1..MaxLevel
      BY LevelAssumption
<1>2. Runs(L[l]) /\ (l # 0 => Tables(L[l]))
      BY <1>1, TablesAreRuns DEF LevelsOK
<1>3. ASSUME NEW t \in ToSet(L[l]) PROVE t \in Rows /\ t # <<>> /\ InOrder(t)
  <2>1. PICK i \in DOMAIN L[l] : t = L[l][i]
        BY DEF ToSet
  <2>. QED BY <1>2, <2>1 DEF Runs
<1>. QED BY <1>2, <1>3

LEMMA ContentsIs ==
    ASSUME NEW s
    PROVE  Contents(s) = UNION {ToSet(t) : t \in ToSet(s)}
BY DEF Contents, ToSet

\* What is written by smaller keys throughout is written by the ends.
LEMMA ApartAlways ==
    ASSUME NEW s \in Rows, s # <<>>, InOrder(s), NEW t \in Rows, t # <<>>, InOrder(t)
    PROVE  /\ minKeyOf(s) \in Nat /\ maxKeyOf(s) \in Nat /\ minKeyOf(s) <= maxKeyOf(s)
           /\ minKeyOf(t) \in Nat /\ maxKeyOf(t) \in Nat /\ minKeyOf(t) <= maxKeyOf(t)
           /\ Apart(s, t) <=> maxKeyOf(s) < minKeyOf(t)
           /\ Apart(t, s) <=> maxKeyOf(t) < minKeyOf(s)
<1>1. /\ 1 \in DOMAIN s /\ minKeyOf(s) \in Nat /\ maxKeyOf(s) \in Nat
      /\ \A a \in DOMAIN s : s[a].key \in Nat /\ minKeyOf(s) <= s[a].key /\ s[a].key <= maxKeyOf(s)
      BY KeyRange
<1>2. /\ 1 \in DOMAIN t /\ minKeyOf(t) \in Nat /\ maxKeyOf(t) \in Nat
      /\ \A a \in DOMAIN t : t[a].key \in Nat /\ minKeyOf(t) <= t[a].key /\ t[a].key <= maxKeyOf(t)
      BY KeyRange
<1>3. minKeyOf(s) <= maxKeyOf(s)
      BY <1>1
<1>4. minKeyOf(t) <= maxKeyOf(t)
      BY <1>2
<1>5. (Apart(s, t) <=> maxKeyOf(s) < minKeyOf(t)) /\ (Apart(t, s) <=> maxKeyOf(t) < minKeyOf(s))
      BY ApartMeans
<1>. QED BY <1>1, <1>2, <1>3, <1>4, <1>5

\* The combined range of a job's tables.
LEMMA CombinedRange ==
    ASSUME NEW tables, Runs(tables), tables # <<>>
    PROVE  LET lo == Min({minKeyOf(tables[i]) : i \in DOMAIN tables})
               hi == Max({maxKeyOf(tables[i]) : i \in DOMAIN tables})
           IN  /\ lo \in Nat /\ hi \in Nat
               /\ \A t \in ToSet(tables) : lo <= minKeyOf(t) /\ maxKeyOf(t) <= hi
<1>. DEFINE A == {minKeyOf(tables[i]) : i \in DOMAIN tables}
            B == {maxKeyOf(tables[i]) : i \in DOMAIN tables}
<1>0. \A i \in DOMAIN tables : tables[i] \in Rows /\ tables[i] # <<>> /\ InOrder(tables[i])
      BY DEF Runs
<1>1. \A i \in DOMAIN tables : /\ minKeyOf(tables[i]) \in Nat /\ maxKeyOf(tables[i]) \in Nat
                               /\ maxKeyOf(tables[i]) \in Keys
  <2>1. SUFFICES ASSUME NEW i \in DOMAIN tables
                 PROVE  /\ minKeyOf(tables[i]) \in Nat /\ maxKeyOf(tables[i]) \in Nat
                        /\ maxKeyOf(tables[i]) \in Keys
        OBVIOUS
  <2>. QED BY <1>0, KeyRange
<1>2. 1 \in DOMAIN tables
  <2>1. tables \in Seq(Rows) /\ Len(tables) \in Nat /\ DOMAIN tables = 1..Len(tables)
        BY DEF Runs
  <2>2. Len(tables) # 0
        BY <2>1, EmptySeq
  <2>. QED BY <2>1, <2>2
<1>3. A \in SUBSET Nat /\ A # {} /\ B \in SUBSET Nat /\ B # {} /\ B \subseteq Keys
      BY <1>1, <1>2
<1>4. IsFiniteSet(B)
      BY <1>3, FiniteKeysAssumption, FS_Subset
<1>5. \A t \in ToSet(tables) : minKeyOf(t) \in A /\ maxKeyOf(t) \in B
      BY DEF ToSet
<1>. HIDE DEF A, B
<1>6. Min(A) \in A /\ \A y \in A : Min(A) <= y
      BY <1>3, MinNat
<1>7. Max(B) \in B /\ \A y \in B : y <= Max(B)
      BY <1>3, <1>4, MaxFinite
<1>8. /\ Min(A) \in Nat /\ Max(B) \in Nat
      /\ \A t \in ToSet(tables) : Min(A) <= minKeyOf(t) /\ maxKeyOf(t) <= Max(B)
      BY <1>3, <1>5, <1>6, <1>7
<1>. QED BY <1>8 DEF A, B

LEMMA OverlappingIs ==
    ASSUME NEW l, Runs(levels[l]), NEW lo, NEW hi
    PROVE  /\ Runs(Overlapping(l, lo, hi))
           /\ ToSet(Overlapping(l, lo, hi))
                  = {t \in ToSet(levels[l]) : lo <= maxKeyOf(t) /\ minKeyOf(t) <= hi}
<1>. DEFINE I == {i \in DOMAIN levels[l] :
                      lo <= maxKeyOf(levels[l][i]) /\ minKeyOf(levels[l][i]) <= hi}
            u == Overlapping(l, lo, hi)
<1>1. u = P!Selected(levels[l], I) /\ I \in SUBSET (DOMAIN levels[l])
      BY DEF Overlapping
<1>2. {levels[l][i] : i \in I} = {t \in ToSet(levels[l]) : lo <= maxKeyOf(t) /\ minKeyOf(t) <= hi}
      BY DEF ToSet
<1>. HIDE DEF I, u
<1>3. Runs(u) /\ ToSet(u) = {levels[l][i] : i \in I}
      BY <1>1, SelectedRuns
<1>. QED BY <1>2, <1>3 DEF u

LEMMA PickedIs ==
    ASSUME NEW l, levels[l] \in Seq(Rows), levels[l] # <<>>
    PROVE  pickTable(l) \in DOMAIN levels[l]
<1>. DEFINE after == {i \in DOMAIN levels[l] : minKeyOf(levels[l][i]) > cursors[l]}
<1>1. DOMAIN levels[l] = 1..Len(levels[l]) /\ Len(levels[l]) \in Nat /\ Len(levels[l]) # 0
      BY EmptySeq
<1>2. 1 \in DOMAIN levels[l] /\ after \in SUBSET Nat /\ after \subseteq DOMAIN levels[l]
      BY <1>1
<1>3. pickTable(l) = IF cursors[l] = NoCursor \/ after = {} THEN 1 ELSE Min(after)
      BY DEF pickTable
<1>. HIDE DEF after
<1>4. after # {} => Min(after) \in after
      BY <1>2, MinNat
<1>. QED BY <1>2, <1>3, <1>4

\* What compactLevel chooses is a job as the invariant wants it.
LEMMA SelectJob ==
    ASSUME LevelsOK(levels), NEW l \in 0..MaxLevel, compactLevel(l), pc # "compact"
    PROVE  JobOK(job', levels)
<1>. DEFINE tables == IF l = 0 THEN levels[0] ELSE <<levels[l][pickTable(l)]>>
            lo == Min({minKeyOf(tables[i]) : i \in DOMAIN tables})
            hi == Max({maxKeyOf(tables[i]) : i \in DOMAIN tables})
            below == IF l = MaxLevel THEN <<>> ELSE Overlapping(l + 1, lo, hi)
            target == Target(l)
<1>0. MaxLevel \in Nat /\ MaxLevel >= 1 /\ l \in Nat /\ l <= MaxLevel
      BY LevelAssumption
<1>1. /\ job' = [level |-> l, tables |-> tables, back |-> pc, below |-> below]
      /\ levels[l] # <<>>
      BY DEF compactLevel
<1>2. /\ job'.level = l /\ job'.tables = tables /\ job'.back = pc /\ job'.below = below
      BY <1>1
<1>3. Runs(levels[l]) /\ (l # 0 => Tables(levels[l]))
      BY LevelsAreRuns
<1>4. l # 0 => pickTable(l) \in DOMAIN levels[l]
      BY <1>1, <1>3, PickedIs DEF Runs
<1>5. Runs(tables) /\ tables # <<>> /\ ToSet(tables) \subseteq ToSet(levels[l])
  <2>1. CASE l = 0
        BY <1>1, <1>3, <2>1
  <2>2. CASE l # 0
    <3>. DEFINE t == levels[l][pickTable(l)]
    <3>1. t \in Rows /\ t # <<>> /\ InOrder(t) /\ t \in ToSet(levels[l])
          BY <1>3, <1>4, <2>2 DEF Runs, ToSet
    <3>2. tables = <<t>>
          BY <2>2
    <3>. HIDE DEF t
    <3>3. <<t>> \in Seq(Rows) /\ DOMAIN <<t>> = {1} /\ <<t>>[1] = t /\ <<t>> # <<>>
          BY <3>1
    <3>. HIDE DEF tables
    <3>4. ToSet(tables) = {t}
          BY <3>2, <3>3 DEF ToSet
    <3>. QED BY <3>1, <3>2, <3>3, <3>4 DEF Runs
  <2>. QED BY <2>1, <2>2
<1>6. /\ lo \in Nat /\ hi \in Nat
      /\ \A t \in ToSet(tables) : lo <= minKeyOf(t) /\ maxKeyOf(t) <= hi
  <2>. HIDE DEF tables
  <2>. QED BY <1>5, CombinedRange
<1>. HIDE DEF lo, hi
<1>61. \A t \in ToSet(tables) : t \in Rows /\ t # <<>> /\ InOrder(t)
  <2>. HIDE DEF tables
  <2>. QED BY <1>5, LevelsAreRuns
<1>7. /\ target \in 1..MaxLevel /\ target \in 0..MaxLevel
      /\ l < MaxLevel => target = l + 1 /\ target # l
      /\ l = MaxLevel => target = l /\ l # 0
  <2>1. Target(l) \in 1..MaxLevel /\ (l < MaxLevel => Target(l) = l + 1) /\ (l = MaxLevel => Target(l) = l)
        BY TargetIs
  <2>. HIDE DEF target
  <2>2. target = Target(l)
        BY DEF target
  <2>. QED BY <1>0, <2>1, <2>2
<1>8. /\ Tables(levels[target]) /\ Runs(levels[target])
      /\ \A t \in ToSet(levels[target]) : t \in Rows /\ t # <<>> /\ InOrder(t)
  <2>1. target # 0
        BY <1>7
  <2>. HIDE DEF target
  <2>. QED BY <1>7, <2>1, LevelsAreRuns
<1>81. \A u, t \in ToSet(levels[target]) : u # t => Apart(u, t) \/ Apart(t, u)
  <2>1. SUFFICES ASSUME NEW u \in ToSet(levels[target]), NEW t \in ToSet(levels[target]), u # t
                 PROVE  Apart(u, t) \/ Apart(t, u)
        OBVIOUS
  <2>2. PICK i \in DOMAIN levels[target] : u = levels[target][i]
        BY DEF ToSet
  <2>3. PICK j \in DOMAIN levels[target] : t = levels[target][j]
        BY DEF ToSet
  <2>4. i \in Nat /\ j \in Nat /\ i # j
    <3>1. levels[target] \in Seq(Rows)
          BY <1>8 DEF Runs
    <3>. QED BY <2>1, <2>2, <2>3, <3>1
  <2>5. CASE i < j
        BY <1>8, <2>2, <2>3, <2>5 DEF Tables
  <2>6. CASE j < i
        BY <1>8, <2>2, <2>3, <2>6 DEF Tables
  <2>. QED BY <2>4, <2>5, <2>6
<1>9. CASE l < MaxLevel
  <2>1. target = l + 1 /\ target # l /\ below = Overlapping(target, lo, hi)
        BY <1>0, <1>7, <1>9
  <2>2. Runs(below) /\ ToSet(below) = {t \in ToSet(levels[target]) : lo <= maxKeyOf(t) /\ minKeyOf(t) <= hi}
    <3>. HIDE DEF target, below
    <3>. QED BY <1>8, <2>1, OverlappingIs
  <2>. HIDE DEF tables, below
  <2>3. ASSUME NEW u \in ToSet(levels[target]) \ ToSet(below)
        PROVE  \/ \A t \in Chosen(job') : Apart(u, t)
               \/ \A t \in Chosen(job') : Apart(t, u)
    <3>. HIDE DEF target
    <3>0. u \in Rows /\ u # <<>> /\ InOrder(u) /\ minKeyOf(u) \in Nat /\ maxKeyOf(u) \in Nat
      <4>1. u \in Rows /\ u # <<>> /\ InOrder(u)
            BY <1>8
      <4>. QED BY <4>1, KeyRange
    <3>1. maxKeyOf(u) < lo \/ hi < minKeyOf(u)
          BY <1>6, <2>2, <3>0
    <3>2. ASSUME NEW t \in ToSet(tables)
          PROVE  (maxKeyOf(u) < lo => Apart(u, t)) /\ (hi < minKeyOf(u) => Apart(t, u))
      <4>1. /\ t \in Rows /\ t # <<>> /\ InOrder(t) /\ lo <= minKeyOf(t) /\ maxKeyOf(t) <= hi
            BY <1>6, <1>61
      <4>2. /\ minKeyOf(t) \in Nat /\ maxKeyOf(t) \in Nat
            /\ Apart(u, t) <=> maxKeyOf(u) < minKeyOf(t)
            /\ Apart(t, u) <=> maxKeyOf(t) < minKeyOf(u)
            BY <3>0, <4>1, ApartAlways
      <4>. QED BY <1>6, <3>0, <4>1, <4>2
    <3>3. ASSUME NEW t \in ToSet(below)
          PROVE  (maxKeyOf(u) < lo => Apart(u, t)) /\ (hi < minKeyOf(u) => Apart(t, u))
      <4>1. t \in ToSet(levels[target]) /\ lo <= maxKeyOf(t) /\ minKeyOf(t) <= hi /\ u # t
            BY <2>2, <2>3, <3>3
      <4>2. t \in Rows /\ t # <<>> /\ InOrder(t)
            BY <1>8, <4>1
      <4>3. /\ minKeyOf(t) \in Nat /\ maxKeyOf(t) \in Nat /\ minKeyOf(t) <= maxKeyOf(t)
            /\ minKeyOf(u) <= maxKeyOf(u)
            /\ Apart(u, t) <=> maxKeyOf(u) < minKeyOf(t)
            /\ Apart(t, u) <=> maxKeyOf(t) < minKeyOf(u)
            BY <3>0, <4>2, ApartAlways
      <4>4. Apart(u, t) \/ Apart(t, u)
            BY <1>81, <4>1
      <4>. QED BY <1>6, <3>0, <4>1, <4>3, <4>4
    <3>4. \A t \in Chosen(job') : (maxKeyOf(u) < lo => Apart(u, t)) /\ (hi < minKeyOf(u) => Apart(t, u))
          BY <1>2, <3>2, <3>3 DEF Chosen
    <3>. QED BY <3>1, <3>4
  <2>4. ToSet(below) \subseteq ToSet(levels[target])
        BY <2>2
  <2>5. job'.level \in 0..MaxLevel /\ job'.back # "compact" /\ Target(job'.level) = target
        BY <1>2
  <2>. HIDE DEF target
  <2>. QED BY <1>2, <1>5, <2>2, <2>3, <2>4, <2>5 DEF JobOK
<1>10. CASE l = MaxLevel
  <2>1. target = l /\ l # 0 /\ below = <<>>
        BY <1>7, <1>10
  <2>2. Runs(below) /\ ToSet(below) = {}
    <3>1. <<>> \in Seq(Rows) /\ DOMAIN <<>> = {}
          OBVIOUS
    <3>. HIDE DEF below
    <3>2. Runs(<<>>) /\ ToSet(<<>>) = {}
          BY <3>1 DEF Runs, ToSet
    <3>. QED BY <2>1, <3>2
  <2>3. PICK t \in ToSet(levels[target]) : ToSet(tables) = {t}
    <3>. DEFINE t == levels[l][pickTable(l)]
    <3>1. t \in ToSet(levels[l])
          BY <1>4, <2>1 DEF ToSet
    <3>2. tables = <<t>>
          BY <2>1
    <3>. HIDE DEF t, tables
    <3>3. ToSet(<<t>>) = {t}
          BY DEF ToSet
    <3>. QED BY <2>1, <3>1, <3>2, <3>3
  <2>. HIDE DEF tables, below
  <2>4. Chosen(job') = {t}
        BY <1>2, <2>2, <2>3 DEF Chosen
  <2>5. ASSUME NEW u \in ToSet(levels[target]), u \notin ToSet(tables)
        PROVE  \/ \A s \in Chosen(job') : Apart(u, s)
               \/ \A s \in Chosen(job') : Apart(s, u)
    <3>1. u # t
          BY <2>3, <2>5
    <3>2. Apart(u, t) \/ Apart(t, u)
          BY <1>81, <3>1
    <3>. QED BY <2>4, <3>2
  <2>6. job'.level \in 0..MaxLevel /\ job'.back # "compact" /\ Target(job'.level) = target
        BY <1>2
  <2>. HIDE DEF target
  <2>. QED BY <1>2, <1>5, <2>1, <2>2, <2>5, <2>6 DEF JobOK
<1>. QED BY <1>0, <1>9, <1>10

-----------------------------------------------------------------------------
(***************************************************************************)
(* What a compaction writes, and what the levels are behind it.            *)
(***************************************************************************)
LEMMA ConcatIs ==
    ASSUME NEW S, NEW s \in Seq(S), NEW t \in Seq(S)
    PROVE  s \o t \in Seq(S) /\ ToSet(s \o t) = ToSet(s) \cup ToSet(t)
<1>. DEFINE u == s \o t
<1>1. /\ DOMAIN s = 1..Len(s) /\ Len(s) \in Nat
      /\ DOMAIN t = 1..Len(t) /\ Len(t) \in Nat
      OBVIOUS
<1>2. /\ u \in Seq(S) /\ Len(u) = Len(s) + Len(t)
      /\ \A i \in 1..(Len(s) + Len(t)) : u[i] = IF i <= Len(s) THEN s[i] ELSE t[i - Len(s)]
      BY ConcatProperties
<1>. HIDE DEF u
<1>3. DOMAIN u = 1..(Len(s) + Len(t))
      BY <1>1, <1>2
<1>4. ASSUME NEW i \in DOMAIN u
      PROVE  \/ i \in DOMAIN s /\ u[i] = s[i]
             \/ i - Len(s) \in DOMAIN t /\ u[i] = t[i - Len(s)]
      BY <1>1, <1>2, <1>3
<1>5. ASSUME NEW i \in DOMAIN s PROVE i \in DOMAIN u /\ u[i] = s[i]
      BY <1>1, <1>2, <1>3
<1>6. ASSUME NEW i \in DOMAIN t PROVE i + Len(s) \in DOMAIN u /\ u[i + Len(s)] = t[i]
  <2>1. i + Len(s) \in 1..(Len(s) + Len(t)) /\ ~(i + Len(s) <= Len(s)) /\ (i + Len(s)) - Len(s) = i
        BY <1>1
  <2>. QED BY <1>2, <1>3, <2>1
<1>7. ASSUME NEW x \in ToSet(u) PROVE x \in ToSet(s) \cup ToSet(t)
  <2>1. PICK i \in DOMAIN u : x = u[i]
        BY DEF ToSet
  <2>. QED BY <1>4, <2>1 DEF ToSet
<1>8. ASSUME NEW x \in ToSet(s) \cup ToSet(t) PROVE x \in ToSet(u)
      BY <1>5, <1>6 DEF ToSet
<1>9. ToSet(u) = ToSet(s) \cup ToSet(t)
      BY <1>7, <1>8
<1>. QED BY <1>2, <1>9 DEF u

LEMMA ConcatRuns ==
    ASSUME NEW s, Runs(s), NEW t, Runs(t)
    PROVE  Runs(s \o t) /\ ToSet(s \o t) = ToSet(s) \cup ToSet(t)
<1>. DEFINE u == s \o t
<1>1. u \in Seq(Rows) /\ ToSet(u) = ToSet(s) \cup ToSet(t)
      BY ConcatIs DEF Runs
<1>2. \A x \in ToSet(s) \cup ToSet(t) : x # <<>> /\ InOrder(x)
      BY DEF Runs, ToSet
<1>. HIDE DEF u
<1>3. \A i \in DOMAIN u : u[i] \in ToSet(u)
      BY DEF ToSet
<1>4. Runs(u)
      BY <1>1, <1>2, <1>3 DEF Runs
<1>. QED BY <1>1, <1>4 DEF u

LEMMA ConcatSorted ==
    ASSUME NEW s, Sorted(s), NEW t, Sorted(t)
    PROVE  Sorted(s \o t) /\ ToSet(s \o t) = ToSet(s) \cup ToSet(t)
<1>. DEFINE u == s \o t
<1>1. u \in Seq(Rows) /\ ToSet(u) = ToSet(s) \cup ToSet(t)
      BY ConcatIs DEF Sorted
<1>2. \A x \in ToSet(s) \cup ToSet(t) : InOrder(x)
      BY DEF Sorted, ToSet
<1>. HIDE DEF u
<1>3. \A i \in DOMAIN u : u[i] \in ToSet(u)
      BY DEF ToSet
<1>4. Sorted(u)
      BY <1>1, <1>2, <1>3 DEF Sorted
<1>. QED BY <1>1, <1>4 DEF u

LEMMA InputsAreHeld ==
    ASSUME LevelsOK(levels), JobOK(job, levels)
    PROVE  /\ InputsOf(job) \subseteq Held(levels)
           /\ job.level \in 0..MaxLevel /\ Target(job.level) \in 1..MaxLevel
           /\ Target(job.level) \in 0..MaxLevel
<1>1. job.level \in 0..MaxLevel
      BY DEF JobOK
<1>2. Target(job.level) \in 1..MaxLevel
      BY <1>1, TargetIs
<1>3. Target(job.level) \in 0..MaxLevel
      BY <1>2, LevelAssumption
<1>4. ASSUME NEW t \in Chosen(job) PROVE ToSet(t) \subseteq Held(levels)
  <2>1. \E l \in 0..MaxLevel : t \in ToSet(levels[l])
        BY <1>1, <1>3 DEF Chosen, JobOK
  <2>2. PICK l \in 0..MaxLevel : t \in ToSet(levels[l])
        BY <2>1
  <2>3. ToSet(t) \subseteq Contents(levels[l])
        BY <2>2, ContentsIs
  <2>. QED BY <2>3 DEF Held
<1>5. InputsOf(job) \subseteq Held(levels)
      BY <1>4 DEF InputsOf
<1>. QED BY <1>1, <1>2, <1>3, <1>5

LEMMA UniquePart ==
    ASSUME NEW R, Unique(R), NEW Q \in SUBSET R
    PROVE  Unique(Q)
BY DEF Unique

\* What a compaction writes are tables, with the records the set keeps.
LEMMA OutputOf ==
    ASSUME LevelsOK(levels), Unique(Held(levels)), JobOK(job, levels), NEW oldest \in Nat
    PROVE  /\ Tables(Output(oldest))
           /\ Contents(Output(oldest)) = retainForCompaction(InputsOf(job), oldest)
<1>. DEFINE sources == job.tables \o job.below
            merged == P!mergeAll(sources)
            kept == P!retainForCompaction(merged, oldest)
<1>1. Runs(sources) /\ ToSet(sources) = Chosen(job)
      BY ConcatRuns DEF JobOK, Chosen
<1>. HIDE DEF sources
<1>2. Sorted(sources)
      BY <1>1 DEF Runs, Sorted
<1>3. merged \in Rows /\ InOrder(merged) /\ ToSet(merged) = UNION {ToSet(sources[i]) : i \in DOMAIN sources}
      BY <1>2, MergeSorted
<1>4. UNION {ToSet(sources[i]) : i \in DOMAIN sources} = InputsOf(job)
      BY <1>1 DEF InputsOf, ToSet
<1>. HIDE DEF merged
<1>5. Unique(ToSet(merged))
      BY <1>3, <1>4, InputsAreHeld, UniquePart
<1>6. /\ kept \in Rows /\ InOrder(kept)
      /\ ToSet(kept) = retainForCompaction(ToSet(merged), oldest)
      BY <1>3, <1>5, RetainMatches
<1>7. Output(oldest) = P!writeCompactionOutput(kept, SliceBytes)
      BY DEF Output, kept, merged, sources
<1>. HIDE DEF kept
<1>8. /\ Tables(Output(oldest)) /\ Contents(Output(oldest)) = ToSet(kept)
      BY <1>6, <1>7, OutputIsTables
<1>. QED BY <1>3, <1>4, <1>6, <1>8

\* The levels once a job's tables are gone.
Kept ==
    LET rest == [levels EXCEPT ![job.level] = Without(@, job.tables)]
    IN  [rest EXCEPT ![Target(job.level)] = Without(@, job.below)]

LEMMA KeptIs ==
    ASSUME LevelsOK(levels), JobOK(job, levels)
    PROVE  /\ LevelsOK(Kept)
           /\ \A l \in 0..MaxLevel : ToSet(Kept[l]) \subseteq ToSet(levels[l])
           /\ \A u \in ToSet(Kept[Target(job.level)]) :
                  \/ \A t \in Chosen(job) : Apart(u, t)
                  \/ \A t \in Chosen(job) : Apart(t, u)
<1>. DEFINE target == Target(job.level)
            from == job.level
<1>0. from \in 0..MaxLevel /\ target \in 1..MaxLevel /\ target \in 0..MaxLevel
      BY InputsAreHeld
<1>. DEFINE first == [levels EXCEPT ![from] = Without(@, job.tables)]
<1>1. Kept = [first EXCEPT ![target] = Without(@, job.below)]
      BY DEF Kept
<1>2. levels \in [0..MaxLevel -> Seq(Rows)]
      BY DEF LevelsOK
<1>3. /\ DOMAIN first = 0..MaxLevel
      /\ first[from] = Without(levels[from], job.tables)
      /\ \A l \in 0..MaxLevel : l # from => first[l] = levels[l]
      BY <1>0, <1>2
<1>. HIDE DEF first
<1>4. /\ DOMAIN Kept = 0..MaxLevel
      /\ Kept[target] = Without(first[target], job.below)
      /\ \A l \in 0..MaxLevel : l # target => Kept[l] = first[l]
      /\ Kept = [l \in 0..MaxLevel |-> Kept[l]]
      BY <1>0, <1>1, <1>3
<1>. HIDE DEF target, from
<1>5. ASSUME NEW l \in 0..MaxLevel
      PROVE  /\ Runs(first[l]) /\ (l # 0 => Tables(first[l]))
             /\ ToSet(first[l]) = IF l = from THEN ToSet(levels[l]) \ ToSet(job.tables)
                                              ELSE ToSet(levels[l])
  <2>1. Runs(levels[l]) /\ (l # 0 => Tables(levels[l]))
        BY LevelsAreRuns
  <2>2. CASE l = from
        BY <1>3, <2>1, <2>2, WithoutIs
  <2>3. CASE l # from
        BY <1>3, <2>1, <2>3
  <2>. QED BY <2>2, <2>3
<1>6. ASSUME NEW l \in 0..MaxLevel
      PROVE  /\ Runs(Kept[l]) /\ (l # 0 => Tables(Kept[l]))
             /\ ToSet(Kept[l]) = IF l = target THEN ToSet(first[l]) \ ToSet(job.below)
                                               ELSE ToSet(first[l])
  <2>1. Runs(first[l]) /\ (l # 0 => Tables(first[l]))
        BY <1>5
  <2>2. CASE l = target
        BY <1>4, <2>1, <2>2, WithoutIs
  <2>3. CASE l # target
        BY <1>4, <2>1, <2>3
  <2>. QED BY <2>2, <2>3
<1>7. LevelsOK(Kept)
  <2>1. \A l \in 0..MaxLevel : Kept[l] \in Seq(Rows)
        BY <1>6 DEF Runs
  <2>2. Kept \in [0..MaxLevel -> Seq(Rows)]
        BY <1>4, <2>1
  <2>3. 0 \in 0..MaxLevel /\ \A l \in 1..MaxLevel : l \in 0..MaxLevel /\ l # 0
        BY LevelAssumption
  <2>. QED BY <1>6, <2>2, <2>3 DEF LevelsOK
<1>8. ASSUME NEW l \in 0..MaxLevel PROVE ToSet(Kept[l]) \subseteq ToSet(levels[l])
      BY <1>5, <1>6
<1>9. ASSUME NEW u \in ToSet(Kept[target])
      PROVE  \/ \A t \in Chosen(job) : Apart(u, t)
             \/ \A t \in Chosen(job) : Apart(t, u)
  <2>1. /\ u \in ToSet(first[target]) /\ u \notin ToSet(job.below)
        BY <1>0, <1>6, <1>9
  <2>2. u \in ToSet(levels[target]) /\ (target = from => u \notin ToSet(job.tables))
        BY <1>0, <1>5, <2>1
  <2>3. target = Target(job.level) /\ from = job.level
        BY DEF target, from
  <2>. QED BY <2>1, <2>2, <2>3 DEF JobOK
<1>. QED BY <1>7, <1>8, <1>9 DEF target

\* The loop in replaceTables that lists the new tables.
Inserting(upto, outputs) ==
    /\ upto[0] = Kept[Target(job.level)]
    /\ \A n \in 1..Len(outputs) : upto[n] = InsertTable(upto[n - 1], outputs[n])

LEMMA InsertSteps ==
    ASSUME NEW outputs, Len(outputs) \in Nat
    PROVE  \E upto : /\ Inserting(upto, outputs)
                     /\ replaceTables(outputs)
                            = [Kept EXCEPT ![Target(job.level)] = upto[Len(outputs)]]
<1>. DEFINE N == Len(outputs)
            Step(n, v) == InsertTable(v, outputs[n])
            Base == Kept[Target(job.level)]
            Solves(f, k) == f = [n \in 0..k |-> IF n = 0 THEN Base ELSE Step(n, f[n - 1])]
<1>1. replaceTables(outputs) = [Kept EXCEPT ![Target(job.level)] = (CHOOSE f : Solves(f, N))[N]]
      BY DEF replaceTables, Kept
<1>2. N \in Nat
      OBVIOUS
<1>. HIDE DEF N, Step, Base
<1>. DEFINE Good == {k \in 0..N : \E f : Solves(f, k)}
<1>3. 0 \in Good
  <2>. DEFINE g == [n \in 0..0 |-> Base]
  <2>1. \A n \in 0..0 : n = 0
        OBVIOUS
  <2>2. \A n \in 0..0 : g[n] = IF n = 0 THEN Base ELSE Step(n, g[n - 1])
        BY <2>1
  <2>3. g = [n \in 0..0 |-> g[n]]
        OBVIOUS
  <2>. HIDE DEF g
  <2>4. Solves(g, 0)
        BY <2>2, <2>3
  <2>. QED BY <1>2, <2>4
<1>4. ASSUME NEW k \in 1..N, k - 1 \in Good PROVE k \in Good
  <2>1. PICK f : Solves(f, k - 1)
        BY <1>4
  <2>. DEFINE g == [n \in 0..k |-> IF n = k THEN Step(k, f[k - 1]) ELSE f[n]]
  <2>2. ASSUME NEW n \in 0..k PROVE g[n] = IF n = 0 THEN Base ELSE Step(n, g[n - 1])
    <3>1. CASE n = k
      <4>1. n # 0 /\ k - 1 \in 0..k /\ k - 1 # k
            BY <1>2, <3>1
      <4>2. g[k] = Step(k, f[k - 1]) /\ g[k - 1] = f[k - 1]
            BY <4>1, <3>1
      <4>. HIDE DEF g
      <4>. QED BY <3>1, <4>1, <4>2, Zenon
    <3>2. CASE n # k
      <4>1. n \in 0..(k - 1) /\ g[n] = f[n]
            BY <1>2, <3>2
      <4>2. n # 0 => n - 1 \in 0..k /\ n - 1 # k
            BY <1>2, <3>2
      <4>3. n # 0 => g[n - 1] = f[n - 1]
            BY <4>2
      <4>4. f[n] = IF n = 0 THEN Base ELSE Step(n, f[n - 1])
            BY <2>1, <4>1, Zenon
      <4>. HIDE DEF g
      <4>. QED BY <4>1, <4>3, <4>4, Zenon
    <3>. QED BY <3>1, <3>2
  <2>3. g = [n \in 0..k |-> g[n]]
        OBVIOUS
  <2>. HIDE DEF g
  <2>4. Solves(g, k)
        BY <2>2, <2>3
  <2>. QED BY <1>2, <2>4
<1>. HIDE DEF Good
<1>5. \A n \in 0..N : n \in Good
      BY <1>2, <1>3, <1>4, UpToInduction
<1>6. \E f : Solves(f, N)
      BY <1>2, <1>5 DEF Good
<1>. DEFINE upto == CHOOSE f : Solves(f, N)
<1>7. Solves(upto, N)
      BY <1>6
<1>. HIDE DEF upto
<1>8. upto[0] = Base
      BY <1>2, <1>7
<1>9. ASSUME NEW n \in 1..N PROVE upto[n] = Step(n, upto[n - 1])
  <2>1. n \in 0..N /\ n # 0
        BY <1>2
  <2>2. upto[n] = IF n = 0 THEN Base ELSE Step(n, upto[n - 1])
        BY <1>7, <2>1, Zenon
  <2>. QED BY <2>1, <2>2
<1>10. replaceTables(outputs) = [Kept EXCEPT ![Target(job.level)] = upto[N]]
       BY <1>1 DEF upto
<1>. QED BY <1>8, <1>9, <1>10 DEF Inserting, Step, Base, N

LEMMA InsertAll ==
    ASSUME NEW outputs, Tables(outputs), NEW upto, Inserting(upto, outputs),
           NEW old, old = Kept[Target(job.level)], Tables(old),
           \A u \in ToSet(old), i \in DOMAIN outputs : Apart(u, outputs[i]) \/ Apart(outputs[i], u)
    PROVE  /\ Tables(upto[Len(outputs)])
           /\ ToSet(upto[Len(outputs)]) = ToSet(old) \cup ToSet(outputs)
<1>0. /\ outputs \in Seq(Rows) /\ Len(outputs) \in Nat /\ DOMAIN outputs = 1..Len(outputs)
      BY DEF Tables
<1>. DEFINE Listed(n) == ToSet(old) \cup {outputs[i] : i \in 1..n}
            Good == {n \in 0..Len(outputs) : Tables(upto[n]) /\ ToSet(upto[n]) = Listed(n)}
<1>1. 0 \in Good
  <2>1. {outputs[i] : i \in 1..0} = {}
        OBVIOUS
  <2>. QED BY <1>0, <2>1 DEF Inserting
<1>2. ASSUME NEW n \in 1..Len(outputs), n - 1 \in Good PROVE n \in Good
  <2>1. /\ Tables(upto[n - 1]) /\ ToSet(upto[n - 1]) = Listed(n - 1)
        /\ upto[n] = InsertTable(upto[n - 1], outputs[n])
        BY <1>2 DEF Inserting
  <2>2. outputs[n] \in Rows /\ outputs[n] # <<>> /\ InOrder(outputs[n]) /\ n \in DOMAIN outputs
        BY <1>0 DEF Tables
  <2>3. ASSUME NEW u \in ToSet(upto[n - 1]) PROVE Apart(u, outputs[n]) \/ Apart(outputs[n], u)
    <3>1. CASE u \in ToSet(old)
          BY <2>2, <3>1
    <3>2. CASE u \in {outputs[i] : i \in 1..(n - 1)}
      <4>1. PICK i \in 1..(n - 1) : u = outputs[i]
            BY <3>2
      <4>2. i \in DOMAIN outputs /\ i < n
            BY <1>0
      <4>. QED BY <2>2, <4>1, <4>2 DEF Tables
    <3>. QED BY <2>1, <2>3, <3>1, <3>2
  <2>4. \A j \in DOMAIN upto[n - 1] :
            Apart(upto[n - 1][j], outputs[n]) \/ Apart(outputs[n], upto[n - 1][j])
        BY <2>3 DEF ToSet
  <2>5. /\ Tables(upto[n]) /\ ToSet(upto[n]) = ToSet(upto[n - 1]) \cup {outputs[n]}
        BY <2>1, <2>2, <2>4, InsertKeeps
  <2>6. {outputs[i] : i \in 1..n} = {outputs[i] : i \in 1..(n - 1)} \cup {outputs[n]}
    <3>1. \A i : i \in 1..n <=> i \in 1..(n - 1) \/ i = n
          BY <1>0
    <3>. QED BY <3>1
  <2>7. n \in 0..Len(outputs)
        BY <1>0
  <2>. QED BY <2>1, <2>5, <2>6, <2>7
<1>3. ToSet(outputs) = {outputs[i] : i \in 1..Len(outputs)}
      BY <1>0 DEF ToSet
<1>. HIDE DEF Good
<1>4. \A n \in 0..Len(outputs) : n \in Good
      BY <1>0, <1>1, <1>2, UpToInduction
<1>5. Len(outputs) \in 0..Len(outputs)
      BY <1>0
<1>. QED BY <1>3, <1>4, <1>5 DEF Good

\* replaceTables keeps tables sorted and ranges disjoint, and adds no record.
LEMMA ReplaceKeeps ==
    ASSUME LevelsOK(levels), JobOK(job, levels),
           NEW outputs, Tables(outputs), Contents(outputs) \subseteq InputsOf(job)
    PROVE  /\ LevelsOK(replaceTables(outputs))
           /\ Held(replaceTables(outputs)) \subseteq Held(levels)
<1>. DEFINE target == Target(job.level)
            after == replaceTables(outputs)
<1>0. /\ target \in 1..MaxLevel /\ target \in 0..MaxLevel
      /\ InputsOf(job) \subseteq Held(levels)
      BY InputsAreHeld
<1>1. outputs \in Seq(Rows) /\ Len(outputs) \in Nat
      BY DEF Tables
<1>2. PICK upto : Inserting(upto, outputs) /\ after = [Kept EXCEPT ![target] = upto[Len(outputs)]]
      BY <1>1, InsertSteps
<1>3. /\ LevelsOK(Kept)
      /\ \A l \in 0..MaxLevel : ToSet(Kept[l]) \subseteq ToSet(levels[l])
      /\ \A u \in ToSet(Kept[target]) : \/ \A t \in Chosen(job) : Apart(u, t)
                                        \/ \A t \in Chosen(job) : Apart(t, u)
      BY KeptIs
<1>4. Tables(Kept[target])
      BY <1>0, <1>3 DEF LevelsOK
<1>. HIDE DEF after
<1>5. ASSUME NEW u \in ToSet(Kept[target]), NEW i \in DOMAIN outputs
      PROVE  Apart(u, outputs[i]) \/ Apart(outputs[i], u)
  <2>1. ASSUME NEW b \in DOMAIN outputs[i]
        PROVE  \E t \in Chosen(job) : outputs[i][b] \in ToSet(t)
    <3>1. outputs[i][b] \in Contents(outputs)
          BY DEF Contents, ToSet
    <3>. QED BY <3>1 DEF InputsOf
  <2>2. CASE \A t \in Chosen(job) : Apart(u, t)
    <3>1. ASSUME NEW a \in DOMAIN u, NEW b \in DOMAIN outputs[i] PROVE u[a].key < outputs[i][b].key
      <4>1. PICK t \in Chosen(job) : outputs[i][b] \in ToSet(t)
            BY <2>1
      <4>2. PICK c \in DOMAIN t : outputs[i][b] = t[c]
            BY <4>1 DEF ToSet
      <4>. QED BY <2>2, <4>2 DEF Apart
    <3>. QED BY <3>1 DEF Apart
  <2>3. CASE \A t \in Chosen(job) : Apart(t, u)
    <3>1. ASSUME NEW a \in DOMAIN u, NEW b \in DOMAIN outputs[i] PROVE outputs[i][b].key < u[a].key
      <4>1. PICK t \in Chosen(job) : outputs[i][b] \in ToSet(t)
            BY <2>1
      <4>2. PICK c \in DOMAIN t : outputs[i][b] = t[c]
            BY <4>1 DEF ToSet
      <4>. QED BY <2>3, <4>2 DEF Apart
    <3>. QED BY <3>1 DEF Apart
  <2>. QED BY <1>3, <2>2, <2>3
<1>. DEFINE old == Kept[target]
            new == upto[Len(outputs)]
<1>6. Tables(new) /\ ToSet(new) = ToSet(old) \cup ToSet(outputs)
  <2>1. \A u \in ToSet(old), i \in DOMAIN outputs : Apart(u, outputs[i]) \/ Apart(outputs[i], u)
        BY <1>5
  <2>2. old = Kept[Target(job.level)]
        OBVIOUS
  <2>. HIDE DEF old
  <2>. QED BY <1>2, <1>4, <2>1, <2>2, InsertAll DEF old
<1>7. /\ DOMAIN after = 0..MaxLevel /\ after[target] = new
      /\ \A l \in 0..MaxLevel : l # target => after[l] = Kept[l]
      /\ after = [l \in 0..MaxLevel |-> after[l]]
  <2>1. DOMAIN Kept = 0..MaxLevel
        BY <1>3 DEF LevelsOK
  <2>. HIDE DEF target, new
  <2>2. after = [Kept EXCEPT ![target] = new]
        BY <1>2 DEF new
  <2>. QED BY <1>0, <2>1, <2>2
<1>. HIDE DEF target, new, old
<1>8. LevelsOK(after)
  <2>1. new \in Seq(Rows)
        BY <1>6 DEF Tables
  <2>2. \A l \in 0..MaxLevel : after[l] \in Seq(Rows)
        BY <1>3, <1>7, <2>1 DEF LevelsOK
  <2>3. after \in [0..MaxLevel -> Seq(Rows)]
        BY <1>7, <2>2
  <2>4. 0 \in 0..MaxLevel /\ target # 0 /\ \A l \in 1..MaxLevel : l \in 0..MaxLevel
        BY <1>0, LevelAssumption
  <2>5. Runs(after[0])
        BY <1>3, <1>7, <2>4 DEF LevelsOK
  <2>6. ASSUME NEW l \in 1..MaxLevel PROVE Tables(after[l])
        BY <1>3, <1>6, <1>7, <2>4 DEF LevelsOK
  <2>. QED BY <2>3, <2>5, <2>6 DEF LevelsOK
<1>9. ASSUME NEW l \in 0..MaxLevel PROVE Contents(after[l]) \subseteq Held(levels)
  <2>1. UNION {ToSet(t) : t \in ToSet(levels[l])} \subseteq Held(levels)
        BY ContentsIs DEF Held
  <2>2. UNION {ToSet(t) : t \in ToSet(Kept[l])} \subseteq Held(levels)
        BY <1>3, <2>1
  <2>3. UNION {ToSet(t) : t \in ToSet(outputs)} \subseteq Held(levels)
        BY <1>0, ContentsIs
  <2>4. \A t \in ToSet(after[l]) : t \in ToSet(Kept[l]) \/ t \in ToSet(outputs)
        BY <1>6, <1>7 DEF old
  <2>5. UNION {ToSet(t) : t \in ToSet(after[l])} \subseteq Held(levels)
        BY <2>2, <2>3, <2>4
  <2>. QED BY <2>5, ContentsIs
<1>10. Held(after) \subseteq Held(levels)
       BY <1>9 DEF Held
<1>. QED BY <1>8, <1>10 DEF after

-----------------------------------------------------------------------------
(***************************************************************************)
(* The invariant holds at the start, and every step keeps it.              *)
(***************************************************************************)
LEMMA InvStart == ASSUME Init PROVE CompactionInv
<1>1. 0 \in 0..MaxLevel /\ \A l \in 1..MaxLevel : l \in 0..MaxLevel
      BY LevelAssumption
<1>2. <<>> \in Seq(Rows) /\ <<>> \in Rows /\ DOMAIN <<>> = {}
      BY DEF Rows
<1>3. Runs(<<>>) /\ Tables(<<>>) /\ InOrder(<<>>) /\ ToSet(<<>>) = {} /\ Contents(<<>>) = {}
      BY <1>2 DEF Runs, Tables, InOrder, ToSet, Contents
<1>4. /\ mem = <<>> /\ levels \in [0..MaxLevel -> Seq(Rows)] /\ nextSeq \in Nat \ {0}
      /\ pc # "compact" /\ \A l \in 0..MaxLevel : levels[l] = <<>>
      BY <1>2 DEF Init
<1>5. LevelsOK(levels)
      BY <1>1, <1>3, <1>4 DEF LevelsOK
<1>6. Held(levels) = {}
      BY <1>3, <1>4 DEF Held
<1>7. Stored = {}
      BY <1>3, <1>4, <1>6 DEF Stored
<1>. QED BY <1>2, <1>3, <1>4, <1>5, <1>7 DEF CompactionInv, Unique

\* flush() lists the memtable, and stores nothing that was not in it.
LEMMA FlushKeeps ==
    ASSUME CompactionInv, mem # <<>>, NEW L, L = [levels EXCEPT ![0] = <<mem>> \o @]
    PROVE  LevelsOK(L) /\ Held(L) \subseteq Stored
<1>0. 0 \in 0..MaxLevel /\ \A l \in 1..MaxLevel : l \in 0..MaxLevel /\ l # 0
      BY LevelAssumption
<1>1. mem \in Rows /\ InOrder(mem) /\ LevelsOK(levels)
      BY DEF CompactionInv
<1>2. /\ DOMAIN L = 0..MaxLevel /\ L[0] = <<mem>> \o levels[0] /\ L = [l \in 0..MaxLevel |-> L[l]]
      /\ \A l \in 0..MaxLevel : l # 0 => L[l] = levels[l]
      BY <1>0, <1>1 DEF LevelsOK
<1>3. Runs(<<mem>>) /\ ToSet(<<mem>>) = {mem}
  <2>1. <<mem>> \in Seq(Rows) /\ DOMAIN <<mem>> = {1} /\ <<mem>>[1] = mem
        BY <1>1
  <2>. DEFINE one == <<mem>>
  <2>2. one \in Seq(Rows) /\ DOMAIN one = {1} /\ one[1] = mem
        BY <2>1
  <2>. HIDE DEF one
  <2>3. Runs(one) /\ ToSet(one) = {mem}
        BY <1>1, <2>2 DEF Runs, ToSet
  <2>. QED BY <2>3 DEF one
<1>4. Runs(levels[0])
      BY <1>1 DEF LevelsOK
<1>5. Runs(L[0]) /\ ToSet(L[0]) = {mem} \cup ToSet(levels[0])
      BY <1>2, <1>3, <1>4, ConcatRuns
<1>6. LevelsOK(L)
  <2>1. \A l \in 0..MaxLevel : L[l] \in Seq(Rows)
        BY <1>1, <1>2, <1>5 DEF LevelsOK, Runs
  <2>2. L \in [0..MaxLevel -> Seq(Rows)]
        BY <1>2, <2>1
  <2>3. \A l \in 1..MaxLevel : Tables(L[l])
        BY <1>0, <1>1, <1>2 DEF LevelsOK
  <2>. QED BY <1>5, <2>2, <2>3 DEF LevelsOK
<1>7. ASSUME NEW l \in 0..MaxLevel PROVE Contents(L[l]) \subseteq Stored
  <2>1. UNION {ToSet(t) : t \in ToSet(levels[l])} \subseteq Held(levels)
        BY ContentsIs DEF Held
  <2>2. ToSet(L[l]) \subseteq {mem} \cup ToSet(levels[l])
        BY <1>2, <1>5
  <2>3. UNION {ToSet(t) : t \in ToSet(L[l])} \subseteq ToSet(mem) \cup Held(levels)
        BY <2>1, <2>2
  <2>. QED BY <2>3, ContentsIs DEF Stored
<1>8. Held(L) \subseteq Stored
      BY <1>7 DEF Held
<1>. QED BY <1>6, <1>8

\* A step that stores nothing new keeps what is said of the records.
LEMMA NothingNew ==
    ASSUME CompactionInv, Stored' \subseteq Stored, nextSeq' = nextSeq
    PROVE  /\ nextSeq' \in Nat \ {0} /\ Unique(Stored') /\ \A r \in Stored' : r.seq < nextSeq'
BY DEF CompactionInv, Unique

LEMMA SelectStep ==
    ASSUME CompactionInv, NEW l \in 0..MaxLevel, compactLevel(l), pc # "compact"
    PROVE  CompactionInv'
<1>1. /\ UNCHANGED <<mem, levels, nextSeq>>
      BY DEF compactLevel
<1>2. Stored' = Stored
      BY <1>1 DEF Stored, Held, Contents
<1>3. JobOK(job', levels)
      BY SelectJob DEF CompactionInv
<1>4. JobOK(job', levels')
      BY <1>1, <1>3
<1>5. nextSeq' \in Nat \ {0} /\ Unique(Stored') /\ \A r \in Stored' : r.seq < nextSeq'
      BY <1>1, <1>2, NothingNew
<1>6. mem' \in Rows /\ InOrder(mem') /\ LevelsOK(levels')
      BY <1>1 DEF CompactionInv
<1>. QED BY <1>4, <1>5, <1>6 DEF CompactionInv

LEMMA RowsHold == ASSUME NEW s \in Rows PROVE ToSet(s) \subseteq Record
<1>1. \A i \in DOMAIN s : s[i] \in Record
      BY DEF Rows
<1>. QED BY <1>1 DEF ToSet

LEMMA StoredTypes ==
    ASSUME LevelsOK(levels), mem \in Rows
    PROVE  Stored \subseteq Record
<1>1. ToSet(mem) \subseteq Record
      BY RowsHold
<1>2. ASSUME NEW l \in 0..MaxLevel PROVE Contents(levels[l]) \subseteq Record
  <2>1. \A t \in ToSet(levels[l]) : t \in Rows
        BY LevelsAreRuns
  <2>2. \A t \in ToSet(levels[l]) : ToSet(t) \subseteq Record
        BY <2>1, RowsHold
  <2>. QED BY <2>2, ContentsIs
<1>. QED BY <1>1, <1>2 DEF Stored, Held

LEMMA WriteStep ==
    ASSUME CompactionInv, NEW k \in Keys, NEW v \in Values \cup {Tombstone}, Write(k, v)
    PROVE  CompactionInv'
<1>. DEFINE r == [key |-> k, seq |-> nextSeq, val |-> v]
            p == Min({i \in 1..(Len(mem) + 1) : i <= Len(mem) => KeyLess(r, mem[i])})
<1>1. /\ mem' = InsertAt(mem, p, r) /\ nextSeq' = nextSeq + 1 /\ nextSeq <= MaxSeq
      /\ levels' = levels /\ pc = "idle" /\ pc' = pc
      BY DEF Write
<1>2. nextSeq \in Nat \ {0} /\ mem \in Rows /\ InOrder(mem)
      BY DEF CompactionInv
<1>3. r \in Record /\ r.seq = nextSeq
  <2>1. nextSeq \in 1..MaxSeq
        BY <1>1, <1>2, SeqAssumption
  <2>. QED BY <2>1 DEF Record
<1>. HIDE DEF r
<1>4. mem' \in Rows /\ InOrder(mem') /\ ToSet(mem') = ToSet(mem) \cup {r}
      BY <1>1, <1>2, <1>3, MemInsert
<1>5. LevelsOK(levels')
      BY <1>1 DEF CompactionInv
<1>6. Held(levels') = Held(levels)
      BY <1>1
<1>7. Stored' = Stored \cup {r}
      BY <1>4, <1>6 DEF Stored
<1>8. \A q \in Stored : q.seq < nextSeq
      BY DEF CompactionInv
<1>9. \A q \in Stored' : q.seq < nextSeq'
  <2>1. Stored \subseteq Record
        BY <1>2, StoredTypes DEF CompactionInv
  <2>2. \A q \in Stored : q.seq \in Nat
        BY <2>1, RecordTypes
  <2>3. \A q \in Stored : q.seq < nextSeq + 1
        BY <1>2, <1>8, <2>2
  <2>. QED BY <1>1, <1>2, <1>3, <1>7, <2>3
<1>10. Unique(Stored')
  <2>1. \A q \in Stored : q.seq # r.seq
        BY <1>2, <1>3, <1>8
  <2>2. Unique(Stored)
        BY DEF CompactionInv
  <2>. QED BY <1>7, <2>1, <2>2 DEF Unique
<1>. QED BY <1>1, <1>2, <1>4, <1>5, <1>9, <1>10 DEF CompactionInv

LEMMA CompactStep ==
    ASSUME CompactionInv, compactRange
    PROVE  CompactionInv'
<1>1. /\ pc = "compact" /\ pc' = job.back /\ mem' = mem /\ nextSeq' = nextSeq
      BY DEF compactRange
<1>2. PICK oldest \in ReadPoints : levels' = replaceTables(Output(oldest))
      BY DEF compactRange
<1>3. /\ LevelsOK(levels) /\ JobOK(job, levels) /\ Unique(Stored) /\ nextSeq \in Nat \ {0}
      BY <1>1 DEF CompactionInv
<1>4. oldest \in Nat
      BY <1>3 DEF ReadPoints
<1>5. Unique(Held(levels))
      BY <1>3, UniquePart DEF Stored
<1>6. /\ Tables(Output(oldest))
      /\ Contents(Output(oldest)) = retainForCompaction(InputsOf(job), oldest)
      BY <1>3, <1>4, <1>5, OutputOf
<1>7. Contents(Output(oldest)) \subseteq InputsOf(job)
      BY <1>6 DEF retainForCompaction
<1>8. LevelsOK(levels') /\ Held(levels') \subseteq Held(levels)
      BY <1>2, <1>3, <1>6, <1>7, ReplaceKeeps
<1>9. Stored' \subseteq Stored
      BY <1>1, <1>8 DEF Stored
<1>10. nextSeq' \in Nat \ {0} /\ Unique(Stored') /\ \A r \in Stored' : r.seq < nextSeq'
       BY <1>1, <1>9, NothingNew
<1>11. mem' \in Rows /\ InOrder(mem') /\ pc' # "compact"
       BY <1>1, <1>3 DEF CompactionInv, JobOK
<1>. QED BY <1>8, <1>10, <1>11 DEF CompactionInv

\* Steps that only move records, or drop them, between memtable and level 0.
LEMMA OtherStep ==
    ASSUME CompactionInv, LevelsOK(levels'), mem' \in {mem, <<>>}, Held(levels') \subseteq Stored,
           nextSeq' = nextSeq, pc' # "compact"
    PROVE  CompactionInv'
<1>1. <<>> \in Rows /\ DOMAIN <<>> = {}
      BY DEF Rows
<1>2. InOrder(<<>>) /\ ToSet(<<>>) = {}
      BY <1>1 DEF InOrder, ToSet
<1>3. mem' \in Rows /\ InOrder(mem') /\ ToSet(mem') \subseteq ToSet(mem)
      BY <1>1, <1>2 DEF CompactionInv
<1>4. Stored' \subseteq Stored
      BY <1>3 DEF Stored
<1>5. nextSeq' \in Nat \ {0} /\ Unique(Stored') /\ \A r \in Stored' : r.seq < nextSeq'
      BY <1>4, NothingNew
<1>. QED BY <1>3, <1>5 DEF CompactionInv

LEMMA InvStep == ASSUME CompactionInv, [Next]_vars PROVE CompactionInv'
<1>0. 0 \in 0..MaxLevel
      BY LevelAssumption
<1>00. LevelsOK(levels) /\ Held(levels) \subseteq Stored
       BY DEF CompactionInv, Stored
<1>1. CASE Open
  <2>1. levels' = levels /\ mem' = mem /\ nextSeq' = nextSeq /\ pc' # "compact"
        BY <1>1 DEF Open
  <2>. QED BY <1>00, <2>1, OtherStep
<1>2. CASE Kill
  <2>1. levels' = levels /\ mem' \in {mem, <<>>} /\ nextSeq' = nextSeq /\ pc' # "compact"
        BY <1>2 DEF Kill
  <2>. QED BY <1>00, <2>1, OtherStep
<1>3. CASE \E k \in Keys, v \in Values \cup {Tombstone} : Write(k, v)
      BY <1>3, WriteStep
<1>4. CASE Flush
  <2>1. /\ mem # <<>> /\ levels' = [levels EXCEPT ![0] = <<mem>> \o @]
        /\ mem' = <<>> /\ nextSeq' = nextSeq /\ pc' # "compact"
        BY <1>4 DEF Flush
  <2>2. LevelsOK(levels') /\ Held(levels') \subseteq Stored
        BY <2>1, FlushKeeps
  <2>. QED BY <2>1, <2>2, OtherStep
<1>5. CASE FlushNewWalFails
  <2>1. /\ mem # <<>> /\ levels' = [levels EXCEPT ![0] = <<mem>> \o @]
        /\ mem' = mem /\ nextSeq' = nextSeq /\ pc' # "compact"
        BY <1>5 DEF FlushNewWalFails
  <2>2. LevelsOK(levels') /\ Held(levels') \subseteq Stored
        BY <2>1, FlushKeeps
  <2>. QED BY <2>1, <2>2, OtherStep
<1>6. CASE Compact
      BY <1>0, <1>6, SelectStep DEF Compact
<1>7. CASE compactRange
      BY <1>7, CompactStep
<1>8. CASE LoopLevelZero
      BY <1>0, <1>8, SelectStep DEF LoopLevelZero
<1>9. CASE LoopOverBudget
  <2>1. overBudget \in SUBSET Nat /\ overBudget \subseteq 1..MaxLevel
        BY LevelAssumption DEF overBudget
  <2>2. overBudget # {} /\ pc # "compact" /\ compactLevel(Min(overBudget))
        BY <1>9 DEF LoopOverBudget
  <2>3. Min(overBudget) \in overBudget
        BY <2>1, <2>2, MinNat
  <2>4. PICK l \in 1..MaxLevel : l = Min(overBudget)
        BY <2>1, <2>3
  <2>5. l \in 0..MaxLevel
        BY LevelAssumption
  <2>. QED BY <2>2, <2>4, <2>5, SelectStep
<1>10. CASE LoopDone
  <2>1. levels' = levels /\ mem' = mem /\ nextSeq' = nextSeq /\ pc' # "compact"
        BY <1>10 DEF LoopDone
  <2>. QED BY <1>00, <2>1, OtherStep
<1>11. CASE UNCHANGED vars
  <2>1. UNCHANGED <<mem, levels, nextSeq, pc, job>>
        BY <1>11 DEF vars
  <2>2. Stored' = Stored
        BY <2>1 DEF Stored
  <2>3. nextSeq' \in Nat \ {0} /\ Unique(Stored') /\ \A r \in Stored' : r.seq < nextSeq'
        BY <2>1, <2>2, NothingNew
  <2>4. /\ mem' \in Rows /\ InOrder(mem') /\ LevelsOK(levels')
        /\ pc' = "compact" => JobOK(job', levels')
        BY <2>1 DEF CompactionInv
  <2>. QED BY <2>3, <2>4 DEF CompactionInv
<1>. QED BY <1>1, <1>2, <1>3, <1>4, <1>5, <1>6, <1>7, <1>8, <1>9, <1>10, <1>11 DEF Next

\* The inductive invariant: the memtable and every table are sorted, the tables of
\* a level below 0 have disjoint ranges, a sequence number belongs to one record,
\* and a running compaction has room for its output between the tables that stay.
THEOREM CompactionInvariant == Spec => []CompactionInv
<1>1. Init => CompactionInv
      BY InvStart
<1>2. CompactionInv /\ [Next]_vars => CompactionInv'
      BY InvStep
<1>. QED BY <1>1, <1>2, PTL DEF Spec

\* Every table is sorted and not empty, and the tables of a level below 0 are in
\* the order of disjoint ranges (LevelsSorted), whatever the keys, the budgets,
\* the cursors and the snapshots: what mergeAll, get's binary search over a level
\* and addTable take for granted.
THEOREM TablesStaySorted == Spec => []LevelsSorted
<1>1. CompactionInv => LevelsSorted
  <2>. SUFFICES ASSUME CompactionInv PROVE LevelsSorted
       OBVIOUS
  <2>0. LevelsOK(levels)
        BY DEF CompactionInv
  <2>1. ASSUME NEW l \in 0..MaxLevel, NEW i \in DOMAIN levels[l]
        PROVE  /\ levels[l][i] # <<>>
               /\ \A j \in 1..(Len(levels[l][i]) - 1) :
                      ~KeyLess(levels[l][i][j + 1], levels[l][i][j])
    <3>. DEFINE t == levels[l][i]
    <3>1. t \in ToSet(levels[l])
          BY DEF ToSet
    <3>. HIDE DEF t
    <3>2. t \in Rows /\ t # <<>> /\ InOrder(t)
          BY <2>0, <3>1, LevelsAreRuns
    <3>3. ASSUME NEW j \in 1..(Len(t) - 1) PROVE ~KeyLess(t[j + 1], t[j])
      <4>1. j \in DOMAIN t /\ j + 1 \in DOMAIN t /\ j < j + 1
            BY <3>2 DEF Rows
      <4>2. ~P!Before(t[j + 1], t[j])
            BY <3>2, <4>1 DEF InOrder
      <4>. QED BY <4>2 DEF KeyLess, P!Before
    <3>. QED BY <3>2, <3>3 DEF t
  <2>2. ASSUME NEW l \in 1..MaxLevel, NEW i \in 1..(Len(levels[l]) - 1)
        PROVE  maxKeyOf(levels[l][i]) < minKeyOf(levels[l][i + 1])
    <3>1. Tables(levels[l])
          BY <2>0 DEF LevelsOK
    <3>2. i \in DOMAIN levels[l] /\ i + 1 \in DOMAIN levels[l] /\ i < i + 1
      <4>1. levels[l] \in Seq(Rows)
            BY <3>1 DEF Tables
      <4>. QED BY <4>1
    <3>3. /\ levels[l][i] \in Rows /\ levels[l][i] # <<>> /\ InOrder(levels[l][i])
          /\ levels[l][i + 1] \in Rows /\ levels[l][i + 1] # <<>> /\ InOrder(levels[l][i + 1])
          /\ Apart(levels[l][i], levels[l][i + 1])
          BY <3>1, <3>2 DEF Tables
    <3>. QED BY <3>3, ApartMeans
  <2>. QED BY <2>1, <2>2 DEF LevelsSorted
<1>. QED BY <1>1, CompactionInvariant, PTL

\* The passes of compactRange over sorted sequences, mergeAll, retainForCompaction
\* and writeCompactionOutput, write for every compaction and every snapshot exactly
\* the records LsmDB keeps, in slices of disjoint ranges (CompactionMatchesSets).
THEOREM PipelineMatchesSets == Spec => []CompactionMatchesSets
<1>1. CompactionInv => CompactionMatchesSets
  <2>. SUFFICES ASSUME CompactionInv, pc = "compact", NEW oldest \in ReadPoints
                PROVE  LET output == Output(oldest)
                       IN  /\ UNION {ToSet(t) : t \in ToSet(output)}
                                  = retainForCompaction(InputsOf(job), oldest)
                           /\ \A i, j \in DOMAIN output : i < j =>
                                  maxKeyOf(output[i]) < minKeyOf(output[j])
       BY Zenon DEF CompactionMatchesSets, InputsOf, Chosen
  <2>1. /\ LevelsOK(levels) /\ JobOK(job, levels) /\ Unique(Stored) /\ nextSeq \in Nat \ {0}
        BY DEF CompactionInv
  <2>2. oldest \in Nat
        BY <2>1 DEF ReadPoints
  <2>3. Unique(Held(levels))
        BY <2>1, UniquePart DEF Stored
  <2>. DEFINE output == Output(oldest)
  <2>4. Tables(output) /\ Contents(output) = retainForCompaction(InputsOf(job), oldest)
        BY <2>1, <2>2, <2>3, OutputOf
  <2>. HIDE DEF output
  <2>5. ASSUME NEW i \in DOMAIN output, NEW j \in DOMAIN output, i < j
        PROVE  maxKeyOf(output[i]) < minKeyOf(output[j])
    <3>1. /\ output[i] \in Rows /\ output[i] # <<>> /\ InOrder(output[i])
          /\ output[j] \in Rows /\ output[j] # <<>> /\ InOrder(output[j])
          /\ Apart(output[i], output[j])
          BY <2>4, <2>5 DEF Tables
    <3>. QED BY <3>1, ApartMeans
  <2>6. UNION {ToSet(t) : t \in ToSet(output)} = retainForCompaction(InputsOf(job), oldest)
        BY <2>4, ContentsIs
  <2>. QED BY <2>5, <2>6 DEF output
<1>. QED BY <1>1, CompactionInvariant, PTL

-----------------------------------------------------------------------------
(***************************************************************************)
(* A scan.                                                                 *)
(***************************************************************************)
\* The loop in scan that opens the memtable and then level after level.
Opening(upto) ==
    /\ upto[0] = <<mem>>
    /\ \A n \in 1..(MaxLevel + 1) : upto[n] = upto[n - 1] \o levels[n - 1]

LEMMA SourcesSteps == \E upto : Opening(upto) /\ Sources = upto[MaxLevel + 1]
<1>. DEFINE N == MaxLevel + 1
            Step(n, v) == v \o levels[n - 1]
            Base == <<mem>>
            Solves(f, k) == f = [n \in 0..k |-> IF n = 0 THEN Base ELSE Step(n, f[n - 1])]
<1>1. Sources = (CHOOSE f : Solves(f, N))[N]
      BY DEF Sources
<1>2. N \in Nat
      BY LevelAssumption
<1>. HIDE DEF N, Step, Base
<1>. DEFINE Good == {k \in 0..N : \E f : Solves(f, k)}
<1>3. 0 \in Good
  <2>. DEFINE g == [n \in 0..0 |-> Base]
  <2>1. \A n \in 0..0 : n = 0
        OBVIOUS
  <2>2. \A n \in 0..0 : g[n] = IF n = 0 THEN Base ELSE Step(n, g[n - 1])
        BY <2>1
  <2>3. g = [n \in 0..0 |-> g[n]]
        OBVIOUS
  <2>. HIDE DEF g
  <2>4. Solves(g, 0)
        BY <2>2, <2>3
  <2>. QED BY <1>2, <2>4
<1>4. ASSUME NEW k \in 1..N, k - 1 \in Good PROVE k \in Good
  <2>1. PICK f : Solves(f, k - 1)
        BY <1>4
  <2>. DEFINE g == [n \in 0..k |-> IF n = k THEN Step(k, f[k - 1]) ELSE f[n]]
  <2>2. ASSUME NEW n \in 0..k PROVE g[n] = IF n = 0 THEN Base ELSE Step(n, g[n - 1])
    <3>1. CASE n = k
      <4>1. n # 0 /\ k - 1 \in 0..k /\ k - 1 # k
            BY <1>2, <3>1
      <4>2. g[k] = Step(k, f[k - 1]) /\ g[k - 1] = f[k - 1]
            BY <4>1, <3>1
      <4>. HIDE DEF g
      <4>. QED BY <3>1, <4>1, <4>2, Zenon
    <3>2. CASE n # k
      <4>1. n \in 0..(k - 1) /\ g[n] = f[n]
            BY <1>2, <3>2
      <4>2. n # 0 => n - 1 \in 0..k /\ n - 1 # k
            BY <1>2, <3>2
      <4>3. n # 0 => g[n - 1] = f[n - 1]
            BY <4>2
      <4>4. f[n] = IF n = 0 THEN Base ELSE Step(n, f[n - 1])
            BY <2>1, <4>1, Zenon
      <4>. HIDE DEF g
      <4>. QED BY <4>1, <4>3, <4>4, Zenon
    <3>. QED BY <3>1, <3>2
  <2>3. g = [n \in 0..k |-> g[n]]
        OBVIOUS
  <2>. HIDE DEF g
  <2>4. Solves(g, k)
        BY <2>2, <2>3
  <2>. QED BY <1>2, <2>4
<1>. HIDE DEF Good
<1>5. \A n \in 0..N : n \in Good
      BY <1>2, <1>3, <1>4, UpToInduction
<1>6. \E f : Solves(f, N)
      BY <1>2, <1>5 DEF Good
<1>. DEFINE upto == CHOOSE f : Solves(f, N)
<1>7. Solves(upto, N)
      BY <1>6
<1>. HIDE DEF upto
<1>8. upto[0] = Base
      BY <1>2, <1>7
<1>9. ASSUME NEW n \in 1..N PROVE upto[n] = Step(n, upto[n - 1])
  <2>1. n \in 0..N /\ n # 0
        BY <1>2
  <2>2. upto[n] = IF n = 0 THEN Base ELSE Step(n, upto[n - 1])
        BY <1>7, <2>1, Zenon
  <2>. QED BY <2>1, <2>2
<1>10. Sources = upto[N]
       BY <1>1 DEF upto
<1>. QED BY <1>8, <1>9, <1>10 DEF Opening, Step, Base, N

LEMMA SourcesAre ==
    ASSUME LevelsOK(levels), mem \in Rows, InOrder(mem)
    PROVE  /\ Sorted(Sources)
           /\ UNION {ToSet(t) : t \in ToSet(Sources)} = Stored
<1>0. MaxLevel \in Nat /\ MaxLevel + 1 \in Nat
      BY LevelAssumption
<1>1. PICK upto : Opening(upto) /\ Sources = upto[MaxLevel + 1]
      BY SourcesSteps
<1>. DEFINE Opened(n) == {mem} \cup UNION {ToSet(levels[l]) : l \in 0..(n - 1)}
            Good == {n \in 0..(MaxLevel + 1) : Sorted(upto[n]) /\ ToSet(upto[n]) = Opened(n)}
<1>2. 0 \in Good
  <2>1. <<mem>> \in Seq(Rows) /\ DOMAIN <<mem>> = {1} /\ <<mem>>[1] = mem
        OBVIOUS
  <2>. DEFINE one == <<mem>>
  <2>2. one \in Seq(Rows) /\ DOMAIN one = {1} /\ one[1] = mem
        BY <2>1
  <2>. HIDE DEF one
  <2>3. Sorted(one) /\ ToSet(one) = {mem}
        BY <2>2 DEF Sorted, ToSet
  <2>4. upto[0] = one
        BY <1>1 DEF Opening, one
  <2>5. 0..(0 - 1) = {}
        OBVIOUS
  <2>6. Opened(0) = {mem}
        BY <2>5
  <2>7. 0 \in 0..(MaxLevel + 1)
        BY <1>0
  <2>. QED BY <2>3, <2>4, <2>6, <2>7
<1>3. ASSUME NEW n \in 1..(MaxLevel + 1), n - 1 \in Good PROVE n \in Good
  <2>1. n \in 0..(MaxLevel + 1) /\ n - 1 \in 0..MaxLevel
        BY <1>0
  <2>2. Sorted(upto[n - 1]) /\ ToSet(upto[n - 1]) = Opened(n - 1) /\ upto[n] = upto[n - 1] \o levels[n - 1]
        BY <1>1, <1>3 DEF Opening
  <2>3. Sorted(levels[n - 1])
        BY <2>1, LevelsAreRuns DEF Runs, Sorted
  <2>4. Sorted(upto[n]) /\ ToSet(upto[n]) = Opened(n - 1) \cup ToSet(levels[n - 1])
        BY <2>2, <2>3, ConcatSorted
  <2>5. \A l : l \in 0..(n - 1) <=> l \in 0..((n - 1) - 1) \/ l = n - 1
        BY <1>0
  <2>6. Opened(n) = Opened(n - 1) \cup ToSet(levels[n - 1])
        BY <2>5
  <2>. HIDE DEF Opened
  <2>. QED BY <2>1, <2>4, <2>6
<1>. HIDE DEF Good
<1>4. \A n \in 0..(MaxLevel + 1) : n \in Good
      BY <1>0, <1>2, <1>3, UpToInduction
<1>5. MaxLevel + 1 \in 0..(MaxLevel + 1) /\ (MaxLevel + 1) - 1 = MaxLevel
      BY <1>0
<1>6. Sorted(Sources) /\ ToSet(Sources) = {mem} \cup UNION {ToSet(levels[l]) : l \in 0..MaxLevel}
      BY <1>1, <1>4, <1>5 DEF Good
<1>7. Held(levels) = UNION {UNION {ToSet(t) : t \in ToSet(levels[l])} : l \in 0..MaxLevel}
      BY ContentsIs DEF Held
<1>8. UNION {ToSet(t) : t \in ToSet(Sources)} = ToSet(mem) \cup Held(levels)
      BY <1>6, <1>7
<1>. QED BY <1>6, <1>8 DEF Stored

\* What a source's get returns, when it returns a version.
LEMMA NewestIs ==
    ASSUME NEW R \in SUBSET Record, R # {}, Unique(R)
    PROVE  /\ Newest(R) \in R /\ \A q \in R : q.seq <= Newest(R).seq
           /\ \A r \in R : (\A q \in R : q.seq <= r.seq) => r = Newest(R)
<1>1. \A r \in R : r.seq \in Nat /\ r.seq \in 0..MaxSeq
  <2>1. SUFFICES ASSUME NEW r \in R PROVE r.seq \in Nat /\ r.seq \in 0..MaxSeq
        OBVIOUS
  <2>2. r.seq \in Nat /\ r.seq \in 1..MaxSeq
        BY RecordTypes
  <2>. QED BY <2>2, SeqAssumption
<1>. DEFINE S == {r.seq : r \in R}
<1>2. S \in SUBSET (0..MaxSeq) /\ S # {}
      BY <1>1
<1>. HIDE DEF S
<1>3. PICK x \in S : \A y \in S : x >= y
      BY <1>2, SeqAssumption, BoundedHasMax
<1>4. PICK m \in R : x = m.seq
      BY DEF S
<1>5. \A q \in R : q.seq \in S
      BY DEF S
<1>6. \A q \in R : q.seq <= m.seq
      BY <1>1, <1>3, <1>4, <1>5
<1>7. Newest(R) = CHOOSE r \in R : \A q \in R : q.seq <= r.seq
      BY DEF Newest
<1>8. Newest(R) \in R /\ \A q \in R : q.seq <= Newest(R).seq
      BY <1>6, <1>7
<1>9. ASSUME NEW r \in R, \A q \in R : q.seq <= r.seq PROVE r = Newest(R)
  <2>1. r.seq <= Newest(R).seq /\ Newest(R).seq <= r.seq
        BY <1>8, <1>9
  <2>2. r.seq = Newest(R).seq
        BY <1>1, <1>8, <2>1
  <2>. QED BY <1>8, <2>2 DEF Unique
<1>. QED BY <1>8, <1>9

\* The newest of the visible versions of each key are what the sources' gets return.
LEMMA NewestPerKey ==
    ASSUME NEW R \in SUBSET Record, Unique(R), NEW s
    PROVE  LET V == {r \in R : r.seq <= s}
           IN  {r \in V : \A q \in V : q.key = r.key => q.seq <= r.seq}
                   = {SourceGet(R, k, s) : k \in KeysOf(R)} \ {Absent}
<1>. DEFINE V == {r \in R : r.seq <= s}
            A == {r \in V : \A q \in V : q.key = r.key => q.seq <= r.seq}
<1>1. ASSUME NEW k
      PROVE  /\ Visible(R, k, s) = {r \in V : r.key = k}
             /\ Visible(R, k, s) \in SUBSET Record /\ Unique(Visible(R, k, s))
      BY UniquePart DEF Visible
<1>2. ASSUME NEW r \in A PROVE r \in {SourceGet(R, k, s) : k \in KeysOf(R)} \ {Absent}
  <2>. DEFINE W == Visible(R, r.key, s)
  <2>1. r \in V /\ r \in R /\ r.key \in KeysOf(R)
        BY DEF KeysOf
  <2>2. W = {q \in V : q.key = r.key} /\ W \in SUBSET Record /\ Unique(W)
        BY <1>1
  <2>. HIDE DEF W, V
  <2>3. r \in W /\ \A q \in W : q.seq <= r.seq
        BY <1>2, <2>1, <2>2
  <2>4. r = Newest(W)
        BY <2>2, <2>3, NewestIs
  <2>5. r # Absent
    <3>1. r.seq \in 1..MaxSeq
          BY <2>1, RecordTypes
    <3>2. Absent.seq = -1
          BY DEF Absent
    <3>3. r.seq # -1
          BY <3>1, SeqAssumption
    <3>. QED BY <3>2, <3>3
  <2>. QED BY <2>1, <2>4, <2>5 DEF SourceGet, W
<1>3. ASSUME NEW r \in {SourceGet(R, k, s) : k \in KeysOf(R)} \ {Absent} PROVE r \in A
  <2>1. PICK k \in KeysOf(R) : r = SourceGet(R, k, s)
        OBVIOUS
  <2>. DEFINE W == Visible(R, k, s)
  <2>2. W = {q \in V : q.key = k} /\ W \in SUBSET Record /\ Unique(W)
        BY <1>1
  <2>. HIDE DEF V, W
  <2>3. r = Newest(W) /\ r # Absent
        BY <2>1 DEF SourceGet, W
  <2>4. W # {}
        BY <2>3 DEF Newest
  <2>5. r \in W /\ \A q \in W : q.seq <= r.seq
        BY <2>2, <2>3, <2>4, NewestIs
  <2>. QED BY <2>2, <2>5
<1>. QED BY <1>2, <1>3

\* Each iterator's records are the visible ones of its source.
LEMMA IteratorsAre ==
    ASSUME NEW sources, Sorted(sources), NEW readSeq, NEW all,
           all = UNION {ToSet(t) : t \in ToSet(sources)}
    PROVE  LET its == [i \in DOMAIN sources |-> P!SnapshotIterator(sources[i], readSeq)]
           IN  /\ Sorted(its)
               /\ UNION {ToSet(its[i]) : i \in DOMAIN its} = {r \in all : r.seq <= readSeq}
<1>. DEFINE its == [i \in DOMAIN sources |-> P!SnapshotIterator(sources[i], readSeq)]
<1>1. sources \in Seq(Rows) /\ DOMAIN sources = 1..Len(sources) /\ Len(sources) \in Nat
      BY DEF Sorted
<1>2. ASSUME NEW i \in DOMAIN sources
      PROVE  /\ its[i] \in Rows /\ InOrder(its[i])
             /\ ToSet(its[i]) = {r \in ToSet(sources[i]) : r.seq <= readSeq}
  <2>1. sources[i] \in Rows /\ InOrder(sources[i])
        BY <1>1 DEF Sorted
  <2>2. its[i] = P!SnapshotIterator(sources[i], readSeq)
        OBVIOUS
  <2>. HIDE DEF its
  <2>. QED BY <2>1, <2>2, IteratorKeeps
<1>3. DOMAIN its = DOMAIN sources /\ its = [i \in 1..Len(sources) |-> its[i]]
      BY <1>1
<1>. HIDE DEF its
<1>4. its \in Seq(Rows)
  <2>1. \A i \in 1..Len(sources) : its[i] \in Rows
        BY <1>1, <1>2
  <2>. QED BY <1>1, <1>3, <2>1, IsASeq
<1>5. Sorted(its)
      BY <1>2, <1>3, <1>4 DEF Sorted
<1>6. ASSUME NEW r \in UNION {ToSet(its[i]) : i \in DOMAIN its} PROVE r \in all /\ r.seq <= readSeq
  <2>1. PICK i \in DOMAIN sources : r \in ToSet(its[i])
        BY <1>3
  <2>2. r \in ToSet(sources[i]) /\ r.seq <= readSeq
        BY <1>2, <2>1
  <2>3. sources[i] \in ToSet(sources)
        BY DEF ToSet
  <2>. QED BY <2>2, <2>3
<1>7. ASSUME NEW r \in all, r.seq <= readSeq PROVE r \in UNION {ToSet(its[i]) : i \in DOMAIN its}
  <2>1. PICK t \in ToSet(sources) : r \in ToSet(t)
        OBVIOUS
  <2>2. PICK i \in DOMAIN sources : t = sources[i]
        BY DEF ToSet
  <2>3. r \in ToSet(its[i])
        BY <1>2, <1>7, <2>1, <2>2
  <2>. QED BY <1>3, <2>3
<1>8. UNION {ToSet(its[i]) : i \in DOMAIN its} = {r \in all : r.seq <= readSeq}
      BY <1>6, <1>7
<1>. QED BY <1>5, <1>8 DEF its

LEMMA ScanIs ==
    ASSUME CompactionInv, NEW s
    PROVE  /\ ToSet(scan(s)) = {r \in {SourceGet(Stored, k, s) : k \in KeysOf(Stored)} \ {Absent} :
                                    r.val # Tombstone}
           /\ scan(s) \in Rows /\ Ascending(scan(s))
<1>. DEFINE its == [i \in DOMAIN Sources |-> P!SnapshotIterator(Sources[i], s)]
            merged == P!mergeAll(its)
            first == P!FirstPerKey(merged)
            V == {r \in Stored : r.seq <= s}
<1>0. LevelsOK(levels) /\ mem \in Rows /\ InOrder(mem) /\ Unique(Stored)
      BY DEF CompactionInv
<1>1. Stored \in SUBSET Record
      BY <1>0, StoredTypes
<1>2. Sorted(Sources) /\ UNION {ToSet(t) : t \in ToSet(Sources)} = Stored
      BY <1>0, SourcesAre
<1>3. Sorted(its) /\ UNION {ToSet(its[i]) : i \in DOMAIN its} = V
      BY <1>2, IteratorsAre, SMTT(30)
<1>4. scan(s) = P!WithoutTombstones(first)
      BY DEF scan, P!latestVisiblePerKey
<1>. HIDE DEF its
<1>5. merged \in Rows /\ InOrder(merged) /\ ToSet(merged) = V
      BY <1>3, MergeSorted
<1>6. Unique(V)
      BY <1>0, UniquePart
<1>. HIDE DEF merged, V
<1>7. /\ first \in Rows /\ InOrder(first) /\ Ascending(first)
      /\ ToSet(first) = {r \in V : \A q \in V : q.key = r.key => q.seq <= r.seq}
      BY <1>5, <1>6, FirstIsNewest
<1>. HIDE DEF first
<1>8. /\ scan(s) \in Rows /\ Ascending(scan(s))
      /\ ToSet(scan(s)) = {r \in ToSet(first) : r.val # Tombstone}
      BY <1>4, <1>7, WithoutTombstonesIs
<1>9. {r \in V : \A q \in V : q.key = r.key => q.seq <= r.seq}
          = {SourceGet(Stored, k, s) : k \in KeysOf(Stored)} \ {Absent}
      BY <1>0, <1>1, NewestPerKey DEF V
<1>. QED BY <1>7, <1>8, <1>9

\* A scan at any read point has for each key the newest visible version, unless it
\* is a tombstone, in ascending order of the keys, whatever the levels and however
\* often a failed flush has copied a record (ScanMatchesSets).
THEOREM ScansReturnNewest == Spec => []ScanMatchesSets
<1>1. CompactionInv => ScanMatchesSets
  <2>. SUFFICES ASSUME CompactionInv, NEW s \in ReadPoints
                PROVE  LET found == scan(s)
                           tables == UNION {ToSet(levels[l]) : l \in 0..MaxLevel}
                           stored == ToSet(mem) \cup UNION {ToSet(t) : t \in tables}
                           newest == {SourceGet(stored, k, s) : k \in KeysOf(stored)} \ {Absent}
                       IN  /\ ToSet(found) = {r \in newest : r.val # Tombstone}
                           /\ \A i, j \in DOMAIN found : i < j => found[i].key < found[j].key
       BY Zenon DEF ScanMatchesSets
  <2>. DEFINE tables == UNION {ToSet(levels[l]) : l \in 0..MaxLevel}
              stored == ToSet(mem) \cup UNION {ToSet(t) : t \in tables}
  <2>1. stored = Stored
    <3>1. Held(levels) = UNION {UNION {ToSet(t) : t \in ToSet(levels[l])} : l \in 0..MaxLevel}
          BY ContentsIs DEF Held
    <3>2. UNION {ToSet(t) : t \in tables} = Held(levels)
          BY <3>1
    <3>. QED BY <3>2 DEF Stored
  <2>. HIDE DEF stored
  <2>2. /\ ToSet(scan(s)) = {r \in {SourceGet(Stored, k, s) : k \in KeysOf(Stored)} \ {Absent} :
                                 r.val # Tombstone}
        /\ \A i, j \in DOMAIN scan(s) : i < j => scan(s)[i].key < scan(s)[j].key
        BY ScanIs DEF Ascending
  <2>3. /\ ToSet(scan(s)) = {r \in {SourceGet(stored, k, s) : k \in KeysOf(stored)} \ {Absent} :
                                 r.val # Tombstone}
        BY <2>1, <2>2
  <2>. QED BY <2>2, <2>3, Zenon DEF stored, tables
<1>. QED BY <1>1, CompactionInvariant, PTL
-----------------------------------------------------------------------------
(***************************************************************************)
(* How much there is.                                                      *)
(***************************************************************************)
\* The number of records in a sequence of tables, and in all levels.
Recs(tables) == P!Total(Lengths(tables))
PerLevel(L) == [n \in 1..(MaxLevel + 1) |-> Recs(L[n - 1])]
AllRecs(L) == P!Total(PerLevel(L))

\* No term is greater than the sum.
LEMMA TermBelowTotal ==
    ASSUME NEW q \in Seq(Nat), NEW k \in 1..Len(q)
    PROVE  P!Total(q) \in Nat /\ q[k] <= P!Total(q)
<1>. DEFINE r == [q EXCEPT ![k] = 0]
<1>1. AlikeBut(k, q, r) /\ r[k] = 0
      BY DEF AlikeBut
<1>. HIDE DEF r
<1>2. P!Total(q) \in Nat /\ P!Total(r) \in Nat /\ P!Total(r) + q[k] = P!Total(q) + r[k]
      BY <1>1, TotalChange
<1>3. q[k] \in Nat
      OBVIOUS
<1>. QED BY <1>1, <1>2, <1>3

\* A sum with one more term.
LEMMA TotalInserted ==
    ASSUME NEW q \in Seq(Nat), NEW k \in 1..(Len(q) + 1), NEW e \in Nat,
           NEW r, Inserted(r, Nat, q, k, e)
    PROVE  P!Total(q) \in Nat /\ P!Total(r) = P!Total(q) + e
<1>. DEFINE N == Len(q)
<1>0. N \in Nat /\ k \in Nat /\ 1 <= k /\ k <= N + 1 /\ Len(r) = N + 1 /\ r \in Seq(Nat)
      BY DEF Inserted
<1>1. /\ \A i \in 1..N : q[i] \in Nat
      /\ r[k] = e /\ (\A i \in 1..(k - 1) : r[i] = q[i])
      /\ \A i \in (k + 1)..(N + 1) : r[i] = q[i - 1]
      BY DEF Inserted
<1>2. PICK a : Adding(a, q) /\ P!Total(q) = a[N]
      BY <1>0, TotalSteps
<1>3. PICK b : Adding(b, r) /\ P!Total(r) = b[N + 1]
      BY <1>0, TotalSteps
<1>4. /\ a[0] = 0 /\ (\A n \in 1..N : a[n] = a[n - 1] + q[n])
      /\ b[0] = 0 /\ (\A n \in 1..(N + 1) : b[n] = b[n - 1] + r[n])
      BY <1>0, <1>2, <1>3 DEF Adding
<1>5. \A n \in 0..N : a[n] \in Nat
  <2>. DEFINE Good == {n \in 0..N : a[n] \in Nat}
  <2>1. 0 \in Good
        BY <1>0, <1>4
  <2>2. ASSUME NEW n \in 1..N, n - 1 \in Good PROVE n \in Good
    <3>1. a[n - 1] \in Nat /\ q[n] \in Nat /\ a[n] = a[n - 1] + q[n]
          BY <1>1, <1>4, <2>2
    <3>2. n \in 0..N
          BY <1>0
    <3>. QED BY <3>1, <3>2
  <2>. HIDE DEF Good
  <2>3. \A n \in 0..N : n \in Good
        BY <1>0, <2>1, <2>2, UpToInduction
  <2>. QED BY <2>3 DEF Good
<1>. DEFINE Good == {n \in 0..(N + 1) : /\ n < k => b[n] = a[n]
                                        /\ n >= k => b[n] = a[n - 1] + e}
<1>6. 0 \in Good
      BY <1>0, <1>4
<1>7. ASSUME NEW n \in 1..(N + 1), n - 1 \in Good PROVE n \in Good
  <2>0. n \in Nat /\ n \in 0..(N + 1) /\ (n - 1) \in 0..N
        BY <1>0
  <2>1. b[n] = b[n - 1] + r[n] /\ a[n - 1] \in Nat
        BY <1>4, <1>5, <2>0
  <2>2. (n - 1 < k => b[n - 1] = a[n - 1]) /\ (n - 1 >= k => b[n - 1] = a[(n - 1) - 1] + e)
        BY <1>7
  <2>3. CASE n < k
    <3>1. n \in 1..N /\ n \in 1..(k - 1) /\ n - 1 < k
          BY <1>0, <2>0, <2>3
    <3>2. a[n] = a[n - 1] + q[n] /\ r[n] = q[n]
          BY <1>1, <1>4, <3>1
    <3>. QED BY <1>0, <2>0, <2>1, <2>2, <2>3, <3>1, <3>2
  <2>4. CASE n = k
        BY <1>0, <1>1, <2>0, <2>1, <2>2, <2>4
  <2>5. CASE n > k
    <3>1. n \in (k + 1)..(N + 1) /\ (n - 1) \in 1..N /\ n - 1 >= k /\ (n - 1) - 1 \in 0..N
          BY <1>0, <2>0, <2>5
    <3>2. a[n - 1] = a[(n - 1) - 1] + q[n - 1] /\ r[n] = q[n - 1] /\ q[n - 1] \in Nat /\ a[(n - 1) - 1] \in Nat
          BY <1>1, <1>4, <1>5, <3>1
    <3>3. b[n] = a[n - 1] + e
          BY <2>1, <2>2, <3>1, <3>2, SMTT(30)
    <3>. QED BY <1>0, <2>0, <2>5, <3>3
  <2>. QED BY <1>0, <2>0, <2>3, <2>4, <2>5
<1>. HIDE DEF Good
<1>8. N + 1 \in Nat
      BY <1>0
<1>9. \A n \in 0..(N + 1) : n \in Good
      BY <1>6, <1>7, <1>8, UpToInduction
<1>10. N + 1 \in Good /\ N + 1 >= k /\ (N + 1) - 1 = N
       BY <1>0, <1>9
<1>. QED BY <1>0, <1>2, <1>3, <1>5, <1>10 DEF Good

LEMMA RowLength == ASSUME NEW s \in Rows PROVE Len(s) \in Nat /\ DOMAIN s = 1..Len(s)
BY DEF Rows

LEMMA LengthsAre ==
    ASSUME NEW tables \in Seq(Rows)
    PROVE  /\ Lengths(tables) \in Seq(Nat) /\ Len(Lengths(tables)) = Len(tables)
           /\ \A i \in 1..Len(tables) : Lengths(tables)[i] = Len(tables[i]) /\ Len(tables[i]) \in Nat
           /\ Recs(tables) \in Nat
<1>. DEFINE N == Len(tables)
            q == Lengths(tables)
<1>1. N \in Nat /\ DOMAIN tables = 1..N /\ \A i \in 1..N : tables[i] \in Rows
      OBVIOUS
<1>2. \A i \in 1..N : Len(tables[i]) \in Nat
      BY <1>1, RowLength
<1>3. q = [i \in 1..N |-> Len(tables[i])]
      BY <1>1 DEF Lengths
<1>4. q \in [1..N -> Nat]
      BY <1>2, <1>3
<1>5. q \in Seq(Nat)
      BY <1>1, <1>4, IsASeq
<1>6. Len(q) = N
      BY <1>1, <1>4, <1>5
<1>7. \A i \in 1..N : q[i] = Len(tables[i])
      BY <1>3
<1>. HIDE DEF q
<1>8. P!Total(q) \in Nat
  <2>1. \A i \in 1..Len(q) : q[i] <= q[i]
        BY <1>5
  <2>. QED BY <1>5, <2>1, TotalGrows
<1>. QED BY <1>2, <1>5, <1>6, <1>7, <1>8 DEF Recs, q

LEMMA RecsEmpty == <<>> \in Seq(Rows) /\ Recs(<<>>) = 0
<1>1. <<>> \in Seq(Rows) /\ <<>> \in Seq(Nat) /\ Len(<<>>) = 0
      OBVIOUS
<1>2. Lengths(<<>>) \in Seq(Nat) /\ Len(Lengths(<<>>)) = 0
      BY <1>1, LengthsAre
<1>3. P!Total(Lengths(<<>>)) = 0
      BY <1>2, TotalOfZeros
<1>. QED BY <1>1, <1>3 DEF Recs

\* A table more.
LEMMA RecsInserted ==
    ASSUME NEW s \in Seq(Rows), NEW p \in 1..(Len(s) + 1), NEW t \in Rows,
           NEW u, Inserted(u, Rows, s, p, t)
    PROVE  u \in Seq(Rows) /\ Recs(u) = Recs(s) + Len(t)
<1>. DEFINE q == Lengths(s)
            r == Lengths(u)
            N == Len(s)
<1>1. /\ u \in Seq(Rows) /\ Len(u) = N + 1 /\ u[p] = t /\ N \in Nat
      /\ \A i \in 1..(p - 1) : u[i] = s[i]
      /\ \A i \in (p + 1)..(N + 1) : u[i] = s[i - 1]
      BY DEF Inserted
<1>2. /\ q \in Seq(Nat) /\ Len(q) = N /\ \A i \in 1..N : q[i] = Len(s[i])
      BY LengthsAre
<1>3. /\ r \in Seq(Nat) /\ Len(r) = N + 1 /\ \A i \in 1..(N + 1) : r[i] = Len(u[i])
      BY <1>1, LengthsAre
<1>. HIDE DEF q, r
<1>4. /\ p \in Nat /\ p \in 1..(N + 1)
      /\ \A i \in 1..(p - 1) : i \in 1..N /\ i \in 1..(N + 1)
      /\ \A i \in (p + 1)..(N + 1) : i - 1 \in 1..N /\ i \in 1..(N + 1)
      BY <1>1
<1>5. r[p] = Len(t)
      BY <1>1, <1>3, <1>4
<1>6. \A i \in 1..(p - 1) : r[i] = q[i]
      BY <1>1, <1>2, <1>3, <1>4
<1>7. \A i \in (p + 1)..(N + 1) : r[i] = q[i - 1]
      BY <1>1, <1>2, <1>3, <1>4
<1>8. Inserted(r, Nat, q, p, Len(t))
      BY <1>2, <1>3, <1>5, <1>6, <1>7 DEF Inserted
<1>9. P!Total(r) = P!Total(q) + Len(t)
      BY <1>2, <1>4, <1>8, RowLength, TotalInserted
<1>. QED BY <1>1, <1>9 DEF Recs, q, r

LEMMA RecsAppended ==
    ASSUME NEW s \in Seq(Rows), NEW t \in Rows
    PROVE  Append(s, t) \in Seq(Rows) /\ Recs(Append(s, t)) = Recs(s) + Len(t)
<1>. DEFINE u == Append(s, t)
            p == Len(s) + 1
<1>1. u \in Seq(Rows) /\ Len(u) = Len(s) + 1 /\ u[p] = t /\ \A i \in 1..(p - 1) : u[i] = s[i]
      OBVIOUS
<1>2. (p + 1)..(Len(s) + 1) = {} /\ p \in 1..(Len(s) + 1)
      OBVIOUS
<1>. HIDE DEF u, p
<1>3. Inserted(u, Rows, s, p, t)
      BY <1>1, <1>2 DEF Inserted
<1>. QED BY <1>2, <1>3, RecsInserted DEF u

LEMMA RecsPushed ==
    ASSUME NEW s \in Seq(Rows), NEW t \in Rows
    PROVE  <<t>> \o s \in Seq(Rows) /\ Recs(<<t>> \o s) = Recs(s) + Len(t)
<1>. DEFINE u == <<t>> \o s
<1>1. <<t>> \in Seq(Rows) /\ Len(<<t>>) = 1 /\ <<t>>[1] = t
      OBVIOUS
<1>2. /\ u \in Seq(Rows) /\ Len(u) = 1 + Len(s)
      /\ \A i \in 1..(1 + Len(s)) : u[i] = IF i <= 1 THEN <<t>>[i] ELSE s[i - 1]
  <2>1. <<t>> \in Seq(Rows) /\ s \in Seq(Rows)
        BY <1>1
  <2>. QED BY <1>1, <2>1, ConcatProperties
<1>. HIDE DEF u
<1>3. /\ Len(s) \in Nat /\ 1 \in 1..(1 + Len(s)) /\ 1..(1 - 1) = {}
      /\ \A i \in (1 + 1)..(Len(s) + 1) : i \in 1..(1 + Len(s)) /\ ~(i <= 1)
      OBVIOUS
<1>4. u[1] = t /\ \A i \in (1 + 1)..(Len(s) + 1) : u[i] = s[i - 1]
      BY <1>1, <1>2, <1>3
<1>5. Inserted(u, Rows, s, 1, t)
      BY <1>2, <1>3, <1>4 DEF Inserted
<1>. QED BY <1>3, <1>5, RecsInserted DEF u

\* s is q followed by r.
Joined(s, q, r) ==
    /\ q \in Seq(Nat) /\ r \in Seq(Nat) /\ s \in Seq(Nat) /\ Len(s) = Len(q) + Len(r)
    /\ \A i \in 1..Len(q) : s[i] = q[i]
    /\ \A i \in 1..Len(r) : s[Len(q) + i] = r[i]

LEMMA TotalJoined ==
    ASSUME NEW s, NEW q, NEW r, Joined(s, q, r)
    PROVE  P!Total(s) = P!Total(q) + P!Total(r)
<1>. DEFINE K == Len(q)
            N == Len(r)
<1>0. /\ K \in Nat /\ N \in Nat /\ Len(s) = K + N
      /\ \A i \in 1..K : s[i] = q[i] /\ q[i] \in Nat
      /\ \A i \in 1..N : s[K + i] = r[i] /\ r[i] \in Nat
  <2>1. q \in Seq(Nat) /\ r \in Seq(Nat) /\ Len(s) = K + N
        BY DEF Joined
  <2>2. K \in Nat /\ N \in Nat /\ (\A i \in 1..K : q[i] \in Nat) /\ \A i \in 1..N : r[i] \in Nat
        BY <2>1
  <2>. QED BY <2>1, <2>2, Zenon DEF Joined
<1>1. PICK a : Adding(a, q) /\ P!Total(q) = a[K]
      BY <1>0, TotalSteps
<1>2. PICK b : Adding(b, r) /\ P!Total(r) = b[N]
      BY <1>0, TotalSteps
<1>3. PICK c : Adding(c, s) /\ P!Total(s) = c[K + N]
  <2>1. Len(s) \in Nat /\ Len(s) = K + N
        BY <1>0
  <2>2. PICK c : Adding(c, s) /\ P!Total(s) = c[Len(s)]
        BY <2>1, TotalSteps
  <2>. QED BY <2>1, <2>2
<1>. HIDE DEF K, N
<1>4. /\ a[0] = 0 /\ b[0] = 0 /\ c[0] = 0
      /\ \A n \in 1..K : a[n] = a[n - 1] + q[n]
      /\ \A n \in 1..N : b[n] = b[n - 1] + r[n]
      /\ \A n \in 1..(K + N) : c[n] = c[n - 1] + s[n]
      BY <1>0, <1>1, <1>2, <1>3 DEF Adding, K, N
<1>. DEFINE Early == {n \in 0..K : a[n] \in Nat /\ c[n] = a[n]}
<1>5. 0 \in Early
      BY <1>0, <1>4
<1>6. ASSUME NEW n \in 1..K, n - 1 \in Early PROVE n \in Early
  <2>1. a[n - 1] \in Nat /\ c[n - 1] = a[n - 1] /\ q[n] \in Nat /\ s[n] = q[n]
        BY <1>0, <1>6
  <2>2. n \in 1..(K + N) /\ n \in 0..K
        BY <1>0
  <2>3. a[n] = a[n - 1] + q[n] /\ c[n] = c[n - 1] + s[n]
        BY <1>4, <2>2
  <2>. QED BY <2>1, <2>2, <2>3
<1>. HIDE DEF Early
<1>7. \A n \in 0..K : n \in Early
      BY <1>0, <1>5, <1>6, UpToInduction
<1>8. K \in Early
      BY <1>0, <1>7
<1>9. a[K] \in Nat /\ c[K] = a[K]
      BY <1>8 DEF Early
<1>. DEFINE Late == {n \in 0..N : b[n] \in Nat /\ c[K + n] = a[K] + b[n]}
<1>10. 0 \in Late
       BY <1>0, <1>4, <1>9
<1>11. ASSUME NEW n \in 1..N, n - 1 \in Late PROVE n \in Late
  <2>1. b[n - 1] \in Nat /\ c[K + (n - 1)] = a[K] + b[n - 1] /\ r[n] \in Nat /\ s[K + n] = r[n]
        BY <1>0, <1>11
  <2>2. K + n \in 1..(K + N) /\ n \in 0..N /\ (K + n) - 1 = K + (n - 1)
        BY <1>0
  <2>3. b[n] = b[n - 1] + r[n] /\ c[K + n] = c[(K + n) - 1] + s[K + n]
        BY <1>4, <2>2
  <2>4. b[n] \in Nat /\ c[K + n] = a[K] + b[n]
        BY <1>9, <2>1, <2>2, <2>3
  <2>. QED BY <2>2, <2>4
<1>. HIDE DEF Late
<1>12. \A n \in 0..N : n \in Late
       BY <1>0, <1>10, <1>11, UpToInduction
<1>13. N \in Late
       BY <1>0, <1>12
<1>. QED BY <1>1, <1>2, <1>3, <1>13 DEF Late

LEMMA RecsConcat ==
    ASSUME NEW s \in Seq(Rows), NEW t \in Seq(Rows)
    PROVE  Recs(s \o t) = Recs(s) + Recs(t)
<1>. DEFINE u == s \o t
<1>1. /\ u \in Seq(Rows) /\ Len(u) = Len(s) + Len(t) /\ Len(s) \in Nat /\ Len(t) \in Nat
      /\ \A i \in 1..(Len(s) + Len(t)) : u[i] = IF i <= Len(s) THEN s[i] ELSE t[i - Len(s)]
      BY ConcatProperties
<1>. HIDE DEF u
<1>2. /\ Lengths(s) \in Seq(Nat) /\ Len(Lengths(s)) = Len(s)
      /\ \A i \in 1..Len(s) : Lengths(s)[i] = Len(s[i])
      BY LengthsAre
<1>3. /\ Lengths(t) \in Seq(Nat) /\ Len(Lengths(t)) = Len(t)
      /\ \A i \in 1..Len(t) : Lengths(t)[i] = Len(t[i])
      BY LengthsAre
<1>4. /\ Lengths(u) \in Seq(Nat) /\ Len(Lengths(u)) = Len(u)
      /\ \A i \in 1..Len(u) : Lengths(u)[i] = Len(u[i])
      BY <1>1, LengthsAre
<1>5. ASSUME NEW i \in 1..Len(s) PROVE Lengths(u)[i] = Lengths(s)[i]
  <2>1. i \in 1..(Len(s) + Len(t)) /\ i <= Len(s)
        BY <1>1
  <2>. QED BY <1>1, <1>2, <1>4, <2>1
<1>6. ASSUME NEW i \in 1..Len(t) PROVE Lengths(u)[Len(s) + i] = Lengths(t)[i]
  <2>1. Len(s) + i \in 1..(Len(s) + Len(t)) /\ ~(Len(s) + i <= Len(s)) /\ (Len(s) + i) - Len(s) = i
        BY <1>1
  <2>2. u[Len(s) + i] = t[i]
        BY <1>1, <2>1
  <2>. QED BY <1>1, <1>3, <1>4, <2>1, <2>2
<1>7. Joined(Lengths(u), Lengths(s), Lengths(t))
      BY <1>1, <1>2, <1>3, <1>4, <1>5, <1>6 DEF Joined
<1>. QED BY <1>7, TotalJoined DEF Recs, u

\* Disjoint selections have no more records than what they select from.
LEMMA RecsOfParts ==
    ASSUME NEW s \in Seq(Rows), NEW I, NEW J, I \cap J = {}
    PROVE  Recs(P!Selected(s, I)) + Recs(P!Selected(s, J)) <= Recs(s)
<1>. DEFINE N == Len(s)
            q == Lengths(s)
<1>0. N \in Nat /\ \A i \in 1..N : s[i] \in Rows
      OBVIOUS
<1>1. q \in Seq(Nat) /\ Len(q) = N /\ \A i \in 1..N : q[i] = Len(s[i]) /\ Len(s[i]) \in Nat
      BY LengthsAre
<1>2. PICK a : Selecting(a, s, I) /\ P!Selected(s, I) = a[N]
      BY <1>0, SelectedSteps
<1>3. PICK b : Selecting(b, s, J) /\ P!Selected(s, J) = b[N]
      BY <1>0, SelectedSteps
<1>4. PICK c : Adding(c, q) /\ P!Total(q) = c[N]
      BY <1>0, <1>1, TotalSteps
<1>. HIDE DEF q
<1>. DEFINE Good == {n \in 0..N : /\ a[n] \in Seq(Rows) /\ b[n] \in Seq(Rows) /\ c[n] \in Nat
                                  /\ Recs(a[n]) + Recs(b[n]) <= c[n]}
<1>5. 0 \in Good
  <2>1. a[0] = <<>> /\ b[0] = <<>> /\ c[0] = 0
        BY <1>2, <1>3, <1>4 DEF Selecting, Adding
  <2>2. a[0] \in Seq(Rows) /\ b[0] \in Seq(Rows) /\ Recs(a[0]) = 0 /\ Recs(b[0]) = 0
        BY <2>1, RecsEmpty
  <2>3. Recs(a[0]) + Recs(b[0]) <= c[0] /\ c[0] \in Nat
        BY <2>1, <2>2
  <2>. QED BY <1>0, <2>2, <2>3
<1>6. ASSUME NEW n \in 1..N, n - 1 \in Good PROVE n \in Good
  <2>0. n \in 0..N /\ s[n] \in Rows
        BY <1>0
  <2>1. /\ a[n] = IF n \in I THEN Append(a[n - 1], s[n]) ELSE a[n - 1]
        /\ b[n] = IF n \in J THEN Append(b[n - 1], s[n]) ELSE b[n - 1]
        /\ c[n] = c[n - 1] + Len(s[n]) /\ Len(s[n]) \in Nat
        BY <1>1, <1>2, <1>3, <1>4 DEF Selecting, Adding
  <2>2. /\ a[n - 1] \in Seq(Rows) /\ b[n - 1] \in Seq(Rows) /\ c[n - 1] \in Nat
        /\ Recs(a[n - 1]) + Recs(b[n - 1]) <= c[n - 1]
        BY <1>6
  <2>3. /\ Recs(a[n - 1]) \in Nat /\ Recs(b[n - 1]) \in Nat
        BY <2>2, LengthsAre
  <2>4. /\ a[n] \in Seq(Rows)
        /\ Recs(a[n]) = IF n \in I THEN Recs(a[n - 1]) + Len(s[n]) ELSE Recs(a[n - 1])
        BY <2>0, <2>1, <2>2, RecsAppended
  <2>5. /\ b[n] \in Seq(Rows)
        /\ Recs(b[n]) = IF n \in J THEN Recs(b[n - 1]) + Len(s[n]) ELSE Recs(b[n - 1])
        BY <2>0, <2>1, <2>2, RecsAppended
  <2>6. c[n] \in Nat
        BY <2>1, <2>2
  <2>. DEFINE x == Recs(a[n - 1])  y == Recs(b[n - 1])  z == c[n - 1]  e == Len(s[n])
  <2>7. /\ x \in Nat /\ y \in Nat /\ z \in Nat /\ e \in Nat /\ x + y <= z
        /\ Recs(a[n]) = (IF n \in I THEN x + e ELSE x) /\ Recs(b[n]) = (IF n \in J THEN y + e ELSE y)
        /\ c[n] = z + e /\ ~(n \in I /\ n \in J)
        BY <2>1, <2>2, <2>3, <2>4, <2>5
  <2>. HIDE DEF x, y, z, e
  <2>8. Recs(a[n]) + Recs(b[n]) <= c[n]
        BY <2>7
  <2>. QED BY <2>0, <2>4, <2>5, <2>6, <2>8
<1>. HIDE DEF Good
<1>7. \A n \in 0..N : n \in Good
      BY <1>0, <1>5, <1>6, UpToInduction
<1>8. N \in Good
      BY <1>0, <1>7
<1>. QED BY <1>2, <1>3, <1>4, <1>8 DEF Good, Recs, q

LEMMA SelectedShorter ==
    ASSUME NEW S, NEW s \in Seq(S), NEW I
    PROVE  P!Selected(s, I) \in Seq(S) /\ Len(P!Selected(s, I)) <= Len(s)
<1>0. Len(s) \in Nat /\ \A n \in 1..Len(s) : s[n] \in S
      OBVIOUS
<1>1. PICK upto : Selecting(upto, s, I) /\ P!Selected(s, I) = upto[Len(s)]
      BY <1>0, SelectedSteps
<1>. DEFINE N == Len(s)
            Good == {n \in 0..N : upto[n] \in Seq(S) /\ Len(upto[n]) <= n}
<1>2. 0 \in Good
  <2>1. upto[0] = <<>>
        BY <1>1 DEF Selecting
  <2>2. upto[0] \in Seq(S) /\ Len(upto[0]) = 0
        BY <2>1
  <2>. QED BY <1>0, <2>2
<1>3. ASSUME NEW n \in 1..N, n - 1 \in Good PROVE n \in Good
  <2>. DEFINE u == upto[n - 1]
  <2>1. upto[n] = IF n \in I THEN Append(u, s[n]) ELSE u
        BY <1>1 DEF Selecting
  <2>2. u \in Seq(S) /\ Len(u) <= n - 1 /\ s[n] \in S /\ n \in 0..N /\ n \in Nat
        BY <1>0, <1>3
  <2>. HIDE DEF u
  <2>3. Append(u, s[n]) \in Seq(S) /\ Len(Append(u, s[n])) = Len(u) + 1 /\ Len(u) \in Nat
        BY <2>2
  <2>4. upto[n] \in Seq(S) /\ Len(upto[n]) <= n
        BY <2>1, <2>2, <2>3
  <2>. QED BY <2>2, <2>4
<1>. HIDE DEF Good
<1>4. \A n \in 0..N : n \in Good
      BY <1>0, <1>2, <1>3, UpToInduction
<1>5. N \in Good
      BY <1>0, <1>4
<1>. QED BY <1>1, <1>5 DEF Good

LEMMA SelectedOne ==
    ASSUME NEW S, NEW s \in Seq(S), NEW p \in 1..Len(s)
    PROVE  P!Selected(s, {p}) = <<s[p]>>
<1>. DEFINE u == P!Selected(s, {p})
            I == {p}
<1>0. I \in SUBSET (1..Len(s)) /\ p <= Len(s)
      OBVIOUS
<1>. HIDE DEF I
<1>1. PICK at : Picks(P!Selected(s, I), at, S, s, I, Len(s))
      BY <1>0, SelectedPicks
<1>2. Picks(u, at, S, s, {p}, Len(s))
      BY <1>1 DEF I
<1>. HIDE DEF u
<1>3. /\ u \in Seq(S) /\ Len(u) \in Nat /\ DOMAIN u = 1..Len(u)
      /\ \A i \in 1..Len(u) : at[i] = p /\ u[i] = s[p]
      /\ \A i, j \in 1..Len(u) : i < j => at[i] < at[j]
      /\ \E i \in 1..Len(u) : at[i] = p
      BY <1>0, <1>2 DEF Picks
<1>4. Len(u) >= 1
      BY <1>3
<1>5. ~(Len(u) >= 2)
  <2>1. SUFFICES ASSUME Len(u) >= 2 PROVE FALSE
        OBVIOUS
  <2>2. 1 \in 1..Len(u) /\ 2 \in 1..Len(u)
        BY <1>3, <2>1
  <2>3. at[1] = p /\ at[2] = p /\ at[1] < at[2]
        BY <1>3, <2>2
  <2>4. p < p /\ p \in Nat
        BY <2>3
  <2>. QED BY <2>4
<1>6. Len(u) = 1 /\ u[1] = s[p]
      BY <1>3, <1>4, <1>5
<1>7. u = <<s[p]>>
      BY <1>3, <1>6
<1>. QED BY <1>7 DEF u

\* A merge has as many records as its sources.
LEMMA MergeCounts ==
    ASSUME NEW sources, Sorted(sources)
    PROVE  Len(P!mergeAll(sources)) = Recs(sources)
<1>. DEFINE N == P!Total(Lengths(sources))
<1>1. N \in Nat
      BY MergeTurns
<1>2. PICK upto : AllTurns(upto, sources, N) /\ P!mergeAll(sources) = upto[N].result
      BY MergeTurns
<1>. HIDE DEF N
<1>. DEFINE Good == {n \in 0..N : Len(upto[n].result) = n}
<1>3. 0 \in Good
  <2>1. upto[0].result = <<>> /\ Len(<<>>) = 0
        BY <1>2 DEF AllTurns, Merging
  <2>. QED BY <1>1, <2>1
<1>4. ASSUME NEW n \in 1..N, n - 1 \in Good PROVE n \in Good
  <2>. DEFINE old == upto[n - 1].result
  <2>0. n \in Nat /\ n \in 0..N /\ n - 1 \in 0..N
        BY <1>1
  <2>1. upto[n] = P!Advance(sources, upto[n - 1])
        BY <1>2, Zenon DEF AllTurns, Merging
  <2>2. \E x : upto[n].result = Append(old, x)
        BY <2>1 DEF P!Advance
  <2>3. old \in Rows /\ upto[n].result \in Rows
        BY <1>2, <2>0 DEF AllTurns, Taken
  <2>4. Len(old) = n - 1
        BY <1>4
  <2>. HIDE DEF old
  <2>5. PICK x : upto[n].result = Append(old, x)
        BY <2>2
  <2>6. Len(upto[n].result) = Len(old) + 1
        BY <2>3, <2>5 DEF Rows
  <2>. QED BY <2>0, <2>4, <2>6
<1>. HIDE DEF Good
<1>5. \A n \in 0..N : n \in Good
      BY <1>1, <1>3, <1>4, UpToInduction
<1>6. N \in Good
      BY <1>1, <1>5
<1>. QED BY <1>2, <1>6 DEF Good, Recs, N

\* The slices have the records that are cut.
LEMMA SlicesCount ==
    ASSUME NEW recs \in Rows, NEW threshold
    PROVE  Recs(P!writeCompactionOutput(recs, threshold)) = Len(recs)
<1>. DEFINE N == Len(recs)
            Cuts(loop, n) == /\ loop.output \in Seq(Rows) /\ loop.begin \in 1..(n + 1)
                             /\ Recs(loop.output) = loop.begin - 1
<1>0. N \in Nat /\ recs \in Seq(Record)
      BY DEF Rows
<1>1. PICK upto : /\ Slicing(upto, recs, threshold)
                  /\ P!writeCompactionOutput(recs, threshold) = FinalSlice(recs, upto[N])
      BY <1>0, SliceSteps
<1>2. ASSUME NEW out \in Seq(Rows), NEW n \in 1..N, NEW b \in 1..n, Recs(out) = b - 1
      PROVE  LET new == Append(out, SubSeq(recs, b, n)) IN new \in Seq(Rows) /\ Recs(new) = n
  <2>. DEFINE s == SubSeq(recs, b, n)
  <2>1. n \in Nat /\ b \in Nat /\ 1 <= b /\ b <= n /\ n <= N
        BY <1>0
  <2>2. s \in Seq(Record) /\ Len(s) = n - b + 1
        BY <1>0, <2>1, SubSeqProperties
  <2>. HIDE DEF s
  <2>3. Append(out, s) \in Seq(Rows) /\ Recs(Append(out, s)) = Recs(out) + Len(s)
        BY <2>2, RecsAppended DEF Rows
  <2>4. Recs(Append(out, s)) = n
        BY <1>2, <2>1, <2>2, <2>3
  <2>. QED BY <2>3, <2>4 DEF s
<1>. DEFINE Good == {n \in 0..N : Cuts(upto[n], n)}
<1>3. 0 \in Good
  <2>1. upto[0].output = <<>> /\ upto[0].begin = 1
        BY <1>1 DEF Slicing
  <2>2. upto[0].output \in Seq(Rows) /\ Recs(upto[0].output) = 0
        BY <2>1, RecsEmpty
  <2>3. Cuts(upto[0], 0)
        BY <2>1, <2>2
  <2>. QED BY <1>0, <2>3
<1>4. ASSUME NEW n \in 1..N, n - 1 \in Good PROVE n \in Good
  <2>. DEFINE loop == upto[n - 1]
              out == loop.output
              b == loop.begin
              new == Append(out, SubSeq(recs, b, n))
              cut == [output |-> new, begin |-> n + 1]
  <2>0. n \in Nat /\ n \in 0..N
        BY <1>0
  <2>1. upto[n] = P!Cut(recs, threshold, loop, n)
        BY <1>1 DEF Slicing
  <2>2. upto[n] = loop \/ upto[n] = cut
        BY <2>1 DEF P!Cut
  <2>3. out \in Seq(Rows) /\ b \in 1..((n - 1) + 1) /\ Recs(out) = b - 1
        BY <1>4
  <2>. HIDE DEF loop, out, b
  <2>4. b \in 1..n /\ b \in 1..(n + 1)
        BY <2>0, <2>3
  <2>5. CASE upto[n] = loop
    <3>1. Cuts(upto[n], n)
          BY <2>3, <2>4, <2>5 DEF out, b
    <3>. QED BY <2>0, <3>1
  <2>6. CASE upto[n] = cut
    <3>1. new \in Seq(Rows) /\ Recs(new) = n
          BY <1>2, <2>3, <2>4
    <3>. HIDE DEF new
    <3>2. upto[n].output = new /\ upto[n].begin = n + 1
          BY <2>6
    <3>3. n + 1 \in 1..(n + 1) /\ (n + 1) - 1 = n
          BY <2>0
    <3>4. Cuts(upto[n], n)
          BY <3>1, <3>2, <3>3
    <3>. QED BY <2>0, <3>4
  <2>. QED BY <2>2, <2>5, <2>6
<1>. HIDE DEF Good
<1>5. \A n \in 0..N : n \in Good
      BY <1>0, <1>3, <1>4, UpToInduction
<1>. DEFINE end == upto[N]
            out == end.output
            b == end.begin
<1>6. out \in Seq(Rows) /\ b \in 1..(N + 1) /\ Recs(out) = b - 1
      BY <1>0, <1>5 DEF Good
<1>7. FinalSlice(recs, end) = IF b > N THEN out ELSE Append(out, SubSeq(recs, b, N))
      BY DEF FinalSlice
<1>. HIDE DEF end, out, b
<1>8. CASE b > N
  <2>1. b - 1 = N
        BY <1>0, <1>6, <1>8
  <2>. QED BY <1>1, <1>6, <1>7, <1>8, <2>1 DEF end
<1>9. CASE ~(b > N)
  <2>1. N \in 1..N /\ b \in 1..N
        BY <1>0, <1>6, <1>9
  <2>2. Recs(Append(out, SubSeq(recs, b, N))) = N
        BY <1>2, <1>6, <2>1
  <2>. QED BY <1>1, <1>7, <1>9, <2>2 DEF end
<1>. QED BY <1>8, <1>9

\* A compaction writes no more records than it reads.
LEMMA OutputCounts ==
    ASSUME LevelsOK(levels), JobOK(job, levels), NEW oldest
    PROVE  Recs(Output(oldest)) <= Recs(job.tables) + Recs(job.below)
<1>. DEFINE sources == job.tables \o job.below
            merged == P!mergeAll(sources)
            kept == P!retainForCompaction(merged, oldest)
<1>1. job.tables \in Seq(Rows) /\ job.below \in Seq(Rows) /\ Runs(job.tables) /\ Runs(job.below)
      BY DEF JobOK, Runs
<1>2. Runs(sources)
      BY <1>1, ConcatRuns
<1>3. Recs(sources) = Recs(job.tables) + Recs(job.below)
      BY <1>1, RecsConcat
<1>4. Output(oldest) = P!writeCompactionOutput(kept, SliceBytes)
      BY DEF Output
<1>. HIDE DEF sources
<1>5. Sorted(sources)
      BY <1>2 DEF Runs, Sorted
<1>6. merged \in Rows /\ InOrder(merged) /\ Len(merged) = Recs(sources)
      BY <1>5, MergeSorted, MergeCounts
<1>. HIDE DEF merged
<1>7. kept \in Rows /\ Len(kept) <= Len(merged)
  <2>1. PICK I : kept = P!Selected(merged, I)
        BY <1>6, KeptIsCovered
  <2>. HIDE DEF kept
  <2>. QED BY <1>6, <2>1, SelectedShorter DEF Rows
<1>. HIDE DEF kept
<1>8. Recs(Output(oldest)) = Len(kept)
      BY <1>4, <1>7, SlicesCount
<1>. QED BY <1>3, <1>6, <1>7, <1>8

LEMMA PerLevelIs ==
    ASSUME NEW L \in [0..MaxLevel -> Seq(Rows)]
    PROVE  /\ PerLevel(L) \in Seq(Nat) /\ Len(PerLevel(L)) = MaxLevel + 1
           /\ \A l \in 0..MaxLevel : /\ l + 1 \in 1..(MaxLevel + 1)
                                     /\ PerLevel(L)[l + 1] = Recs(L[l]) /\ Recs(L[l]) \in Nat
           /\ AllRecs(L) \in Nat
<1>. DEFINE q == PerLevel(L)
            N == MaxLevel + 1
<1>0. N \in Nat /\ \A n \in 1..N : n - 1 \in 0..MaxLevel
      BY LevelAssumption
<1>1. \A l \in 0..MaxLevel : l + 1 \in 1..N /\ (l + 1) - 1 = l
      BY LevelAssumption
<1>2. \A l \in 0..MaxLevel : Recs(L[l]) \in Nat
      BY LengthsAre
<1>3. q = [n \in 1..N |-> Recs(L[n - 1])]
      BY DEF PerLevel
<1>4. q \in [1..N -> Nat]
      BY <1>0, <1>2, <1>3
<1>5. \A l \in 0..MaxLevel : q[l + 1] = Recs(L[l])
      BY <1>1, <1>3
<1>. HIDE DEF q
<1>6. q \in Seq(Nat)
      BY <1>0, <1>4, IsASeq
<1>7. Len(q) = N
      BY <1>0, <1>4, <1>6
<1>8. P!Total(q) \in Nat
  <2>1. \A i \in 1..Len(q) : q[i] <= q[i]
        BY <1>6
  <2>. QED BY <1>6, <2>1, TotalGrows
<1>. QED BY <1>1, <1>2, <1>5, <1>6, <1>7, <1>8 DEF q, AllRecs

\* One level changes.
LEMMA AllRecsChange ==
    ASSUME NEW L \in [0..MaxLevel -> Seq(Rows)], NEW M \in [0..MaxLevel -> Seq(Rows)],
           NEW k \in 0..MaxLevel, \A l \in 0..MaxLevel : l # k => M[l] = L[l]
    PROVE  AllRecs(M) + Recs(L[k]) = AllRecs(L) + Recs(M[k])
<1>. DEFINE q == PerLevel(L)
            r == PerLevel(M)
<1>1. /\ q \in Seq(Nat) /\ Len(q) = MaxLevel + 1 /\ k + 1 \in 1..(MaxLevel + 1)
      /\ \A l \in 0..MaxLevel : q[l + 1] = Recs(L[l])
      BY PerLevelIs
<1>2. r \in Seq(Nat) /\ Len(r) = MaxLevel + 1 /\ \A l \in 0..MaxLevel : r[l + 1] = Recs(M[l])
      BY PerLevelIs
<1>. HIDE DEF q, r
<1>3. ASSUME NEW i \in 1..(MaxLevel + 1), i # k + 1 PROVE r[i] = q[i]
  <2>1. i - 1 \in 0..MaxLevel /\ (i - 1) + 1 = i /\ i - 1 # k
        BY <1>3, LevelAssumption
  <2>2. M[i - 1] = L[i - 1]
        BY <2>1
  <2>3. r[(i - 1) + 1] = Recs(M[i - 1]) /\ q[(i - 1) + 1] = Recs(L[i - 1])
        BY <1>1, <1>2, <2>1
  <2>. QED BY <2>1, <2>2, <2>3
<1>4. AlikeBut(k + 1, q, r)
      BY <1>1, <1>2, <1>3 DEF AlikeBut
<1>5. P!Total(r) + q[k + 1] = P!Total(q) + r[k + 1]
      BY <1>4, TotalChange
<1>. QED BY <1>1, <1>2, <1>5 DEF AllRecs, q, r

LEMMA InsertCounts ==
    ASSUME NEW level \in Seq(Rows), NEW t \in Rows
    PROVE  /\ InsertTable(level, t) \in Seq(Rows)
           /\ Recs(InsertTable(level, t)) = Recs(level) + Len(t)
<1>. DEFINE L == Len(level)
            P0 == {i \in 1..(L + 1) : i <= L => minKeyOf(level[i]) >= minKeyOf(t)}
            p == Min(P0)
<1>0. L \in Nat /\ L + 1 \in 1..(L + 1) /\ ~(L + 1 <= L)
      OBVIOUS
<1>1. P0 \in SUBSET Nat /\ L + 1 \in P0 /\ P0 \subseteq 1..(L + 1)
      BY <1>0
<1>2. InsertTable(level, t) = InsertAt(level, p, t)
      BY DEF InsertTable
<1>. HIDE DEF P0
<1>3. p \in 1..(L + 1)
      BY <1>1, MinNat
<1>. HIDE DEF p
<1>4. Inserted(InsertAt(level, p, t), Rows, level, p, t)
      BY <1>3, InsertedAt
<1>. QED BY <1>2, <1>3, <1>4, RecsInserted

LEMMA InsertAllCounts ==
    ASSUME NEW outputs \in Seq(Rows), NEW upto, Inserting(upto, outputs),
           Kept[Target(job.level)] \in Seq(Rows)
    PROVE  /\ upto[Len(outputs)] \in Seq(Rows)
           /\ Recs(upto[Len(outputs)]) = Recs(Kept[Target(job.level)]) + Recs(outputs)
<1>. DEFINE N == Len(outputs)
            old == Recs(Kept[Target(job.level)])
            q == Lengths(outputs)
<1>0. N \in Nat /\ (\A n \in 1..N : outputs[n] \in Rows) /\ old \in Nat
      BY LengthsAre
<1>1. q \in Seq(Nat) /\ Len(q) = N /\ \A i \in 1..N : q[i] = Len(outputs[i]) /\ Len(outputs[i]) \in Nat
      BY LengthsAre
<1>2. PICK c : Adding(c, q) /\ P!Total(q) = c[N]
      BY <1>0, <1>1, TotalSteps
<1>. HIDE DEF q
<1>. DEFINE Good == {n \in 0..N : upto[n] \in Seq(Rows) /\ c[n] \in Nat /\ Recs(upto[n]) = old + c[n]}
<1>3. 0 \in Good
  <2>1. upto[0] = Kept[Target(job.level)] /\ c[0] = 0
        BY <1>2 DEF Inserting, Adding
  <2>2. Recs(upto[0]) = old + c[0] /\ c[0] \in Nat
        BY <1>0, <2>1
  <2>3. upto[0] \in Seq(Rows)
        BY <2>1
  <2>. HIDE DEF old
  <2>. QED BY <1>0, <2>2, <2>3
<1>. HIDE DEF old
<1>4. ASSUME NEW n \in 1..N, n - 1 \in Good PROVE n \in Good
  <2>1. /\ upto[n] = InsertTable(upto[n - 1], outputs[n])
        /\ c[n] = c[n - 1] + Len(outputs[n]) /\ Len(outputs[n]) \in Nat
        BY <1>1, <1>2 DEF Inserting, Adding
  <2>2. upto[n - 1] \in Seq(Rows) /\ c[n - 1] \in Nat /\ Recs(upto[n - 1]) = old + c[n - 1]
        BY <1>4
  <2>3. upto[n] \in Seq(Rows) /\ Recs(upto[n]) = Recs(upto[n - 1]) + Len(outputs[n])
        BY <1>0, <2>1, <2>2, InsertCounts
  <2>. DEFINE x == c[n - 1]  y == Len(outputs[n])
  <2>4. x \in Nat /\ y \in Nat /\ c[n] = x + y /\ Recs(upto[n]) = (old + x) + y
        BY <2>1, <2>2, <2>3
  <2>. HIDE DEF x, y
  <2>5. c[n] \in Nat /\ Recs(upto[n]) = old + c[n] /\ n \in 0..N
        BY <1>0, <2>4
  <2>. QED BY <2>3, <2>5
<1>. HIDE DEF Good
<1>5. \A n \in 0..N : n \in Good
      BY <1>0, <1>3, <1>4, UpToInduction
<1>6. N \in Good
      BY <1>0, <1>5
<1>. QED BY <1>2, <1>6 DEF Good, Recs, old, q

LEMMA Products ==
    ASSUME NEW a \in Nat, NEW b \in Nat, NEW c \in Nat
    PROVE  /\ a * c \in Nat /\ (a + b) * c = a * c + b * c
           /\ a <= b => a * c <= b * c
OBVIOUS

(***************************************************************************)
(* Each write adds one record, and each flush that fails behind its save   *)
(* lists the records of the memtable once more; a compaction writes no     *)
(* more records than it reads.                                             *)
(***************************************************************************)
\* Records there may be after t failures and n writes.
Allowed(t, n) == (t + 1) * n

CountInv ==
    /\ trouble \in 0..MaxTrouble /\ nextSeq <= MaxSeq + 1
    /\ Len(mem) <= nextSeq - 1
    /\ AllRecs(levels) + Len(mem) <= Allowed(trouble, nextSeq - 1)

\* A write is allowed a record at least, and a failure a copy of every write.
LEMMA AllowedGrows ==
    ASSUME NEW t \in Nat, NEW n \in Nat
    PROVE  /\ Allowed(t, n) \in Nat
           /\ Allowed(t, n + 1) >= Allowed(t, n) + 1
           /\ Allowed(t + 1, n) = Allowed(t, n) + n
BY DEF Allowed

\* What may ever be there.
LEMMA AllowedAtMost ==
    ASSUME NEW t \in 0..MaxTrouble, NEW n \in 0..MaxSeq
    PROVE  Allowed(t, n) <= MostRecords /\ MostRecords \in Nat
<1>. DEFINE a == t + 1  b == MaxTrouble + 1
<1>1. a \in Nat /\ b \in Nat /\ a <= b /\ n \in Nat /\ MaxSeq \in Nat /\ n <= MaxSeq
      BY TroubleAssumption, SeqAssumption
<1>2. Allowed(t, n) = a * n /\ MostRecords = b * MaxSeq
      BY DEF Allowed, MostRecords
<1>. HIDE DEF a, b
<1>3. a * n <= b * n /\ a * n \in Nat /\ b * n \in Nat
      BY <1>1, Products
<1>4. n * b <= MaxSeq * b /\ b * n = n * b /\ MaxSeq * b = b * MaxSeq /\ MaxSeq * b \in Nat
      BY <1>1, Products
<1>. QED BY <1>2, <1>3, <1>4

\* What is left of a level and what a job took from it were there before.
JobCounts(j, L) ==
    /\ Recs(Without(L[j.level], j.tables)) + Recs(j.tables) <= Recs(L[j.level])
    /\ Recs(Without(L[j.level + 1], j.below)) + Recs(j.below) <= Recs(L[j.level + 1])

\* No compaction starts at the sink or below it.
DepthInv ==
    /\ DepthBounded
    /\ pc # "closed" => base \in BaseBudgets
    /\ pc = "compact" => job.level < Sink /\ JobCounts(job, levels)

LEMMA SinkIs ==
    ASSUME SomeLevelTakesAll
    PROVE  Sink \in 1..(MaxLevel - 1) /\ TakesAll(Sink)
<1>. DEFINE T == {l \in 1..MaxLevel : TakesAll(l)}
<1>1. PICK k \in 1..(MaxLevel - 1) : TakesAll(k)
      BY DEF SomeLevelTakesAll
<1>2. T \in SUBSET Nat /\ k \in T /\ \A l \in T : l \in 1..MaxLevel /\ TakesAll(l)
      BY LevelAssumption, <1>1
<1>3. Sink = Min(T)
      BY DEF Sink
<1>. HIDE DEF T
<1>4. Sink \in T /\ Sink <= k
      BY <1>2, <1>3, MinNat
<1>5. Sink \in 1..(MaxLevel - 1)
      BY <1>2, <1>4, LevelAssumption
<1>. QED BY <1>2, <1>4, <1>5

LEMMA ReplaceCounts ==
    ASSUME LevelsOK(levels), JobOK(job, levels), job.level < MaxLevel, JobCounts(job, levels),
           NEW outputs \in Seq(Rows), Recs(outputs) <= Recs(job.tables) + Recs(job.below),
           LevelsOK(replaceTables(outputs))
    PROVE  /\ AllRecs(replaceTables(outputs)) <= AllRecs(levels)
           /\ \A l \in 0..MaxLevel : l \notin {job.level, job.level + 1} =>
                  replaceTables(outputs)[l] = levels[l]
<1>. DEFINE from == job.level
            to == Target(from)
            after == replaceTables(outputs)
            mid == [levels EXCEPT ![from] = Without(@, job.tables)]
<1>0. from \in 0..MaxLevel /\ to \in 0..MaxLevel /\ to = from + 1 /\ to # from
  <2>1. from \in 0..MaxLevel
        BY DEF JobOK
  <2>2. Target(from) \in 1..MaxLevel /\ Target(from) = from + 1
        BY <2>1, TargetIs
  <2>. QED BY <2>1, <2>2, LevelAssumption
<1>1. PICK upto : Inserting(upto, outputs) /\ after = [Kept EXCEPT ![to] = upto[Len(outputs)]]
  <2>1. Len(outputs) \in Nat
        OBVIOUS
  <2>. QED BY <2>1, InsertSteps
<1>2. levels \in [0..MaxLevel -> Seq(Rows)] /\ after \in [0..MaxLevel -> Seq(Rows)]
      BY DEF LevelsOK
<1>3. /\ DOMAIN mid = 0..MaxLevel /\ mid[from] = Without(levels[from], job.tables)
      /\ \A l \in 0..MaxLevel : l # from => mid[l] = levels[l]
      BY <1>0, <1>2
<1>4. Kept = [mid EXCEPT ![to] = Without(@, job.below)]
      BY DEF Kept
<1>. HIDE DEF mid
<1>5. /\ DOMAIN Kept = 0..MaxLevel /\ Kept[to] = Without(mid[to], job.below)
      /\ \A l \in 0..MaxLevel : l # to => Kept[l] = mid[l]
      BY <1>0, <1>3, <1>4
<1>. HIDE DEF after
<1>6. after[to] = upto[Len(outputs)] /\ \A l \in 0..MaxLevel : l # to => after[l] = Kept[l]
      BY <1>0, <1>1, <1>5
<1>7. Kept[to] = Without(levels[to], job.below) /\ Kept[to] \in Seq(Rows)
  <2>1. mid[to] = levels[to]
        BY <1>0, <1>3
  <2>2. LevelsOK(Kept)
        BY KeptIs
  <2>. QED BY <1>0, <1>5, <2>1, <2>2 DEF LevelsOK
<1>8. after[from] = Without(levels[from], job.tables)
      BY <1>0, <1>3, <1>5, <1>6
<1>9. ASSUME NEW l \in 0..MaxLevel, l # from, l # to PROVE after[l] = levels[l]
      BY <1>3, <1>5, <1>6, <1>9
<1>10. Recs(after[to]) = Recs(Kept[to]) + Recs(outputs)
  <2>1. Kept[Target(job.level)] \in Seq(Rows)
        BY <1>7
  <2>2. Recs(upto[Len(outputs)]) = Recs(Kept[Target(job.level)]) + Recs(outputs)
        BY <1>1, <2>1, InsertAllCounts
  <2>. QED BY <1>6, <2>2
<1>. DEFINE half == [levels EXCEPT ![from] = after[from]]
<1>11. /\ half \in [0..MaxLevel -> Seq(Rows)] /\ half[from] = after[from] /\ half[to] = levels[to]
       /\ \A l \in 0..MaxLevel : l # from => half[l] = levels[l]
       BY <1>0, <1>2
<1>. HIDE DEF half, to, from
<1>12. \A l \in 0..MaxLevel : l # to => after[l] = half[l]
       BY <1>9, <1>11
<1>13. AllRecs(half) + Recs(levels[from]) = AllRecs(levels) + Recs(half[from])
       BY <1>0, <1>2, <1>11, AllRecsChange
<1>14. AllRecs(after) + Recs(half[to]) = AllRecs(half) + Recs(after[to])
       BY <1>0, <1>2, <1>11, <1>12, AllRecsChange
<1>15. /\ AllRecs(half) \in Nat /\ AllRecs(levels) \in Nat /\ AllRecs(after) \in Nat
       BY <1>2, <1>11, PerLevelIs
<1>16. /\ Recs(levels[from]) \in Nat /\ Recs(levels[to]) \in Nat /\ Recs(after[from]) \in Nat
       /\ Recs(Kept[to]) \in Nat /\ Recs(outputs) \in Nat
       BY <1>0, <1>2, <1>7, LengthsAre
<1>17. Recs(job.tables) \in Nat /\ Recs(job.below) \in Nat
       BY LengthsAre DEF JobOK, Runs
<1>18. /\ Recs(after[from]) + Recs(job.tables) <= Recs(levels[from])
       /\ Recs(Kept[to]) + Recs(job.below) <= Recs(levels[to])
       BY <1>0, <1>7, <1>8 DEF JobCounts, from
<1>. DEFINE a == AllRecs(levels)  b == AllRecs(half)  c == AllRecs(after)
            d == Recs(levels[from])  e == Recs(levels[to])
            x == Recs(after[from])  y == Recs(Kept[to])  z == Recs(outputs)
            t == Recs(job.tables)  u == Recs(job.below)
<1>19. /\ a \in Nat /\ b \in Nat /\ c \in Nat /\ d \in Nat /\ e \in Nat
       /\ x \in Nat /\ y \in Nat /\ z \in Nat /\ t \in Nat /\ u \in Nat
       /\ b + d = a + x /\ c + e = b + (y + z) /\ x + t <= d /\ y + u <= e /\ z <= t + u
       BY <1>10, <1>11, <1>13, <1>14, <1>15, <1>16, <1>17, <1>18
<1>. HIDE DEF a, b, c, d, e, x, y, z, t, u
<1>20. c <= a
       BY <1>19
<1>. QED BY <1>0, <1>9, <1>20 DEF a, c, after, from, to

LEMMA WithoutCounts ==
    ASSUME NEW level, Runs(level), NEW J \in SUBSET (DOMAIN level)
    PROVE  LET gone == P!Selected(level, J)
           IN  Recs(Without(level, gone)) + Recs(gone) <= Recs(level)
<1>. DEFINE gone == P!Selected(level, J)
            I == {i \in DOMAIN level : level[i] \notin ToSet(gone)}
<1>1. ToSet(gone) = {level[i] : i \in J}
      BY SelectedRuns
<1>2. I \cap J = {}
      BY <1>1
<1>3. Without(level, gone) = P!Selected(level, I)
      BY DEF Without
<1>. HIDE DEF I, gone
<1>4. level \in Seq(Rows)
      BY DEF Runs
<1>5. Recs(P!Selected(level, I)) + Recs(P!Selected(level, J)) <= Recs(level)
      BY <1>2, <1>4, RecsOfParts
<1>. QED BY <1>3, <1>5 DEF gone

\* A job takes each table once.
LEMMA SelectCounts ==
    ASSUME LevelsOK(levels), NEW l \in 0..MaxLevel, l < MaxLevel, compactLevel(l)
    PROVE  job'.level = l /\ JobCounts(job', levels)
<1>. DEFINE tables == IF l = 0 THEN levels[0] ELSE <<levels[l][pickTable(l)]>>
            lo == Min({minKeyOf(tables[i]) : i \in DOMAIN tables})
            hi == Max({maxKeyOf(tables[i]) : i \in DOMAIN tables})
            below == Overlapping(l + 1, lo, hi)
<1>0. l # MaxLevel /\ l + 1 \in 0..MaxLevel
      BY LevelAssumption
<1>1. /\ job' = [level |-> l, tables |-> tables, back |-> pc,
                 below |-> IF l = MaxLevel THEN <<>> ELSE below]
      /\ levels[l] # <<>>
      BY DEF compactLevel
<1>2. job'.level = l /\ job'.tables = tables /\ job'.below = below
      BY <1>0, <1>1
<1>3. Runs(levels[l]) /\ Runs(levels[l + 1]) /\ levels[l] \in Seq(Rows)
      BY <1>0, LevelsAreRuns DEF Runs
<1>4. PICK J \in SUBSET (DOMAIN levels[l + 1]) : below = P!Selected(levels[l + 1], J)
  <2>. DEFINE K == {i \in DOMAIN levels[l + 1] :
                        lo <= maxKeyOf(levels[l + 1][i]) /\ minKeyOf(levels[l + 1][i]) <= hi}
  <2>1. below = P!Selected(levels[l + 1], K) /\ K \in SUBSET (DOMAIN levels[l + 1])
        BY DEF Overlapping
  <2>. QED BY <2>1
<1>. HIDE DEF below
<1>5. Recs(Without(levels[l + 1], below)) + Recs(below) <= Recs(levels[l + 1])
      BY <1>3, <1>4, WithoutCounts
<1>6. Recs(Without(levels[l], tables)) + Recs(tables) <= Recs(levels[l])
  <2>1. CASE l = 0
    <3>. DEFINE u == Without(levels[0], levels[0])
    <3>1. u \in Seq(Rows) /\ ToSet(u) = {}
          BY <1>3, <2>1, WithoutIs DEF Runs
    <3>. HIDE DEF u
    <3>2. Len(u) = 0
      <4>1. Len(u) \in Nat /\ DOMAIN u = 1..Len(u)
            BY <3>1
      <4>2. DOMAIN u = {}
            BY <3>1 DEF ToSet
      <4>. QED BY <4>1, <4>2
    <3>3. u = <<>>
          BY <3>1, <3>2, EmptySeq
    <3>4. Recs(u) = 0 /\ Recs(levels[0]) \in Nat
          BY <1>3, <2>1, <3>3, RecsEmpty, LengthsAre
    <3>5. tables = levels[0]
          BY <2>1
    <3>. QED BY <2>1, <3>4, <3>5 DEF u
  <2>2. CASE l # 0
    <3>. DEFINE p == pickTable(l)
    <3>1. p \in DOMAIN levels[l]
          BY <1>1, <1>3, PickedIs
    <3>2. tables = <<levels[l][p]>>
          BY <2>2
    <3>. HIDE DEF p, tables
    <3>3. p \in 1..Len(levels[l]) /\ {p} \in SUBSET (DOMAIN levels[l])
          BY <1>3, <3>1
    <3>4. P!Selected(levels[l], {p}) = <<levels[l][p]>>
          BY <1>3, <3>3, SelectedOne
    <3>. QED BY <1>3, <3>2, <3>3, <3>4, WithoutCounts
  <2>. QED BY <2>1, <2>2
<1>. HIDE DEF tables
<1>. QED BY <1>2, <1>5, <1>6 DEF JobCounts

-----------------------------------------------------------------------------
(***************************************************************************)
(* The bytes of a level.                                                   *)
(***************************************************************************)
\* A sum of terms that are at most e.
LEMMA TotalAtMost ==
    ASSUME NEW q \in Seq(Nat), NEW e \in Nat, \A i \in 1..Len(q) : q[i] <= e
    PROVE  P!Total(q) \in Nat /\ P!Total(q) <= Len(q) * e
<1>. DEFINE N == Len(q)
<1>0. N \in Nat /\ \A i \in 1..N : q[i] \in Nat /\ q[i] <= e
      OBVIOUS
<1>1. PICK a : Adding(a, q) /\ P!Total(q) = a[N]
      BY <1>0, TotalSteps
<1>. DEFINE Good == {n \in 0..N : a[n] \in Nat /\ a[n] <= n * e}
<1>2. 0 \in Good
  <2>1. a[0] = 0 /\ 0 * e = 0
        BY <1>1 DEF Adding
  <2>. QED BY <1>0, <2>1
<1>3. ASSUME NEW n \in 1..N, n - 1 \in Good PROVE n \in Good
  <2>. DEFINE x == a[n - 1]  y == q[n]  m == n - 1
  <2>1. a[n] = x + y /\ x \in Nat /\ x <= m * e /\ y \in Nat /\ y <= e
        BY <1>0, <1>1, <1>3 DEF Adding
  <2>2. m \in Nat /\ m + 1 = n /\ n \in 0..N
        BY <1>0
  <2>. HIDE DEF x, y, m
  <2>3. m * e \in Nat /\ (m + 1) * e = m * e + 1 * e /\ 1 * e = e
        BY <2>2, Products
  <2>. DEFINE z == m * e
  <2>4. z \in Nat /\ n * e = z + e /\ x <= z
        BY <2>1, <2>2, <2>3
  <2>. HIDE DEF z
  <2>5. a[n] \in Nat /\ a[n] <= n * e
        BY <2>1, <2>4
  <2>. QED BY <2>2, <2>5
<1>. HIDE DEF Good
<1>4. \A n \in 0..N : n \in Good
      BY <1>0, <1>2, <1>3, UpToInduction
<1>5. N \in Good
      BY <1>0, <1>4
<1>. QED BY <1>1, <1>5 DEF Good

RecordBytes == HeaderBytes + ValueBytes

LEMMA ByteTypes == RecordBytes \in Nat /\ TableBytes \in Nat
BY BytesAssumption DEF RecordBytes

LEMMA BytesAtMost ==
    ASSUME NEW t \in Rows
    PROVE  P!Bytes(t) \in Nat /\ P!Bytes(t) <= Len(t) * RecordBytes
<1>. DEFINE N == Len(t)
            q == [i \in DOMAIN t |-> P!encodedRecordSize(t[i])]
<1>0. N \in Nat /\ DOMAIN t = 1..N
      BY RowLength
<1>1. ASSUME NEW r PROVE P!encodedRecordSize(r) \in Nat /\ P!encodedRecordSize(r) <= RecordBytes
      BY BytesAssumption DEF P!encodedRecordSize, RecordBytes
<1>2. q \in [1..N -> Nat] /\ \A i \in 1..N : q[i] <= RecordBytes
      BY <1>0, <1>1
<1>3. P!Bytes(t) = P!Total(q)
      BY DEF P!Bytes
<1>. HIDE DEF q
<1>4. q \in Seq(Nat)
      BY <1>0, <1>2, IsASeq
<1>5. Len(q) = N
      BY <1>0, <1>2, <1>4
<1>. QED BY <1>2, <1>3, <1>4, <1>5, ByteTypes, TotalAtMost

LEMMA LevelBytes ==
    ASSUME NEW level \in Seq(Rows)
    PROVE  LET size == P!Total([i \in DOMAIN level |-> tableSize(level[i])])
           IN  size \in Nat /\ size <= Recs(level) * RecordBytes + Len(level) * TableBytes
<1>. DEFINE N == Len(level)
            s == [i \in DOMAIN level |-> tableSize(level[i])]
            q == Lengths(level)
<1>0. N \in Nat /\ DOMAIN level = 1..N /\ \A i \in 1..N : level[i] \in Rows
      OBVIOUS
<1>1. q \in Seq(Nat) /\ Len(q) = N /\ \A i \in 1..N : q[i] = Len(level[i]) /\ Len(level[i]) \in Nat
      BY LengthsAre
<1>2. ASSUME NEW i \in 1..N
      PROVE  tableSize(level[i]) \in Nat /\ tableSize(level[i]) <= TableBytes + Len(level[i]) * RecordBytes
  <2>. DEFINE b == P!Bytes(level[i])  m == Len(level[i]) * RecordBytes
  <2>1. b \in Nat /\ b <= m
        BY <1>0, BytesAtMost
  <2>2. m \in Nat
        BY <1>1, ByteTypes, Products
  <2>3. tableSize(level[i]) = TableBytes + b
        BY DEF tableSize
  <2>. HIDE DEF b, m
  <2>4. tableSize(level[i]) \in Nat /\ tableSize(level[i]) <= TableBytes + m
        BY <2>1, <2>2, <2>3, ByteTypes
  <2>. QED BY <2>4 DEF m
<1>3. s \in [1..N -> Nat] /\ \A i \in 1..N : s[i] = tableSize(level[i])
      BY <1>0, <1>2
<1>. HIDE DEF s, q
<1>4. s \in Seq(Nat)
      BY <1>0, <1>3, IsASeq
<1>5. Len(s) = N
      BY <1>0, <1>3, <1>4
<1>6. PICK a : Adding(a, s) /\ P!Total(s) = a[N]
      BY <1>0, <1>5, TotalSteps
<1>7. PICK c : Adding(c, q) /\ P!Total(q) = c[N]
      BY <1>0, <1>1, TotalSteps
<1>. DEFINE Good == {n \in 0..N : /\ a[n] \in Nat /\ c[n] \in Nat
                                  /\ a[n] <= c[n] * RecordBytes + n * TableBytes}
<1>8. 0 \in Good
  <2>1. a[0] = 0 /\ c[0] = 0
        BY <1>6, <1>7 DEF Adding
  <2>2. 0 * RecordBytes = 0 /\ 0 * TableBytes = 0
        BY ByteTypes
  <2>. QED BY <1>0, <2>1, <2>2
<1>9. ASSUME NEW n \in 1..N, n - 1 \in Good PROVE n \in Good
  <2>. DEFINE x == a[n - 1]  y == c[n - 1]  k == Len(level[n])  m == n - 1  R == RecordBytes  T == TableBytes
  <2>1. a[n] = x + s[n] /\ c[n] = y + q[n]
        BY <1>1, <1>5, <1>6, <1>7 DEF Adding
  <2>2. x \in Nat /\ y \in Nat /\ x <= y * R + m * T
        BY <1>9
  <2>3. s[n] \in Nat /\ s[n] <= T + k * R /\ q[n] = k /\ k \in Nat
        BY <1>1, <1>2, <1>3
  <2>4. m \in Nat /\ m + 1 = n /\ n \in 0..N /\ R \in Nat /\ T \in Nat
        BY <1>0, ByteTypes
  <2>. HIDE DEF x, y, k, m, R, T
  <2>5. y * R \in Nat /\ k * R \in Nat /\ m * T \in Nat
        BY <2>2, <2>3, <2>4, Products
  <2>6. (y + k) * R = y * R + k * R
        BY <2>2, <2>3, <2>4, Products
  <2>7. (m + 1) * T = m * T + 1 * T /\ 1 * T = T
        BY <2>4, Products
  <2>. DEFINE f == y * R  g == k * R  h == m * T
  <2>8. /\ f \in Nat /\ g \in Nat /\ h \in Nat /\ c[n] * R = f + g /\ n * T = h + T
        /\ x <= f + h /\ s[n] <= T + g
        BY <2>1, <2>2, <2>3, <2>4, <2>5, <2>6, <2>7
  <2>. HIDE DEF f, g, h
  <2>9. a[n] \in Nat /\ a[n] <= c[n] * R + n * T
        BY <2>1, <2>2, <2>3, <2>4, <2>8
  <2>10. c[n] \in Nat
        BY <2>1, <2>2, <2>3
  <2>. QED BY <2>4, <2>9, <2>10 DEF R, T
<1>. HIDE DEF Good
<1>10. \A n \in 0..N : n \in Good
       BY <1>0, <1>8, <1>9, UpToInduction
<1>11. N \in Good
       BY <1>0, <1>10
<1>. QED BY <1>6, <1>7, <1>11 DEF Good, Recs, q, s

\* Disjoint ranges: no more tables than keys.
LEMMA FewTables ==
    ASSUME NEW level, Tables(level)
    PROVE  /\ level \in Seq(Rows) /\ Len(level) \in Nat /\ Cardinality(Keys) \in Nat
           /\ Len(level) <= Cardinality(Keys)
<1>. DEFINE N == Len(level)
            f == [i \in 1..N |-> minKeyOf(level[i])]
<1>0. level \in Seq(Rows) /\ N \in Nat /\ DOMAIN level = 1..N
      BY DEF Tables
<1>1. ASSUME NEW i \in 1..N
      PROVE  level[i] \in Rows /\ level[i] # <<>> /\ InOrder(level[i]) /\ 1 \in DOMAIN level[i]
  <2>1. level[i] \in Rows /\ level[i] # <<>> /\ InOrder(level[i])
        BY <1>0 DEF Tables
  <2>. QED BY <2>1, KeyRange
<1>2. \A i \in 1..N : minKeyOf(level[i]) \in Keys
      BY <1>1, RecordTypes DEF minKeyOf, Rows
<1>3. ASSUME NEW i \in 1..N, NEW j \in 1..N, i < j PROVE minKeyOf(level[i]) # minKeyOf(level[j])
  <2>1. Apart(level[i], level[j])
        BY <1>0, <1>3 DEF Tables
  <2>2. level[i][1].key < level[j][1].key /\ minKeyOf(level[i]) \in Nat
        BY <1>1, <1>2, <2>1, KeysAssumption DEF Apart
  <2>. QED BY <2>2 DEF minKeyOf
<1>4. f \in [1..N -> Keys] /\ \A i \in 1..N : f[i] = minKeyOf(level[i])
      BY <1>2
<1>. HIDE DEF f
<1>5. ASSUME NEW i \in 1..N, NEW j \in 1..N, f[i] = f[j] PROVE i = j
  <2>1. minKeyOf(level[i]) = minKeyOf(level[j])
        BY <1>4, <1>5
  <2>2. ~(i < j) /\ ~(j < i)
        BY <1>3, <2>1
  <2>. QED BY <1>0, <2>2
<1>6. f \in Injection(1..N, Keys)
      BY <1>4, <1>5 DEF Injection, IsInjective
<1>7. Cardinality(1..N) <= Cardinality(Keys)
      BY <1>6, FiniteKeysAssumption, FS_Injection
<1>8. Cardinality(1..N) = N
  <2>1. 1 \in Int /\ N \in Int
        BY <1>0
  <2>2. Cardinality(1..N) = IF 1 > N THEN 0 ELSE N - 1 + 1
        BY <2>1, FS_Interval
  <2>. QED BY <1>0, <2>2
<1>9. Cardinality(Keys) \in Nat
      BY FiniteKeysAssumption, FS_CardinalityType
<1>. QED BY <1>0, <1>7, <1>8, <1>9

\* A level below 0 fits into what the sink takes.
LEMMA LevelFits ==
    ASSUME CompactionInv, CountInv, NEW l \in 1..MaxLevel
    PROVE  levelSizeBytes(l) \in Nat /\ levelSizeBytes(l) <= MostBytes
<1>. DEFINE level == levels[l]
            R == RecordBytes
            T == TableBytes
<1>0. LevelsOK(levels) /\ nextSeq \in Nat \ {0} /\ mem \in Rows
      BY DEF CompactionInv
<1>1. Tables(level) /\ levels \in [0..MaxLevel -> Seq(Rows)]
      BY <1>0 DEF LevelsOK
<1>2. /\ level \in Seq(Rows) /\ Len(level) \in Nat /\ Cardinality(Keys) \in Nat
      /\ Len(level) <= Cardinality(Keys)
      BY <1>1, FewTables
<1>3. /\ levelSizeBytes(l) \in Nat
      /\ levelSizeBytes(l) <= Recs(level) * R + Len(level) * T
      BY <1>2, LevelBytes DEF levelSizeBytes
<1>4. Recs(level) \in Nat /\ Recs(level) <= MostRecords /\ MostRecords \in Nat
  <2>1. /\ AllRecs(levels) \in Nat /\ PerLevel(levels) \in Seq(Nat)
        /\ Len(PerLevel(levels)) = MaxLevel + 1
        /\ l + 1 \in 1..(MaxLevel + 1) /\ PerLevel(levels)[l + 1] = Recs(level) /\ Recs(level) \in Nat
    <3>1. l \in 0..MaxLevel
          BY LevelAssumption
    <3>. QED BY <1>1, <3>1, PerLevelIs
  <2>2. Recs(level) <= AllRecs(levels)
        BY <2>1, TermBelowTotal DEF AllRecs
  <2>3. Len(mem) \in Nat
        BY <1>0, RowLength
  <2>4. nextSeq - 1 \in 0..MaxSeq /\ trouble \in 0..MaxTrouble
        BY <1>0, SeqAssumption DEF CountInv
  <2>. DEFINE a == Allowed(trouble, nextSeq - 1)
  <2>5. AllRecs(levels) + Len(mem) <= a
        BY DEF CountInv
  <2>6. trouble \in Nat /\ nextSeq - 1 \in Nat
        BY <2>4, TroubleAssumption, SeqAssumption
  <2>7. a \in Nat /\ a <= MostRecords /\ MostRecords \in Nat
        BY <2>4, <2>6, AllowedGrows, AllowedAtMost
  <2>. HIDE DEF a
  <2>. QED BY <2>1, <2>2, <2>3, <2>5, <2>7
<1>5. MostBytes = MostRecords * R + Cardinality(Keys) * T
      BY DEF MostBytes, RecordBytes
<1>. HIDE DEF level, R, T
<1>6. R \in Nat /\ T \in Nat /\ MostRecords \in Nat
      BY <1>4, ByteTypes DEF R, T
<1>7. Recs(level) * R <= MostRecords * R /\ Recs(level) * R \in Nat /\ MostRecords * R \in Nat
      BY <1>4, <1>6, Products
<1>8. Len(level) * T <= Cardinality(Keys) * T /\ Len(level) * T \in Nat /\ Cardinality(Keys) * T \in Nat
      BY <1>2, <1>6, Products
<1>. DEFINE a == Recs(level) * R  b == MostRecords * R  c == Len(level) * T  d == Cardinality(Keys) * T
<1>9. /\ a \in Nat /\ b \in Nat /\ c \in Nat /\ d \in Nat /\ a <= b /\ c <= d
      /\ MostBytes = b + d /\ levelSizeBytes(l) <= a + c
      BY <1>3, <1>5, <1>7, <1>8
<1>. HIDE DEF a, b, c, d
<1>. QED BY <1>3, <1>9

-----------------------------------------------------------------------------
(***************************************************************************)
(* The steps.                                                              *)
(***************************************************************************)
SizeInv == CompactionInv /\ CountInv /\ DepthInv

LEMMA SizeStart == ASSUME Init PROVE SizeInv
<1>1. CompactionInv
      BY InvStart
<1>2. /\ mem = <<>> /\ nextSeq = 1 /\ trouble = 0 /\ pc = "closed"
      /\ \A l \in 0..MaxLevel : levels[l] = <<>>
      BY DEF Init
<1>3. AllRecs(levels) = 0
  <2>1. levels \in [0..MaxLevel -> Seq(Rows)]
        BY <1>1 DEF CompactionInv, LevelsOK
  <2>. DEFINE q == PerLevel(levels)
  <2>2. q \in Seq(Nat) /\ Len(q) = MaxLevel + 1 /\ \A l \in 0..MaxLevel : q[l + 1] = Recs(levels[l])
        BY <2>1, PerLevelIs
  <2>. HIDE DEF q
  <2>3. ASSUME NEW i \in 1..Len(q) PROVE q[i] = 0
    <3>1. i - 1 \in 0..MaxLevel /\ (i - 1) + 1 = i
          BY <2>2, LevelAssumption
    <3>2. q[(i - 1) + 1] = Recs(levels[i - 1]) /\ levels[i - 1] = <<>>
          BY <1>2, <2>2, <3>1
    <3>. QED BY <3>1, <3>2, RecsEmpty
  <2>4. P!Total(q) = 0
        BY <2>2, <2>3, TotalOfZeros
  <2>. QED BY <2>4 DEF AllRecs, q
<1>4. CountInv
  <2>1. Len(mem) = 0 /\ nextSeq <= MaxSeq + 1 /\ Len(mem) <= nextSeq - 1
        BY <1>2, SeqAssumption
  <2>2. trouble \in 0..MaxTrouble
        BY <1>2, TroubleAssumption
  <2>3. nextSeq - 1 = 0 /\ Allowed(0, 0) = 0
        BY <1>2 DEF Allowed
  <2>. QED BY <1>2, <1>3, <2>1, <2>2, <2>3 DEF CountInv
<1>5. DepthInv
  <2>1. \A l \in 1..MaxLevel : l \in 0..MaxLevel
        BY LevelAssumption
  <2>2. DepthBounded
        BY <1>2, <2>1 DEF DepthBounded
  <2>. QED BY <1>2, <2>2 DEF DepthInv
<1>. QED BY <1>1, <1>4, <1>5 DEF SizeInv

\* flush() lists the records of the memtable once.
LEMMA FlushCounts ==
    ASSUME CompactionInv, CompactionInv', levels' = [levels EXCEPT ![0] = <<mem>> \o @]
    PROVE  /\ AllRecs(levels') = AllRecs(levels) + Len(mem)
           /\ \A l \in 1..MaxLevel : levels'[l] = levels[l]
<1>0. 0 \in 0..MaxLevel /\ \A l \in 1..MaxLevel : l \in 0..MaxLevel /\ l # 0
      BY LevelAssumption
<1>1. /\ mem \in Rows /\ levels \in [0..MaxLevel -> Seq(Rows)] /\ levels' \in [0..MaxLevel -> Seq(Rows)]
      BY DEF CompactionInv, LevelsOK
<1>2. levels'[0] = <<mem>> \o levels[0] /\ \A l \in 0..MaxLevel : l # 0 => levels'[l] = levels[l]
      BY <1>0, <1>1
<1>3. Recs(levels'[0]) = Recs(levels[0]) + Len(mem)
      BY <1>0, <1>1, <1>2, RecsPushed
<1>4. AllRecs(levels') + Recs(levels[0]) = AllRecs(levels) + Recs(levels'[0])
      BY <1>0, <1>1, <1>2, AllRecsChange
<1>5. AllRecs(levels) \in Nat /\ AllRecs(levels') \in Nat /\ Recs(levels[0]) \in Nat /\ Len(mem) \in Nat
      BY <1>0, <1>1, PerLevelIs, RowLength
<1>6. AllRecs(levels') = AllRecs(levels) + Len(mem)
      BY <1>3, <1>4, <1>5
<1>. QED BY <1>0, <1>2, <1>6

LEMMA CountTypes ==
    ASSUME CompactionInv
    PROVE  AllRecs(levels) \in Nat /\ Len(mem) \in Nat /\ nextSeq \in Nat \ {0}
<1>1. mem \in Rows /\ levels \in [0..MaxLevel -> Seq(Rows)] /\ nextSeq \in Nat \ {0}
      BY DEF CompactionInv, LevelsOK
<1>. QED BY <1>1, PerLevelIs, RowLength

\* A step that lists no more records than before, and adds none to the memtable.
LEMMA CountKept ==
    ASSUME CompactionInv, CompactionInv', CountInv, UNCHANGED nextSeq,
           trouble' \in {trouble, trouble + 1}, trouble' <= MaxTrouble,
           Len(mem') <= Len(mem), AllRecs(levels') + Len(mem') <= AllRecs(levels) + Len(mem)
    PROVE  CountInv'
<1>. DEFINE n == nextSeq - 1
            a == Allowed(trouble, n)
            b == Allowed(trouble', n)
<1>0. nextSeq \in Nat \ {0} /\ Len(mem) \in Nat /\ AllRecs(levels) \in Nat
      BY CountTypes
<1>1. Len(mem') \in Nat /\ AllRecs(levels') \in Nat
      BY PerLevelIs, RowLength DEF CompactionInv, LevelsOK
<1>2. trouble \in Nat /\ n \in Nat /\ trouble' \in 0..MaxTrouble
      BY <1>0, TroubleAssumption DEF CountInv
<1>3. a \in Nat /\ b \in Nat /\ a <= b
  <2>1. \A t, m \in Nat : Allowed(t, m) \in Nat /\ Allowed(t + 1, m) = Allowed(t, m) + m
        BY AllowedGrows
  <2>2. a \in Nat /\ Allowed(trouble + 1, n) = a + n
        BY <1>2, <2>1
  <2>. QED BY <1>2, <2>2
<1>4. AllRecs(levels) + Len(mem) <= a /\ Len(mem) <= n /\ nextSeq <= MaxSeq + 1
      BY DEF CountInv
<1>5. b = Allowed(trouble, n)'
      OBVIOUS
<1>. HIDE DEF a, b
<1>6. AllRecs(levels') + Len(mem') <= b /\ Len(mem') <= n
      BY <1>0, <1>1, <1>2, <1>3, <1>4
<1>. QED BY <1>2, <1>4, <1>5, <1>6 DEF CountInv, b

\* A step that leaves the levels below 0 alone, and does not start a compaction.
LEMMA DepthKept ==
    ASSUME DepthInv, \A l \in 1..MaxLevel : levels'[l] = levels[l], pc' # "compact",
           pc' # "closed" => base' \in BaseBudgets
    PROVE  DepthInv'
<1>1. DepthBounded'
      BY DEF DepthInv, DepthBounded
<1>. QED BY <1>1 DEF DepthInv

\* compactLevel for a level above the sink.
LEMMA SelectSizes ==
    ASSUME SomeLevelTakesAll, SizeInv, NEW l \in 0..MaxLevel, l < Sink, compactLevel(l), pc # "compact", pc # "closed"
    PROVE  SizeInv'
<1>0. CompactionInv /\ CountInv /\ DepthInv /\ LevelsOK(levels)
      BY DEF SizeInv, CompactionInv
<1>1. UNCHANGED <<mem, levels, nextSeq, base, trouble>>
      BY DEF compactLevel
<1>2. CompactionInv'
      BY <1>0, SelectStep
<1>3. l < MaxLevel
      BY SinkIs, LevelAssumption
<1>4. job'.level = l /\ JobCounts(job', levels)
      BY <1>0, <1>3, SelectCounts
<1>5. JobCounts(job', levels') /\ job'.level < Sink
      BY <1>1, <1>4
<1>6. CountInv'
      BY <1>0, <1>1 DEF CountInv
<1>7. DepthBounded' /\ base' \in BaseBudgets
      BY <1>0, <1>1 DEF DepthInv, DepthBounded
<1>8. DepthInv'
      BY <1>5, <1>7 DEF DepthInv
<1>. QED BY <1>2, <1>6, <1>8 DEF SizeInv

\* The loop never compacts the sink: it is not over its budget.
LEMMA OverBudgetIsAbove ==
    ASSUME SomeLevelTakesAll, SizeInv, pc # "closed", NEW l \in overBudget, levels[l] # <<>>
    PROVE  l \in 1..MaxLevel /\ l < Sink
<1>0. CompactionInv /\ CountInv /\ DepthBounded /\ base \in BaseBudgets
      BY DEF SizeInv, DepthInv
<1>1. l \in 1..MaxLevel /\ Budget(base, l) < levelSizeBytes(l)
      BY DEF overBudget, levelCompactionBudget
<1>2. levelSizeBytes(l) \in Nat /\ levelSizeBytes(l) <= MostBytes
      BY <1>0, <1>1, LevelFits
<1>3. Sink \in 1..(MaxLevel - 1) /\ TakesAll(Sink)
      BY SinkIs
<1>4. ~(l > Sink)
      BY <1>0, <1>1 DEF DepthBounded
<1>5. l # Sink
  <2>1. SUFFICES ASSUME l = Sink PROVE FALSE
        OBVIOUS
  <2>2. Budget(base, l) \in MostBytes..(2^Width - 1)
        BY <1>0, <1>3, <2>1 DEF TakesAll
  <2>. DEFINE b == Budget(base, l)
              s == levelSizeBytes(l)
  <2>3. b \in Int /\ MostBytes <= b /\ b < s /\ s \in Nat /\ s <= MostBytes
        BY <1>1, <1>2, <2>2
  <2>4. MostBytes \in Int
    <3>0. MostRecords \in Nat
          BY TroubleAssumption, SeqAssumption, AllowedAtMost
    <3>1. Cardinality(Keys) \in Nat /\ RecordBytes \in Nat /\ TableBytes \in Nat /\ MostRecords \in Nat
          BY <3>0, ByteTypes, FiniteKeysAssumption, FS_CardinalityType
    <3>2. MostBytes = MostRecords * RecordBytes + Cardinality(Keys) * TableBytes
          BY DEF MostBytes, RecordBytes
    <3>3. MostRecords * RecordBytes \in Nat /\ Cardinality(Keys) * TableBytes \in Nat
          BY <3>1, Products
    <3>. QED BY <3>2, <3>3
  <2>. HIDE DEF b, s
  <2>. QED BY <2>3, <2>4
<1>. QED BY <1>1, <1>3, <1>4, <1>5, LevelAssumption

LEMMA CompactSizes == ASSUME SomeLevelTakesAll, SizeInv, compactRange PROVE SizeInv'
<1>0. CompactionInv /\ CountInv /\ DepthInv
      BY DEF SizeInv
<1>1. pc = "compact" /\ pc' = job.back /\ UNCHANGED <<mem, nextSeq, base, trouble>>
      BY DEF compactRange
<1>2. PICK oldest \in ReadPoints : levels' = replaceTables(Output(oldest))
      BY DEF compactRange
<1>3. LevelsOK(levels) /\ JobOK(job, levels) /\ Unique(Stored) /\ nextSeq \in Nat
      BY <1>0, <1>1 DEF CompactionInv
<1>4. CompactionInv'
      BY <1>0, CompactStep
<1>5. job.level < Sink /\ JobCounts(job, levels)
      BY <1>0, <1>1 DEF DepthInv
<1>6. job.level \in 0..MaxLevel /\ job.level < MaxLevel /\ Sink \in Nat
      BY <1>3, <1>5, SinkIs, LevelAssumption DEF JobOK
<1>. DEFINE outputs == Output(oldest)
<1>7. outputs \in Seq(Rows)
  <2>1. oldest \in Nat
        BY <1>3 DEF ReadPoints
  <2>2. Unique(Held(levels))
        BY <1>3, UniquePart DEF Stored
  <2>3. Tables(outputs)
        BY <1>3, <2>1, <2>2, OutputOf
  <2>. QED BY <2>3 DEF Tables
<1>8. Recs(outputs) <= Recs(job.tables) + Recs(job.below)
      BY <1>3, OutputCounts
<1>9. LevelsOK(replaceTables(outputs))
      BY <1>2, <1>4 DEF CompactionInv
<1>. HIDE DEF outputs
<1>10. /\ AllRecs(replaceTables(outputs)) <= AllRecs(levels)
       /\ \A l \in 0..MaxLevel : l \notin {job.level, job.level + 1} =>
              replaceTables(outputs)[l] = levels[l]
       BY <1>3, <1>5, <1>6, <1>7, <1>8, <1>9, ReplaceCounts
<1>11. /\ AllRecs(levels') <= AllRecs(levels)
       /\ \A l \in 0..MaxLevel : l \notin {job.level, job.level + 1} => levels'[l] = levels[l]
       BY <1>2, <1>10 DEF outputs
<1>12. CountInv'
  <2>1. AllRecs(levels) \in Nat /\ Len(mem) \in Nat
        BY <1>0, CountTypes
  <2>2. AllRecs(levels') \in Nat
        BY <1>4, PerLevelIs DEF CompactionInv, LevelsOK
  <2>3. AllRecs(levels') + Len(mem') <= AllRecs(levels) + Len(mem) /\ Len(mem') <= Len(mem)
        BY <1>1, <1>11, <2>1, <2>2
  <2>4. trouble' = trouble /\ trouble <= MaxTrouble
        BY <1>0, <1>1, TroubleAssumption DEF CountInv
  <2>. QED BY <1>0, <1>1, <1>4, <2>3, <2>4, CountKept
<1>13. ASSUME NEW l \in 1..MaxLevel, l > Sink PROVE levels'[l] = <<>>
  <2>1. l \in 0..MaxLevel /\ l \notin {job.level, job.level + 1}
        BY <1>5, <1>6, <1>13, LevelAssumption
  <2>2. levels[l] = <<>>
        BY <1>0, <1>13 DEF DepthInv, DepthBounded
  <2>. QED BY <1>11, <2>1, <2>2
<1>14. DepthInv'
  <2>1. DepthBounded'
        BY <1>13 DEF DepthBounded
  <2>2. pc' # "compact" /\ base' \in BaseBudgets
        BY <1>0, <1>1, <1>3 DEF DepthInv, JobOK
  <2>. QED BY <2>1, <2>2 DEF DepthInv
<1>. QED BY <1>4, <1>12, <1>14 DEF SizeInv

LEMMA WriteSizes ==
    ASSUME SizeInv, NEW k \in Keys, NEW v \in Values \cup {Tombstone}, Write(k, v)
    PROVE  SizeInv'
<1>. DEFINE r == [key |-> k, seq |-> nextSeq, val |-> v]
            P0 == {i \in 1..(Len(mem) + 1) : i <= Len(mem) => KeyLess(r, mem[i])}
            p == Min(P0)
<1>0. CompactionInv /\ CountInv /\ DepthInv /\ mem \in Rows
      BY DEF SizeInv, CompactionInv
<1>1. /\ pc = "idle" /\ nextSeq <= MaxSeq /\ nextSeq' = nextSeq + 1
      /\ mem' = InsertAt(mem, p, r) /\ UNCHANGED <<pc, levels, base, trouble>>
      BY DEF Write
<1>2. CompactionInv'
      BY <1>0, WriteStep
<1>3. AllRecs(levels) \in Nat /\ Len(mem) \in Nat /\ nextSeq \in Nat
      BY <1>0, CountTypes
<1>4. p \in 1..(Len(mem) + 1)
  <2>1. Len(mem) + 1 \in 1..(Len(mem) + 1) /\ ~(Len(mem) + 1 <= Len(mem))
        BY <1>3
  <2>2. P0 \in SUBSET Nat /\ Len(mem) + 1 \in P0 /\ P0 \subseteq 1..(Len(mem) + 1)
        BY <1>3, <2>1
  <2>. HIDE DEF P0
  <2>. QED BY <2>2, MinNat
<1>5. r \in Record
  <2>1. nextSeq \in 1..MaxSeq
        BY <1>0, <1>1, SeqAssumption DEF CompactionInv
  <2>. QED BY <2>1 DEF Record
<1>. HIDE DEF r, p
<1>6. Len(mem') = Len(mem) + 1
  <2>1. mem \in Seq(Record)
        BY <1>0 DEF Rows
  <2>2. Inserted(InsertAt(mem, p, r), Record, mem, p, r)
        BY <1>4, <1>5, <2>1, InsertedAt
  <2>. QED BY <1>1, <2>2 DEF Inserted
<1>7. CountInv'
  <2>. DEFINE n == nextSeq - 1
              a == Allowed(trouble, n)
              b == Allowed(trouble, n + 1)
  <2>1. trouble \in Nat /\ n \in Nat /\ trouble' \in 0..MaxTrouble /\ nextSeq' - 1 = n + 1
        BY <1>0, <1>1, <1>3, TroubleAssumption DEF CountInv
  <2>2. a \in Nat /\ b \in Nat /\ a + 1 <= b
    <3>1. \A t, m \in Nat : Allowed(t, m) \in Nat /\ Allowed(t, m + 1) >= Allowed(t, m) + 1
          BY AllowedGrows
    <3>2. n + 1 \in Nat
          BY <2>1
    <3>. QED BY <2>1, <3>1, <3>2
  <2>3. AllRecs(levels) + Len(mem) <= a /\ Len(mem) <= n
        BY <1>0 DEF CountInv
  <2>4. Allowed(trouble, nextSeq - 1)' = b
        BY <1>1, <2>1
  <2>. HIDE DEF a, b
  <2>5. AllRecs(levels) + Len(mem') <= b /\ Len(mem') <= n + 1
        BY <1>3, <1>6, <2>1, <2>2, <2>3
  <2>6. nextSeq' <= MaxSeq + 1
        BY <1>1, <1>3, SeqAssumption
  <2>. QED BY <1>1, <2>1, <2>4, <2>5, <2>6 DEF CountInv
<1>8. DepthInv'
  <2>1. (\A l \in 1..MaxLevel : levels'[l] = levels[l]) /\ pc' # "compact" /\ base' \in BaseBudgets
        BY <1>0, <1>1 DEF DepthInv
  <2>. QED BY <1>0, <2>1, DepthKept
<1>. QED BY <1>2, <1>7, <1>8 DEF SizeInv

LEMMA SizeStep == ASSUME SomeLevelTakesAll, SizeInv, [Next]_vars PROVE SizeInv'
<1>0. CompactionInv /\ CountInv /\ DepthInv
      BY DEF SizeInv
<1>1. CompactionInv'
      BY <1>0, InvStep
<1>2. /\ AllRecs(levels) \in Nat /\ Len(mem) \in Nat /\ nextSeq \in Nat \ {0}
      /\ trouble \in Nat /\ trouble <= MaxTrouble
      BY <1>0, CountTypes, TroubleAssumption DEF CountInv
<1>3. 0 \in 0..MaxLevel /\ 0 < Sink
      BY SinkIs, LevelAssumption
<1>4. CASE Open
  <2>1. UNCHANGED <<mem, levels, nextSeq, trouble>> /\ pc' # "compact" /\ base' \in BaseBudgets
        BY <1>4 DEF Open
  <2>2. CountInv'
        BY <1>0, <2>1 DEF CountInv
  <2>3. \A l \in 1..MaxLevel : levels'[l] = levels[l]
        BY <2>1
  <2>4. DepthInv'
        BY <1>0, <2>1, <2>3, DepthKept
  <2>. QED BY <1>1, <2>2, <2>4 DEF SizeInv
<1>5. CASE Kill
  <2>1. /\ levels' = levels /\ nextSeq' = nextSeq /\ pc' = "closed"
        /\ trouble < MaxTrouble /\ trouble' = trouble + 1 /\ mem' \in {<<>>, mem}
        BY <1>5 DEF Kill
  <2>2. Len(mem') \in Nat /\ Len(mem') <= Len(mem)
        BY <1>2, <2>1
  <2>3. CountInv'
    <3>1. AllRecs(levels') + Len(mem') <= AllRecs(levels) + Len(mem)
          BY <1>2, <2>1, <2>2
    <3>2. trouble' \in {trouble, trouble + 1} /\ trouble' <= MaxTrouble
          BY <1>2, <2>1, TroubleAssumption
    <3>. QED BY <1>0, <1>1, <2>1, <2>2, <3>1, <3>2, CountKept
  <2>4. (\A l \in 1..MaxLevel : levels'[l] = levels[l]) /\ pc' # "compact" /\ pc' = "closed"
        BY <2>1
  <2>5. DepthInv'
        BY <1>0, <2>4, DepthKept
  <2>. QED BY <1>1, <2>3, <2>5 DEF SizeInv
<1>6. CASE \E k \in Keys, v \in Values \cup {Tombstone} : Write(k, v)
      BY <1>6, WriteSizes
<1>7. CASE Flush
  <2>1. /\ levels' = [levels EXCEPT ![0] = <<mem>> \o @] /\ mem' = <<>>
        /\ nextSeq' = nextSeq /\ trouble' = trouble /\ base' = base /\ pc = "idle" /\ pc' = "loop"
        BY <1>7 DEF Flush
  <2>2. AllRecs(levels') = AllRecs(levels) + Len(mem) /\ \A l \in 1..MaxLevel : levels'[l] = levels[l]
        BY <1>0, <1>1, <2>1, FlushCounts
  <2>3. Len(mem') = 0
        BY <2>1
  <2>4. AllRecs(levels') + Len(mem') <= AllRecs(levels) + Len(mem) /\ Len(mem') <= Len(mem)
        BY <1>2, <2>2, <2>3
  <2>5. CountInv'
        BY <1>0, <1>1, <1>2, <2>1, <2>4, CountKept
  <2>6. base' \in BaseBudgets /\ pc' # "compact"
        BY <1>0, <2>1 DEF DepthInv
  <2>7. DepthInv'
        BY <1>0, <2>2, <2>6, DepthKept
  <2>. QED BY <1>1, <2>5, <2>7 DEF SizeInv
<1>8. CASE FlushNewWalFails
  <2>1. /\ levels' = [levels EXCEPT ![0] = <<mem>> \o @] /\ mem' = mem
        /\ trouble < MaxTrouble /\ trouble' = trouble + 1
        /\ nextSeq' = nextSeq /\ base' = base /\ pc = "idle" /\ pc' = pc
        BY <1>8 DEF FlushNewWalFails
  <2>2. AllRecs(levels') = AllRecs(levels) + Len(mem) /\ \A l \in 1..MaxLevel : levels'[l] = levels[l]
        BY <1>0, <1>1, <2>1, FlushCounts
  <2>. DEFINE n == nextSeq - 1
              a == Allowed(trouble, n)
              b == Allowed(trouble + 1, n)
  <2>3. n \in Nat /\ a \in Nat /\ b = a + n
    <3>1. \A t, m \in Nat : Allowed(t, m) \in Nat /\ Allowed(t + 1, m) = Allowed(t, m) + m
          BY AllowedGrows
    <3>2. n \in Nat
          BY <1>2
    <3>. QED BY <1>2, <3>1, <3>2
  <2>4. CountInv'
    <3>1. AllRecs(levels) + Len(mem) <= a /\ Len(mem) <= n /\ nextSeq <= MaxSeq + 1
          BY <1>0 DEF CountInv
    <3>2. Allowed(trouble, n)' = b /\ trouble' \in 0..MaxTrouble
          BY <1>2, <2>1, TroubleAssumption
    <3>. HIDE DEF a, b
    <3>3. AllRecs(levels') + Len(mem) <= b
          BY <1>2, <2>2, <2>3, <3>1
    <3>. QED BY <2>1, <3>1, <3>2, <3>3 DEF CountInv
  <2>5. base' \in BaseBudgets /\ pc' # "compact"
        BY <1>0, <2>1 DEF DepthInv
  <2>6. DepthInv'
        BY <1>0, <2>2, <2>5, DepthKept
  <2>. QED BY <1>1, <2>4, <2>6 DEF SizeInv
<1>9. CASE Compact
      BY <1>3, <1>9, SelectSizes DEF Compact
<1>10. CASE compactRange
       BY <1>10, CompactSizes
<1>11. CASE LoopLevelZero
       BY <1>3, <1>11, SelectSizes DEF LoopLevelZero
<1>12. CASE LoopOverBudget
  <2>1. overBudget \in SUBSET Nat
        BY LevelAssumption DEF overBudget
  <2>2. overBudget # {} /\ pc # "compact" /\ pc # "closed" /\ compactLevel(Min(overBudget))
        BY <1>12 DEF LoopOverBudget
  <2>3. PICK l \in overBudget : l = Min(overBudget)
        BY <2>1, <2>2, MinNat
  <2>4. compactLevel(l)
        BY <2>2, <2>3
  <2>5. levels[l] # <<>>
        BY <2>4 DEF compactLevel
  <2>6. l \in 1..MaxLevel /\ l < Sink
        BY <2>2, <2>5, OverBudgetIsAbove
  <2>7. l \in 0..MaxLevel
        BY <2>6, LevelAssumption
  <2>. QED BY <2>2, <2>4, <2>6, <2>7, SelectSizes
<1>13. CASE LoopDone
  <2>1. UNCHANGED <<mem, levels, nextSeq, trouble, base>> /\ pc = "loop" /\ pc' = "idle"
        BY <1>13 DEF LoopDone
  <2>2. CountInv'
        BY <1>0, <2>1 DEF CountInv
  <2>3. (\A l \in 1..MaxLevel : levels'[l] = levels[l]) /\ base' \in BaseBudgets /\ pc' # "compact"
        BY <1>0, <2>1 DEF DepthInv
  <2>4. DepthInv'
        BY <1>0, <2>3, DepthKept
  <2>. QED BY <1>1, <2>2, <2>4 DEF SizeInv
<1>14. CASE UNCHANGED vars
  <2>1. UNCHANGED <<mem, levels, nextSeq, trouble, base, pc, job>>
        BY <1>14 DEF vars
  <2>2. CountInv'
        BY <1>0, <2>1 DEF CountInv
  <2>3. DepthInv'
        BY <1>0, <2>1 DEF DepthInv, DepthBounded
  <2>. QED BY <1>1, <2>2, <2>3 DEF SizeInv
<1>. QED BY <1>4, <1>5, <1>6, <1>7, <1>8, <1>9, <1>10, <1>11, <1>12, <1>13, <1>14 DEF Next

\* Where some budget takes everything for every base the directory is opened with,
\* tables never reach below the first such level, wherever other budgets wrap around
\* and however often flush() fails behind its save: there is at most one record per
\* write and one more for each such failure, a level has no more tables than there
\* are keys, so maybeCompact never finds that level over levelCompactionBudget and
\* moves nothing out of it.
THEOREM TablesStayShallow ==
    ASSUME SomeLevelTakesAll
    PROVE  Spec => []DepthBounded
<1>1. Init => SizeInv
      BY SizeStart
<1>2. SizeInv /\ [Next]_vars => SizeInv'
      BY SizeStep
<1>3. SizeInv => DepthBounded
      BY DEF SizeInv, DepthInv
<1>. QED BY <1>1, <1>2, <1>3, PTL DEF Spec

=============================================================================
