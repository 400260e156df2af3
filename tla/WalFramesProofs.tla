--------------------------- MODULE WalFramesProofs ---------------------------
(***************************************************************************)
(* The proof that restoring an undamaged log takes every acknowledged      *)
(* frame and cuts off exactly what a failed append left.                   *)
(***************************************************************************)
EXTENDS WalFrames, Induction, SequenceTheorems, TLAPS

-----------------------------------------------------------------------------
(***************************************************************************)
(* Frames.                                                                 *)
(***************************************************************************)
Cells == Seq(Nat)

IsConcat(u, s, t) ==
    /\ u \in Cells
    /\ Len(u) = Len(s) + Len(t)
    /\ \A i \in 1..Len(s) : u[i] = s[i]
    /\ \A i \in 1..Len(t) : u[Len(s) + i] = t[i]

LEMMA ConcatCells ==
    ASSUME NEW s \in Cells, NEW t \in Cells
    PROVE  IsConcat(s \o t, s, t)
BY DEF Cells, IsConcat

LEMMA ConcatCellsAssoc ==
    ASSUME NEW s \in Cells, NEW t \in Cells, NEW u \in Cells
    PROVE  s \o (t \o u) = (s \o t) \o u
BY ConcatAssociative, SMTT(30) DEF Cells

\* The checksum's equation, for a file's cells.
LEMMA CrcType ==
    ASSUME NEW payload \in Cells
    PROVE  crc32(payload) \in Nat
<1>. DEFINE N == Len(payload)
<1>. DEFINE Eq(f) == f = [n \in 0..N |->
                             IF n = 0 THEN 0 ELSE (100 * f[n - 1] + payload[n] + 1) % ChecksumWidth]
<1>. DEFINE step == [x \in (1..N) \X Nat |-> (100 * x[2] + payload[x[1]] + 1) % ChecksumWidth]
<1>0. ChecksumWidth \in Nat \ {0}
      BY SMT DEF ChecksumWidth
<1>1. N \in Nat /\ \A n \in 1..N : payload[n] \in Nat
      BY DEF Cells
<1>2. \A n \in 1..N, v \in Nat :
          /\ step[<<n, v>>] = (100 * v + payload[n] + 1) % ChecksumWidth
          /\ (100 * v + payload[n] + 1) % ChecksumWidth \in Nat
      BY <1>0, <1>1
<1>3. step \in [(1..N) \X Nat -> Nat]
      BY <1>0, <1>1
<1>. DEFINE Sum == CHOOSE f : Eq(f)
<1>4. crc32(payload) = Sum[N]
      BY DEF crc32
<1>. HIDE DEF N, step
<1>5. PICK f \in [0..N -> Nat] : Recursive(f, N, 0, step)
  <2>1. N \in Nat /\ 0 \in Nat /\ step \in [(1..N) \X Nat -> Nat]
        BY <1>1, <1>3
  <2>. QED
       BY <2>1, Recursion
<1>6. ASSUME NEW n \in 0..N
      PROVE  f[n] = IF n = 0 THEN 0 ELSE (100 * f[n - 1] + payload[n] + 1) % ChecksumWidth
  <2>1. f[n] = IF n = 0 THEN 0 ELSE step[<<n, f[n - 1]>>]
        BY <1>5 DEF Recursive
  <2>2. n # 0 => n \in 1..N /\ f[n - 1] \in Nat
        BY <1>1
  <2>. QED
       BY <1>2, <2>1, <2>2
<1>7. Eq(f)
      BY <1>5, <1>6
<1>8. Eq(Sum)
      BY <1>7
<1>. HIDE DEF Sum
<1>. DEFINE Good == {n \in 0..N : Sum[n] \in Nat}
<1>9. 0 \in Good
      BY <1>1, <1>8
<1>10. ASSUME NEW n \in 1..N, n - 1 \in Good PROVE n \in Good
  <2>1. Sum[n] = (100 * Sum[n - 1] + payload[n] + 1) % ChecksumWidth
        BY <1>1, <1>8
  <2>2. Sum[n - 1] \in Nat
        BY <1>10
  <2>3. Sum[n] \in Nat
        BY <1>2, <2>1, <2>2
  <2>. QED
       BY <1>1, <2>3
<1>. HIDE DEF Good
<1>11. \A n \in 0..N : n \in Good
       BY <1>1, <1>9, <1>10, UpToInduction
<1>. QED
     BY <1>1, <1>4, <1>11 DEF Good

LEMMA FrameType ==
    ASSUME NEW payload \in Cells
    PROVE  /\ encodeWALFrame(payload) \in Cells
           /\ Len(encodeWALFrame(payload)) = Len(payload) + 4
           /\ encodeWALFrame(payload)[1] = 90
           /\ encodeWALFrame(payload)[2] = Len(payload)
           /\ \A i \in 1..Len(payload) : encodeWALFrame(payload)[i + 2] = payload[i]
           /\ encodeWALFrame(payload)[Len(payload) + 3] = crc32(payload)
           /\ encodeWALFrame(payload)[Len(payload) + 4] = 95
<1>. DEFINE L == Len(payload)
            c == crc32(payload)
<1>1. L \in Nat /\ c \in Nat /\ payload \in Seq(Nat)
      BY CrcType DEF Cells
<1>2. encodeWALFrame(payload) = (<<90, L>> \o payload) \o <<c, 95>>
      BY DEF encodeWALFrame, kWalFrameMagic, kWalCommitMagic
<1>. HIDE DEF L, c
<1>. DEFINE h == <<90, L>>
            t == <<c, 95>>
<1>3. /\ h \in Cells /\ Len(h) = 2 /\ h[1] = 90 /\ h[2] = L
      /\ t \in Cells /\ Len(t) = 2 /\ t[1] = c /\ t[2] = 95
      BY <1>1 DEF Cells
<1>. HIDE DEF h, t
<1>. DEFINE a == h \o payload
<1>4. /\ a \in Cells /\ Len(a) = 2 + L /\ a[1] = 90 /\ a[2] = L
      /\ \A i \in 1..L : a[2 + i] = payload[i]
  <2>1. IsConcat(a, h, payload)
        BY <1>3, ConcatCells
  <2>. HIDE DEF a
  <2>. QED
       BY <1>1, <1>3, <2>1 DEF L, IsConcat
<1>. HIDE DEF a
<1>. DEFINE e == a \o t
<1>5. /\ e \in Cells /\ Len(e) = (2 + L) + 2
      /\ \A i \in 1..(2 + L) : e[i] = a[i]
      /\ e[(2 + L) + 1] = c /\ e[(2 + L) + 2] = 95
  <2>1. IsConcat(e, a, t)
        BY <1>3, <1>4, ConcatCells
  <2>. HIDE DEF e
  <2>. QED
       BY <1>1, <1>3, <1>4, <2>1 DEF IsConcat
<1>6. encodeWALFrame(payload) = e
      BY <1>2 DEF a, h, t
<1>. HIDE DEF e
<1>7. e[1] = 90 /\ e[2] = L
      BY <1>1, <1>4, <1>5
<1>8. ASSUME NEW i \in 1..L PROVE e[i + 2] = payload[i]
  <2>1. 2 + i \in 1..(2 + L) /\ 2 + i = i + 2
        BY <1>1
  <2>. QED
       BY <1>4, <1>5, <2>1
<1>9. (2 + L) + 2 = L + 4 /\ (2 + L) + 1 = L + 3
      BY <1>1
<1>. QED
     BY <1>5, <1>6, <1>7, <1>8, <1>9 DEF L, c

\* Encoded's equation: there is a function of the number of frames that takes
\* the empty file to the encoded payloads, one frame after the other.
LEMMA EncodedSteps ==
    ASSUME NEW ps \in Seq(Cells)
    PROVE  \E upto \in [0..Len(ps) -> Cells] :
               /\ upto[0] = <<>>
               /\ \A n \in 1..Len(ps) : upto[n] = upto[n - 1] \o encodeWALFrame(ps[n])
               /\ Encoded(ps) = upto[Len(ps)]
<1>. DEFINE N == Len(ps)
<1>. DEFINE Eq(f) == f = [n \in 0..N |->
                             IF n = 0 THEN <<>> ELSE f[n - 1] \o encodeWALFrame(ps[n])]
<1>. DEFINE step == [x \in (1..N) \X Cells |-> x[2] \o encodeWALFrame(ps[x[1]])]
<1>1. N \in Nat /\ (\A n \in 1..N : ps[n] \in Cells) /\ <<>> \in Cells
      BY DEF Cells
<1>2. \A n \in 1..N, v \in Cells :
          /\ step[<<n, v>>] = v \o encodeWALFrame(ps[n])
          /\ v \o encodeWALFrame(ps[n]) \in Cells
      BY <1>1, FrameType, ConcatProperties DEF Cells
<1>3. step \in [(1..N) \X Cells -> Cells]
      BY <1>1, <1>2
<1>. DEFINE Upto == CHOOSE f : Eq(f)
<1>4. Encoded(ps) = Upto[N]
      BY DEF Encoded
<1>. HIDE DEF N, step
<1>5. PICK f \in [0..N -> Cells] : Recursive(f, N, <<>>, step)
  <2>1. N \in Nat /\ <<>> \in Cells /\ step \in [(1..N) \X Cells -> Cells]
        BY <1>1, <1>3
  <2>. QED
       BY <2>1, Recursion
<1>6. ASSUME NEW n \in 0..N
      PROVE  f[n] = IF n = 0 THEN <<>> ELSE f[n - 1] \o encodeWALFrame(ps[n])
  <2>1. f[n] = IF n = 0 THEN <<>> ELSE step[<<n, f[n - 1]>>]
        BY <1>5 DEF Recursive
  <2>2. n # 0 => n \in 1..N /\ f[n - 1] \in Cells
        BY <1>1
  <2>3. n # 0 => step[<<n, f[n - 1]>>] = f[n - 1] \o encodeWALFrame(ps[n])
        BY <1>2, <2>2
  <2>. QED
       BY <2>1, <2>3, Zenon
<1>7. Eq(f)
      BY <1>5, <1>6
<1>8. Eq(Upto)
      BY <1>7
<1>. HIDE DEF Upto
<1>. DEFINE Good == {n \in 0..N : Upto[n] \in Cells}
<1>9. 0 \in Good
      BY <1>1, <1>8
<1>10. ASSUME NEW n \in 1..N PROVE Upto[n] = Upto[n - 1] \o encodeWALFrame(ps[n])
  <2>1. n \in 0..N /\ n # 0
        BY <1>1
  <2>2. Upto[n] = IF n = 0 THEN <<>> ELSE Upto[n - 1] \o encodeWALFrame(ps[n])
        BY <1>8, <2>1, Zenon
  <2>. QED
       BY <2>1, <2>2
<1>11. ASSUME NEW n \in 1..N, n - 1 \in Good PROVE n \in Good
       BY <1>1, <1>2, <1>10, <1>11
<1>. HIDE DEF Good
<1>12. \A n \in 0..N : n \in Good
       BY <1>1, <1>9, <1>11, UpToInduction
<1>13. Upto \in [0..N -> Cells] /\ Upto[0] = <<>>
       BY <1>1, <1>8, <1>12 DEF Good
<1>. QED
     BY <1>4, <1>10, <1>13 DEF N

\* Whatever grows by the payloads' frames grows to the encoded payloads.
LEMMA EncodedUnique ==
    ASSUME NEW ps \in Seq(Cells), NEW u, u[0] = <<>>,
           \A n \in 1..Len(ps) : u[n] = u[n - 1] \o encodeWALFrame(ps[n])
    PROVE  Encoded(ps) = u[Len(ps)]
<1>1. PICK upto \in [0..Len(ps) -> Cells] :
          /\ upto[0] = <<>>
          /\ \A n \in 1..Len(ps) : upto[n] = upto[n - 1] \o encodeWALFrame(ps[n])
          /\ Encoded(ps) = upto[Len(ps)]
      BY EncodedSteps
<1>. DEFINE N == Len(ps)
<1>2. N \in Nat
      OBVIOUS
<1>. DEFINE Good == {n \in 0..N : upto[n] = u[n]}
<1>3. 0 \in Good
      BY <1>1, <1>2
<1>4. ASSUME NEW n \in 1..N, n - 1 \in Good PROVE n \in Good
  <2>1. upto[n - 1] = u[n - 1] /\ n \in 0..N
        BY <1>2, <1>4
  <2>2. upto[n] = upto[n - 1] \o encodeWALFrame(ps[n])
        BY <1>1
  <2>3. u[n] = u[n - 1] \o encodeWALFrame(ps[n])
        OBVIOUS
  <2>4. upto[n] = u[n]
        BY <2>1, <2>2, <2>3, Zenon
  <2>. QED
       BY <2>1, <2>4
<1>. HIDE DEF N, Good
<1>5. \A n \in 0..N : n \in Good
      BY <1>2, <1>3, <1>4, UpToInduction
<1>6. upto[N] = u[N]
      BY <1>2, <1>5 DEF Good
<1>. QED
     BY <1>1, <1>6 DEF N

LEMMA EncodedType ==
    ASSUME NEW ps \in Seq(Cells)
    PROVE  Encoded(ps) \in Cells
<1>1. Len(ps) \in 0..Len(ps)
      OBVIOUS
<1>. QED
     BY <1>1, EncodedSteps

LEMMA EncodedEmpty == Encoded(<<>>) = <<>>
<1>1. <<>> \in Seq(Cells) /\ Len(<<>>) = 0
      OBVIOUS
<1>. QED
     BY <1>1, EncodedSteps

LEMMA EncodedAppend ==
    ASSUME NEW ps \in Seq(Cells), NEW p \in Cells
    PROVE  Encoded(Append(ps, p)) = Encoded(ps) \o encodeWALFrame(p)
<1>. DEFINE qs == Append(ps, p)
            N == Len(ps)
<1>1. qs \in Seq(Cells) /\ N \in Nat /\ Len(qs) = N + 1 /\ qs[N + 1] = p
      OBVIOUS
<1>2. \A n \in 1..N : qs[n] = ps[n]
      OBVIOUS
<1>. HIDE DEF qs
<1>3. PICK upto \in [0..Len(qs) -> Cells] :
          /\ upto[0] = <<>>
          /\ \A n \in 1..Len(qs) : upto[n] = upto[n - 1] \o encodeWALFrame(qs[n])
          /\ Encoded(qs) = upto[Len(qs)]
      BY <1>1, EncodedSteps
<1>4. \A n \in 1..Len(ps) : n \in 1..Len(qs) /\ qs[n] = ps[n]
      BY <1>1, <1>2
<1>5. \A n \in 1..Len(ps) : upto[n] = upto[n - 1] \o encodeWALFrame(ps[n])
      BY <1>3, <1>4
<1>6. Encoded(ps) = upto[N]
      BY <1>3, <1>5, EncodedUnique
<1>. HIDE DEF N
<1>7. N + 1 \in 1..Len(qs) /\ (N + 1) - 1 = N
      BY <1>1
<1>8. upto[N + 1] = upto[(N + 1) - 1] \o encodeWALFrame(qs[N + 1])
      BY <1>3, <1>7, Zenon
<1>. QED
     BY <1>1, <1>3, <1>6, <1>7, <1>8, Zenon DEF qs

LEMMA EncodedCons ==
    ASSUME NEW p \in Cells, NEW ps \in Seq(Cells)
    PROVE  Encoded(<<p>> \o ps) = encodeWALFrame(p) \o Encoded(ps)
<1>. DEFINE qs == <<p>> \o ps
            N == Len(ps)
            e == encodeWALFrame(p)
<1>1. /\ qs \in Seq(Cells) /\ N \in Nat /\ Len(qs) = N + 1 /\ qs[1] = p
      /\ \A n \in 1..N : qs[n + 1] = ps[n]
      OBVIOUS
<1>2. e \in Cells
      BY FrameType
<1>3. PICK upto \in [0..Len(ps) -> Cells] :
          /\ upto[0] = <<>>
          /\ \A n \in 1..Len(ps) : upto[n] = upto[n - 1] \o encodeWALFrame(ps[n])
          /\ Encoded(ps) = upto[Len(ps)]
      BY EncodedSteps
<1>. DEFINE Behind(k) == e \o upto[k]
<1>. DEFINE u == [n \in 0..(N + 1) |-> IF n = 0 THEN <<>> ELSE Behind(n - 1)]
<1>. HIDE DEF qs, N, e, Behind
<1>4. u[0] = <<>> /\ u[N + 1] = e \o upto[N] /\ u[1] = e \o <<>>
  <2>1. u[0] = <<>> /\ u[N + 1] = Behind(N) /\ u[1] = Behind(0)
        BY <1>1
  <2>. QED
       BY <1>3, <2>1, Zenon DEF Behind
<1>5. e \o <<>> = <<>> \o e
      BY <1>2 DEF Cells
<1>6. ASSUME NEW n \in 1..Len(qs) PROVE u[n] = u[n - 1] \o encodeWALFrame(qs[n])
  <2>1. CASE n = 1
    <3>1. n - 1 = 0 /\ u[n] = <<>> \o e /\ u[0] = <<>> /\ qs[n] = p
          BY <1>1, <1>4, <1>5, <2>1
    <3>. QED
         BY <3>1 DEF e
  <2>2. CASE n # 1
    <3>. DEFINE m == n - 1
    <3>1. m \in 1..N /\ m - 1 \in 0..N /\ n = m + 1 /\ m \in 0..N /\ n \in 0..(N + 1)
          BY <1>1, <2>2
    <3>2. u[n] = e \o upto[m] /\ u[m] = e \o upto[m - 1]
      <4>1. u[n] = Behind(m) /\ u[m] = Behind(m - 1)
            BY <1>1, <3>1
      <4>. QED
           BY <4>1, Zenon DEF Behind
    <3>. HIDE DEF m, u
    <3>3. upto[m] = upto[m - 1] \o encodeWALFrame(ps[m]) /\ qs[n] = ps[m]
          BY <1>1, <1>3, <3>1 DEF N
    <3>4. upto[m - 1] \in Cells /\ encodeWALFrame(ps[m]) \in Cells
      <4>1. ps[m] \in Cells
            BY <3>1 DEF N
      <4>. QED
           BY <3>1, <4>1, <1>3, FrameType DEF N
    <3>5. e \o (upto[m - 1] \o encodeWALFrame(ps[m])) = (e \o upto[m - 1]) \o encodeWALFrame(ps[m])
          BY <1>2, <3>4, ConcatCellsAssoc
    <3>. QED
         BY <3>2, <3>3, <3>5 DEF m
  <2>. QED
       BY <2>1, <2>2
<1>. HIDE DEF u
<1>7. Encoded(qs) = u[Len(qs)]
      BY <1>1, <1>4, <1>6, EncodedUnique
<1>. QED
     BY <1>1, <1>3, <1>4, <1>7 DEF qs, N, e

-----------------------------------------------------------------------------
(***************************************************************************)
(* The parser.                                                             *)
(***************************************************************************)
\* What the parser returns where no frame can be framed.
Stopped(file, pos) ==
    [ok |-> \/ pos > Len(file)
            \/ ~hasCommitMarker(file, pos) /\ ~hasValidFrameAfter(file, pos + 1),
     payloads |-> <<>>, lastGood |-> pos - 1]

\* One turn of the parser's loop, the later ones given.
Turn(file, from, pos) ==
    IF pos > Len(file) \/ ~FramedAt(file, pos)
    THEN Stopped(file, pos)
    ELSE IF ~ChecksumAt(file, pos)
    THEN [ok |-> FALSE, payloads |-> <<>>, lastGood |-> pos - 1]
    ELSE [from[pos + 4 + file[pos + 1]] EXCEPT !.payloads = <<PayloadAt(file, pos)>> \o @]

ParsesFrom(from, file) ==
    /\ from = [pos \in 1..(Len(file) + 1) |-> Turn(file, from, pos)]
    /\ parse(file) = from[1]

\* The next frame is further on.
LEMMA NextPosition ==
    ASSUME NEW file \in Cells, NEW pos \in 1..Len(file), FramedAt(file, pos)
    PROVE  pos + 4 + file[pos + 1] \in (pos + 1)..(Len(file) + 1)
<1>1. pos + 1 \in 1..Len(file) /\ Len(file) \in Nat
      BY DEF FramedAt, kWalFrameMetadataSize, Cells
<1>2. file[pos + 1] \in Nat
      BY <1>1 DEF Cells
<1>3. file[pos + 1] <= Len(file) + 1 - pos - 4
      BY DEF FramedAt, kWalFrameMetadataSize
<1>. QED
     BY <1>1, <1>2, <1>3

\* A turn looks only at the later ones.
LEMMA TurnLooksAhead ==
    ASSUME NEW file \in Cells, NEW pos \in 1..(Len(file) + 1), NEW f, NEW g,
           \A later \in (pos + 1)..(Len(file) + 1) : f[later] = g[later]
    PROVE  Turn(file, f, pos) = Turn(file, g, pos)
<1>1. CASE pos > Len(file) \/ ~FramedAt(file, pos)
      BY <1>1 DEF Turn
<1>2. CASE ~(pos > Len(file)) /\ FramedAt(file, pos)
  <2>0. Len(file) \in Nat
        BY DEF Cells
  <2>1. pos \in 1..Len(file)
        BY <1>2, <2>0
  <2>2. f[pos + 4 + file[pos + 1]] = g[pos + 4 + file[pos + 1]]
        BY <1>2, <2>1, NextPosition
  <2>. QED
       BY <2>2, Zenon DEF Turn
<1>. QED
     BY <1>1, <1>2

\* The parser's loop is well defined: it always moves forward.
LEMMA ParseSteps ==
    ASSUME NEW file \in Cells
    PROVE  \E from : ParsesFrom(from, file)
<1>. DEFINE N == Len(file) + 1
<1>0. N \in Nat /\ N \in 1..N
      BY DEF Cells
<1>. DEFINE Step(f, pos) == Turn(file, f, pos)
<1>. DEFINE Solves(f, k) == f = [pos \in k..N |-> Step(f, pos)]
<1>1. ASSUME NEW pos \in 1..N, NEW f, NEW g, \A later \in (pos + 1)..N : f[later] = g[later]
      PROVE  Step(f, pos) = Step(g, pos)
      BY <1>1, TurnLooksAhead
<1>2. parse(file) = (CHOOSE f : Solves(f, 1))[1]
      BY DEF parse, Turn, Stopped, kWalFrameMetadataSize
<1>. HIDE DEF N, Step
<1>. DEFINE Good == {k \in 1..N : \E f : Solves(f, k)}
<1>3. ASSUME NEW k \in 1..N, \A m \in (k + 1)..N : m \in Good PROVE k \in Good
  <2>1. ASSUME NEW f, k + 1 \in 1..N => Solves(f, k + 1) PROVE \E g : Solves(g, k)
    <3>. DEFINE g == [pos \in k..N |-> IF pos = k THEN Step(f, k) ELSE f[pos]]
    <3>1. ASSUME NEW pos \in k..N PROVE g[pos] = Step(g, pos)
      <4>1. \A later \in (pos + 1)..N : g[later] = f[later]
            BY <1>0, <1>3
      <4>2. Step(g, pos) = Step(f, pos)
        <5>1. pos \in 1..N
              BY <1>0, <1>3
        <5>. HIDE DEF g
        <5>. QED
             BY <1>1, <4>1, <5>1
      <4>3. pos # k => f[pos] = Step(f, pos)
        <5>1. pos # k => pos \in (k + 1)..N /\ k + 1 \in 1..N
              BY <1>0, <1>3
        <5>. QED
             BY <2>1, <5>1
      <4>4. g[pos] = IF pos = k THEN Step(f, k) ELSE f[pos]
            OBVIOUS
      <4>. HIDE DEF g
      <4>. QED
           BY <4>2, <4>3, <4>4
    <3>2. g = [pos \in k..N |-> g[pos]]
          OBVIOUS
    <3>. HIDE DEF g
    <3>3. Solves(g, k)
          BY <3>1, <3>2
    <3>. QED
         BY <3>3
  <2>2. CASE k + 1 \in 1..N
    <3>1. k + 1 \in Good
          BY <1>3, <2>2
    <3>2. PICK f : Solves(f, k + 1)
          BY <3>1
    <3>. QED
         BY <2>1, <3>2
  <2>3. CASE k + 1 \notin 1..N
        BY <2>1, <2>3
  <2>. QED
       BY <2>2, <2>3
<1>. HIDE DEF Good
<1>4. \A k \in 1..N : k \in Good
      BY <1>0, <1>3, DownInduction
<1>5. 1 \in Good
      BY <1>0, <1>4
<1>6. \E f : Solves(f, 1)
      BY <1>5 DEF Good
<1>. DEFINE from == CHOOSE f : Solves(f, 1)
<1>7. Solves(from, 1)
      BY <1>6
<1>. HIDE DEF from
<1>8. parse(file) = from[1]
      BY <1>2 DEF from
<1>. QED
     BY <1>7, <1>8 DEF ParsesFrom, Step, N

-----------------------------------------------------------------------------
(***************************************************************************)
(* What the parser reads.                                                  *)
(***************************************************************************)
\* The file has the cells s at pos.
IsPart(file, pos, s) ==
    /\ pos - 1 + Len(s) <= Len(file)
    /\ \A i \in 1..Len(s) : file[pos - 1 + i] = s[i]

LEMMA PartsOfConcat ==
    ASSUME NEW file \in Cells, NEW s \in Cells, NEW t \in Cells, NEW pos \in 1..(Len(file) + 1)
    PROVE  IsPart(file, pos, s \o t) <=>
               IsPart(file, pos, s) /\ IsPart(file, pos + Len(s), t)
<1>. DEFINE u == s \o t
            a == Len(s)
            b == Len(t)
            N == Len(file)
<1>1. a \in Nat /\ b \in Nat /\ N \in Nat
      BY DEF Cells
<1>2. /\ Len(u) = a + b
      /\ \A i \in 1..a : u[i] = s[i]
      /\ \A i \in 1..b : u[a + i] = t[i]
  <2>1. IsConcat(u, s, t)
        BY ConcatCells
  <2>. HIDE DEF u
  <2>. QED
       BY <2>1 DEF IsConcat
<1>. HIDE DEF u, a, b, N
<1>3. IsPart(file, pos, u) <=> /\ pos - 1 + (a + b) <= N
                               /\ \A i \in 1..(a + b) : file[pos - 1 + i] = u[i]
      BY <1>2 DEF IsPart, N
<1>4. IsPart(file, pos, s) <=> /\ pos - 1 + a <= N
                               /\ \A i \in 1..a : file[pos - 1 + i] = s[i]
      BY DEF IsPart, N, a
<1>5. IsPart(file, pos + a, t) <=> /\ pos + a - 1 + b <= N
                                   /\ \A i \in 1..b : file[pos + a - 1 + i] = t[i]
      BY <1>1 DEF IsPart, N, b
<1>6. ASSUME IsPart(file, pos, u)
      PROVE  IsPart(file, pos, s) /\ IsPart(file, pos + a, t)
  <2>1. \A i \in 1..a : i \in 1..(a + b)
        BY <1>1
  <2>2. \A i \in 1..b : a + i \in 1..(a + b) /\ pos - 1 + (a + i) = pos + a - 1 + i
        BY <1>1
  <2>3. \A i \in 1..a : file[pos - 1 + i] = s[i]
        BY <1>2, <1>3, <1>6, <2>1
  <2>4. ASSUME NEW i \in 1..b PROVE file[pos + a - 1 + i] = t[i]
    <3>1. file[pos - 1 + (a + i)] = u[a + i]
          BY <1>3, <1>6, <2>2
    <3>. QED
         BY <1>2, <2>2, <3>1
  <2>5. pos - 1 + a <= N /\ pos + a - 1 + b <= N
        BY <1>1, <1>3, <1>6
  <2>. QED
       BY <1>4, <1>5, <2>3, <2>4, <2>5
<1>7. ASSUME IsPart(file, pos, s), IsPart(file, pos + a, t)
      PROVE  IsPart(file, pos, u)
  <2>1. ASSUME NEW i \in 1..(a + b) PROVE file[pos - 1 + i] = u[i]
    <3>1. CASE i \in 1..a
          BY <1>2, <1>4, <1>7, <3>1
    <3>2. CASE i \notin 1..a
      <4>. DEFINE j == i - a
      <4>1. j \in 1..b /\ a + j = i /\ pos + a - 1 + j = pos - 1 + i
            BY <1>1, <3>2
      <4>2. file[pos + a - 1 + j] = t[j] /\ u[a + j] = t[j]
            BY <1>2, <1>5, <1>7, <4>1
      <4>. QED
           BY <4>1, <4>2
    <3>. QED
         BY <3>1, <3>2
  <2>2. pos - 1 + (a + b) <= N
        BY <1>1, <1>5, <1>7
  <2>. QED
       BY <1>3, <2>1, <2>2
<1>. QED
     BY <1>6, <1>7 DEF u, a

\* A frame that the parser accepts is the frame of its payload.
LEMMA FrameAccepted ==
    ASSUME NEW file \in Cells, NEW pos \in 1..Len(file),
           FramedAt(file, pos), ChecksumAt(file, pos)
    PROVE  /\ PayloadAt(file, pos) \in Cells
           /\ Len(PayloadAt(file, pos)) = file[pos + 1]
           /\ IsPart(file, pos, encodeWALFrame(PayloadAt(file, pos)))
<1>. DEFINE N == Len(file)
            k == file[pos + 1]
            p == PayloadAt(file, pos)
            e == encodeWALFrame(p)
<1>1. N \in Nat /\ \A i \in 1..N : file[i] \in Nat
      BY DEF Cells
<1>2. /\ pos + 4 <= N + 1 /\ file[pos] = 90
      /\ k <= N + 1 - pos - 4 /\ file[pos + 3 + k] = 95
      BY DEF FramedAt, kWalFrameMetadataSize, kWalFrameMagic, kWalCommitMagic
<1>3. k \in Nat
      BY <1>1, <1>2
<1>4. file[pos + 2 + k] = crc32(p)
      BY DEF ChecksumAt
<1>5. p = SubSeq(file, pos + 2, pos + 1 + k)
      BY DEF PayloadAt
<1>. HIDE DEF N, k, p, e
<1>6. \A i \in (pos + 2)..(pos + 1 + k) : file[i] \in Nat
      BY <1>1, <1>2, <1>3 DEF N
<1>7. pos + 2 \in Int /\ pos + 1 + k \in Int /\ (pos + 1 + k) - (pos + 2) + 1 = k
      BY <1>1, <1>3 DEF N
<1>8. /\ p \in Seq(Nat)
      /\ Len(p) = IF pos + 2 <= pos + 1 + k THEN (pos + 1 + k) - (pos + 2) + 1 ELSE 0
      /\ \A i \in 1..((pos + 1 + k) - (pos + 2) + 1) : p[i] = file[(pos + 2) + i - 1]
      BY <1>5, <1>6, <1>7, SubSeqProperties
<1>9. Len(p) = k
      BY <1>3, <1>7, <1>8 DEF N
<1>10. \A i \in 1..k : p[i] = file[pos + 1 + i]
  <2>1. \A i \in 1..k : (pos + 2) + i - 1 = pos + 1 + i
        BY <1>3
  <2>. QED
       BY <1>7, <1>8, <2>1
<1>11. p \in Cells
       BY <1>8 DEF Cells
<1>12. /\ Len(e) = k + 4 /\ e[1] = 90 /\ e[2] = k
       /\ \A i \in 1..k : e[i + 2] = p[i]
       /\ e[k + 3] = crc32(p) /\ e[k + 4] = 95
       BY <1>9, <1>11, FrameType DEF e
<1>13. ASSUME NEW i \in 1..(k + 4) PROVE file[pos - 1 + i] = e[i]
  <2>1. CASE i = 1
        BY <1>2, <1>12, <2>1
  <2>2. CASE i = 2
    <3>1. pos - 1 + i = pos + 1
          BY <2>2
    <3>. QED
         BY <1>12, <2>2, <3>1 DEF k
  <2>3. CASE i = k + 3
    <3>1. pos - 1 + i = pos + 2 + k
          BY <1>3, <2>3
    <3>. QED
         BY <1>4, <1>12, <2>3, <3>1
  <2>4. CASE i = k + 4
    <3>1. pos - 1 + i = pos + 3 + k
          BY <1>3, <2>4
    <3>. QED
         BY <1>2, <1>12, <2>4, <3>1
  <2>5. CASE i \in 3..(k + 2)
    <3>. DEFINE j == i - 2
    <3>1. j \in 1..k /\ j + 2 = i /\ pos + 1 + j = pos - 1 + i
          BY <1>3, <2>5
    <3>. QED
         BY <1>10, <1>12, <3>1
  <2>. QED
       BY <1>3, <2>1, <2>2, <2>3, <2>4, <2>5
<1>14. pos - 1 + (k + 4) <= N
       BY <1>1, <1>2, <1>3
<1>15. IsPart(file, pos, e)
       BY <1>12, <1>13, <1>14 DEF IsPart, N
<1>. QED
     BY <1>9, <1>11, <1>15 DEF p, k, e

\* The parser accepts the frame of a payload.
LEMMA FrameRead ==
    ASSUME NEW file \in Cells, NEW pos \in 1..(Len(file) + 1), NEW p \in Cells,
           IsPart(file, pos, encodeWALFrame(p))
    PROVE  /\ pos \in 1..Len(file)
           /\ file[pos + 1] = Len(p)
           /\ FramedAt(file, pos) /\ ChecksumAt(file, pos)
           /\ PayloadAt(file, pos) = p
<1>. DEFINE N == Len(file)
            k == Len(p)
            e == encodeWALFrame(p)
<1>1. N \in Nat /\ k \in Nat /\ \A i \in 1..k : p[i] \in Nat
      BY DEF Cells
<1>2. /\ Len(e) = k + 4 /\ e[1] = 90 /\ e[2] = k
      /\ \A i \in 1..k : e[i + 2] = p[i]
      /\ e[k + 3] = crc32(p) /\ e[k + 4] = 95
      BY FrameType
<1>. HIDE DEF N, k, e
<1>3. pos - 1 + (k + 4) <= N /\ \A i \in 1..(k + 4) : file[pos - 1 + i] = e[i]
      BY <1>2 DEF IsPart, N, e
<1>4. /\ 1 \in 1..(k + 4) /\ pos - 1 + 1 = pos
      /\ 2 \in 1..(k + 4) /\ pos - 1 + 2 = pos + 1
      /\ k + 3 \in 1..(k + 4) /\ pos - 1 + (k + 3) = pos + 2 + k
      /\ k + 4 \in 1..(k + 4) /\ pos - 1 + (k + 4) = pos + 3 + k
      BY <1>1
<1>5. /\ file[pos] = 90 /\ file[pos + 1] = k
      /\ file[pos + 2 + k] = crc32(p) /\ file[pos + 3 + k] = 95
      BY <1>2, <1>3, <1>4
<1>6. \A i \in 1..k : file[pos + 1 + i] = p[i]
  <2>1. \A i \in 1..k : i + 2 \in 1..(k + 4) /\ pos - 1 + (i + 2) = pos + 1 + i
        BY <1>1
  <2>. QED
       BY <1>2, <1>3, <2>1
<1>7. FramedAt(file, pos)
  <2>1. pos + 4 <= N + 1 /\ k <= N + 1 - pos - 4
        BY <1>1, <1>3
  <2>. QED
       BY <1>5, <2>1 DEF FramedAt, kWalFrameMetadataSize, kWalFrameMagic, kWalCommitMagic, N
<1>8. PayloadAt(file, pos) = p
  <2>. DEFINE q == SubSeq(file, pos + 2, pos + 1 + k)
  <2>1. PayloadAt(file, pos) = q
        BY <1>5 DEF PayloadAt
  <2>2. \A i \in (pos + 2)..(pos + 1 + k) : file[i] \in Nat
        BY <1>1, <1>3 DEF N, Cells
  <2>3. pos + 2 \in Int /\ pos + 1 + k \in Int /\ (pos + 1 + k) - (pos + 2) + 1 = k
        BY <1>1
  <2>4. /\ q \in Seq(Nat)
        /\ Len(q) = IF pos + 2 <= pos + 1 + k THEN (pos + 1 + k) - (pos + 2) + 1 ELSE 0
        /\ \A i \in 1..((pos + 1 + k) - (pos + 2) + 1) : q[i] = file[(pos + 2) + i - 1]
        BY <2>2, <2>3, SubSeqProperties
  <2>. HIDE DEF q
  <2>5. Len(q) = k
        BY <1>1, <2>3, <2>4
  <2>6. \A i \in 1..k : q[i] = p[i]
    <3>1. \A i \in 1..k : (pos + 2) + i - 1 = pos + 1 + i
          BY <1>1
    <3>. QED
         BY <1>6, <2>3, <2>4, <3>1
  <2>7. q = p
        BY <2>4, <2>5, <2>6, SeqEqual DEF k, Cells
  <2>. QED
       BY <2>1, <2>7
<1>9. ChecksumAt(file, pos)
      BY <1>5, <1>8 DEF ChecksumAt
<1>10. pos \in 1..N
       BY <1>1, <1>3
<1>. QED
     BY <1>5, <1>7, <1>8, <1>9, <1>10 DEF N, k

\* Whatever the file holds, what the parser accepts is the encoding of the
\* payloads it returns, up to the position it would truncate the file to.
LEMMA ParseIsPrefix ==
    ASSUME NEW file \in Cells
    PROVE  /\ parse(file).payloads \in Seq(Cells)
           /\ SubSeq(file, 1, parse(file).lastGood) = Encoded(parse(file).payloads)
<1>. DEFINE N == Len(file) + 1
<1>0. N \in Nat /\ 1 \in 1..N /\ Len(file) = N - 1
      BY DEF Cells
<1>1. PICK from : ParsesFrom(from, file)
      BY ParseSteps
<1>. DEFINE Record == [ok : BOOLEAN, payloads : Seq(Cells), lastGood : Int]
            Read(pos, r) == /\ r \in Record
                            /\ IsPart(file, pos, Encoded(r.payloads))
                            /\ r.lastGood = pos - 1 + Len(Encoded(r.payloads))
            Good == {pos \in 1..N : Read(pos, from[pos])}
<1>2. ASSUME NEW pos \in 1..N, \A later \in (pos + 1)..N : later \in Good
      PROVE  pos \in Good
  <2>1. from[pos] = Turn(file, from, pos)
        BY <1>1 DEF ParsesFrom
  <2>2. ASSUME NEW r, NEW b \in BOOLEAN, r = [ok |-> b, payloads |-> <<>>, lastGood |-> pos - 1]
        PROVE  Read(pos, r)
    <3>1. r.payloads = <<>> /\ r.lastGood = pos - 1 /\ r \in Record
          BY <2>2
    <3>2. Encoded(r.payloads) = <<>>
          BY <3>1, EncodedEmpty
    <3>3. IsPart(file, pos, <<>>) /\ Len(<<>>) = 0
          BY <1>0 DEF IsPart
    <3>. QED
         BY <3>1, <3>2, <3>3, <1>0
  <2>3. CASE pos > Len(file) \/ ~FramedAt(file, pos)
    <3>1. from[pos] = Stopped(file, pos)
          BY <2>1, <2>3, Zenon DEF Turn
    <3>. DEFINE b == \/ pos > Len(file)
                     \/ ~hasCommitMarker(file, pos) /\ ~hasValidFrameAfter(file, pos + 1)
    <3>2. b \in BOOLEAN
          OBVIOUS
    <3>3. Stopped(file, pos) = [ok |-> b, payloads |-> <<>>, lastGood |-> pos - 1]
          BY DEF Stopped
    <3>. HIDE DEF b
    <3>4. Read(pos, from[pos])
      <4>. HIDE DEF Read
      <4>. QED
           BY <2>2, <3>1, <3>2, <3>3
    <3>. QED
         BY <3>4
  <2>4. CASE ~(pos > Len(file) \/ ~FramedAt(file, pos)) /\ ~ChecksumAt(file, pos)
    <3>1. from[pos] = [ok |-> FALSE, payloads |-> <<>>, lastGood |-> pos - 1]
          BY <2>1, <2>4, Zenon DEF Turn
    <3>2. Read(pos, from[pos])
      <4>. HIDE DEF Read
      <4>. QED
           BY <2>2, <3>1
    <3>. QED
         BY <3>2
  <2>5. CASE ~(pos > Len(file) \/ ~FramedAt(file, pos)) /\ ChecksumAt(file, pos)
    <3>. DEFINE p == PayloadAt(file, pos)
                next == pos + 4 + file[pos + 1]
                r == from[next]
                e == encodeWALFrame(p)
    <3>1. from[pos] = [r EXCEPT !.payloads = <<p>> \o @]
          BY <2>1, <2>5, Zenon DEF Turn
    <3>2. pos \in 1..Len(file)
          BY <1>0, <2>5
    <3>3. p \in Cells /\ Len(p) = file[pos + 1] /\ IsPart(file, pos, e)
          BY <2>5, <3>2, FrameAccepted
    <3>4. next \in (pos + 1)..N /\ next \in 1..N
      <4>1. next \in (pos + 1)..(Len(file) + 1)
            BY <2>5, <3>2, NextPosition
      <4>. QED
           BY <1>0, <4>1
    <3>5. Read(next, r)
          BY <1>2, <3>4
    <3>6. e \in Cells /\ Len(e) = Len(p) + 4
          BY <3>3, FrameType
    <3>. HIDE DEF p, next, r, e
    <3>. DEFINE ps == r.payloads
                qs == <<p>> \o ps
    <3>7. ps \in Seq(Cells) /\ qs \in Seq(Cells)
      <4>1. ps \in Seq(Cells)
            BY <3>5
      <4>. QED
           BY <3>3, <4>1
    <3>8. /\ from[pos] \in Record /\ from[pos].payloads = qs
          /\ from[pos].lastGood = r.lastGood
          BY <3>1, <3>5, <3>7
    <3>9. Encoded(qs) = e \o Encoded(ps) /\ Encoded(ps) \in Cells
          BY <3>3, <3>7, EncodedCons, EncodedType DEF e
    <3>10. next = pos + Len(e)
      <4>1. Len(p) \in Nat
            BY <3>3 DEF Cells
      <4>. QED
           BY <3>3, <3>6, <4>1 DEF next
    <3>11. IsPart(file, pos, e \o Encoded(ps))
      <4>1. IsPart(file, next, Encoded(ps))
            BY <3>5
      <4>. QED
           BY <3>3, <3>6, <3>9, <3>10, <4>1, PartsOfConcat, <1>0
    <3>12. Len(e \o Encoded(ps)) = Len(e) + Len(Encoded(ps))
           BY <3>6, <3>9, ConcatCells DEF IsConcat
    <3>13. Len(e) \in Nat /\ Len(Encoded(ps)) \in Nat
           BY <3>6, <3>9 DEF Cells
    <3>14. r.lastGood = pos - 1 + Len(e \o Encoded(ps))
      <4>1. r.lastGood = next - 1 + Len(Encoded(ps))
            BY <3>5
      <4>. QED
           BY <3>10, <3>12, <3>13, <4>1
    <3>. HIDE DEF ps, qs
    <3>15. Read(pos, from[pos])
           BY <3>8, <3>9, <3>11, <3>14
    <3>. QED
         BY <3>15
  <2>. QED
       BY <2>3, <2>4, <2>5
<1>. HIDE DEF N, Good
<1>3. \A pos \in 1..N : pos \in Good
      BY <1>0, <1>2, DownInduction
<1>4. Read(1, parse(file))
      BY <1>0, <1>1, <1>3 DEF Good, ParsesFrom
<1>. DEFINE r == parse(file)
            e == Encoded(r.payloads)
<1>5. r.payloads \in Seq(Cells) /\ IsPart(file, 1, e) /\ r.lastGood = 1 - 1 + Len(e)
      BY <1>4
<1>6. e \in Cells
      BY <1>5, EncodedType
<1>. HIDE DEF r, e
<1>7. /\ r.lastGood = Len(e) /\ Len(e) \in Nat /\ Len(e) <= Len(file)
      /\ \A i \in 1..Len(e) : file[i] = e[i]
      BY <1>0, <1>5, <1>6 DEF IsPart, Cells
<1>. DEFINE q == SubSeq(file, 1, Len(e))
<1>8. q \in Seq(Nat) /\ Len(q) = Len(e) /\ \A i \in 1..Len(e) : q[i] = file[i]
      BY <1>7 DEF Cells
<1>. HIDE DEF q
<1>9. q = e
      BY <1>6, <1>7, <1>8, SeqEqual DEF Cells
<1>. QED
     BY <1>5, <1>7, <1>9 DEF q, e, r

\* No commit magic from pos on.
NoCommitFrom(file, pos) == \A i \in pos..Len(file) : file[i] # kWalCommitMagic

LEMMA NoFrameInTail ==
    ASSUME NEW file \in Cells, NEW pos \in 1..Len(file), NoCommitFrom(file, pos)
    PROVE  ~FramedAt(file, pos)
<1>. DEFINE N == Len(file)
            k == file[pos + 1]
<1>. SUFFICES ASSUME FramedAt(file, pos) PROVE FALSE
     OBVIOUS
<1>1. N \in Nat /\ \A i \in 1..N : file[i] \in Nat
      BY DEF Cells
<1>2. /\ pos + 4 <= N + 1 /\ k <= N + 1 - pos - 4
      /\ file[pos + 3 + k] = kWalCommitMagic
      BY DEF FramedAt, kWalFrameMetadataSize
<1>3. k \in Nat
      BY <1>1, <1>2
<1>. HIDE DEF N, k
<1>4. pos + 3 + k \in pos..N
      BY <1>1, <1>2, <1>3 DEF N
<1>. QED
     BY <1>2, <1>4 DEF NoCommitFrom, N

\* A tail without the commit magic is a tail to cut off.
LEMMA TailStops ==
    ASSUME NEW file \in Cells, NEW pos \in 1..(Len(file) + 1), NoCommitFrom(file, pos),
           NEW from
    PROVE  Turn(file, from, pos) = [ok |-> TRUE, payloads |-> <<>>, lastGood |-> pos - 1]
<1>0. Len(file) \in Nat
      BY DEF Cells
<1>1. pos > Len(file) \/ ~FramedAt(file, pos)
      BY <1>0, NoFrameInTail
<1>2. CASE pos > Len(file)
      BY <1>1, <1>2, Zenon DEF Turn, Stopped
<1>3. CASE ~(pos > Len(file))
  <2>1. ~hasCommitMarker(file, pos)
    <3>1. Len(file) \in pos..Len(file)
          BY <1>0, <1>3
    <3>. QED
         BY <3>1 DEF hasCommitMarker, NoCommitFrom
  <2>2. ~hasValidFrameAfter(file, pos + 1)
    <3>1. ASSUME NEW later \in (pos + 1)..Len(file) PROVE ~validFrameAt(file, later)
      <4>1. later \in 1..Len(file) /\ \A i \in later..Len(file) : i \in pos..Len(file)
            BY <1>0
      <4>2. NoCommitFrom(file, later)
            BY <4>1 DEF NoCommitFrom
      <4>3. ~FramedAt(file, later)
            BY <4>1, <4>2, NoFrameInTail
      <4>. QED
           BY <4>3 DEF validFrameAt
    <3>. QED
         BY <3>1 DEF hasValidFrameAfter
  <2>. QED
       BY <1>1, <2>1, <2>2, Zenon DEF Turn, Stopped
<1>. QED
     BY <1>2, <1>3

WithPayloads(r, ps) == [r EXCEPT !.payloads = ps]

Parsed(ok, ps, lastGood) == [ok |-> ok, payloads |-> ps, lastGood |-> lastGood]

LEMMA PayloadsReplaced ==
    ASSUME NEW b, NEW x, NEW y, NEW z
    PROVE  WithPayloads(Parsed(b, x, y), z) = Parsed(b, z, y)
BY DEF WithPayloads, Parsed

\* The parser takes every whole frame of an undamaged file, and nothing of a
\* tail without the commit magic.
LEMMA ParseUndamaged ==
    ASSUME NEW ps \in Seq(Cells), NEW torn \in Cells, NoCommitFrom(torn, 1)
    PROVE  parse(Encoded(ps) \o torn) =
               [ok |-> TRUE, payloads |-> ps, lastGood |-> Len(Encoded(ps))]
<1>. DEFINE file == Encoded(ps) \o torn
            B == Len(Encoded(ps))
            N == Len(file) + 1
            K == Len(ps)
<1>1. Encoded(ps) \in Cells
      BY EncodedType
<1>2. IsConcat(file, Encoded(ps), torn)
      BY <1>1, ConcatCells
<1>. HIDE DEF file
<1>3. /\ file \in Cells /\ B \in Nat /\ Len(torn) \in Nat /\ N = B + Len(torn) + 1
      /\ N \in Nat /\ K \in Nat
      BY <1>1, <1>2 DEF IsConcat, Cells
<1>4. NoCommitFrom(file, B + 1)
  <2>1. ASSUME NEW i \in (B + 1)..Len(file) PROVE file[i] # kWalCommitMagic
    <3>. DEFINE j == i - B
    <3>1. j \in 1..Len(torn) /\ B + j = i
          BY <1>3
    <3>2. file[B + j] = torn[j]
          BY <1>2, <3>1 DEF IsConcat
    <3>. QED
         BY <3>1, <3>2 DEF NoCommitFrom
  <2>. QED
       BY <2>1 DEF NoCommitFrom
<1>5. IsPart(file, 1, Encoded(ps))
      BY <1>2, <1>3 DEF IsPart, IsConcat
<1>6. PICK from : ParsesFrom(from, file)
      BY <1>3, ParseSteps
<1>. HIDE DEF B, N, K
<1>7. \A pos \in 1..N : from[pos] = Turn(file, from, pos)
      BY <1>6 DEF ParsesFrom, N
<1>. DEFINE Reads(pos, qs) ==
                IsPart(file, pos, Encoded(qs)) /\ pos + Len(Encoded(qs)) = B + 1
                  => from[pos] = [ok |-> TRUE, payloads |-> qs, lastGood |-> B]
            Good == {n \in 0..K : \A pos \in 1..N : \A qs \in Seq(Cells) :
                                       Len(qs) = n => Reads(pos, qs)}
<1>8. 0 \in Good
  <2>1. ASSUME NEW pos \in 1..N, NEW qs \in Seq(Cells), Len(qs) = 0,
               pos + Len(Encoded(qs)) = B + 1
        PROVE  from[pos] = [ok |-> TRUE, payloads |-> qs, lastGood |-> B]
    <3>1. qs = <<>>
          BY <2>1
    <3>2. Len(Encoded(qs)) = 0
          BY <3>1, EncodedEmpty
    <3>3. pos = B + 1 /\ pos - 1 = B
          BY <1>3, <2>1, <3>2
    <3>4. Turn(file, from, pos) = [ok |-> TRUE, payloads |-> <<>>, lastGood |-> pos - 1]
          BY <1>3, <1>4, <3>3, TailStops DEF N
    <3>. QED
         BY <1>7, <3>1, <3>3, <3>4, Zenon
  <2>2. 0 \in 0..K
        BY <1>3
  <2>. QED
       BY <2>1, <2>2
<1>9. ASSUME NEW n \in 1..K, n - 1 \in Good PROVE n \in Good
  <2>1. ASSUME NEW pos \in 1..N, NEW qs \in Seq(Cells), Len(qs) = n,
               IsPart(file, pos, Encoded(qs)), pos + Len(Encoded(qs)) = B + 1
        PROVE  from[pos] = [ok |-> TRUE, payloads |-> qs, lastGood |-> B]
    <3>. DEFINE p == Head(qs)
                rs == Tail(qs)
                e == encodeWALFrame(p)
    <3>1. p \in Cells /\ rs \in Seq(Cells) /\ Len(rs) = n - 1 /\ qs = <<p>> \o rs
          BY <1>3, <2>1
    <3>2. e \in Cells /\ Len(e) = Len(p) + 4
          BY <3>1, FrameType
    <3>3. Encoded(qs) = e \o Encoded(rs) /\ Encoded(rs) \in Cells
          BY <3>1, EncodedCons, EncodedType
    <3>. HIDE DEF p, rs, e
    <3>4. IsPart(file, pos, e) /\ IsPart(file, pos + Len(e), Encoded(rs))
      <4>1. pos \in 1..(Len(file) + 1) /\ IsPart(file, pos, e \o Encoded(rs))
            BY <2>1, <3>3 DEF N
      <4>. QED
           BY <1>3, <3>2, <3>3, <4>1, PartsOfConcat
    <3>5. Len(e) \in Nat /\ Len(Encoded(rs)) \in Nat /\ Len(p) \in Nat
          BY <3>1, <3>2, <3>3 DEF Cells
    <3>6. Len(Encoded(qs)) = Len(e) + Len(Encoded(rs))
      <4>1. IsConcat(e \o Encoded(rs), e, Encoded(rs))
            BY <3>2, <3>3, ConcatCells
      <4>. QED
           BY <3>3, <4>1, Zenon DEF IsConcat
    <3>. DEFINE next == pos + 4 + file[pos + 1]
    <3>7. /\ pos \in 1..Len(file) /\ file[pos + 1] = Len(p)
          /\ FramedAt(file, pos) /\ ChecksumAt(file, pos) /\ PayloadAt(file, pos) = p
      <4>1. pos \in 1..(Len(file) + 1) /\ IsPart(file, pos, encodeWALFrame(p))
            BY <3>4 DEF N, e
      <4>. QED
           BY <1>3, <3>1, <4>1, FrameRead
    <3>8. next = pos + Len(e)
          BY <1>3, <3>2, <3>5, <3>7
    <3>. HIDE DEF next
    <3>9. next \in 1..N /\ next + Len(Encoded(rs)) = B + 1
          BY <1>3, <2>1, <3>5, <3>6, <3>8
    <3>10. from[next] = [ok |-> TRUE, payloads |-> rs, lastGood |-> B]
           BY <1>9, <3>1, <3>4, <3>8, <3>9
    <3>11. from[pos] = [from[next] EXCEPT !.payloads = <<p>> \o @]
      <4>1. ~(pos > Len(file)) /\ Len(file) \in Nat
            BY <3>7
      <4>2. from[pos] = Turn(file, from, pos)
            BY <1>7
      <4>. QED
           BY <3>7, <4>1, <4>2, Zenon DEF Turn, next
    <3>12. from[pos] = [ok |-> TRUE, payloads |-> <<p>> \o rs, lastGood |-> B]
      <4>. DEFINE yes == TRUE
      <4>. HIDE DEF yes
      <4>1. from[next].payloads = rs
            BY <3>10
      <4>2. from[pos] = WithPayloads(from[next], <<p>> \o rs)
            BY <3>11, <4>1, Zenon DEF WithPayloads
      <4>3. from[next] = Parsed(yes, rs, B)
            BY <3>10, Zenon DEF Parsed, yes
      <4>4. from[pos] = Parsed(yes, <<p>> \o rs, B)
        <5>1. WithPayloads(Parsed(yes, rs, B), <<p>> \o rs) = Parsed(yes, <<p>> \o rs, B)
              BY PayloadsReplaced
        <5>. QED
             BY <4>2, <4>3, <5>1
      <4>. QED
           BY <4>4, Zenon DEF Parsed, yes
    <3>. QED
         BY <3>1, <3>12
  <2>2. n \in 0..K
        BY <1>3
  <2>. QED
       BY <2>1, <2>2
<1>. HIDE DEF Good
<1>10. \A n \in 0..K : n \in Good
       BY <1>3, <1>8, <1>9, UpToInduction
<1>11. K \in Good /\ 1 \in 1..N /\ 1 + B = B + 1
       BY <1>3, <1>10
<1>12. from[1] = [ok |-> TRUE, payloads |-> ps, lastGood |-> B]
       BY <1>5, <1>11 DEF Good, K, B
<1>. QED
     BY <1>6, <1>12 DEF ParsesFrom, file, B

-----------------------------------------------------------------------------
(***************************************************************************)
(* The log.                                                                *)
(***************************************************************************)
\* The commit magic stands for a commit only: it is not in a value, in a
\* checksum or in what fills unwritten space.
CommitMagicReserved ==
    /\ kWalCommitMagic \notin PayloadCells \cup FillCells
    /\ \A payload \in Payloads : crc32(payload) # kWalCommitMagic

LogType == content \in Cells /\ acked \in Seq(Cells) /\ unsure \in Seq(Cells)

\* An undamaged log is the whole frames and a tail without the commit magic.
\* Only a poisoned one has a tail, or a frame that was not acknowledged.
TailOf(torn) ==
    /\ content = Encoded(acked \o unsure) \o torn
    /\ NoCommitFrom(torn, 1)
    /\ ~poisoned => torn = <<>> /\ unsure = <<>>

LogInv == LogType /\ (damaged = 0 => \E torn \in Cells : TailOf(torn))

LEMMA PayloadsAreCells == ASSUME NEW p \in Payloads
                          PROVE  /\ p \in Cells /\ Len(p) \in 1..94
                                 /\ \A i \in 1..Len(p) : p[i] \in PayloadCells
<1>1. PICK n \in 1..MaxPayload : p \in [1..n -> PayloadCells]
      BY DEF Payloads
<1>2. n \in Nat /\ n \in 1..94
      BY <1>1, SizesAssumption DEF kWalCommitMagic
<1>3. \A c \in PayloadCells : c \in Nat
      BY CellsAssumption DEF kWalCommitMagic
<1>4. p \in [1..n -> Nat]
      BY <1>1, <1>3
<1>5. p \in Seq(Nat) /\ Len(p) = n
      BY <1>2, <1>4
<1>. QED
     BY <1>1, <1>2, <1>5 DEF Cells

LEMMA TornIsTail ==
    ASSUME CommitMagicReserved, NEW p \in Payloads, NEW torn \in TornFrames(encodeWALFrame(p))
    PROVE  torn \in Cells /\ NoCommitFrom(torn, 1)
<1>. DEFINE frame == encodeWALFrame(p)
            k == Len(p)
<1>0. p \in Cells /\ k \in 1..94 /\ \A i \in 1..k : p[i] \in PayloadCells
      BY PayloadsAreCells
<1>1. /\ frame \in Cells /\ Len(frame) = k + 4
      /\ frame[1] = 90 /\ frame[2] = k
      /\ \A i \in 1..k : frame[i + 2] = p[i]
      /\ frame[k + 3] = crc32(p) /\ frame[k + 4] = 95
      BY <1>0, FrameType
<1>. DEFINE Join(written, space, fill) == SubSeq(frame, 1, written) \o [i \in 1..space |-> fill]
            After(written) == {Join(written, space, fill) :
                                  space \in 0..(Len(frame) - written), fill \in FillCells}
<1>2. TornFrames(frame) = UNION {After(written) : written \in 0..(Len(frame) - 1)}
      BY DEF TornFrames
<1>. HIDE DEF After, Join
<1>3. PICK written \in 0..(Len(frame) - 1) : torn \in After(written)
      BY <1>2
<1>4. PICK space \in 0..(Len(frame) - written), fill \in FillCells : torn = Join(written, space, fill)
       BY <1>3 DEF After
<1>. HIDE DEF frame, k
<1>5. \A i \in 1..(k + 3) : frame[i] # 95
  <2>1. ASSUME NEW i \in 1..(k + 3) PROVE frame[i] # 95
    <3>1. CASE i = 1 \/ i = 2
          BY <1>0, <1>1, <3>1
    <3>2. CASE i = k + 3
          BY <1>1, <3>2 DEF CommitMagicReserved, kWalCommitMagic
    <3>3. CASE i \in 3..(k + 2)
      <4>1. i - 2 \in 1..k /\ (i - 2) + 2 = i
            BY <1>0, <3>3
      <4>2. frame[i] \in PayloadCells
        <5>1. frame[(i - 2) + 2] = p[i - 2]
              BY <1>1, <4>1
        <5>2. p[i - 2] \in PayloadCells
              BY <1>0, <4>1
        <5>. QED
             BY <4>1, <5>1, <5>2
      <4>. QED
           BY <4>2 DEF CommitMagicReserved, kWalCommitMagic
    <3>. QED
         BY <1>0, <3>1, <3>2, <3>3
  <2>. QED
       BY <2>1
<1>. DEFINE a == SubSeq(frame, 1, written)
            b == [i \in 1..space |-> fill]
<1>6. written \in 0..(k + 3) /\ space \in Nat
      BY <1>0, <1>1
<1>7. a \in Cells /\ Len(a) = written /\ \A i \in 1..written : a[i] = frame[i]
  <2>1. \A i \in 1..written : frame[i] \in Nat
        BY <1>1, <1>6, <1>0 DEF Cells
  <2>2. /\ a \in Seq(Nat) /\ Len(a) = (IF 1 <= written THEN written - 1 + 1 ELSE 0)
        /\ \A i \in 1..(written - 1 + 1) : a[i] = frame[1 + i - 1]
        BY <1>6, <2>1, SubSeqProperties
  <2>. HIDE DEF a
  <2>3. \A i \in 1..written : 1 + i - 1 = i
        OBVIOUS
  <2>4. written - 1 + 1 = written
        BY <1>6
  <2>. QED
       BY <1>6, <2>2, <2>3, <2>4 DEF Cells
<1>8. fill \in Nat /\ fill # 95
  <2>1. fill \in 0..95
        BY CellsAssumption DEF kWalCommitMagic
  <2>2. fill # 95
        BY DEF CommitMagicReserved, kWalCommitMagic
  <2>. QED
       BY <2>1, <2>2
<1>9. b \in Cells /\ Len(b) = space /\ \A i \in 1..space : b[i] = fill
      BY <1>6, <1>8 DEF Cells
<1>10. torn = a \o b
       BY <1>4 DEF Join
<1>. HIDE DEF a, b
<1>11. IsConcat(torn, a, b)
      BY <1>7, <1>9, <1>10, ConcatCells
<1>12. torn \in Cells /\ Len(torn) = written + space
       BY <1>7, <1>9, <1>11 DEF IsConcat
<1>13. ASSUME NEW i \in 1..Len(torn) PROVE torn[i] # 95
  <2>1. CASE i <= written
    <3>1. i \in 1..written /\ i \in 1..(k + 3)
          BY <1>6, <1>0, <2>1
    <3>. QED
         BY <1>5, <1>7, <1>11, <3>1 DEF IsConcat
  <2>2. CASE ~(i <= written)
    <3>1. i - written \in 1..space /\ written + (i - written) = i
          BY <1>6, <1>12, <2>2
    <3>2. torn[written + (i - written)] = b[i - written]
          BY <1>7, <1>9, <1>11, <3>1 DEF IsConcat
    <3>. QED
         BY <1>8, <1>9, <3>1, <3>2
  <2>. QED
       BY <2>1, <2>2
<1>. QED
     BY <1>12, <1>13 DEF NoCommitFrom, kWalCommitMagic

LEMMA EmptyTail == <<>> \in Cells /\ NoCommitFrom(<<>>, 1)
<1>1. <<>> \in Cells /\ Len(<<>>) = 0
      BY DEF Cells
<1>. QED
     BY <1>1 DEF NoCommitFrom

LEMMA ConcatNothing == ASSUME NEW S, NEW s \in Seq(S) PROVE s \o <<>> = s
BY ConcatEmptySeq

LEMMA LogInit == Init => LogInv
<1>. SUFFICES ASSUME Init PROVE LogInv
     OBVIOUS
<1>1. LogType
      BY DEF Init, LogType, Cells
<1>2. <<>> \o <<>> = <<>>
      OBVIOUS
<1>3. TailOf(<<>>)
      BY <1>2, EncodedEmpty, EmptyTail DEF Init, TailOf
<1>. QED
     BY <1>1, <1>3, EmptyTail DEF LogInv

LEMMA LogStep ==
    ASSUME CommitMagicReserved
    PROVE  LogInv /\ [Next]_vars => LogInv'
<1>. SUFFICES ASSUME LogInv, [Next]_vars PROVE LogInv'
     OBVIOUS
<1>0. content \in Cells /\ acked \in Seq(Cells) /\ unsure \in Seq(Cells)
      BY DEF LogInv, LogType
\* A writer that may append has only acknowledged frames in the file.
<1>1. ASSUME damaged = 0, ~poisoned PROVE content = Encoded(acked) /\ unsure = <<>>
  <2>1. PICK torn \in Cells : TailOf(torn)
        BY <1>1 DEF LogInv
  <2>2. torn = <<>> /\ unsure = <<>> /\ content = Encoded(acked \o unsure) \o torn
        BY <1>1, <2>1 DEF TailOf
  <2>3. acked \o <<>> = acked
        BY <1>0, ConcatNothing
  <2>4. Encoded(acked) \o <<>> = Encoded(acked)
        BY <1>0, EncodedType, ConcatNothing DEF Cells
  <2>. QED
       BY <2>2, <2>3, <2>4
\* A frame behind them.
<1>2. ASSUME NEW p \in Payloads
      PROVE  /\ p \in Cells /\ encodeWALFrame(p) \in Cells
             /\ content \o encodeWALFrame(p) \in Cells
             /\ Append(acked, p) \in Seq(Cells)
             /\ Encoded(Append(acked, p)) = Encoded(acked) \o encodeWALFrame(p)
  <2>1. p \in Cells
        BY PayloadsAreCells
  <2>2. encodeWALFrame(p) \in Cells
        BY <2>1, FrameType
  <2>3. IsConcat(content \o encodeWALFrame(p), content, encodeWALFrame(p))
        BY <1>0, <2>2, ConcatCells
  <2>4. content \o encodeWALFrame(p) \in Cells
        BY <2>3, Zenon DEF IsConcat
  <2>5. Append(acked, p) \in Seq(Cells)
        BY <1>0, <2>1
  <2>. QED
       BY <1>0, <2>1, <2>2, <2>4, <2>5, EncodedAppend
<1>3. ASSUME NEW p \in Payloads, Write(p) PROVE LogInv'
  <2>1. /\ content' = content \o encodeWALFrame(p) /\ acked' = Append(acked, p)
        /\ unsure' = unsure /\ poisoned' = poisoned /\ damaged' = damaged /\ ~poisoned
        BY <1>3 DEF Write, Appending, MayAppend
  <2>2. LogType'
        BY <1>0, <1>2, <2>1 DEF LogType
  <2>3. ASSUME damaged = 0 PROVE TailOf(<<>>)'
    <3>1. content = Encoded(acked) /\ unsure = <<>>
          BY <1>1, <2>1, <2>3
    <3>2. content' = Encoded(acked')
          BY <1>2, <2>1, <3>1
    <3>3. acked' \o unsure' = acked' /\ content' \o <<>> = content'
      <4>1. acked' \in Seq(Cells) /\ content' \in Seq(Nat)
            BY <2>2 DEF LogType, Cells
      <4>2. unsure' = <<>>
            BY <2>1, <3>1
      <4>. QED
           BY <4>1, <4>2, ConcatNothing
    <3>4. content' = Encoded(acked' \o unsure') \o <<>>
          BY <3>2, <3>3
    <3>. QED
         BY <2>1, <3>1, <3>4, EmptyTail DEF TailOf
  <2>. QED
       BY <2>1, <2>2, <2>3, EmptyTail DEF LogInv
<1>4. ASSUME NEW p \in Payloads, WriteFails(p) PROVE LogInv'
  <2>1. acked' = acked /\ damaged' = damaged /\ ~poisoned /\ poisoned'
        BY <1>4 DEF WriteFails, Appending, MayAppend
  <2>2. CASE content' = content \o encodeWALFrame(p) /\ unsure' = <<p>>
    <3>1. LogType'
      <4>1. <<p>> \in Seq(Cells)
            BY <1>2
      <4>. QED
           BY <1>0, <1>2, <2>1, <2>2, <4>1 DEF LogType
    <3>2. ASSUME damaged = 0 PROVE TailOf(<<>>)'
      <4>1. content = Encoded(acked)
            BY <1>1, <2>1, <3>2
      <4>2. acked' \o unsure' = Append(acked, p)
            BY <1>0, <1>2, <2>1, <2>2, AppendIsConcat
      <4>3. content' = Encoded(acked' \o unsure')
            BY <1>2, <2>2, <4>1, <4>2
      <4>4. content' \o <<>> = content'
            BY <3>1, ConcatNothing DEF LogType, Cells
      <4>5. content' = Encoded(acked' \o unsure') \o <<>>
            BY <4>3, <4>4
      <4>. QED
           BY <2>1, <4>5, EmptyTail DEF TailOf
    <3>. QED
         BY <2>1, <3>1, <3>2, EmptyTail DEF LogInv
  <2>3. CASE /\ \E torn \in TornFrames(encodeWALFrame(p)) : content' = content \o torn
             /\ unsure' = unsure
    <3>1. PICK torn \in TornFrames(encodeWALFrame(p)) : content' = content \o torn
          BY <2>3
    <3>2. torn \in Cells /\ NoCommitFrom(torn, 1)
          BY TornIsTail
    <3>3. content \o torn \in Cells
      <4>1. IsConcat(content \o torn, content, torn)
            BY <1>0, <3>2, ConcatCells
      <4>. QED
           BY <4>1, Zenon DEF IsConcat
    <3>4. LogType'
          BY <1>0, <2>1, <2>3, <3>1, <3>3 DEF LogType
    <3>5. ASSUME damaged = 0 PROVE TailOf(torn)'
      <4>1. content = Encoded(acked) /\ unsure' = <<>>
            BY <1>1, <2>1, <2>3, <3>5
      <4>2. acked' \o unsure' = acked
            BY <1>0, <2>1, <4>1, ConcatNothing
      <4>3. content' = Encoded(acked' \o unsure') \o torn
            BY <3>1, <4>1, <4>2
      <4>. QED
           BY <2>1, <3>2, <4>3 DEF TailOf
    <3>. QED
         BY <2>1, <3>2, <3>4, <3>5 DEF LogInv
  <2>. QED
       BY <1>4, <2>2, <2>3 DEF WriteFails
\* Restoring leaves what the parser accepted, damaged or not.
<1>5. ASSUME Restore PROVE LogInv'
  <2>1. /\ content' = SubSeq(content, 1, parse(content).lastGood)
        /\ acked' = parse(content).payloads /\ unsure' = <<>>
        BY <1>5 DEF Restore
  <2>2. acked' \in Seq(Cells) /\ content' = Encoded(acked')
        BY <1>0, <2>1, ParseIsPrefix
  <2>3. content' \in Cells
        BY <2>2, EncodedType
  <2>4. LogType'
        BY <2>1, <2>2, <2>3 DEF LogType
  <2>5. acked' \o unsure' = acked' /\ content' \o <<>> = content'
        BY <2>1, <2>2, <2>3, ConcatNothing DEF Cells
  <2>6. content' = Encoded(acked' \o unsure') \o <<>>
        BY <2>2, <2>5
  <2>7. TailOf(<<>>)'
        BY <2>1, <2>6, EmptyTail DEF TailOf
  <2>. QED
       BY <2>4, <2>7, EmptyTail DEF LogInv
<1>6. ASSUME Damage PROVE LogInv'
  <2>1. PICK pos \in 1..Len(Encoded(acked)) : \E cell \in DamageCells \ {content[pos]} :
            content' = [content EXCEPT ![pos] = cell] /\ damaged' = pos
        BY <1>6 DEF Damage
  <2>2. PICK cell \in DamageCells :
            content' = [content EXCEPT ![pos] = cell] /\ damaged' = pos
        BY <2>1
  <2>3. cell \in Nat
    <3>1. cell \in 0..95
          BY CellsAssumption DEF kWalCommitMagic
    <3>. QED
         BY <3>1
  <2>4. content' \in Cells
    <3>1. Len(content) \in Nat /\ content \in [1..Len(content) -> Nat]
          BY <1>0 DEF Cells
    <3>2. content' \in [1..Len(content) -> Nat]
          BY <2>2, <2>3, <3>1
    <3>. QED
         BY <3>1, <3>2 DEF Cells
  <2>5. damaged' # 0
    <3>1. Len(Encoded(acked)) \in Nat
          BY <1>0, EncodedType DEF Cells
    <3>. QED
         BY <2>2, <3>1
  <2>6. acked' = acked /\ unsure' = unsure
        BY <1>6 DEF Damage
  <2>. QED
       BY <1>0, <2>4, <2>5, <2>6 DEF LogInv, LogType
<1>7. CASE RestoreThrows \/ UNCHANGED vars
  <2>1. /\ content' = content /\ acked' = acked /\ unsure' = unsure
        /\ poisoned' = poisoned /\ damaged' = damaged
        BY <1>7, Zenon DEF RestoreThrows, vars
  <2>2. LogType'
        BY <1>0, <2>1 DEF LogType
  <2>3. ASSUME NEW torn \in Cells, TailOf(torn) PROVE TailOf(torn)'
        BY <2>1, <2>3 DEF TailOf
  <2>. QED
       BY <2>1, <2>2, <2>3 DEF LogInv
<1>. QED
     BY <1>3, <1>4, <1>5, <1>6, <1>7 DEF Next

LEMMA LogInvImplies == LogInv => TailIsCutOff
<1>. SUFFICES ASSUME LogInv, damaged = 0
              PROVE  /\ parse(content).ok
                     /\ parse(content).payloads = acked \o unsure
                     /\ parse(content).lastGood = Len(Encoded(acked \o unsure))
     BY DEF TailIsCutOff
<1>1. PICK torn \in Cells : TailOf(torn)
      BY DEF LogInv
<1>2. content = Encoded(acked \o unsure) \o torn /\ NoCommitFrom(torn, 1)
      BY <1>1 DEF TailOf
<1>3. acked \o unsure \in Seq(Cells)
      BY DEF LogInv, LogType
<1>4. parse(content) = [ok |-> TRUE, payloads |-> acked \o unsure,
                        lastGood |-> Len(Encoded(acked \o unsure))]
      BY <1>2, <1>3, ParseUndamaged
<1>. DEFINE yes == TRUE
<1>. HIDE DEF yes
<1>5. parse(content).ok = yes
  <2>1. parse(content) = Parsed(yes, acked \o unsure, Len(Encoded(acked \o unsure)))
        BY <1>4, Zenon DEF Parsed, yes
  <2>. QED
       BY <2>1 DEF Parsed
<1>6. /\ parse(content).payloads = acked \o unsure
      /\ parse(content).lastGood = Len(Encoded(acked \o unsure))
      BY <1>4
<1>. QED
     BY <1>5, <1>6, Zenon DEF yes

\* Restoring an undamaged log takes every acknowledged frame (and a whole one
\* that was not acknowledged) and cuts off exactly what a failed append left,
\* for any number and size of frames: restoreFromWAL's parser never mistakes a
\* torn tail for damage, nor a frame for a tail.
THEOREM TornTailIsCutOff ==
    ASSUME CommitMagicReserved
    PROVE  Spec => []TailIsCutOff
<1>1. LogInv /\ [Next]_vars => LogInv'
      BY LogStep
<1>. QED
     BY <1>1, LogInit, LogInvImplies, PTL DEF Spec

=============================================================================
