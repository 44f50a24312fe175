------------------------- MODULE BufferRead_proofs --------------------------
(* Lemmas about reading a chain of buffers (read in buffer.go), for every  *)
(* frequency, every capacity and every chain that is in order: the walk of *)
(* read exists, neither falls behind nor runs ahead when the samples lie   *)
(* on its grid, and what it returns are the samples of the range.          *)
EXTENDS BufferChain_proofs
-----------------------------------------------------------------------------
(* Induction over the steps of a walk, with the set of steps that are      *)
(* known to be right.                                                      *)
LEMMA StepByStep ==
  ASSUME NEW T \in SUBSET Nat, 0 \in T, \A n \in T : n + 1 \in T
  PROVE  \A n \in Nat : n \in T
<1>1. SUFFICES ASSUME Nat \ T # {} PROVE FALSE
  OBVIOUS
<1>2. PICK x \in Nat \ T : \A y \in Nat \ T : x <= y
  BY <1>1, MinExists
<1>3. x # 0 /\ x - 1 \in Nat
  BY <1>2
<1>4. x - 1 \in T
  BY <1>2, <1>3
<1>5. (x - 1) + 1 = x
  BY <1>2
<1> QED BY <1>2, <1>4, <1>5

(* f follows next up to step n.                                            *)
Follows(next, s0, f, n) ==
  f = [m \in 0..n |-> next[m][IF m = 0 THEN s0 ELSE f[m - 1]]]

LEMMA FollowsUnique ==
  ASSUME NEW next, NEW s0, NEW n \in Nat, NEW k \in Nat, NEW f, NEW g,
         Follows(next, s0, f, n), Follows(next, s0, g, k)
  PROVE  \A m \in Nat : m <= n /\ m <= k => f[m] = g[m]
<1> DEFINE T == {m \in Nat : m <= n /\ m <= k => f[m] = g[m]}
<1>0. /\ \A m \in 0..n : f[m] = next[m][IF m = 0 THEN s0 ELSE f[m - 1]]
      /\ \A m \in 0..k : g[m] = next[m][IF m = 0 THEN s0 ELSE g[m - 1]]
  BY DEF Follows
<1>1. 0 \in T
  BY <1>0
<1>2. ASSUME NEW m \in T PROVE m + 1 \in T
  <2>1. SUFFICES ASSUME m + 1 <= n, m + 1 <= k PROVE f[m + 1] = g[m + 1]
    OBVIOUS
  <2>2. m + 1 \in 0..n /\ m + 1 \in 0..k /\ m + 1 # 0 /\ (m + 1) - 1 = m
    BY <2>1
  <2>3. f[m] = g[m]
    BY <2>1
  <2>4. f[m + 1] = next[m + 1][f[m]] /\ g[m + 1] = next[m + 1][g[m]]
    BY <1>0, <2>2
  <2> QED BY <2>3, <2>4
<1> HIDE DEF T
<1>3. \A m \in Nat : m \in T
  <2>1. T \in SUBSET Nat
    BY DEF T
  <2> QED BY <1>1, <1>2, <2>1, StepByStep
<1> QED BY <1>3 DEF T

(* What is defined step by step, each from the one before, exists.         *)
StepsOf(next, s0, g) ==
  g = [n \in Nat |-> next[n][IF n = 0 THEN s0 ELSE g[n - 1]]]

LEMMA StepsExist ==
  ASSUME NEW next, NEW s0
  PROVE  \E g : StepsOf(next, s0, g)
<1> DEFINE T == {n \in Nat : \E f : Follows(next, s0, f, n)}
<1>1. 0 \in T
  <2> DEFINE f == [m \in 0..0 |-> next[m][s0]]
  <2>1. f = [m \in 0..0 |-> next[m][IF m = 0 THEN s0 ELSE f[m - 1]]]
    OBVIOUS
  <2> QED BY <2>1 DEF Follows
<1>2. ASSUME NEW n \in T PROVE n + 1 \in T
  <2>1. PICK f : Follows(next, s0, f, n)
    OBVIOUS
  <2> DEFINE g == [m \in 0..(n + 1) |-> IF m = n + 1 THEN next[n + 1][f[n]] ELSE f[m]]
  <2>2. ASSUME NEW m \in 0..(n + 1)
        PROVE  g[m] = next[m][IF m = 0 THEN s0 ELSE g[m - 1]]
    <3>1. CASE m = n + 1
      BY <3>1
    <3>2. CASE m \in 0..n
      <4>1. f[m] = next[m][IF m = 0 THEN s0 ELSE f[m - 1]]
        BY <2>1, <3>2 DEF Follows
      <4>2. g[m] = f[m] /\ (m # 0 => g[m - 1] = f[m - 1])
        BY <3>2
      <4> HIDE DEF g
      <4> QED BY <4>1, <4>2
    <3>3. m = n + 1 \/ m \in 0..n
      OBVIOUS
    <3> HIDE DEF g
    <3> QED BY ONLY <3>1, <3>2, <3>3
  <2>3. g = [m \in 0..(n + 1) |-> next[m][IF m = 0 THEN s0 ELSE g[m - 1]]]
    <3> DEFINE h == [m \in 0..(n + 1) |-> next[m][IF m = 0 THEN s0 ELSE g[m - 1]]]
    <3>1. \A m \in 0..(n + 1) : g[m] = h[m]
      BY <2>2
    <3>2. DOMAIN g = 0..(n + 1) /\ DOMAIN h = 0..(n + 1)
      OBVIOUS
    <3>3. g = [m \in 0..(n + 1) |-> g[m]] /\ h = [m \in 0..(n + 1) |-> h[m]]
      OBVIOUS
    <3> HIDE DEF g, h
    <3>4. g = h
      BY <3>1, <3>3
    <3> QED BY <3>4 DEF h
  <2>4. Follows(next, s0, g, n + 1)
    BY <2>3 DEF Follows
  <2> QED BY <2>4
<1>3. \A n \in Nat : n \in T
  <2>1. T \in SUBSET Nat
    OBVIOUS
  <2> HIDE DEF T
  <2> QED BY <1>1, <1>2, <2>1, StepByStep
<1> DEFINE F(n) == CHOOSE f : Follows(next, s0, f, n)
           G    == [n \in Nat |-> F(n)[n]]
<1>4. \A n \in Nat : Follows(next, s0, F(n), n)
  BY <1>3
<1> HIDE DEF F
<1>5. ASSUME NEW n \in Nat
      PROVE  G[n] = next[n][IF n = 0 THEN s0 ELSE G[n - 1]]
  <2>1. F(n)[n] = next[n][IF n = 0 THEN s0 ELSE F(n)[n - 1]]
    <3>1. n \in 0..n
      OBVIOUS
    <3> QED BY <1>4, <3>1 DEF Follows
  <2>2. CASE n = 0
    BY <2>1, <2>2
  <2>3. CASE n # 0
    <3>1. n - 1 \in Nat /\ n - 1 <= n
      BY <2>3
    <3>2. F(n)[n - 1] = F(n - 1)[n - 1]
      BY <1>4, <3>1, FollowsUnique
    <3>3. G[n] = F(n)[n] /\ G[n - 1] = F(n - 1)[n - 1]
      BY <3>1
    <3> QED BY <2>1, <2>3, <3>2, <3>3
  <2> QED BY <2>2, <2>3
<1>6. G = [n \in Nat |-> next[n][IF n = 0 THEN s0 ELSE G[n - 1]]]
  <2> DEFINE h == [n \in Nat |-> next[n][IF n = 0 THEN s0 ELSE G[n - 1]]]
  <2>1. \A n \in Nat : G[n] = h[n]
    BY <1>5
  <2>2. G = [n \in Nat |-> G[n]] /\ h = [n \in Nat |-> h[n]]
    OBVIOUS
  <2> HIDE DEF G, h
  <2>3. G = h
    BY <2>1, <2>2
  <2> QED BY <2>3 DEF h
<1>7. StepsOf(next, s0, G)
  <2> HIDE DEF G
  <2> QED BY <1>6 DEF StepsOf
<1> QED BY <1>7
-----------------------------------------------------------------------------
(* A multiple of the frequency, also a negative one.                       *)
LEMMA Remainder ==
  ASSUME NEW x \in Int, x % Freq = 0
  PROVE  \E z \in Int : x = z * Freq
<1>1. x \div Freq \in Int /\ x = Freq * (x \div Freq) + (x % Freq)
  BY BufferAssumption
<1>2. x = (x \div Freq) * Freq
  BY <1>1, Half
<1> QED BY <1>1, <1>2

(* Two multiples of the frequency are a frequency apart, or in order.      *)
LEMMA Apart ==
  ASSUME NEW x \in Int, NEW y \in Int, x * Freq < y * Freq
  PROVE  x + 1 <= y /\ x * Freq + Freq <= y * Freq
<1>1. x < y
  <2>1. SUFFICES ASSUME y <= x PROVE FALSE
    OBVIOUS
  <2>2. y * Freq <= x * Freq
    BY <2>1, Multiples
  <2>3. x * Freq \in Int /\ y * Freq \in Int
    BY Half
  <2> QED BY <2>2, <2>3
<1>2. (x + 1) * Freq <= y * Freq
  BY <1>1, Multiples
<1>3. (x + 1) * Freq = x * Freq + Freq
  BY Half
<1> QED BY <1>1, <1>2, <1>3

(* The index read computes is that of the slot of t, and no index before   *)
(* the buffer.                                                             *)
LEMMA IndexOfTime ==
  ASSUME NEW b \in Buffers, NEW t \in Int
  PROVE  /\ Index(b, t) \in Int
         /\ t >= b.start => /\ Index(b, t) \in Nat
                            /\ b.start + Index(b, t) * Freq <= t
                            /\ t < b.start + Index(b, t) * Freq + Freq
         /\ t < b.start => Index(b, t) <= 0
<1>1. b.start \in Int
  BY BufferTypes
<1>2. CASE t >= b.start
  <2> DEFINE x == t - b.start
             q == x \div Freq
  <2>1. x \in Nat
    BY <1>1, <1>2
  <2>2. q \in Nat /\ q * Freq <= x /\ x < q * Freq + Freq
    BY <2>1, Division
  <2>3. Index(b, t) = q
    BY <1>2 DEF Index
  <2>4. q * Freq \in Int
    BY <2>2, Half
  <2> HIDE DEF q
  <2> QED BY <1>1, <1>2, <2>2, <2>3, <2>4, Half
<1>3. CASE t < b.start
  <2> DEFINE x == b.start - t
             q == x \div Freq
  <2>1. x \in Nat
    BY <1>1, <1>3
  <2>2. q \in Nat
    BY <2>1, Division
  <2>3. Index(b, t) = -q
    BY <1>1, <1>3 DEF Index
  <2> HIDE DEF q
  <2> QED BY <1>1, <1>3, <2>2, <2>3
<1> QED BY <1>1, <1>2, <1>3

(* An index is reached with the time of its slot.                          *)
LEMMA IndexReached ==
  ASSUME NEW b \in Buffers, NEW t \in Int, NEW k \in Nat \ {0}
  PROVE  Index(b, t) >= k <=> t >= b.start + k * Freq
<1> DEFINE i == Index(b, t)
<1>1. b.start \in Int /\ k * Freq \in Int /\ 1 * Freq <= k * Freq /\ 1 * Freq = Freq
  BY BufferTypes, Multiples, Half
<1>2. i \in Int
  BY IndexOfTime
<1>3. CASE t < b.start
  <2>1. i <= 0
    BY <1>3, IndexOfTime
  <2> QED BY <1>1, <1>2, <1>3, <2>1, Half
<1>4. CASE t >= b.start
  <2>1. i \in Nat /\ b.start + i * Freq <= t /\ t < b.start + i * Freq + Freq
    BY <1>4, IndexOfTime
  <2>2. i * Freq \in Int /\ (i + 1) * Freq = i * Freq + Freq
    BY <1>2, Half
  <2>3. i >= k => k * Freq <= i * Freq
    BY <1>2, Multiples
  <2>4. ~(i >= k) => (i + 1) * Freq <= k * Freq
    BY <1>2, Multiples
  <2> HIDE DEF i
  <2>5. i >= k <=> t >= b.start + k * Freq
    <3> DEFINE x == i * Freq
               y == k * Freq
    <3>1. /\ x \in Int /\ y \in Int /\ b.start + x <= t /\ t < b.start + x + Freq
          /\ i >= k => y <= x
          /\ ~(i >= k) => x + Freq <= y
      BY <1>1, <2>1, <2>2, <2>3, <2>4
    <3> HIDE DEF x, y
    <3>2. i >= k <=> t >= b.start + y
      BY <1>1, <3>1, Half
    <3> QED BY <3>2 DEF y
  <2> QED BY <2>5 DEF i
<1> QED BY <1>1, <1>3, <1>4

(* A sample is found under the index of its own time.                      *)
LEMMA IndexOfSample ==
  ASSUME NEW b, BufferOK(b), NEW k \in 1..Len(b.data), b.data[k] # NaN
  PROVE  Index(b, b.data[k]) + 1 = k
<1> DEFINE v == b.data[k]
           i == Index(b, v)
<1>1. b \in Buffers /\ v \in Nat /\ b.start <= v /\ b.start \in Int
  BY SampleInBuffer, BufferTypes DEF BufferOK
<1>2. b.start + (k - 1) * Freq <= v /\ v < b.start + k * Freq
  BY DEF BufferOK
<1>3. i \in Nat /\ b.start + i * Freq <= v /\ v < b.start + i * Freq + Freq
  <2>1. v \in Int
    BY <1>1
  <2> HIDE DEF v
  <2> QED BY <1>1, <2>1, IndexOfTime
<1>4. k \in Int
  <2>1. Len(b.data) \in Nat
    BY <1>1, BufferTypes
  <2> QED BY <2>1
<1>5. /\ k * Freq \in Int /\ (k - 1) * Freq \in Int /\ i * Freq \in Int
      /\ (i + 1) * Freq = i * Freq + Freq
  BY <1>3, <1>4, Half
<1> HIDE DEF v, i
<1>6. i * Freq < k * Freq
  <2> DEFINE x == i * Freq
             y == k * Freq
  <2>1. x \in Int /\ y \in Int /\ b.start + x <= v /\ v < b.start + y
    BY <1>2, <1>3, <1>5
  <2> HIDE DEF x, y
  <2>2. x < y
    BY <1>1, <2>1
  <2> QED BY <2>2 DEF x, y
<1>7. (k - 1) * Freq < (i + 1) * Freq
  <2> DEFINE x == i * Freq
             y == (k - 1) * Freq
  <2>1. x \in Int /\ y \in Int /\ v < b.start + x + Freq /\ b.start + y <= v
    BY <1>2, <1>3, <1>5
  <2> HIDE DEF x, y
  <2>2. y < x + Freq
    BY <1>1, <2>1, Half
  <2> QED BY <1>5, <2>2 DEF x, y
<1>8. i + 1 <= k /\ (k - 1) + 1 <= i + 1
  BY <1>3, <1>4, <1>6, <1>7, Apart
<1> QED BY <1>3, <1>4, <1>8 DEF i, v
-----------------------------------------------------------------------------
(* Where a walk begins: in the last buffer that has begun, or with the     *)
(* first buffer.                                                           *)
LEMMA FirstOfOK ==
  ASSUME NEW c, ChainOK(c), c # <<>>, NEW from \in Int
  PROVE  /\ Len(c) \in Nat /\ FirstOf(c, from) \in 1..Len(c)
         /\ ActualFrom(c, from) \in Int /\ from <= ActualFrom(c, from)
         /\ FirstWrite(c[FirstOf(c, from)]) <= ActualFrom(c, from)
         /\ \A i \in 1..Len(c) :
              FirstOf(c, from) < i => ActualFrom(c, from) < FirstWrite(c[i])
         /\ ActualFrom(c, from) \in {from, FirstWrite(c[1])}
<1> DEFINE N == Len(c)
           B == Before(c, from)
<1>1. N \in Nat /\ 1 \in 1..N
  BY DEF ChainOK
<1>2. \A i \in 1..N : BufferOK(c[i]) /\ FirstWrite(c[i]) \in Int
  BY Room DEF ChainOK
<1>3. B \in SUBSET (1..N) /\ \A i \in 1..N : i \in B <=> FirstWrite(c[i]) <= from
  BY DEF Before
<1> HIDE DEF N, B
<1>4. CASE B = {}
  <2>1. FirstOf(c, from) = 1 /\ ActualFrom(c, from) = FirstWrite(c[1])
    BY <1>4 DEF FirstOf, ActualFrom, B
  <2>2. ~(FirstWrite(c[1]) <= from) /\ FirstWrite(c[1]) \in Int
    BY <1>1, <1>2, <1>3, <1>4
  <2>3. ASSUME NEW i \in 1..N, 1 < i PROVE FirstWrite(c[1]) < FirstWrite(c[i])
    <3>1. c[1].start + c[1].cap * Freq <= FirstWrite(c[i])
      BY <1>1, <2>3 DEF ChainOK, N
    <3>2. /\ FirstWrite(c[1]) < c[1].start + c[1].cap * Freq
          /\ c[1].start \in Int /\ c[1].cap * Freq \in Int
      BY <1>1, <1>2, Room
    <3> QED BY <1>2, <2>2, <3>1, <3>2
  <2> QED BY <1>1, <2>1, <2>2, <2>3 DEF N
<1>5. CASE B # {}
  <2>1. FirstOf(c, from) = Max(B) /\ ActualFrom(c, from) = from
    BY <1>5 DEF FirstOf, ActualFrom, B
  <2>2. Max(B) \in B /\ \A y \in B : Max(B) >= y
    BY <1>1, <1>3, <1>5, MaxIsLargest
  <2> DEFINE f == Max(B)
  <2> HIDE DEF f
  <2>3. f \in 1..N /\ FirstWrite(c[f]) <= from
    BY <1>3, <2>2 DEF f
  <2>4. ASSUME NEW i \in 1..N, f < i PROVE from < FirstWrite(c[i])
    <3>1. i \notin B
      <4>1. SUFFICES ASSUME i \in B PROVE FALSE
        OBVIOUS
      <4>2. f >= i
        BY <2>2, <4>1 DEF f
      <4> QED BY <1>1, <2>3, <2>4, <4>2
    <3> QED BY <1>2, <1>3, <3>1
  <2> QED BY <1>1, <2>1, <2>3, <2>4 DEF N, f
<1> QED BY <1>4, <1>5

(* The walk of read exists and stays on the chain; each step is that of    *)
(* Forward.                                                                *)
LEMMA WalkOK ==
  ASSUME NEW c, ChainOK(c), c # <<>>, NEW from \in Int
  PROVE  LET at   == Walk(c, from)
             t(n) == ActualFrom(c, from) + n * Freq
         IN  /\ at \in [Nat -> 1..Len(c)]
             /\ at[0] = Forward(c, FirstOf(c, from), t(0))
             /\ \A n \in Nat : at[n + 1] = Forward(c, at[n], t(n + 1))
<1> DEFINE N    == Len(c)
           I    == 1..N
           f    == FirstOf(c, from)
           t(n) == ActualFrom(c, from) + n * Freq
           next == [n \in Nat |-> [i \in I |-> Forward(c, i, t(n))]]
           at   == Walk(c, from)
<1>1. N \in Nat /\ f \in I
  BY FirstOfOK
<1>2. \A n \in Nat : \A i \in I : Forward(c, i, t(n)) \in I
  <2> HIDE DEF t
  <2> QED BY <1>1 DEF Forward
<1> HIDE DEF f, N
<1>3. PICK g : g = [n \in Nat |-> next[n][IF n = 0 THEN f ELSE g[n - 1]]]
  <2>1. PICK g : StepsOf(next, f, g)
    BY StepsExist
  <2> QED BY <2>1 DEF StepsOf
<1>4. \A n \in Nat : g[n] \in I
  <2> DEFINE T == {n \in Nat : g[n] \in I}
  <2>1. 0 \in T
    <3>1. g[0] = next[0][f]
      BY <1>3
    <3>2. next[0][f] = Forward(c, f, t(0))
      BY <1>1
    <3> QED BY <1>1, <1>2, <3>1, <3>2
  <2>2. ASSUME NEW n \in T PROVE n + 1 \in T
    <3>1. n + 1 \in Nat /\ n + 1 # 0 /\ (n + 1) - 1 = n /\ g[n] \in I
      OBVIOUS
    <3>2. g[n + 1] = next[n + 1][g[n]]
      BY <1>3, <3>1
    <3>3. next[n + 1][g[n]] = Forward(c, g[n], t(n + 1))
      BY <3>1
    <3>4. Forward(c, g[n], t(n + 1)) \in I
      BY <1>2, <3>1
    <3> QED BY <3>1, <3>2, <3>3, <3>4
  <2>3. T \in SUBSET Nat
    OBVIOUS
  <2> HIDE DEF T
  <2>4. \A n \in Nat : n \in T
    BY <2>1, <2>2, <2>3, StepByStep
  <2> QED BY <2>4 DEF T
<1> DEFINE step(h, n) == Forward(c, IF n = 0 THEN f ELSE h[n - 1], t(n))
<1>5. ASSUME NEW n \in Nat PROVE g[n] = step(g, n)
  <2>1. (IF n = 0 THEN f ELSE g[n - 1]) \in I
    BY <1>1, <1>4
  <2>2. g[n] = next[n][IF n = 0 THEN f ELSE g[n - 1]]
    BY <1>3
  <2> DEFINE j == IF n = 0 THEN f ELSE g[n - 1]
  <2> HIDE DEF j
  <2>3. next[n][j] = Forward(c, j, t(n))
    BY <2>1 DEF j
  <2> QED BY <2>2, <2>3 DEF j
<1>6. g = [n \in Nat |-> step(g, n)]
  <2> DEFINE h == [n \in Nat |-> step(g, n)]
  <2>1. \A n \in Nat : g[n] = h[n]
    BY <1>5
  <2>2. h = [n \in Nat |-> h[n]]
    OBVIOUS
  <2>3. g = [n \in Nat |-> g[n]]
    BY <1>3
  <2> HIDE DEF h
  <2>4. g = h
    BY <2>1, <2>2, <2>3
  <2> QED BY <2>4 DEF h
<1>7. at = [n \in Nat |-> step(at, n)]
  <2>1. at = CHOOSE h : h = [n \in Nat |-> step(h, n)]
    BY DEF Walk, f
  <2> HIDE DEF step, at
  <2> QED BY <1>6, <2>1
<1>8. at[0] = Forward(c, f, t(0))
  <2>1. at[0] = step(at, 0)
    <3> HIDE DEF step, at
    <3> QED BY <1>7
  <2> QED BY <2>1
<1>9. ASSUME NEW n \in Nat PROVE at[n + 1] = Forward(c, at[n], t(n + 1))
  <2>1. at[n + 1] = step(at, n + 1)
    <3> HIDE DEF step, at
    <3> QED BY <1>7
  <2>2. n + 1 # 0 /\ (n + 1) - 1 = n
    OBVIOUS
  <2> HIDE DEF at, t
  <2> QED BY <2>1, <2>2
<1>10. at \in [Nat -> I]
  <2> DEFINE T == {n \in Nat : at[n] \in I}
  <2>1. 0 \in T
    BY <1>1, <1>2, <1>8
  <2>2. ASSUME NEW n \in T PROVE n + 1 \in T
    <3>1. n + 1 \in Nat /\ at[n] \in I
      OBVIOUS
    <3>2. Forward(c, at[n], t(n + 1)) \in I
      BY <1>2, <3>1
    <3> QED BY <1>9, <3>1, <3>2
  <2>3. T \in SUBSET Nat
    OBVIOUS
  <2> HIDE DEF T
  <2>4. \A n \in Nat : n \in T
    BY <2>1, <2>2, <2>3, StepByStep
  <2>5. at = [n \in Nat |-> at[n]]
    <3> HIDE DEF at, step
    <3> QED BY <1>7
  <2> HIDE DEF at
  <2> QED BY <2>4, <2>5 DEF T
<1> QED BY <1>8, <1>9, <1>10 DEF f, N
-----------------------------------------------------------------------------
(* Where the room of a buffer ends.                                        *)
RoomEnd(b) == b.start + b.cap * Freq

LEMMA ChainBounds ==
  ASSUME NEW c, ChainOK(c)
  PROVE  /\ Len(c) \in Nat
         /\ \A i \in 1..Len(c) :
              /\ BufferOK(c[i]) /\ c[i] \in Buffers /\ c[i].cap \in Nat \ {0}
              /\ c[i].start \in Int /\ FirstWrite(c[i]) \in Int
              /\ RoomEnd(c[i]) \in Int
              /\ c[i].start <= FirstWrite(c[i])
              /\ FirstWrite(c[i]) < c[i].start + Freq
              /\ FirstWrite(c[i]) < RoomEnd(c[i])
         /\ \A i, j \in 1..Len(c) : i < j => RoomEnd(c[i]) <= FirstWrite(c[j])
<1>1. Len(c) \in Nat
  BY DEF ChainOK
<1>2. ASSUME NEW i \in 1..Len(c)
      PROVE  /\ BufferOK(c[i]) /\ c[i] \in Buffers /\ c[i].cap \in Nat \ {0}
             /\ c[i].start \in Int /\ FirstWrite(c[i]) \in Int
             /\ RoomEnd(c[i]) \in Int
             /\ c[i].start <= FirstWrite(c[i])
             /\ FirstWrite(c[i]) < c[i].start + Freq
             /\ FirstWrite(c[i]) < RoomEnd(c[i])
  <2>1. BufferOK(c[i]) /\ c[i] \in Buffers
    BY DEF ChainOK, BufferOK
  <2>2. c[i].start \in Int /\ c[i].cap \in Nat \ {0} /\ FirstWrite(c[i]) \in Int
    BY <2>1, BufferTypes
  <2>3. c[i].cap * Freq \in Int /\ FirstWrite(c[i]) < c[i].start + c[i].cap * Freq
        /\ c[i].start <= FirstWrite(c[i])
    BY <2>1, Room
  <2>4. FirstWrite(c[i]) = c[i].start + Freq \div 2
    BY DEF FirstWrite
  <2>5. Freq \div 2 \in Nat /\ Freq \in Nat /\ Freq \div 2 < Freq
    BY Half
  <2>6. FirstWrite(c[i]) < c[i].start + Freq
    <3> DEFINE half == Freq \div 2
    <3>1. /\ half \in Nat /\ half < Freq /\ Freq \in Nat
          /\ FirstWrite(c[i]) = c[i].start + half
      BY <2>4, <2>5
    <3> HIDE DEF half
    <3> QED BY ONLY <2>2, <3>1
  <2>7. RoomEnd(c[i]) \in Int /\ FirstWrite(c[i]) < RoomEnd(c[i])
    <3> DEFINE room == c[i].cap * Freq
    <3>1. /\ room \in Int /\ FirstWrite(c[i]) < c[i].start + room
          /\ RoomEnd(c[i]) = c[i].start + room
      BY <2>3 DEF RoomEnd
    <3> HIDE DEF room
    <3> QED BY ONLY <2>2, <3>1
  <2> QED BY ONLY <2>1, <2>2, <2>3, <2>6, <2>7
<1>3. \A i, j \in 1..Len(c) : i < j => RoomEnd(c[i]) <= FirstWrite(c[j])
  BY DEF ChainOK, RoomEnd
<1> QED BY <1>1, <1>2, <1>3

(* On a grid that a chain is aligned with, all its samples and buffers are *)
(* a number of steps from where the walk begins.                           *)
OnGrid(x, first) == \E z \in Int : x = first + z * Freq

LEMMA AlignedOnGrid ==
  ASSUME NEW c, ChainOK(c), c # <<>>, NEW from \in Int, Aligned(c, from)
  PROVE  /\ \A q \in Held(c) : OnGrid(q, ActualFrom(c, from))
         /\ \A i \in 1..Len(c) : OnGrid(FirstWrite(c[i]), ActualFrom(c, from))
<1> DEFINE first == ActualFrom(c, from)
           All   == Held(c) \cup {FirstWrite(c[i]) : i \in 1..Len(c)}
<1>1. \A x \in All : (x - from) % Freq = 0
  BY DEF Aligned
<1>2. \A i \in 1..Len(c) : FirstWrite(c[i]) \in Int /\ FirstWrite(c[i]) \in All
  BY ChainBounds
<1>3. All \subseteq Int
  <2>1. ASSUME NEW q \in Held(c) PROVE q \in Int
    <3>0. PICK i \in 1..Len(c) : \E k \in 1..Len(c[i].data) : q = c[i].data[k]
      BY HeldMeans
    <3>1. PICK k \in 1..Len(c[i].data) : q = c[i].data[k]
      BY <3>0
    <3>2. q # NaN /\ BufferOK(c[i])
      BY HeldMeans, ChainBounds
    <3>3. q \in Nat
      BY <3>1, <3>2, SampleInBuffer
    <3> QED BY <3>3
  <2> QED BY <1>2, <2>1
<1>4. first \in Int /\ first \in {from, FirstWrite(c[1])} /\ 1 \in 1..Len(c)
  BY FirstOfOK DEF ChainOK
<1>5. ASSUME NEW x \in All PROVE \E z \in Int : x = from + z * Freq
  <2>1. x \in Int /\ (x - from) % Freq = 0
    BY <1>1, <1>3
  <2>2. PICK z \in Int : x - from = z * Freq
    BY <2>1, Remainder
  <2>3. x = from + z * Freq
    BY <2>1, <2>2, Half
  <2> QED BY <2>3
<1>6. PICK y \in Int : first = from + y * Freq
  <2>1. CASE first = from
    <3>1. first = from + 0 * Freq
      BY <2>1, Half
    <3> QED BY <3>1
  <2>2. CASE first = FirstWrite(c[1])
    BY <1>2, <1>4, <1>5, <2>2
  <2> QED BY <1>4, <2>1, <2>2
<1>7. ASSUME NEW x \in All PROVE OnGrid(x, first)
  <2>1. PICK z \in Int : x = from + z * Freq
    BY <1>5
  <2>2. (z - y) * Freq = z * Freq - y * Freq /\ z * Freq \in Int /\ y * Freq \in Int
    BY Half
  <2>3. z - y \in Int
    OBVIOUS
  <2> DEFINE u == z * Freq
             v == y * Freq
             d == (z - y) * Freq
  <2>4. u \in Int /\ v \in Int /\ d = u - v /\ x = from + u /\ first = from + v
    BY <1>6, <2>1, <2>2
  <2> HIDE DEF u, v, d, first
  <2>5. x = first + d
    BY <2>4
  <2> QED BY <2>3, <2>5 DEF OnGrid, d
<1> HIDE DEF All
<1>8. Held(c) \subseteq All
  BY DEF All
<1> QED BY <1>2, <1>7, <1>8

(* What is behind a time of the grid is behind the next one, or on it.     *)
LEMMA NextOnGrid ==
  ASSUME NEW x, NEW first \in Int, OnGrid(x, first), NEW n \in Int,
         first + n * Freq < x
  PROVE  first + (n + 1) * Freq <= x
<1>1. PICK z \in Int : x = first + z * Freq
  BY DEF OnGrid
<1> DEFINE u == z * Freq
           v == n * Freq
           w == (n + 1) * Freq
<1>2. u \in Int /\ v \in Int /\ w = v + Freq /\ Freq \in Nat
  BY Half
<1>3. x = first + u /\ first + v < x
  BY <1>1
<1>4. v < u
  <2> HIDE DEF u, v
  <2> QED BY <1>2, <1>3
<1>5. v + Freq <= u
  BY <1>4, Apart
<1> HIDE DEF u, v, w
<1>6. first + w <= x
  BY <1>2, <1>3, <1>5
<1> QED BY <1>6 DEF w

(* Two places on the grid that are less than a step apart, or in order,    *)
(* are in order.                                                           *)
LEMMA OrderOnGrid ==
  ASSUME NEW x, NEW y, NEW first \in Int, OnGrid(x, first), OnGrid(y, first),
         x < y + Freq
  PROVE  x <= y
<1>1. PICK z \in Int : y = first + z * Freq
  BY DEF OnGrid
<1>2. z * Freq \in Int /\ y \in Int
  BY <1>1, Half
<1>3. x \in Int
  <2>1. PICK k \in Int : x = first + k * Freq
    BY DEF OnGrid
  <2>2. k * Freq \in Int
    BY Half
  <2> QED BY <2>1, <2>2
<1>4. SUFFICES ASSUME y < x PROVE FALSE
  BY <1>2, <1>3
<1>5. first + (z + 1) * Freq <= x
  BY <1>1, <1>4, NextOnGrid
<1>6. (z + 1) * Freq = z * Freq + Freq
  BY Half
<1> DEFINE u == z * Freq
           v == (z + 1) * Freq
<1>7. u \in Int /\ v = u + Freq /\ y = first + u /\ first + v <= x /\ Freq \in Nat
  BY <1>1, <1>2, <1>5, <1>6, Half
<1> HIDE DEF u, v
<1> QED BY <1>2, <1>3, <1>7

(* read has not fallen behind t, nor is it ahead of it.                    *)
InStep(c, i, t) ==
  /\ i = Len(c) \/ t < RoomEnd(c[i])
  /\ \A j \in 1..Len(c) : j < i => RoomEnd(c[j]) <= t

LEMMA ForwardInStep ==
  ASSUME NEW c, ChainOK(c), NEW i \in 1..Len(c), NEW t \in Int,
         i < Len(c) => t < RoomEnd(c[i + 1]),
         \A j \in 1..Len(c) : j < i => RoomEnd(c[j]) <= t
  PROVE  InStep(c, Forward(c, i, t), t)
<1> DEFINE k == Forward(c, i, t)
           N == Len(c)
<1>1. N \in Nat /\ c[i] \in Buffers /\ c[i].cap \in Nat \ {0} /\ RoomEnd(c[i]) \in Int
  BY ChainBounds
<1>2. Index(c[i], t) >= c[i].cap <=> t >= RoomEnd(c[i])
  BY <1>1, IndexReached DEF RoomEnd
<1>3. CASE t >= RoomEnd(c[i]) /\ i < N
  <2>1. k = i + 1
    BY <1>2, <1>3 DEF Forward
  <2>2. \A j \in 1..N : j < k => RoomEnd(c[j]) <= t
    <3> HIDE DEF k
    <3>1. SUFFICES ASSUME NEW j \in 1..N, j < k PROVE RoomEnd(c[j]) <= t
      OBVIOUS
    <3>2. j = i \/ j < i
      BY <1>1, <2>1, <3>1
    <3> QED BY <1>1, <1>3, <3>2
  <2> QED BY <1>3, <2>1, <2>2 DEF InStep
<1>4. CASE ~(t >= RoomEnd(c[i]) /\ i < N)
  <2>1. k = i
    BY <1>2, <1>4 DEF Forward
  <2>2. i = N \/ t < RoomEnd(c[i])
    BY <1>1, <1>4
  <2> QED BY <2>1, <2>2 DEF InStep
<1> QED BY <1>3, <1>4

LEMMA WalkInStep ==
  ASSUME NEW c, ChainOK(c), c # <<>>, NEW from \in Int, Aligned(c, from)
  PROVE  \A n \in Nat :
           InStep(c, Walk(c, from)[n], ActualFrom(c, from) + n * Freq)
<1> DEFINE N     == Len(c)
           first == ActualFrom(c, from)
           at    == Walk(c, from)
           t(n)  == first + n * Freq
           f     == FirstOf(c, from)
           T     == {n \in Nat : InStep(c, at[n], t(n))}
<1>1. /\ N \in Nat /\ first \in Int /\ f \in 1..N /\ FirstWrite(c[f]) <= first
      /\ \A i \in 1..N : f < i => first < FirstWrite(c[i])
  BY FirstOfOK
<1>2. /\ \A n \in Nat : at[n] \in 1..N
      /\ at[0] = Forward(c, f, t(0))
      /\ \A n \in Nat : at[n + 1] = Forward(c, at[n], t(n + 1))
  BY WalkOK
<1> HIDE DEF at, first, f, N
<1>3. \A n \in Nat : t(n) \in Int /\ t(n + 1) = t(n) + Freq
  <2>1. ASSUME NEW n \in Nat PROVE t(n) \in Int /\ t(n + 1) = t(n) + Freq
    <3>1. n * Freq \in Int /\ (n + 1) * Freq = n * Freq + Freq
      BY Half
    <3> QED BY <1>1, <3>1, Half
  <2> QED BY <2>1
<1>4. /\ \A i \in 1..N : /\ FirstWrite(c[i]) \in Int /\ RoomEnd(c[i]) \in Int
                         /\ FirstWrite(c[i]) < RoomEnd(c[i])
      /\ \A i, j \in 1..N : i < j => RoomEnd(c[i]) <= FirstWrite(c[j])
  BY ChainBounds DEF N
<1>5. 0 \in T
  <2>1. t(0) = first
    BY <1>1, Half
  <2>2. f < N => first < RoomEnd(c[f + 1])
    <3>1. SUFFICES ASSUME f < N PROVE first < RoomEnd(c[f + 1])
      OBVIOUS
    <3>2. f + 1 \in 1..N /\ f < f + 1
      BY <1>1, <3>1
    <3>3. first < FirstWrite(c[f + 1])
      BY <1>1, <3>2
    <3> QED BY <1>1, <1>4, <3>2, <3>3
  <2>3. ASSUME NEW j \in 1..N, j < f PROVE RoomEnd(c[j]) <= first
    <3>1. RoomEnd(c[j]) <= FirstWrite(c[f])
      BY <1>1, <1>4, <2>3
    <3> QED BY <1>1, <1>4, <3>1
  <2>4. InStep(c, Forward(c, f, first), first)
    BY <1>1, <2>2, <2>3, ForwardInStep DEF N
  <2> HIDE DEF t
  <2> QED BY <1>2, <2>1, <2>4
<1>6. ASSUME NEW n \in T PROVE n + 1 \in T
  <2> DEFINE i == at[n]
             s == t(n + 1)
  <2>1. n \in Nat /\ n + 1 \in Nat /\ i \in 1..N /\ InStep(c, i, t(n))
    BY <1>2
  <2>2. t(n) \in Int /\ s \in Int /\ s = t(n) + Freq /\ Freq \in Nat
    BY <1>3, <2>1, Half
  <2>3. i < N => s < RoomEnd(c[i + 1])
    <3>1. SUFFICES ASSUME i < N PROVE s < RoomEnd(c[i + 1])
      OBVIOUS
    <3>2. i + 1 \in 1..N /\ i < i + 1
      BY <1>1, <2>1, <3>1
    <3>3. t(n) < RoomEnd(c[i])
      BY <2>1, <3>1 DEF InStep, N
    <3>4. RoomEnd(c[i]) <= FirstWrite(c[i + 1]) /\ RoomEnd(c[i]) \in Int
          /\ FirstWrite(c[i + 1]) \in Int /\ RoomEnd(c[i + 1]) \in Int
          /\ FirstWrite(c[i + 1]) < RoomEnd(c[i + 1])
      BY <1>4, <2>1, <3>2
    <3>5. first + n * Freq < FirstWrite(c[i + 1])
      BY <2>2, <3>3, <3>4
    <3>6. OnGrid(FirstWrite(c[i + 1]), first)
      BY <3>2, AlignedOnGrid DEF N, first
    <3>7. s <= FirstWrite(c[i + 1])
      BY <1>1, <2>1, <3>5, <3>6, NextOnGrid
    <3> HIDE DEF i, s, t
    <3> QED BY <2>2, <3>4, <3>7
  <2>4. ASSUME NEW j \in 1..N, j < i PROVE RoomEnd(c[j]) <= s
    <3>1. RoomEnd(c[j]) <= t(n) /\ RoomEnd(c[j]) \in Int
      BY <1>4, <2>1, <2>4 DEF InStep, N
    <3> HIDE DEF i, s, t
    <3> QED BY <2>2, <3>1
  <2> HIDE DEF i, s
  <2>5. InStep(c, Forward(c, i, s), s)
    BY <2>1, <2>2, <2>3, <2>4, ForwardInStep DEF N
  <2>6. at[n + 1] = Forward(c, i, s)
    BY <1>2, <2>1 DEF i, s
  <2> QED BY <2>1, <2>5, <2>6 DEF s
<1>7. T \in SUBSET Nat
  OBVIOUS
<1> HIDE DEF T
<1>8. \A n \in Nat : n \in T
  BY <1>5, <1>6, <1>7, StepByStep
<1> QED BY <1>8 DEF T, at, first
-----------------------------------------------------------------------------
LEMMA MinIsLeast ==
  ASSUME NEW S \in SUBSET Nat, S # {}
  PROVE  Min(S) \in S /\ \A y \in S : Min(S) <= y
BY MinExists DEF Min

(* A value is a sample of its buffer, in the slot of the time it is for;   *)
(* at the time of a sample it is that sample.                              *)
LEMMA ValueOK ==
  ASSUME NEW b, BufferOK(b), NEW t \in Int, Value(b, t) # NaN
  PROVE  /\ \E k \in 1..Len(b.data) : Value(b, t) = b.data[k]
         /\ Value(b, t) - t \in (1 - Freq)..(Freq - 1)
<1> DEFINE i == Index(b, t)
           v == b.data[i + 1]
<1>1. b \in Buffers /\ b.start \in Int /\ Len(b.data) \in Nat
  BY BufferTypes DEF BufferOK
<1>2. /\ i \in Int /\ ~(i >= Len(b.data)) /\ ~(t < b.start)
      /\ Value(b, t) = v
  BY <1>1, IndexOfTime DEF Value, Unwritten
<1>3. i \in Nat /\ b.start + i * Freq <= t /\ t < b.start + i * Freq + Freq
  <2>1. t >= b.start
    <3> HIDE DEF i, v
    <3> QED BY <1>1, <1>2
  <2> QED BY <1>1, <2>1, IndexOfTime
<1>4. i + 1 \in 1..Len(b.data) /\ (i + 1) - 1 = i
  BY <1>1, <1>2, <1>3
<1>5. v # NaN
  BY <1>2
<1>6. b.start + i * Freq <= v /\ v < b.start + (i + 1) * Freq /\ v \in Nat
  <2> DEFINE k == i + 1
  <2>1. k \in 1..Len(b.data) /\ k - 1 = i /\ b.data[k] # NaN
    BY <1>4, <1>5
  <2> HIDE DEF k, i
  <2>2. b.start + (k - 1) * Freq <= b.data[k] /\ b.data[k] < b.start + k * Freq
    BY <2>1 DEF BufferOK
  <2>3. b.data[k] \in Nat
    BY <2>1, SampleInBuffer
  <2> QED BY <2>1, <2>2, <2>3 DEF k
<1>7. i * Freq \in Int /\ (i + 1) * Freq = i * Freq + Freq
  BY <1>3, Half
<1>8. v - t \in (1 - Freq)..(Freq - 1)
  <2> DEFINE x == i * Freq
             y == (i + 1) * Freq
             a == b.start
  <2>1. /\ x \in Int /\ y = x + Freq /\ a \in Int /\ v \in Int /\ Freq \in Nat
        /\ a + x <= t /\ t < a + x + Freq /\ a + x <= v /\ v < a + y
    BY <1>1, <1>3, <1>6, <1>7, Half
  <2> HIDE DEF x, y, v, a
  <2>2. 1 - Freq <= v - t /\ v - t <= Freq - 1
    BY <2>1
  <2> QED BY <2>1, <2>2
<1> HIDE DEF i
<1> QED BY <1>2, <1>4, <1>8

LEMMA ValueOfSample ==
  ASSUME NEW b, BufferOK(b), NEW k \in 1..Len(b.data), b.data[k] # NaN
  PROVE  /\ ~Unwritten(b, b.data[k])
         /\ Value(b, b.data[k]) = b.data[k]
<1> DEFINE v == b.data[k]
           i == Index(b, v)
<1>1. b \in Buffers /\ b.start \in Int /\ Len(b.data) \in Nat /\ v \in Nat
      /\ b.start <= v
  BY SampleInBuffer, BufferTypes DEF BufferOK
<1>2. i \in Int /\ i + 1 = k
  <2>1. v \in Int
    BY <1>1
  <2>2. i \in Int
    <3> HIDE DEF v
    <3> QED BY <1>1, <2>1, IndexOfTime
  <2> QED BY <2>2, IndexOfSample
<1>3. ~(i >= Len(b.data))
  <2> HIDE DEF i
  <2> QED BY <1>1, <1>2
<1>4. ~(v < b.start)
  <2> HIDE DEF v
  <2> QED BY <1>1
<1>5. b.data[i + 1] = v
  <2> HIDE DEF i
  <2> QED BY <1>2
<1> QED BY <1>3, <1>4, <1>5 DEF Value, Unwritten

(* What read returns, in terms of its walk: it stops where it must, and    *)
(* before from and to are as far apart as the values it has.               *)
LEMMA ReadMeans ==
  ASSUME NEW c, ChainOK(c), c # <<>>, NEW from \in Int, NEW to \in Int, from <= to
  PROVE  LET r    == Read(c, from, to)
             at   == Walk(c, from)
             t(n) == ActualFrom(c, from) + n * Freq
         IN  /\ r.from = ActualFrom(c, from)
             /\ Len(r.data) \in 0..((to - from) \div Freq + 1)
             /\ \A k \in 1..Len(r.data) : r.data[k] = Value(c[at[k - 1]], t(k - 1))
             /\ Stops(c, at[Len(r.data)], t(Len(r.data)), to)
             /\ \A n \in Nat : n < Len(r.data) => ~Stops(c, at[n], t(n), to)
<1> DEFINE first == ActualFrom(c, from)
           t(n)  == first + n * Freq
           at    == Walk(c, from)
           M     == (to - from) \div Freq + 1
           S     == {n \in 0..M : Stops(c, at[n], t(n), to)}
           size  == Min(S)
           r     == Read(c, from, to)
           d     == [k \in 1..size |-> Value(c[at[k - 1]], t(k - 1))]
<1>1. first \in Int /\ from <= first
  BY FirstOfOK
<1>2. M \in Nat /\ to - from < M * Freq
  <2> DEFINE x == to - from
             q == x \div Freq
  <2>1. x \in Nat
    OBVIOUS
  <2>2. q \in Nat /\ x < q * Freq + Freq
    BY <2>1, Division
  <2> HIDE DEF q
  <2>3. (q + 1) * Freq = q * Freq + Freq
    BY <2>2, Half
  <2> QED BY <2>2, <2>3 DEF q
<1>3. M \in S
  <2>1. M * Freq \in Int
    BY <1>2, Half
  <2> HIDE DEF M, first
  <2>2. first + M * Freq >= to
    <3> DEFINE y == M * Freq
    <3>1. y \in Int /\ to - from < y
      BY <1>2, <2>1
    <3> HIDE DEF y
    <3>2. first + y >= to
      BY <1>1, <3>1
    <3> QED BY <3>2 DEF y
  <2>3. Stops(c, at[M], t(M), to)
    BY <2>2 DEF Stops
  <2> QED BY <1>2, <2>3
<1>4. size \in S /\ \A n \in S : size <= n
  <2>1. S \in SUBSET Nat /\ S # {}
    BY <1>3
  <2> HIDE DEF S
  <2> QED BY <2>1, MinIsLeast
<1> HIDE DEF M
<1>5. size \in Nat /\ size \in 0..M /\ Stops(c, at[size], t(size), to)
  <2> HIDE DEF size
  <2> QED BY <1>2, <1>4
<1>6. ASSUME NEW n \in Nat, n < size PROVE ~Stops(c, at[n], t(n), to)
  <2>1. n \notin S
    <3>1. SUFFICES ASSUME n \in S PROVE FALSE
      OBVIOUS
    <3>2. size <= n
      BY <1>4, <3>1
    <3> HIDE DEF size, S
    <3> QED BY <1>5, <1>6, <3>2
  <2>2. n \in 0..M
    <3> HIDE DEF size
    <3> QED BY <1>2, <1>5, <1>6
  <2> QED BY <2>1, <2>2
<1>7. r = [from |-> t(0), to |-> t(size), data |-> d]
  BY DEF Read, M
<1>8. r.data = d /\ r.from = t(0)
  <2> HIDE DEF d, r, size, t
  <2> QED BY <1>7
<1>9. t(0) = first
  BY <1>1, Half
<1>10. Len(d) = size /\ \A k \in 1..size : d[k] = Value(c[at[k - 1]], t(k - 1))
  <2> DEFINE V == {d[k] : k \in 1..size}
  <2> HIDE DEF size, at, t
  <2>1. d \in [1..size -> V]
    OBVIOUS
  <2>2. \A k \in 1..size : d[k] = Value(c[at[k - 1]], t(k - 1))
    OBVIOUS
  <2> HIDE DEF d, V
  <2>3. d \in Seq(V) /\ Len(d) = size
    BY <1>5, <2>1
  <2> QED BY <2>2, <2>3
<1>11. Len(r.data) = size
  BY <1>8, <1>10
<1> HIDE DEF size, d, r, at, first
<1> QED BY <1>5, <1>6, <1>8, <1>9, <1>10, <1>11 DEF M, r, at, first
-----------------------------------------------------------------------------
(* When the samples are on read's grid, read meets each in its buffer and  *)
(* does not stop before it.                                                *)
LEMMA ReadFinds ==
  ASSUME NEW c, ChainOK(c), c # <<>>, NEW from \in Int, NEW to \in Int, from <= to,
         Aligned(c, from), NEW q \in Held(c), ActualFrom(c, from) <= q, q < to
  PROVE  \E k \in 1..Len(Read(c, from, to).data) : Read(c, from, to).data[k] = q
<1> DEFINE N     == Len(c)
           first == ActualFrom(c, from)
           t(n)  == first + n * Freq
           at    == Walk(c, from)
           data  == Read(c, from, to).data
           size  == Len(data)
<1>1. N \in Nat /\ first \in Int /\ N \in 1..N
  BY FirstOfOK DEF ChainOK
<1>2. \A n \in Nat : at[n] \in 1..N /\ InStep(c, at[n], t(n))
  BY WalkOK, WalkInStep
<1>3. /\ size \in Nat
      /\ \A k \in 1..size : data[k] = Value(c[at[k - 1]], t(k - 1))
      /\ Stops(c, at[size], t(size), to)
  BY ReadMeans
<1>4. /\ \A i \in 1..N : /\ BufferOK(c[i]) /\ c[i] \in Buffers
                         /\ c[i].start \in Int
                         /\ FirstWrite(c[i]) \in Int /\ RoomEnd(c[i]) \in Int
                         /\ c[i].start <= FirstWrite(c[i])
                         /\ FirstWrite(c[i]) < c[i].start + Freq
                         /\ FirstWrite(c[i]) < RoomEnd(c[i])
      /\ \A i, j \in 1..N : i < j => RoomEnd(c[i]) <= FirstWrite(c[j])
  BY ChainBounds
<1>0. PICK j \in 1..N : \E k \in 1..Len(c[j].data) : q = c[j].data[k]
  BY HeldMeans
<1>5. PICK k \in 1..Len(c[j].data) : q = c[j].data[k]
  BY <1>0
<1>6. q # NaN /\ BufferOK(c[j])
  BY <1>4, HeldMeans
<1>7. /\ q \in Nat /\ c[j].start <= q /\ q < RoomEnd(c[j])
      /\ ~Unwritten(c[j], q) /\ Value(c[j], q) = q
  BY <1>5, <1>6, SampleInBuffer, ValueOfSample DEF RoomEnd
<1>8. OnGrid(q, first) /\ \A i \in 1..N : OnGrid(FirstWrite(c[i]), first)
  BY AlignedOnGrid
<1>9. FirstWrite(c[j]) <= q
  <2>1. FirstWrite(c[j]) < q + Freq
    <3>1. /\ c[j].start \in Int /\ FirstWrite(c[j]) \in Int
          /\ FirstWrite(c[j]) < c[j].start + Freq
      BY ONLY <1>4
    <3>2. Freq \in Nat
      BY Half
    <3> QED BY ONLY <1>7, <3>1, <3>2
  <2> QED BY <1>1, <1>8, <2>1, OrderOnGrid
<1>10. PICK m \in Nat : q = t(m)
  <2>1. PICK z \in Int : q = first + z * Freq
    BY <1>8 DEF OnGrid
  <2>2. 0 <= z
    <3>1. SUFFICES ASSUME z + 1 <= 0 PROVE FALSE
      BY <2>1
    <3>2. (z + 1) * Freq <= 0 * Freq /\ 0 * Freq = 0
          /\ (z + 1) * Freq = z * Freq + Freq
      BY <3>1, Multiples, Half
    <3> DEFINE u == z * Freq
    <3>3. /\ u \in Int /\ u + Freq <= 0 /\ q = first + u /\ Freq \in Nat \ {0}
          /\ first <= q
      BY <2>1, <3>2, Half, BufferAssumption
    <3> HIDE DEF u, first
    <3> QED BY <1>1, <3>3
  <2>3. z \in Nat
    BY <2>2
  <2> QED BY <2>1, <2>3
<1> HIDE DEF N, first, at, size, data
<1>11. at[m] = j
  <2> DEFINE i == at[m]
  <2>1. i \in 1..N /\ InStep(c, i, q)
    BY <1>2, <1>10
  <2> HIDE DEF i
  <2>2. ~(i < j)
    <3>1. SUFFICES ASSUME i < j PROVE FALSE
      OBVIOUS
    <3>2. i # N
      BY <1>1, <2>1, <3>1
    <3>3. q < RoomEnd(c[i]) /\ RoomEnd(c[i]) <= FirstWrite(c[j])
      BY <1>4, <2>1, <3>1, <3>2 DEF InStep, N
    <3> QED BY <1>4, <1>7, <1>9, <2>1, <3>3
  <2>3. ~(j < i)
    <3>1. SUFFICES ASSUME j < i PROVE FALSE
      OBVIOUS
    <3>2. RoomEnd(c[j]) <= q
      BY <2>1, <3>1 DEF InStep, N
    <3> QED BY <1>4, <1>7, <3>2
  <2>4. i = j
    BY <1>1, <2>1, <2>2, <2>3
  <2> QED BY <2>4 DEF i
<1>12. ASSUME NEW n \in Nat, n <= m PROVE ~Stops(c, at[n], t(n), to)
  <2> DEFINE i == at[n]
             s == t(n)
  <2>1. i \in 1..N /\ InStep(c, i, s)
    BY <1>2
  <2>2. s \in Int /\ s <= q
    <3>1. n * Freq <= m * Freq
      BY <1>12, Multiples
    <3>2. n * Freq \in Int /\ m * Freq \in Int
      BY Half
    <3> DEFINE x == n * Freq
               y == m * Freq
    <3>3. x \in Int /\ y \in Int /\ x <= y /\ q = first + y /\ s = first + x
      BY <1>10, <3>1, <3>2
    <3> HIDE DEF x, y, s
    <3> QED BY <1>1, <3>3
  <2> HIDE DEF i, s
  <2>3. ~(s >= to)
    BY <1>7, <2>2
  <2>4. ~(j < i)
    <3>1. SUFFICES ASSUME j < i PROVE FALSE
      OBVIOUS
    <3>2. RoomEnd(c[j]) <= s
      BY <2>1, <3>1 DEF InStep, N
    <3> QED BY <1>4, <1>7, <2>2, <3>2
  <2>5. i = j => ~Unwritten(c[i], s)
    <3>1. SUFFICES ASSUME i = j, Unwritten(c[j], s) PROVE FALSE
      OBVIOUS
    <3> DEFINE l == Len(c[j].data)
    <3>2. l \in Nat \ {0} /\ c[j] \in Buffers
      <4>1. l \in Nat /\ k \in 1..l
        BY <1>4, BufferTypes
      <4> QED BY <1>4, <4>1
    <3> HIDE DEF l
    <3>3. s >= c[j].start + l * Freq
      BY <2>2, <3>1, <3>2, IndexReached DEF Unwritten, l
    <3>4. ~(q >= c[j].start + l * Freq)
      BY <1>7, <3>2, IndexReached DEF Unwritten, l
    <3>5. l * Freq \in Int
      BY <3>2, Half
    <3> DEFINE y == l * Freq
    <3>6. y \in Int /\ s >= c[j].start + y /\ ~(q >= c[j].start + y)
      BY <3>3, <3>4, <3>5
    <3> HIDE DEF y
    <3> QED BY <1>4, <1>7, <2>2, <3>6
  <2>6. i < j => ~(i = N \/ to <= c[i + 1].start)
    <3>1. SUFFICES ASSUME i < j, i + 1 \in 1..N, to <= c[i + 1].start PROVE FALSE
      BY <1>1, <2>1
    <3>2. q < c[i + 1].start /\ q < FirstWrite(c[i + 1])
      BY <1>4, <1>7, <3>1
    <3>3. CASE i + 1 = j
      BY <1>4, <1>7, <3>2, <3>3
    <3>4. CASE i + 1 < j
      <4>1. RoomEnd(c[i + 1]) <= FirstWrite(c[j])
        BY <1>4, <3>1, <3>4
      <4> QED BY <1>4, <1>7, <1>9, <3>1, <3>2, <4>1
    <3> QED BY <2>1, <3>1, <3>3, <3>4
  <2>7. i = j \/ i < j
    BY <1>1, <2>1, <2>4
  <2>8. ~Stops(c, i, s, to)
    BY <2>3, <2>5, <2>6, <2>7 DEF Stops, N
  <2> QED BY <2>8 DEF i, s
<1>13. m < size
  BY <1>3, <1>12
<1>14. m + 1 \in 1..size /\ (m + 1) - 1 = m
  BY <1>3, <1>13
<1>15. data[m + 1] = q
  BY <1>3, <1>7, <1>10, <1>11, <1>14
<1> QED BY <1>14, <1>15 DEF data, size

(* read, for every chain in order and every range.                         *)
LEMMA ReadRightly ==
  ASSUME NEW c, ChainOK(c), c # <<>>, NEW times \in SUBSET Int
  PROVE  RightlyRead(c, times)
<1>1. SUFFICES ASSUME NEW from \in times, NEW to \in times, from <= to
               PROVE  LET r == Read(c, from, to)
                          n == Len(r.data)
                      IN  /\ n <= (to - from) \div Freq + 1
                          /\ \A k \in 1..n : r.data[k] # NaN =>
                               /\ r.data[k] \in Held(c)
                               /\ r.data[k] - (r.from + (k - 1) * Freq)
                                    \in (1 - Freq)..(Freq - 1)
                          /\ Aligned(c, from) =>
                               {s \in Held(c) : r.from <= s /\ s < to} \subseteq
                                  {r.data[k] : k \in 1..n}
  BY DEF RightlyRead
<1> DEFINE r     == Read(c, from, to)
           n     == Len(r.data)
           at    == Walk(c, from)
           t(k)  == ActualFrom(c, from) + k * Freq
<1>2. from \in Int /\ to \in Int
  OBVIOUS
<1>3. /\ r.from = ActualFrom(c, from) /\ n \in 0..((to - from) \div Freq + 1)
      /\ \A k \in 1..n : r.data[k] = Value(c[at[k - 1]], t(k - 1))
  BY <1>1, <1>2, ReadMeans
<1>4. n <= (to - from) \div Freq + 1 /\ n \in Nat
  <2>1. (to - from) \div Freq \in Int
    BY <1>2, BufferAssumption
  <2> HIDE DEF n
  <2> QED BY <1>3, <2>1
<1>5. ASSUME NEW k \in 1..n, r.data[k] # NaN
      PROVE  /\ r.data[k] \in Held(c)
             /\ r.data[k] - t(k - 1) \in (1 - Freq)..(Freq - 1)
  <2> DEFINE i == at[k - 1]
             s == t(k - 1)
  <2>1. k - 1 \in Nat /\ (k - 1) * Freq \in Int
    <3>1. k - 1 \in Nat
      BY <1>4
    <3> QED BY <3>1, Half
  <2>2. s \in Int /\ i \in 1..Len(c)
    <3>1. ActualFrom(c, from) \in Int
      BY <1>2, FirstOfOK
    <3>2. i \in 1..Len(c)
      BY <1>2, <2>1, WalkOK
    <3> HIDE DEF i
    <3> QED BY <2>1, <3>1, <3>2
  <2> HIDE DEF i, s, r, n
  <2>3. BufferOK(c[i]) /\ r.data[k] = Value(c[i], s)
    BY <1>3, <2>2, ChainBounds DEF i, s
  <2>4. /\ \E l \in 1..Len(c[i].data) : r.data[k] = c[i].data[l]
        /\ r.data[k] - s \in (1 - Freq)..(Freq - 1)
    BY <1>5, <2>2, <2>3, ValueOK
  <2>5. r.data[k] \in Held(c)
    BY <1>5, <2>2, <2>4, HeldMeans
  <2> QED BY <2>4, <2>5 DEF s
<1>6. ASSUME Aligned(c, from), NEW q \in Held(c), r.from <= q, q < to
      PROVE  q \in {r.data[k] : k \in 1..n}
  <2>1. \E k \in 1..n : r.data[k] = q
    BY <1>1, <1>2, <1>3, <1>6, ReadFinds
  <2> QED BY <2>1
<1> HIDE DEF r, n, at
<1> QED BY <1>3, <1>4, <1>5, <1>6 DEF r, n
=============================================================================
