------------------------- MODULE BufferChain_proofs -------------------------
(* Lemmas about the buffer chain of buffer.go, for every frequency and     *)
(* every capacity: what write and free do to the samples of a chain that   *)
(* is in order, and that they leave it in order.                           *)
EXTENDS BufferChain, SequenceTheorems, WellFoundedInduction, TLAPS

(* A nonempty set of indices has a largest one, which Max returns.         *)
LEMMA MinExists ==
  ASSUME NEW T \in SUBSET Nat, T # {}
  PROVE  \E x \in T : \A y \in T : x <= y
<1>1. PICK x \in T : \A y \in T : ~(<<y, x>> \in OpToRel(<, Nat))
  BY NatLessThanWellFounded, WFMin
<1>2. \A a, b \in Nat : <<a, b>> \in OpToRel(<, Nat) <=> a < b
  BY DEF OpToRel
<1>3. ASSUME NEW y \in T PROVE x <= y
  <2>1. x \in Nat /\ y \in Nat
    OBVIOUS
  <2>2. ~(y < x)
    BY <1>1, <1>2, <2>1
  <2> QED BY <2>1, <2>2
<1> QED BY <1>3

LEMMA MaxIsLargest ==
  ASSUME NEW n \in Nat, NEW T \in SUBSET (1..n), T # {}
  PROVE  Max(T) \in T /\ \A y \in T : Max(T) >= y
<1> DEFINE S == {n - i : i \in T}
<1>1. S \in SUBSET Nat
  OBVIOUS
<1>2. S # {}
  <2>1. PICK i \in T : TRUE
    OBVIOUS
  <2>2. n - i \in S
    OBVIOUS
  <2> QED BY <2>2
<1>3. PICK x \in S : \A y \in S : x <= y
  BY <1>1, <1>2, MinExists
<1>4. n - x \in T /\ \A y \in T : n - x >= y
  BY <1>3
<1> QED BY <1>4 DEF Max

(* Multiples of the frequency are in the order of their factors.           *)
LEMMA Multiples ==
  ASSUME NEW x \in Int, NEW y \in Int, x <= y
  PROVE  x * Freq <= y * Freq
BY BufferAssumption

(* Division rounds down to a multiple of the frequency.                    *)
LEMMA Division ==
  ASSUME NEW x \in Nat
  PROVE  /\ x \div Freq \in Nat
         /\ (x \div Freq) * Freq <= x
         /\ x < (x \div Freq) * Freq + Freq
BY BufferAssumption

LEMMA Half ==
  Freq \in Nat /\ Freq \div 2 \in Nat /\ Freq \div 2 < Freq
BY BufferAssumption
-----------------------------------------------------------------------------
(* A buffer in order has a sample at least, and each in its slot.          *)
BufferOK(b) ==
  /\ b \in Buffers
  /\ b.cap <= Cap /\ Len(b.data) \in 1..b.cap
  /\ \A k \in 1..Len(b.data) : b.data[k] # NaN =>
       b.start + (k - 1) * Freq <= b.data[k] /\ b.data[k] < b.start + k * Freq

(* A chain in order: a buffer begins behind all slots of those before it.  *)
ChainOK(c) ==
  /\ c \in Seq(Buffers)
  /\ \A i \in 1..Len(c) : BufferOK(c[i])
  /\ \A i, j \in 1..Len(c) :
       i < j => c[i].start + c[i].cap * Freq <= FirstWrite(c[j])

LEMMA BufferTypes ==
  ASSUME NEW b \in Buffers
  PROVE  /\ b.start \in Int /\ b.cap \in Nat \ {0} /\ b.data \in Seq(Nat \cup {NaN})
         /\ Len(b.data) \in Nat
         /\ FirstWrite(b) \in Int /\ BufferEnd(b) \in Int
<1>1. b.start \in Int /\ b.cap \in Nat \ {0} /\ b.data \in Seq(Nat \cup {NaN})
  BY DEF Buffers
<1>2. Len(b.data) \in Nat
  BY <1>1
<1>3. FirstWrite(b) \in Int
  BY <1>1, Half DEF FirstWrite
<1>4. BufferEnd(b) \in Int
  BY <1>2, <1>3, Half DEF BufferEnd
<1> QED BY <1>1, <1>2, <1>3, <1>4

(* A sample lies between the beginning of its buffer and its end.          *)
LEMMA SampleInBuffer ==
  ASSUME NEW b, BufferOK(b), NEW k \in 1..Len(b.data), b.data[k] # NaN
  PROVE  /\ b.data[k] \in Nat
         /\ b.start <= b.data[k]
         /\ b.data[k] < b.start + b.cap * Freq
         /\ b.data[k] < BufferEnd(b)
<1>1. /\ b \in Buffers /\ k \in Int /\ 1 <= k /\ k <= Len(b.data)
      /\ Len(b.data) \in Int /\ Len(b.data) <= b.cap
      /\ b.data[k] \in Nat \cup {NaN}
  BY BufferTypes DEF BufferOK
<1>2. b.start + (k - 1) * Freq <= b.data[k] /\ b.data[k] < b.start + k * Freq
  BY DEF BufferOK
<1>3. b.start \in Int /\ b.cap \in Int
  BY <1>1, BufferTypes
<1>4. k * Freq <= Len(b.data) * Freq /\ k * Freq <= b.cap * Freq
      /\ 0 * Freq <= (k - 1) * Freq
  BY <1>1, <1>3, Multiples
<1>5. k * Freq \in Int /\ (k - 1) * Freq \in Int /\ b.cap * Freq \in Int
      /\ Len(b.data) * Freq \in Int /\ 0 * Freq = 0
  BY <1>1, <1>3, Half
<1>6. BufferEnd(b) = b.start + Freq \div 2 + Len(b.data) * Freq
  BY DEF BufferEnd, FirstWrite
<1> DEFINE x == k * Freq
           y == (k - 1) * Freq
           z == Len(b.data) * Freq
           u == b.cap * Freq
           h == Freq \div 2
<1>7. /\ x \in Int /\ y \in Int /\ z \in Int /\ u \in Int /\ h \in Nat
      /\ b.start + y <= b.data[k] /\ b.data[k] < b.start + x
      /\ x <= z /\ x <= u /\ 0 <= y
      /\ BufferEnd(b) = b.start + h + z
  BY <1>2, <1>4, <1>5, <1>6, Half
<1>8. b.data[k] \in Nat
  BY <1>1
<1> DEFINE e == BufferEnd(b)
           v == b.data[k]
           a == b.start
<1>9. a \in Int /\ v \in Nat
  BY <1>3, <1>8
<1> HIDE DEF x, y, z, u, h
<1>10. e = a + h + z /\ a + y <= v /\ v < a + x
  BY <1>7
<1> HIDE DEF e, v, a
<1>11. a <= v /\ v < a + u /\ v < e
  BY <1>7, <1>9, <1>10
<1> QED BY <1>8, <1>11 DEF a, v, e, u

(* newBuffer.                                                              *)
LEMMA NewBufferOK ==
  ASSUME NEW ts \in Nat
  PROVE  /\ BufferOK(NewBuffer(ts)) /\ FirstWrite(NewBuffer(ts)) = ts
         /\ NewBuffer(ts).data = <<ts>>
         /\ NewBuffer(ts).start = ts - Freq \div 2 /\ NewBuffer(ts).cap = Cap
<1> DEFINE d == <<ts>>
           b == NewBuffer(ts)
           z == ts - Freq \div 2
<1>1. b = [start |-> z, cap |-> Cap, data |-> d]
  BY DEF NewBuffer
<1>2. d \in Seq(Nat \cup {NaN}) /\ Len(d) = 1 /\ d[1] = ts
  OBVIOUS
<1>3. z \in Int /\ Cap \in Nat \ {0}
  BY Half, BufferAssumption
<1>4. z + Freq \div 2 = ts /\ z + 0 * Freq <= ts /\ ts < z + 1 * Freq
  BY Half
<1> HIDE DEF d, z, b
<1>5. b.start = z /\ b.cap = Cap /\ b.data = d /\ b \in Buffers
  BY <1>1, <1>2, <1>3 DEF Buffers
<1>6. \A k \in 1..Len(b.data) : k = 1
  <2>1. Len(b.data) = 1
    BY <1>2, <1>5
  <2> DEFINE n == Len(b.data)
  <2>2. n = 1
    BY <2>1
  <2> HIDE DEF n
  <2>3. \A k \in 1..n : k = 1
    BY <2>2
  <2> QED BY <2>3 DEF n
<1>7. FirstWrite(b) = ts
  BY <1>4, <1>5 DEF FirstWrite
<1>8. BufferOK(b)
  <2> DEFINE n == Len(b.data)
             m == b.cap
  <2>0. n = 1 /\ m = Cap
    BY <1>2, <1>5
  <2> HIDE DEF n, m
  <2>3. m <= Cap /\ n \in 1..m
    BY <1>3, <2>0
  <2>1. b.cap <= Cap /\ Len(b.data) \in 1..b.cap
    BY <2>3 DEF n, m
  <2>2. ASSUME NEW k \in 1..Len(b.data)
        PROVE  b.start + (k - 1) * Freq <= b.data[k] /\ b.data[k] < b.start + k * Freq
    <3>1. k = 1 /\ b.start = z /\ b.data[k] = ts /\ (k - 1) = 0
      BY <1>2, <1>5, <1>6
    <3> QED BY <1>4, <3>1
  <2> QED BY <1>5, <2>1, <2>2 DEF BufferOK
<1> QED BY <1>5, <1>7, <1>8 DEF b, d, z

(* The slot write computes is the one the sample belongs to.               *)
LEMMA SlotOfSample ==
  ASSUME NEW b \in Buffers, NEW ts \in Nat, b.start <= ts
  PROVE  /\ Slot(b, ts) \in Nat /\ Slot(b, ts) >= 1
         /\ b.start + (Slot(b, ts) - 1) * Freq <= ts
         /\ ts < b.start + Slot(b, ts) * Freq
<1>1. b.start \in Int
  BY BufferTypes
<1> DEFINE x == ts - b.start
           q == x \div Freq
<1>2. x \in Nat
  BY <1>1
<1>3. q \in Nat /\ q * Freq <= x /\ x < q * Freq + Freq
  BY <1>2, Division
<1>4. Slot(b, ts) = q + 1
  BY DEF Slot
<1> HIDE DEF q
<1>5. (q + 1) * Freq = q * Freq + Freq /\ (q + 1) - 1 = q
  BY <1>3, Half
<1>6. q * Freq \in Int
  BY <1>3, Half
<1> QED BY <1>1, <1>3, <1>4, <1>5, <1>6, Half

(* Overwriting or appending keeps a buffer in order, adds the sample, and  *)
(* loses at most another one of its slot.                                  *)
LEMMA FilledOK ==
  ASSUME NEW b, BufferOK(b), NEW ts \in Nat, b.start <= ts, Slot(b, ts) <= b.cap
  PROVE  LET f == Filled(b, ts)
         IN  /\ BufferOK(f) /\ f.start = b.start /\ f.cap = b.cap
             /\ Slot(b, ts) \in 1..Len(f.data) /\ f.data[Slot(b, ts)] = ts
             /\ \A k \in 1..Len(f.data) :
                  \/ k = Slot(b, ts)
                  \/ k \in 1..Len(b.data) /\ f.data[k] = b.data[k]
                  \/ f.data[k] = NaN
             /\ \A k \in 1..Len(b.data) :
                  k \in 1..Len(f.data) /\ (k # Slot(b, ts) => f.data[k] = b.data[k])
<1> DEFINE s == Slot(b, ts)
           n == IF s <= Len(b.data) THEN Len(b.data) ELSE s
           d == [k \in 1..n |-> IF k = s THEN ts
                                ELSE IF k <= Len(b.data) THEN b.data[k] ELSE NaN]
           f == Filled(b, ts)
<1>1. /\ b \in Buffers /\ b.start \in Int /\ b.cap \in Nat \ {0}
      /\ b.data \in Seq(Nat \cup {NaN}) /\ Len(b.data) \in Nat
      /\ Len(b.data) >= 1 /\ Len(b.data) <= b.cap /\ b.cap <= Cap
  BY BufferTypes DEF BufferOK
<1>2. /\ s \in Nat /\ s >= 1 /\ s <= b.cap
      /\ b.start + (s - 1) * Freq <= ts /\ ts < b.start + s * Freq
  BY <1>1, SlotOfSample
<1>3. f = [b EXCEPT !.data = d]
  BY DEF Filled
<1> HIDE DEF s
<1>4. n \in Nat /\ s \in 1..n /\ n <= b.cap /\ 1..Len(b.data) \subseteq 1..n
      /\ n >= 1
  BY <1>1, <1>2
<1>5. \A k \in 1..Len(b.data) : b.data[k] \in Nat \cup {NaN}
  BY <1>1
<1>6. d \in Seq(Nat \cup {NaN}) /\ Len(d) = n
  <2>1. \A k \in 1..n : d[k] \in Nat \cup {NaN}
    BY <1>1, <1>4, <1>5
  <2>2. d \in [1..n -> Nat \cup {NaN}]
    BY <2>1
  <2> HIDE DEF d
  <2> QED BY <1>4, <2>2
<1>7. f \in Buffers /\ f.start = b.start /\ f.cap = b.cap /\ f.data = d
  <2> HIDE DEF d
  <2> QED BY <1>1, <1>3, <1>6 DEF Buffers
<1>8. \A k \in 1..n : /\ k = s => d[k] = ts
                      /\ k # s /\ k <= Len(b.data) => d[k] = b.data[k]
                      /\ k # s /\ ~(k <= Len(b.data)) => d[k] = NaN
  OBVIOUS
<1> HIDE DEF d, n, f
<1>9. ASSUME NEW k \in 1..Len(f.data), f.data[k] # NaN
      PROVE  f.start + (k - 1) * Freq <= f.data[k] /\ f.data[k] < f.start + k * Freq
  <2>1. k \in 1..n
    BY <1>6, <1>7
  <2>2. CASE k = s
    BY <1>2, <1>7, <1>8, <2>1, <2>2
  <2>3. CASE k # s /\ k <= Len(b.data)
    <3>1. k \in 1..Len(b.data) /\ b.data[k] = f.data[k]
      BY <1>1, <1>4, <1>7, <1>8, <2>1, <2>3
    <3> QED BY <1>7, <1>9, <3>1 DEF BufferOK
  <2>4. CASE k # s /\ ~(k <= Len(b.data))
    BY <1>7, <1>8, <1>9, <2>1, <2>4
  <2> QED BY <2>2, <2>3, <2>4
<1>10. BufferOK(f)
  BY <1>1, <1>4, <1>6, <1>7, <1>9 DEF BufferOK
<1>11. \A k \in 1..Len(f.data) :
         \/ k = s
         \/ k \in 1..Len(b.data) /\ f.data[k] = b.data[k]
         \/ f.data[k] = NaN
  BY <1>1, <1>4, <1>6, <1>7, <1>8
<1>12. \A k \in 1..Len(b.data) :
         k \in 1..Len(f.data) /\ (k # s => f.data[k] = b.data[k])
  <2>1. SUFFICES ASSUME NEW k \in 1..Len(b.data)
                 PROVE  k \in 1..Len(f.data) /\ (k # s => f.data[k] = b.data[k])
    OBVIOUS
  <2>2. k \in 1..n /\ k <= Len(b.data) /\ Len(f.data) = n
    BY ONLY <1>1, <1>4, <1>6, <1>7, <2>1
  <2>3. k # s => d[k] = b.data[k]
    BY ONLY <1>8, <2>2
  <2> QED BY ONLY <1>7, <2>2, <2>3
<1>13. s \in 1..Len(f.data) /\ f.data[s] = ts
  BY <1>4, <1>6, <1>7, <1>8
<1> QED BY <1>7, <1>10, <1>11, <1>12, <1>13 DEF f, s
-----------------------------------------------------------------------------
LEMMA HeldMeans ==
  ASSUME NEW c, NEW s
  PROVE  s \in Held(c) <=>
           /\ s # NaN
           /\ \E i \in 1..Len(c) : \E k \in 1..Len(c[i].data) : s = c[i].data[k]
BY DEF Held

(* A buffer's room is an integer, and one slot at least.                   *)
LEMMA Room ==
  ASSUME NEW b, BufferOK(b)
  PROVE  b.start \in Int /\ b.cap * Freq \in Int /\ FirstWrite(b) \in Int
         /\ FirstWrite(b) < b.start + b.cap * Freq /\ b.start <= FirstWrite(b)
<1>1. b.start \in Int /\ b.cap \in Int /\ 1 <= b.cap /\ FirstWrite(b) \in Int
  BY BufferTypes DEF BufferOK
<1>2. 1 * Freq <= b.cap * Freq /\ b.cap * Freq \in Int /\ 1 * Freq = Freq
  BY <1>1, Multiples, Half
<1>3. FirstWrite(b) = b.start + Freq \div 2
  BY DEF FirstWrite
<1> QED BY <1>1, <1>2, <1>3, Half

(* A sample behind all slots begins a buffer.                              *)
LEMMA AppendedOK ==
  ASSUME NEW c, ChainOK(c), NEW ts \in Nat,
         \A i \in 1..Len(c) : c[i].start + c[i].cap * Freq <= ts
  PROVE  LET w == Append(c, NewBuffer(ts))
         IN  ChainOK(w) /\ Held(w) = Held(c) \cup {ts} /\ w # <<>>
<1> DEFINE b == NewBuffer(ts)
           n == Len(c)
           w == Append(c, b)
<1>1. BufferOK(b) /\ FirstWrite(b) = ts /\ b.data = <<ts>> /\ b \in Buffers
  BY NewBufferOK DEF BufferOK
<1>2. c \in Seq(Buffers)
  BY DEF ChainOK
<1> HIDE DEF b
<1>3. /\ w \in Seq(Buffers) /\ n \in Nat /\ Len(w) = n + 1 /\ w[n + 1] = b
      /\ \A i \in 1..n : w[i] = c[i]
  BY <1>1, <1>2
<1>4. \A i \in 1..Len(w) : i \in 1..n \/ i = n + 1
  BY <1>3
<1> HIDE DEF w
<1>5. \A i \in 1..Len(w) : BufferOK(w[i])
  BY <1>1, <1>3, <1>4 DEF ChainOK
<1>6. ASSUME NEW i \in 1..Len(w), NEW j \in 1..Len(w), i < j
      PROVE  w[i].start + w[i].cap * Freq <= FirstWrite(w[j])
  <2>1. i \in 1..n
    BY <1>3, <1>6
  <2>2. CASE j \in 1..n
    BY <1>3, <1>6, <2>1, <2>2 DEF ChainOK
  <2>3. CASE j = n + 1
    BY <1>1, <1>3, <2>1, <2>3
  <2> QED BY <1>4, <2>2, <2>3
<1>7. ChainOK(w)
  BY <1>3, <1>5, <1>6 DEF ChainOK
<1>8. ASSUME NEW s PROVE s \in Held(w) <=> s \in Held(c) \cup {ts}
  <2>1. ts # NaN /\ Len(b.data) = 1 /\ b.data[1] = ts
    BY <1>1 DEF NaN
  <2>2. ASSUME s \in Held(w) PROVE s \in Held(c) \cup {ts}
    <3>0. PICK i \in 1..Len(w) : \E k \in 1..Len(w[i].data) : s = w[i].data[k]
      BY <2>2, HeldMeans
    <3>1. PICK k \in 1..Len(w[i].data) : s = w[i].data[k]
      BY <3>0
    <3>2. s # NaN
      BY <2>2, HeldMeans
    <3>3. CASE i \in 1..n
      <4>1. w[i] = c[i]
        BY <1>3, <3>3
      <4>2. i \in 1..Len(c) /\ k \in 1..Len(c[i].data) /\ s = c[i].data[k]
        BY <3>1, <3>3, <4>1
      <4> QED BY <3>2, <4>2, HeldMeans
    <3>4. CASE i = n + 1
      <4>1. w[i] = b
        BY <1>3, <3>4
      <4>2. 1..Len(w[i].data) = 1..1
        BY <2>1, <4>1
      <4>3. k = 1
        <5>1. k \in 1..1
          BY <4>2
        <5> QED BY <5>1
      <4> QED BY <2>1, <3>1, <4>1, <4>3
    <3> QED BY <1>4, <3>3, <3>4
  <2>3. ASSUME s \in Held(c) PROVE s \in Held(w)
    <3>0. PICK i \in 1..n : \E k \in 1..Len(c[i].data) : s = c[i].data[k]
      BY <2>3, HeldMeans
    <3>1. PICK k \in 1..Len(c[i].data) : s = c[i].data[k]
      BY <3>0
    <3>2. i \in 1..Len(w) /\ w[i] = c[i] /\ s # NaN
      BY <1>3, <2>3, HeldMeans
    <3>3. k \in 1..Len(w[i].data) /\ s = w[i].data[k]
      BY <3>1, <3>2
    <3> QED BY <3>2, <3>3, HeldMeans
  <2>4. ts \in Held(w)
    <3>1. n + 1 \in 1..Len(w) /\ w[n + 1] = b
      BY <1>3
    <3>2. 1 \in 1..Len(w[n + 1].data) /\ ts = w[n + 1].data[1]
      BY <2>1, <3>1
    <3> QED BY <2>1, <3>1, <3>2, HeldMeans
  <2> QED BY <2>2, <2>3, <2>4
<1>9. w # <<>>
  BY <1>3
<1> QED BY <1>7, <1>8, <1>9 DEF w, b

(* A sample within the head's room replaces one of its slot at most.       *)
LEMMA FilledChainOK ==
  ASSUME NEW c, ChainOK(c), c # <<>>, NEW ts \in Nat,
         HeadOf(c).start <= ts, Slot(HeadOf(c), ts) <= HeadOf(c).cap
  PROVE  LET w == [c EXCEPT ![Len(c)] = Filled(@, ts)]
         IN  /\ ChainOK(w) /\ w # <<>>
             /\ ts \in Held(w) /\ Held(w) \subseteq Held(c) \cup {ts}
             /\ \A q \in Held(c) \ Held(w) : q - ts < Freq /\ ts - q < Freq
<1> DEFINE n == Len(c)
           b == c[n]
           f == Filled(b, ts)
           w == [c EXCEPT ![n] = f]
           p == Slot(b, ts)
<1>1. c \in Seq(Buffers) /\ n \in Nat /\ n >= 1 /\ n \in 1..n
  BY DEF ChainOK
<1>2. BufferOK(b) /\ b.start <= ts /\ p <= b.cap /\ b \in Buffers
  BY <1>1 DEF ChainOK, HeadOf, BufferOK
<1>3. /\ BufferOK(f) /\ f.start = b.start /\ f.cap = b.cap
      /\ p \in 1..Len(f.data) /\ f.data[p] = ts
      /\ \A k \in 1..Len(f.data) :
           \/ k = p
           \/ k \in 1..Len(b.data) /\ f.data[k] = b.data[k]
           \/ f.data[k] = NaN
      /\ \A k \in 1..Len(b.data) :
           k \in 1..Len(f.data) /\ (k # p => f.data[k] = b.data[k])
  BY <1>2, FilledOK
<1>4. /\ p \in Nat /\ b.start + (p - 1) * Freq <= ts /\ ts < b.start + p * Freq
  BY <1>2, SlotOfSample
<1>5. f \in Buffers
  BY <1>3 DEF BufferOK
<1> HIDE DEF f, p
<1>6. /\ w \in Seq(Buffers) /\ Len(w) = n /\ w[n] = f
      /\ \A i \in 1..n : i # n => w[i] = c[i]
  BY <1>1, <1>5
<1> HIDE DEF w
<1>7. \A i \in 1..n : w[i].start = c[i].start /\ w[i].cap = c[i].cap
                        /\ FirstWrite(w[i]) = FirstWrite(c[i])
  BY <1>3, <1>6 DEF FirstWrite
<1>8. \A i \in 1..n : BufferOK(w[i])
  BY <1>3, <1>6 DEF ChainOK
<1>9. ChainOK(w)
  BY <1>6, <1>7, <1>8 DEF ChainOK
<1>10. ts # NaN
  BY DEF NaN
<1>11. ts \in Held(w)
  <2>1. n \in 1..Len(w) /\ p \in 1..Len(w[n].data) /\ ts = w[n].data[p]
    BY <1>1, <1>3, <1>6
  <2> QED BY <1>10, <2>1, HeldMeans
<1>12. ASSUME NEW s \in Held(w) PROVE s \in Held(c) \cup {ts}
  <2>0. PICK i \in 1..Len(w) : \E k \in 1..Len(w[i].data) : s = w[i].data[k]
    BY HeldMeans
  <2>1. PICK k \in 1..Len(w[i].data) : s = w[i].data[k]
    BY <2>0
  <2>2. s # NaN /\ i \in 1..n
    BY <1>6, HeldMeans
  <2>3. CASE i # n
    <3>1. i \in 1..Len(c) /\ k \in 1..Len(c[i].data) /\ s = c[i].data[k]
      BY <1>6, <2>1, <2>2, <2>3
    <3> QED BY <2>2, <3>1, HeldMeans
  <2>4. CASE i = n
    <3>1. k \in 1..Len(f.data) /\ s = f.data[k]
      BY <1>6, <2>1, <2>4
    <3>2. s = ts \/ (k \in 1..Len(c[n].data) /\ s = c[n].data[k])
      BY <1>3, <2>2, <3>1
    <3> QED BY <1>1, <2>2, <3>2, HeldMeans
  <2> QED BY <2>3, <2>4
<1>13. ASSUME NEW q \in Held(c), q \notin Held(w)
       PROVE  q - ts < Freq /\ ts - q < Freq
  <2>0. PICK i \in 1..n : \E k \in 1..Len(c[i].data) : q = c[i].data[k]
    BY HeldMeans
  <2>1. PICK k \in 1..Len(c[i].data) : q = c[i].data[k]
    BY <2>0
  <2>2. q # NaN
    BY HeldMeans
  <2>3. i = n
    <3>1. SUFFICES ASSUME i # n PROVE FALSE
      OBVIOUS
    <3>2. i \in 1..Len(w) /\ k \in 1..Len(w[i].data) /\ q = w[i].data[k]
      BY <1>6, <2>1, <3>1
    <3> QED BY <1>13, <2>2, <3>2, HeldMeans
  <2>4. k = p
    <3>1. SUFFICES ASSUME k # p PROVE FALSE
      OBVIOUS
    <3>2. k \in 1..Len(w[n].data) /\ q = w[n].data[k]
      BY <1>3, <1>6, <2>1, <2>3, <3>1
    <3>3. n \in 1..Len(w)
      BY <1>1, <1>6
    <3> QED BY <1>13, <2>2, <3>2, <3>3, HeldMeans
  <2>5. b.start + (p - 1) * Freq <= q /\ q < b.start + p * Freq
    <3>1. k \in 1..Len(b.data) /\ b.data[k] = q
      BY <2>1, <2>3
    <3>2. b.start + (k - 1) * Freq <= b.data[k] /\ b.data[k] < b.start + k * Freq
      BY <1>2, <2>2, <3>1 DEF BufferOK
    <3> QED BY <2>4, <3>1, <3>2
  <2>6. q \in Int
    <3>1. k \in 1..Len(b.data) /\ b.data[k] = q
      BY <2>1, <2>3
    <3> QED BY <1>2, <2>2, <3>1, SampleInBuffer
  <2>7. b.start \in Int
    BY <1>2, BufferTypes
  <2> DEFINE y == (p - 1) * Freq
             z == p * Freq
  <2>8. z = y + Freq /\ y \in Int /\ z \in Int
    BY <1>4, Half
  <2>9. b.start + y <= q /\ q < b.start + z /\ b.start + y <= ts /\ ts < b.start + z
    BY <1>4, <2>5
  <2> HIDE DEF y, z
  <2> QED BY <2>6, <2>7, <2>8, <2>9, Half
<1>14. w # <<>>
  BY <1>1, <1>6
<1> QED BY <1>9, <1>11, <1>12, <1>13, <1>14 DEF w, f

(* write puts the sample into the chain, loses none but of the same slot,  *)
(* and leaves the chain in order.                                          *)
LEMMA WrittenOK ==
  ASSUME NEW c, ChainOK(c), NEW ts \in Nat, ~Refused(c, ts)
  PROVE  LET w == Written(c, ts)
         IN  /\ ChainOK(w) /\ w # <<>>
             /\ ts \in Held(w) /\ Held(w) \subseteq Held(c) \cup {ts}
             /\ \A q \in Held(c) \ Held(w) : q - ts < Freq /\ ts - q < Freq
<1> DEFINE n == Len(c)
           h == HeadOf(c)
           w == Written(c, ts)
<1>0. c \in Seq(Buffers) /\ n \in Nat
  BY DEF ChainOK
<1>1. CASE c = <<>>
  <2>1. w = Append(c, NewBuffer(ts))
    BY <1>1 DEF Written
  <2>2. \A i \in 1..Len(c) : c[i].start + c[i].cap * Freq <= ts
    BY <1>1
  <2> QED BY <2>1, <2>2, AppendedOK
<1>2. CASE c # <<>> /\ Slot(h, ts) > h.cap
  <2>1. w = Append(c, NewBuffer(ts))
    BY <1>2 DEF Written
  <2>2. n \in 1..n /\ h = c[n]
    BY <1>0, <1>2 DEF HeadOf
  <2>3. BufferOK(h) /\ h \in Buffers
    BY <2>2 DEF ChainOK, BufferOK
  <2>4. h.start \in Int /\ h.cap \in Int /\ ts >= h.start
    BY <1>2, <2>3, BufferTypes DEF Refused
  <2>5. Slot(h, ts) \in Nat /\ h.start + (Slot(h, ts) - 1) * Freq <= ts
    BY <2>3, <2>4, SlotOfSample
  <2>6. h.cap * Freq <= (Slot(h, ts) - 1) * Freq
    BY <1>2, <2>4, <2>5, Multiples
  <2>7. h.cap * Freq \in Int /\ (Slot(h, ts) - 1) * Freq \in Int
    BY <2>4, <2>5, Half
  <2>8. h.start + h.cap * Freq <= ts
    <3> DEFINE x == h.cap * Freq
               y == (Slot(h, ts) - 1) * Freq
    <3>1. x \in Int /\ y \in Int /\ x <= y /\ h.start + y <= ts
      BY <2>5, <2>6, <2>7
    <3> HIDE DEF x, y
    <3>2. h.start + x <= ts
      BY <2>4, <3>1
    <3> QED BY <3>2 DEF x
  <2>9. ASSUME NEW i \in 1..n PROVE c[i].start + c[i].cap * Freq <= ts
    <3>1. CASE i = n
      BY <2>2, <2>8, <3>1
    <3>2. CASE i < n
      <4>1. c[i].start + c[i].cap * Freq <= FirstWrite(h)
        BY <2>2, <3>2 DEF ChainOK
      <4>2. BufferOK(c[i])
        BY DEF ChainOK
      <4>3. c[i].start \in Int /\ c[i].cap * Freq \in Int
        BY <4>2, Room
      <4>4. FirstWrite(h) \in Int /\ FirstWrite(h) < h.start + h.cap * Freq
        BY <2>3, Room
      <4> QED BY <2>4, <2>7, <2>8, <4>1, <4>3, <4>4
    <3> QED BY <1>0, <3>1, <3>2
  <2> QED BY <2>1, <2>9, AppendedOK
<1>3. CASE c # <<>> /\ ~(Slot(h, ts) > h.cap)
  <2>1. w = [c EXCEPT ![Len(c)] = Filled(@, ts)]
    BY <1>3 DEF Written
  <2>2. n \in 1..n /\ h = c[n]
    BY <1>0, <1>3 DEF HeadOf
  <2>3. h \in Buffers
    BY <2>2 DEF ChainOK, BufferOK
  <2>4. h.start \in Int /\ h.cap \in Int /\ ts >= h.start
    BY <1>3, <2>3, BufferTypes DEF Refused
  <2>5. Slot(h, ts) \in Nat
    BY <2>3, <2>4, SlotOfSample
  <2>6. Slot(h, ts) <= h.cap
    BY <1>3, <2>4, <2>5
  <2> QED BY <1>3, <2>1, <2>4, <2>6, FilledChainOK
<1> QED BY <1>1, <1>2, <1>3
-----------------------------------------------------------------------------
(* A chain whose first m buffers are gone is in order and has the others'  *)
(* samples.                                                                *)
IsCut(c, m, w) ==
  /\ ChainOK(c) /\ m \in Nat /\ m <= Len(c)
  /\ w \in Seq(Buffers) /\ Len(w) = Len(c) - m
  /\ \A i \in 1..Len(w) : w[i] = c[i + m]

LEMMA CutChainOK ==
  ASSUME NEW c, NEW m, NEW w, IsCut(c, m, w)
  PROVE  /\ ChainOK(w) /\ Held(w) \subseteq Held(c)
         /\ \A s \in Held(w) :
              \E i \in 1..Len(c) : i > m /\ s \in {c[i].data[k] : k \in 1..Len(c[i].data)}
         /\ \A s \in Held(c) \ Held(w) :
              \E i \in 1..Len(c) : i <= m /\ s \in {c[i].data[k] : k \in 1..Len(c[i].data)}
<1>0. /\ ChainOK(c) /\ m \in Nat /\ m <= Len(c)
      /\ w \in Seq(Buffers) /\ Len(w) = Len(c) - m
      /\ \A i \in 1..Len(w) : w[i] = c[i + m]
  BY DEF IsCut
<1>1. c \in Seq(Buffers) /\ Len(c) \in Nat /\ Len(w) \in Nat
  BY <1>0 DEF ChainOK
<1>2. \A i \in 1..Len(w) : i + m \in 1..Len(c) /\ i + m > m
  BY <1>0, <1>1
<1>3. ChainOK(w)
  <2>1. \A i \in 1..Len(w) : BufferOK(w[i])
    BY <1>0, <1>2 DEF ChainOK
  <2>2. ASSUME NEW i \in 1..Len(w), NEW j \in 1..Len(w), i < j
        PROVE  w[i].start + w[i].cap * Freq <= FirstWrite(w[j])
    <3>1. w[i] = c[i + m] /\ w[j] = c[j + m]
      BY <1>0
    <3>2. i + m \in 1..Len(c) /\ j + m \in 1..Len(c) /\ i + m < j + m
      BY <1>0, <1>2, <2>2
    <3>3. c[i + m].start + c[i + m].cap * Freq <= FirstWrite(c[j + m])
      BY <1>0, <3>2 DEF ChainOK
    <3> QED BY <3>1, <3>3
  <2> QED BY <1>0, <2>1, <2>2 DEF ChainOK
<1>4. ASSUME NEW s \in Held(w)
      PROVE  /\ s \in Held(c)
             /\ \E i \in 1..Len(c) :
                  i > m /\ s \in {c[i].data[k] : k \in 1..Len(c[i].data)}
  <2>0. s \in Held(w)
    OBVIOUS
  <2>1. PICK i \in 1..Len(w) : \E k \in 1..Len(w[i].data) : s = w[i].data[k]
    BY <2>0, HeldMeans
  <2>2. s # NaN
    BY HeldMeans
  <2>3. i + m \in 1..Len(c) /\ i + m > m /\ w[i] = c[i + m]
    BY <1>0, <1>2
  <2>4. \E k \in 1..Len(c[i + m].data) : s = c[i + m].data[k]
    BY <2>1, <2>3
  <2>5. s \in Held(c)
    BY <2>2, <2>3, <2>4, HeldMeans
  <2> QED BY <2>3, <2>4, <2>5
<1>5. ASSUME NEW s \in Held(c), s \notin Held(w)
      PROVE  \E i \in 1..Len(c) :
               i <= m /\ s \in {c[i].data[k] : k \in 1..Len(c[i].data)}
  <2>1. PICK i \in 1..Len(c) : \E k \in 1..Len(c[i].data) : s = c[i].data[k]
    BY HeldMeans
  <2>2. s # NaN
    BY HeldMeans
  <2>3. i <= m
    <3>1. SUFFICES ASSUME ~(i <= m) PROVE FALSE
      OBVIOUS
    <3>2. i - m \in 1..Len(w) /\ (i - m) + m = i
      BY <1>0, <1>1, <3>1
    <3>3. w[i - m] = c[i]
      BY <1>0, <3>2
    <3>4. \E k \in 1..Len(w[i - m].data) : s = w[i - m].data[k]
      BY <2>1, <3>3
    <3> QED BY <1>5, <2>2, <3>2, <3>4, HeldMeans
  <2> QED BY <2>1, <2>3
<1> QED BY <1>3, <1>4, <1>5

(* free loses samples before t only, keeps none that is older by a buffer  *)
(* and a slot, and leaves the chain in order.                              *)
LEMMA FreedOK ==
  ASSUME NEW c, ChainOK(c), NEW t \in Int
  PROVE  LET w == Freed(c, t)
         IN  /\ ChainOK(w) /\ Held(w) \subseteq Held(c)
             /\ \A s \in Held(c) \ Held(w) : s < t
             /\ \A s \in Held(w) : s + (Cap + 1) * Freq > t
<1> DEFINE n == Len(c)
           w == Freed(c, t)
           e == Ended(c, t)
<1>1. c \in Seq(Buffers) /\ n \in Nat /\ \A i \in 1..n : BufferOK(c[i]) /\ c[i] \in Buffers
  BY DEF ChainOK, BufferOK
<1>2. \E m \in Nat :
        /\ m <= n /\ w \in Seq(Buffers) /\ Len(w) = n - m
        /\ \A i \in 1..Len(w) : w[i] = c[i + m]
        /\ m = 0 \/ (m \in 1..n /\ BufferEnd(c[m]) < t)
        /\ \A i \in 1..n : i > m => ~(BufferEnd(c[i]) < t)
  <2>1. CASE e = {}
    <3>1. w = c
      BY <2>1 DEF Freed
    <3>2. \A i \in 1..n : ~(BufferEnd(c[i]) < t)
      BY <2>1 DEF Ended
    <3>3. \A i \in 1..n : w[i] = c[i + 0]
      BY <1>1, <3>1
    <3>4. Len(w) = n - 0 /\ 0 <= n
      BY <1>1, <3>1
    <3> QED BY <1>1, <3>1, <3>2, <3>3, <3>4
  <2>2. CASE e # {}
    <3> DEFINE m == Max(e)
    <3>1. e \in SUBSET (1..n)
      BY DEF Ended
    <3>2. m \in e /\ \A y \in e : m >= y
      BY <1>1, <2>2, <3>1, MaxIsLargest
    <3>3. w = SubSeq(c, m + 1, n)
      BY <2>2 DEF Freed
    <3> HIDE DEF m
    <3>4. m \in 1..n /\ BufferEnd(c[m]) < t
      BY <3>2 DEF Ended
    <3>5. \A i \in 1..n : i > m => ~(BufferEnd(c[i]) < t)
      <4>1. SUFFICES ASSUME NEW i \in 1..n, i > m, BufferEnd(c[i]) < t
                     PROVE  FALSE
        OBVIOUS
      <4>2. i \in e
        BY <4>1 DEF Ended
      <4>3. m >= i /\ m \in Nat /\ i \in Nat
        BY <3>2, <3>4, <4>2
      <4> QED BY <4>1, <4>3
    <3>6. /\ w \in Seq(Buffers) /\ Len(w) = n - m
          /\ \A i \in 1..(n - m) : w[i] = c[i + m]
      <4>1. /\ n - m \in Nat /\ m + 1 \in 1..(n + 1) /\ n - (m + 1) + 1 = n - m
            /\ m \in Nat /\ m <= n
        BY <1>1, <3>4
      <4>2. \A i \in 1..(n - m) : (m + 1) + i - 1 = i + m /\ (m + 1) + i - 1 \in 1..n
        BY <1>1, <3>4
      <4>3. Len(w) = n - m /\ \A i \in 1..(n - m) : w[i] = c[(m + 1) + i - 1]
        <5>1. \A i \in (m + 1)..n : c[i] \in Buffers
          BY <1>1, <4>1
        <5>2. m + 1 \in Int /\ n \in Int
          BY <4>1
        <5>3. /\ Len(w) = IF m + 1 <= n THEN n - (m + 1) + 1 ELSE 0
              /\ \A i \in 1..(n - (m + 1) + 1) : w[i] = c[(m + 1) + i - 1]
          BY <3>3, <5>1, <5>2, SubSeqProperties
        <5> HIDE DEF w
        <5>4. Len(w) = n - m
          <6>0. m \in Nat /\ n \in Nat /\ m <= n
            BY <1>1, <4>1
          <6> HIDE DEF n
          <6>1. CASE m = n
            <7>1. ~(m + 1 <= n) /\ n - m = 0
              BY <6>0, <6>1
            <7> QED BY <5>3, <7>1
          <6>2. CASE m < n
            <7>1. m + 1 <= n /\ n - (m + 1) + 1 = n - m
              BY <6>0, <6>2
            <7> QED BY <5>3, <7>1
          <6> QED BY <6>0, <6>1, <6>2
        <5> QED BY <4>1, <5>3, <5>4
      <4>4. \A i \in 1..(n - m) : w[i] = c[i + m]
        BY <4>2, <4>3
      <4>5. w \in Seq(Buffers)
        BY <1>1, <3>3, <4>1
      <4> QED BY <4>3, <4>4, <4>5
    <3>7. m \in Nat /\ m <= n
      BY <1>1, <3>4
    <3> HIDE DEF w
    <3>8. \A i \in 1..Len(w) : w[i] = c[i + m]
      BY <3>6
    <3> QED BY <3>4, <3>5, <3>6, <3>7, <3>8
  <2> QED BY <2>1, <2>2
<1>3. PICK m \in Nat :
        /\ m <= n /\ w \in Seq(Buffers) /\ Len(w) = n - m
        /\ \A i \in 1..Len(w) : w[i] = c[i + m]
        /\ m = 0 \/ (m \in 1..n /\ BufferEnd(c[m]) < t)
        /\ \A i \in 1..n : i > m => ~(BufferEnd(c[i]) < t)
  BY <1>2
<1> HIDE DEF w
<1>4. /\ ChainOK(w) /\ Held(w) \subseteq Held(c)
      /\ \A s \in Held(w) :
           \E i \in 1..n : i > m /\ s \in {c[i].data[k] : k \in 1..Len(c[i].data)}
      /\ \A s \in Held(c) \ Held(w) :
           \E i \in 1..n : i <= m /\ s \in {c[i].data[k] : k \in 1..Len(c[i].data)}
  <2>1. IsCut(c, m, w)
    BY <1>3 DEF IsCut
  <2> QED BY <2>1, CutChainOK
<1>5. ASSUME NEW s \in Held(c), s \notin Held(w) PROVE s < t
  <2>1. PICK i \in 1..n : i <= m /\ s \in {c[i].data[k] : k \in 1..Len(c[i].data)}
    BY <1>4, <1>5
  <2>2. PICK k \in 1..Len(c[i].data) : s = c[i].data[k]
    BY <2>1
  <2>3. s # NaN
    BY HeldMeans
  <2>4. s \in Nat /\ s < BufferEnd(c[i]) /\ s < c[i].start + c[i].cap * Freq
    BY <1>1, <2>2, <2>3, SampleInBuffer
  <2>5. m \in 1..n /\ BufferEnd(c[m]) < t
    BY <1>1, <1>3, <2>1
  <2>6. BufferEnd(c[i]) \in Int /\ BufferEnd(c[m]) \in Int
        /\ FirstWrite(c[m]) \in Int /\ Len(c[m].data) \in Nat
    BY <1>1, <2>5, BufferTypes
  <2>7. CASE i = m
    BY <2>4, <2>5, <2>6, <2>7
  <2>8. CASE i < m
    <3>1. c[i].start + c[i].cap * Freq <= FirstWrite(c[m])
      BY <2>5, <2>8 DEF ChainOK
    <3>2. c[i].start \in Int /\ c[i].cap * Freq \in Int
      BY <1>1, Room
    <3>3. 0 * Freq <= Len(c[m].data) * Freq /\ 0 * Freq = 0
          /\ Len(c[m].data) * Freq \in Int
      BY <2>6, Multiples, Half
    <3>4. BufferEnd(c[m]) = FirstWrite(c[m]) + Len(c[m].data) * Freq
      BY DEF BufferEnd
    <3> DEFINE x == Len(c[m].data) * Freq
               y == c[i].cap * Freq
    <3>5. x \in Int /\ 0 <= x /\ BufferEnd(c[m]) = FirstWrite(c[m]) + x
          /\ y \in Int /\ c[i].start + y <= FirstWrite(c[m]) /\ s < c[i].start + y
      BY <2>4, <3>1, <3>2, <3>3, <3>4
    <3> HIDE DEF x, y
    <3> QED BY <2>4, <2>5, <2>6, <3>2, <3>5
  <2> QED BY <2>1, <2>7, <2>8
<1>6. ASSUME NEW s \in Held(w) PROVE s + (Cap + 1) * Freq > t
  <2>1. PICK i \in 1..n : i > m /\ s \in {c[i].data[k] : k \in 1..Len(c[i].data)}
    BY <1>4
  <2>2. PICK k \in 1..Len(c[i].data) : s = c[i].data[k]
    BY <2>1
  <2>3. s # NaN
    BY HeldMeans
  <2>4. s \in Nat /\ c[i].start <= s
    BY <1>1, <2>2, <2>3, SampleInBuffer
  <2>5. ~(BufferEnd(c[i]) < t)
    BY <1>3, <2>1
  <2>6. /\ c[i].start \in Int /\ Len(c[i].data) \in Int /\ BufferEnd(c[i]) \in Int
        /\ Len(c[i].data) <= Cap /\ Cap \in Int
    <3>1. BufferOK(c[i]) /\ c[i] \in Buffers
      BY <1>1
    <3>2. Len(c[i].data) <= c[i].cap /\ c[i].cap <= Cap /\ c[i].cap \in Int
          /\ Cap \in Int /\ Len(c[i].data) \in Int
      BY <3>1, BufferTypes, BufferAssumption DEF BufferOK
    <3>3. Len(c[i].data) <= Cap
      BY <3>2
    <3> QED BY <3>1, <3>2, <3>3, BufferTypes
  <2> DEFINE x == Len(c[i].data) * Freq
             y == Cap * Freq
             z == (Cap + 1) * Freq
             h == Freq \div 2
             g == BufferEnd(c[i])
             a == c[i].start
  <2>7. /\ x \in Int /\ y \in Int /\ z \in Int /\ h \in Nat /\ h < Freq /\ Freq \in Nat
        /\ x <= y /\ z = y + Freq
    <3>1. x <= y /\ x \in Int /\ y \in Int
      BY <2>6, Multiples, Half
    <3>2. z = y + Freq /\ z \in Int
      BY <2>6, Half
    <3> QED BY <3>1, <3>2, Half
  <2>8. g = a + h + x
    BY DEF BufferEnd, FirstWrite
  <2>9. a \in Int /\ g \in Int /\ ~(g < t) /\ a <= s
    BY <2>4, <2>5, <2>6
  <2> HIDE DEF x, y, z, h, g, a
  <2>10. s + z > t
    BY <2>4, <2>7, <2>8, <2>9
  <2> QED BY <2>10 DEF z
<1> QED BY <1>4, <1>5, <1>6 DEF w
=============================================================================
