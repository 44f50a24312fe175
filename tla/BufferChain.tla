---------------------------- MODULE BufferChain -----------------------------
(***************************************************************************)
(* The chain of buffers that holds one metric of one level                 *)
(* (pkg/metricstore/buffer.go), as operators on sequences of buffers from  *)
(* the oldest to the head: prev is the element before, next the one after. *)
(* A buffer is [start, cap, data]; its slot k holds the sample of a time   *)
(* from start + (k - 1) * Freq on.  A sample's value is its own timestamp, *)
(* so that a value says where it belongs.  Pooling and the flags that only *)
(* checkpoints read are left out.                                          *)
(***************************************************************************)
EXTENDS Integers, Sequences, FiniteSetsExt

CONSTANTS
  Freq,  \* seconds between two samples of the metric
  Cap    \* BufferCap

ASSUME BufferAssumption == Freq \in Nat \ {0} /\ Cap \in Nat \ {0}

NaN == -1

Buffers == [start : Int, cap : Nat \ {0}, data : Seq(Nat \cup {NaN})]

FirstWrite(b) == b.start + Freq \div 2
BufferEnd(b)  == FirstWrite(b) + Len(b.data) * Freq

HeadOf(c) == c[Len(c)]

(* The samples a chain holds.                                              *)
Held(c) ==
  (UNION {{c[i].data[k] : k \in 1..Len(c[i].data)} : i \in 1..Len(c)}) \ {NaN}
-----------------------------------------------------------------------------
(* write.                                                                  *)

(* newBuffer, with the first sample in it: its slot is centred on ts.      *)
NewBuffer(ts) == [start |-> ts - Freq \div 2, cap |-> Cap, data |-> <<ts>>]

(* The slot of a sample that is not older than the buffer.                 *)
Slot(b, ts) == (ts - b.start) \div Freq + 1

(* A sample older than the head is refused.                                *)
Refused(c, ts) == c # <<>> /\ ts < HeadOf(c).start

(* Overwrite a slot, or append it after as many NaN as it takes.           *)
Filled(b, ts) ==
  [b EXCEPT !.data =
     [k \in 1..(IF Slot(b, ts) <= Len(@) THEN Len(@) ELSE Slot(b, ts)) |->
        IF k = Slot(b, ts) THEN ts ELSE IF k <= Len(@) THEN @[k] ELSE NaN]]

(* The chain after a sample that is not refused; the first write to a nil  *)
(* metric and one beyond the head's capacity begin a buffer.               *)
Written(c, ts) ==
  IF c = <<>> \/ Slot(HeadOf(c), ts) > HeadOf(c).cap
  THEN Append(c, NewBuffer(ts))
  ELSE [c EXCEPT ![Len(c)] = Filled(@, ts)]
-----------------------------------------------------------------------------
(* Mutant of Ended: the age of a buffer is that of its first sample.       *)
EndedFirst(c, t) == {i \in 1..Len(c) : FirstWrite(c[i]) < t}

(* free: a buffer that ends before t takes everything before it along; if  *)
(* it is the head, the metric is nil again.                                *)
Ended(c, t) == {i \in 1..Len(c) : BufferEnd(c[i]) < t}

Freed(c, t) ==
  IF Ended(c, t) = {} THEN c ELSE SubSeq(c, Max(Ended(c, t)) + 1, Len(c))
-----------------------------------------------------------------------------
(* read.                                                                   *)

(* Go's integer division truncates.                                        *)
Index(b, t) ==
  IF t >= b.start THEN (t - b.start) \div Freq ELSE -((b.start - t) \div Freq)

(* Back to the buffer where from lies; before all buffers, from is raised. *)
Before(c, from)    == {i \in 1..Len(c) : FirstWrite(c[i]) <= from}
FirstOf(c, from)   == IF Before(c, from) = {} THEN 1 ELSE Max(Before(c, from))
ActualFrom(c, from) ==
  IF Before(c, from) = {} THEN FirstWrite(c[1]) ELSE from

(* Mutant of Forward: a full buffer is the last one.                       *)
ForwardNot(c, i, t) == i

(* One step in time moves on by one buffer at most.                        *)
Forward(c, i, t) ==
  IF Index(c[i], t) >= c[i].cap /\ i < Len(c) THEN i + 1 ELSE i

(* The buffer read is in when it looks for the n-th value.                 *)
Walk(c, from) ==
  LET at[n \in Nat] ==
        Forward(c, IF n = 0 THEN FirstOf(c, from) ELSE at[n - 1],
                ActualFrom(c, from) + n * Freq)
  IN  at

(* Has buffer b no slot for t yet?                                         *)
Unwritten(b, t) == Index(b, t) >= Len(b.data)

(* In buffer i at time t: nothing more will come before to.                *)
Stops(c, i, t, to) ==
  \/ t >= to
  \/ Unwritten(c[i], t) /\ (i = Len(c) \/ to <= c[i + 1].start)

Value(b, t) ==
  IF Unwritten(b, t) \/ t < b.start THEN NaN ELSE b.data[Index(b, t) + 1]

(* What read returns: the values and the range they are for.               *)
Read(c, from, to) ==
  LET t(n) == ActualFrom(c, from) + n * Freq
      at   == Walk(c, from)
      size == Min({n \in 0..((to - from) \div Freq + 1) :
                     Stops(c, at[n], t(n), to)})
  IN  [from |-> t(0), to |-> t(size),
       data |-> [k \in 1..size |-> Value(c[at[k - 1]], t(k - 1))]]

(* All samples and buffers of a chain fall on the grid of the time t.      *)
Aligned(c, t) ==
  \A s \in Held(c) \cup {FirstWrite(c[i]) : i \in 1..Len(c)} : (s - t) % Freq = 0

(* Reading returns samples of the chain, each where it belongs, no more    *)
(* than there is room for, and on the grid all there are.                  *)
RightlyRead(c, times) ==
  LET held == Held(c)
  IN  \A from \in times :
        LET aligned == Aligned(c, from)
        IN  \A to \in {t \in times : from <= t} :
              LET r == Read(c, from, to)
                  n == Len(r.data)
              IN  /\ n <= (to - from) \div Freq + 1
                  /\ \A k \in 1..n : r.data[k] # NaN =>
                       /\ r.data[k] \in held
                       /\ r.data[k] - (r.from + (k - 1) * Freq)
                            \in (1 - Freq)..(Freq - 1)
                  /\ aligned => {s \in held : r.from <= s /\ s < to} \subseteq
                                  {r.data[k] : k \in 1..n}
=============================================================================
