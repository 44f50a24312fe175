-------------------------- MODULE WalStore_proofs --------------------------
(* Proofs about the durability of the metric store, for every set of hosts, *)
(* shards and writers and every value of the bounds.                        *)
EXTENDS WalStore, WellFoundedInduction, TLAPS

(* buffer.write yields a buffer chain.                                     *)
LEMMA BufWriteType ==
  ASSUME NEW b \in Bufs, NEW t \in Nat
  PROVE  BufWrite(b, t) \in Bufs
<1>1. CASE b.nil
  BY <1>1 DEF BufWrite, Bufs
<1>2. CASE ~b.nil /\ t < b.start
  BY <1>2 DEF BufWrite, Bufs
<1>3. CASE ~b.nil /\ ~(t < b.start) /\ b.arch /\ t >= b.end
  <2>1. b.mem \cup {t} \in SUBSET Nat /\ b.first \in Nat /\ t + 1 \in Nat
    BY DEF Bufs
  <2> QED BY <1>3, <2>1 DEF BufWrite, Bufs
<1>4. CASE ~b.nil /\ ~(t < b.start) /\ ~(b.arch /\ t >= b.end)
  <2>1. BufWrite(b, t) = [b EXCEPT !.mem = @ \cup {t}, !.end = Larger(@, t + 1)]
    BY <1>4 DEF BufWrite
  <2>2. b.mem \cup {t} \in SUBSET Nat /\ Larger(b.end, t + 1) \in Nat
    BY DEF Bufs, Larger
  <2> QED BY <2>1, <2>2 DEF Bufs
<1> QED BY <1>1, <1>2, <1>3, <1>4

(* What toCheckpointFile collects is a snapshot file.                      *)
LEMMA SnapshotType ==
  ASSUME NEW b \in Bufs, NEW from \in Nat, NEW to \in Nat
  PROVE  SnapshotOf(b, from, to) \in SnapFiles
BY DEF SnapshotOf, SnapFiles, Bufs, Larger, Smaller

(* Loading a snapshot file yields a buffer chain.                          *)
LEMMA LoadBufType ==
  ASSUME NEW b \in Bufs, NEW f \in SnapFiles
  PROVE  LoadBuf(b, f) \in Bufs
BY DEF LoadBuf, Bufs, SnapFiles

(* A checkpointer stays one while it works through its hosts.              *)
LEMMA CkType ==
  ASSUME NEW c \in CkStates, NEW h \in Hosts
  PROVE  /\ Skipped(c, h) \in CkStates
         /\ Succeeded(c, h) \in CkStates
BY DEF Skipped, Succeeded, CkStates

(* The server starts in a well-typed state (Init).                         *)
LEMMA InitType == Init => TypeOK
<1> SUFFICES ASSUME Init PROVE TypeOK
  OBVIOUS
<1>1. NilBuf \in Bufs
  BY DEF NilBuf, Bufs
<1>2. Idle \in CkStates
  BY DEF Idle, CkStates
<1> QED BY <1>1, <1>2 DEF Init, TypeOK, Phases, None

(* What a dying process leaves behind is well typed (Exit and Crash).      *)
LEMMA DieType ==
  ASSUME TypeOK, Die, walFile' \in [Hosts -> Seq(Nat \cup {Torn})]
  PROVE  TypeOK'
<1>1. NilBuf \in Bufs
  BY DEF NilBuf, Bufs
<1>2. Idle \in CkStates
  BY DEF Idle, CkStates
<1>3. owed' \in [Hosts -> SUBSET Nat]
  BY DEF Die, TypeOK
<1> QED BY <1>1, <1>2, <1>3 DEF Die, TypeOK, Phases, None

(* Every step keeps every variable in its type.                            *)
LEMMA StepType == TypeOK /\ [Next]_vars => TypeOK'
<1> SUFFICES ASSUME TypeOK, [Next]_vars PROVE TypeOK'
  OBVIOUS
<1> USE WalStoreAssumption
<1>0. Idle \in CkStates
  BY DEF Idle, CkStates
<1>1. CASE Tick
  BY <1>1 DEF Tick, TypeOK, memVars, walVars, bootVars
<1>2. ASSUME NEW w \in Writers, NEW h \in Hosts, NEW t \in 0..MaxTime, Receive(w, h, t)
      PROVE  TypeOK'
  <2>1. <<h, t>> \in Samples
    BY DEF Samples
  <2>2. chan' \in [Shards -> Seq(Samples)]
    BY <1>2, <2>1 DEF Receive, TypeOK
  <2> QED BY <1>2, <2>1, <2>2 DEF Receive, TypeOK, procVars, bootVars
<1>3. ASSUME NEW w \in Writers, Write(w)
      PROVE  TypeOK'
  <2>1. wr[w] \in Samples
    BY <1>3 DEF Write, TypeOK, None
  <2>2. wr[w][1] \in Hosts /\ wr[w][2] \in Nat
    BY <2>1 DEF Samples
  <2>3. BufWrite(buf[wr[w][1]], wr[w][2]) \in Bufs
    BY <2>2, BufWriteType DEF TypeOK
  <2>4. buf' \in [Hosts -> Bufs]
    BY <1>3, <2>2, <2>3 DEF Write, TypeOK
  <2>5. owed' \in [Hosts -> SUBSET Nat]
    BY <1>3, <2>2 DEF Write, TypeOK
  <2>6. wr' \in [Writers -> {None} \cup Samples]
    BY <1>3 DEF Write, TypeOK
  <2>7. levels' = levels /\ received' = received
    BY <1>3 DEF Write
  <2> QED BY <1>3, <2>4, <2>5, <2>6, <2>7 DEF Write, TypeOK, procVars, walVars, bootVars
<1>4. ASSUME NEW s \in Shards, Stage(s)
      PROVE  TypeOK'
  <2>1. Head(chan[s]) \in Samples /\ Tail(chan[s]) \in Seq(Samples)
    BY <1>4 DEF Stage, TypeOK
  <2>2. Head(chan[s])[1] \in Hosts /\ Head(chan[s])[2] \in Nat
    BY <2>1 DEF Samples
  <2>3. walBuf' \in [Hosts -> Seq(Nat)]
    <3>1. LET h == Head(chan[s])[1]
              t == Head(chan[s])[2]
          IN  \/ walBuf' = [walBuf EXCEPT ![h] = <<t>>]
              \/ walBuf' = [walBuf EXCEPT ![h] = Append(walBuf[h], t)]
      BY <1>4 DEF Stage
    <3>2. LET t == Head(chan[s])[2]
          IN  <<t>> \in Seq(Nat) /\ Append(walBuf[Head(chan[s])[1]], t) \in Seq(Nat)
      BY <2>2 DEF TypeOK
    <3> QED BY <2>2, <3>1, <3>2 DEF TypeOK
  <2>4. walFile' \in [Hosts -> Seq(Nat \cup {Torn})]
    <3>1. walFile' = walFile \/ walFile' = [walFile EXCEPT ![Head(chan[s])[1]] = <<>>]
      BY <1>4 DEF Stage
    <3>2. <<>> \in Seq(Nat \cup {Torn})
      OBVIOUS
    <3> QED BY <3>1, <3>2, <2>2 DEF TypeOK
  <2> QED BY <1>4, <2>1, <2>2, <2>3, <2>4 DEF Stage, TypeOK, procVars, memVars, bootVars
<1>5. ASSUME NEW s \in Shards
      PROVE  /\ Flushed(s) \in [Hosts -> Seq(Nat \cup {Torn})]
             /\ Emptied(s) \in [Hosts -> Seq(Nat)]
  <2>1. ASSUME NEW h \in Hosts
        PROVE  walFile[h] \o walBuf[h] \in Seq(Nat \cup {Torn})
    <3>1. walFile[h] \in Seq(Nat \cup {Torn}) /\ walBuf[h] \in Seq(Nat)
      BY DEF TypeOK
    <3>2. walBuf[h] \in Seq(Nat \cup {Torn})
      BY <3>1
    <3> QED BY <3>1, <3>2
  <2> QED BY <2>1 DEF Flushed, Emptied, TypeOK
<1>6. ASSUME NEW s \in Shards, Flush(s)
      PROVE  TypeOK'
  BY <1>5, <1>6 DEF Flush, TypeOK, procVars, memVars, bootVars
<1>7. ASSUME NEW s \in Shards, StagingStop(s)
      PROVE  TypeOK'
  BY <1>5, <1>7 DEF StagingStop, TypeOK, procVars, memVars, bootVars
<1>8. ASSUME NEW h \in Hosts, Rotate(h)
      PROVE  TypeOK'
  <2>1. CASE h \in open
    <3>1. /\ walFile' = [walFile EXCEPT ![h] = <<>>]
          /\ walBuf' = [walBuf EXCEPT ![h] = <<>>]
          /\ open' = open \ {h}
      BY <1>8, <2>1 DEF Rotate
    <3>2. <<>> \in Seq(Nat \cup {Torn}) /\ <<>> \in Seq(Nat)
      OBVIOUS
    <3>3. walFile' \in [Hosts -> Seq(Nat \cup {Torn})] /\ walBuf' \in [Hosts -> Seq(Nat)]
      BY <3>1, <3>2 DEF TypeOK
    <3> QED BY <1>8, <3>1, <3>3 DEF Rotate, TypeOK, procVars, memVars, bootVars
  <2>2. CASE h \notin open
    BY <1>8, <2>2 DEF Rotate, TypeOK, procVars, memVars, bootVars
  <2> QED BY <2>1, <2>2
<1>9. ASSUME NEW h \in Hosts, LoadSnapshot(h)
      PROVE  TypeOK'
  <2>1. PICK f \in pending[h] :
          /\ pending' = [pending EXCEPT ![h] = @ \ {f}]
          /\ buf' = [buf EXCEPT ![h] = LoadBuf(@, f)]
    BY <1>9 DEF LoadSnapshot
  <2>2. LoadBuf(buf[h], f) \in Bufs
    BY LoadBufType DEF TypeOK
  <2>3. buf' \in [Hosts -> Bufs]
    BY <2>1, <2>2 DEF TypeOK
  <2>4. pending' \in [Hosts -> SUBSET SnapFiles]
    BY <2>1 DEF TypeOK
  <2> QED BY <1>9, <2>3, <2>4 DEF LoadSnapshot, TypeOK, procVars, walVars
<1>10. ASSUME NEW h \in Hosts, ReplayRecord(h)
       PROVE  TypeOK'
  <2>1. Head(replay[h]) \in Nat \cup {Torn} /\ Tail(replay[h]) \in Seq(Nat \cup {Torn})
    BY <1>10 DEF ReplayRecord, TypeOK
  <2>2. CASE Head(replay[h]) = Torn
    <3>1. replay' = [replay EXCEPT ![h] = <<>>] /\ buf' = buf
      BY <1>10, <2>2 DEF ReplayRecord
    <3> QED BY <1>10, <3>1 DEF ReplayRecord, TypeOK, procVars, walVars
  <2>3. CASE Head(replay[h]) # Torn
    <3>1. BufWrite(buf[h], Head(replay[h])) \in Bufs
      BY <2>1, <2>3, BufWriteType DEF TypeOK
    <3> QED BY <1>10, <2>1, <2>3, <3>1 DEF ReplayRecord, TypeOK, procVars, walVars
  <2> QED BY <2>2, <2>3
<1>11. ASSUME NEW p \in Checkpointers, NEW h \in Hosts, SnapHost(p, h)
       PROVE  TypeOK'
  <2>1. ck[p] \in CkStates /\ ck[p].from \in Nat /\ ck[p].to \in Nat
    BY DEF TypeOK, CkStates
  <2>2. SnapshotOf(buf[h], ck[p].from, ck[p].to) \in SnapFiles
    BY <2>1, SnapshotType DEF TypeOK
  <2>3. snaps' \in [Hosts -> SUBSET SnapFiles]
    BY <1>11, <2>2 DEF SnapHost, TypeOK
  <2>4. ck' \in [Checkpointers -> CkStates]
    BY <1>11, CkType DEF SnapHost, TypeOK
  <2> QED BY <1>11, <2>3, <2>4 DEF SnapHost, TypeOK, procVars, memVars, walVars, bootVars
<1>12. ASSUME NEW p \in Checkpointers, NEW h \in Hosts, SnapNothing(p, h)
       PROVE  TypeOK'
  <2>1. ck' \in [Checkpointers -> CkStates]
    BY <1>12, CkType DEF SnapNothing, TypeOK
  <2> QED BY <1>12, <2>1 DEF SnapNothing, TypeOK, procVars, memVars, walVars, bootVars
<1>13. ASSUME NEW p \in Checkpointers, NEW h \in Hosts, SnapError(p, h)
       PROVE  TypeOK'
  <2>1. ck' \in [Checkpointers -> CkStates]
    BY <1>13, CkType DEF SnapError, TypeOK
  <2>2. {t \in owed[h] : t < ck[p].from} \in SUBSET Nat
    BY DEF TypeOK
  <2>3. owed' = [owed EXCEPT ![h] = {t \in @ : t < ck[p].from}]
    BY <1>13 DEF SnapError
  <2>4. owed' \in [Hosts -> SUBSET Nat]
    BY <2>2, <2>3 DEF TypeOK
  <2> QED BY <1>13, <2>1, <2>4 DEF SnapError, TypeOK, procVars, memVars, walVars, bootVars
<1>14. ASSUME NEW p \in Checkpointers
       PROVE  OwedIfAlone(p) \in [Hosts -> SUBSET Nat]
  BY DEF OwedIfAlone, TypeOK
<1>15. CASE PeriodicBegin
  <2>1. ck' \in [Checkpointers -> CkStates]
    BY <1>15 DEF PeriodicBegin, TypeOK, CkStates, Checkpointers
  <2> QED BY <1>14, <1>15, <2>1
       DEF PeriodicBegin, TypeOK, Checkpointers, procVars, memVars, walVars, bootVars
<1>16. CASE PeriodicEnd
  <2>1. ck' \in [Checkpointers -> CkStates]
    <3>1. ck["periodic"] \in CkStates
      BY DEF TypeOK, Checkpointers
    <3>2. [ck["periodic"] EXCEPT !.pc = "wait"] \in CkStates
      BY <3>1 DEF CkStates
    <3> QED BY <1>16, <1>0, <3>2 DEF PeriodicEnd, TypeOK
  <2>2. ck["periodic"].to \in Nat /\ ck["periodic"].ok \subseteq Hosts
    BY DEF TypeOK, CkStates, Checkpointers
  <2> QED BY <1>16, <2>1, <2>2 DEF PeriodicEnd, TypeOK, memVars, bootVars
<1>17. CASE RotationDone \/ RotationTimeout \/ PeriodicExit
  <2>1. ck' \in [Checkpointers -> CkStates]
    <3>1. [Idle EXCEPT !.pc = "gone"] \in CkStates
      BY DEF Idle, CkStates
    <3> QED BY <1>17, <1>0, <3>1
         DEF RotationDone, RotationTimeout, PeriodicExit, TypeOK
  <2> QED BY <1>17, <2>1
       DEF RotationDone, RotationTimeout, PeriodicExit, TypeOK, procVars, memVars,
           walVars, bootVars
<1>18. CASE ShutdownBegin
  BY <1>18 DEF ShutdownBegin, TypeOK, Phases, memVars, walVars, bootVars
<1>19. CASE FinalBegin
  <2>1. ck' \in [Checkpointers -> CkStates]
    BY <1>19 DEF FinalBegin, TypeOK, CkStates, Checkpointers
  <2> QED BY <1>14, <1>19, <2>1
       DEF FinalBegin, TypeOK, Phases, Checkpointers, memVars, walVars, bootVars
<1>20. CASE FinalEnd
  BY <1>20 DEF FinalEnd, TypeOK, Phases, memVars, bootVars
<1>21. CASE Exit
  BY <1>21, DieType DEF Exit, TypeOK
<1>22. CASE Crash
  <2>1. PICK cut \in SUBSET {h \in Hosts : walBuf[h] # <<>>} :
          \E n \in [Hosts -> 0..MaxSamples] :
            /\ \A h \in Hosts : n[h] <= Len(walBuf[h]) - (IF h \in cut THEN 1 ELSE 0)
            /\ walFile' = [h \in Hosts |-> walFile[h] \o SubSeq(walBuf[h], 1, n[h])
                                           \o (IF h \in cut THEN <<Torn>> ELSE <<>>)]
    BY <1>22 DEF Crash
  <2>2. PICK n \in [Hosts -> 0..MaxSamples] :
          /\ \A h \in Hosts : n[h] <= Len(walBuf[h]) - (IF h \in cut THEN 1 ELSE 0)
          /\ walFile' = [h \in Hosts |-> walFile[h] \o SubSeq(walBuf[h], 1, n[h])
                                        \o (IF h \in cut THEN <<Torn>> ELSE <<>>)]
    BY <2>1
  <2>3. ASSUME NEW h \in Hosts
        PROVE  walFile[h] \o SubSeq(walBuf[h], 1, n[h])
                 \o (IF h \in cut THEN <<Torn>> ELSE <<>>) \in Seq(Nat \cup {Torn})
    <3>1. walFile[h] \in Seq(Nat \cup {Torn}) /\ walBuf[h] \in Seq(Nat)
      BY DEF TypeOK
    <3>2. n[h] \in Nat /\ n[h] <= Len(walBuf[h])
      <4>1. Len(walBuf[h]) \in Nat /\ n[h] \in Nat
        BY <3>1
      <4>2. n[h] <= Len(walBuf[h]) - (IF h \in cut THEN 1 ELSE 0)
        BY <2>2
      <4>3. CASE h \in cut
        BY <4>1, <4>2, <4>3
      <4>4. CASE h \notin cut
        BY <4>1, <4>2, <4>4
      <4> QED BY <4>3, <4>4
    <3>3. SubSeq(walBuf[h], 1, n[h]) \in Seq(Nat)
      BY <3>1, <3>2
    <3>4. SubSeq(walBuf[h], 1, n[h]) \in Seq(Nat \cup {Torn})
      BY <3>3
    <3>5. (IF h \in cut THEN <<Torn>> ELSE <<>>) \in Seq(Nat \cup {Torn})
      <4>1. <<Torn>> \in Seq(Nat \cup {Torn}) /\ <<>> \in Seq(Nat \cup {Torn})
        OBVIOUS
      <4> QED BY <4>1
    <3> QED BY <3>1, <3>4, <3>5
  <2>4. walFile' \in [Hosts -> Seq(Nat \cup {Torn})]
    BY <2>2, <2>3
  <2>5. Die
    BY <1>22 DEF Crash
  <2> QED BY <2>4, <2>5, DieType
<1>23. CASE Restart
  BY <1>23 DEF Restart, TypeOK, Phases, walVars
<1>24. CASE StartWorkers
  BY <1>24 DEF StartWorkers, TypeOK, Phases, memVars, bootVars
<1>25. CASE UNCHANGED vars
  BY <1>25 DEF vars, procVars, memVars, walVars, bootVars, TypeOK
<1> QED
  BY <1>1, <1>2, <1>3, <1>4, <1>6, <1>7, <1>8, <1>9, <1>10, <1>11, <1>12, <1>13,
     <1>15, <1>16, <1>17, <1>18, <1>19, <1>20, <1>21, <1>22, <1>23, <1>24, <1>25
     DEF Next

(* Type correctness of the metric store's durability protocol.             *)
THEOREM WalTypeCorrect == Spec => []TypeOK
BY InitType, StepType, PTL DEF Spec
-----------------------------------------------------------------------------
(* What keeps the snapshots complete and loadable.  Everything that is     *)
(* known is of the past, and what a start-up loads is older than the start *)
(* (Arrived, FilesPast): so a host's memory splits into what was loaded,   *)
(* and what has come since, which is all in its head buffer (Heads) and    *)
(* still there when the next snapshot is taken (OwedOK, Clocks).           *)

(* The times that have passed: a start-up loads nothing of its own time.   *)
Past == {t \in Nat : t < clock \/ (t = clock /\ phase # "load")}

(* A checkpointer at work reads from lastCheckpoint or before to the time  *)
(* it began, all of it after the start of the process.                     *)
Clocks ==
  /\ startedAt \in Past /\ lastCheckpoint \in Past
  /\ Up => startedAt <= lastCheckpoint
  /\ \A p \in Checkpointers : ck[p].pc = "snap" =>
       /\ Up
       /\ startedAt <= ck[p].from /\ ck[p].from <= lastCheckpoint
       /\ ck[p].from <= ck[p].to /\ ck[p].to <= clock
  /\ ck["periodic"].pc = "snap" => ck["periodic"].from = lastCheckpoint
  /\ ck["final"].pc = "snap" => phase \in {"final", "stopped"}

(* Samples, records and buffers on the way and in memory.                  *)
Arrived ==
  /\ wr \in [Writers -> {None} \cup (Hosts \X Past)]
  /\ chan \in [Shards -> Seq(Hosts \X Past)]
  /\ walBuf \in [Hosts -> Seq(Past)]
  /\ walFile \in [Hosts -> Seq(Past \cup {Torn})]
  /\ replay \in [Hosts -> Seq(Past \cup {Torn})]
  /\ \A h \in Hosts : buf[h].mem \subseteq Past /\ buf[h].first \in Past

(* Files on disk and to be loaded; no data before the name.                *)
PastFiles == [from : Past, start : Past, end : Past, data : SUBSET Past]
FilesPast ==
  \A h \in Hosts : \A f \in snaps[h] \cup pending[h] :
    f \in PastFiles /\ \A t \in f.data : f.from <= t

(* What a checkpoint could miss has a level it will visit.                 *)
Levels ==
  /\ phase = "down" => levels = {}
  /\ \A w \in Writers : wr[w] # None => wr[w][1] \in levels
  /\ \A h \in Hosts : ~buf[h].nil \/ pending[h] # {} \/ replay[h] # <<>> => h \in levels

(* A loaded head ends before bound; what came since is in an unloaded one. *)
HeadOK(b, bound) ==
  /\ b.arch => b.end <= bound
  /\ b.nil => b.mem = {}
  /\ \A t \in b.mem : bound <= t => ~b.arch /\ b.start <= t /\ t < b.end
Since == IF phase = "load" THEN clock ELSE startedAt
Heads == \A h \in Hosts : HeadOK(buf[h], Since)

(* Files of earlier processes are older than the start in name and data;   *)
(* those of this one share the oldest buffer.                              *)
Names ==
  Up => \A h \in Hosts : \A f \in snaps[h] :
    \/ f.from < startedAt /\ f.start <= startedAt
    \/ startedAt <= f.from /\ ~buf[h].nil /\ f.start = Larger(f.from, buf[h].first)

(* What is owed is in memory, and on disk when memory is gone; two         *)
(* checkpointers at once owe nothing of their own range.                   *)
OwedOK ==
  /\ Up => \A h \in Hosts : \A t \in owed[h] : startedAt <= t => t \in buf[h].mem
  /\ ~Up => \A h \in Hosts : owed[h] \subseteq SnapData(h)
  /\ Overlapping => \A h \in Hosts : \A t \in owed[h] : t < lastCheckpoint

(* The past only grows (Tick, Restart, StartWorkers).                      *)
LEMMA PastGrows ==
  ASSUME TypeOK, [Next]_vars
  PROVE  Past \subseteq Past'
<1> USE DEF procVars, memVars, walVars, bootVars, TypeOK, Past
<1>1. CASE Tick
  BY <1>1 DEF Tick
<1>2. CASE \/ \E w \in Writers, h \in Hosts, t \in 0..MaxTime : Receive(w, h, t)
           \/ \E w \in Writers : Write(w)
  BY <1>2 DEF Receive, Write
<1>3. CASE \E s \in Shards : Stage(s) \/ Flush(s) \/ StagingStop(s)
  BY <1>3 DEF Stage, Flush, StagingStop
<1>4. CASE \E h \in Hosts : Rotate(h) \/ LoadSnapshot(h) \/ ReplayRecord(h)
  BY <1>4 DEF Rotate, LoadSnapshot, ReplayRecord
<1>5. CASE \E p \in Checkpointers, h \in Hosts :
             SnapHost(p, h) \/ SnapNothing(p, h) \/ SnapError(p, h)
  BY <1>5 DEF SnapHost, SnapNothing, SnapError
<1>6. CASE PeriodicBegin \/ PeriodicEnd \/ RotationDone \/ RotationTimeout \/ PeriodicExit
  BY <1>6 DEF PeriodicBegin, PeriodicEnd, RotationDone, RotationTimeout, PeriodicExit
<1>7. CASE ShutdownBegin \/ FinalBegin \/ FinalEnd
  BY <1>7 DEF ShutdownBegin, FinalBegin, FinalEnd
<1>8. CASE Exit \/ Crash
  BY <1>8 DEF Exit, Crash, Die
<1>9. CASE Restart \/ StartWorkers
  BY <1>9 DEF Restart, StartWorkers
<1>10. CASE UNCHANGED vars
  BY <1>10 DEF vars
<1> QED
  BY <1>1, <1>2, <1>3, <1>4, <1>5, <1>6, <1>7, <1>8, <1>9, <1>10 DEF Next

(* The clock, the start and the ranges of the checkpointers stay in order. *)
LEMMA StepClocks ==
  ASSUME TypeOK, Clocks, [Next]_vars
  PROVE  Clocks'
<1> USE DEF procVars, memVars, walVars, bootVars, Clocks, Up, Phases
<1>0. /\ clock \in Nat /\ startedAt \in Nat /\ lastCheckpoint \in Nat /\ phase \in Phases
      /\ ck \in [Checkpointers -> CkStates]
      /\ "periodic" \in Checkpointers /\ "final" \in Checkpointers
  BY DEF TypeOK, Checkpointers
<1>p. \A p \in Checkpointers : ck[p].from \in Nat /\ ck[p].to \in Nat
  BY <1>0 DEF CkStates
<1>1. CASE Tick
  BY <1>0, <1>p, <1>1 DEF Tick, Past
<1>s. ASSUME UNCHANGED <<clock, phase, startedAt, lastCheckpoint, ck>>
      PROVE  Clocks'
  BY <1>s DEF Past
<1>2. CASE \/ \E w \in Writers, h \in Hosts, t \in 0..MaxTime : Receive(w, h, t)
           \/ \E w \in Writers : Write(w)
  <2>1. UNCHANGED <<clock, phase, startedAt, lastCheckpoint, ck>>
    BY <1>2 DEF Receive, Write
  <2> QED BY <1>s, <2>1
<1>3. CASE \E s \in Shards : Stage(s) \/ Flush(s) \/ StagingStop(s)
  <2>1. UNCHANGED <<clock, phase, startedAt, lastCheckpoint, ck>>
    BY <1>3 DEF Stage, Flush, StagingStop
  <2> QED BY <1>s, <2>1
<1>4. CASE \E h \in Hosts : Rotate(h) \/ LoadSnapshot(h) \/ ReplayRecord(h)
  <2>1. UNCHANGED <<clock, phase, startedAt, lastCheckpoint, ck>>
    BY <1>4 DEF Rotate, LoadSnapshot, ReplayRecord
  <2> QED BY <1>s, <2>1
<1>5. ASSUME NEW p \in Checkpointers, NEW h \in Hosts,
             SnapHost(p, h) \/ SnapNothing(p, h) \/ SnapError(p, h)
      PROVE  Clocks'
  <2>1. /\ UNCHANGED procVars
        /\ ck' = [ck EXCEPT ![p] = Succeeded(ck[p], h)] \/ ck' = [ck EXCEPT ![p] = Skipped(ck[p], h)]
    BY <1>5 DEF SnapHost, SnapNothing, SnapError
  <2>2. \A q \in Checkpointers :
          ck'[q].pc = ck[q].pc /\ ck'[q].from = ck[q].from /\ ck'[q].to = ck[q].to
    <3>1. ck[p] \in CkStates
      BY <1>0
    <3>2. /\ Succeeded(ck[p], h).pc = ck[p].pc /\ Skipped(ck[p], h).pc = ck[p].pc
          /\ Succeeded(ck[p], h).from = ck[p].from /\ Skipped(ck[p], h).from = ck[p].from
          /\ Succeeded(ck[p], h).to = ck[p].to /\ Skipped(ck[p], h).to = ck[p].to
      BY <3>1 DEF Succeeded, Skipped, CkStates
    <3> QED BY <1>0, <2>1, <3>2
  <2> QED BY <1>0, <2>1, <2>2 DEF Past
<1>6. CASE PeriodicBegin
  <2>1. ck'["periodic"] = [pc |-> "snap", from |-> lastCheckpoint, to |-> clock,
                           todo |-> levels, ok |-> {}]
        /\ ck'["final"] = ck["final"]
    BY <1>0, <1>6 DEF PeriodicBegin
  <2> QED BY <1>0, <1>6, <2>1 DEF PeriodicBegin, Checkpointers, Past
<1>7. CASE PeriodicEnd
  <2>1. /\ ck["periodic"].pc = "snap" /\ ck'["periodic"].pc # "snap"
        /\ ck'["final"] = ck["final"] /\ UNCHANGED <<clock, phase, startedAt>>
        /\ lastCheckpoint' = lastCheckpoint \/ lastCheckpoint' = ck["periodic"].to
    <3>1. [ck["periodic"] EXCEPT !.pc = "wait"].pc = "wait" /\ Idle.pc = "idle"
      BY <1>0 DEF CkStates, Idle
    <3> QED BY <1>0, <1>7, <3>1 DEF PeriodicEnd
  <2>2. lastCheckpoint <= lastCheckpoint' /\ lastCheckpoint' \in Past
    BY <1>0, <1>p, <2>1 DEF Past
  <2> QED BY <1>0, <1>p, <2>1, <2>2 DEF Checkpointers, Past
<1>8. CASE RotationDone \/ RotationTimeout \/ PeriodicExit
  <2>1. ck'["periodic"].pc # "snap" /\ ck'["final"] = ck["final"] /\ UNCHANGED procVars
    <3>1. [Idle EXCEPT !.pc = "gone"].pc = "gone" /\ Idle.pc = "idle"
      BY DEF Idle
    <3> QED BY <1>0, <1>8, <3>1 DEF RotationDone, RotationTimeout, PeriodicExit
  <2> QED BY <1>0, <2>1 DEF Checkpointers, Past
<1>9. CASE ShutdownBegin \/ FinalEnd
  BY <1>0, <1>9 DEF ShutdownBegin, FinalEnd, Past
<1>10. CASE FinalBegin
  <2>1. ck'["final"] = [pc |-> "snap", from |-> lastCheckpoint, to |-> clock,
                        todo |-> levels, ok |-> {}]
        /\ ck'["periodic"] = ck["periodic"]
    BY <1>0, <1>10 DEF FinalBegin
  <2> QED BY <1>0, <1>10, <2>1 DEF FinalBegin, Checkpointers, Past
<1>11. CASE Exit \/ Crash
  <2>1. Die
    BY <1>11 DEF Exit, Crash
  <2>2. \A p \in Checkpointers : ck'[p].pc = "idle"
    BY <2>1 DEF Die, Idle
  <2>3. phase' = "down" /\ UNCHANGED <<clock, startedAt, lastCheckpoint>>
    BY <2>1 DEF Die
  <2> QED BY <1>0, <2>2, <2>3 DEF Past
<1>12. CASE Restart \/ StartWorkers
  BY <1>0, <1>12 DEF Restart, StartWorkers, Past
<1>13. CASE UNCHANGED vars
  BY <1>13 DEF vars, Past
<1> QED
  BY <1>1, <1>2, <1>3, <1>4, <1>5, <1>6, <1>7, <1>8, <1>9, <1>10, <1>11, <1>12, <1>13 DEF Next

(* Sequences grow with the set of their elements.                          *)
LEMMA SeqGrows ==
  ASSUME NEW S, NEW T, S \subseteq T
  PROVE  Seq(S) \subseteq Seq(T)
OBVIOUS

(* What buffer.write makes of times that have passed.                      *)
LEMMA BufWritePast ==
  ASSUME NEW P, NEW b \in Bufs, NEW t \in P, P \subseteq Nat,
         b.mem \subseteq P, b.first \in P
  PROVE  BufWrite(b, t).mem \subseteq P /\ BufWrite(b, t).first \in P
<1>1. CASE b.nil
  BY <1>1 DEF BufWrite, Bufs
<1>2. CASE ~b.nil /\ t < b.start
  BY <1>2 DEF BufWrite, Bufs
<1>3. CASE ~b.nil /\ ~(t < b.start) /\ b.arch /\ t >= b.end
  BY <1>3 DEF BufWrite, Bufs
<1>4. CASE ~b.nil /\ ~(t < b.start) /\ ~(b.arch /\ t >= b.end)
  <2>1. BufWrite(b, t) = [b EXCEPT !.mem = @ \cup {t}, !.end = Larger(@, t + 1)]
    BY <1>4 DEF BufWrite
  <2>2. BufWrite(b, t).mem = b.mem \cup {t} /\ BufWrite(b, t).first = b.first
    BY <2>1 DEF Bufs
  <2> QED BY <2>2
<1> QED BY <1>1, <1>2, <1>3, <1>4

(* Samples and records are of the past, wherever they are on their way.    *)
LEMMA StepArrived ==
  ASSUME TypeOK, Clocks, Arrived, FilesPast, [Next]_vars
  PROVE  Arrived'
<1> USE WalStoreAssumption DEF procVars, memVars, walVars, bootVars
<1>1. PICK P : P = Past'
  OBVIOUS
<1>2. Past \subseteq P /\ P \subseteq Nat
  BY <1>1, PastGrows DEF Past
<1>3. /\ wr \in [Writers -> {None} \cup (Hosts \X P)]
      /\ \A h \in Hosts : buf[h].mem \subseteq P /\ buf[h].first \in P
  BY <1>2 DEF Arrived
<1>4. chan \in [Shards -> Seq(Hosts \X P)]
  <2>1. Seq(Hosts \X Past) \subseteq Seq(Hosts \X P)
    BY <1>2, SeqGrows
  <2> QED BY <2>1 DEF Arrived
<1>5. /\ walBuf \in [Hosts -> Seq(P)]
      /\ walFile \in [Hosts -> Seq(P \cup {Torn})]
      /\ replay \in [Hosts -> Seq(P \cup {Torn})]
  <2>1. Seq(Past) \subseteq Seq(P) /\ Seq(Past \cup {Torn}) \subseteq Seq(P \cup {Torn})
    BY <1>2, SeqGrows
  <2> QED BY <2>1 DEF Arrived
<1>6. SUFFICES /\ wr' \in [Writers -> {None} \cup (Hosts \X P)]
               /\ chan' \in [Shards -> Seq(Hosts \X P)]
               /\ walBuf' \in [Hosts -> Seq(P)]
               /\ walFile' \in [Hosts -> Seq(P \cup {Torn})]
               /\ replay' \in [Hosts -> Seq(P \cup {Torn})]
               /\ \A h \in Hosts : buf'[h].mem \subseteq P /\ buf'[h].first \in P
  BY <1>1 DEF Arrived
<1>7. buf \in [Hosts -> Bufs] /\ snaps \in [Hosts -> SUBSET SnapFiles]
      /\ clock \in Nat /\ phase \in Phases
  BY DEF TypeOK
<1>8. ASSUME NEW w \in Writers, NEW h \in Hosts, NEW t \in 0..MaxTime, Receive(w, h, t)
      PROVE  /\ wr' \in [Writers -> {None} \cup (Hosts \X P)]
             /\ chan' \in [Shards -> Seq(Hosts \X P)]
             /\ UNCHANGED <<walBuf, walFile, replay, buf>>
  <2>1. t \in P
    BY <1>2, <1>7, <1>8 DEF Receive, Past, Up
  <2>2. chan' \in [Shards -> Seq(Hosts \X P)]
    BY <1>4, <1>8, <2>1 DEF Receive
  <2> QED BY <1>3, <1>8, <2>1, <2>2 DEF Receive
<1>9. ASSUME NEW w \in Writers, Write(w)
      PROVE  /\ wr' \in [Writers -> {None} \cup (Hosts \X P)]
             /\ UNCHANGED <<chan, walBuf, walFile, replay>>
             /\ \A h \in Hosts : buf'[h].mem \subseteq P /\ buf'[h].first \in P
  <2>1. wr[w] \in Hosts \X P
    BY <1>3, <1>9 DEF Write
  <2>2. wr[w][1] \in Hosts /\ wr[w][2] \in P
    BY <2>1
  <2>3. LET b == BufWrite(buf[wr[w][1]], wr[w][2])
        IN  b.mem \subseteq P /\ b.first \in P
    BY <1>2, <1>3, <1>7, <2>2, BufWritePast
  <2>4. buf' = [buf EXCEPT ![wr[w][1]] = BufWrite(buf[wr[w][1]], wr[w][2])]
    BY <1>9 DEF Write
  <2>5. \A h \in Hosts : buf'[h].mem \subseteq P /\ buf'[h].first \in P
    BY <1>3, <1>7, <2>2, <2>3, <2>4
  <2>6. wr' \in [Writers -> {None} \cup (Hosts \X P)]
    BY <1>3, <1>9 DEF Write
  <2>7. UNCHANGED <<chan, walBuf, walFile, replay>>
    BY <1>9 DEF Write
  <2> QED BY <2>5, <2>6, <2>7
<1>10. ASSUME NEW s \in Shards, Stage(s)
       PROVE  /\ chan' \in [Shards -> Seq(Hosts \X P)]
              /\ walBuf' \in [Hosts -> Seq(P)]
              /\ walFile' \in [Hosts -> Seq(P \cup {Torn})]
              /\ UNCHANGED <<wr, replay, buf>>
  <2>1. Head(chan[s]) \in Hosts \X P /\ Tail(chan[s]) \in Seq(Hosts \X P)
    BY <1>4, <1>10 DEF Stage
  <2>2. Head(chan[s])[1] \in Hosts /\ Head(chan[s])[2] \in P
    BY <2>1
  <2>3. walBuf' \in [Hosts -> Seq(P)]
    <3>1. LET h == Head(chan[s])[1]
              t == Head(chan[s])[2]
          IN  \/ walBuf' = [walBuf EXCEPT ![h] = <<t>>]
              \/ walBuf' = [walBuf EXCEPT ![h] = Append(walBuf[h], t)]
      BY <1>10 DEF Stage
    <3>2. LET t == Head(chan[s])[2]
          IN  <<t>> \in Seq(P) /\ Append(walBuf[Head(chan[s])[1]], t) \in Seq(P)
      BY <1>5, <2>2
    <3> QED BY <1>5, <2>2, <3>1, <3>2
  <2>4. walFile' \in [Hosts -> Seq(P \cup {Torn})]
    <3>1. walFile' = walFile \/ walFile' = [walFile EXCEPT ![Head(chan[s])[1]] = <<>>]
      BY <1>10 DEF Stage
    <3>2. <<>> \in Seq(P \cup {Torn})
      OBVIOUS
    <3> QED BY <1>5, <2>2, <3>1, <3>2
  <2>5. chan' \in [Shards -> Seq(Hosts \X P)]
    BY <1>4, <1>10, <2>1 DEF Stage
  <2> QED BY <1>10, <2>3, <2>4, <2>5 DEF Stage
<1>11. ASSUME NEW s \in Shards
       PROVE  /\ Flushed(s) \in [Hosts -> Seq(P \cup {Torn})]
              /\ Emptied(s) \in [Hosts -> Seq(P)]
  <2>1. ASSUME NEW h \in Hosts
        PROVE  walFile[h] \o walBuf[h] \in Seq(P \cup {Torn})
    <3>1. walFile[h] \in Seq(P \cup {Torn}) /\ walBuf[h] \in Seq(P)
      BY <1>5
    <3>2. walBuf[h] \in Seq(P \cup {Torn})
      BY <3>1
    <3> QED BY <3>1, <3>2
  <2> QED BY <1>5, <2>1 DEF Flushed, Emptied
<1>12. ASSUME NEW s \in Shards, Flush(s) \/ StagingStop(s)
       PROVE  /\ chan' \in [Shards -> Seq(Hosts \X P)]
              /\ walBuf' \in [Hosts -> Seq(P)]
              /\ walFile' \in [Hosts -> Seq(P \cup {Torn})]
              /\ UNCHANGED <<wr, replay, buf>>
  <2>1. chan' = chan \/ chan' = [chan EXCEPT ![s] = <<>>]
    BY <1>12 DEF Flush, StagingStop
  <2>2. <<>> \in Seq(Hosts \X P)
    OBVIOUS
  <2>3. chan' \in [Shards -> Seq(Hosts \X P)]
    BY <1>4, <2>1, <2>2
  <2>4. walFile' = Flushed(s) /\ walBuf' = Emptied(s) /\ UNCHANGED <<wr, replay, buf>>
    BY <1>12 DEF Flush, StagingStop
  <2> QED BY <1>11, <2>3, <2>4
<1>13. ASSUME NEW h \in Hosts, Rotate(h)
       PROVE  /\ walBuf' \in [Hosts -> Seq(P)]
              /\ walFile' \in [Hosts -> Seq(P \cup {Torn})]
              /\ UNCHANGED <<wr, chan, replay, buf>>
  <2>1. \/ walFile' = walFile /\ walBuf' = walBuf
        \/ walFile' = [walFile EXCEPT ![h] = <<>>] /\ walBuf' = [walBuf EXCEPT ![h] = <<>>]
    BY <1>13 DEF Rotate
  <2>2. <<>> \in Seq(P \cup {Torn}) /\ <<>> \in Seq(P)
    OBVIOUS
  <2>3. walBuf' \in [Hosts -> Seq(P)] /\ walFile' \in [Hosts -> Seq(P \cup {Torn})]
    BY <1>5, <2>1, <2>2
  <2> QED BY <1>13, <2>3 DEF Rotate
<1>14. ASSUME NEW h \in Hosts, LoadSnapshot(h)
       PROVE  /\ UNCHANGED <<wr, chan, walBuf, walFile, replay>>
              /\ \A g \in Hosts : buf'[g].mem \subseteq P /\ buf'[g].first \in P
  <2>1. PICK f \in pending[h] : buf' = [buf EXCEPT ![h] = LoadBuf(buf[h], f)]
    BY <1>14 DEF LoadSnapshot
  <2>2. f.start \in P /\ f.data \subseteq P
    <3>1. f \in snaps[h] \cup pending[h]
      OBVIOUS
    <3>2. f \in PastFiles
      BY <3>1 DEF FilesPast
    <3> QED BY <1>2, <3>2 DEF PastFiles
  <2>3. LoadBuf(buf[h], f).mem \subseteq P /\ LoadBuf(buf[h], f).first \in P
    BY <1>3, <2>2 DEF LoadBuf
  <2>4. \A g \in Hosts : buf'[g].mem \subseteq P /\ buf'[g].first \in P
    BY <1>3, <1>7, <2>1, <2>3
  <2> QED BY <1>14, <2>4 DEF LoadSnapshot
<1>15. ASSUME NEW h \in Hosts, ReplayRecord(h)
       PROVE  /\ UNCHANGED <<wr, chan, walBuf, walFile>>
              /\ replay' \in [Hosts -> Seq(P \cup {Torn})]
              /\ \A g \in Hosts : buf'[g].mem \subseteq P /\ buf'[g].first \in P
  <2>1. Head(replay[h]) \in P \cup {Torn} /\ Tail(replay[h]) \in Seq(P \cup {Torn})
    BY <1>5, <1>15 DEF ReplayRecord
  <2>2. <<>> \in Seq(P \cup {Torn})
    OBVIOUS
  <2>3. replay' \in [Hosts -> Seq(P \cup {Torn})]
    BY <1>5, <1>15, <2>1, <2>2 DEF ReplayRecord
  <2>4. CASE Head(replay[h]) = Torn
    BY <1>3, <1>15, <2>3, <2>4 DEF ReplayRecord
  <2>5. CASE Head(replay[h]) # Torn
    <3>1. LET b == BufWrite(buf[h], Head(replay[h]))
          IN  b.mem \subseteq P /\ b.first \in P
      BY <1>2, <1>3, <1>7, <2>1, <2>5, BufWritePast
    <3>2. buf' = [buf EXCEPT ![h] = BufWrite(buf[h], Head(replay[h]))]
      BY <1>15, <2>5 DEF ReplayRecord
    <3>3. \A g \in Hosts : buf'[g].mem \subseteq P /\ buf'[g].first \in P
      BY <1>3, <1>7, <3>1, <3>2
    <3> QED BY <1>15, <2>3, <3>3 DEF ReplayRecord
  <2> QED BY <2>4, <2>5
<1>16. CASE \/ Tick \/ ShutdownBegin \/ FinalBegin
            \/ \E p \in Checkpointers, h \in Hosts :
                 SnapHost(p, h) \/ SnapNothing(p, h) \/ SnapError(p, h)
            \/ PeriodicBegin \/ PeriodicEnd \/ RotationDone \/ RotationTimeout
            \/ PeriodicExit \/ StartWorkers
  BY <1>3, <1>4, <1>5, <1>16
     DEF Tick, ShutdownBegin, FinalBegin, SnapHost, SnapNothing, SnapError, PeriodicBegin,
         PeriodicEnd, RotationDone, RotationTimeout, PeriodicExit, StartWorkers
<1>17. CASE FinalEnd
  <2>1. walFile' \in [Hosts -> Seq(P \cup {Torn})]
    BY <1>5, <1>17 DEF FinalEnd
  <2> QED BY <1>3, <1>4, <1>5, <1>17, <2>1 DEF FinalEnd
<1>18. ASSUME Die, walFile' \in [Hosts -> Seq(P \cup {Torn})]
       PROVE  /\ wr' \in [Writers -> {None} \cup (Hosts \X P)]
              /\ chan' \in [Shards -> Seq(Hosts \X P)]
              /\ walBuf' \in [Hosts -> Seq(P)]
              /\ replay' \in [Hosts -> Seq(P \cup {Torn})]
              /\ \A h \in Hosts : buf'[h].mem \subseteq P /\ buf'[h].first \in P
  <2>1. 0 \in P
    BY <1>1, <1>7, <1>18 DEF Past, Die
  <2>2. \A h \in Hosts : buf'[h].mem = {} /\ buf'[h].first = 0
    BY <1>18 DEF Die, NilBuf
  <2>3. <<>> \in Seq(Hosts \X P) /\ <<>> \in Seq(P) /\ <<>> \in Seq(P \cup {Torn})
    OBVIOUS
  <2> QED BY <1>18, <2>1, <2>2, <2>3 DEF Die
<1>19. CASE Exit
  <2>1. Die /\ walFile' = walFile
    BY <1>19 DEF Exit
  <2> QED BY <1>5, <1>18, <2>1
<1>20. CASE Crash
  <2>1. PICK cut \in SUBSET {h \in Hosts : walBuf[h] # <<>>} :
          \E n \in [Hosts -> 0..MaxSamples] :
            /\ \A h \in Hosts : n[h] <= Len(walBuf[h]) - (IF h \in cut THEN 1 ELSE 0)
            /\ walFile' = [h \in Hosts |-> walFile[h] \o SubSeq(walBuf[h], 1, n[h])
                                           \o (IF h \in cut THEN <<Torn>> ELSE <<>>)]
    BY <1>20 DEF Crash
  <2>2. PICK n \in [Hosts -> 0..MaxSamples] :
          /\ \A h \in Hosts : n[h] <= Len(walBuf[h]) - (IF h \in cut THEN 1 ELSE 0)
          /\ walFile' = [h \in Hosts |-> walFile[h] \o SubSeq(walBuf[h], 1, n[h])
                                        \o (IF h \in cut THEN <<Torn>> ELSE <<>>)]
    BY <2>1
  <2>3. ASSUME NEW h \in Hosts
        PROVE  walFile[h] \o SubSeq(walBuf[h], 1, n[h])
                 \o (IF h \in cut THEN <<Torn>> ELSE <<>>) \in Seq(P \cup {Torn})
    <3>1. walFile[h] \in Seq(P \cup {Torn}) /\ walBuf[h] \in Seq(P)
      BY <1>5
    <3>2. n[h] \in Nat /\ n[h] <= Len(walBuf[h])
      <4>1. Len(walBuf[h]) \in Nat /\ n[h] \in Nat
        BY <3>1
      <4>2. n[h] <= Len(walBuf[h]) - (IF h \in cut THEN 1 ELSE 0)
        BY <2>2
      <4>3. CASE h \in cut
        BY <4>1, <4>2, <4>3
      <4>4. CASE h \notin cut
        BY <4>1, <4>2, <4>4
      <4> QED BY <4>3, <4>4
    <3>3. SubSeq(walBuf[h], 1, n[h]) \in Seq(P)
      BY <3>1, <3>2
    <3>4. SubSeq(walBuf[h], 1, n[h]) \in Seq(P \cup {Torn})
      BY <3>3, SeqGrows
    <3>5. (IF h \in cut THEN <<Torn>> ELSE <<>>) \in Seq(P \cup {Torn})
      <4>1. <<Torn>> \in Seq(P \cup {Torn}) /\ <<>> \in Seq(P \cup {Torn})
        OBVIOUS
      <4> QED BY <4>1
    <3> QED BY <3>1, <3>4, <3>5
  <2>4. walFile' \in [Hosts -> Seq(P \cup {Torn})]
    BY <2>2, <2>3
  <2>5. Die
    BY <1>20 DEF Crash
  <2> QED BY <1>18, <2>4, <2>5
<1>21. CASE Restart
  BY <1>3, <1>4, <1>5, <1>21 DEF Restart
<1>22. CASE UNCHANGED vars
  BY <1>3, <1>4, <1>5, <1>22 DEF vars
<1> QED
  BY <1>3, <1>4, <1>5, <1>8, <1>9, <1>10, <1>12, <1>13, <1>14, <1>15, <1>16, <1>17, <1>19,
     <1>20, <1>21, <1>22, <1>1 DEF Next, Arrived

(* Snapshot files tell of the past, and start-up loads what is on disk.    *)
LEMMA StepFilesPast ==
  ASSUME TypeOK, Clocks, Arrived, FilesPast, [Next]_vars
  PROVE  FilesPast'
<1> USE DEF procVars, memVars, walVars, bootVars
<1>1. PICK P : P = Past'
  OBVIOUS
<1>2. Past \subseteq P
  BY <1>1, PastGrows
<1> DEFINE Fine(f) == /\ f \in [from : P, start : P, end : P, data : SUBSET P]
                      /\ \A t \in f.data : f.from <= t
<1>3. \A h \in Hosts : \A f \in snaps[h] \cup pending[h] : Fine(f)
  <2>1. PastFiles \subseteq [from : P, start : P, end : P, data : SUBSET P]
    BY <1>2 DEF PastFiles
  <2> QED BY <2>1 DEF FilesPast
<1>4. SUFFICES \A h \in Hosts : \A f \in snaps'[h] \cup pending'[h] : Fine(f)
  BY <1>1 DEF FilesPast, PastFiles
<1>5. snaps \in [Hosts -> SUBSET SnapFiles] /\ pending \in [Hosts -> SUBSET SnapFiles]
  BY DEF TypeOK
<1> HIDE DEF Fine
<1>7. CASE UNCHANGED <<snaps, pending>>
  BY <1>3, <1>7
<1>8. ASSUME NEW p \in Checkpointers, NEW h \in Hosts, SnapHost(p, h)
      PROVE  \A g \in Hosts : \A f \in snaps'[g] \cup pending'[g] : Fine(f)
  <2> DEFINE from == ck[p].from
             to   == ck[p].to
             new  == SnapshotOf(buf[h], from, to)
  <2>1. /\ from \in Nat /\ to \in Nat /\ clock \in Nat /\ lastCheckpoint \in Nat
        /\ buf[h] \in Bufs
    BY DEF TypeOK, CkStates
  <2>2. from <= clock /\ to <= clock /\ phase # "load"
    <3>1. Up /\ ck[p].pc = "snap"
      BY <1>8 DEF SnapHost
    <3>2. phase # "load"
      BY <3>1 DEF Up
    <3>3. from <= lastCheckpoint /\ to <= clock
      BY <3>1 DEF Clocks
    <3>4. lastCheckpoint <= clock
      BY <2>1 DEF Clocks, Past
    <3> QED BY <2>1, <3>2, <3>3, <3>4
  <2>3. \A t \in Nat : t <= clock => t \in P
    BY <1>2, <2>1, <2>2 DEF Past
  <2>4. /\ buf[h].first \in Nat /\ buf[h].first <= clock /\ buf[h].end \in Nat
        /\ buf[h].mem \subseteq P
    BY <1>2, <2>1 DEF Arrived, Past, Bufs
  <2>5. Fine(new)
    <3>1. /\ Larger(from, buf[h].first) \in Nat /\ Larger(from, buf[h].first) <= clock
          /\ Larger(Larger(from, buf[h].first), Smaller(to, buf[h].end)) \in Nat
          /\ Larger(Larger(from, buf[h].first), Smaller(to, buf[h].end)) <= clock
      BY <2>1, <2>2, <2>4 DEF Larger, Smaller
    <3>2. {t \in buf[h].mem : from <= t /\ t < to} \in SUBSET P
      BY <2>4
    <3>3. new \in [from : P, start : P, end : P, data : SUBSET P]
      BY <2>1, <2>2, <2>3, <3>1, <3>2 DEF SnapshotOf
    <3>4. \A t \in new.data : new.from <= t
      BY DEF SnapshotOf
    <3> QED BY <3>3, <3>4 DEF Fine
  <2>6. /\ snaps' = [snaps EXCEPT ![h] = {f \in @ : f.from # from} \cup {new}]
        /\ pending' = pending
    BY <1>8 DEF SnapHost
  <2> HIDE DEF new, from
  <2> QED BY <1>3, <1>5, <2>5, <2>6
<1>9. ASSUME NEW h \in Hosts, LoadSnapshot(h)
      PROVE  \A g \in Hosts : \A f \in snaps'[g] \cup pending'[g] : Fine(f)
  <2>1. snaps' = snaps /\ \E f \in pending[h] : pending' = [pending EXCEPT ![h] = @ \ {f}]
    BY <1>9 DEF LoadSnapshot
  <2> QED BY <1>3, <1>5, <2>1
<1>10. CASE Exit \/ Crash
  <2>1. pending' = [h \in Hosts |-> {}] /\ snaps' = snaps
    BY <1>10 DEF Exit, Crash, Die
  <2> QED BY <1>3, <2>1
<1>11. CASE Restart
  BY <1>3, <1>11 DEF Restart
<1> QED
  BY <1>7, <1>8, <1>9, <1>10, <1>11
     DEF Next, Tick, Receive, Write, Stage, Flush, StagingStop, Rotate, ReplayRecord,
         SnapNothing, SnapError, PeriodicBegin, PeriodicEnd, RotationDone, RotationTimeout,
         PeriodicExit, ShutdownBegin, FinalBegin, FinalEnd, StartWorkers, vars

(* A host with something in memory, on the way there or to be loaded has a *)
(* level, so that a checkpoint takes it in.                                *)
LEMMA StepLevels ==
  ASSUME TypeOK, Levels, [Next]_vars
  PROVE  Levels'
<1> USE DEF procVars, memVars, walVars, bootVars, Levels
<1>0. /\ levels \subseteq Hosts /\ buf \in [Hosts -> Bufs]
      /\ wr \in [Writers -> {None} \cup Samples]
      /\ pending \in [Hosts -> SUBSET SnapFiles] /\ replay \in [Hosts -> Seq(Nat \cup {Torn})]
  BY DEF TypeOK
<1>1. ASSUME NEW w \in Writers, NEW h \in Hosts, NEW t \in 0..MaxTime, Receive(w, h, t)
      PROVE  Levels'
  BY <1>0, <1>1 DEF Receive, Up
<1>2. ASSUME NEW w \in Writers, Write(w)
      PROVE  Levels'
  <2>1. wr[w] # None /\ wr[w][1] \in levels
    BY <1>2 DEF Write
  <2>2. /\ buf' = [buf EXCEPT ![wr[w][1]] = BufWrite(buf[wr[w][1]], wr[w][2])]
        /\ wr' = [wr EXCEPT ![w] = None]
        /\ UNCHANGED <<phase, levels, pending, replay>>
    BY <1>2 DEF Write
  <2>3. \A h \in Hosts : h # wr[w][1] => buf'[h] = buf[h]
    BY <1>0, <2>2
  <2> QED BY <1>0, <2>1, <2>2, <2>3
<1>3. ASSUME NEW h \in Hosts, LoadSnapshot(h)
      PROVE  Levels'
  <2>1. PICK f \in pending[h] : /\ pending' = [pending EXCEPT ![h] = @ \ {f}]
                                /\ buf' = [buf EXCEPT ![h] = LoadBuf(@, f)]
    BY <1>3 DEF LoadSnapshot
  <2>2. h \in levels
    OBVIOUS
  <2>3. \A g \in Hosts : g # h => buf'[g] = buf[g] /\ pending'[g] = pending[g]
    BY <1>0, <2>1
  <2> QED BY <1>3, <2>2, <2>3 DEF LoadSnapshot
<1>4. ASSUME NEW h \in Hosts, ReplayRecord(h)
      PROVE  Levels'
  <2>1. h \in levels
    BY <1>4 DEF ReplayRecord
  <2>2. \A g \in Hosts : g # h => buf'[g] = buf[g] /\ replay'[g] = replay[g]
    BY <1>0, <1>4 DEF ReplayRecord
  <2> QED BY <1>4, <2>1, <2>2 DEF ReplayRecord
<1>5. CASE Exit \/ Crash
  <2>1. Die
    BY <1>5 DEF Exit, Crash
  <2>2. \A h \in Hosts : buf'[h].nil
    BY <2>1 DEF Die, NilBuf
  <2> QED BY <2>1, <2>2 DEF Die
<1>6. CASE Restart
  <2>1. \A h \in Hosts : buf[h].nil
    BY <1>6 DEF Restart
  <2>2. \A w \in Writers : wr[w] = None
    BY <1>6 DEF Restart
  <2>3. \A h \in Hosts : pending'[h] # {} \/ replay'[h] # <<>> => h \in levels'
    BY <1>6 DEF Restart
  <2> QED BY <1>6, <2>1, <2>2, <2>3 DEF Restart
<1>7. CASE UNCHANGED <<phase, levels, wr, buf, pending, replay>>
  BY <1>7
<1>8. CASE StartWorkers \/ ShutdownBegin \/ FinalBegin \/ FinalEnd
  BY <1>8 DEF StartWorkers, ShutdownBegin, FinalBegin, FinalEnd
<1> QED
  BY <1>1, <1>2, <1>3, <1>4, <1>5, <1>6, <1>7, <1>8
     DEF Next, Tick, Stage, Flush, StagingStop, Rotate, SnapHost,
         SnapNothing, SnapError, PeriodicBegin, PeriodicEnd, RotationDone, RotationTimeout,
         PeriodicExit, vars

(* buffer.write keeps what has come since a time in the head, and does not *)
(* move the oldest buffer.                                                 *)
LEMMA BufWriteHead ==
  ASSUME NEW b \in Bufs, NEW t \in Nat, NEW bound \in Nat, HeadOK(b, bound)
  PROVE  /\ HeadOK(BufWrite(b, t), bound)
         /\ ~BufWrite(b, t).nil \/ t \notin BufWrite(b, t).mem
         /\ ~b.nil => ~BufWrite(b, t).nil /\ BufWrite(b, t).first = b.first
         /\ b.mem \subseteq BufWrite(b, t).mem
<1> USE DEF HeadOK, Bufs
<1>1. CASE b.nil
  BY <1>1 DEF BufWrite
<1>2. CASE ~b.nil /\ t < b.start
  BY <1>2 DEF BufWrite
<1>3. CASE ~b.nil /\ ~(t < b.start) /\ b.arch /\ t >= b.end
  <2>1. BufWrite(b, t) = [nil |-> FALSE, mem |-> b.mem \cup {t}, first |-> b.first,
                          start |-> t, end |-> t + 1, arch |-> FALSE]
    BY <1>3 DEF BufWrite
  <2>2. \A x \in b.mem : ~(bound <= x)
    BY <1>3
  <2> QED BY <1>3, <2>1, <2>2
<1>4. CASE ~b.nil /\ ~(t < b.start) /\ ~(b.arch /\ t >= b.end)
  <2>1. BufWrite(b, t) = [b EXCEPT !.mem = @ \cup {t}, !.end = Larger(@, t + 1)]
    BY <1>4 DEF BufWrite
  <2>2. /\ BufWrite(b, t).mem = b.mem \cup {t} /\ BufWrite(b, t).first = b.first
        /\ BufWrite(b, t).end = Larger(b.end, t + 1) /\ BufWrite(b, t).start = b.start
        /\ BufWrite(b, t).arch = b.arch /\ BufWrite(b, t).nil = b.nil
    BY <2>1
  <2>3. CASE b.arch
    <3>1. t < b.end /\ b.end <= bound /\ Larger(b.end, t + 1) = b.end
      BY <1>4, <2>3 DEF Larger
    <3> QED BY <1>4, <2>2, <2>3, <3>1
  <2>4. CASE ~b.arch
    <3>1. b.end <= Larger(b.end, t + 1) /\ t < Larger(b.end, t + 1)
          /\ Larger(b.end, t + 1) \in Nat
      BY DEF Larger
    <3>2. \A x \in b.mem : x \in Nat
      OBVIOUS
    <3> QED BY <1>4, <2>2, <2>4, <3>1, <3>2
  <2> QED BY <2>3, <2>4
<1> QED BY <1>1, <1>2, <1>3, <1>4

(* What has come since the start is in the head buffer.                    *)
LEMMA StepHeads ==
  ASSUME TypeOK, Clocks, Arrived, FilesPast, Levels, Heads, [Next]_vars
  PROVE  Heads'
<1> USE DEF procVars, memVars, walVars, bootVars, Heads
<1>0. /\ clock \in Nat /\ startedAt \in Nat /\ buf \in [Hosts -> Bufs] /\ Since \in Nat
      /\ startedAt <= clock
  BY DEF TypeOK, Since, Clocks, Past
<1>1. ASSUME NEW w \in Writers, Write(w)
      PROVE  Heads'
  <2>1. wr[w][1] \in Hosts /\ wr[w][2] \in Nat
    BY <1>1 DEF Write, TypeOK, None, Samples
  <2>2. buf' = [buf EXCEPT ![wr[w][1]] = BufWrite(buf[wr[w][1]], wr[w][2])]
    BY <1>1 DEF Write
  <2>3. HeadOK(BufWrite(buf[wr[w][1]], wr[w][2]), Since)
    BY <1>0, <2>1, BufWriteHead
  <2>4. \A h \in Hosts : HeadOK(buf'[h], Since)
    BY <1>0, <2>1, <2>2, <2>3
  <2>5. Since' = Since
    BY <1>1 DEF Write, Since
  <2> QED BY <2>4, <2>5
<1>2. ASSUME NEW h \in Hosts, LoadSnapshot(h)
      PROVE  Heads'
  <2>1. PICK f \in pending[h] : buf' = [buf EXCEPT ![h] = LoadBuf(buf[h], f)]
    BY <1>2 DEF LoadSnapshot
  <2>2. f \in snaps[h] \cup pending[h]
    OBVIOUS
  <2>3. f.end \in Past /\ f.data \subseteq Past
    BY <2>2 DEF FilesPast, PastFiles
  <2>4. Since = clock /\ \A t \in Past : t \in Nat /\ t < clock
    BY <1>0, <1>2 DEF LoadSnapshot, Since, Past
  <2>5. \A t \in LoadBuf(buf[h], f).mem : t \in Past
    BY <2>3 DEF LoadBuf, Arrived
  <2>6. HeadOK(LoadBuf(buf[h], f), Since)
    BY <1>0, <2>3, <2>4, <2>5 DEF HeadOK, LoadBuf
  <2>7. \A g \in Hosts : HeadOK(buf'[g], Since)
    BY <1>0, <2>1, <2>6
  <2>8. Since' = Since
    BY <1>2 DEF LoadSnapshot, Since
  <2> QED BY <2>7, <2>8
<1>3. ASSUME NEW h \in Hosts, ReplayRecord(h)
      PROVE  Heads'
  <2>1. Since' = Since
    BY <1>3 DEF ReplayRecord, Since
  <2>2. CASE Head(replay[h]) = Torn
    BY <1>3, <2>1, <2>2 DEF ReplayRecord
  <2>3. CASE Head(replay[h]) # Torn
    <3>1. Head(replay[h]) \in Nat
      <4>1. replay[h] \in Seq(Nat \cup {Torn}) /\ replay[h] # <<>>
        BY <1>3 DEF ReplayRecord, TypeOK
      <4> QED BY <2>3, <4>1
    <3>2. buf' = [buf EXCEPT ![h] = BufWrite(buf[h], Head(replay[h]))]
      BY <1>3, <2>3 DEF ReplayRecord
    <3>3. HeadOK(BufWrite(buf[h], Head(replay[h])), Since)
      BY <1>0, <3>1, BufWriteHead
    <3>4. \A g \in Hosts : HeadOK(buf'[g], Since)
      BY <1>0, <3>2, <3>3
    <3> QED BY <2>1, <3>4
  <2> QED BY <2>2, <2>3
<1>4. CASE Exit \/ Crash
  <2>1. Die
    BY <1>4 DEF Exit, Crash
  <2> QED BY <2>1 DEF Die, NilBuf, HeadOK
<1>5. CASE Restart
  <2>1. \A h \in Hosts : HeadOK(buf[h], startedAt) /\ buf[h].nil
    BY <1>5 DEF Restart, Since, Levels
  <2>2. Since' = clock + 1 /\ buf' = buf
    BY <1>5 DEF Restart, Since
  <2>3. ASSUME NEW h \in Hosts
        PROVE  HeadOK(buf[h], clock + 1)
    <3>1. buf[h].mem = {} /\ (buf[h].arch => buf[h].end <= startedAt) /\ buf[h].end \in Nat
      BY <1>0, <2>1 DEF HeadOK, Bufs
    <3> QED BY <1>0, <3>1 DEF HeadOK
  <2> QED BY <2>2, <2>3
<1>7. CASE StartWorkers \/ ShutdownBegin \/ FinalBegin \/ FinalEnd
  <2>1. buf' = buf /\ Since' = Since
    BY <1>7 DEF StartWorkers, ShutdownBegin, FinalBegin, FinalEnd, Since
  <2> QED BY <2>1
<1>8. CASE UNCHANGED <<phase, startedAt, clock, buf>> \/ Tick
  <2>1. buf' = buf /\ Since' = Since
    BY <1>8 DEF Tick, Since
  <2> QED BY <2>1
<1> QED
  BY <1>1, <1>2, <1>3, <1>4, <1>5, <1>7, <1>8
     DEF Next, Receive, Stage, Flush, StagingStop, Rotate, SnapHost,
         SnapNothing, SnapError, PeriodicBegin, PeriodicEnd, RotationDone, RotationTimeout,
         PeriodicExit, vars

(* A file of this process starts at its name or at the oldest buffer,      *)
(* which stays; those of earlier ones have older names and data.           *)
LEMMA StepNames ==
  ASSUME TypeOK, Clocks, FilesPast, Heads, Names, [Next]_vars
  PROVE  Names'
<1> USE DEF procVars, memVars, walVars, bootVars
<1>0. /\ startedAt \in Nat /\ buf \in [Hosts -> Bufs] /\ snaps \in [Hosts -> SUBSET SnapFiles]
      /\ clock \in Nat
  BY DEF TypeOK
<1>1. ASSUME NEW w \in Writers, Write(w)
      PROVE  Names'
  <2>1. wr[w][1] \in Hosts /\ wr[w][2] \in Nat /\ phase # "load"
    BY <1>1 DEF Write, TypeOK, None, Samples, Up
  <2>2. /\ buf' = [buf EXCEPT ![wr[w][1]] = BufWrite(buf[wr[w][1]], wr[w][2])]
        /\ UNCHANGED <<phase, startedAt, snaps>> /\ Up
    BY <1>1 DEF Write
  <2>3. HeadOK(buf[wr[w][1]], startedAt)
    BY <2>1 DEF Heads, Since
  <2>4. ~buf[wr[w][1]].nil => /\ ~BufWrite(buf[wr[w][1]], wr[w][2]).nil
                              /\ BufWrite(buf[wr[w][1]], wr[w][2]).first = buf[wr[w][1]].first
    BY <1>0, <2>1, <2>3, BufWriteHead
  <2>5. \A h \in Hosts : ~buf[h].nil => ~buf'[h].nil /\ buf'[h].first = buf[h].first
    BY <1>0, <2>1, <2>2, <2>4
  <2> QED BY <2>2, <2>5 DEF Names, Up
<1>2. ASSUME NEW p \in Checkpointers, NEW h \in Hosts, SnapHost(p, h)
      PROVE  Names'
  <2> DEFINE new == SnapshotOf(buf[h], ck[p].from, ck[p].to)
  <2>1. /\ snaps' = [snaps EXCEPT ![h] = {f \in @ : f.from # ck[p].from} \cup {new}]
        /\ UNCHANGED <<phase, startedAt, buf>> /\ Up /\ ck[p].pc = "snap" /\ ~buf[h].nil
    BY <1>2 DEF SnapHost, HasNew
  <2>2. startedAt <= new.from /\ new.start = Larger(new.from, buf[h].first)
    BY <2>1 DEF Clocks, SnapshotOf
  <2> HIDE DEF new
  <2>3. \A g \in Hosts : \A f \in snaps'[g] : f \in snaps[g] \/ (g = h /\ f = new)
    BY <1>0, <2>1
  <2> QED BY <2>1, <2>2, <2>3 DEF Names, Up
<1>3. CASE StartWorkers
  <2>1. \A h \in Hosts : \A f \in snaps[h] : f.from < clock /\ f.start <= clock
    <3>1. \A t \in Past : t < clock /\ t <= clock
      BY <1>0, <1>3 DEF StartWorkers, Past
    <3> QED BY <3>1 DEF FilesPast, PastFiles
  <2> QED BY <1>3, <2>1 DEF StartWorkers, Names
<1>4. CASE UNCHANGED <<phase, startedAt, snaps, buf>>
  BY <1>4 DEF Names, Up
<1>5. CASE ShutdownBegin \/ FinalBegin \/ FinalEnd
  BY <1>5 DEF ShutdownBegin, FinalBegin, FinalEnd, Names, Up
<1>6. CASE Exit \/ Crash \/ Restart
  <2>1. ~Up'
    BY <1>6 DEF Exit, Crash, Die, Restart, Up
  <2> QED BY <2>1 DEF Names
<1>7. CASE \E h \in Hosts : LoadSnapshot(h) \/ ReplayRecord(h)
  <2>1. ~Up'
    BY <1>7 DEF LoadSnapshot, ReplayRecord, Up
  <2> QED BY <2>1 DEF Names
<1> QED
  BY <1>1, <1>2, <1>3, <1>4, <1>5, <1>6, <1>7
     DEF Next, Tick, Receive, Stage, Flush, StagingStop, Rotate,
         SnapNothing, SnapError, PeriodicBegin, PeriodicEnd, RotationDone, RotationTimeout,
         PeriodicExit, vars

(* A new file fits into the order of the others (SnapHost).                *)
LEMMA StepLoadable ==
  ASSUME TypeOK, Clocks, FilesPast, Heads, Names, LoadableInOrder, [Next]_vars
  PROVE  LoadableInOrder'
<1> USE DEF procVars, memVars, walVars, bootVars
<1>1. ASSUME NEW p \in Checkpointers, NEW h \in Hosts, SnapHost(p, h)
      PROVE  LoadableInOrder'
  <2> DEFINE new == SnapshotOf(buf[h], ck[p].from, ck[p].to)
  <2>1. /\ snaps' = [snaps EXCEPT ![h] = {f \in @ : f.from # ck[p].from} \cup {new}]
        /\ Up /\ ck[p].pc = "snap" /\ ~buf[h].nil /\ snaps \in [Hosts -> SUBSET SnapFiles]
    BY <1>1 DEF SnapHost, HasNew, TypeOK
  <2>2. /\ ck[p].from \in Nat /\ ck[p].to \in Nat /\ buf[h] \in Bufs /\ startedAt \in Nat
    BY DEF TypeOK, CkStates
  <2>3. /\ startedAt <= new.from /\ new.start = Larger(new.from, buf[h].first)
        /\ new \in SnapFiles
    BY <2>1, <2>2, SnapshotType DEF Clocks, SnapshotOf
  <2> HIDE DEF new
  <2>4. ASSUME NEW f \in snaps[h]
        PROVE  /\ f.from < new.from => f.start <= new.start
               /\ new.from < f.from => new.start <= f.start
    <3>1. f \in SnapFiles
      BY <2>1
    <3>2. /\ f.from \in Nat /\ f.start \in Nat /\ new.from \in Nat /\ new.start \in Nat
          /\ buf[h].first \in Nat
      BY <2>2, <2>3, <3>1 DEF SnapFiles, Bufs
    <3>3. CASE f.from < startedAt /\ f.start <= startedAt
      BY <2>2, <2>3, <3>2, <3>3 DEF Larger
    <3>4. CASE f.start = Larger(f.from, buf[h].first)
      BY <2>3, <3>2, <3>4 DEF Larger
    <3> QED BY <2>1, <3>3, <3>4 DEF Names
  <2>5. \A g \in Hosts : \A f \in snaps'[g] : f \in snaps[g] \/ (g = h /\ f = new)
    BY <2>1
  <2>6. new.from \in Nat
    BY <2>3 DEF SnapFiles
  <2> QED BY <2>4, <2>5, <2>6 DEF LoadableInOrder
<1>2. CASE UNCHANGED snaps
  BY <1>2 DEF LoadableInOrder
<1> QED
  BY <1>1, <1>2
     DEF Next, Tick, Receive, Write, Stage, Flush, StagingStop, Rotate, LoadSnapshot,
         ReplayRecord, SnapNothing, SnapError, PeriodicBegin, PeriodicEnd, RotationDone,
         RotationTimeout, PeriodicExit, ShutdownBegin, FinalBegin, FinalEnd, Exit, Crash, Die,
         Restart, StartWorkers, vars

(* What checkpointing owes is in memory, or on disk when memory is gone.   *)
LEMMA StepOwed ==
  ASSUME TypeOK, Clocks, FilesPast, Heads, OwedOK, [Next]_vars
  PROVE  OwedOK'
<1> USE DEF procVars, memVars, walVars, bootVars, OwedOK
<1>0. /\ startedAt \in Nat /\ buf \in [Hosts -> Bufs] /\ owed \in [Hosts -> SUBSET Nat]
      /\ clock \in Nat /\ ck \in [Checkpointers -> CkStates]
      /\ "periodic" \in Checkpointers /\ "final" \in Checkpointers
  BY DEF TypeOK, Checkpointers
<1>1. ASSUME NEW w \in Writers, Write(w)
      PROVE  OwedOK'
  <2>1. PICK h \in Hosts, t \in Nat : wr[w] = <<h, t>>
    <3>1. wr[w] \in Hosts \X Nat
      BY <1>1 DEF Write, TypeOK, None, Samples
    <3>2. wr[w] = <<wr[w][1], wr[w][2]>> /\ wr[w][1] \in Hosts /\ wr[w][2] \in Nat
      BY <3>1
    <3> QED BY <3>2
  <2>2. /\ buf' = [buf EXCEPT ![h] = BufWrite(buf[h], t)]
        /\ \/ owed' = owed
           \/ /\ owed' = [owed EXCEPT ![h] = @ \cup {t}]
              /\ t \in BufWrite(buf[h], t).mem /\ ~Overlapping
        /\ UNCHANGED <<phase, startedAt, lastCheckpoint, ck, snaps>> /\ Up
    BY <1>1, <2>1 DEF Write
  <2>3. HeadOK(buf[h], startedAt)
    BY <2>2 DEF Heads, Since, Up
  <2>4. buf[h].mem \subseteq BufWrite(buf[h], t).mem
    BY <1>0, <2>3, BufWriteHead
  <2>5. \A g \in Hosts : \A x \in owed'[g] : startedAt <= x => x \in buf'[g].mem
    BY <1>0, <2>2, <2>4
  <2>6. Overlapping' <=> Overlapping
    BY <2>2 DEF Overlapping
  <2> QED BY <2>2, <2>5, <2>6 DEF Up
<1>2. ASSUME NEW p \in Checkpointers, NEW h \in Hosts,
             SnapHost(p, h) \/ SnapNothing(p, h) \/ SnapError(p, h)
      PROVE  OwedOK'
  <2>1. /\ UNCHANGED <<procVars, buf>> /\ Up
        /\ ck' = [ck EXCEPT ![p] = Succeeded(ck[p], h)] \/ ck' = [ck EXCEPT ![p] = Skipped(ck[p], h)]
    BY <1>2 DEF SnapHost, SnapNothing, SnapError
  <2>2. owed' = owed \/ owed' = [owed EXCEPT ![h] = {t \in owed[h] : t < ck[p].from}]
    BY <1>2 DEF SnapHost, SnapNothing, SnapError
  <2>3. \A g \in Hosts : owed'[g] \subseteq owed[g]
    BY <1>0, <2>2
  <2>4. Overlapping' => Overlapping
    <3>1. ck[p] \in CkStates
      BY <1>0
    <3>2. Succeeded(ck[p], h).pc = ck[p].pc /\ Skipped(ck[p], h).pc = ck[p].pc
      BY <3>1 DEF Succeeded, Skipped, CkStates
    <3> QED BY <1>0, <2>1, <3>2 DEF Overlapping
  <2> QED BY <2>1, <2>3, <2>4 DEF Up
<1>3. CASE PeriodicBegin
  <2>1. /\ UNCHANGED <<procVars, buf, snaps>> /\ Up /\ owed' = OwedIfAlone("final")
        /\ ck'["final"] = ck["final"]
    BY <1>0, <1>3 DEF PeriodicBegin
  <2>2. \A h \in Hosts : owed'[h] \subseteq owed[h]
    BY <1>0, <2>1 DEF OwedIfAlone
  <2>3. Overlapping' => \A h \in Hosts : \A t \in owed'[h] : t < lastCheckpoint
    BY <2>1 DEF OwedIfAlone, Overlapping
  <2> QED BY <2>1, <2>2, <2>3 DEF Up
<1>4. CASE FinalBegin
  <2>1. /\ UNCHANGED <<startedAt, lastCheckpoint, buf, snaps>> /\ Up /\ Up'
        /\ owed' = OwedIfAlone("periodic") /\ ck'["periodic"] = ck["periodic"]
    BY <1>0, <1>4 DEF FinalBegin, Up
  <2>2. \A h \in Hosts : owed'[h] \subseteq owed[h]
    BY <1>0, <2>1 DEF OwedIfAlone
  <2>3. Overlapping' => \A h \in Hosts : \A t \in owed'[h] : t < lastCheckpoint
    BY <2>1 DEF OwedIfAlone, Overlapping
  <2> QED BY <2>1, <2>2, <2>3
<1>5. CASE PeriodicEnd \/ RotationDone \/ RotationTimeout \/ PeriodicExit
  <2>1. UNCHANGED <<startedAt, phase, buf, snaps, owed>> /\ Up
    BY <1>5 DEF PeriodicEnd, RotationDone, RotationTimeout, PeriodicExit
  <2>2. ck'["periodic"].pc # "snap"
    <3>1. /\ [Idle EXCEPT !.pc = "gone"].pc = "gone" /\ Idle.pc = "idle"
          /\ [ck["periodic"] EXCEPT !.pc = "wait"].pc = "wait"
      BY <1>0 DEF Idle, CkStates
    <3> QED BY <1>0, <1>5, <3>1
         DEF PeriodicEnd, RotationDone, RotationTimeout, PeriodicExit
  <2> QED BY <2>1, <2>2 DEF Up, Overlapping
<1>6. CASE Exit \/ Crash
  <2>1. Die
    BY <1>6 DEF Exit, Crash
  <2>2. ~Up' /\ ~Overlapping'
    BY <2>1 DEF Die, Up, Overlapping, Idle, Checkpointers
  <2>3. \A h \in Hosts : owed'[h] \subseteq SnapData(h)'
    BY <2>1 DEF Die, SnapData
  <2> QED BY <2>2, <2>3
<1>7. CASE Restart \/ \E h \in Hosts : LoadSnapshot(h) \/ ReplayRecord(h)
  <2>1. ~Up /\ ~Up' /\ UNCHANGED <<owed, snaps, ck, lastCheckpoint>>
    BY <1>7 DEF Restart, LoadSnapshot, ReplayRecord, Up
  <2> QED BY <2>1 DEF SnapData, Overlapping
<1>8. CASE StartWorkers
  <2>1. ~Up /\ UNCHANGED <<owed, snaps, ck>> /\ startedAt' = clock /\ phase = "load" /\ Up'
    BY <1>8 DEF StartWorkers, Up
  <2>2. \A t \in Past : ~(clock <= t)
    BY <1>0, <2>1 DEF Past
  <2>3. \A h \in Hosts : \A t \in owed[h] : t \in Past
    <3>1. \A h \in Hosts : \A f \in snaps[h] : f.data \subseteq Past
      BY DEF FilesPast, PastFiles
    <3>2. \A h \in Hosts : owed[h] \subseteq UNION {f.data : f \in snaps[h]}
      BY <2>1 DEF SnapData
    <3> QED BY <3>1, <3>2
  <2>4. ~Overlapping
    BY <1>0, <2>1 DEF Overlapping, Clocks
  <2>5. ~Overlapping'
    BY <2>1, <2>4 DEF Overlapping
  <2> QED BY <2>1, <2>2, <2>3, <2>5
<1>9. CASE ShutdownBegin \/ FinalEnd
  <2>1. Up /\ Up' /\ UNCHANGED <<startedAt, lastCheckpoint, buf, snaps, owed, ck>>
    BY <1>9 DEF ShutdownBegin, FinalEnd, Up
  <2> QED BY <2>1 DEF Overlapping
<1>10. CASE UNCHANGED <<phase, startedAt, lastCheckpoint, buf, snaps, owed, ck>>
  BY <1>10 DEF Up, SnapData, Overlapping
<1> QED
  BY <1>1, <1>2, <1>3, <1>4, <1>5, <1>6, <1>7, <1>8, <1>9, <1>10
     DEF Next, Tick, Receive, Stage, Flush, StagingStop, Rotate, vars

(* The next snapshot of a host never reaches behind the start.             *)
LEMMA NextFromSince ==
  ASSUME TypeOK, Clocks, Up, NEW h \in Hosts
  PROVE  NextFrom(h) \in Nat /\ startedAt <= NextFrom(h)
<1>1. /\ startedAt \in Nat /\ lastCheckpoint \in Nat
      /\ \A p \in Checkpointers : ck[p].from \in Nat /\ ck[p].to \in Nat
      /\ "periodic" \in Checkpointers /\ "final" \in Checkpointers
  BY DEF TypeOK, CkStates, Checkpointers
<1>2. \A p \in Checkpointers : Taken(p, h) => startedAt <= ck[p].to
  BY <1>1 DEF Taken, Clocks
<1> QED BY <1>1, <1>2 DEF NextFrom, Clocks

(* When a checkpointer is through with a host, the host's next snapshot    *)
(* begins where this one ends, unless Shutdown's has settled that already. *)
LEMMA Through ==
  ASSUME TypeOK, Clocks, NEW p \in Checkpointers, NEW h \in Hosts,
         ck[p].pc = "snap", h \in ck[p].todo, lastCheckpoint' = lastCheckpoint,
         \/ ck' = [ck EXCEPT ![p] = Succeeded(ck[p], h)]
         \/ ck' = [ck EXCEPT ![p] = Skipped(ck[p], h)]
  PROVE  /\ \A g \in Hosts : g # h => NextFrom(g)' = NextFrom(g)
         /\ \/ NextFrom(h)' = ck[p].to /\ ck[p].from <= NextFrom(h)
            \/ NextFrom(h)' = NextFrom(h) /\ Overlapping /\ ck[p].from = lastCheckpoint
<1>1. /\ ck \in [Checkpointers -> CkStates] /\ ck[p] \in CkStates /\ lastCheckpoint \in Nat
      /\ \A q \in Checkpointers : ck[q].from \in Nat /\ ck[q].to \in Nat
      /\ "periodic" \in Checkpointers /\ "final" \in Checkpointers
  BY DEF TypeOK, CkStates, Checkpointers
<1>2. /\ Succeeded(ck[p], h).pc = ck[p].pc /\ Skipped(ck[p], h).pc = ck[p].pc
      /\ Succeeded(ck[p], h).to = ck[p].to /\ Skipped(ck[p], h).to = ck[p].to
      /\ Succeeded(ck[p], h).todo = ck[p].todo \ {h} /\ Skipped(ck[p], h).todo = ck[p].todo \ {h}
  BY <1>1 DEF Succeeded, Skipped, CkStates
<1>3. \A q \in Checkpointers :
        /\ ck'[q].pc = ck[q].pc /\ ck'[q].to = ck[q].to
        /\ ck'[q].todo = IF q = p THEN ck[q].todo \ {h} ELSE ck[q].todo
  BY <1>1, <1>2
<1>4. ASSUME NEW g \in Hosts, NEW q \in Checkpointers
      PROVE  Taken(q, g)' <=> Taken(q, g) \/ (q = p /\ g = h)
  BY <1>3 DEF Taken
<1>5. \A g \in Hosts : g # h => NextFrom(g)' = NextFrom(g)
  BY <1>1, <1>3, <1>4 DEF NextFrom
<1>6. CASE p = "final"
  <2>1. NextFrom(h)' = ck[p].to
    BY <1>1, <1>3, <1>4, <1>6 DEF NextFrom
  <2>2. ~Taken("final", h)
    BY <1>6 DEF Taken
  <2>3. CASE Taken("periodic", h)
    <3>1. NextFrom(h) = ck["periodic"].to /\ ck["periodic"].pc = "snap"
      BY <2>2, <2>3 DEF NextFrom, Taken
    <3>2. lastCheckpoint <= ck["periodic"].to /\ ck[p].from <= lastCheckpoint
      BY <1>1, <3>1 DEF Clocks
    <3> QED BY <1>1, <1>5, <2>1, <3>1, <3>2
  <2>4. CASE ~Taken("periodic", h)
    <3>1. NextFrom(h) = lastCheckpoint /\ ck[p].from <= lastCheckpoint
      BY <2>2, <2>4 DEF NextFrom, Clocks
    <3> QED BY <1>5, <2>1, <3>1
  <2> QED BY <2>3, <2>4
<1>7. CASE p = "periodic"
  <2>1. ck[p].from = lastCheckpoint
    BY <1>7 DEF Clocks
  <2>2. CASE Taken("final", h)
    <3>1. Overlapping
      BY <1>7, <2>2 DEF Overlapping, Taken
    <3>2. NextFrom(h)' = NextFrom(h)
      BY <1>1, <1>3, <1>4, <2>2 DEF NextFrom
    <3> QED BY <1>5, <2>1, <3>1, <3>2
  <2>3. CASE ~Taken("final", h)
    <3>1. ~Taken("periodic", h)
      BY <1>7 DEF Taken
    <3>2. NextFrom(h) = lastCheckpoint
      BY <2>3, <3>1 DEF NextFrom
    <3>3. ~Taken("final", h)' /\ Taken("periodic", h)'
      BY <1>1, <1>4, <1>7, <2>3
    <3>4. NextFrom(h)' = ck[p].to
      BY <1>1, <1>3, <1>7, <3>3 DEF NextFrom
    <3> QED BY <1>1, <1>5, <2>1, <3>2, <3>4
  <2> QED BY <2>2, <2>3
<1> QED BY <1>6, <1>7 DEF Checkpointers

(* The ranges of the snapshots abut (SnapHost, SnapNothing, PeriodicEnd).  *)
LEMMA StepCovers ==
  ASSUME TypeOK, Clocks, FilesPast, Levels, Heads, OwedOK, CheckpointCovers, [Next]_vars
  PROVE  CheckpointCovers'
<1> USE DEF procVars, memVars, walVars, bootVars
<1>0. /\ startedAt \in Nat /\ buf \in [Hosts -> Bufs] /\ owed \in [Hosts -> SUBSET Nat]
      /\ clock \in Nat /\ lastCheckpoint \in Nat /\ snaps \in [Hosts -> SUBSET SnapFiles]
      /\ ck \in [Checkpointers -> CkStates]
      /\ \A q \in Checkpointers : ck[q].from \in Nat /\ ck[q].to \in Nat
      /\ "periodic" \in Checkpointers /\ "final" \in Checkpointers
  BY DEF TypeOK, Checkpointers, CkStates
<1>1. ASSUME NEW w \in Writers, Write(w)
      PROVE  CheckpointCovers'
  <2>1. PICK h \in Hosts, t \in Nat : wr[w] = <<h, t>>
    <3>1. wr[w] \in Hosts \X Nat
      BY <1>1 DEF Write, TypeOK, None, Samples
    <3>2. wr[w] = <<wr[w][1], wr[w][2]>> /\ wr[w][1] \in Hosts /\ wr[w][2] \in Nat
      BY <3>1
    <3> QED BY <3>2
  <2>2. /\ \/ owed' = owed
           \/ owed' = [owed EXCEPT ![h] = @ \cup {t}] /\ t >= NextFrom(h)
        /\ UNCHANGED <<lastCheckpoint, ck, snaps>> /\ Up
    BY <1>1, <2>1 DEF Write
  <2>3. \A g \in Hosts : NextFrom(g)' = NextFrom(g) /\ SnapData(g)' = SnapData(g)
    BY <2>2 DEF NextFrom, Taken, SnapData
  <2>4. \A g \in Hosts : \A x \in owed'[g] : x \in owed[g] \/ (g = h /\ x = t /\ t >= NextFrom(h))
    BY <1>0, <2>2
  <2>5. NextFrom(h) \in Nat
    BY <2>2, NextFromSince
  <2> QED BY <2>3, <2>4, <2>5 DEF CheckpointCovers
<1>2. ASSUME NEW p \in Checkpointers, NEW h \in Hosts,
             SnapHost(p, h) \/ SnapNothing(p, h) \/ SnapError(p, h)
      PROVE  CheckpointCovers'
  <2>1. /\ ck[p].pc = "snap" /\ h \in ck[p].todo /\ Up /\ UNCHANGED procVars
        /\ \/ ck' = [ck EXCEPT ![p] = Succeeded(ck[p], h)]
           \/ ck' = [ck EXCEPT ![p] = Skipped(ck[p], h)]
    BY <1>2 DEF SnapHost, SnapNothing, SnapError
  <2>2. /\ \A g \in Hosts : g # h => NextFrom(g)' = NextFrom(g)
        /\ \/ NextFrom(h)' = ck[p].to /\ ck[p].from <= NextFrom(h)
           \/ NextFrom(h)' = NextFrom(h) /\ Overlapping /\ ck[p].from = lastCheckpoint
    BY <2>1, Through
  <2>3. NextFrom(h) \in Nat /\ startedAt <= ck[p].from /\ phase # "load"
    BY <2>1, NextFromSince DEF Clocks, Up
  <2>4. ASSUME NEW t \in owed[h], t < NextFrom(h)', t < ck[p].from
        PROVE  t \in SnapData(h)
    <3>1. t < NextFrom(h)
      BY <1>0, <2>2, <2>3, <2>4
    <3> QED BY <3>1 DEF CheckpointCovers
  <2>5. ASSUME NEW t \in owed[h], t < NextFrom(h)', ~(t < ck[p].from)
        PROVE  /\ t < ck[p].to /\ t \in buf[h].mem /\ t \in Nat /\ ck[p].from <= t
               /\ HasNew(buf[h], ck[p].from, ck[p].to)
    <3>1. t \in Nat
      BY <1>0
    <3>2. ~Overlapping \/ ck[p].from # lastCheckpoint
      BY <1>0, <2>5, <3>1 DEF OwedOK
    <3>3. t < ck[p].to
      BY <2>2, <2>5, <3>2
    <3>4. t \in buf[h].mem /\ startedAt <= t
      BY <1>0, <2>1, <2>3, <2>5, <3>1 DEF OwedOK
    <3>5. HeadOK(buf[h], startedAt)
      BY <2>3 DEF Heads, Since
    <3>6. ~buf[h].nil /\ ~buf[h].arch /\ buf[h].start <= t /\ t < buf[h].end
      BY <3>4, <3>5 DEF HeadOK
    <3>7. buf[h].start \in Nat /\ buf[h].end \in Nat
      BY <1>0 DEF Bufs
    <3> QED BY <1>0, <2>5, <3>1, <3>3, <3>4, <3>6, <3>7 DEF HasNew
  <2>6. ASSUME NEW g \in Hosts, g # h, snaps'[g] = snaps[g], owed'[g] \subseteq owed[g],
               NEW t \in owed'[g], t < NextFrom(g)'
        PROVE  t \in SnapData(g)'
    <3>1. t \in SnapData(g)
      BY <2>2, <2>6 DEF CheckpointCovers
    <3> QED BY <2>6, <3>1 DEF SnapData
  <2>7. CASE SnapHost(p, h)
    <3> DEFINE new == SnapshotOf(buf[h], ck[p].from, ck[p].to)
    <3>1. /\ snaps' = [snaps EXCEPT ![h] = {f \in @ : f.from # ck[p].from} \cup {new}]
          /\ owed' = owed
      BY <2>7 DEF SnapHost
    <3>2. new.data = {t \in buf[h].mem : ck[p].from <= t /\ t < ck[p].to}
      BY DEF SnapshotOf
    <3> HIDE DEF new
    <3>3. ASSUME NEW t \in owed[h], t < NextFrom(h)'
          PROVE  t \in SnapData(h)'
      <4>1. CASE t < ck[p].from
        <5>1. PICK f \in snaps[h] : t \in f.data
          BY <2>4, <3>3, <4>1 DEF SnapData
        <5>2. f.from <= t /\ f.from \in Nat /\ t \in Nat
          BY <1>0, <5>1 DEF FilesPast, SnapFiles
        <5>3. f.from # ck[p].from
          BY <1>0, <4>1, <5>2
        <5>4. f \in snaps'[h]
          BY <1>0, <3>1, <5>3
        <5> QED BY <5>1, <5>4 DEF SnapData
      <4>2. CASE ~(t < ck[p].from)
        <5>1. t \in new.data
          BY <2>5, <3>2, <3>3, <4>2
        <5>2. new \in snaps'[h]
          BY <1>0, <3>1
        <5> QED BY <5>1, <5>2 DEF SnapData
      <4> QED BY <4>1, <4>2
    <3>4. \A g \in Hosts : g # h => snaps'[g] = snaps[g]
      BY <1>0, <3>1
    <3> QED BY <2>6, <3>1, <3>3, <3>4 DEF CheckpointCovers
  <2>8. CASE SnapNothing(p, h)
    <3>1. snaps' = snaps /\ owed' = owed /\ ~HasNew(buf[h], ck[p].from, ck[p].to)
      BY <2>8 DEF SnapNothing
    <3>2. ASSUME NEW t \in owed[h], t < NextFrom(h)'
          PROVE  t \in SnapData(h)'
      BY <2>4, <2>5, <3>1, <3>2 DEF SnapData
    <3> QED BY <2>6, <3>1, <3>2 DEF CheckpointCovers
  <2>9. CASE SnapError(p, h)
    <3>1. snaps' = snaps /\ owed' = [owed EXCEPT ![h] = {t \in owed[h] : t < ck[p].from}]
      BY <2>9 DEF SnapError
    <3>2. ASSUME NEW t \in owed'[h], t < NextFrom(h)'
          PROVE  t \in SnapData(h)'
      <4>1. t \in owed[h] /\ t < ck[p].from
        BY <1>0, <3>1
      <4> QED BY <2>4, <3>1, <3>2, <4>1 DEF SnapData
    <3>3. \A g \in Hosts : g # h => owed'[g] = owed[g]
      BY <1>0, <3>1
    <3> QED BY <2>6, <3>1, <3>2, <3>3 DEF CheckpointCovers
  <2> QED BY <1>2, <2>7, <2>8, <2>9
<1>3. ASSUME PeriodicBegin \/ FinalBegin
      PROVE  CheckpointCovers'
  <2>1. /\ Up /\ snaps' = snaps /\ lastCheckpoint' = lastCheckpoint
        /\ owed' = OwedIfAlone("final") \/ owed' = OwedIfAlone("periodic")
    BY <1>3 DEF PeriodicBegin, FinalBegin, Up
  <2>2. \A h \in Hosts : owed'[h] \subseteq owed[h]
    BY <1>0, <2>1 DEF OwedIfAlone
  <2>3. PICK p \in Checkpointers :
          /\ ck[p].pc # "snap"
          /\ ck' = [ck EXCEPT ![p] = [pc |-> "snap", from |-> lastCheckpoint, to |-> clock,
                                      todo |-> levels, ok |-> {}]]
    BY <1>0, <1>3 DEF PeriodicBegin, FinalBegin, Clocks
  <2>4. ASSUME NEW h \in levels, h \in Hosts
        PROVE  NextFrom(h)' = NextFrom(h)
    <3>1. \A q \in Checkpointers : Taken(q, h)' <=> Taken(q, h)
      BY <1>0, <2>3, <2>4 DEF Taken
    <3>2. \A q \in Checkpointers : Taken(q, h) => ck'[q].to = ck[q].to
      BY <1>0, <2>3 DEF Taken
    <3> QED BY <1>0, <2>1, <3>1, <3>2 DEF NextFrom
  <2>5. ASSUME NEW h \in Hosts, NEW t \in owed[h], t < NextFrom(h)'
        PROVE  t < NextFrom(h)
    <3>1. CASE h \in levels
      BY <2>4, <2>5, <3>1
    <3>2. CASE h \notin levels
      <4>1. buf[h].nil
        BY <3>2 DEF Levels
      <4>2. HeadOK(buf[h], startedAt)
        BY <2>1 DEF Heads, Since, Up
      <4>3. buf[h].mem = {}
        BY <4>1, <4>2 DEF HeadOK
      <4>4. ~(startedAt <= t)
        BY <2>1, <4>3 DEF OwedOK
      <4>5. NextFrom(h) \in Nat /\ startedAt <= NextFrom(h) /\ t \in Nat
        BY <1>0, <2>1, NextFromSince
      <4> QED BY <1>0, <4>4, <4>5
    <3> QED BY <3>1, <3>2
  <2> QED BY <2>1, <2>2, <2>5 DEF CheckpointCovers, SnapData
<1>4. CASE PeriodicEnd
  <2>1. /\ Up /\ ck["periodic"].pc = "snap" /\ ck["periodic"].todo = {}
        /\ UNCHANGED <<owed, snaps>> /\ ck'["final"] = ck["final"]
        /\ lastCheckpoint' = lastCheckpoint \/ lastCheckpoint' = ck["periodic"].to
    BY <1>0, <1>4 DEF PeriodicEnd
  <2>2. ck'["periodic"].pc # "snap"
    <3>1. [ck["periodic"] EXCEPT !.pc = "wait"].pc = "wait" /\ Idle.pc = "idle"
      BY <1>0 DEF CkStates, Idle
    <3> QED BY <1>0, <1>4, <3>1 DEF PeriodicEnd
  <2>3. lastCheckpoint <= ck["periodic"].to
    BY <1>0, <2>1 DEF Clocks
  <2>4. ASSUME NEW h \in Hosts
        PROVE  NextFrom(h)' <= NextFrom(h) /\ NextFrom(h)' \in Nat /\ NextFrom(h) \in Nat
    <3>1. Taken("periodic", h) /\ ~Taken("periodic", h)' /\ (Taken("final", h)' <=> Taken("final", h))
      BY <2>1, <2>2 DEF Taken
    <3> QED BY <1>0, <2>1, <2>3, <3>1 DEF NextFrom
  <2>5. \A h \in Hosts : \A t \in owed[h] : t \in Nat /\ (t < NextFrom(h)' => t < NextFrom(h))
    BY <1>0, <2>4
  <2> QED BY <2>1, <2>5 DEF CheckpointCovers, SnapData
<1>5. CASE RotationDone \/ RotationTimeout \/ PeriodicExit
  <2>1. /\ UNCHANGED <<owed, snaps, lastCheckpoint>> /\ ck'["final"] = ck["final"]
        /\ ck["periodic"].pc # "snap" /\ ck'["periodic"].pc # "snap"
    <3>1. [Idle EXCEPT !.pc = "gone"].pc = "gone" /\ Idle.pc = "idle"
      BY DEF Idle
    <3> QED BY <1>0, <1>5, <3>1 DEF RotationDone, RotationTimeout, PeriodicExit
  <2>2. \A h \in Hosts : NextFrom(h)' = NextFrom(h)
    BY <2>1 DEF NextFrom, Taken
  <2> QED BY <2>1, <2>2 DEF CheckpointCovers, SnapData
<1>6. CASE Exit \/ Crash
  <2>1. Die
    BY <1>6 DEF Exit, Crash
  <2>2. \A h \in Hosts : owed'[h] \subseteq SnapData(h)'
    BY <2>1 DEF Die, SnapData
  <2> QED BY <2>2 DEF CheckpointCovers
<1>7. CASE Restart \/ StartWorkers \/ \E h \in Hosts : LoadSnapshot(h) \/ ReplayRecord(h)
  <2>1. ~Up /\ UNCHANGED <<owed, snaps>>
    BY <1>7 DEF Restart, StartWorkers, LoadSnapshot, ReplayRecord, Up
  <2>2. \A h \in Hosts : owed'[h] \subseteq SnapData(h)'
    BY <2>1 DEF OwedOK, SnapData
  <2> QED BY <2>2 DEF CheckpointCovers
<1>8. CASE UNCHANGED <<lastCheckpoint, ck, owed, snaps>>
  BY <1>8 DEF CheckpointCovers, NextFrom, Taken, SnapData
<1> QED
  BY <1>1, <1>2, <1>3, <1>4, <1>5, <1>6, <1>7, <1>8
     DEF Next, Tick, Receive, Stage, Flush, StagingStop, Rotate, ShutdownBegin, FinalEnd, vars

(* The inductive invariant of checkpointing.                               *)
CheckpointInv ==
  /\ TypeOK /\ Clocks /\ Arrived /\ FilesPast /\ Levels /\ Heads
  /\ Names /\ LoadableInOrder /\ OwedOK /\ CheckpointCovers

LEMMA InitCheckpoint == Init => CheckpointInv
<1> SUFFICES ASSUME Init PROVE CheckpointInv
  OBVIOUS
<1>1. TypeOK
  BY InitType
<1>2. \A p \in Checkpointers : ck[p].pc = "idle"
  BY DEF Init, Idle
<1>3. Past = {0}
  BY DEF Init, Past
<1>4. Clocks
  BY <1>2, <1>3 DEF Init, Clocks, Checkpointers, Up
<1>5. \A h \in Hosts : buf[h].nil /\ buf[h].mem = {} /\ buf[h].first = 0 /\ ~buf[h].arch
  BY DEF Init, NilBuf
<1>6. Arrived
  <2>1. /\ <<>> \in Seq(Hosts \X Past) /\ <<>> \in Seq(Past) /\ <<>> \in Seq(Past \cup {Torn})
    OBVIOUS
  <2> QED BY <1>3, <1>5, <2>1 DEF Init, Arrived
<1>7. FilesPast /\ Levels /\ Names /\ LoadableInOrder /\ OwedOK /\ CheckpointCovers
  BY <1>2, <1>5 DEF Init, FilesPast, Levels, Names, LoadableInOrder, OwedOK, CheckpointCovers,
                    Up, Overlapping, Checkpointers
<1>8. Heads
  BY <1>5 DEF Heads, HeadOK
<1> QED BY <1>1, <1>4, <1>6, <1>7, <1>8 DEF CheckpointInv

LEMMA CheckpointInvariant == Spec => []CheckpointInv
<1>1. CheckpointInv /\ [Next]_vars => CheckpointInv'
  BY StepType, StepClocks, StepArrived, StepFilesPast, StepLevels, StepHeads, StepNames,
     StepLoadable, StepOwed, StepCovers DEF CheckpointInv
<1> QED BY <1>1, InitCheckpoint, PTL DEF Spec

(* Whatever checkpoints, crashes and restarts have left on disk can be     *)
(* loaded in the order of the names (loadFile), with any number of hosts,  *)
(* late samples and failing snapshots.                                     *)
THEOREM WalLoadableInOrder == Spec => []LoadableInOrder
<1>1. CheckpointInv => LoadableInOrder
  BY DEF CheckpointInv
<1> QED BY <1>1, CheckpointInvariant, PTL

(* Consecutive snapshots leave no hole (Checkpointing, ToCheckpointWAL).   *)
THEOREM WalCheckpointCovers == Spec => []CheckpointCovers
<1>1. CheckpointInv => CheckpointCovers
  BY DEF CheckpointInv
<1> QED BY <1>1, CheckpointInvariant, PTL
-----------------------------------------------------------------------------
(* What carries a start-up through.                                        *)

(* Of some numbers one is the least.                                       *)
LEMMA LeastExists ==
  ASSUME NEW T \in SUBSET Nat, T # {}
  PROVE  \E x \in T : \A y \in T : x <= y
<1>1. PICK x \in T : \A y \in T : ~(<<y, x>> \in OpToRel(<, Nat))
  BY NatLessThanWellFounded, WFMin
<1>2. \A a, b \in Nat : <<a, b>> \in OpToRel(<, Nat) <=> a < b
  BY DEF OpToRel
<1>3. ASSUME NEW y \in T PROVE x <= y
  <2>1. ~(y < x)
    BY <1>1, <1>2
  <2> QED BY <2>1
<1> QED BY <1>3

(* A host has one snapshot of a name.                                      *)
OneOfAName == \A h \in Hosts : \A f, g \in snaps[h] : f.from = g.from => f = g

(* The files still to be loaded are on disk and behind what is loaded.     *)
Loading ==
  phase = "load" => \A h \in Hosts :
    /\ pending[h] \subseteq snaps[h]
    /\ ~buf[h].nil => \A g \in pending[h] : buf[h].start <= g.start

LEMMA StepOneOfAName ==
  ASSUME TypeOK, OneOfAName, [Next]_vars
  PROVE  OneOfAName'
<1> USE DEF procVars, memVars, walVars, bootVars
<1>1. ASSUME NEW p \in Checkpointers, NEW h \in Hosts, SnapHost(p, h)
      PROVE  OneOfAName'
  <2> DEFINE new == SnapshotOf(buf[h], ck[p].from, ck[p].to)
  <2>1. /\ snaps' = [snaps EXCEPT ![h] = {f \in @ : f.from # ck[p].from} \cup {new}]
        /\ snaps \in [Hosts -> SUBSET SnapFiles]
    BY <1>1 DEF SnapHost, TypeOK
  <2>2. new.from = ck[p].from
    BY DEF SnapshotOf
  <2> HIDE DEF new
  <2>3. \A g \in Hosts : \A f \in snaps'[g] :
          \/ f \in snaps[g] /\ (g = h => f.from # ck[p].from)
          \/ g = h /\ f = new
    BY <2>1
  <2> QED BY <2>2, <2>3 DEF OneOfAName
<1>2. CASE UNCHANGED snaps
  BY <1>2 DEF OneOfAName
<1> QED
  BY <1>1, <1>2
     DEF Next, Tick, Receive, Write, Stage, Flush, StagingStop, Rotate, LoadSnapshot,
         ReplayRecord, SnapNothing, SnapError, PeriodicBegin, PeriodicEnd, RotationDone,
         RotationTimeout, PeriodicExit, ShutdownBegin, FinalBegin, FinalEnd, Exit, Crash, Die,
         Restart, StartWorkers, vars

(* A file that has been loaded was the first in name, so it is the first   *)
(* in start.                                                               *)
LEMMA StepLoading ==
  ASSUME TypeOK, Levels, LoadableInOrder, OneOfAName, Loading, [Next]_vars
  PROVE  Loading'
<1> USE DEF procVars, memVars, walVars, bootVars
<1>0. /\ buf \in [Hosts -> Bufs] /\ snaps \in [Hosts -> SUBSET SnapFiles]
      /\ pending \in [Hosts -> SUBSET SnapFiles]
  BY DEF TypeOK
<1>1. CASE Restart
  <2>1. \A h \in Hosts : buf[h].nil
    BY <1>1 DEF Restart, Levels
  <2> QED BY <1>1, <2>1 DEF Restart, Loading
<1>2. ASSUME NEW h \in Hosts, LoadSnapshot(h)
      PROVE  Loading'
  <2>1. PICK f \in pending[h] :
          /\ \A g \in pending[h] : f.from <= g.from
          /\ pending' = [pending EXCEPT ![h] = @ \ {f}]
          /\ buf' = [buf EXCEPT ![h] = LoadBuf(@, f)]
    BY <1>2 DEF LoadSnapshot
  <2>2. phase = "load" /\ UNCHANGED <<phase, snaps>>
    BY <1>2 DEF LoadSnapshot
  <2>3. pending[h] \subseteq snaps[h] /\ f \in SnapFiles
    BY <1>0, <2>2 DEF Loading
  <2>4. ASSUME NEW g \in pending[h], g # f
        PROVE  f.start <= g.start
    <3>1. f.from < g.from
      <4>1. f.from # g.from
        BY <2>3, <2>4 DEF OneOfAName
      <4>2. f.from <= g.from
        BY <2>1
      <4>3. f.from \in Nat /\ g.from \in Nat
        BY <1>0, <2>3 DEF SnapFiles
      <4> QED BY <4>1, <4>2, <4>3
    <3> QED BY <2>3, <3>1 DEF LoadableInOrder
  <2>5. buf'[h].start = f.start
    BY <1>0, <2>1 DEF LoadBuf
  <2>6. \A k \in Hosts : k # h => buf'[k] = buf[k] /\ pending'[k] = pending[k]
    BY <1>0, <2>1
  <2>7. pending'[h] = pending[h] \ {f}
    BY <1>0, <2>1
  <2> QED BY <2>2, <2>3, <2>4, <2>5, <2>6, <2>7 DEF Loading
<1>3. ASSUME NEW h \in Hosts, ReplayRecord(h)
      PROVE  Loading'
  <2>1. /\ phase = "load" /\ pending[h] = {} /\ UNCHANGED <<phase, snaps, pending>>
        /\ \A k \in Hosts : k # h => buf'[k] = buf[k]
    BY <1>0, <1>3 DEF ReplayRecord
  <2> QED BY <2>1 DEF Loading
<1>4. CASE phase' # "load"
  BY <1>4 DEF Loading
<1>5. CASE UNCHANGED <<phase, snaps, pending, buf>>
  BY <1>5 DEF Loading
<1>6. CASE Up /\ UNCHANGED phase
  BY <1>4, <1>6 DEF Up
<1> QED
  BY <1>1, <1>2, <1>3, <1>4, <1>5, <1>6
     DEF Next, Tick, Receive, Write, Stage, Flush, StagingStop, Rotate,
         SnapHost, SnapNothing, SnapError, PeriodicBegin, PeriodicEnd, RotationDone,
         RotationTimeout, PeriodicExit, ShutdownBegin, FinalBegin, FinalEnd, Exit, Crash, Die,
         StartWorkers, vars

(* The inductive invariant of start-up.                                    *)
StartUpInv == CheckpointInv /\ OneOfAName /\ Loading

LEMMA StartUpInvariant == Spec => []StartUpInv
<1>1. Init => OneOfAName /\ Loading
  BY DEF Init, OneOfAName, Loading
<1>2. CheckpointInv /\ OneOfAName /\ Loading /\ [Next]_vars => (OneOfAName /\ Loading)'
  BY StepOneOfAName, StepLoading DEF CheckpointInv
<1> QED BY <1>1, <1>2, CheckpointInvariant, PTL DEF Spec, StartUpInv

(* Whatever was on disk when the process started, loadFile never meets a   *)
(* file that starts before its predecessor: no sequence of checkpoints,    *)
(* failures, crashes and restarts keeps the server from starting.          *)
THEOREM WalStartUpGoesOn == Spec => []StartUpGoesOn
<1>1. ASSUME StartUpInv PROVE StartUpGoesOn
  <2> SUFFICES ASSUME phase = "load", NEW h \in Hosts, pending[h] # {}
               PROVE  \E f \in pending[h] :
                        /\ \A g \in pending[h] : f.from <= g.from
                        /\ buf[h].nil \/ buf[h].start <= f.start
    BY DEF StartUpGoesOn
  <2> DEFINE names == {f.from : f \in pending[h]}
  <2>1. names \in SUBSET Nat /\ names # {}
    BY <1>1 DEF StartUpInv, CheckpointInv, TypeOK, SnapFiles
  <2>2. PICK n \in names : \A m \in names : n <= m
    BY <2>1, LeastExists
  <2>3. PICK f \in pending[h] : f.from = n
    BY <2>2
  <2> QED BY <1>1, <2>2, <2>3 DEF StartUpInv, Loading
<1> QED BY <1>1, StartUpInvariant, PTL
-----------------------------------------------------------------------------
(* Each snapshot of a host is in memory or still to be loaded.             *)
InMemory(h) == \A f \in snaps[h] : f \in pending[h] \/ f.data \subseteq buf[h].mem

Served ==
  /\ phase # "down" => \A h \in Hosts : InMemory(h)
  /\ Up => \A h \in Hosts : pending[h] = {}

(* Writing and loading forget nothing.                                     *)
LEMMA MemGrows ==
  ASSUME NEW b, b \in Bufs, b.nil => b.mem = {}
  PROVE  /\ \A t : b.mem \subseteq BufWrite(b, t).mem
         /\ \A f : LoadBuf(b, f).mem = b.mem \cup f.data
<1>1. ASSUME NEW t PROVE b.mem \subseteq BufWrite(b, t).mem
  <2>1. CASE b.nil
    BY <2>1
  <2>2. CASE ~b.nil
    BY <2>2 DEF BufWrite, Bufs
  <2> QED BY <2>1, <2>2
<1>2. \A f : LoadBuf(b, f).mem = b.mem \cup f.data
  BY DEF LoadBuf
<1> QED BY <1>1, <1>2

(* A step that forgets nothing in memory, writes no snapshot and takes no  *)
(* file from the pending ones.                                             *)
LEMMA InMemoryKept ==
  ASSUME NEW h \in Hosts, InMemory(h), snaps'[h] = snaps[h], pending'[h] = pending[h],
         buf[h].mem \subseteq buf'[h].mem
  PROVE  InMemory(h)'
BY DEF InMemory

LEMMA StepServed ==
  ASSUME TypeOK, Heads, Served, [Next]_vars
  PROVE  Served'
<1> USE DEF procVars, memVars, walVars, bootVars
<1>0. /\ buf \in [Hosts -> Bufs] /\ snaps \in [Hosts -> SUBSET SnapFiles]
      /\ pending \in [Hosts -> SUBSET SnapFiles] /\ wr \in [Writers -> {None} \cup Samples]
  BY DEF TypeOK
<1>m. ASSUME NEW h \in Hosts
      PROVE  /\ \A t : buf[h].mem \subseteq BufWrite(buf[h], t).mem
             /\ \A f : LoadBuf(buf[h], f).mem = buf[h].mem \cup f.data
  <2>1. buf[h] \in Bufs /\ (buf[h].nil => buf[h].mem = {})
    BY <1>0 DEF Heads, HeadOK
  <2> QED BY <2>1, MemGrows
<1>1. ASSUME NEW w \in Writers, Write(w)
      PROVE  Served'
  <2>1. Up /\ wr[w] # None /\ UNCHANGED <<phase, snaps, pending>>
        /\ buf' = [buf EXCEPT ![wr[w][1]] = BufWrite(buf[wr[w][1]], wr[w][2])]
    BY <1>1 DEF Write
  <2>2. wr[w][1] \in Hosts
    BY <1>0, <2>1 DEF Samples
  <2>3. \A h \in Hosts : buf[h].mem \subseteq buf'[h].mem
    BY <1>0, <1>m, <2>1, <2>2
  <2>4. \A h \in Hosts : InMemory(h) => InMemory(h)'
    BY <2>1, <2>3, InMemoryKept
  <2> QED BY <2>1, <2>4 DEF Served, Up
<1>2. ASSUME NEW h \in Hosts, LoadSnapshot(h)
      PROVE  Served'
  <2>1. PICK f \in pending[h] :
          /\ pending' = [pending EXCEPT ![h] = @ \ {f}]
          /\ buf' = [buf EXCEPT ![h] = LoadBuf(@, f)]
    BY <1>2 DEF LoadSnapshot
  <2>2. phase = "load" /\ UNCHANGED <<phase, snaps>>
    BY <1>2 DEF LoadSnapshot
  <2>3. /\ pending'[h] = pending[h] \ {f} /\ buf'[h].mem = buf[h].mem \cup f.data
        /\ \A k \in Hosts : k # h => buf'[k] = buf[k] /\ pending'[k] = pending[k]
    <3>1. buf'[h] = LoadBuf(buf[h], f)
      BY <1>0, <2>1
    <3> QED BY <1>0, <1>m, <2>1, <3>1
  <2>4. \A k \in Hosts : InMemory(k)
    BY <2>2 DEF Served
  <2>5. InMemory(h)'
    BY <2>2, <2>3, <2>4 DEF InMemory
  <2>6. \A k \in Hosts : k # h => InMemory(k)'
    BY <2>2, <2>3, <2>4, InMemoryKept
  <2> QED BY <2>2, <2>5, <2>6 DEF Served, Up
<1>3. ASSUME NEW h \in Hosts, ReplayRecord(h)
      PROVE  Served'
  <2>1. /\ phase = "load" /\ UNCHANGED <<phase, snaps, pending>>
        /\ \/ buf' = buf
           \/ buf' = [buf EXCEPT ![h] = BufWrite(@, Head(replay[h]))]
    BY <1>3 DEF ReplayRecord
  <2>2. \A k \in Hosts : buf[k].mem \subseteq buf'[k].mem
    BY <1>0, <1>m, <2>1
  <2>3. \A k \in Hosts : InMemory(k) => InMemory(k)'
    BY <2>1, <2>2, InMemoryKept
  <2> QED BY <2>1, <2>3 DEF Served, Up
<1>4. ASSUME NEW p \in Checkpointers, NEW h \in Hosts, SnapHost(p, h)
      PROVE  Served'
  <2> DEFINE new == SnapshotOf(buf[h], ck[p].from, ck[p].to)
  <2>1. /\ Up /\ UNCHANGED <<phase, pending, buf>>
        /\ snaps' = [snaps EXCEPT ![h] = {f \in @ : f.from # ck[p].from} \cup {new}]
    BY <1>4 DEF SnapHost
  <2>2. new.data \subseteq buf[h].mem
    BY DEF SnapshotOf
  <2> HIDE DEF new
  <2>3. \A k \in Hosts : \A f \in snaps'[k] : f \in snaps[k] \/ (k = h /\ f = new)
    BY <1>0, <2>1
  <2>4. \A k \in Hosts : InMemory(k)
    BY <2>1 DEF Served, Up
  <2>5. \A k \in Hosts : InMemory(k)'
    BY <2>1, <2>2, <2>3, <2>4 DEF InMemory
  <2> QED BY <2>1, <2>5 DEF Served, Up
<1>5. CASE Restart
  BY <1>5 DEF Restart, Served, InMemory, Up
<1>6. CASE StartWorkers
  <2>1. /\ phase = "load" /\ \A h \in Hosts : pending[h] = {}
        /\ phase' = "run" /\ UNCHANGED <<snaps, pending, buf>>
    BY <1>6 DEF StartWorkers
  <2> QED BY <2>1 DEF Served, InMemory
<1>7. CASE phase' = "down"
  BY <1>7 DEF Served, Up
<1>8. CASE UNCHANGED <<phase, snaps, pending, buf>>
  BY <1>8 DEF Served, InMemory, Up
<1>9. CASE Up /\ Up' /\ UNCHANGED <<snaps, pending, buf>>
  BY <1>9 DEF Served, InMemory, Up
<1> QED
  BY <1>1, <1>2, <1>3, <1>4, <1>5, <1>6, <1>7, <1>8, <1>9
     DEF Next, Tick, Receive, Stage, Flush, StagingStop, Rotate,
         SnapNothing, SnapError, PeriodicBegin, PeriodicEnd, RotationDone,
         RotationTimeout, PeriodicExit, ShutdownBegin, FinalBegin, FinalEnd, Exit, Crash, Die,
         Up, vars

LEMMA ServedInvariant == Spec => []Served
<1>1. Init => Served
  BY DEF Init, Served, InMemory, Up
<1>2. CheckpointInv /\ Served /\ [Next]_vars => Served'
  BY StepServed DEF CheckpointInv
<1> QED BY <1>1, <1>2, CheckpointInvariant, PTL DEF Spec

(* No crash, restart or order of loading hides a snapshot: whatever is in  *)
(* one is in memory as long as the store is up (FromCheckpointFiles).      *)
THEOREM WalSnapshotsAreServed == Spec => []SnapshotsAreServed
<1>1. Served => SnapshotsAreServed
  <2> SUFFICES ASSUME Served, Up, NEW h \in Hosts, NEW f \in snaps[h]
               PROVE  f.data \subseteq buf[h].mem
    BY DEF SnapshotsAreServed, SnapData
  <2>1. phase # "down"
    BY DEF Up
  <2> QED BY <2>1 DEF Served, InMemory
<1> QED BY <1>1, ServedInvariant, PTL

(* What a snapshot was to take is never lost: in every later process it is *)
(* in memory again as soon as the store is up, and stays on disk.          *)
THEOREM WalOwedIsDurable ==
  Spec => [](Up => \A h \in Hosts : \A t \in owed[h] :
                     t < NextFrom(h) => t \in SnapData(h) /\ t \in buf[h].mem)
<1>1. CheckpointCovers /\ SnapshotsAreServed =>
        (Up => \A h \in Hosts : \A t \in owed[h] :
                 t < NextFrom(h) => t \in SnapData(h) /\ t \in buf[h].mem)
  BY DEF CheckpointCovers, SnapshotsAreServed
<1> QED BY <1>1, WalCheckpointCovers, WalSnapshotsAreServed, PTL
=============================================================================
