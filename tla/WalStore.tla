------------------------------ MODULE WalStore ------------------------------
(***************************************************************************)
(* Durability of the in-memory metric store: package pkg/metricstore with  *)
(* file-format "wal".  A sample enters through DecodeLine, which first     *)
(* offers it to the write-ahead log and then writes it to memory; one      *)
(* staging goroutine per shard appends to current.wal; the checkpointing   *)
(* worker writes one binary snapshot per host and then has the WAL files   *)
(* rotated; Shutdown writes a final snapshot; a restart loads the          *)
(* snapshots and replays the WAL.                                          *)
(*                                                                         *)
(* Abstractions.  One metric per host; a sample is a host and a time       *)
(* stamp, one clock tick is one measurement interval; sample values and    *)
(* record encodings are left out.  Buffers are never full (512 samples in  *)
(* the code), never freed, and everything is inside the retention window.  *)
(* A crash is a crash of the process: what was written to a file stays.    *)
(***************************************************************************)
EXTENDS Naturals, Sequences

CONSTANTS
  Hosts,        \* compute nodes (cluster and node name)
  Shards,       \* WAL shards, one staging goroutine each
  ShardOf,      \* walShardIndex: the shard of a host
  Writers,      \* goroutines running DecodeLine
  ChanCap,      \* capacity of a shard's message channel
  MaxWALSize,   \* records after which current.wal is force-rotated, 0: never
  MaxDelay,     \* how many ticks a sample may arrive late
  IoErrors,     \* whether writing a snapshot file may fail
  MaxTime,      \* bound on the clock; one more at a restart
  MaxSamples,   \* bound on the samples received
  Torn          \* what a record cut off by a crash looks like to a reader

ASSUME WalStoreAssumption ==
  /\ ShardOf \in [Hosts -> Shards]
  /\ ChanCap \in Nat /\ MaxWALSize \in Nat /\ MaxDelay \in Nat
  /\ MaxTime \in Nat /\ MaxSamples \in Nat
  /\ IoErrors \in BOOLEAN
  /\ Torn \notin Nat

VARIABLES
  clock,          \* time.Now(), in ticks
  phase,          \* life of the process, see Phases
  startedAt,      \* time of the last start
  lastCheckpoint, \* lower bound of the next snapshot
  levels,         \* hosts that have a level in the tree
  buf,            \* per host: what memory holds and the head buffer
  wr,             \* per writer: the sample between WAL and memory
  received,       \* number of samples received so far
  chan,           \* per shard: WAL messages not yet taken by staging
  alive,          \* shards whose staging goroutine runs
  open,           \* hosts whose WAL file staging holds open
  walBuf,         \* per host: records in the bufio.Writer
  walFile,        \* per host: records in current.wal
  rot,            \* hosts with a pending rotation request
  ck,             \* the two checkpointers: the periodic worker and Shutdown
  snaps,          \* per host: the <from>.bin files
  pending,        \* per host: snapshots still to be loaded at start-up
  replay,         \* per host: WAL records still to be replayed at start-up
  owed            \* history: per host, the samples checkpointing must keep

walVars  == <<chan, alive, open, walBuf, walFile, rot>>
procVars == <<clock, phase, startedAt, lastCheckpoint>>
memVars  == <<levels, buf, wr, received>>
bootVars == <<pending, replay>>
vars     == <<procVars, memVars, walVars, ck, snaps, bootVars, owed>>

(* load: FromCheckpointFiles; run; closing: ctx cancelled, walShuttingDown *)
(* set; final: Shutdown's checkpoint; stopped: Shutdown returned; down.    *)
Phases == {"load", "run", "closing", "final", "stopped", "down"}
Up     == phase \in {"run", "closing", "final", "stopped"}
None   == <<>>
Samples == Hosts \X Nat

Larger(a, b)  == IF a < b THEN b ELSE a
Smaller(a, b) == IF a < b THEN a ELSE b
-----------------------------------------------------------------------------
(* The buffer chain of a host.  first is the start of the oldest buffer,   *)
(* start, end and arch describe the head, mem is what all of them hold.    *)

NilBuf == [nil |-> TRUE, mem |-> {}, first |-> 0, start |-> 0, end |-> 0,
           arch |-> FALSE]

Bufs == [nil : BOOLEAN, mem : SUBSET Nat, first : Nat, start : Nat,
         end : Nat, arch : BOOLEAN]

(* buffer.write: a sample before the head is refused; behind a loaded      *)
(* buffer, whose capacity is its length, a new head is created; otherwise  *)
(* it goes into the head, which stays archived if it was.                  *)
BufWrite(b, t) ==
  IF b.nil THEN
    [nil |-> FALSE, mem |-> {t}, first |-> t, start |-> t, end |-> t + 1,
     arch |-> FALSE]
  ELSE IF t < b.start THEN b
  ELSE IF b.arch /\ t >= b.end THEN
    [nil |-> FALSE, mem |-> b.mem \cup {t}, first |-> b.first, start |-> t,
     end |-> t + 1, arch |-> FALSE]
  ELSE
    [b EXCEPT !.mem = @ \cup {t}, !.end = Larger(@, t + 1)]

(* toCheckpointFile skips a metric when every buffer iterFromTo visits is  *)
(* archived: only the head can be a buffer that is not.                    *)
HasNew(b, from, to) == ~b.nil /\ ~b.arch /\ b.start <= to /\ from <= b.end

SnapFiles == [from : Nat, start : Nat, end : Nat, data : SUBSET Nat]

(* Mutants of SnapshotOf: an inclusive end with no lower clamp; and the     *)
(* zero start that a read of no data would leave behind.                   *)
SnapshotOfUnclamped(b, from, to) ==
  LET start == Larger(from, b.first)
  IN  [from |-> from, start |-> start,
       end  |-> Smaller(to, b.end) - 1,
       data |-> {t \in b.mem : from <= t /\ t < to}]

SnapshotOfZeroStart(b, from, to) ==
  LET start == Larger(from, b.first)
      data  == {t \in b.mem : from <= t /\ t < to}
  IN  [from |-> from, start |-> IF data = {} THEN 0 ELSE start,
       end  |-> Larger(start, Smaller(to, b.end)), data |-> data]

(* What toCheckpointFile reads: [from, to), from moved up to the oldest    *)
(* buffer, and no further than the head reaches.                           *)
SnapshotOf(b, from, to) ==
  LET start == Larger(from, b.first)
  IN  [from |-> from, start |-> start,
       end  |-> Larger(start, Smaller(to, b.end)),
       data |-> {t \in b.mem : from <= t /\ t < to}]

SnapData(h) == UNION {s.data : s \in snaps[h]}

(* The records of current.wal a reader gets to: up to a torn one.          *)
Readable(h) ==
  {walFile[h][i] : i \in {j \in 1..Len(walFile[h]) :
                            \A k \in 1..j : walFile[h][k] # Torn}}
-----------------------------------------------------------------------------
(* The checkpointers.                                                      *)

Idle == [pc |-> "idle", from |-> 0, to |-> 0, todo |-> {}, ok |-> {}]

Checkpointers == {"periodic", "final"}

CkStates == [pc : {"idle", "snap", "wait", "gone"}, from : Nat, to : Nat,
             todo : SUBSET Hosts, ok : SUBSET Hosts]

(* A checkpointer's worker is through with a host.                         *)
Skipped(c, h)   == [c EXCEPT !.todo = @ \ {h}]
Succeeded(c, h) == [c EXCEPT !.todo = @ \ {h}, !.ok = @ \cup {h}]

(* walCheckpointActive                                                     *)
CheckpointActive == ck["periodic"].pc \in {"snap", "wait"}

(* Periodic checkpoint and final checkpoint at work at the same time.      *)
Overlapping == ck["periodic"].pc = "snap" /\ ck["final"].pc = "snap"

(* Lower bound of the next snapshot that will read the host's memory.      *)
Taken(p, h) == ck[p].pc = "snap" /\ h \notin ck[p].todo
NextFrom(h) ==
  IF Taken("final", h)         THEN ck["final"].to
  ELSE IF Taken("periodic", h) THEN ck["periodic"].to
  ELSE lastCheckpoint

Init ==
  /\ clock = 0 /\ phase = "run" /\ startedAt = 0 /\ lastCheckpoint = 0
  /\ levels = {} /\ buf = [h \in Hosts |-> NilBuf]
  /\ wr = [w \in Writers |-> None] /\ received = 0
  /\ chan = [s \in Shards |-> <<>>] /\ alive = Shards /\ open = {}
  /\ walBuf = [h \in Hosts |-> <<>>] /\ walFile = [h \in Hosts |-> <<>>]
  /\ rot = {}
  /\ ck = [p \in Checkpointers |-> Idle]
  /\ snaps = [h \in Hosts |-> {}]
  /\ pending = [h \in Hosts |-> {}]
  /\ replay = [h \in Hosts |-> <<>>]
  /\ owed = [h \in Hosts |-> {}]

Tick ==
  /\ phase # "down" /\ phase # "load" /\ clock < MaxTime
  /\ clock' = clock + 1
  /\ UNCHANGED <<phase, startedAt, lastCheckpoint, memVars, walVars, ck,
                 snaps, bootVars, owed>>
-----------------------------------------------------------------------------
(* DecodeLine, first half: the level is created (GetLevel) and the sample  *)
(* offered to the WAL.  SendWALMessage refuses while shutting down, skips  *)
(* while a checkpoint is active, and drops when the channel is full.       *)
Receive(w, h, t) ==
  LET s == ShardOf[h]
  IN  /\ Up /\ wr[w] = None /\ received < MaxSamples
      /\ t <= clock /\ clock <= t + MaxDelay
      /\ wr' = [wr EXCEPT ![w] = <<h, t>>]
      /\ received' = received + 1
      /\ levels' = levels \cup {h}
      /\ chan' = IF phase = "run" /\ ~CheckpointActive /\ Len(chan[s]) < ChanCap
                 THEN [chan EXCEPT ![s] = Append(@, <<h, t>>)]
                 ELSE chan
      /\ UNCHANGED <<procVars, buf, alive, open, walBuf, walFile, rot, ck,
                     snaps, bootVars,
                 owed>>

(* DecodeLine, second half: WriteToLevel.  A refused write is only logged. *)
Write(w) ==
  /\ Up /\ wr[w] # None
  /\ LET h == wr[w][1]
         t == wr[w][2]
         b == BufWrite(buf[h], t)
     IN  /\ buf' = [buf EXCEPT ![h] = b]
         /\ owed' = IF t \in b.mem /\ t >= NextFrom(h) /\ ~Overlapping
                    THEN [owed EXCEPT ![h] = @ \cup {t}]
                    ELSE owed
  /\ wr' = [wr EXCEPT ![w] = None]
  /\ UNCHANGED <<procVars, levels, received, walVars, ck, snaps, bootVars>>
-----------------------------------------------------------------------------
(* WALStaging.                                                             *)

(* processMsg: open the file on first use, force-rotate one that has       *)
(* reached its limit, append to the buffered writer.                       *)
Stage(s) ==
  /\ Up /\ s \in alive /\ chan[s] # <<>>
  /\ LET h == Head(chan[s])[1]
         t == Head(chan[s])[2]
         full == MaxWALSize > 0 /\ Len(walFile[h]) + Len(walBuf[h]) >= MaxWALSize
     IN  /\ walFile' = IF full THEN [walFile EXCEPT ![h] = <<>>] ELSE walFile
         /\ walBuf' = [walBuf EXCEPT ![h] = IF full THEN <<t>> ELSE Append(@, t)]
         /\ open' = open \cup {h}
  /\ chan' = [chan EXCEPT ![s] = Tail(@)]
  /\ UNCHANGED <<procVars, memVars, alive, rot, ck, snaps, bootVars,
                 owed>>

Flushed(s) ==
  [h \in Hosts |-> IF ShardOf[h] = s THEN walFile[h] \o walBuf[h] ELSE walFile[h]]
Emptied(s) ==
  [h \in Hosts |-> IF ShardOf[h] = s THEN <<>> ELSE walBuf[h]]

(* flushDirty, on the one-second ticker.                                   *)
Flush(s) ==
  /\ Up /\ s \in alive
  /\ \E h \in Hosts : ShardOf[h] = s /\ walBuf[h] # <<>>
  /\ walFile' = Flushed(s) /\ walBuf' = Emptied(s)
  /\ UNCHANGED <<procVars, memVars, chan, alive, open, rot, ck, snaps, bootVars,
                 owed>>

(* processRotate: only a file this process has opened is removed.          *)
Rotate(h) ==
  /\ Up /\ h \in rot /\ ShardOf[h] \in alive
  /\ IF h \in open
     THEN /\ walFile' = [walFile EXCEPT ![h] = <<>>]
          /\ walBuf' = [walBuf EXCEPT ![h] = <<>>]
          /\ open' = open \ {h}
     ELSE UNCHANGED <<walFile, walBuf, open>>
  /\ rot' = rot \ {h}
  /\ UNCHANGED <<procVars, memVars, chan, alive, ck, snaps, bootVars,
                 owed>>

(* The goroutine sees ctx.Done: it flushes, closes its files and returns;  *)
(* what is still in its channels is abandoned.                             *)
StagingStop(s) ==
  /\ Up /\ phase # "run" /\ s \in alive
  /\ walFile' = Flushed(s) /\ walBuf' = Emptied(s)
  /\ open' = {h \in open : ShardOf[h] # s}
  /\ alive' = alive \ {s}
  /\ chan' = [chan EXCEPT ![s] = <<>>]
  /\ UNCHANGED <<procVars, memVars, rot, ck, snaps, bootVars,
                 owed>>
-----------------------------------------------------------------------------
(* Checkpointing worker and Shutdown.                                      *)

(* Durability is owed only for what older checkpoints cover once both      *)
(* checkpointers are at work: they write the same <from>.bin.              *)
OwedIfAlone(other) ==
  IF ck[other].pc = "snap"
  THEN [h \in Hosts |-> {t \in owed[h] : t < lastCheckpoint}]
  ELSE owed

(* The ticker fires.  After ctx is cancelled the select may still take the *)
(* ticker once, so any phase will do.                                      *)
PeriodicBegin ==
  /\ Up /\ ck["periodic"].pc = "idle"
  /\ clock > lastCheckpoint
  /\ ck' = [ck EXCEPT !["periodic"] =
              [pc |-> "snap", from |-> lastCheckpoint, to |-> clock,
               todo |-> levels, ok |-> {}]]
  /\ owed' = OwedIfAlone("final")
  /\ UNCHANGED <<procVars, memVars, walVars, snaps, bootVars>>

(* toCheckpointBinary for one host: contents collected under the read      *)
(* lock, written to a temporary file and renamed to <from>.bin.            *)
SnapHost(p, h) ==
  LET c == ck[p]
      new == SnapshotOf(buf[h], c.from, c.to)
  IN  /\ Up /\ c.pc = "snap" /\ h \in c.todo
      /\ HasNew(buf[h], c.from, c.to)
      /\ snaps' = [snaps EXCEPT ![h] = {f \in @ : f.from # c.from} \cup {new}]
      /\ ck' = [ck EXCEPT ![p] = Succeeded(@, h)]
      /\ UNCHANGED <<procVars, memVars, walVars, bootVars, owed>>

(* ErrNoNewArchiveData: the host is neither counted nor rotated.           *)
SnapNothing(p, h) ==
  LET c == ck[p]
  IN  /\ Up /\ c.pc = "snap" /\ h \in c.todo
      /\ ~HasNew(buf[h], c.from, c.to)
      /\ ck' = [ck EXCEPT ![p] = Skipped(@, h)]
      /\ UNCHANGED <<procVars, memVars, walVars, snaps, bootVars,
                 owed>>

(* Writing the file fails: the host is left out of the successful ones.    *)
(* The range is never snapshotted again if another host succeeds.          *)
SnapError(p, h) ==
  LET c == ck[p]
  IN  /\ IoErrors /\ Up /\ c.pc = "snap" /\ h \in c.todo
      /\ HasNew(buf[h], c.from, c.to)
      /\ ck' = [ck EXCEPT ![p] = Skipped(@, h)]
      /\ owed' = [owed EXCEPT ![h] = {t \in @ : t < c.from}]
      /\ UNCHANGED <<procVars, memVars, walVars, snaps, bootVars>>

(* Mutant of PeriodicEnd: the next range starts where this one ended.      *)
PeriodicEndNow ==
  LET c == ck["periodic"]
      rotate == c.ok # {} /\ phase = "run"
  IN  /\ Up /\ c.pc = "snap" /\ c.todo = {}
      /\ lastCheckpoint' = IF c.ok = {} THEN lastCheckpoint ELSE clock
      /\ rot' = IF rotate THEN rot \cup c.ok ELSE rot
      /\ ck' = [ck EXCEPT !["periodic"] =
                  IF rotate THEN [@ EXCEPT !.pc = "wait"] ELSE Idle]
      /\ UNCHANGED <<clock, phase, startedAt, memVars, chan, alive, open,
                     walBuf, walFile, snaps, bootVars, owed>>

(* All hosts done: lastCheckpoint moves if any succeeded, and the WAL      *)
(* files of those that did are to be rotated, unless shutting down.        *)
PeriodicEnd ==
  LET c == ck["periodic"]
      rotate == c.ok # {} /\ phase = "run"
  IN  /\ Up /\ c.pc = "snap" /\ c.todo = {}
      /\ lastCheckpoint' = IF c.ok = {} THEN lastCheckpoint ELSE c.to
      /\ rot' = IF rotate THEN rot \cup c.ok ELSE rot
      /\ ck' = [ck EXCEPT !["periodic"] =
                  IF rotate THEN [@ EXCEPT !.pc = "wait"] ELSE Idle]
      /\ UNCHANGED <<clock, phase, startedAt, memVars, chan, alive, open,
                     walBuf, walFile, snaps, bootVars,
                 owed>>

(* RotateWALFiles returns: every request answered, or the 30 s timeout.    *)
RotationDone ==
  /\ Up /\ ck["periodic"].pc = "wait" /\ rot \cap ck["periodic"].ok = {}
  /\ ck' = [ck EXCEPT !["periodic"] = Idle]
  /\ UNCHANGED <<procVars, memVars, walVars, snaps, bootVars,
                 owed>>

(* Mutant of RotationTimeout: no timeout once the process shuts down.      *)
RotationTimeoutRunning ==
  /\ phase = "run" /\ ck["periodic"].pc = "wait"
  /\ rot \cap ck["periodic"].ok # {}
  /\ ck' = [ck EXCEPT !["periodic"] = Idle]
  /\ UNCHANGED <<procVars, memVars, walVars, snaps, bootVars, owed>>

RotationTimeout ==
  /\ Up /\ ck["periodic"].pc = "wait" /\ rot \cap ck["periodic"].ok # {}
  /\ ck' = [ck EXCEPT !["periodic"] = Idle]
  /\ UNCHANGED <<procVars, memVars, walVars, snaps, bootVars,
                 owed>>

(* The worker sees ctx.Done.                                               *)
PeriodicExit ==
  /\ Up /\ phase # "run" /\ ck["periodic"].pc = "idle"
  /\ ck' = [ck EXCEPT !["periodic"] = [Idle EXCEPT !.pc = "gone"]]
  /\ UNCHANGED <<procVars, memVars, walVars, snaps, bootVars,
                 owed>>

(* Shutdown: cancel the context and set walShuttingDown.                   *)
ShutdownBegin ==
  /\ phase = "run"
  /\ phase' = "closing"
  /\ UNCHANGED <<clock, startedAt, lastCheckpoint, memVars, walVars, ck, snaps, bootVars,
                 owed>>

(* WaitForWALStagingDrain has returned: the final checkpoint starts.       *)
FinalBegin ==
  /\ phase = "closing" /\ alive = {}
  /\ phase' = "final"
  /\ ck' = [ck EXCEPT !["final"] =
              [pc |-> "snap", from |-> lastCheckpoint, to |-> clock,
               todo |-> levels, ok |-> {}]]
  /\ owed' = OwedIfAlone("periodic")
  /\ UNCHANGED <<clock, startedAt, lastCheckpoint, memVars, walVars, snaps, bootVars>>

(* Mutant of FinalEnd: Shutdown insists on a snapshot of every host.       *)
FinalEndAll ==
  /\ phase = "final" /\ ck["final"].todo = {} /\ ck["final"].ok = levels
  /\ phase' = "stopped"
  /\ walFile' = [h \in Hosts |-> IF h \in ck["final"].ok THEN <<>> ELSE walFile[h]]
  /\ UNCHANGED <<clock, startedAt, lastCheckpoint, memVars, chan, alive, open,
                 walBuf, rot, ck, snaps, bootVars, owed>>

(* RotateWALFilesAfterShutdown: the files themselves are removed.          *)
FinalEnd ==
  /\ phase = "final" /\ ck["final"].todo = {}
  /\ phase' = "stopped"
  /\ walFile' = [h \in Hosts |-> IF h \in ck["final"].ok THEN <<>> ELSE walFile[h]]
  /\ UNCHANGED <<clock, startedAt, lastCheckpoint, memVars, chan, alive, open,
                 walBuf, rot, ck, snaps, bootVars,
                 owed>>
-----------------------------------------------------------------------------
(* The end of the process: after Shutdown, once the worker is gone         *)
(* (wg.Wait), or by a crash at any point.  Memory and channels are lost.   *)
Die ==
  /\ phase' = "down"
  /\ levels' = {} /\ buf' = [h \in Hosts |-> NilBuf]
  /\ wr' = [w \in Writers |-> None]
  /\ chan' = [s \in Shards |-> <<>>] /\ alive' = {} /\ open' = {} /\ rot' = {}
  /\ walBuf' = [h \in Hosts |-> <<>>]
  /\ ck' = [p \in Checkpointers |-> Idle]
  /\ pending' = [h \in Hosts |-> {}] /\ replay' = [h \in Hosts |-> <<>>]
  /\ owed' = [h \in Hosts |-> owed[h] \cap SnapData(h)]
  /\ UNCHANGED <<clock, startedAt, lastCheckpoint, received, snaps>>

Exit ==
  /\ phase = "stopped" /\ ck["periodic"].pc = "gone"
  /\ UNCHANGED walFile
  /\ Die

(* Of the buffered records a prefix has reached the file, because the      *)
(* bufio.Writer writes through when full, and the next one may be torn.    *)
Crash ==
  /\ phase # "down"
  /\ \E torn \in SUBSET {h \in Hosts : walBuf[h] # <<>>} :
       \E n \in [Hosts -> 0..MaxSamples] :
         /\ \A h \in Hosts : n[h] <= Len(walBuf[h]) - (IF h \in torn THEN 1 ELSE 0)
         /\ walFile' = [h \in Hosts |-> walFile[h] \o SubSeq(walBuf[h], 1, n[h])
                                        \o (IF h \in torn THEN <<Torn>> ELSE <<>>)]
  /\ Die

(* Init, FromCheckpointFiles: every host directory is to be loaded.        *)
Restart ==
  /\ phase = "down" /\ clock <= MaxTime
  /\ phase' = "load"
  /\ clock' = clock + 1
  /\ levels' = {h \in Hosts : snaps[h] # {} \/ walFile[h] # <<>>}
  /\ pending' = snaps
  /\ replay' = walFile
  /\ UNCHANGED <<startedAt, lastCheckpoint, buf, wr, received, walVars, ck,
                 snaps, owed>>

(* Mutant of LoadBuf: the new head is not linked to the buffers before it. *)
LoadBufUnlinked(b, f) ==
  [nil |-> FALSE, mem |-> f.data,
   first |-> IF b.nil THEN f.start ELSE b.first,
   start |-> f.start, end |-> f.end, arch |-> TRUE]

(* loadFile: a snapshot becomes an archived buffer, its capacity is its    *)
(* length, behind those loaded before.                                     *)
LoadBuf(b, f) ==
  [nil |-> FALSE, mem |-> b.mem \cup f.data,
   first |-> IF b.nil THEN f.start ELSE b.first,
   start |-> f.start, end |-> f.end, arch |-> TRUE]

(* Mutant of LoadSnapshot: the files are taken in any order.               *)
LoadSnapshotUnsorted(h) ==
  /\ phase = "load"
  /\ \E f \in pending[h] :
       /\ buf[h].nil \/ buf[h].start <= f.start
       /\ pending' = [pending EXCEPT ![h] = @ \ {f}]
       /\ buf' = [buf EXCEPT ![h] = LoadBuf(@, f)]
  /\ UNCHANGED <<procVars, levels, wr, received, walVars, ck, snaps,
                 replay, owed>>

(* fromCheckpoint takes the files in the order of their names.  One that   *)
(* starts before its predecessor is an error, which ends the process: the  *)
(* server never gets beyond this point.                                    *)
LoadSnapshot(h) ==
  /\ phase = "load"
  /\ \E f \in pending[h] :
       /\ \A g \in pending[h] : f.from <= g.from
       /\ buf[h].nil \/ buf[h].start <= f.start
       /\ pending' = [pending EXCEPT ![h] = @ \ {f}]
       /\ buf' = [buf EXCEPT ![h] = LoadBuf(@, f)]
  /\ UNCHANGED <<procVars, levels, wr, received, walVars, ck, snaps,
                 replay, owed>>

(* loadWALFile: one record; replay stops at a torn one, a refused write is *)
(* ignored.                                                                *)
ReplayRecord(h) ==
  /\ phase = "load" /\ pending[h] = {} /\ replay[h] # <<>>
  /\ IF Head(replay[h]) = Torn
     THEN /\ replay' = [replay EXCEPT ![h] = <<>>]
          /\ UNCHANGED buf
     ELSE /\ replay' = [replay EXCEPT ![h] = Tail(@)]
          /\ buf' = [buf EXCEPT ![h] = BufWrite(@, Head(replay[h]))]
  /\ UNCHANGED <<procVars, levels, wr, received, walVars, ck, snaps, pending,
                 owed>>

(* The workers start: lastCheckpoint is the time of the start.             *)
StartWorkers ==
  /\ phase = "load" /\ \A h \in Hosts : pending[h] = {} /\ replay[h] = <<>>
  /\ phase' = "run"
  /\ startedAt' = clock /\ lastCheckpoint' = clock
  /\ alive' = Shards
  /\ UNCHANGED <<clock, memVars, chan, open, walBuf, walFile, rot, ck, snaps, bootVars,
                 owed>>
-----------------------------------------------------------------------------
Snap(p) == \E h \in Hosts : SnapHost(p, h) \/ SnapNothing(p, h) \/ SnapError(p, h)

Next ==
  \/ Tick
  \/ \E w \in Writers, h \in Hosts, t \in 0..MaxTime : Receive(w, h, t)
  \/ \E w \in Writers : Write(w)
  \/ \E s \in Shards : Stage(s) \/ Flush(s) \/ StagingStop(s)
  \/ \E h \in Hosts : Rotate(h) \/ LoadSnapshot(h) \/ ReplayRecord(h)
  \/ \E p \in Checkpointers, h \in Hosts :
       SnapHost(p, h) \/ SnapNothing(p, h) \/ SnapError(p, h)
  \/ PeriodicBegin \/ PeriodicEnd \/ RotationDone \/ RotationTimeout
  \/ PeriodicExit
  \/ ShutdownBegin \/ FinalBegin \/ FinalEnd \/ Exit
  \/ Crash \/ Restart \/ StartWorkers

(* A checkpointer keeps working through its hosts and its rotations, the   *)
(* staging goroutines see the cancelled context, Shutdown goes on: running *)
(* goroutines are scheduled.  Nothing forces a sample, a tick, a           *)
(* checkpoint, a shutdown or a crash to begin.                             *)
Fairness ==
  /\ \A p \in Checkpointers : WF_vars(Snap(p))
  /\ WF_vars(PeriodicEnd) /\ WF_vars(RotationDone \/ RotationTimeout)
  /\ \A s \in Shards : WF_vars(StagingStop(s))
  /\ WF_vars(FinalBegin) /\ WF_vars(FinalEnd)

Spec     == Init /\ [][Next]_vars
FairSpec == Spec /\ Fairness
-----------------------------------------------------------------------------
(* Properties.                                                             *)

(* Every variable keeps its type; the two checkpointers differ only in     *)
(* that Shutdown's never waits.                                            *)
TypeOK ==
  /\ clock \in Nat /\ startedAt \in Nat /\ lastCheckpoint \in Nat
  /\ phase \in Phases
  /\ levels \subseteq Hosts
  /\ buf \in [Hosts -> Bufs]
  /\ wr \in [Writers -> {None} \cup Samples]
  /\ received \in Nat
  /\ chan \in [Shards -> Seq(Samples)]
  /\ alive \subseteq Shards /\ open \subseteq Hosts /\ rot \subseteq Hosts
  /\ walBuf \in [Hosts -> Seq(Nat)]
  /\ walFile \in [Hosts -> Seq(Nat \cup {Torn})]
  /\ ck \in [Checkpointers -> CkStates]
  /\ snaps \in [Hosts -> SUBSET SnapFiles]
  /\ pending \in [Hosts -> SUBSET SnapFiles]
  /\ replay \in [Hosts -> Seq(Nat \cup {Torn})]
  /\ owed \in [Hosts -> SUBSET Nat]

(* Consecutive snapshots leave no hole (Checkpointing, ToCheckpointWAL): a *)
(* sample that was not older than its host's next snapshot when it landed  *)
(* in memory is in a snapshot as soon as that snapshot is behind, through  *)
(* concurrent writes, failed hosts, crashes and restarts.                  *)
CheckpointCovers ==
  \A h \in Hosts : \A t \in owed[h] : t < NextFrom(h) => t \in SnapData(h)

(* The snapshots on disk can always be loaded (loadFile): whatever         *)
(* sequence of periodic, failed and final checkpoints, crashes and         *)
(* restarts wrote them, sorting them by name also sorts their buffers.  A  *)
(* violation would keep the server from starting (metricstore.Init).       *)
LoadableInOrder ==
  \A h \in Hosts : \A f, g \in snaps[h] : f.from < g.from => f.start <= g.start

(* A start-up gets through: the next file of each host is one that loadFile*)
(* takes, since an error there would keep the server from starting for     *)
(* good, and no start before has left files of which that is not true.     *)
StartUpGoesOn ==
  phase = "load" =>
    \A h \in Hosts : pending[h] # {} =>
      \E f \in pending[h] :
        /\ \A g \in pending[h] : f.from <= g.from
        /\ buf[h].nil \/ buf[h].start <= f.start

(* What a snapshot holds is served: it is in memory as long as the store   *)
(* is up, also after crashes and restarts (FromCheckpointFiles loads every *)
(* file, and none of them hides another).  With CheckpointCovers, a sample *)
(* that is owed comes back in every later process.                         *)
SnapshotsAreServed == Up => \A h \in Hosts : SnapData(h) \subseteq buf[h].mem

(* A checkpoint that has begun ends (the worker waits for the staging      *)
(* goroutines, which may have gone).                                       *)
CheckpointEnds ==
  ck["periodic"].pc = "snap" ~> ck["periodic"].pc \in {"idle", "gone"}

(* Shutdown returns: staging drains, the final checkpoint is written.      *)
ShutdownReturns == phase = "closing" ~> phase \in {"stopped", "down"}

(* Records of a host on their way to current.wal.                          *)
InPipeline(h) ==
  {walBuf[h][i] : i \in 1..Len(walBuf[h])}
    \cup {t \in 0..clock : \E i \in 1..Len(chan[ShardOf[h]]) :
                               chan[ShardOf[h]][i] = <<h, t>>}

OnDisk(h) == SnapData(h) \cup Readable(h) \cup InPipeline(h)

(* Between two steps of the checkpointing worker, with no handler under    *)
(* way and no rotation pending.                                            *)
AtRest ==
  /\ phase = "run" /\ ck["periodic"].pc = "idle" /\ rot = {}
  /\ \A w \in Writers : wr[w] = None

(* The comment on walCheckpointActive (walCheckpoint.go:102-104): the      *)
(* snapshot captures all in-memory data, so the WAL records of the time of *)
(* a checkpoint are redundant.  Then, at rest, nothing that is in memory   *)
(* and older than the last checkpoint is missing from the disk.            *)
SnapshotCapturesMemory ==
  AtRest => \A h \in Hosts : \A t \in buf[h].mem :
              startedAt <= t /\ t < lastCheckpoint => t \in OnDisk(h)

(* "Truly continuous (per-write) crash safety" (walCheckpoint.go:10): what *)
(* a start-up has replayed from the WAL stays on disk until a snapshot     *)
(* holds it.                                                               *)
ReplayedStaysOnDisk ==
  AtRest => \A h \in Hosts : \A t \in buf[h].mem :
              t < startedAt => t \in OnDisk(h)
=============================================================================
