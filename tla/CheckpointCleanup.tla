-------------------------- MODULE CheckpointCleanup --------------------------
(***************************************************************************)
(* The clean-up of checkpoint files (archive.go, parquetArchive.go).  Once *)
(* per retention period a run takes the snapshot files that are old        *)
(* enough.  In mode "archive" it goes from cluster to cluster: a feeder    *)
(* hands the hosts to workers, the workers load files and send them to the *)
(* main goroutine, which streams them to one Parquet file and removes the  *)
(* originals when that file is closed.  In mode "delete" the workers       *)
(* remove the files themselves.  Meanwhile checkpoints add files, any call *)
(* of the file system may fail, and the process may crash.                 *)
(*                                                                         *)
(* Abstractions.  Snapshot files are those of file format wal, which have  *)
(* new names and appear as a whole.  A file is known by its host, the time *)
(* in its name and whether it has rows or only gaps.  The rows of a host   *)
(* are written in one step.  Directories are read in any order.  A run     *)
(* starts within the unit of time in which its tick is due, which is so as *)
(* long as no run outlasts a period.                                       *)
(***************************************************************************)
EXTENDS Integers, FiniteSets

CONSTANTS
  Hosts, Clusters, ClusterOf, NoCluster,
  Workers,     \* NumWorkers goroutines
  ResultsCap,  \* room in the channel of results, 2 in the code
  Modes,       \* clean-up modes to check
  Retention,   \* RetentionInMemory
  MaxTime      \* bound on the clock

ASSUME CleanupAssumption ==
  /\ ClusterOf \in [Hosts -> Clusters] /\ NoCluster \notin Clusters
  /\ IsFiniteSet(Hosts) /\ IsFiniteSet(Clusters)
  /\ IsFiniteSet(Workers) /\ Workers # {}
  /\ ResultsCap \in Nat \ {0}
  /\ Modes \subseteq {"archive", "delete"}
  /\ Retention \in Nat \ {0} /\ MaxTime \in Nat \ {0}

VARIABLES
  mode,
  now,
  nextTick,        \* when the clean-up ticker fires next
  lastCheckpoint,  \* names the next snapshot files
  taken,           \* every snapshot file there has ever been
  disk,            \* those in the checkpoint directory
  parquet,         \* per cluster and name: snapshots a reader finds in the file
  again,           \* snapshots whose archiving had to be left unfinished
  phase, cutoff,
  todo,            \* clusters this run has still to do
  cluster,         \* the one it works on
  feed, work,      \* hosts still to be sent, hosts in the work channel
  worker, held,    \* per worker: what it does, and with which files
  results,         \* channel of results
  errs,            \* a directory could not be read
  written, counted, broken, writeErr,  \* the Parquet writer
  toDelete         \* files that go when the Parquet file is closed

time   == <<now, nextTick, lastCheckpoint>>
store  == <<taken, disk>>
pool   == <<feed, work, worker, held, errs>>
writer == <<written, counted, broken, writeErr>>
vars   == <<mode, time, store, parquet, again, phase, cutoff, todo, cluster, pool,
            results, writer, toDelete>>

Times == 0..MaxTime
Snapshots == [host : Hosts, from : Times, kind : {"rows", "gaps"}]
Phases == {"idle", "clusters", "open", "drain", "write", "remove", "delete"}

HostsOf(c) == {h \in Hosts : ClusterOf[h] = c}

Init ==
  /\ mode \in Modes
  /\ now = 1 /\ nextTick = 1 + Retention /\ lastCheckpoint = 1
  /\ taken = {} /\ disk = {} /\ again = {}
  /\ parquet = [c \in Clusters |-> [t \in Times |-> {}]]
  /\ phase = "idle" /\ cutoff = 0 /\ todo = {} /\ cluster = NoCluster
  /\ feed = {} /\ work = {} /\ results = {} /\ errs = FALSE
  /\ worker = [w \in Workers |-> "off"] /\ held = [w \in Workers |-> {}]
  /\ written = {} /\ counted = FALSE /\ broken = FALSE /\ writeErr = FALSE
  /\ toDelete = {}
-----------------------------------------------------------------------------
(* The rest of the metric store.                                           *)

Tick ==
  /\ now < MaxTime /\ now < nextTick
  /\ now' = now + 1
  /\ UNCHANGED <<mode, nextTick, lastCheckpoint, store, parquet, again, phase,
                 cutoff, todo, cluster, pool, results, writer, toDelete>>

(* A checkpoint: some hosts have data and can be written.                  *)
Checkpoint ==
  /\ lastCheckpoint < now
  /\ \E S \in SUBSET Hosts \ {{}} : \E k \in [S -> {"rows", "gaps"}] :
       LET new == {[host |-> h, from |-> lastCheckpoint, kind |-> k[h]] : h \in S}
       IN  taken' = taken \cup new /\ disk' = disk \cup new
  /\ lastCheckpoint' = now
  /\ UNCHANGED <<mode, now, nextTick, parquet, again, phase, cutoff, todo, cluster,
                 pool, results, writer, toDelete>>

(* Whether writing these files adds rows to a Parquet file.                *)
HasRows(S) == \E s \in S : s.kind = "rows"

Archived == UNION {parquet[c][t] : c \in Clusters, t \in Times}

(* A crash at any point and the next start: the goroutines are gone, and a *)
(* Parquet file that was not closed has no footer and cannot be read.      *)
Restart ==
  /\ nextTick' = now + Retention /\ lastCheckpoint' = now
  /\ again' = again \cup (disk \cap Archived)
  /\ phase' = "idle" /\ cutoff' = 0 /\ todo' = {} /\ cluster' = NoCluster
  /\ feed' = {} /\ work' = {} /\ results' = {} /\ errs' = FALSE
  /\ worker' = [w \in Workers |-> "off"] /\ held' = [w \in Workers |-> {}]
  /\ written' = {} /\ counted' = FALSE /\ broken' = FALSE /\ writeErr' = FALSE
  /\ toDelete' = {}
  /\ UNCHANGED <<mode, now, store, parquet>>
-----------------------------------------------------------------------------
(* cleanUpWorker and CleanupCheckpoints.                                   *)

Due ==
  /\ phase = "idle" /\ now = nextTick
  /\ cutoff' = now - Retention /\ nextTick' = now + Retention

(* archiveCheckpoints starts; os.ReadDir(checkpointsDir) may fail.         *)
BeginArchive ==
  /\ mode = "archive" /\ Due
  /\ \/ phase' = "clusters" /\ todo' = Clusters
     \/ UNCHANGED <<phase, todo>>
  /\ UNCHANGED <<mode, now, lastCheckpoint, store, parquet, again, cluster, pool,
                 results, writer, toDelete>>

(* deleteCheckpoints starts: a cluster whose directory cannot be read is   *)
(* passed over, and with the top directory all are.                        *)
BeginDelete ==
  /\ mode = "delete" /\ Due
  /\ \/ /\ phase' = "delete"
        /\ worker' = [w \in Workers |-> "wait"]
        /\ \E C \in SUBSET Clusters : feed' = {h \in Hosts : ClusterOf[h] \in C}
     \/ UNCHANGED <<phase, worker, feed>>
  /\ UNCHANGED <<mode, now, lastCheckpoint, store, parquet, again, todo, cluster,
                 work, held, errs, results, writer, toDelete>>

(* findFiles(entries, cutoff, false); no file is named 0.                  *)
Old(h) == {s \in disk : s.host = h /\ s.from <= cutoff}

(* The loop over the clusters: workers and channels are made anew.         *)
BeginCluster(c) ==
  /\ phase = "clusters" /\ c \in todo
  /\ todo' = todo \ {c}
  /\ \/ /\ phase' = "open" /\ cluster' = c
        /\ feed' = HostsOf(c) /\ work' = {}
        /\ worker' = [w \in Workers |-> "wait"] /\ held' = [w \in Workers |-> {}]
        /\ errs' = FALSE /\ results' = {}
     \/ UNCHANGED <<phase, cluster, pool, results>>   \* its directory cannot be read
  /\ UNCHANGED <<mode, time, store, parquet, again, cutoff, writer, toDelete>>

EndArchive ==
  /\ phase = "clusters" /\ todo = {}
  /\ phase' = "idle"
  /\ UNCHANGED <<mode, time, store, parquet, again, cutoff, todo, cluster, pool,
                 results, writer, toDelete>>
-----------------------------------------------------------------------------
(* The feeder: a goroutine in mode archive, the main one in mode delete.   *)

Feed(h) ==
  /\ h \in feed /\ Cardinality(work) < Cardinality(Workers)
  /\ feed' = feed \ {h} /\ work' = work \cup {h}
  /\ UNCHANGED <<mode, time, store, parquet, again, phase, cutoff, todo, cluster,
                 worker, held, errs, results, writer, toDelete>>

(* close(work), wg.Wait() and close(results).                              *)
AllDone == feed = {} /\ \A w \in Workers : worker[w] = "off"
-----------------------------------------------------------------------------
(* A worker.                                                               *)

Take(w, h) ==
  /\ worker[w] = "wait" /\ h \in work
  /\ work' = work \ {h}

(* Mutant of Load: a directory that fails is tried again.                  *)
LoadRetries(w, h) ==
  /\ mode = "archive" /\ worker[w] = "wait" /\ h \in work
  /\ \/ errs' = TRUE /\ UNCHANGED <<work, worker, held>>
     \/ \E S \in SUBSET Old(h) :
          /\ work' = work \ {h}
          /\ worker' = [worker EXCEPT ![w] = IF S = {} THEN "wait" ELSE "send"]
          /\ held' = [held EXCEPT ![w] = S]
          /\ UNCHANGED errs
  /\ UNCHANGED <<mode, time, store, parquet, again, phase, cutoff, todo, cluster,
                 feed, results, writer, toDelete>>

(* loadCheckpointFiles: the directory may fail as a whole; a file that     *)
(* cannot be read is left out, and out of the list for removal too.        *)
Load(w, h) ==
  /\ mode = "archive" /\ Take(w, h)
  /\ \/ errs' = TRUE /\ UNCHANGED <<worker, held>>
     \/ \E S \in SUBSET Old(h) :
          /\ worker' = [worker EXCEPT ![w] = IF S = {} THEN "wait" ELSE "send"]
          /\ held' = [held EXCEPT ![w] = S]
          /\ UNCHANGED errs
  /\ UNCHANGED <<mode, time, store, parquet, again, phase, cutoff, todo, cluster,
                 feed, results, writer, toDelete>>

(* Mutant of Send: the files stay in the worker's hand.                    *)
SendKeeping(w) ==
  /\ worker[w] = "send" /\ Cardinality(results) < ResultsCap
  /\ results' = results \cup {held[w]}
  /\ worker' = [worker EXCEPT ![w] = "wait"]
  /\ UNCHANGED <<mode, time, store, parquet, again, phase, cutoff, todo, cluster,
                 feed, work, held, errs, writer, toDelete>>

(* results <- hostResult blocks when the channel is full.                  *)
Send(w) ==
  /\ worker[w] = "send" /\ Cardinality(results) < ResultsCap
  /\ results' = results \cup {held[w]}
  /\ worker' = [worker EXCEPT ![w] = "wait"] /\ held' = [held EXCEPT ![w] = {}]
  /\ UNCHANGED <<mode, time, store, parquet, again, phase, cutoff, todo, cluster,
                 feed, work, errs, writer, toDelete>>

(* A worker of deleteCheckpoints lists a directory, or counts an error...  *)
ListOld(w, h) ==
  /\ mode = "delete" /\ Take(w, h)
  /\ \/ errs' = TRUE /\ UNCHANGED <<worker, held>>
     \/ /\ worker' = [worker EXCEPT ![w] = IF Old(h) = {} THEN "wait" ELSE "remove"]
        /\ held' = [held EXCEPT ![w] = Old(h)]
        /\ UNCHANGED errs
  /\ UNCHANGED <<mode, time, store, parquet, again, phase, cutoff, todo, cluster,
                 feed, results, writer, toDelete>>

(* ... and removes the files one by one.                                   *)
RemoveOld(w, s) ==
  /\ worker[w] = "remove" /\ s \in held[w]
  /\ held' = [held EXCEPT ![w] = @ \ {s}]
  /\ worker' = [worker EXCEPT ![w] = IF held'[w] = {} THEN "wait" ELSE @]
  /\ \/ disk' = disk \ {s} /\ UNCHANGED errs
     \/ errs' = TRUE /\ UNCHANGED disk
  /\ UNCHANGED <<mode, time, taken, parquet, again, phase, cutoff, todo, cluster,
                 feed, work, results, writer, toDelete>>

(* Mutant of WorkerEnds: the feeder's end is taken for the channel's.      *)
WorkerEndsEarly(w) ==
  /\ worker[w] = "wait" /\ feed = {}
  /\ worker' = [worker EXCEPT ![w] = "off"]
  /\ UNCHANGED <<mode, time, store, parquet, again, phase, cutoff, todo, cluster,
                 feed, work, held, errs, results, writer, toDelete>>

(* The work channel is closed and empty.                                   *)
WorkerEnds(w) ==
  /\ worker[w] = "wait" /\ feed = {} /\ work = {}
  /\ worker' = [worker EXCEPT ![w] = "off"]
  /\ UNCHANGED <<mode, time, store, parquet, again, phase, cutoff, todo, cluster,
                 feed, work, held, errs, results, writer, toDelete>>

EndDelete ==
  /\ phase = "delete" /\ AllDone
  /\ phase' = "idle" /\ errs' = FALSE
  /\ UNCHANGED <<mode, time, store, parquet, again, cutoff, todo, cluster, feed,
                 work, worker, held, results, writer, toDelete>>
-----------------------------------------------------------------------------
(* The main goroutine of a cluster.                                        *)

(* newParquetArchiveWriter, which empties a file of that name; when it     *)
(* fails the results are drained.                                          *)
OpenWriter ==
  /\ phase = "open"
  /\ \/ /\ phase' = "write"
        /\ parquet' = [parquet EXCEPT ![cluster][cutoff] = {}]
     \/ phase' = "drain" /\ UNCHANGED parquet
  /\ written' = {} /\ counted' = FALSE /\ broken' = FALSE /\ writeErr' = FALSE
  /\ toDelete' = {}
  /\ UNCHANGED <<mode, time, store, again, cutoff, todo, cluster, pool, results>>

(* Mutant of Drain: the channel is drained after the workers have ended.   *)
DrainLate(r) ==
  /\ phase = "drain" /\ AllDone /\ r \in results
  /\ results' = results \ {r}
  /\ UNCHANGED <<mode, time, store, parquet, again, phase, cutoff, todo, cluster,
                 pool, writer, toDelete>>

Drain(r) ==
  /\ phase = "drain" /\ r \in results
  /\ results' = results \ {r}
  /\ UNCHANGED <<mode, time, store, parquet, again, phase, cutoff, todo, cluster,
                 pool, writer, toDelete>>

(* Mutant of Drained: the results are not drained.                         *)
DrainedAtOnce ==
  /\ phase = "drain"
  /\ phase' = "clusters"
  /\ UNCHANGED <<mode, time, store, parquet, again, cutoff, todo, cluster, pool,
                 results, writer, toDelete>>

Drained ==
  /\ phase = "drain" /\ results = {} /\ AllDone
  /\ phase' = "clusters"
  /\ UNCHANGED <<mode, time, store, parquet, again, cutoff, todo, cluster, pool,
                 results, writer, toDelete>>

(* One host's files: WriteCheckpointFile and FlushRowGroup.  An error of   *)
(* the file sticks to the buffered writer; writeLevel overlooks the error  *)
(* of a full batch and counts its rows.  After the first error that is     *)
(* seen the loop only drains the channel.                                  *)
Receive(r) ==
  /\ phase = "write" /\ r \in results
  /\ results' = results \ {r} /\ toDelete' = toDelete \cup r
  /\ \/ writeErr /\ UNCHANGED writer
     \/ /\ ~writeErr /\ ~broken
        /\ written' = written \cup r /\ counted' = (counted \/ HasRows(r))
        /\ UNCHANGED <<broken, writeErr>>
     \/ /\ ~writeErr /\ broken' = TRUE
        /\ counted' \in {counted, counted \/ HasRows(r)} /\ writeErr' \in BOOLEAN
        /\ UNCHANGED written
  /\ UNCHANGED <<mode, time, store, parquet, again, phase, cutoff, todo, cluster, pool>>

(* Mutant of Failed: the error of Close is dropped.                        *)
FailedUnclosed(ok) == errs \/ ~counted \/ writeErr

(* errs, writer.count and writeErr after Close has returned.               *)
Failed(ok) == errs \/ ~counted \/ writeErr \/ ~ok

(* Close, and what follows: with any error, or without rows, the Parquet   *)
(* file is removed, which may fail, and the checkpoint files stay.         *)
CloseWriter ==
  /\ phase = "write" /\ results = {} /\ AllDone
  /\ \E ok \in BOOLEAN :
       /\ broken => ~ok
       /\ LET content == IF ok THEN written ELSE {}
          IN  IF Failed(ok)
              THEN /\ phase' = "clusters" /\ toDelete' = {}
                   /\ \E left \in {{}, content} :
                        /\ parquet' = [parquet EXCEPT ![cluster][cutoff] = left]
                        /\ again' = again \cup left
              ELSE /\ phase' = "remove"
                   /\ parquet' = [parquet EXCEPT ![cluster][cutoff] = content]
                   /\ UNCHANGED <<again, toDelete>>
  /\ UNCHANGED <<mode, time, store, cutoff, todo, cluster, pool, results, writer>>

(* A file that cannot be removed is only logged.                           *)
RemoveArchived(s) ==
  /\ phase = "remove" /\ s \in toDelete
  /\ toDelete' = toDelete \ {s}
  /\ \/ disk' = disk \ {s} /\ UNCHANGED again
     \/ again' = again \cup {s} /\ UNCHANGED disk
  /\ UNCHANGED <<mode, time, taken, parquet, phase, cutoff, todo, cluster, pool,
                 results, writer>>

(* Mutant of EndCluster: files are left over.                              *)
EndClusterEarly ==
  /\ phase = "remove"
  /\ phase' = "clusters" /\ toDelete' = {}
  /\ UNCHANGED <<mode, time, store, parquet, again, cutoff, todo, cluster, pool,
                 results, writer>>

EndCluster ==
  /\ phase = "remove" /\ toDelete = {}
  /\ phase' = "clusters"
  /\ UNCHANGED <<mode, time, store, parquet, again, cutoff, todo, cluster, pool,
                 results, writer, toDelete>>
-----------------------------------------------------------------------------
Main ==
  \/ BeginArchive \/ BeginDelete
  \/ \E c \in Clusters : BeginCluster(c)
  \/ OpenWriter \/ (\E r \in results : Drain(r)) \/ Drained
  \/ (\E r \in results : Receive(r)) \/ CloseWriter
  \/ (\E s \in toDelete : RemoveArchived(s)) \/ EndCluster
  \/ EndArchive \/ EndDelete

Feeder == \E h \in Hosts : Feed(h)

WorkerStep(w) ==
  \/ \E h \in Hosts : Load(w, h) \/ ListOld(w, h)
  \/ Send(w)
  \/ \E s \in held[w] : RemoveOld(w, s)
  \/ WorkerEnds(w)

Next ==
  \/ Tick \/ Checkpoint \/ Restart
  \/ Main \/ Feeder \/ \E w \in Workers : WorkerStep(w)

Spec == Init /\ [][Next]_vars

FairSpec == Spec /\ WF_vars(Main) /\ WF_vars(Feeder) /\ \A w \in Workers : WF_vars(WorkerStep(w))
-----------------------------------------------------------------------------
(* Types of the state; a worker is sending or removing exactly while it    *)
(* has files in hand.                                                      *)
TypeOK ==
  /\ mode \in Modes /\ now \in 1..MaxTime /\ nextTick \in Nat
  /\ lastCheckpoint \in 1..now
  /\ taken \subseteq Snapshots /\ disk \subseteq taken /\ again \subseteq Snapshots
  /\ parquet \in [Clusters -> [Times -> SUBSET Snapshots]]
  /\ phase \in Phases /\ cutoff \in Times
  /\ todo \subseteq Clusters /\ cluster \in Clusters \cup {NoCluster}
  /\ feed \subseteq Hosts /\ work \subseteq Hosts
  /\ worker \in [Workers -> {"off", "wait", "send", "remove"}]
  /\ held \in [Workers -> SUBSET Snapshots]
  /\ \A w \in Workers : worker[w] \in {"send", "remove"} <=> held[w] # {}
  /\ results \subseteq SUBSET Snapshots
  /\ written \subseteq Snapshots /\ toDelete \subseteq Snapshots
  /\ errs \in BOOLEAN /\ counted \in BOOLEAN /\ broken \in BOOLEAN /\ writeErr \in BOOLEAN

(* In mode archive a snapshot leaves the checkpoint directory only when a  *)
(* Parquet file that can be read holds its rows, and that file stays:      *)
(* through write errors, also the one writeLevel overlooks, unreadable     *)
(* files, failed directories, crashes and later runs.                      *)
RemovedAreArchived ==
  mode = "archive" => taken \subseteq disk \cup Archived

(* The rows of a snapshot are in two Parquet files only if a failure or a  *)
(* crash kept the first run from removing it.                              *)
ArchivedOnce ==
  \A c \in Clusters : \A t, u \in Times :
    t # u => parquet[c][t] \cap parquet[c][u] \subseteq again

(* When the main goroutine goes on to the next cluster, or to its ticker,  *)
(* no worker of the last one is left behind, and no channel holds files.   *)
NoWorkerLeft ==
  phase \in {"idle", "clusters"} => AllDone /\ work = {} /\ results = {}

(* The main goroutine, the feeder or a worker can go on.                   *)
CanGoOn ==
  \/ phase \in {"clusters", "open", "remove"}
  \/ phase \in {"drain", "write"} /\ results # {}
  \/ AllDone /\ work = {}
  \/ feed # {} /\ Cardinality(work) < Cardinality(Workers)
  \/ \E w \in Workers :
       \/ worker[w] = "wait" /\ (work # {} \/ feed = {})
       \/ worker[w] = "send" /\ Cardinality(results) < ResultsCap
       \/ worker[w] = "remove"

(* Feeder, workers and main goroutine never wait for one another all at    *)
(* once, however small the channels: one of them can go on, and when all   *)
(* workers have ended, no host is left in the channel.                     *)
NeverStuck == phase # "idle" => CanGoOn

(* What a run has still to do, the parts that are fed by others last.      *)
Ahead ==
  CASE phase = "idle" -> {}
    [] phase \in {"clusters", "delete"} -> {"idle"}
    [] phase = "remove" -> {"idle", "clusters"}
    [] phase \in {"write", "drain"} -> {"idle", "clusters", "remove"}
    [] phase = "open" -> {"idle", "clusters", "remove", "write"}

InHand == UNION {{w} \X held[w] : w \in Workers}

Remaining ==
  <<todo, Ahead, feed, work, InHand, {w \in Workers : worker[w] # "off"}, results, toDelete>>

Smaller(a, b) ==
  \E i \in DOMAIN b :
    a[i] # b[i] /\ a[i] \subseteq b[i] /\ \A k \in 1..(i - 1) : a[k] = b[k]

(* Every step of a run, also one that fails, leaves less to do: a host, a  *)
(* file or a cluster is never taken up again; clock and checkpoints add    *)
(* nothing to a run under way.                                             *)
RunAdvances ==
  [][phase # "idle" =>
       Smaller(Remaining', Remaining) \/ (time' # time /\ Remaining' = Remaining)]_vars

(* Every run ends: workers blocked on a full channel of results are always *)
(* relieved, also after a failed writer and after the first write error.   *)
RunEnds == phase # "idle" ~> phase = "idle"
=============================================================================
