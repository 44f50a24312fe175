---------------------- MODULE CheckpointCleanup_proofs -----------------------
(***************************************************************************)
(* Proofs about CheckpointCleanup: whatever the number of hosts, clusters  *)
(* and workers, the room in the channels and the length of the retention   *)
(* period, an archived snapshot is never lost, it is archived once unless  *)
(* something failed, and no worker outlives its cluster.                   *)
(***************************************************************************)
EXTENDS CheckpointCleanup, FiniteSetTheorems, TLAPS

(* The runs start a period apart, so a Parquet file has the name of one    *)
(* run, and snapshot files have new names.                                 *)
Names ==
  /\ now <= nextTick /\ Retention < nextTick
  /\ \A s \in taken : s.from < lastCheckpoint
  /\ phase # "idle" => cutoff + Retention <= now /\ cutoff + Retention < nextTick
  /\ \A c \in Clusters : \A t \in Times :
       parquet[c][t] # {} => t + Retention <= now /\ t + Retention < nextTick

(* The Parquet files this run has still to write are not there yet.        *)
Fresh ==
  /\ phase \in {"open", "drain", "write", "remove"} => cluster \in Clusters \ todo
  /\ phase # "idle" => \A c \in todo : parquet[c][cutoff] = {}
  /\ phase \in {"open", "write"} => parquet[cluster][cutoff] = {}

(* The workers: each mode has its own, none ends before the work is done,  *)
(* and none is there between two clusters.                                 *)
Pool ==
  /\ phase = "delete" => mode = "delete"
  /\ phase \in {"clusters", "open", "drain", "write", "remove"} => mode = "archive"
  /\ \A w \in Workers : worker[w] = "send" => mode = "archive"
  /\ \A w \in Workers : worker[w] = "remove" => mode = "delete"
  /\ (\E w \in Workers : worker[w] = "off") => feed = {} /\ work = {}
  /\ phase \in {"idle", "clusters", "remove"} =>
       feed = {} /\ work = {} /\ results = {} /\ \A w \in Workers : worker[w] = "off"
  /\ mode = "delete" => results = {}

(* What is on its way to the Parquet file is in the checkpoint directory,  *)
(* and the writer has got exactly what is to be removed.                   *)
Flight ==
  mode = "archive" =>
    /\ \A w \in Workers : held[w] \subseteq disk
    /\ \A r \in results : r \subseteq disk
    /\ phase \in {"write", "remove"} => toDelete \subseteq disk
    /\ phase = "write" /\ ~broken => written = toDelete
    /\ writeErr => broken
    /\ phase = "remove" => toDelete \subseteq parquet[cluster][cutoff]

(* What is both archived and in the directory is about to be removed, or   *)
(* something failed.                                                       *)
Left ==
  /\ \A c \in Clusters : \A t \in Times : parquet[c][t] \subseteq taken
  /\ \A c \in Clusters : \A t \in Times :
       parquet[c][t] \cap disk \subseteq
         again \cup IF phase = "remove" THEN toDelete ELSE {}

CleanupInv ==
  TypeOK /\ Names /\ Fresh /\ Pool /\ Flight /\ Left /\ ArchivedOnce /\ RemovedAreArchived
-----------------------------------------------------------------------------
(* Opening the writer empties no file that held anything.                  *)
LEMMA OpenFacts ==
  ASSUME TypeOK, Fresh, OpenWriter
  PROVE  /\ UNCHANGED <<mode, time, store, again, cutoff, todo, cluster, pool,
                       results, parquet>>
         /\ phase = "open" /\ phase' \in {"write", "drain"}
         /\ written' = {} /\ toDelete' = {} /\ broken' = FALSE
         /\ writeErr' = FALSE /\ counted' = FALSE
         /\ errs' = errs
<1>1. cluster \in Clusters /\ parquet[cluster][cutoff] = {}
  BY DEF OpenWriter, Fresh
<1>2. parquet' = parquet
  <2>1. parquet \in [Clusters -> [Times -> SUBSET Snapshots]] /\ cutoff \in Times
    BY DEF TypeOK
  <2>2. [parquet[cluster] EXCEPT ![cutoff] = {}] = parquet[cluster]
    BY <1>1, <2>1
  <2>3. [parquet EXCEPT ![cluster] = parquet[cluster]] = parquet
    BY <1>1, <2>1
  <2>4. [parquet EXCEPT ![cluster][cutoff] = {}] = parquet
    BY <2>2, <2>3
  <2> QED
    BY <2>4 DEF OpenWriter
<1> QED
  BY <1>2 DEF OpenWriter, pool

(* What closing the writer leaves: nothing, a file that was to be removed, *)
(* or the file everything waits for.                                       *)
CloseResult(X) ==
  /\ phase = "write" /\ results = {} /\ AllDone
  /\ cluster \in Clusters /\ cutoff \in Times
  /\ X \subseteq written /\ (broken => X = {})
  /\ parquet' \in [Clusters -> [Times -> SUBSET Snapshots]]
  /\ parquet'[cluster][cutoff] = X
  /\ \A d \in Clusters : \A u \in Times :
       d # cluster \/ u # cutoff => parquet'[d][u] = parquet[d][u]
  /\ \/ phase' = "clusters" /\ toDelete' = {} /\ again' = again \cup X
     \/ /\ phase' = "remove" /\ X = written /\ ~broken
        /\ UNCHANGED <<again, toDelete>>
  /\ UNCHANGED <<mode, time, store, cutoff, todo, cluster, pool, results, writer>>

LEMMA CloseFacts ==
  ASSUME TypeOK, Fresh, CloseWriter
  PROVE  \E X \in SUBSET Snapshots : CloseResult(X)
<1>1. cluster \in Clusters /\ cutoff \in Times /\ written \in SUBSET Snapshots
  BY DEF CloseWriter, Fresh, TypeOK
<1>2. PICK ok \in BOOLEAN :
        /\ broken => ~ok
        /\ LET content == IF ok THEN written ELSE {}
           IN  IF Failed(ok)
               THEN /\ phase' = "clusters" /\ toDelete' = {}
                    /\ \E left \in {{}, content} :
                         /\ parquet' = [parquet EXCEPT ![cluster][cutoff] = left]
                         /\ again' = again \cup left
               ELSE /\ phase' = "remove"
                    /\ parquet' = [parquet EXCEPT ![cluster][cutoff] = content]
                    /\ UNCHANGED <<again, toDelete>>
  BY DEF CloseWriter
<1>3. PICK X \in SUBSET Snapshots :
        /\ X \subseteq written /\ (broken => X = {})
        /\ parquet' = [parquet EXCEPT ![cluster][cutoff] = X]
        /\ \/ phase' = "clusters" /\ toDelete' = {} /\ again' = again \cup X
           \/ /\ phase' = "remove" /\ X = written /\ ~broken
              /\ UNCHANGED <<again, toDelete>>
  <2>1. CASE Failed(ok)
    BY <1>1, <1>2, <2>1
  <2>2. CASE ~Failed(ok)
    BY <1>1, <1>2, <2>2 DEF Failed
  <2> QED
    BY <2>1, <2>2
<1>4. parquet \in [Clusters -> [Times -> SUBSET Snapshots]]
  BY DEF TypeOK
<1>5. /\ parquet' \in [Clusters -> [Times -> SUBSET Snapshots]]
      /\ parquet'[cluster][cutoff] = X
      /\ \A d \in Clusters : \A u \in Times :
           d # cluster \/ u # cutoff => parquet'[d][u] = parquet[d][u]
  BY <1>1, <1>3, <1>4
<1>6. phase = "write" /\ results = {} /\ AllDone
      /\ UNCHANGED <<mode, time, store, cutoff, todo, cluster, pool, results, writer>>
  BY DEF CloseWriter
<1> QED
  BY <1>1, <1>3, <1>5, <1>6 DEF CloseResult

(* A worker that takes or gives away files.                                *)
LEMMA HandFacts ==
  ASSUME TypeOK, NEW w \in Workers, NEW S \in SUBSET Snapshots,
         NEW a \in {"off", "wait", "send", "remove"}, a \in {"send", "remove"} <=> S # {},
         worker' = [worker EXCEPT ![w] = a], held' = [held EXCEPT ![w] = S]
  PROVE  /\ worker' \in [Workers -> {"off", "wait", "send", "remove"}]
         /\ held' \in [Workers -> SUBSET Snapshots]
         /\ \A v \in Workers : worker'[v] \in {"send", "remove"} <=> held'[v] # {}
<1>1. /\ worker \in [Workers -> {"off", "wait", "send", "remove"}]
      /\ held \in [Workers -> SUBSET Snapshots]
      /\ \A v \in Workers : worker[v] \in {"send", "remove"} <=> held[v] # {}
  BY DEF TypeOK
<1> QED
  BY <1>1

(* What Archived is.                                                       *)
LEMMA ArchivedFacts ==
  ASSUME NEW s
  PROVE  s \in Archived <=> \E c \in Clusters : \E t \in Times : s \in parquet[c][t]
  BY DEF Archived

(* Every step keeps the types.                                             *)
LEMMA TypeStep ==
  ASSUME TypeOK, Names, Fresh, Pool, Flight, Left, [Next]_vars
  PROVE  TypeOK'
<1> USE DEF time, store, pool, writer
<1>1. CASE Tick
  BY <1>1, CleanupAssumption DEF Tick, TypeOK
<1>2. CASE Checkpoint
  BY <1>2, CleanupAssumption DEF Checkpoint, TypeOK, Times, Snapshots
<1>3. CASE Restart
  <2>1. /\ worker' \in [Workers -> {"off", "wait", "send", "remove"}]
        /\ held' \in [Workers -> SUBSET Snapshots]
        /\ \A v \in Workers : worker'[v] \in {"send", "remove"} <=> held'[v] # {}
    BY <1>3 DEF Restart
  <2>2. again' \subseteq Snapshots
    BY <1>3 DEF Restart, TypeOK
  <2>3. nextTick' \in Nat /\ lastCheckpoint' \in 1..now' /\ cutoff' \in Times
    BY <1>3, CleanupAssumption DEF Restart, TypeOK, Times
  <2> QED
    BY <1>3, <2>1, <2>2, <2>3 DEF Restart, TypeOK, Phases
<1>4. CASE BeginArchive
  BY <1>4, CleanupAssumption DEF BeginArchive, Due, TypeOK, Names, Times, Phases
<1>5. CASE BeginDelete
  BY <1>5, CleanupAssumption DEF BeginDelete, Due, TypeOK, Names, Times, Phases, Pool
<1>6. ASSUME NEW c \in Clusters, BeginCluster(c)
      PROVE  TypeOK'
  BY <1>6 DEF BeginCluster, HostsOf, TypeOK, Phases
<1>7. CASE OpenWriter
  BY <1>7, OpenFacts DEF TypeOK, Phases
<1>8. ASSUME NEW r \in results, Drain(r)
      PROVE  TypeOK'
  BY <1>8 DEF Drain, TypeOK
<1>9. CASE Drained
  BY <1>9 DEF Drained, TypeOK, Phases
<1>10. ASSUME NEW r \in results, Receive(r)
      PROVE  TypeOK'
  BY <1>10 DEF Receive, TypeOK
<1>11. CASE CloseWriter
  <2>1. PICK X \in SUBSET Snapshots : CloseResult(X)
    BY <1>11, CloseFacts
  <2> QED
    BY <2>1 DEF CloseResult, TypeOK, Phases
<1>12. ASSUME NEW s \in toDelete, RemoveArchived(s)
      PROVE  TypeOK'
  BY <1>12 DEF RemoveArchived, TypeOK
<1>13. CASE EndCluster
  BY <1>13 DEF EndCluster, TypeOK, Phases
<1>14. CASE EndArchive
  BY <1>14 DEF EndArchive, TypeOK, Phases
<1>15. CASE EndDelete
  BY <1>15 DEF EndDelete, TypeOK, Phases
<1>16. ASSUME NEW h \in Hosts, Feed(h)
      PROVE  TypeOK'
  BY <1>16 DEF Feed, TypeOK
<1>17. ASSUME NEW w \in Workers, NEW h \in Hosts, Load(w, h)
      PROVE  TypeOK'
  <2>1. CASE errs' = TRUE /\ UNCHANGED <<worker, held>>
    BY <1>17, <2>1 DEF Load, Take, TypeOK
  <2>2. ASSUME NEW S \in SUBSET Old(h),
               worker' = [worker EXCEPT ![w] = IF S = {} THEN "wait" ELSE "send"],
               held' = [held EXCEPT ![w] = S], UNCHANGED errs
        PROVE  TypeOK'
    <3>1. S \in SUBSET Snapshots
      BY DEF Old, TypeOK
    <3>2. /\ worker' \in [Workers -> {"off", "wait", "send", "remove"}]
          /\ held' \in [Workers -> SUBSET Snapshots]
          /\ \A v \in Workers : worker'[v] \in {"send", "remove"} <=> held'[v] # {}
      BY <2>2, <3>1, HandFacts
    <3> QED
      BY <1>17, <2>2, <3>2 DEF Load, Take, TypeOK
  <2> QED
    BY <1>17, <2>1, <2>2 DEF Load
<1>18. ASSUME NEW w \in Workers, NEW h \in Hosts, ListOld(w, h)
      PROVE  TypeOK'
  <2>1. CASE errs' = TRUE /\ UNCHANGED <<worker, held>>
    BY <1>18, <2>1 DEF ListOld, Take, TypeOK
  <2>2. CASE /\ worker' = [worker EXCEPT ![w] = IF Old(h) = {} THEN "wait" ELSE "remove"]
             /\ held' = [held EXCEPT ![w] = Old(h)] /\ UNCHANGED errs
    <3>1. Old(h) \in SUBSET Snapshots
      BY DEF Old, TypeOK
    <3>2. /\ worker' \in [Workers -> {"off", "wait", "send", "remove"}]
          /\ held' \in [Workers -> SUBSET Snapshots]
          /\ \A v \in Workers : worker'[v] \in {"send", "remove"} <=> held'[v] # {}
      BY <2>2, <3>1, HandFacts
    <3> QED
      BY <1>18, <2>2, <3>2 DEF ListOld, Take, TypeOK
  <2> QED
    BY <1>18, <2>1, <2>2 DEF ListOld
<1>19. ASSUME NEW w \in Workers, Send(w)
      PROVE  TypeOK'
  BY <1>19 DEF Send, TypeOK
<1>20. ASSUME NEW w \in Workers, NEW s \in held[w], RemoveOld(w, s)
      PROVE  TypeOK'
  BY <1>20 DEF RemoveOld, TypeOK
<1>21. ASSUME NEW w \in Workers, WorkerEnds(w)
      PROVE  TypeOK'
  BY <1>21 DEF WorkerEnds, TypeOK
<1>22. CASE UNCHANGED vars
  BY <1>22 DEF vars, TypeOK
<1> QED
  BY <1>1, <1>2, <1>3, <1>4, <1>5, <1>6, <1>7, <1>8, <1>9, <1>10, <1>11, <1>12, <1>13,
     <1>14, <1>15, <1>16, <1>17, <1>18, <1>19, <1>20, <1>21, <1>22 DEF Next, Main,
     Feeder, WorkerStep

(* Every step keeps the names apart.                                       *)
LEMMA NamesStep ==
  ASSUME TypeOK, Names, Fresh, Pool, Flight, Left, [Next]_vars
  PROVE  Names'
<1> USE DEF time, store, pool, writer
<1>1. CASE Tick
  BY <1>1, CleanupAssumption DEF Tick, TypeOK, Names, Times
<1>2. CASE Checkpoint
  BY <1>2 DEF Checkpoint, TypeOK, Names, Times, Snapshots
<1>3. CASE Restart
  BY <1>3, CleanupAssumption DEF Restart, TypeOK, Names, Times, Snapshots
<1>4. CASE BeginArchive
  BY <1>4, CleanupAssumption DEF BeginArchive, Due, TypeOK, Names, Times
<1>5. CASE BeginDelete
  BY <1>5, CleanupAssumption DEF BeginDelete, Due, TypeOK, Names, Times
<1>6. ASSUME NEW c \in Clusters, BeginCluster(c)
      PROVE  Names'
  BY <1>6 DEF BeginCluster, Names
<1>7. CASE OpenWriter
  <2>1. /\ UNCHANGED <<now, nextTick, lastCheckpoint, taken, cutoff, parquet>>
        /\ phase = "open"
    BY <1>7, OpenFacts
  <2> QED
    BY <2>1 DEF Names
<1>8. ASSUME NEW r \in results, Drain(r)
      PROVE  Names'
  BY <1>8 DEF Drain, Names
<1>9. CASE Drained
  BY <1>9 DEF Drained, Names
<1>10. ASSUME NEW r \in results, Receive(r)
      PROVE  Names'
  BY <1>10 DEF Receive, Names
<1>11. CASE CloseWriter
  <2>1. PICK X \in SUBSET Snapshots : CloseResult(X)
    BY <1>11, CloseFacts
  <2> QED
    BY <2>1 DEF CloseResult, Names
<1>12. ASSUME NEW s \in toDelete, RemoveArchived(s)
      PROVE  Names'
  BY <1>12 DEF RemoveArchived, Names
<1>13. CASE EndCluster
  BY <1>13 DEF EndCluster, Names
<1>14. CASE EndArchive
  BY <1>14 DEF EndArchive, Names
<1>15. CASE EndDelete
  BY <1>15 DEF EndDelete, Names
<1>16. ASSUME NEW h \in Hosts, Feed(h)
      PROVE  Names'
  BY <1>16 DEF Feed, Names
<1>17. ASSUME NEW w \in Workers, NEW h \in Hosts, Load(w, h)
      PROVE  Names'
  BY <1>17 DEF Load, Names
<1>18. ASSUME NEW w \in Workers, NEW h \in Hosts, ListOld(w, h)
      PROVE  Names'
  BY <1>18 DEF ListOld, Names
<1>19. ASSUME NEW w \in Workers, Send(w)
      PROVE  Names'
  BY <1>19 DEF Send, Names
<1>20. ASSUME NEW w \in Workers, NEW s \in held[w], RemoveOld(w, s)
      PROVE  Names'
  BY <1>20 DEF RemoveOld, Names
<1>21. ASSUME NEW w \in Workers, WorkerEnds(w)
      PROVE  Names'
  BY <1>21 DEF WorkerEnds, Names
<1>22. CASE UNCHANGED vars
  BY <1>22 DEF vars, Names
<1> QED
  BY <1>1, <1>2, <1>3, <1>4, <1>5, <1>6, <1>7, <1>8, <1>9, <1>10, <1>11, <1>12, <1>13,
     <1>14, <1>15, <1>16, <1>17, <1>18, <1>19, <1>20, <1>21, <1>22 DEF Next, Main,
     Feeder, WorkerStep

(* Every step leaves the files still to be written alone.                  *)
LEMMA FreshStep ==
  ASSUME TypeOK, Names, Fresh, Pool, Flight, Left, [Next]_vars
  PROVE  Fresh'
<1> USE DEF time, store, pool, writer
<1>1. CASE Tick
  BY <1>1 DEF Tick, Fresh
<1>2. CASE Checkpoint
  BY <1>2 DEF Checkpoint, Fresh
<1>3. CASE Restart
  BY <1>3 DEF Restart, Fresh
<1>4. CASE BeginArchive
  BY <1>4, CleanupAssumption DEF BeginArchive, Due, TypeOK, Names, Times, Fresh
<1>5. CASE BeginDelete
  BY <1>5, CleanupAssumption DEF BeginDelete, Due, TypeOK, Names, Times, Fresh
<1>6. ASSUME NEW c \in Clusters, BeginCluster(c)
      PROVE  Fresh'
  BY <1>6 DEF BeginCluster, Fresh
<1>7. CASE OpenWriter
  BY <1>7, OpenFacts DEF Fresh
<1>8. ASSUME NEW r \in results, Drain(r)
      PROVE  Fresh'
  BY <1>8 DEF Drain, Fresh
<1>9. CASE Drained
  BY <1>9 DEF Drained, Fresh
<1>10. ASSUME NEW r \in results, Receive(r)
      PROVE  Fresh'
  BY <1>10 DEF Receive, Fresh
<1>11. CASE CloseWriter
  <2>1. PICK X \in SUBSET Snapshots : CloseResult(X)
    BY <1>11, CloseFacts
  <2> QED
    BY <2>1 DEF CloseResult, TypeOK, Fresh
<1>12. ASSUME NEW s \in toDelete, RemoveArchived(s)
      PROVE  Fresh'
  BY <1>12 DEF RemoveArchived, Fresh
<1>13. CASE EndCluster
  BY <1>13 DEF EndCluster, Fresh
<1>14. CASE EndArchive
  BY <1>14 DEF EndArchive, Fresh
<1>15. CASE EndDelete
  BY <1>15 DEF EndDelete, Fresh
<1>16. ASSUME NEW h \in Hosts, Feed(h)
      PROVE  Fresh'
  BY <1>16 DEF Feed, Fresh
<1>17. ASSUME NEW w \in Workers, NEW h \in Hosts, Load(w, h)
      PROVE  Fresh'
  BY <1>17 DEF Load, Fresh
<1>18. ASSUME NEW w \in Workers, NEW h \in Hosts, ListOld(w, h)
      PROVE  Fresh'
  BY <1>18 DEF ListOld, Fresh
<1>19. ASSUME NEW w \in Workers, Send(w)
      PROVE  Fresh'
  BY <1>19 DEF Send, Fresh
<1>20. ASSUME NEW w \in Workers, NEW s \in held[w], RemoveOld(w, s)
      PROVE  Fresh'
  BY <1>20 DEF RemoveOld, Fresh
<1>21. ASSUME NEW w \in Workers, WorkerEnds(w)
      PROVE  Fresh'
  BY <1>21 DEF WorkerEnds, Fresh
<1>22. CASE UNCHANGED vars
  BY <1>22 DEF vars, Fresh
<1> QED
  BY <1>1, <1>2, <1>3, <1>4, <1>5, <1>6, <1>7, <1>8, <1>9, <1>10, <1>11, <1>12, <1>13,
     <1>14, <1>15, <1>16, <1>17, <1>18, <1>19, <1>20, <1>21, <1>22 DEF Next, Main,
     Feeder, WorkerStep

(* Every step keeps the workers in order.                                  *)
LEMMA PoolStep ==
  ASSUME TypeOK, Names, Fresh, Pool, Flight, Left, [Next]_vars
  PROVE  Pool'
<1> USE DEF time, store, pool, writer
<1>1. CASE Tick
  BY <1>1 DEF Tick, Pool
<1>2. CASE Checkpoint
  BY <1>2 DEF Checkpoint, Pool
<1>3. CASE Restart
  BY <1>3 DEF Restart, Pool
<1>4. CASE BeginArchive
  BY <1>4 DEF BeginArchive, Due, Pool
<1>5. CASE BeginDelete
  BY <1>5 DEF BeginDelete, Due, Pool
<1>6. ASSUME NEW c \in Clusters, BeginCluster(c)
      PROVE  Pool'
  BY <1>6 DEF BeginCluster, Pool
<1>7. CASE OpenWriter
  BY <1>7, OpenFacts DEF Pool
<1>8. ASSUME NEW r \in results, Drain(r)
      PROVE  Pool'
  BY <1>8 DEF Drain, Pool
<1>9. CASE Drained
  BY <1>9, CleanupAssumption DEF Drained, AllDone, Pool
<1>10. ASSUME NEW r \in results, Receive(r)
      PROVE  Pool'
  BY <1>10 DEF Receive, Pool
<1>11. CASE CloseWriter
  <2>1. PICK X \in SUBSET Snapshots : CloseResult(X)
    BY <1>11, CloseFacts
  <2> QED
    BY <2>1, CleanupAssumption DEF CloseResult, Pool, AllDone
<1>12. ASSUME NEW s \in toDelete, RemoveArchived(s)
      PROVE  Pool'
  BY <1>12 DEF RemoveArchived, Pool
<1>13. CASE EndCluster
  BY <1>13 DEF EndCluster, Pool
<1>14. CASE EndArchive
  BY <1>14 DEF EndArchive, Pool
<1>15. CASE EndDelete
  BY <1>15, CleanupAssumption DEF EndDelete, AllDone, Pool
<1>16. ASSUME NEW h \in Hosts, Feed(h)
      PROVE  Pool'
  BY <1>16 DEF Feed, Pool
<1>17. ASSUME NEW w \in Workers, NEW h \in Hosts, Load(w, h)
      PROVE  Pool'
  BY <1>17 DEF Load, Take, TypeOK, Pool
<1>18. ASSUME NEW w \in Workers, NEW h \in Hosts, ListOld(w, h)
      PROVE  Pool'
  BY <1>18 DEF ListOld, Take, TypeOK, Pool
<1>19. ASSUME NEW w \in Workers, Send(w)
      PROVE  Pool'
  BY <1>19 DEF Send, Pool
<1>20. ASSUME NEW w \in Workers, NEW s \in held[w], RemoveOld(w, s)
      PROVE  Pool'
  BY <1>20 DEF RemoveOld, Pool
<1>21. ASSUME NEW w \in Workers, WorkerEnds(w)
      PROVE  Pool'
  BY <1>21 DEF WorkerEnds, Pool
<1>22. CASE UNCHANGED vars
  BY <1>22 DEF vars, Pool
<1> QED
  BY <1>1, <1>2, <1>3, <1>4, <1>5, <1>6, <1>7, <1>8, <1>9, <1>10, <1>11, <1>12, <1>13,
     <1>14, <1>15, <1>16, <1>17, <1>18, <1>19, <1>20, <1>21, <1>22 DEF Next, Main,
     Feeder, WorkerStep

(* Every step keeps what is on its way in the directory.                   *)
LEMMA FlightStep ==
  ASSUME TypeOK, Names, Fresh, Pool, Flight, Left, [Next]_vars
  PROVE  Flight'
<1> USE DEF time, store, pool, writer
<1>1. CASE Tick
  BY <1>1 DEF Tick, Flight
<1>2. CASE Checkpoint
  BY <1>2 DEF Checkpoint, Flight
<1>3. CASE Restart
  BY <1>3 DEF Restart, Flight
<1>4. CASE BeginArchive
  BY <1>4 DEF BeginArchive, Due, Flight
<1>5. CASE BeginDelete
  BY <1>5 DEF BeginDelete, Due, Flight
<1>6. ASSUME NEW c \in Clusters, BeginCluster(c)
      PROVE  Flight'
  BY <1>6 DEF BeginCluster, Flight
<1>7. CASE OpenWriter
  BY <1>7, OpenFacts DEF Flight
<1>8. ASSUME NEW r \in results, Drain(r)
      PROVE  Flight'
  BY <1>8 DEF Drain, Flight
<1>9. CASE Drained
  BY <1>9 DEF Drained, Flight
<1>10. ASSUME NEW r \in results, Receive(r)
      PROVE  Flight'
  BY <1>10 DEF Receive, Flight
<1>11. CASE CloseWriter
  <2>1. PICK X \in SUBSET Snapshots : CloseResult(X)
    BY <1>11, CloseFacts
  <2> QED
    BY <2>1 DEF CloseResult, Flight
<1>12. ASSUME NEW s \in toDelete, RemoveArchived(s)
      PROVE  Flight'
  BY <1>12 DEF RemoveArchived, TypeOK, Pool, Flight
<1>13. CASE EndCluster
  BY <1>13 DEF EndCluster, Flight
<1>14. CASE EndArchive
  BY <1>14 DEF EndArchive, Flight
<1>15. CASE EndDelete
  BY <1>15 DEF EndDelete, Flight
<1>16. ASSUME NEW h \in Hosts, Feed(h)
      PROVE  Flight'
  BY <1>16 DEF Feed, Flight
<1>17. ASSUME NEW w \in Workers, NEW h \in Hosts, Load(w, h)
      PROVE  Flight'
  BY <1>17 DEF Load, Old, TypeOK, Flight
<1>18. ASSUME NEW w \in Workers, NEW h \in Hosts, ListOld(w, h)
      PROVE  Flight'
  BY <1>18 DEF ListOld, Flight
<1>19. ASSUME NEW w \in Workers, Send(w)
      PROVE  Flight'
  BY <1>19 DEF Send, Flight
<1>20. ASSUME NEW w \in Workers, NEW s \in held[w], RemoveOld(w, s)
      PROVE  Flight'
  BY <1>20 DEF RemoveOld, Pool, Flight
<1>21. ASSUME NEW w \in Workers, WorkerEnds(w)
      PROVE  Flight'
  BY <1>21 DEF WorkerEnds, Flight
<1>22. CASE UNCHANGED vars
  BY <1>22 DEF vars, Flight
<1> QED
  BY <1>1, <1>2, <1>3, <1>4, <1>5, <1>6, <1>7, <1>8, <1>9, <1>10, <1>11, <1>12, <1>13,
     <1>14, <1>15, <1>16, <1>17, <1>18, <1>19, <1>20, <1>21, <1>22 DEF Next, Main,
     Feeder, WorkerStep

(* Every step accounts for what is in both places.                         *)
LEMMA LeftStep ==
  ASSUME TypeOK, Names, Fresh, Pool, Flight, Left, [Next]_vars
  PROVE  Left'
<1> USE DEF time, store, pool, writer
<1>1. CASE Tick
  BY <1>1 DEF Tick, Left
<1>2. CASE Checkpoint
  BY <1>2 DEF Checkpoint, TypeOK, Names, Left
<1>3. CASE Restart
  <2>1. /\ UNCHANGED <<taken, disk, parquet>> /\ phase' = "idle"
        /\ again' = again \cup (disk \cap Archived)
    BY <1>3 DEF Restart
  <2>2. ASSUME NEW c \in Clusters, NEW t \in Times
        PROVE  parquet[c][t] \subseteq Archived
    BY ArchivedFacts
  <2> QED
    BY <2>1, <2>2 DEF Left
<1>4. CASE BeginArchive
  BY <1>4 DEF BeginArchive, Due, Left
<1>5. CASE BeginDelete
  BY <1>5 DEF BeginDelete, Due, Left
<1>6. ASSUME NEW c \in Clusters, BeginCluster(c)
      PROVE  Left'
  BY <1>6 DEF BeginCluster, Left
<1>7. CASE OpenWriter
  BY <1>7, OpenFacts DEF Left
<1>8. ASSUME NEW r \in results, Drain(r)
      PROVE  Left'
  BY <1>8 DEF Drain, Left
<1>9. CASE Drained
  BY <1>9 DEF Drained, Left
<1>10. ASSUME NEW r \in results, Receive(r)
      PROVE  Left'
  BY <1>10 DEF Receive, Left
<1>11. CASE CloseWriter
  <2>1. PICK X \in SUBSET Snapshots : CloseResult(X)
    BY <1>11, CloseFacts
  <2>2. mode = "archive" /\ X \subseteq toDelete /\ X \subseteq disk /\ disk \subseteq taken
    BY <2>1 DEF CloseResult, Pool, Flight, TypeOK
  <2>3. UNCHANGED <<taken, disk>>
    BY <2>1 DEF CloseResult
  <2>4. ASSUME NEW c \in Clusters, NEW t \in Times
        PROVE  /\ parquet'[c][t] \subseteq taken'
               /\ parquet'[c][t] \cap disk' \subseteq
                    again' \cup IF phase' = "remove" THEN toDelete' ELSE {}
    <3>1. CASE c = cluster /\ t = cutoff
      BY <2>1, <2>2, <2>3, <3>1 DEF CloseResult
    <3>2. CASE c # cluster \/ t # cutoff
      <4>1. parquet[c][t] \subseteq taken /\ parquet[c][t] \cap disk \subseteq again
        BY <2>1 DEF CloseResult, Left
      <4>2. parquet'[c][t] = parquet[c][t] /\ again \subseteq again'
        BY <2>1, <3>2 DEF CloseResult
      <4> QED
        BY <2>3, <4>1, <4>2
    <3> QED
      BY <3>1, <3>2
  <2> QED
    BY <2>4 DEF Left
<1>12. ASSUME NEW s \in toDelete, RemoveArchived(s)
      PROVE  Left'
  BY <1>12 DEF RemoveArchived, Left
<1>13. CASE EndCluster
  BY <1>13 DEF EndCluster, Left
<1>14. CASE EndArchive
  BY <1>14 DEF EndArchive, Left
<1>15. CASE EndDelete
  BY <1>15 DEF EndDelete, Left
<1>16. ASSUME NEW h \in Hosts, Feed(h)
      PROVE  Left'
  BY <1>16 DEF Feed, Left
<1>17. ASSUME NEW w \in Workers, NEW h \in Hosts, Load(w, h)
      PROVE  Left'
  BY <1>17 DEF Load, Left
<1>18. ASSUME NEW w \in Workers, NEW h \in Hosts, ListOld(w, h)
      PROVE  Left'
  BY <1>18 DEF ListOld, Left
<1>19. ASSUME NEW w \in Workers, Send(w)
      PROVE  Left'
  BY <1>19 DEF Send, Left
<1>20. ASSUME NEW w \in Workers, NEW s \in held[w], RemoveOld(w, s)
      PROVE  Left'
  BY <1>20 DEF RemoveOld, Left
<1>21. ASSUME NEW w \in Workers, WorkerEnds(w)
      PROVE  Left'
  BY <1>21 DEF WorkerEnds, Left
<1>22. CASE UNCHANGED vars
  BY <1>22 DEF vars, Left
<1> QED
  BY <1>1, <1>2, <1>3, <1>4, <1>5, <1>6, <1>7, <1>8, <1>9, <1>10, <1>11, <1>12, <1>13,
     <1>14, <1>15, <1>16, <1>17, <1>18, <1>19, <1>20, <1>21, <1>22 DEF Next, Main,
     Feeder, WorkerStep

(* Every step archives a snapshot once.                                    *)
LEMMA OnceStep ==
  ASSUME TypeOK, Names, Fresh, Pool, Flight, Left, ArchivedOnce, [Next]_vars
  PROVE  ArchivedOnce'
<1> USE DEF time, store, pool, writer
<1>1. CASE Tick
  BY <1>1 DEF Tick, ArchivedOnce
<1>2. CASE Checkpoint
  BY <1>2 DEF Checkpoint, ArchivedOnce
<1>3. CASE Restart
  BY <1>3 DEF Restart, ArchivedOnce
<1>4. CASE BeginArchive
  BY <1>4 DEF BeginArchive, Due, ArchivedOnce
<1>5. CASE BeginDelete
  BY <1>5 DEF BeginDelete, Due, ArchivedOnce
<1>6. ASSUME NEW c \in Clusters, BeginCluster(c)
      PROVE  ArchivedOnce'
  BY <1>6 DEF BeginCluster, ArchivedOnce
<1>7. CASE OpenWriter
  BY <1>7, OpenFacts DEF ArchivedOnce
<1>8. ASSUME NEW r \in results, Drain(r)
      PROVE  ArchivedOnce'
  BY <1>8 DEF Drain, ArchivedOnce
<1>9. CASE Drained
  BY <1>9 DEF Drained, ArchivedOnce
<1>10. ASSUME NEW r \in results, Receive(r)
      PROVE  ArchivedOnce'
  BY <1>10 DEF Receive, ArchivedOnce
<1>11. CASE CloseWriter
  <2>1. PICK X \in SUBSET Snapshots : CloseResult(X)
    BY <1>11, CloseFacts
  <2>2. mode = "archive" /\ X \subseteq disk
    BY <2>1 DEF CloseResult, Pool, Flight
  <2>3. ASSUME NEW c \in Clusters, NEW u \in Times, c # cluster \/ u # cutoff
        PROVE  parquet'[c][u] = parquet[c][u] /\ X \cap parquet'[c][u] \subseteq again
    <3>1. parquet'[c][u] = parquet[c][u] /\ parquet[c][u] \cap disk \subseteq again
      BY <2>1, <2>3 DEF CloseResult, Left
    <3> QED
      BY <2>2, <3>1
  <2>4. again \subseteq again'
    BY <2>1 DEF CloseResult
  <2>5. ASSUME NEW c \in Clusters, NEW t \in Times, NEW u \in Times, t # u
        PROVE  parquet'[c][t] \cap parquet'[c][u] \subseteq again'
    <3>1. CASE c = cluster /\ t = cutoff
      BY <2>1, <2>3, <2>4, <2>5, <3>1 DEF CloseResult
    <3>2. CASE c = cluster /\ u = cutoff
      BY <2>1, <2>3, <2>4, <2>5, <3>2 DEF CloseResult
    <3>3. CASE c # cluster \/ (t # cutoff /\ u # cutoff)
      BY <2>3, <2>4, <2>5, <3>3 DEF ArchivedOnce
    <3> QED
      BY <3>1, <3>2, <3>3
  <2> QED
    BY <2>5 DEF ArchivedOnce
<1>12. ASSUME NEW s \in toDelete, RemoveArchived(s)
      PROVE  ArchivedOnce'
  BY <1>12 DEF RemoveArchived, ArchivedOnce
<1>13. CASE EndCluster
  BY <1>13 DEF EndCluster, ArchivedOnce
<1>14. CASE EndArchive
  BY <1>14 DEF EndArchive, ArchivedOnce
<1>15. CASE EndDelete
  BY <1>15 DEF EndDelete, ArchivedOnce
<1>16. ASSUME NEW h \in Hosts, Feed(h)
      PROVE  ArchivedOnce'
  BY <1>16 DEF Feed, ArchivedOnce
<1>17. ASSUME NEW w \in Workers, NEW h \in Hosts, Load(w, h)
      PROVE  ArchivedOnce'
  BY <1>17 DEF Load, ArchivedOnce
<1>18. ASSUME NEW w \in Workers, NEW h \in Hosts, ListOld(w, h)
      PROVE  ArchivedOnce'
  BY <1>18 DEF ListOld, ArchivedOnce
<1>19. ASSUME NEW w \in Workers, Send(w)
      PROVE  ArchivedOnce'
  BY <1>19 DEF Send, ArchivedOnce
<1>20. ASSUME NEW w \in Workers, NEW s \in held[w], RemoveOld(w, s)
      PROVE  ArchivedOnce'
  BY <1>20 DEF RemoveOld, ArchivedOnce
<1>21. ASSUME NEW w \in Workers, WorkerEnds(w)
      PROVE  ArchivedOnce'
  BY <1>21 DEF WorkerEnds, ArchivedOnce
<1>22. CASE UNCHANGED vars
  BY <1>22 DEF vars, ArchivedOnce
<1> QED
  BY <1>1, <1>2, <1>3, <1>4, <1>5, <1>6, <1>7, <1>8, <1>9, <1>10, <1>11, <1>12, <1>13,
     <1>14, <1>15, <1>16, <1>17, <1>18, <1>19, <1>20, <1>21, <1>22 DEF Next, Main,
     Feeder, WorkerStep

(* Every step keeps what it removes.                                       *)
LEMMA RemovedStep ==
  ASSUME TypeOK, Names, Fresh, Pool, Flight, Left, RemovedAreArchived, [Next]_vars
  PROVE  RemovedAreArchived'
<1> USE DEF time, store, pool, writer
<1>1. CASE Tick
  BY <1>1 DEF Tick, Archived, RemovedAreArchived
<1>2. CASE Checkpoint
  BY <1>2 DEF Checkpoint, Archived, RemovedAreArchived
<1>3. CASE Restart
  BY <1>3 DEF Restart, Archived, RemovedAreArchived
<1>4. CASE BeginArchive
  BY <1>4 DEF BeginArchive, Due, Archived, RemovedAreArchived
<1>5. CASE BeginDelete
  BY <1>5 DEF BeginDelete, Due, RemovedAreArchived
<1>6. ASSUME NEW c \in Clusters, BeginCluster(c)
      PROVE  RemovedAreArchived'
  BY <1>6 DEF BeginCluster, Archived, RemovedAreArchived
<1>7. CASE OpenWriter
  <2>1. UNCHANGED <<mode, taken, disk, parquet>>
    BY <1>7, OpenFacts
  <2> QED
    BY <2>1 DEF RemovedAreArchived, Archived
<1>8. ASSUME NEW r \in results, Drain(r)
      PROVE  RemovedAreArchived'
  BY <1>8 DEF Drain, Archived, RemovedAreArchived
<1>9. CASE Drained
  BY <1>9 DEF Drained, Archived, RemovedAreArchived
<1>10. ASSUME NEW r \in results, Receive(r)
      PROVE  RemovedAreArchived'
  BY <1>10 DEF Receive, Archived, RemovedAreArchived
<1>11. CASE CloseWriter
  <2>1. PICK X \in SUBSET Snapshots : CloseResult(X)
    BY <1>11, CloseFacts
  <2> QED
    BY <2>1 DEF CloseResult, Fresh, Archived, RemovedAreArchived
<1>12. ASSUME NEW s \in toDelete, RemoveArchived(s)
      PROVE  RemovedAreArchived'
  BY <1>12 DEF RemoveArchived, TypeOK, Fresh, Flight, Archived, RemovedAreArchived
<1>13. CASE EndCluster
  BY <1>13 DEF EndCluster, Archived, RemovedAreArchived
<1>14. CASE EndArchive
  BY <1>14 DEF EndArchive, Archived, RemovedAreArchived
<1>15. CASE EndDelete
  BY <1>15 DEF EndDelete, Archived, RemovedAreArchived
<1>16. ASSUME NEW h \in Hosts, Feed(h)
      PROVE  RemovedAreArchived'
  BY <1>16 DEF Feed, Archived, RemovedAreArchived
<1>17. ASSUME NEW w \in Workers, NEW h \in Hosts, Load(w, h)
      PROVE  RemovedAreArchived'
  BY <1>17 DEF Load, Archived, RemovedAreArchived
<1>18. ASSUME NEW w \in Workers, NEW h \in Hosts, ListOld(w, h)
      PROVE  RemovedAreArchived'
  BY <1>18 DEF ListOld, RemovedAreArchived
<1>19. ASSUME NEW w \in Workers, Send(w)
      PROVE  RemovedAreArchived'
  BY <1>19 DEF Send, Archived, RemovedAreArchived
<1>20. ASSUME NEW w \in Workers, NEW s \in held[w], RemoveOld(w, s)
      PROVE  RemovedAreArchived'
  BY <1>20 DEF RemoveOld, Pool, RemovedAreArchived
<1>21. ASSUME NEW w \in Workers, WorkerEnds(w)
      PROVE  RemovedAreArchived'
  BY <1>21 DEF WorkerEnds, Archived, RemovedAreArchived
<1>22. CASE UNCHANGED vars
  BY <1>22 DEF vars, Archived, RemovedAreArchived
<1> QED
  BY <1>1, <1>2, <1>3, <1>4, <1>5, <1>6, <1>7, <1>8, <1>9, <1>10, <1>11, <1>12, <1>13,
     <1>14, <1>15, <1>16, <1>17, <1>18, <1>19, <1>20, <1>21, <1>22 DEF Next, Main,
     Feeder, WorkerStep

LEMMA CleanupInit == Init => CleanupInv
<1> SUFFICES ASSUME Init PROVE CleanupInv
  OBVIOUS
<1>1. TypeOK
  <2>1. /\ now \in 1..MaxTime /\ nextTick \in Nat
        /\ lastCheckpoint \in 1..now /\ cutoff \in Times
    BY CleanupAssumption DEF Init, Times
  <2>2. parquet \in [Clusters -> [Times -> SUBSET Snapshots]]
    BY DEF Init
  <2>3. /\ worker \in [Workers -> {"off", "wait", "send", "remove"}]
        /\ held \in [Workers -> SUBSET Snapshots]
        /\ \A w \in Workers : worker[w] \in {"send", "remove"} <=> held[w] # {}
    BY DEF Init
  <2> QED
    BY <2>1, <2>2, <2>3 DEF Init, TypeOK, Phases
<1>2. Names /\ Fresh
  BY CleanupAssumption DEF Init, Names, Fresh, Times
<1>3. Pool /\ Flight
  BY DEF Init, Pool, Flight
<1>4. Left /\ ArchivedOnce /\ RemovedAreArchived
  BY DEF Init, Left, ArchivedOnce, RemovedAreArchived
<1> QED
  BY <1>1, <1>2, <1>3, <1>4 DEF CleanupInv

LEMMA CleanupStep == CleanupInv /\ [Next]_vars => CleanupInv'
  BY TypeStep, NamesStep, FreshStep, PoolStep, FlightStep, LeftStep, OnceStep, RemovedStep
  DEF CleanupInv
-----------------------------------------------------------------------------
(* A worker that waits for hosts gets one, or the feeder can go on, or     *)
(* there are none left; a worker that waits for room in the channel of     *)
(* results gets it, or the main goroutine can empty it.                    *)
LEMMA SomebodyGoesOn == CleanupInv => NeverStuck
<1> SUFFICES ASSUME CleanupInv, phase # "idle" PROVE CanGoOn
  BY DEF NeverStuck
<1>1. CASE phase \in {"clusters", "open", "remove"} \/ (phase \in {"drain", "write"} /\ results # {})
  BY <1>1 DEF CanGoOn
<1>2. CASE phase \in {"drain", "write", "delete"} /\ results = {}
  <2>1. CASE \A w \in Workers : worker[w] = "off"
    BY <2>1, CleanupAssumption DEF CleanupInv, Pool, AllDone, CanGoOn
  <2>2. ASSUME NEW w \in Workers, worker[w] = "wait"
        PROVE  CanGoOn
    <3>1. CASE work # {} \/ feed = {}
      BY <2>2, <3>1 DEF CanGoOn
    <3>2. CASE work = {} /\ feed # {}
      <4>1. Cardinality(work) = 0 /\ Cardinality(Workers) \in Nat /\ Cardinality(Workers) # 0
        BY <3>2, CleanupAssumption, FS_EmptySet, FS_CardinalityType
      <4> QED
        BY <3>2, <4>1 DEF CanGoOn
    <3> QED
      BY <3>1, <3>2
  <2>3. ASSUME NEW w \in Workers, worker[w] = "send"
        PROVE  CanGoOn
    BY <1>2, <2>3, CleanupAssumption, FS_EmptySet DEF CanGoOn
  <2>4. ASSUME NEW w \in Workers, worker[w] = "remove"
        PROVE  CanGoOn
    BY <2>4 DEF CanGoOn
  <2>5. \A w \in Workers : worker[w] \in {"off", "wait", "send", "remove"}
    BY DEF CleanupInv, TypeOK
  <2> QED
    BY <2>1, <2>2, <2>3, <2>4, <2>5
<1>3. phase = "delete" => results = {}
  BY DEF CleanupInv, Pool
<1> QED
  BY <1>1, <1>2, <1>3 DEF CleanupInv, TypeOK, Phases

(* Comparing what remains: the first part that changes has lost something. *)
Loses(a, b) == a # b /\ a \subseteq b

Busy == {w \in Workers : worker[w] # "off"}

LEMMA FirstChange ==
  ASSUME \/ Loses(todo', todo)
         \/ /\ todo' = todo
            /\ \/ Loses(Ahead', Ahead)
               \/ /\ Ahead' = Ahead
                  /\ \/ Loses(feed', feed)
                     \/ /\ feed' = feed
                        /\ \/ Loses(work', work)
                           \/ /\ work' = work
                              /\ \/ Loses(InHand', InHand)
                                 \/ /\ InHand' = InHand
                                    /\ \/ Loses(Busy', Busy)
                                       \/ /\ Busy' = Busy
                                          /\ \/ Loses(results', results)
                                             \/ results' = results /\ Loses(toDelete', toDelete)
  PROVE  Smaller(Remaining', Remaining)
<1> DEFINE r == <<todo, Ahead, feed, work, InHand, Busy, results, toDelete>>
           q == <<todo', Ahead', feed', work', InHand', Busy', results', toDelete'>>
<1>1. Remaining = r /\ Remaining' = q
  BY DEF Remaining, Busy
<1>2. DOMAIN r = 1..8
  OBVIOUS
<1>3. \E i \in 1..8 : Loses(q[i], r[i]) /\ \A k \in 1..(i - 1) : q[k] = r[k]
  <2>1. CASE Loses(todo', todo)
    <3>1. Loses(q[1], r[1])
      BY <2>1
    <3>2. \A k \in 1..(1 - 1) : q[k] = r[k]
      BY <2>1
    <3> QED
      BY <3>1, <3>2
  <2>2. CASE todo' = todo /\ Loses(Ahead', Ahead)
    <3>1. Loses(q[2], r[2])
      BY <2>2
    <3>2. \A k \in 1..(2 - 1) : q[k] = r[k]
      BY <2>2
    <3> QED
      BY <3>1, <3>2
  <2>3. CASE todo' = todo /\ Ahead' = Ahead /\ Loses(feed', feed)
    <3>1. Loses(q[3], r[3])
      BY <2>3
    <3>2. \A k \in 1..(3 - 1) : q[k] = r[k]
      BY <2>3
    <3> QED
      BY <3>1, <3>2
  <2>4. CASE todo' = todo /\ Ahead' = Ahead /\ feed' = feed /\ Loses(work', work)
    <3>1. Loses(q[4], r[4])
      BY <2>4
    <3>2. \A k \in 1..(4 - 1) : q[k] = r[k]
      BY <2>4
    <3> QED
      BY <3>1, <3>2
  <2>5. CASE UNCHANGED <<todo, Ahead, feed, work>> /\ Loses(InHand', InHand)
    <3>1. Loses(q[5], r[5])
      BY <2>5
    <3>2. \A k \in 1..(5 - 1) : q[k] = r[k]
      BY <2>5
    <3> QED
      BY <3>1, <3>2
  <2>6. CASE UNCHANGED <<todo, Ahead, feed, work, InHand>> /\ Loses(Busy', Busy)
    <3>1. Loses(q[6], r[6])
      BY <2>6
    <3>2. \A k \in 1..(6 - 1) : q[k] = r[k]
      BY <2>6
    <3> QED
      BY <3>1, <3>2
  <2>7. CASE UNCHANGED <<todo, Ahead, feed, work, InHand, Busy>> /\ Loses(results', results)
    <3>1. Loses(q[7], r[7])
      BY <2>7
    <3>2. \A k \in 1..(7 - 1) : q[k] = r[k]
      BY <2>7
    <3> QED
      BY <3>1, <3>2
  <2>8. CASE UNCHANGED <<todo, Ahead, feed, work, InHand, Busy, results>> /\ Loses(toDelete', toDelete)
    <3>1. Loses(q[8], r[8])
      BY <2>8
    <3>2. \A k \in 1..(8 - 1) : q[k] = r[k]
      BY <2>8
    <3> QED
      BY <3>1, <3>2
  <2> QED
    BY <2>1, <2>2, <2>3, <2>4, <2>5, <2>6, <2>7, <2>8
<1> QED
  BY <1>1, <1>2, <1>3 DEF Smaller, Loses

(* A worker keeps only the files S of those in its hand.                   *)
KeepsOnly(w, S) == Loses(S, held[w]) /\ held' = [held EXCEPT ![w] = S]

LEMMA InHandFacts ==
  ASSUME TypeOK, NEW w \in Workers, NEW S, KeepsOnly(w, S)
  PROVE  Loses(InHand', InHand)
<1>1. held \in [Workers -> SUBSET Snapshots]
  BY DEF TypeOK
<1>2. ASSUME NEW v \in Workers
      PROVE  held'[v] = IF v = w THEN S ELSE held[v]
  BY <1>1 DEF KeepsOnly
<1>3. ASSUME NEW x
      PROVE  /\ x \in InHand <=> \E v \in Workers : \E s \in held[v] : x = <<v, s>>
             /\ x \in InHand' <=> \E v \in Workers : \E s \in held'[v] : x = <<v, s>>
  BY DEF InHand
<1>4. PICK s : s \in held[w] /\ s \notin S
  BY DEF KeepsOnly, Loses
<1>5. <<w, s>> \in InHand
  BY <1>3, <1>4
<1>6. <<w, s>> \notin InHand'
  <2> SUFFICES ASSUME NEW v \in Workers, NEW u \in held'[v], <<w, s>> = <<v, u>>
               PROVE  FALSE
    BY <1>3
  <2> QED
    BY <1>2, <1>4
<1>7. InHand' \subseteq InHand
  <2> SUFFICES ASSUME NEW x \in InHand' PROVE x \in InHand
    OBVIOUS
  <2>1. PICK v \in Workers : \E u \in held'[v] : x = <<v, u>>
    BY <1>3
  <2>2. PICK u \in held'[v] : x = <<v, u>>
    BY <2>1
  <2>3. u \in held[v]
    BY <1>2 DEF KeepsOnly, Loses
  <2> QED
    BY <1>3, <2>2, <2>3
<1> QED
  BY <1>5, <1>6, <1>7 DEF Loses

(* Every step of a run leaves less.                                        *)
LEMMA AdvanceStep ==
  ASSUME CleanupInv, [Next]_vars, phase # "idle"
  PROVE  \/ Smaller(Remaining', Remaining)
         \/ time' # time /\ Remaining' = Remaining
         \/ UNCHANGED vars
<1> USE DEF time, store, pool, writer
<1>a. /\ TypeOK
      /\ phase \in {"idle", "clusters"} => feed = {} /\ work = {} /\ results = {}
      /\ phase = "delete" => mode = "delete"
  BY DEF CleanupInv, Pool
<1>1. CASE Tick
  <2>1. now' # now
    BY <1>1, <1>a DEF Tick, TypeOK
  <2>2. Remaining' = Remaining
    BY <1>1 DEF Tick, Remaining, Ahead, InHand
  <2> QED
    BY <2>1, <2>2
<1>2. CASE Checkpoint
  <2>1. lastCheckpoint' # lastCheckpoint
    BY <1>2, <1>a DEF Checkpoint, TypeOK
  <2>2. Remaining' = Remaining
    BY <1>2 DEF Checkpoint, Remaining, Ahead, InHand
  <2> QED
    BY <2>1, <2>2
<1>3. CASE Restart
  <2>1. todo' = {} /\ Ahead' = {}
    BY <1>3 DEF Restart, Ahead
  <2>2. Ahead # {}
    BY <1>a DEF Ahead, TypeOK, Phases
  <2>3. Loses(todo', todo) \/ (todo' = todo /\ Loses(Ahead', Ahead))
    BY <2>1, <2>2 DEF Loses
  <2> QED
    BY <2>3, FirstChange
<1>4. ~BeginArchive /\ ~BeginDelete
  BY DEF BeginArchive, BeginDelete, Due
<1>6. ASSUME NEW c \in Clusters, BeginCluster(c)
      PROVE  Smaller(Remaining', Remaining)
  <2>1. Loses(todo', todo)
    BY <1>6 DEF BeginCluster, Loses
  <2> QED
    BY <2>1, FirstChange
<1>7. CASE OpenWriter
  <2>1. todo' = todo /\ Loses(Ahead', Ahead)
    BY <1>7 DEF OpenWriter, Loses, Ahead
  <2> QED
    BY <2>1, FirstChange
<1>8. ASSUME NEW r \in results, Drain(r)
      PROVE  Smaller(Remaining', Remaining)
  <2>1. UNCHANGED <<todo, Ahead, feed, work, InHand, Busy>> /\ Loses(results', results)
    BY <1>8 DEF Drain, Loses, Ahead, InHand, Busy
  <2> QED
    BY <2>1, FirstChange
<1>9. CASE Drained
  <2>1. todo' = todo /\ Loses(Ahead', Ahead)
    BY <1>9 DEF Drained, Loses, Ahead
  <2> QED
    BY <2>1, FirstChange
<1>10. ASSUME NEW r \in results, Receive(r)
      PROVE  Smaller(Remaining', Remaining)
  <2>1. UNCHANGED <<todo, Ahead, feed, work, InHand, Busy>> /\ Loses(results', results)
    BY <1>10 DEF Receive, Loses, Ahead, InHand, Busy
  <2> QED
    BY <2>1, FirstChange
<1>11. CASE CloseWriter
  <2>1. todo' = todo /\ phase = "write" /\ phase' \in {"clusters", "remove"}
    BY <1>11 DEF CloseWriter
  <2>2. Loses(Ahead', Ahead)
    BY <2>1 DEF Loses, Ahead
  <2> QED
    BY <2>1, <2>2, FirstChange
<1>12. ASSUME NEW s \in toDelete, RemoveArchived(s)
      PROVE  Smaller(Remaining', Remaining)
  <2>1. /\ UNCHANGED <<todo, Ahead, feed, work, InHand, Busy, results>>
        /\ Loses(toDelete', toDelete)
    BY <1>12 DEF RemoveArchived, Loses, Ahead, InHand, Busy
  <2> QED
    BY <2>1, FirstChange
<1>13. CASE EndCluster
  <2>1. todo' = todo /\ Loses(Ahead', Ahead)
    BY <1>13 DEF EndCluster, Loses, Ahead
  <2> QED
    BY <2>1, FirstChange
<1>14. CASE EndArchive
  <2>1. todo' = todo /\ Loses(Ahead', Ahead)
    BY <1>14 DEF EndArchive, Loses, Ahead
  <2> QED
    BY <2>1, FirstChange
<1>15. CASE EndDelete
  <2>1. todo' = todo /\ Loses(Ahead', Ahead)
    BY <1>15 DEF EndDelete, Loses, Ahead
  <2> QED
    BY <2>1, FirstChange
<1>16. ASSUME NEW h \in Hosts, Feed(h)
      PROVE  Smaller(Remaining', Remaining)
  <2>1. UNCHANGED <<todo, Ahead>> /\ Loses(feed', feed)
    BY <1>16 DEF Feed, Loses, Ahead
  <2> QED
    BY <2>1, FirstChange
<1>17. ASSUME NEW w \in Workers, NEW h \in Hosts, Load(w, h) \/ ListOld(w, h)
      PROVE  Smaller(Remaining', Remaining)
  <2>1. UNCHANGED <<todo, Ahead, feed>> /\ Loses(work', work)
    BY <1>17 DEF Load, ListOld, Take, Loses, Ahead
  <2> QED
    BY <2>1, FirstChange
<1>19. ASSUME NEW w \in Workers, Send(w)
      PROVE  Smaller(Remaining', Remaining)
  <2>1. KeepsOnly(w, {})
    BY <1>19, <1>a DEF Send, TypeOK, KeepsOnly, Loses
  <2>2. Loses(InHand', InHand)
    BY <2>1, <1>a, InHandFacts
  <2>3. UNCHANGED <<todo, Ahead, feed, work>>
    BY <1>19 DEF Send, Ahead
  <2> QED
    BY <2>2, <2>3, FirstChange
<1>20. ASSUME NEW w \in Workers, NEW s \in held[w], RemoveOld(w, s)
      PROVE  Smaller(Remaining', Remaining)
  <2>1. KeepsOnly(w, held[w] \ {s})
    BY <1>20 DEF RemoveOld, KeepsOnly, Loses
  <2>2. Loses(InHand', InHand)
    BY <2>1, <1>a, <1>20, InHandFacts
  <2>3. UNCHANGED <<todo, Ahead, feed, work>>
    BY <1>20 DEF RemoveOld, Ahead
  <2> QED
    BY <2>2, <2>3, FirstChange
<1>21. ASSUME NEW w \in Workers, WorkerEnds(w)
      PROVE  Smaller(Remaining', Remaining)
  <2>1. UNCHANGED <<todo, Ahead, feed, work, InHand>>
    BY <1>21 DEF WorkerEnds, Ahead, InHand
  <2>2. Loses(Busy', Busy)
    <3>1. worker' = [worker EXCEPT ![w] = "off"] /\ worker[w] = "wait"
      BY <1>21 DEF WorkerEnds
    <3>2. w \in Busy /\ w \notin Busy' /\ Busy' \subseteq Busy
      BY <3>1, <1>a DEF Busy, TypeOK
    <3> QED
      BY <3>2 DEF Loses
  <2> QED
    BY <2>1, <2>2, FirstChange
<1> QED
  BY <1>1, <1>2, <1>3, <1>4, <1>6, <1>7, <1>8, <1>9, <1>10, <1>11, <1>12, <1>13,
     <1>14, <1>15, <1>16, <1>17, <1>19, <1>20, <1>21 DEF Next, Main,
     Feeder, WorkerStep

(* All parts of what remains are finite sets: there is no endless sequence *)
(* of losses.                                                              *)
LEMMA RemainingFinite ==
  ASSUME TypeOK
  PROVE  \A i \in DOMAIN Remaining : IsFiniteSet(Remaining[i])
<1>1. IsFiniteSet(todo) /\ IsFiniteSet(feed) /\ IsFiniteSet(work) /\ IsFiniteSet(Busy)
  BY CleanupAssumption, FS_Subset DEF TypeOK, Busy
<1>2. IsFiniteSet(Snapshots)
  <2>1. IsFiniteSet(Times) /\ IsFiniteSet({"rows", "gaps"})
    <3>1. IsFiniteSet({"rows"} \cup {"gaps"})
      BY FS_Singleton, FS_Union
    <3>2. {"rows"} \cup {"gaps"} = {"rows", "gaps"}
      OBVIOUS
    <3>3. 0 \in Int /\ MaxTime \in Int
      BY CleanupAssumption
    <3>4. IsFiniteSet(0..MaxTime)
      BY ONLY <3>3, FS_Interval
    <3> QED
      BY <3>1, <3>2, <3>4 DEF Times
  <2>2. IsFiniteSet((Hosts \X Times) \X {"rows", "gaps"})
    BY <2>1, CleanupAssumption, FS_Product
  <2> DEFINE D == (Hosts \X Times) \X {"rows", "gaps"}
             f == [x \in D |-> [host |-> x[1][1], from |-> x[1][2], kind |-> x[2]]]
  <2>3. f \in Surjection(D, Snapshots)
    <3>1. f \in [D -> Snapshots]
      BY DEF Snapshots
    <3>2. ASSUME NEW s \in Snapshots
          PROVE  \E x \in D : f[x] = s
      <4>1. <<<<s.host, s.from>>, s.kind>> \in D
        BY DEF Snapshots
      <4>2. f[<<<<s.host, s.from>>, s.kind>>] = s
        BY <4>1 DEF Snapshots
      <4> QED
        BY <4>1, <4>2
    <3> QED
      BY <3>1, <3>2 DEF Surjection
  <2> QED
    BY <2>2, <2>3, FS_Surjection
<1>3. IsFiniteSet(toDelete)
  BY <1>2, FS_Subset DEF TypeOK
<1>4. IsFiniteSet(results)
  BY <1>2, FS_SUBSET, FS_Subset DEF TypeOK
<1>5. IsFiniteSet(InHand)
  <2>1. IsFiniteSet(Workers \X Snapshots)
    BY <1>2, CleanupAssumption, FS_Product
  <2>2. InHand \subseteq Workers \X Snapshots
    BY DEF InHand, TypeOK
  <2> QED
    BY <2>1, <2>2, FS_Subset
<1>6. IsFiniteSet(Ahead)
  <2>1. IsFiniteSet(1..4)
    <3>1. 1 \in Int /\ 4 \in Int
      OBVIOUS
    <3> QED
      BY ONLY <3>1, FS_Interval
  <2> DEFINE g == [i \in 1..4 |-> CASE i = 1 -> "idle" [] i = 2 -> "clusters"
                                     [] i = 3 -> "remove" [] i = 4 -> "write"]
             T == {g[i] : i \in 1..4}
  <2>2. g \in Surjection(1..4, T)
    BY DEF Surjection
  <2>3. IsFiniteSet(T)
    BY <2>1, <2>2, FS_Surjection
  <2>4. Ahead \subseteq T
    <3>1. g[1] = "idle" /\ g[2] = "clusters" /\ g[3] = "remove" /\ g[4] = "write"
      OBVIOUS
    <3> HIDE DEF g
    <3>2. {"idle", "clusters", "remove", "write"} \subseteq T
      BY <3>1
    <3>3. Ahead \subseteq {"idle", "clusters", "remove", "write"}
      BY DEF Ahead, TypeOK, Phases
    <3> QED
      BY <3>2, <3>3
  <2> QED
    BY <2>3, <2>4, FS_Subset
<1>7. Remaining = <<todo, Ahead, feed, work, InHand, Busy, results, toDelete>>
  BY DEF Remaining, Busy
<1> QED
  BY <1>1, <1>3, <1>4, <1>5, <1>6, <1>7
-----------------------------------------------------------------------------
(* The invariant holds in every state of the specification.                *)
THEOREM CleanupInvariant == Spec => []CleanupInv
  BY CleanupInit, CleanupStep, PTL DEF Spec

(* Clean-up keeps its types, in both modes.                                *)
THEOREM CleanupTypes == Spec => []TypeOK
<1>1. CleanupInv => TypeOK
  BY DEF CleanupInv
<1> QED
  BY <1>1, CleanupInvariant, PTL

(* archiveCheckpoints removes no checkpoint file whose rows are not in a   *)
(* Parquet file that was closed without an error, and no later run touches *)
(* that file.                                                              *)
THEOREM CleanupLosesNothing == Spec => []RemovedAreArchived
<1>1. CleanupInv => RemovedAreArchived
  BY DEF CleanupInv
<1> QED
  BY <1>1, CleanupInvariant, PTL

(* Without a failure or a crash archiveCheckpoints writes the rows of a    *)
(* checkpoint file to one Parquet file.                                    *)
THEOREM CleanupArchivesOnce == Spec => []ArchivedOnce
<1>1. CleanupInv => ArchivedOnce
  BY DEF CleanupInv
<1> QED
  BY <1>1, CleanupInvariant, PTL

(* On every path out of a cluster the workers have ended and the channels  *)
(* are empty.                                                              *)
THEOREM CleanupLeavesNoWorker == Spec => []NoWorkerLeft
<1>1. CleanupInv => NoWorkerLeft
  BY DEF CleanupInv, Pool, NoWorkerLeft, AllDone
<1> QED
  BY <1>1, CleanupInvariant, PTL

(* No run is ever stuck: feeder, workers and main goroutine do not wait    *)
(* for one another all at once, for any number of hosts and workers and    *)
(* any room in the channels.                                               *)
THEOREM CleanupNeverStuck == Spec => []NeverStuck
  BY SomebodyGoesOn, CleanupInvariant, PTL

(* Every step of a run leaves less to do, on every path through failures.  *)
THEOREM CleanupAdvances == Spec => RunAdvances
<1>1. CleanupInv /\ [Next]_vars =>
        [phase # "idle" => \/ Smaller(Remaining', Remaining)
                           \/ time' # time /\ Remaining' = Remaining]_vars
  BY AdvanceStep
<1> QED
  BY <1>1, CleanupInvariant, PTL DEF Spec, RunAdvances

(* All eight parts of what remains are finite: with CleanupAdvances, no    *)
(* run has infinitely many steps, and with CleanupNeverStuck it can only   *)
(* come to rest at its end.                                                *)
THEOREM CleanupRemainingFinite ==
  Spec => [](\A i \in DOMAIN Remaining : IsFiniteSet(Remaining[i]))
  BY RemainingFinite, CleanupTypes, PTL
=============================================================================
