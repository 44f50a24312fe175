-------------------------- MODULE Retention_proofs --------------------------
(* The retention services for any set of jobs and clusters, any setting,   *)
(* any age, any size of files and any number of days.                      *)
EXTENDS Retention, TLAPS

(* What days are known to be: the clock is ahead of every cutoff and is    *)
(* never behind a start, a run or the marker.                              *)
Clock ==
  /\ now >= 1 /\ lastRun <= now /\ cutoff < now /\ marker <= now
  /\ \A j \in Jobs : start[j] <= now

(* A job comes to the archiver once, before it has an entry.               *)
ArchivedOnce ==
  \A j \in Jobs :
    /\ start[j] = 0 => row[j] = "none"
    /\ start[j] = 0 \/ row[j] = "running" \/ j \in queue =>
         archive[j] = "none" /\ working # j
    /\ start[j] = 0 \/ row[j] = "running" => j \notin queue

(* The next name of a file has not been given yet.                         *)
NamesFree ==
  \A f \in files :
    /\ f.day <= lastRun
    /\ phase = "transfer" /\ f.day = lastRun => f.n <= count[f.cluster]

(* What the variables of a run hold in each of its phases.                 *)
PhaseOK ==
  /\ phase = "idle" => listed = {}
  /\ importing # NoJob => phase = "transfer"
  /\ phase = "mark" => config.service = "copy"
  /\ phase = "clean" => config.service # "copy"

Done(j) == j \in failed \/ InTarget(j)

(* No listed job is forgotten by the transfer.                             *)
Progress ==
  /\ phase = "transfer" =>
       \A j \in listed :
         j \in todo \/ j = importing \/ (\E c \in Clusters : j \in batch[c]) \/ Done(j)
  /\ phase = "mark" \/ (phase = "clean" /\ config.service = "move") =>
       \A j \in listed : Done(j)

(* The list has every job in front of the cutoff that still has a row...   *)
ListComplete ==
  phase # "idle" =>
    \A j \in Jobs :
      /\ row[j] # "none" /\ start[j] < cutoff
      /\ config.service = "copy" => marker <= start[j]
      => j \in listed \cup omitted

(* ... and the copy service has none from behind its marker.               *)
ListFresh == config.service = "copy" => \A j \in listed : marker <= start[j]

Inv ==
  /\ TypeOK /\ Clock /\ ArchivedOnce /\ NamesFree /\ PhaseOK
  /\ Progress /\ ListComplete /\ ListFresh /\ CopyComplete
-----------------------------------------------------------------------------
LEMMA InitInv == Init => Inv
<1> SUFFICES ASSUME Init PROVE Inv
  OBVIOUS
<1> USE RetentionAssumption
<1>1. TypeOK
  <2>1. now \in Days /\ 0 \in Days
    BY DEF Init, Days
  <2>2. config \in Settings
    BY DEF Init
  <2>3. marker \in Days /\ cutoff \in Days /\ lastRun \in Days
    BY <2>1 DEF Init
  <2> QED BY <2>1, <2>2, <2>3 DEF Init, TypeOK, Entry, Phases
<1>2. Clock /\ ArchivedOnce /\ NamesFree /\ PhaseOK
  BY DEF Init, Clock, ArchivedOnce, NamesFree, PhaseOK
<1>3. Progress /\ ListComplete /\ ListFresh /\ CopyComplete
  BY DEF Init, Progress, ListComplete, ListFresh, CopyComplete
<1> QED BY <1>1, <1>2, <1>3 DEF Inv
-----------------------------------------------------------------------------
(* The parts of the state, as the actions leave them alone.                *)
LEMMA FlushedTypes ==
  ASSUME TypeOK, NEW c \in Clusters
  PROVE  /\ Flushed(c) \subseteq Files /\ Counted(c) \in [Clusters -> Nat]
         /\ File(c) \in Flushed(c)
<1>1. batch[c] \subseteq Jobs /\ count[c] \in Nat /\ lastRun \in Days
  BY DEF TypeOK
<1>2. File(c) \in Files
  BY <1>1 DEF File, Files
<1>3. Counted(c) \in [Clusters -> Nat]
  BY <1>1 DEF Counted, TypeOK
<1> QED BY <1>2, <1>3 DEF Flushed, TypeOK

LEMMA TypeStep ==
  ASSUME TypeOK, PhaseOK, Next
  PROVE  TypeOK'
<1> USE RetentionAssumption DEF TypeOK, PhaseOK
<1>1. ASSUME NEW j \in Jobs,
             StartJob(j) \/ StopJob(j) \/ DeleteJob(j) \/ ChangeTag(j) \/ ArchiveBegin(j)
      PROVE  TypeOK'
  <2>1. CASE StartJob(j)
    BY <2>1 DEF StartJob, worker, target, local
  <2>2. CASE StopJob(j)
    BY <2>2 DEF StopJob, worker, target, local
  <2>3. CASE DeleteJob(j)
    BY <2>3 DEF DeleteJob, Delete, worker, target, local
  <2>4. CASE ChangeTag(j)
    BY <2>4 DEF ChangeTag, worker, target, local
  <2>5. CASE ArchiveBegin(j)
    BY <2>5 DEF ArchiveBegin, table, target, local, Entry
  <2> QED BY <1>1, <2>1, <2>2, <2>3, <2>4, <2>5
<1>2. ASSUME NEW j \in Jobs, LoadFails(j) \/ ImportBegin(j) \/ CleanUp(j)
      PROVE  TypeOK'
  <2>1. CASE LoadFails(j)
    BY <2>1 DEF LoadFails, Quiet, table, worker, target
  <2>2. CASE ImportBegin(j)
    BY <2>2 DEF ImportBegin, Quiet, table, worker, Entry
  <2>3. CASE CleanUp(j)
    BY <2>3 DEF CleanUp, Quiet, table, worker, target, Entry
  <2> QED BY <1>2, <2>1, <2>2, <2>3
<1>3. ASSUME NEW j \in Jobs, Add(j)
      PROVE  TypeOK'
  <2>1. ClusterOf[j] \in Clusters /\ j \in listed
    BY <1>3 DEF Add
  <2>2. files' \subseteq Files
    BY <1>3, <2>1, FlushedTypes DEF Add
  <2>3. count' \in [Clusters -> Nat]
    BY <1>3, <2>1, FlushedTypes DEF Add
  <2>4. batch' \in [Clusters -> SUBSET listed]
    BY <1>3, <2>1 DEF Add
  <2>5. failed' \subseteq listed /\ todo' \subseteq listed
    BY <1>3, <2>1 DEF Add
  <2> QED BY <1>3, <2>2, <2>3, <2>4, <2>5 DEF Add, Quiet, table, worker
<1>4. ASSUME NEW c \in Clusters, CloseFlush(c)
      PROVE  TypeOK'
  <2>1. files' \subseteq Files /\ count' \in [Clusters -> Nat]
    BY <1>4, FlushedTypes DEF CloseFlush
  <2>2. batch' \in [Clusters -> SUBSET listed]
    BY <1>4 DEF CloseFlush
  <2> QED BY <1>4, <2>1, <2>2 DEF CloseFlush, Quiet, table, worker
<1>5. CASE StopExceeding
  BY <1>5 DEF StopExceeding, worker, target, local
<1>6. CASE ArchiveEnd \/ ArchiveFails
  BY <1>6 DEF ArchiveEnd, ArchiveFails, table, target, local, Entry
<1>7. CASE Begin
  <2>1. now - Age \in Days \/ now - Age <= 0
    BY DEF Days
  <2>2. 0 \in Days /\ marker >= 0
    BY DEF Days
  <2>3. lastRun' \in Days /\ cutoff' \in Days
    <3>1. now - Age > 0
      BY <1>7, <2>2 DEF Begin, Days
    <3>2. cutoff' = cutoff \/ cutoff' = now - Age
      BY <1>7 DEF Begin, local
    <3>3. lastRun' = now
      BY <1>7 DEF Begin
    <3> QED BY <2>1, <3>1, <3>2, <3>3 DEF Days
  <2>4. listed' \subseteq Jobs /\ todo' \subseteq listed' /\ omitted' \subseteq Jobs
    BY <1>7 DEF Begin, local, Between, Omitted
  <2>5. phase' \in Phases
    BY <1>7 DEF Begin, Phases
  <2>6. listed' = listed \/ listed = {}
    BY <1>7 DEF Begin, local
  <2>7. importing' = importing /\ batch' = batch /\ count' = count /\ failed' = failed
    BY <1>7 DEF Begin, local
  <2>8. /\ importing' \in listed' \cup {NoJob} /\ batch' \in [Clusters -> SUBSET listed']
        /\ failed' \subseteq listed'
    BY <2>6, <2>7
  <2> QED BY <1>7, <2>3, <2>4, <2>5, <2>7, <2>8 DEF Begin, Quiet, table, worker, target
<1>8. CASE ImportEnd
  BY <1>8 DEF ImportEnd, Quiet, table, worker, Entry
<1>9. ASSUME Over
      PROVE  /\ phase' \in Phases /\ cutoff' \in Days /\ listed' \subseteq Jobs
             /\ todo' \subseteq listed' /\ importing' \in listed' \cup {NoJob}
             /\ batch' \in [Clusters -> SUBSET listed'] /\ count' \in [Clusters -> Nat]
             /\ failed' \subseteq listed' /\ omitted' \subseteq Jobs
  <2>1. 0 \in Days
    BY DEF Days
  <2> QED BY <1>9, <2>1 DEF Over, Phases
<1>10. CASE Abort
  BY <1>9, <1>10 DEF Abort, Quiet, table, worker, target
<1>11. CASE Transferred
  BY <1>11 DEF Transferred, Quiet, table, worker, target, Phases
<1>12. CASE CleanedUp
  BY <1>9, <1>12 DEF CleanedUp, Delete, table, worker, target
<1>13. CASE WriteMarker
  <2>1. marker' \in Days
    BY <1>13 DEF WriteMarker, Days
  <2>2. missed' \subseteq Jobs
    BY <1>13 DEF WriteMarker
  <2> QED BY <1>9, <1>13, <2>1, <2>2 DEF WriteMarker, Quiet, table, worker, target
<1>14. CASE Crash
  BY <1>9, <1>14 DEF Crash, table, target
<1>15. CASE Tick
  BY <1>15 DEF Tick, table, worker, target, local, Days
<1> QED BY <1>1, <1>2, <1>3, <1>4, <1>5, <1>6, <1>7, <1>8, <1>10, <1>11, <1>12,
           <1>13, <1>14, <1>15 DEF Next

LEMMA ClockStep ==
  ASSUME TypeOK, Clock, Next
  PROVE  Clock'
<1>1. /\ now \in Nat /\ lastRun \in Nat /\ cutoff \in Nat /\ marker \in Nat
      /\ start \in [Jobs -> Nat]
  BY DEF TypeOK, Days
<1>2. now' = now \/ now' = now + 1
  BY DEF Next, StartJob, StopJob, StopExceeding, DeleteJob, ChangeTag, ArchiveBegin,
         ArchiveEnd, ArchiveFails, LoadFails, ImportBegin, ImportEnd, Add, CleanUp, Begin,
         CloseFlush, Abort, Transferred, CleanedUp, WriteMarker, Crash, Tick, Quiet
<1>3. start' = start \/ (\E j \in Jobs : start' = [start EXCEPT ![j] = now])
  BY DEF Next, StartJob, StopJob, StopExceeding, DeleteJob, ChangeTag, ArchiveBegin,
         ArchiveEnd, ArchiveFails, LoadFails, ImportBegin, ImportEnd, Add, CleanUp, Begin,
         CloseFlush, Abort, Transferred, CleanedUp, WriteMarker, Crash, Tick, Quiet,
         Delete, table
<1>4. lastRun' = lastRun \/ lastRun' = now
  BY DEF Next, StartJob, StopJob, StopExceeding, DeleteJob, ChangeTag, ArchiveBegin,
         ArchiveEnd, ArchiveFails, LoadFails, ImportBegin, ImportEnd, Add, CleanUp, Begin,
         CloseFlush, Abort, Transferred, CleanedUp, WriteMarker, Crash, Tick
<1>5. cutoff' = cutoff \/ cutoff' = 0 \/ cutoff' = now - Age
  BY DEF Next, StartJob, StopJob, StopExceeding, DeleteJob, ChangeTag, ArchiveBegin,
         ArchiveEnd, ArchiveFails, LoadFails, ImportBegin, ImportEnd, Add, CleanUp, Begin,
         CloseFlush, Abort, Transferred, CleanedUp, WriteMarker, Crash, Tick, Over, local
<1>6. marker' \in {marker, cutoff, 0}
  BY DEF Next, StartJob, StopJob, StopExceeding, DeleteJob, ChangeTag, ArchiveBegin,
         ArchiveEnd, ArchiveFails, LoadFails, ImportBegin, ImportEnd, Add, CleanUp, Begin,
         CloseFlush, Abort, Transferred, CleanedUp, WriteMarker, Crash, Tick
<1>7. \A j \in Jobs : start'[j] <= now
  BY <1>1, <1>3 DEF Clock
<1>8. now' >= 1 /\ lastRun' <= now' /\ cutoff' < now' /\ marker' <= now'
  BY <1>1, <1>2, <1>4, <1>5, <1>6, RetentionAssumption DEF Clock
<1>9. \A j \in Jobs : start'[j] <= now'
  <2>1. start' \in [Jobs -> Nat]
    BY <1>1, <1>3
  <2> QED BY <1>1, <1>2, <1>7, <2>1
<1> QED BY <1>8, <1>9 DEF Clock

LEMMA ArchivedOnceStep ==
  ASSUME TypeOK, Clock, ArchivedOnce, Next
  PROVE  ArchivedOnce'
<1> USE RetentionAssumption DEF TypeOK, ArchivedOnce
<1>0. now # 0
  BY DEF Clock, Days
<1>1. CASE \E j \in Jobs : StartJob(j)
  BY <1>0, <1>1 DEF StartJob, worker
<1>2. CASE \E j \in Jobs : StopJob(j)
  BY <1>2 DEF StopJob
<1>3. CASE \E j \in Jobs : DeleteJob(j)
  BY <1>3 DEF DeleteJob, Delete, worker
<1>4. CASE \E j \in Jobs : ChangeTag(j)
  BY <1>4 DEF ChangeTag, worker
<1>5. CASE \E j \in Jobs : ArchiveBegin(j)
  BY <1>5 DEF ArchiveBegin, table
<1>6. CASE StopExceeding
  BY <1>6 DEF StopExceeding, worker
<1>7. CASE ArchiveEnd \/ ArchiveFails
  BY <1>7 DEF ArchiveEnd, ArchiveFails, table
<1>8. CASE \E j \in Jobs : LoadFails(j) \/ ImportBegin(j) \/ Add(j)
  BY <1>8 DEF LoadFails, ImportBegin, Add, Quiet, table, worker
<1>9. CASE \E j \in Jobs : CleanUp(j)
  BY <1>9 DEF CleanUp, Quiet, table, worker
<1>10. CASE Begin \/ ImportEnd \/ (\E c \in Clusters : CloseFlush(c)) \/ Abort
            \/ Transferred \/ WriteMarker
  BY <1>10 DEF Begin, ImportEnd, CloseFlush, Abort, Transferred, WriteMarker, Quiet,
               table, worker
<1>11. CASE CleanedUp
  BY <1>11 DEF CleanedUp, Delete, table, worker
<1>12. CASE Crash \/ Tick
  BY <1>12 DEF Crash, Tick, table, worker
<1> QED BY <1>1, <1>2, <1>3, <1>4, <1>5, <1>6, <1>7, <1>8, <1>9, <1>10, <1>11, <1>12
        DEF Next

LEMMA PhaseStep ==
  ASSUME TypeOK, PhaseOK, Next
  PROVE  PhaseOK'
<1> USE RetentionAssumption DEF TypeOK, PhaseOK
<1>1. CASE (\E j \in Jobs : StartJob(j) \/ StopJob(j) \/ DeleteJob(j) \/ ChangeTag(j)
                              \/ ArchiveBegin(j))
           \/ StopExceeding \/ ArchiveEnd \/ ArchiveFails \/ Tick
  BY <1>1 DEF StartJob, StopJob, DeleteJob, ChangeTag, ArchiveBegin, StopExceeding,
              ArchiveEnd, ArchiveFails, Tick, local
<1>2. CASE \E j \in Jobs : LoadFails(j) \/ ImportBegin(j) \/ Add(j) \/ CleanUp(j)
  BY <1>2 DEF LoadFails, ImportBegin, Add, CleanUp, Quiet
<1>3. CASE ImportEnd \/ Transferred \/ \E c \in Clusters : CloseFlush(c)
  BY <1>3 DEF ImportEnd, CloseFlush, Transferred, Quiet
<1>4. CASE Begin
  BY <1>4 DEF Begin, Quiet, local
<1>5. CASE Abort \/ CleanedUp \/ WriteMarker \/ Crash
  BY <1>5 DEF Abort, CleanedUp, WriteMarker, Crash, Over, Quiet
<1> QED BY <1>1, <1>2, <1>3, <1>4, <1>5 DEF Next

LEMMA NamesStep ==
  ASSUME TypeOK, NamesFree, PhaseOK, Next
  PROVE  NamesFree'
<1> USE RetentionAssumption
<1>0. \A f \in files : f \in Files /\ f.day \in Nat /\ f.n \in Nat /\ f.cluster \in Clusters
  BY DEF TypeOK, Files, Days
<1>1. ASSUME files' = files, lastRun' = lastRun, phase' = "transfer" => phase = "transfer",
             count' = count \/ phase' # "transfer"
      PROVE  NamesFree'
  BY <1>1 DEF NamesFree
<1>2. ASSUME NEW c \in Clusters, files' = Flushed(c), count' = Counted(c),
             phase' = phase, lastRun' = lastRun, phase = "transfer"
      PROVE  NamesFree'
  <2>1. count[c] \in Nat /\ count' = [count EXCEPT ![c] = count[c] + 1] /\ count \in [Clusters -> Nat]
    BY <1>2 DEF Counted, TypeOK
  <2>2. ASSUME NEW f \in files', f.day = lastRun
        PROVE  f.n <= count'[f.cluster]
    <3>1. CASE f \in files
      BY <1>0, <1>2, <2>1, <2>2, <3>1 DEF NamesFree
    <3>2. CASE f = File(c)
      BY <2>1, <3>2 DEF File
    <3> QED BY <1>2, <3>1, <3>2 DEF Flushed
  <2>3. \A f \in files' : f.day <= lastRun
    BY <1>2 DEF Flushed, File, NamesFree, TypeOK, Days
  <2> QED BY <1>2, <2>2, <2>3 DEF NamesFree
<1>3. CASE (\E j \in Jobs : StartJob(j) \/ StopJob(j) \/ DeleteJob(j) \/ ChangeTag(j)
                              \/ ArchiveBegin(j))
           \/ StopExceeding \/ ArchiveEnd \/ ArchiveFails \/ Tick
  BY <1>1, <1>3 DEF StartJob, StopJob, DeleteJob, ChangeTag, ArchiveBegin, StopExceeding,
              ArchiveEnd, ArchiveFails, Tick, local, target
<1>4. CASE \E j \in Jobs : LoadFails(j) \/ ImportBegin(j) \/ CleanUp(j)
  BY <1>1, <1>4 DEF LoadFails, ImportBegin, CleanUp, target
<1>5. ASSUME NEW j \in Jobs, Add(j)
      PROVE  NamesFree'
  <2>1. ClusterOf[j] \in Clusters
    OBVIOUS
  <2>2. CASE files' = files /\ count' = count
    BY <1>1, <1>5, <2>2 DEF Add
  <2>3. CASE files' = Flushed(ClusterOf[j]) /\ count' = Counted(ClusterOf[j])
    BY <1>2, <1>5, <2>1, <2>3 DEF Add
  <2>4. CASE files' = files /\ count' = Counted(ClusterOf[j])
    <3>1. \A c \in Clusters : count[c] \in Nat /\ count'[c] \in Nat /\ count[c] <= count'[c]
      BY <2>1, <2>4 DEF Counted, TypeOK
    <3>2. lastRun' = lastRun /\ phase' = phase
      BY <1>5 DEF Add
    <3> QED BY <1>0, <2>4, <3>1, <3>2 DEF NamesFree
  <2> QED BY <1>5, <2>2, <2>3, <2>4 DEF Add
<1>6. CASE \E c \in Clusters : CloseFlush(c)
  BY <1>2, <1>6 DEF CloseFlush
<1>7. CASE ImportEnd \/ Transferred
  BY <1>1, <1>7 DEF ImportEnd, Transferred, target
<1>8. CASE Abort \/ CleanedUp \/ WriteMarker \/ Crash
  BY <1>1, <1>8 DEF Abort, CleanedUp, WriteMarker, Crash, Over, target
<1>9. CASE Begin
  <2>1. files' = files /\ lastRun' = now /\ lastRun < now /\ lastRun \in Nat /\ now \in Nat
    BY <1>9 DEF Begin, target, TypeOK, Days
  <2>2. \A f \in files' : f.day <= lastRun' /\ f.day # lastRun'
    BY <1>0, <2>1 DEF NamesFree
  <2> QED BY <2>2 DEF NamesFree
<1> QED BY <1>3, <1>4, <1>5, <1>6, <1>7, <1>8, <1>9 DEF Next
-----------------------------------------------------------------------------
(* Only a new import of a job can spoil what the target has of it.         *)
LEMMA TargetKept ==
  ASSUME TypeOK, NamesFree, PhaseOK, Next, NEW j \in Jobs, InTarget(j)
  PROVE  InTarget(j)' \/ ImportBegin(j)
<1> USE RetentionAssumption
<1>1. ASSUME NEW c \in Clusters, files' = Flushed(c), phase = "transfer", copies' = copies
      PROVE  InTarget(j)'
  <2>1. ASSUME NEW f \in files PROVE f \in files'
    <3>1. f.day = lastRun /\ f.cluster = c => f.n <= count[c]
      BY <1>1 DEF NamesFree
    <3>2. count[c] \in Nat /\ f.n \in Nat
      BY DEF TypeOK, Files
    <3>3. ~(f.day = lastRun /\ f.cluster = c /\ f.n = count[c] + 1)
      BY <3>1, <3>2
    <3>4. f \notin SameName(File(c))
      BY <3>3 DEF SameName, File
    <3> QED BY <1>1, <3>4 DEF Flushed
  <2> QED BY <1>1, <2>1 DEF InTarget
<1>2. CASE (\E i \in Jobs : StartJob(i) \/ StopJob(i) \/ DeleteJob(i) \/ ChangeTag(i)
                              \/ ArchiveBegin(i) \/ LoadFails(i) \/ CleanUp(i))
           \/ StopExceeding \/ ArchiveEnd \/ ArchiveFails \/ Tick \/ Begin
           \/ Abort \/ Transferred \/ CleanedUp \/ WriteMarker \/ Crash
  BY <1>2 DEF StartJob, StopJob, DeleteJob, ChangeTag, ArchiveBegin, LoadFails, CleanUp,
              StopExceeding, ArchiveEnd, ArchiveFails, Tick, Begin, Abort, Transferred,
              CleanedUp, WriteMarker, Crash, target, InTarget
<1>3. ASSUME NEW i \in Jobs, ImportBegin(i)
      PROVE  InTarget(j)' \/ ImportBegin(j)
  <2>1. copies' = [copies EXCEPT ![i] = "part"] /\ files' = files
    BY <1>3 DEF ImportBegin
  <2>2. CASE i # j
    <3>1. copies'[j] = copies[j]
      BY <2>1, <2>2 DEF TypeOK
    <3> QED BY <2>1, <3>1 DEF InTarget
  <2> QED BY <1>3, <2>2
<1>4. CASE ImportEnd
  BY <1>4 DEF ImportEnd, InTarget, TypeOK
<1>5. ASSUME NEW i \in Jobs, Add(i)
      PROVE  InTarget(j)'
  <2>1. ClusterOf[i] \in Clusters
    OBVIOUS
  <2>2. CASE files' = files
    BY <1>5, <2>2 DEF Add, InTarget
  <2>3. CASE files' = Flushed(ClusterOf[i])
    BY <1>1, <1>5, <2>1, <2>3 DEF Add
  <2> QED BY <1>5, <2>2, <2>3 DEF Add
<1>6. CASE \E c \in Clusters : CloseFlush(c)
  BY <1>1, <1>6 DEF CloseFlush
<1> QED BY <1>2, <1>3, <1>4, <1>5, <1>6 DEF Next

LEMMA ProgressStep ==
  ASSUME TypeOK, NamesFree, PhaseOK, Progress, Next
  PROVE  Progress'
<1> USE RetentionAssumption
<1>1. ASSUME UNCHANGED <<config, phase, listed, todo, importing, batch, failed, target>>
      PROVE  Progress'
  BY <1>1 DEF Progress, Done, InTarget, target
<1>2. \A j \in Jobs : ~ImportBegin(j) /\ InTarget(j) => InTarget(j)'
  BY TargetKept
<1>3. CASE (\E j \in Jobs : StartJob(j) \/ StopJob(j) \/ DeleteJob(j) \/ ChangeTag(j)
                              \/ ArchiveBegin(j))
           \/ StopExceeding \/ ArchiveEnd \/ ArchiveFails \/ Tick
  BY <1>1, <1>3 DEF StartJob, StopJob, DeleteJob, ChangeTag, ArchiveBegin, StopExceeding,
              ArchiveEnd, ArchiveFails, Tick, local
<1>4. CASE \E j \in Jobs : LoadFails(j)
  BY <1>4 DEF LoadFails, Progress, Done, InTarget, target
<1>5. CASE \E j \in Jobs : ImportBegin(j)
  <2> PICK i \in Jobs : ImportBegin(i)
    BY <1>5
  <2>1. \A j \in listed : j # i => (InTarget(j) => InTarget(j)')
    BY DEF ImportBegin, InTarget, TypeOK
  <2>2. /\ phase = "transfer" /\ phase' = "transfer" /\ listed' = listed
        /\ todo' = todo \ {i} /\ importing = NoJob /\ importing' = i
        /\ batch' = batch /\ failed' = failed /\ listed \subseteq Jobs
    BY DEF ImportBegin, TypeOK
  <2>3. ASSUME NEW j \in listed
        PROVE  j \in todo' \/ j = importing' \/ (\E c \in Clusters : j \in batch'[c])
               \/ j \in failed' \/ InTarget(j)'
    BY <2>1, <2>2 DEF Progress, Done
  <2> QED BY <2>2, <2>3 DEF Progress, Done
<1>6. CASE ImportEnd
  <2>1. \A j \in Jobs : InTarget(j) => InTarget(j)'
    BY <1>6 DEF ImportEnd, InTarget, TypeOK
  <2> PICK i \in Jobs : i = importing
    BY <1>6 DEF ImportEnd, TypeOK
  <2>2. i \in failed' \/ InTarget(i)'
    BY <1>6 DEF ImportEnd, InTarget, TypeOK
  <2>3. phase = "transfer" /\ phase' = "transfer" /\ listed' = listed /\ todo' = todo
        /\ batch' = batch /\ failed \subseteq failed' /\ listed \subseteq Jobs
    BY <1>6 DEF ImportEnd, PhaseOK, TypeOK
  <2>4. ASSUME NEW j \in listed
        PROVE  j \in todo' \/ (\E c \in Clusters : j \in batch'[c])
               \/ j \in failed' \/ InTarget(j)'
    BY <2>1, <2>2, <2>3 DEF Progress, Done
  <2> QED BY <2>3, <2>4 DEF Progress, Done
<1>7. ASSUME NEW i \in Jobs, Add(i)
      PROVE  Progress'
  <2>1. ClusterOf[i] \in Clusters /\ batch \in [Clusters -> SUBSET listed] /\ listed \subseteq Jobs
    BY DEF TypeOK
  <2>2. /\ phase = "transfer" /\ phase' = "transfer" /\ listed' = listed
        /\ todo' = todo \ {i} /\ failed \subseteq failed' /\ importing' = importing
        /\ copies' = copies
    BY <1>7 DEF Add
  <2>3. \A j \in Jobs : InTarget(j) => InTarget(j)'
    <3>1. \A j \in Jobs : ~ImportBegin(j)
      BY <1>7 DEF Add, ImportBegin
    <3> QED BY <1>2, <3>1
  <2>4. i \in failed' \/ i \in batch'[ClusterOf[i]]
    BY <1>7, <2>1 DEF Add
  <2>5. ASSUME NEW j \in listed, NEW c \in Clusters, j \in batch[c]
        PROVE  j \in batch'[c] \/ InTarget(j)'
    <3>1. CASE files' = Flushed(ClusterOf[i]) /\ c = ClusterOf[i]
      <4>1. File(c) \in files' /\ j \in File(c).jobs
        BY <2>5, <3>1 DEF Flushed, File
      <4> QED BY <4>1 DEF InTarget
    <3>2. CASE c # ClusterOf[i]
      BY <1>7, <2>1, <2>5, <3>2 DEF Add
    <3>3. CASE files' # Flushed(ClusterOf[i])
      BY <1>7, <2>1, <2>5, <3>3 DEF Add
    <3> QED BY <3>1, <3>2, <3>3
  <2>6. ASSUME NEW j \in listed
        PROVE  j \in todo' \/ j = importing' \/ (\E c \in Clusters : j \in batch'[c])
               \/ j \in failed' \/ InTarget(j)'
    BY <2>1, <2>2, <2>3, <2>4, <2>5 DEF Progress, Done
  <2> QED BY <2>2, <2>6 DEF Progress, Done
<1>8. ASSUME NEW d \in Clusters, CloseFlush(d)
      PROVE  Progress'
  <2>1. batch \in [Clusters -> SUBSET listed] /\ listed \subseteq Jobs
    BY DEF TypeOK
  <2>2. /\ phase = "transfer" /\ phase' = "transfer" /\ listed' = listed
        /\ todo' = todo /\ failed' = failed /\ importing' = importing /\ copies' = copies
        /\ files' = Flushed(d) /\ batch' = [batch EXCEPT ![d] = {}] /\ todo = {}
    BY <1>8 DEF CloseFlush
  <2>3. \A j \in Jobs : InTarget(j) => InTarget(j)'
    <3>1. \A j \in Jobs : ~ImportBegin(j)
      BY <2>2 DEF ImportBegin
    <3> QED BY <1>2, <3>1
  <2>4. ASSUME NEW j \in listed, NEW c \in Clusters, j \in batch[c]
        PROVE  j \in batch'[c] \/ InTarget(j)'
    <3>1. CASE c = d
      <4>1. File(c) \in files' /\ j \in File(c).jobs
        BY <2>2, <2>4, <3>1 DEF Flushed, File
      <4> QED BY <4>1 DEF InTarget
    <3>2. CASE c # d
      BY <2>1, <2>2, <2>4, <3>2
    <3> QED BY <3>1, <3>2
  <2>5. ASSUME NEW j \in listed
        PROVE  j \in todo' \/ j = importing' \/ (\E c \in Clusters : j \in batch'[c])
               \/ j \in failed' \/ InTarget(j)'
    BY <2>1, <2>2, <2>3, <2>4 DEF Progress, Done
  <2> QED BY <2>2, <2>5 DEF Progress, Done
<1>9. CASE Transferred
  <2>1. \A j \in listed : j # importing
    BY <1>9 DEF Transferred, TypeOK
  <2>2. \A j \in listed : Done(j)
    BY <1>9, <2>1 DEF Transferred, Progress
  <2>3. \A j \in listed' : Done(j)'
    BY <1>9, <2>2 DEF Transferred, Done, InTarget, target
  <2>4. phase' # "transfer"
    BY <1>9 DEF Transferred
  <2> QED BY <2>3, <2>4 DEF Progress
<1>10. CASE \E j \in Jobs : CleanUp(j)
  BY <1>10 DEF CleanUp, Progress, Done, InTarget, target, Quiet
<1>11. CASE Begin
  <2>1. CASE UNCHANGED <<phase, local>>
    BY <1>1, <1>11, <2>1 DEF Begin, Quiet, local
  <2>2. CASE phase' = "transfer" /\ listed' = todo'
    BY <2>2 DEF Progress
  <2>3. CASE phase' = "clean" /\ config.service = "delete" /\ config' = config
    BY <2>3 DEF Progress
  <2> QED BY <1>11, <2>1, <2>2, <2>3 DEF Begin, Quiet
<1>12. CASE Abort \/ CleanedUp \/ WriteMarker \/ Crash
  <2>1. phase' = "idle"
    BY <1>12 DEF Abort, CleanedUp, WriteMarker, Crash, Over
  <2> QED BY <2>1 DEF Progress
<1> QED BY <1>3, <1>4, <1>5, <1>6, <1>7, <1>8, <1>9, <1>10, <1>11, <1>12 DEF Next
-----------------------------------------------------------------------------
(* What any step may do to rows and starts: rows come only with a start of *)
(* today.                                                                  *)
LEMMA RowsStep ==
  ASSUME TypeOK, Clock, ArchivedOnce, Next, NEW j \in Jobs, row'[j] # "none"
  PROVE  \/ row[j] # "none" /\ start'[j] = start[j]
         \/ start[j] = 0 /\ start'[j] = now /\ StartJob(j)
<1> USE RetentionAssumption DEF TypeOK, ArchivedOnce
<1>1. CASE \E i \in Jobs : StartJob(i)
  <2> PICK i \in Jobs : StartJob(i)
    BY <1>1
  <2>1. CASE i = j
    <3>1. start[j] = 0 /\ start'[j] = now
      BY <2>1 DEF StartJob
    <3> QED BY <2>1, <3>1
  <2>2. CASE i # j
    BY <2>2 DEF StartJob
  <2> QED BY <2>1, <2>2
<1>2. CASE \E i \in Jobs : StopJob(i) \/ DeleteJob(i) \/ ChangeTag(i) \/ ArchiveBegin(i)
                             \/ LoadFails(i) \/ ImportBegin(i) \/ Add(i) \/ CleanUp(i)
  BY <1>2 DEF StopJob, DeleteJob, ChangeTag, ArchiveBegin, LoadFails, ImportBegin, Add,
              CleanUp, Delete, Quiet, table
<1>3. CASE StopExceeding
  BY <1>3 DEF StopExceeding
<1>4. CASE CleanedUp
  BY <1>4 DEF CleanedUp, Delete, table
<1>5. CASE ArchiveEnd \/ ArchiveFails \/ Begin \/ ImportEnd \/ Abort \/ Transferred
           \/ WriteMarker \/ Crash \/ Tick \/ \E c \in Clusters : CloseFlush(c)
  BY <1>5 DEF ArchiveEnd, ArchiveFails, Begin, ImportEnd, Abort, Transferred,
              WriteMarker, Crash, Tick, CloseFlush, Quiet, table
<1> QED BY <1>1, <1>2, <1>3, <1>4, <1>5 DEF Next

(* A step begins a run, ends one, or leaves its frame alone.               *)
LEMMA FrameStep ==
  ASSUME Next
  PROVE  \/ Begin
         \/ phase' = "idle" /\ listed' = {}
         \/ /\ UNCHANGED <<config, cutoff, listed, omitted, marker>>
            /\ phase' # "idle" => phase # "idle"
<1>1. CASE \E j \in Jobs : StartJob(j) \/ StopJob(j) \/ DeleteJob(j) \/ ChangeTag(j)
                             \/ ArchiveBegin(j) \/ LoadFails(j) \/ ImportBegin(j)
                             \/ Add(j) \/ CleanUp(j)
  BY <1>1 DEF StartJob, StopJob, DeleteJob, ChangeTag, ArchiveBegin, LoadFails,
              ImportBegin, Add, CleanUp, Quiet, local
<1>2. CASE StopExceeding \/ ArchiveEnd \/ ArchiveFails \/ ImportEnd \/ Transferred \/ Tick
           \/ \E c \in Clusters : CloseFlush(c)
  BY <1>2 DEF StopExceeding, ArchiveEnd, ArchiveFails, ImportEnd, Transferred, Tick,
              CloseFlush, Quiet, local
<1>3. CASE Abort \/ CleanedUp \/ WriteMarker \/ Crash
  BY <1>3 DEF Abort, CleanedUp, WriteMarker, Crash, Over
<1> QED BY <1>1, <1>2, <1>3 DEF Next

LEMMA ListStep ==
  ASSUME Inv, Next
  PROVE  ListComplete' /\ ListFresh'
<1> USE RetentionAssumption
<1>1. /\ now \in Nat /\ marker \in Nat /\ cutoff \in Nat /\ start \in [Jobs -> Nat]
      /\ listed \subseteq Jobs
  BY DEF Inv, TypeOK, Days
<1>2. CASE Begin
  <2>1. CASE UNCHANGED <<phase, local>>
    BY <1>2, <2>1 DEF Begin, Quiet, table, local, Inv, ListComplete, ListFresh
  <2> DEFINE from == IF config.service = "copy" THEN marker ELSE 0
             found == Between(from, now - Age)
  <2>2. CASE cutoff' = now - Age /\ listed' = found \ Omitted(found) /\ omitted' = Omitted(found)
    <3>1. /\ row' = row /\ start' = start /\ config' = config /\ marker' = marker
      BY <1>2 DEF Begin, Quiet, table
    <3>2. \A j \in Jobs : row[j] # "none" /\ start[j] < now - Age /\ from <= start[j]
                            => j \in found
      BY <1>1 DEF Between
    <3>3. \A j \in found : from <= start[j] /\ j \in Jobs
      BY <1>1 DEF Between
    <3> HIDE DEF found
    <3>4. ListComplete'
      BY <1>1, <2>2, <3>1, <3>2 DEF ListComplete
    <3>5. ListFresh'
      BY <2>2, <3>1, <3>3 DEF ListFresh
    <3> QED BY <3>4, <3>5
  <2> QED BY <1>2, <2>1, <2>2 DEF Begin
<1>3. CASE phase' = "idle" /\ listed' = {}
  BY <1>3 DEF ListComplete, ListFresh
<1>4. CASE /\ UNCHANGED <<config, cutoff, listed, omitted, marker>>
           /\ phase' # "idle" => phase # "idle"
  <2>1. \A j \in Jobs : row'[j] # "none" =>
          \/ row[j] # "none" /\ start'[j] = start[j]
          \/ start'[j] = now
    BY RowsStep DEF Inv
  <2>2. ListComplete'
    BY <1>1, <1>4, <2>1 DEF Inv, Clock, ListComplete
  <2>3. \A j \in Jobs : start'[j] = start[j] \/ (start[j] = 0 /\ start'[j] = now)
    <3>1. CASE \E j \in Jobs : StartJob(j)
      BY <1>1, <3>1 DEF StartJob
    <3>2. CASE start' = start
      BY <3>2
    <3>3. start' = start \/ \E j \in Jobs : StartJob(j)
      BY DEF Next, StopJob, StopExceeding, DeleteJob, ChangeTag, ArchiveBegin,
         ArchiveEnd, ArchiveFails, LoadFails, ImportBegin, ImportEnd, Add, CleanUp, Begin,
         CloseFlush, Abort, Transferred, CleanedUp, WriteMarker, Crash, Tick, Quiet,
         Delete, table
    <3> QED BY <3>1, <3>2, <3>3
  <2>4. ListFresh'
    BY <1>1, <1>4, <2>3 DEF Inv, Clock, ListFresh
  <2> QED BY <2>2, <2>4
<1> QED BY <1>2, <1>3, <1>4, FrameStep

LEMMA CopyStep ==
  ASSUME Inv, Next
  PROVE  CopyComplete'
<1> USE RetentionAssumption
<1>1. /\ now \in Nat /\ marker \in Nat /\ cutoff \in Nat /\ start \in [Jobs -> Nat]
      /\ listed \subseteq Jobs
  BY DEF Inv, TypeOK, Days
<1>2. config' = config
  BY DEF Next, StartJob, StopJob, StopExceeding, DeleteJob, ChangeTag, ArchiveBegin,
         ArchiveEnd, ArchiveFails, LoadFails, ImportBegin, ImportEnd, Add, CleanUp, Begin,
         CloseFlush, Abort, Transferred, CleanedUp, WriteMarker, Crash, Tick, Quiet
<1>3. missed \subseteq missed'
  BY DEF Next, StartJob, StopJob, StopExceeding, DeleteJob, ChangeTag, ArchiveBegin,
         ArchiveEnd, ArchiveFails, LoadFails, ImportBegin, ImportEnd, Add, CleanUp, Begin,
         CloseFlush, Abort, Transferred, CleanedUp, WriteMarker, Crash, Tick
<1>4. marker' = marker \/ WriteMarker
  BY DEF Next, StartJob, StopJob, StopExceeding, DeleteJob, ChangeTag, ArchiveBegin,
         ArchiveEnd, ArchiveFails, LoadFails, ImportBegin, ImportEnd, Add, CleanUp, Begin,
         CloseFlush, Abort, Transferred, CleanedUp, Crash, Tick
<1> SUFFICES ASSUME config.service = "copy", NEW j \in Jobs,
                    row'[j] # "none", start'[j] < marker'
             PROVE  InTarget(j)' \/ j \in missed'
  BY <1>2 DEF CopyComplete
<1>5. \/ row[j] # "none" /\ start'[j] = start[j]
      \/ start[j] = 0 /\ start'[j] = now /\ StartJob(j)
  BY RowsStep DEF Inv
<1>6. CASE marker' = marker
  <2>1. row[j] # "none" /\ start[j] < marker
    BY <1>1, <1>5, <1>6 DEF Inv, Clock
  <2>2. InTarget(j) \/ j \in missed
    BY <2>1 DEF Inv, CopyComplete
  <2>3. ~ImportBegin(j)
    BY <1>1, <2>1 DEF Inv, TypeOK, ListFresh, ImportBegin
  <2> QED BY <1>3, <2>2, <2>3, TargetKept DEF Inv
<1>7. CASE WriteMarker
  <2>1. /\ phase = "mark" /\ marker' \in {cutoff, marker, 0} /\ files' = files
        /\ copies' = copies /\ row' = row /\ start' = start
        /\ marker' = cutoff => missed' = missed \cup failed \cup omitted
    BY <1>7 DEF WriteMarker, Quiet, table, target
  <2>2. InTarget(j)' <=> InTarget(j)
    BY <2>1 DEF InTarget
  <2>3. CASE start[j] < marker
    BY <1>3, <2>1, <2>2, <2>3 DEF Inv, CopyComplete
  <2>4. CASE ~(start[j] < marker) /\ marker' = cutoff
    <3>1. j \in listed \cup omitted
      BY <1>1, <2>1, <2>4 DEF Inv, ListComplete
    <3>2. j \in listed => Done(j)
      BY <2>1 DEF Inv, Progress
    <3> QED BY <2>1, <2>2, <2>4, <3>1, <3>2 DEF Done
  <2> QED BY <1>1, <2>1, <2>3, <2>4
<1> QED BY <1>4, <1>6, <1>7

LEMMA NextInv == Inv /\ [Next]_vars => Inv'
<1> SUFFICES ASSUME Inv, [Next]_vars PROVE Inv'
  OBVIOUS
<1>1. CASE Next
  BY <1>1, TypeStep, ClockStep, ArchivedOnceStep, NamesStep, PhaseStep, ProgressStep,
     ListStep, CopyStep DEF Inv
<1>2. CASE UNCHANGED vars
  <2> USE <1>2 DEF vars, table, worker, target, local
  <2>1. TypeOK' /\ Clock' /\ ArchivedOnce'
    BY DEF Inv, TypeOK, Clock, ArchivedOnce
  <2>2. NamesFree' /\ PhaseOK' /\ Progress'
    BY DEF Inv, NamesFree, PhaseOK, Progress, Done, InTarget
  <2>3. ListComplete' /\ ListFresh' /\ CopyComplete'
    BY DEF Inv, ListComplete, ListFresh, CopyComplete, InTarget
  <2> QED BY <2>1, <2>2, <2>3 DEF Inv
<1> QED BY <1>1, <1>2
-----------------------------------------------------------------------------
LEMMA InvHolds == Spec => []Inv
BY InitInv, NextInv, PTL DEF Spec

(* Every variable keeps its type in every state.                           *)
THEOREM RetentionTypeCorrect == Spec => []TypeOK
<1>1. Inv => TypeOK
  BY DEF Inv
<1> QED BY <1>1, InvHolds, PTL

(* The intervals of consecutive runs of the copy service cover every job   *)
(* in front of the marker, whatever fails in between.                      *)
THEOREM RetentionCopyComplete == Spec => []CopyComplete
<1>1. Inv => CopyComplete
  BY DEF Inv
<1> QED BY <1>1, InvHolds, PTL

LEMMA StepKeepsJobs ==
  ASSUME Inv, Next, config.service = "move", NEW j \in Jobs, Kept(j)
  PROVE  Kept(j)' \/ j \in failed
<1> USE RetentionAssumption
<1>1. CASE ImportBegin(j)
  BY <1>1 DEF ImportBegin, Kept
<1>2. CASE InTarget(j) /\ ~ImportBegin(j)
  BY <1>2, TargetKept DEF Inv, Kept
<1>3. CASE archive[j] = "full" /\ ~InTarget(j)
  <2>1. CASE archive' = archive
    BY <1>3, <2>1 DEF Kept
  <2>2. CASE \E i \in Jobs : ArchiveBegin(i)
    BY <1>3, <2>2 DEF ArchiveBegin, Inv, ArchivedOnce, TypeOK, Kept
  <2>3. CASE ArchiveEnd
    BY <1>3, <2>3 DEF ArchiveEnd, Inv, TypeOK, Kept
  <2>4. CASE \E i \in Jobs : CleanUp(i)
    <3> PICK i \in Jobs : CleanUp(i)
      BY <2>4
    <3>1. i \in listed /\ phase = "clean"
      BY DEF CleanUp, Inv, TypeOK
    <3>2. Done(i)
      BY <3>1 DEF Inv, Progress
    <3>3. CASE i = j
      BY <1>3, <3>2, <3>3 DEF Done
    <3>4. CASE i # j
      BY <1>3, <3>4 DEF CleanUp, Inv, TypeOK, Kept
    <3> QED BY <3>3, <3>4
  <2>5. archive' = archive \/ (\E i \in Jobs : ArchiveBegin(i)) \/ ArchiveEnd
        \/ (\E i \in Jobs : CleanUp(i))
    BY DEF Next, StartJob, StopJob, StopExceeding, DeleteJob, ChangeTag, ArchiveFails,
           LoadFails, ImportBegin, ImportEnd, Add, Begin, CloseFlush, Abort,
           Transferred, CleanedUp, WriteMarker, Crash, Tick
  <2> QED BY <2>1, <2>2, <2>3, <2>4, <2>5
<1> QED BY <1>1, <1>2, <1>3 DEF Kept

(* Moving never lets go of the last complete copy of a job whose transfer  *)
(* has not failed.                                                         *)
THEOREM RetentionMoveKeepsJobs == Spec => MoveKeepsJobs
<1>1. Inv /\ [Next]_vars =>
        [config.service = "move" =>
           \A j \in Jobs : Kept(j) => Kept(j)' \/ j \in failed]_vars
  BY StepKeepsJobs
<1> QED BY <1>1, InvHolds, PTL DEF Spec, MoveKeepsJobs

(* DeleteJobsBefore, by time, takes no row the run has not listed.         *)
THEOREM RetentionOnlyListedRowsGo == Spec => OnlyListedRowsGo
<1>1. ASSUME Inv, CleanedUp, NEW j \in Jobs, row[j] # "none", row'[j] = "none"
      PROVE  j \in listed \cup omitted
  <2>1. phase = "clean" /\ row[j] # "none" /\ start[j] < cutoff
    BY <1>1 DEF CleanedUp, Delete, RowsBefore, table, Inv, TypeOK
  <2>2. config.service # "copy"
    BY <1>1, <2>1 DEF Inv, PhaseOK
  <2> QED BY <1>1, <2>1, <2>2 DEF Inv, ListComplete
<1>2. Inv /\ [Next]_vars =>
        [CleanedUp => \A j \in Jobs :
           row[j] # "none" /\ row'[j] = "none" => j \in listed \cup omitted]_vars
  BY <1>1
<1> QED BY <1>2, InvHolds, PTL DEF Spec, OnlyListedRowsGo
=============================================================================
