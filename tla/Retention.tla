----------------------------- MODULE Retention ------------------------------
(***************************************************************************)
(* The retention services of the task manager (retentionService.go) among  *)
(* everything that changes what they work on: jobs that start, stop and    *)
(* are archived, tags that come and go, rows that are deleted over the     *)
(* API, crashes.  Once a day the configured service lists the jobs that    *)
(* are old enough, copies their archive entries to a target, as JSON or as *)
(* Parquet files, and moves its marker on or deletes what it has copied.   *)
(*                                                                         *)
(* Abstractions.  A day is the unit of time; a job starts when it is       *)
(* registered, and a run of the service ends before the next one begins.   *)
(* A tag is one the setting omit-tagged counts.  The size limit of a       *)
(* Parquet file is a number of jobs.  An archive entry is "full" when      *)
(* meta.json and the data are there.                                       *)
(***************************************************************************)
EXTENDS Integers, FiniteSets

CONSTANTS
  Jobs, NoJob,
  Clusters, ClusterOf,
  Configs,   \* settings to check
  Age,       \* days until a job is old enough
  Walltime,  \* days until a running job is taken for dead
  MaxFile,   \* jobs in a Parquet file
  MaxTime    \* bound on the clock

Settings == [service : {"delete", "copy", "move"}, format : {"json", "parquet"},
             includeDB : BOOLEAN, omitTagged : BOOLEAN]

ASSUME RetentionAssumption ==
  /\ NoJob \notin Jobs /\ ClusterOf \in [Jobs -> Clusters]
  /\ Configs \subseteq Settings
  /\ Age \in Nat \ {0} /\ Walltime \in Nat /\ MaxFile \in Nat \ {0}
  /\ MaxTime \in Nat \ {0}

VARIABLES
  config,    \* the settings in force
  now,       \* the day
  start,     \* per job: the day it was registered, 0 before
  row,       \* per job: "none", "running" or "stopped" in the job table
  tagged,    \* jobs with a tag
  queue,     \* jobs the archiver has still to do
  working,   \* job the archiver works on
  archive,   \* per job: its entry in the archive, "none", "part" or "full"
  copies,    \* per job: its entry in a JSON target
  files,     \* Parquet files of the target
  marker,    \* .copy-marker, 0 for none
  phase,     \* what the service is doing
  lastRun, cutoff,
  listed,    \* jobs FindJobsBetween returned
  todo,      \* those still to be transferred or removed
  importing, \* job whose JSON copy is being written
  batch,     \* per cluster: rows of the Parquet writer
  count,     \* per cluster: its file counter
  failed,    \* jobs whose transfer ended in the log
  omitted,   \* old jobs that were left out for their tags
  missed     \* jobs that runs of the copy service passed by like that

table  == <<start, row, tagged>>
worker == <<queue, working>>
target == <<copies, files>>
local  == <<cutoff, listed, todo, importing, batch, count, failed, omitted>>
vars   == <<config, now, table, worker, archive, target, marker, phase, lastRun,
            local, missed>>

Entry == {"none", "part", "full"}
Days  == 0..MaxTime
Files == [day : Days, cluster : Clusters, n : Nat, jobs : SUBSET Jobs]
Phases == {"idle", "transfer", "clean", "mark"}

Init ==
  /\ config \in Configs
  /\ now = 1
  /\ start = [j \in Jobs |-> 0] /\ row = [j \in Jobs |-> "none"] /\ tagged = {}
  /\ queue = {} /\ working = NoJob
  /\ archive = [j \in Jobs |-> "none"] /\ copies = [j \in Jobs |-> "none"]
  /\ files = {} /\ marker = 0
  /\ phase = "idle" /\ lastRun = 0 /\ missed = {}
  /\ cutoff = 0 /\ listed = {} /\ todo = {} /\ importing = NoJob
  /\ batch = [c \in Clusters |-> {}] /\ count = [c \in Clusters |-> 0]
  /\ failed = {} /\ omitted = {}
-----------------------------------------------------------------------------
(* The job table.                                                          *)

StartJob(j) ==
  /\ start[j] = 0
  /\ start' = [start EXCEPT ![j] = now]
  /\ row' = [row EXCEPT ![j] = "running"]
  /\ UNCHANGED <<config, now, tagged, worker, archive, target, marker, phase,
                 lastRun, local, missed>>

(* Stop and TriggerArchiving.                                              *)
StopJob(j) ==
  /\ row[j] = "running"
  /\ row' = [row EXCEPT ![j] = "stopped"]
  /\ queue' = queue \cup {j}
  /\ UNCHANGED <<config, now, start, tagged, working, archive, target, marker,
                 phase, lastRun, local, missed>>

(* StopJobsExceedingWalltimeBy: such jobs are never archived.              *)
StopExceeding ==
  LET dead == {j \in Jobs : row[j] = "running" /\ start[j] < now - Walltime}
  IN  /\ dead # {}
      /\ row' = [j \in Jobs |-> IF j \in dead THEN "stopped" ELSE row[j]]
      /\ UNCHANGED <<config, now, start, tagged, worker, archive, target, marker,
                     phase, lastRun, local, missed>>

(* Rows that are deleted take their tags along.                            *)
Delete(gone) ==
  /\ row' = [j \in Jobs |-> IF j \in gone THEN "none" ELSE row[j]]
  /\ tagged' = tagged \ gone
  /\ UNCHANGED start

(* DeleteJobByID, over the API.                                            *)
DeleteJob(j) ==
  /\ row[j] # "none"
  /\ Delete({j})
  /\ UNCHANGED <<config, now, worker, archive, target, marker, phase, lastRun,
                 local, missed>>

(* AddTag and RemoveTag, for a tag the setting counts.                     *)
ChangeTag(j) ==
  /\ row[j] # "none" /\ config.omitTagged
  /\ tagged' = IF j \in tagged THEN tagged \ {j} ELSE tagged \cup {j}
  /\ UNCHANGED <<config, now, start, row, worker, archive, target, marker, phase,
                 lastRun, local, missed>>
-----------------------------------------------------------------------------
(* The archiver: ImportJob writes meta.json first and the data then.       *)

(* Without a row, FetchMetadata fails.                                     *)
ArchiveBegin(j) ==
  /\ working = NoJob /\ j \in queue
  /\ queue' = queue \ {j}
  /\ IF row[j] = "none" THEN UNCHANGED <<working, archive>>
     ELSE working' = j /\ archive' = [archive EXCEPT ![j] = "part"]
  /\ UNCHANGED <<config, now, table, target, marker, phase, lastRun, local, missed>>

(* The data cannot be written when the directory has been removed.         *)
ArchiveEnd ==
  /\ working # NoJob /\ archive[working] # "none"
  /\ archive' = [archive EXCEPT ![working] = "full"]
  /\ working' = NoJob
  /\ UNCHANGED <<config, now, table, queue, target, marker, phase, lastRun, local,
                 missed>>

ArchiveFails ==
  /\ working # NoJob
  /\ working' = NoJob
  /\ UNCHANGED <<config, now, table, queue, archive, target, marker, phase,
                 lastRun, local, missed>>
-----------------------------------------------------------------------------
(* A run of the service.                                                   *)

(* Mutant of Between: an interval begins behind the end of the last one.   *)
BetweenOpen(from, to) ==
  {j \in Jobs : row[j] # "none" /\
     IF from = 0 THEN start[j] < to ELSE from < start[j] /\ start[j] <= to}

(* FindJobsBetween, whatever the tags: without a beginning it excludes the *)
(* end, with one (BETWEEN) it includes both.                               *)
Between(from, to) ==
  {j \in Jobs : row[j] # "none" /\
     IF from = 0 THEN start[j] < to ELSE from <= start[j] /\ start[j] <= to}
Omitted(found) == IF config.omitTagged THEN found \cap tagged ELSE {}

(* Is the entry of a job complete in the target?                           *)
InTarget(j) == copies[j] = "full" \/ \E f \in files : j \in f.jobs

Quiet == <<config, now, table, worker>>

(* The beginning of a run, up to its list of jobs.                         *)
Begin ==
  LET to    == now - Age
      from  == IF config.service = "copy" THEN marker ELSE 0
      found == Between(from, to)
      jobs  == found \ Omitted(found)
  IN  /\ phase = "idle" /\ lastRun < now /\ from < to
      /\ lastRun' = now
      /\ IF jobs = {} THEN UNCHANGED <<phase, local>>
         ELSE /\ phase' = IF config.service = "delete" THEN "clean" ELSE "transfer"
              /\ cutoff' = to /\ listed' = jobs /\ todo' = jobs
              /\ omitted' = Omitted(found)
              /\ UNCHANGED <<importing, batch, count, failed>>
      /\ UNCHANGED <<Quiet, archive, target, marker, missed>>

(* Mutant of Over: the Parquet writers are kept for the next run.          *)
OverKeeping ==
  /\ phase' = "idle"
  /\ cutoff' = 0 /\ listed' = {} /\ todo' = {} /\ importing' = NoJob
  /\ failed' = {} /\ omitted' = {}
  /\ UNCHANGED <<batch, count>>

(* The end of a run, and of all it keeps in variables of its own.          *)
Over ==
  /\ phase' = "idle"
  /\ cutoff' = 0 /\ listed' = {} /\ todo' = {} /\ importing' = NoJob
  /\ batch' = [c \in Clusters |-> {}] /\ count' = [c \in Clusters |-> 0]
  /\ failed' = {} /\ omitted' = {}

(* The next job cannot be loaded or converted; nobody tries again.         *)
LoadFails(j) ==
  /\ phase = "transfer" /\ importing = NoJob /\ j \in todo
  /\ todo' = todo \ {j} /\ failed' = failed \cup {j}
  /\ UNCHANGED <<Quiet, archive, target, marker, phase, lastRun, cutoff, listed,
                 importing, batch, count, omitted, missed>>

(* transferJobsJSON: ImportJob into the target truncates what is there.    *)
ImportBegin(j) ==
  /\ phase = "transfer" /\ config.format = "json"
  /\ importing = NoJob /\ j \in todo /\ archive[j] = "full"
  /\ todo' = todo \ {j} /\ importing' = j
  /\ copies' = [copies EXCEPT ![j] = "part"]
  /\ UNCHANGED <<Quiet, archive, files, marker, phase, lastRun, cutoff, listed,
                 batch, count, failed, omitted, missed>>

ImportEnd ==
  /\ importing # NoJob
  /\ importing' = NoJob
  /\ \/ copies' = [copies EXCEPT ![importing] = "full"] /\ failed' = failed
     \/ failed' = failed \cup {importing} /\ copies' = copies
  /\ UNCHANGED <<Quiet, archive, files, marker, phase, lastRun, cutoff, listed,
                 todo, batch, count, omitted, missed>>

(* Flush: a file of the rows of a cluster, named by day and counter.       *)
File(c) == [day |-> lastRun, cluster |-> c, n |-> count[c] + 1, jobs |-> batch[c]]
SameName(f) ==
  {g \in files : g.day = f.day /\ g.cluster = f.cluster /\ g.n = f.n}
Flushed(c) == (files \ SameName(File(c))) \cup {File(c)}
Counted(c) == [count EXCEPT ![c] = @ + 1]

(* transferJobsParquet: AddJob flushes a full batch first; when that fails *)
(* the rows stay for the next try, but this job is not added.              *)
Add(j) ==
  LET c    == ClusterOf[j]
      full == Cardinality(batch[c]) >= MaxFile
  IN  /\ phase = "transfer" /\ config.format = "parquet"
      /\ j \in todo /\ archive[j] = "full"
      /\ todo' = todo \ {j}
      /\ \/ /\ ~full
            /\ batch' = [batch EXCEPT ![c] = @ \cup {j}]
            /\ UNCHANGED <<files, count, failed>>
         \/ /\ full
            /\ files' = Flushed(c) /\ count' = Counted(c)
            /\ batch' = [batch EXCEPT ![c] = {j}]
            /\ UNCHANGED failed
         \/ /\ full
            /\ count' = Counted(c) /\ failed' = failed \cup {j}
            /\ UNCHANGED <<files, batch>>
      /\ UNCHANGED <<Quiet, archive, copies, marker, phase, lastRun, cutoff, listed,
                     importing, omitted, missed>>

(* Close flushes cluster by cluster.                                       *)
CloseFlush(c) ==
  /\ phase = "transfer" /\ todo = {} /\ batch[c] # {}
  /\ files' = Flushed(c) /\ count' = Counted(c)
  /\ batch' = [batch EXCEPT ![c] = {}]
  /\ UNCHANGED <<Quiet, archive, copies, marker, phase, lastRun, cutoff, listed,
                 todo, importing, failed, omitted, missed>>

(* The target cannot be opened, or a file not be written: the run is over. *)
Abort ==
  /\ phase = "transfer" /\ importing = NoJob
  /\ todo = listed \/ (config.format = "parquet" /\ todo = {})
  /\ Over
  /\ UNCHANGED <<Quiet, archive, target, marker, lastRun, missed>>

(* Mutant of Transferred: moving goes on after an error of Close.          *)
TransferredAnyway ==
  /\ phase = "transfer" /\ todo = {} /\ importing = NoJob
  /\ config.service = "copy" => \A c \in Clusters : batch[c] = {}
  /\ IF config.service = "copy" THEN phase' = "mark" /\ todo' = {}
     ELSE phase' = "clean" /\ todo' = listed
  /\ UNCHANGED <<Quiet, archive, target, marker, lastRun, cutoff, listed, importing,
                 batch, count, failed, omitted, missed>>

(* The transfer has gone through all jobs and writers.                     *)
Transferred ==
  /\ phase = "transfer" /\ todo = {} /\ importing = NoJob
  /\ \A c \in Clusters : batch[c] = {}
  /\ IF config.service = "copy" THEN phase' = "mark" /\ todo' = {}
     ELSE phase' = "clean" /\ todo' = listed
  /\ UNCHANGED <<Quiet, archive, target, marker, lastRun, cutoff, listed, importing,
                 batch, count, failed, omitted, missed>>

(* Archive.CleanUp removes the entries of all listed jobs, one by one; an  *)
(* error leaves a part or all of it.                                       *)
CleanUp(j) ==
  /\ phase = "clean" /\ j \in todo
  /\ todo' = todo \ {j}
  /\ \/ archive' = [archive EXCEPT ![j] = "none"]
     \/ archive[j] = "full" /\ archive' = [archive EXCEPT ![j] = "part"]
     \/ archive' = archive
  /\ UNCHANGED <<Quiet, target, marker, phase, lastRun, cutoff, listed, importing,
                 batch, count, failed, omitted, missed>>

(* Mutant of RowsBefore: up to the end of the day of the cutoff.           *)
RowsUpTo(t) ==
  {j \in Jobs : row[j] # "none" /\ start[j] <= t /\ ~(config.omitTagged /\ j \in tagged)}

(* DeleteJobsBefore looks at times and tags, not at the list.              *)
RowsBefore(t) ==
  {j \in Jobs : row[j] # "none" /\ start[j] < t /\ ~(config.omitTagged /\ j \in tagged)}

CleanedUp ==
  /\ phase = "clean" /\ todo = {}
  /\ Over
  /\ \/ config.includeDB /\ Delete(RowsBefore(cutoff))
     \/ UNCHANGED table   \* not asked for, or an error
  /\ UNCHANGED <<config, now, worker, archive, target, marker, lastRun, missed>>

(* writeCopyMarker: on an error the file is as before or empty.            *)
WriteMarker ==
  /\ phase = "mark"
  /\ Over
  /\ marker' \in {cutoff, marker, 0}
  /\ missed' = IF marker' = cutoff THEN missed \cup failed \cup omitted ELSE missed
  /\ UNCHANGED <<Quiet, archive, target, lastRun>>
-----------------------------------------------------------------------------
(* The process ends and starts again: the queue and the run are lost.      *)
Crash ==
  /\ Over /\ queue' = {} /\ working' = NoJob
  /\ UNCHANGED <<config, now, table, archive, target, marker, lastRun, missed>>

Tick ==
  /\ now < MaxTime
  /\ now' = now + 1
  /\ UNCHANGED <<config, table, worker, archive, target, marker, phase, lastRun,
                 local, missed>>

Next ==
  \/ \E j \in Jobs :
       \/ StartJob(j) \/ StopJob(j) \/ DeleteJob(j) \/ ChangeTag(j) \/ ArchiveBegin(j)
       \/ LoadFails(j) \/ ImportBegin(j) \/ Add(j) \/ CleanUp(j)
  \/ StopExceeding \/ ArchiveEnd \/ ArchiveFails
  \/ Begin \/ ImportEnd \/ (\E c \in Clusters : CloseFlush(c)) \/ Abort
  \/ Transferred \/ CleanedUp \/ WriteMarker
  \/ Crash \/ Tick

Spec == Init /\ [][Next]_vars
-----------------------------------------------------------------------------
(* Properties.                                                             *)

(* Every variable keeps its type; a job that is being imported or is in a  *)
(* batch is one the run has listed.                                        *)
TypeOK ==
  /\ config \in Settings /\ now \in Days /\ lastRun \in Days
  /\ start \in [Jobs -> Days] /\ row \in [Jobs -> {"none", "running", "stopped"}]
  /\ tagged \subseteq Jobs /\ queue \subseteq Jobs /\ working \in Jobs \cup {NoJob}
  /\ archive \in [Jobs -> Entry] /\ copies \in [Jobs -> Entry]
  /\ files \subseteq Files /\ marker \in Days
  /\ phase \in Phases /\ cutoff \in Days
  /\ listed \subseteq Jobs /\ todo \subseteq listed
  /\ importing \in listed \cup {NoJob}
  /\ batch \in [Clusters -> SUBSET listed] /\ count \in [Clusters -> Nat]
  /\ failed \subseteq listed /\ omitted \subseteq Jobs /\ missed \subseteq Jobs

(* Moving loses nothing (transferJobs*, Close, cleanupAfterTransfer): a    *)
(* job that is complete in the archive or in the target stays so, through  *)
(* half-written copies, failed files, crashes and runs that start over,    *)
(* unless its own transfer has failed in this run.                         *)
Kept(j) == archive[j] = "full" \/ InTarget(j)

MoveKeepsJobs ==
  [][config.service = "move" =>
       \A j \in Jobs : Kept(j) => Kept(j)' \/ j \in failed]_vars

(* The copy service leaves no gap between its intervals: every job that    *)
(* started before its marker is complete in the target, unless its         *)
(* transfer failed or its tags excluded it.                                *)
CopyComplete ==
  config.service = "copy" =>
    \A j \in Jobs :
      row[j] # "none" /\ start[j] < marker => InTarget(j) \/ j \in missed

(* With the rows go only jobs the run has worked on, although rows are     *)
(* deleted by time and the list is older by a whole transfer.              *)
OnlyListedRowsGo ==
  [][CleanedUp => \A j \in Jobs :
       row[j] # "none" /\ row'[j] = "none" => j \in listed \cup omitted]_vars
=============================================================================
