------------------------------ MODULE Archiver ------------------------------
(***************************************************************************)
(* Job archiving: package internal/archiver with its callers (the REST and *)
(* NATS stop handlers) and the shutdown of the server.  A stop handler     *)
(* marks the job as stopped under JobRepository.Mutex and hands it to the  *)
(* archiver, which counts it in a WaitGroup and sends it over a bounded    *)
(* channel; one worker archives job after job; Shutdown closes the channel *)
(* and waits for the WaitGroup, or cancels the worker after a timeout.     *)
(*                                                                         *)
(* Abstractions.  Every job is stopped once; a job's metric data, footprint*)
(* and energy are left out.  Which step of archiving fails is a free       *)
(* choice.  The drain of the HTTP server before Shutdown may time out, and *)
(* the NATS workers are not waited for at all, so a handler may be at any  *)
(* point when the channel is closed.                                       *)
(***************************************************************************)
EXTENDS Naturals, Sequences, FiniteSets

CONSTANTS
  Jobs,      \* jobs to be stopped, each by a handler of its own
  Nats,      \* those whose stop request arrives over NATS
  ChanCap,   \* capacity of archiveChannel (128)
  DbErrors   \* whether a write to the job table may fail

ASSUME ArchiverAssumption ==
  /\ IsFiniteSet(Jobs) /\ Nats \subseteq Jobs
  /\ ChanCap \in Nat \ {0} /\ DbErrors \in BOOLEAN

VARIABLES
  pc,        \* per job: how far its handler, then the worker, has come
  db,        \* per job: monitoring_status in the job table
  mutex,     \* the jobs whose handler holds JobRepository.Mutex
  queue,     \* archiveChannel
  closed,    \* archiveChannel has been closed
  pending,   \* archivePending
  stored,    \* jobs in the job archive
  hooked,    \* jobs whose stop hooks have run
  cancelled, \* shutdownCtx is done
  gone,      \* workerDone is closed
  shut,      \* progress of archiver.Shutdown
  server     \* life of the process

handler == <<mutex, queue, closed, pending>>
results == <<db, stored, hooked>>
control == <<cancelled, gone, shut, server>>
vars    == <<pc, handler, results, control>>

(* Handler: idle, waiting (request checked, wants the mutex), stopped (row *)
(* updated), sending (counted, at the channel), panicked.  Channel: queued.*)
(* Worker: meta, archive, update, hooks.  done: processed, well or badly.  *)
Working == {"meta", "archive", "update", "hooks"}
Steps   == {"idle", "waiting", "stopped", "sending", "queued", "done",
            "panicked"} \cup Working

Statuses == {"running", "failed", "success"}

Up == server \in {"run", "closing"}

(* The jobs the WaitGroup counts: a handler that panicked never calls Done.*)
Counted == {j \in Jobs : pc[j] \in {"sending", "queued", "panicked"} \cup Working}

(* The worker is at its select.                                            *)
AtSelect == ~gone /\ \A j \in Jobs : pc[j] \notin Working

Init ==
  /\ pc = [j \in Jobs |-> "idle"] /\ db = [j \in Jobs |-> "running"]
  /\ mutex = {} /\ queue = <<>> /\ closed = FALSE /\ pending = 0
  /\ stored = {} /\ hooked = {}
  /\ cancelled = FALSE /\ gone = FALSE /\ shut = "no" /\ server = "run"
-----------------------------------------------------------------------------
(* The stop handlers.                                                      *)

(* A stop request has passed its checks.                                   *)
Arrive(j) ==
  /\ server = "run" /\ pc[j] = "idle"
  /\ pc' = [pc EXCEPT ![j] = "waiting"]
  /\ UNCHANGED <<handler, results, control>>

(* checkAndHandleStopJob, handleStopJob: lock, mark the job as stopped;    *)
(* Stop writes back the monitoring status the job had.                     *)
StopJob(j) ==
  /\ Up /\ pc[j] = "waiting" /\ mutex = {}
  /\ mutex' = {j}
  /\ pc' = [pc EXCEPT ![j] = "stopped"]
  /\ UNCHANGED <<queue, closed, pending, results, control>>

(* The row cannot be updated: the handler gives up and unlocks.            *)
StopFails(j) ==
  /\ DbErrors /\ Up /\ pc[j] = "waiting" /\ mutex = {}
  /\ pc' = [pc EXCEPT ![j] = "idle"]
  /\ UNCHANGED <<handler, results, control>>

(* Mutant of Trigger: the job is sent without having been counted.         *)
TriggerUncounted(j) ==
  /\ Up /\ pc[j] = "stopped"
  /\ pc' = [pc EXCEPT ![j] = "sending"]
  /\ UNCHANGED <<handler, results, control>>

(* TriggerArchiving: archivePending.Add(1) ...                             *)
Trigger(j) ==
  /\ Up /\ pc[j] = "stopped"
  /\ pc' = [pc EXCEPT ![j] = "sending"]
  /\ pending' = pending + 1
  /\ UNCHANGED <<mutex, queue, closed, results, control>>

(* Mutant of Send: the handler returns without its Unlock.                 *)
SendLocked(j) ==
  /\ Up /\ pc[j] = "sending" /\ ~closed /\ Len(queue) < ChanCap
  /\ pc' = [pc EXCEPT ![j] = "queued"]
  /\ queue' = Append(queue, j)
  /\ UNCHANGED <<mutex, closed, pending, results, control>>

(* ... then the send, which blocks while the channel is full.  The handler *)
(* returns, and its deferred Unlock runs.                                  *)
Send(j) ==
  /\ Up /\ pc[j] = "sending" /\ ~closed /\ Len(queue) < ChanCap
  /\ pc' = [pc EXCEPT ![j] = "queued"]
  /\ queue' = Append(queue, j)
  /\ mutex' = {}
  /\ UNCHANGED <<closed, pending, results, control>>

(* A send on a closed channel panics, one that was blocked as well.  The   *)
(* HTTP router recovers; in a NATS worker it ends the process.             *)
SendPanics(j) ==
  /\ Up /\ pc[j] = "sending" /\ closed
  /\ pc' = [pc EXCEPT ![j] = "panicked"]
  /\ mutex' = {}
  /\ server' = IF j \in Nats THEN "crashed" ELSE server
  /\ UNCHANGED <<queue, closed, pending, results, cancelled, gone, shut>>
-----------------------------------------------------------------------------
(* archivingWorker.                                                        *)

(* Mutant of Take: the worker works under the repository's mutex.          *)
TakeLocked ==
  /\ Up /\ AtSelect /\ queue # <<>> /\ mutex = {}
  /\ pc' = [pc EXCEPT ![Head(queue)] = "meta"]
  /\ queue' = Tail(queue)
  /\ UNCHANGED <<mutex, closed, pending, results, control>>

(* Mutant of Take: a second worker runs.                                   *)
TakeTwo ==
  /\ Up /\ ~gone /\ queue # <<>> /\ Cardinality({j \in Jobs : pc[j] \in Working}) < 2
  /\ pc' = [pc EXCEPT ![Head(queue)] = "meta"]
  /\ queue' = Tail(queue)
  /\ UNCHANGED <<mutex, closed, pending, results, control>>

Take ==
  /\ Up /\ AtSelect /\ queue # <<>>
  /\ pc' = [pc EXCEPT ![Head(queue)] = "meta"]
  /\ queue' = Tail(queue)
  /\ UNCHANGED <<mutex, closed, pending, results, control>>

(* select takes ctx.Done even when the channel has a job.                  *)
WorkerExits ==
  /\ Up /\ AtSelect
  /\ cancelled \/ (closed /\ queue = <<>>)
  /\ gone' = TRUE
  /\ UNCHANGED <<pc, handler, results, cancelled, shut, server>>

MetaFound(j) ==
  /\ Up /\ pc[j] = "meta"
  /\ pc' = [pc EXCEPT ![j] = "archive"]
  /\ UNCHANGED <<handler, results, control>>

(* Mutant of Stored: the row is marked before the data is in the archive.  *)
StoredEarly(j) ==
  /\ Up /\ pc[j] = "archive"
  /\ pc' = [pc EXCEPT ![j] = "update"]
  /\ db' = [db EXCEPT ![j] = "success"]
  /\ UNCHANGED <<handler, stored, hooked, control>>

(* ArchiveJob: the job is in the archive.                                  *)
Stored(j) ==
  /\ Up /\ pc[j] = "archive"
  /\ pc' = [pc EXCEPT ![j] = "update"]
  /\ stored' = stored \cup {j}
  /\ UNCHANGED <<handler, db, hooked, control>>

(* FetchMetadata or ArchiveJob fails: the job is marked as failed; an      *)
(* error of that update is ignored.                                        *)
ArchivingFails(j) ==
  /\ Up /\ pc[j] \in {"meta", "archive"}
  /\ pc' = [pc EXCEPT ![j] = "done"]
  /\ \/ db' = [db EXCEPT ![j] = "failed"]
     \/ DbErrors /\ UNCHANGED db
  /\ pending' = pending - 1
  /\ UNCHANGED <<mutex, queue, closed, stored, hooked, control>>

(* UpdateFootprint, UpdateEnergy, MarkArchived, Execute.                   *)
MarkArchived(j) ==
  /\ Up /\ pc[j] = "update"
  /\ pc' = [pc EXCEPT ![j] = "hooks"]
  /\ db' = [db EXCEPT ![j] = "success"]
  /\ UNCHANGED <<handler, stored, hooked, control>>

(* Mutant of UpdateFails: an early continue without Done.                  *)
UpdateFailsUncounted(j) ==
  /\ DbErrors /\ Up /\ pc[j] = "update"
  /\ pc' = [pc EXCEPT ![j] = "done"]
  /\ UNCHANGED <<handler, results, control>>

(* One of them fails: the job keeps its status, the hooks do not run.      *)
UpdateFails(j) ==
  /\ DbErrors /\ Up /\ pc[j] = "update"
  /\ pc' = [pc EXCEPT ![j] = "done"]
  /\ pending' = pending - 1
  /\ UNCHANGED <<mutex, queue, closed, results, control>>

(* CallJobStopHooks.                                                       *)
RunHooks(j) ==
  /\ Up /\ pc[j] = "hooks"
  /\ pc' = [pc EXCEPT ![j] = "done"]
  /\ hooked' = hooked \cup {j}
  /\ pending' = pending - 1
  /\ UNCHANGED <<mutex, queue, closed, db, stored, control>>
-----------------------------------------------------------------------------
(* The end of the server.                                                  *)

(* The HTTP server fails: runServer cancels the context everything was     *)
(* started with.                                                           *)
ServeError ==
  /\ server = "run" /\ ~cancelled
  /\ cancelled' = TRUE
  /\ UNCHANGED <<pc, handler, results, gone, shut, server>>

(* Mutant of ShutdownBegin: the channel stays open.                        *)
ShutdownBeginOpen ==
  /\ server = "run"
  /\ server' = "closing" /\ shut' = "wait"
  /\ UNCHANGED <<pc, handler, results, cancelled, gone>>

(* Server.Shutdown reaches archiver.Shutdown, which closes the channel.    *)
ShutdownBegin ==
  /\ server = "run"
  /\ server' = "closing" /\ shut' = "wait" /\ closed' = TRUE
  /\ UNCHANGED <<pc, mutex, queue, pending, results, cancelled, gone>>

(* Mutant of WaitReturns: Shutdown looks at the channel, not at the count. *)
WaitReturnsEmpty ==
  /\ Up /\ shut = "wait" /\ queue = <<>>
  /\ shut' = "drained"
  /\ UNCHANGED <<pc, handler, results, cancelled, gone, server>>

(* archivePending.Wait returns in time, or the timeout comes first.        *)
WaitReturns ==
  /\ Up /\ shut = "wait" /\ pending = 0
  /\ shut' = "drained"
  /\ UNCHANGED <<pc, handler, results, cancelled, gone, server>>

Timeout ==
  /\ Up /\ shut = "wait"
  /\ shut' = "expired" /\ cancelled' = TRUE
  /\ UNCHANGED <<pc, handler, results, gone, server>>

(* workerDone is closed: Shutdown returns nil or an error.                 *)
ShutdownEnds ==
  /\ Up /\ shut \in {"drained", "expired"} /\ gone
  /\ shut' = IF shut = "drained" THEN "ok" ELSE "err"
  /\ UNCHANGED <<pc, handler, results, cancelled, gone, server>>

(* Server.Shutdown returns, after archiver.Shutdown or at its own deadline,*)
(* and the process exits.                                                  *)
Exit ==
  /\ server = "closing"
  /\ server' = "exited"
  /\ UNCHANGED <<pc, handler, results, cancelled, gone, shut>>
-----------------------------------------------------------------------------
Handle(j) == StopJob(j) \/ StopFails(j) \/ Trigger(j) \/ Send(j) \/ SendPanics(j)

Process(j) ==
  MetaFound(j) \/ Stored(j) \/ ArchivingFails(j) \/ MarkArchived(j)
    \/ UpdateFails(j) \/ RunHooks(j)

Worker == Take \/ WorkerExits \/ \E j \in Jobs : Process(j)

Next ==
  \/ \E j \in Jobs :
       \/ Arrive(j)
       \/ StopJob(j) \/ StopFails(j) \/ Trigger(j) \/ Send(j) \/ SendPanics(j)
       \/ MetaFound(j) \/ Stored(j) \/ ArchivingFails(j)
       \/ MarkArchived(j) \/ UpdateFails(j) \/ RunHooks(j)
  \/ Take \/ WorkerExits
  \/ ServeError \/ ShutdownBegin \/ WaitReturns \/ Timeout \/ ShutdownEnds
  \/ Exit

(* The worker and a handler that is past its checks are running            *)
(* goroutines; a Go mutex does not starve a waiter.  The timer fires.      *)
(* Nothing forces a request, an error, a shutdown or the exit.             *)
Fairness ==
  /\ WF_vars(Worker)
  /\ \A j \in Jobs : WF_vars(Trigger(j) \/ Send(j) \/ SendPanics(j))
                     /\ SF_vars(StopJob(j))
  /\ WF_vars(WaitReturns \/ Timeout) /\ WF_vars(ShutdownEnds)

Spec     == Init /\ [][Next]_vars
FairSpec == Spec /\ Fairness
-----------------------------------------------------------------------------
(* What the stop handlers see of the archiver: the line is the job in work *)
(* before those in the channel.                                            *)
InWork == {j \in Jobs : pc[j] \in Working}
Line   == IF InWork = {} THEN queue ELSE <<CHOOSE j \in InWork : TRUE>> \o queue

Outcome(j) ==
  CASE pc[j] # "done" -> "none"
    [] pc[j] = "done" /\ j \in hooked -> "archived"
    [] OTHER -> "failed"

Service == INSTANCE ArchiveService
             WITH line <- Line, outcome <- [j \in Jobs |-> Outcome(j)],
                  over <- shut \in {"drained", "ok"}
-----------------------------------------------------------------------------
(* Properties.                                                             *)

(* Every variable keeps its type.                                          *)
TypeOK ==
  /\ pc \in [Jobs -> Steps] /\ db \in [Jobs -> Statuses]
  /\ mutex \subseteq Jobs /\ queue \in Seq(Jobs) /\ closed \in BOOLEAN
  /\ pending \in Nat
  /\ stored \subseteq Jobs /\ hooked \subseteq Jobs
  /\ cancelled \in BOOLEAN /\ gone \in BOOLEAN
  /\ shut \in {"no", "wait", "drained", "expired", "ok", "err"}
  /\ server \in {"run", "closing", "exited", "crashed"}

(* archivePending counts exactly the jobs between their Add and their      *)
(* Done, whichever way the worker leaves them, and those whose handler     *)
(* panicked in between: it never goes negative (which panics) and reaches  *)
(* zero only when nothing is under way.                                    *)
PendingExact == pending = Cardinality(Counted)

(* archiver.Shutdown returns nil only if every job handed over has been    *)
(* processed: none is left in the channel or half archived, however the    *)
(* context was cancelled and whatever handlers are still at work.          *)
CleanShutdown ==
  shut \in {"drained", "ok"} =>
    \A j \in Jobs : pc[j] \notin {"queued"} \cup Working

(* A job's row says "archived" only if the archive has the job; its hooks  *)
(* run after that, and do run unless the process ends first.               *)
SuccessMeansArchived ==
  \A j \in Jobs :
    /\ db[j] = "success" => j \in stored
    /\ j \in hooked => db[j] = "success"
    /\ pc[j] = "done" /\ db[j] = "success" => j \in hooked

(* A handler can go on, or the worker can.                                 *)
CanGoOn ==
  \/ \E j \in Jobs :
       \/ pc[j] \in {"stopped"} \cup Working
       \/ pc[j] = "waiting" /\ mutex = {}
       \/ pc[j] = "sending" /\ (closed \/ Len(queue) < ChanCap)
  \/ AtSelect /\ queue # <<>>

(* No deadlock of handlers, mutex, channel and worker: although a handler  *)
(* keeps JobRepository.Mutex while the channel is full, someone can go on  *)
(* as long as the worker runs and a job is neither done nor given up.      *)
NeverStuck ==
  Up /\ ~gone /\ (\E j \in Jobs : pc[j] \notin {"idle", "done", "panicked"}) => CanGoOn

(* The channel, the WaitGroup and the worker implement ArchiveService:     *)
(* every job handed over is finished once, in the order of the hand-overs, *)
(* and a Shutdown that returns nil leaves an empty line for good.          *)
ImplementsService == Service!Spec

(* A stop request that waits for JobRepository.Mutex gets it and, once the *)
(* row is updated, its job is processed, although handlers hold the mutex  *)
(* while the channel is full: unless the worker is cancelled.              *)
EveryStopSettles ==
  \A j \in Jobs :
    pc[j] = "waiting" ~>
      pc[j] \in {"idle", "done", "panicked"} \/ cancelled \/ ~Up

(* archiver.Shutdown returns: the worker leaves its loop in either case.   *)
ShutdownReturns == shut = "wait" ~> shut \in {"ok", "err"} \/ ~Up

(* "Jobs that don't complete within the timeout will be marked as failed"  *)
(* (archiveWorker.go:214): once Shutdown has returned its error, no job    *)
(* that was handed over still has the status "running or archiving".       *)
UnfinishedAreFailed ==
  shut = "err" =>
    \A j \in Jobs : pc[j] \in {"queued", "done"} \cup Working => db[j] # "running"
=============================================================================
