------------------------------ MODULE JobStore ------------------------------
(***************************************************************************)
(* The life of a job in the database: package internal/repository with the *)
(* REST and NATS handlers for job start and stop and the commit service of *)
(* the task manager.  A started job is inserted into job_cache, or with    *)
(* tags into job directly; SyncJobs moves the whole cache into job from    *)
(* time to time and calls the start hooks; a stop looks the job up, then   *)
(* takes JobRepository.Mutex, moves a cached job over, marks it as stopped *)
(* and triggers archiving.                                                 *)
(*                                                                         *)
(* Abstractions.  A job is the triple (job_id, cluster, start_time), which *)
(* is UNIQUE in either table; requests name all three, and pass their      *)
(* syntactic checks.  SQL statements and transactions are atomic and do    *)
(* not fail.  Rows are not deleted (DeleteJobByID, retention).             *)
(***************************************************************************)
EXTENDS Naturals

CONSTANTS
  Jobs,    \* what a request can name: (job_id, cluster, start_time)
  Clash,   \* pairs (request, existing): same job_id and cluster, and the
           \* request does not start a day or more after the existing one
  Rest,    \* goroutines serving REST requests
  Nats,    \* NATS job workers
  MaxId    \* bound on the row ids of either table

ASSUME JobStoreAssumption ==
  /\ Clash \subseteq Jobs \X Jobs /\ \A k \in Jobs : <<k, k>> \in Clash
  /\ Rest \cap Nats = {}
  /\ MaxId \in Nat

VARIABLES
  job,       \* table job
  cache,     \* table job_cache
  local,     \* per handler: where it is and what it remembers
  mutex,     \* who holds JobRepository.Mutex
  creation,  \* who holds a RepositoryMutex: RestAPI and NatsAPI have their own
  hooks,     \* jobs SyncJobs has returned, whose start hooks are to be called
  accepted,  \* history: jobs whose start was confirmed
  requested  \* history: jobs whose stop was requested

vars == <<job, cache, local, mutex, creation, hooks, accepted, requested>>

Handlers == Rest \cup Nats
Ids      == 1..MaxId

Rows      == [id : Ids, key : Jobs, state : {"running", "stopped"}]
CacheRows == [id : Ids, key : Jobs]

(* A handler's local variables: job and isCached of the stop handlers.     *)
Idle   == [pc |-> "idle"]
Locals ==
  {Idle}
    \cup [pc : {"start"}, key : Jobs]
    \cup [pc : {"found"}, key : Jobs, id : Ids, cached : BOOLEAN]
    \cup [pc : {"stop"}, key : Jobs, id : 0..MaxId]

KeysIn(table) == {r.key : r \in table}

(* The id SQLite gives to a new row of a table without AUTOINCREMENT: one  *)
(* more than the largest in use.  The ids of deleted rows come back.       *)
NextId(table, i) ==
  /\ \A r \in table : r.id < i
  /\ i = 1 \/ \E r \in table : r.id = i - 1

(* Handlers that share h's RepositoryMutex.                                *)
Peers(h) == IF h \in Rest THEN Rest ELSE Nats

Init ==
  /\ job = {} /\ cache = {}
  /\ local = [h \in Handlers |-> Idle]
  /\ mutex = {} /\ creation = {}
  /\ hooks = {} /\ accepted = {} /\ requested = {}
-----------------------------------------------------------------------------
(* startJob, handleStartJob.                                               *)

(* Mutant of StartCheck: a duplicate is refused without unlocking.         *)
StartCheckLocked(h, k) ==
  /\ local[h] = Idle /\ creation \cap Peers(h) = {}
  /\ creation' = creation \cup {h}
  /\ local' = IF \E r \in job : <<k, r.key>> \in Clash
              THEN local
              ELSE [local EXCEPT ![h] = [pc |-> "start", key |-> k]]
  /\ UNCHANGED <<job, cache, mutex, hooks, accepted, requested>>

(* Under RepositoryMutex, FindAll looks for duplicates in the job table:   *)
(* one is refused, else the lock is kept for the insertion.                *)
StartCheck(h, k) ==
  /\ local[h] = Idle /\ creation \cap Peers(h) = {}
  /\ ~ \E r \in job : <<k, r.key>> \in Clash
  /\ creation' = creation \cup {h}
  /\ local' = [local EXCEPT ![h] = [pc |-> "start", key |-> k]]
  /\ UNCHANGED <<job, cache, mutex, hooks, accepted, requested>>

(* StartDirect (a job with tags) and Start: insert under the repository's  *)
(* mutex, then unlock.                                                     *)
StartDirect(h) ==
  LET k == local[h].key
  IN  /\ local[h].pc = "start" /\ mutex = {}
      /\ k \notin KeysIn(job)
      /\ \E i \in Ids :
           /\ NextId(job, i)
           /\ job' = job \cup {[id |-> i, key |-> k, state |-> "running"]}
      /\ accepted' = accepted \cup {k}
      /\ creation' = creation \ {h} /\ local' = [local EXCEPT ![h] = Idle]
      /\ UNCHANGED <<cache, mutex, hooks, requested>>

StartCached(h) ==
  LET k == local[h].key
  IN  /\ local[h].pc = "start" /\ mutex = {}
      /\ k \notin KeysIn(cache)
      /\ \E i \in Ids :
           /\ NextId(cache, i)
           /\ cache' = cache \cup {[id |-> i, key |-> k]}
      /\ accepted' = accepted \cup {k}
      /\ creation' = creation \ {h} /\ local' = [local EXCEPT ![h] = Idle]
      /\ UNCHANGED <<job, mutex, hooks, requested>>

(* Mutant of StartRefused: the early return keeps the RepositoryMutex.     *)
StartRefusedLocked(h) ==
  /\ local[h].pc = "start" /\ mutex = {}
  /\ local[h].key \in KeysIn(job) \cup KeysIn(cache)
  /\ local' = [local EXCEPT ![h] = Idle]
  /\ UNCHANGED <<job, cache, mutex, creation, hooks, accepted, requested>>

(* The insertion violates UNIQUE: the request is refused.                  *)
StartRefused(h) ==
  /\ local[h].pc = "start" /\ mutex = {}
  /\ local[h].key \in KeysIn(job) \cup KeysIn(cache)
  /\ creation' = creation \ {h} /\ local' = [local EXCEPT ![h] = Idle]
  /\ UNCHANGED <<job, cache, mutex, hooks, accepted, requested>>
-----------------------------------------------------------------------------
(* stopJobByRequest with checkAndHandleStopJob, handleStopJob.             *)

(* FindCached, then Find; a job that is not running is refused.  No lock   *)
(* is held: what was found is remembered.                                  *)
StopFindCached(h, k) ==
  /\ local[h] = Idle
  /\ \E r \in cache :
       /\ r.key = k
       /\ local' = [local EXCEPT
                      ![h] = [pc |-> "found", key |-> k, id |-> r.id, cached |-> TRUE]]
  /\ requested' = requested \cup {k}
  /\ UNCHANGED <<job, cache, mutex, creation, hooks, accepted>>

StopFind(h, k) ==
  /\ local[h] = Idle
  /\ k \notin KeysIn(cache)
  /\ \E r \in job :
       /\ r.key = k /\ r.state = "running"
       /\ local' = [local EXCEPT
                      ![h] = [pc |-> "found", key |-> k, id |-> r.id, cached |-> FALSE]]
  /\ requested' = requested \cup {k}
  /\ UNCHANGED <<job, cache, mutex, creation, hooks, accepted>>

(* JobRepository.Mutex is taken until the handler returns.                 *)
Stopping(h, i) ==
  /\ mutex' = {h}
  /\ local' = [local EXCEPT ![h] = [pc |-> "stop", key |-> @.key, id |-> i]]

(* The job was found in the job table.                                     *)
StopLock(h) ==
  /\ local[h].pc = "found" /\ ~local[h].cached /\ mutex = {}
  /\ Stopping(h, local[h].id)
  /\ UNCHANGED <<job, cache, creation, hooks, accepted, requested>>

(* Mutant of Transfer: the row of the cache is deleted without a copy.     *)
TransferLoses(h) ==
  /\ local[h].pc = "found" /\ local[h].cached /\ mutex = {}
  /\ \E r \in cache, i \in Ids :
       /\ r.id = local[h].id
       /\ NextId(job, i)
       /\ cache' = cache \ {r}
       /\ Stopping(h, i)
  /\ UNCHANGED <<job, creation, hooks, accepted, requested>>

(* TransferCachedJobToMain: whatever row has the remembered id moves to    *)
(* the job table under a new id.                                           *)
Transfer(h) ==
  /\ local[h].pc = "found" /\ local[h].cached /\ mutex = {}
  /\ \E r \in cache, i \in Ids :
       /\ r.id = local[h].id /\ r.key \notin KeysIn(job)
       /\ NextId(job, i)
       /\ job' = job \cup {[id |-> i, key |-> r.key, state |-> "running"]}
       /\ cache' = cache \ {r}
       /\ Stopping(h, i)
  /\ UNCHANGED <<creation, hooks, accepted, requested>>

(* No row has it any more: the INSERT ... SELECT inserts nothing, which is *)
(* no error, and LastInsertId is what the pooled connection inserted last, *)
(* into any table.                                                         *)
TransferNothing(h) ==
  /\ local[h].pc = "found" /\ local[h].cached /\ mutex = {}
  /\ \A r \in cache : r.id # local[h].id
  /\ \E i \in 0..MaxId : Stopping(h, i)
  /\ UNCHANGED <<job, cache, creation, hooks, accepted, requested>>

(* Mutant of TransferFails: the early return leaves the mutex locked.      *)
TransferFailsLocked(h) ==
  /\ local[h].pc = "found" /\ local[h].cached /\ mutex = {}
  /\ \E r \in cache : r.id = local[h].id /\ r.key \in KeysIn(job)
  /\ mutex' = {h}
  /\ local' = [local EXCEPT ![h] = Idle]
  /\ UNCHANGED <<job, cache, creation, hooks, accepted, requested>>

(* The job table has that job already: UNIQUE, and the request fails.      *)
TransferFails(h) ==
  /\ local[h].pc = "found" /\ local[h].cached /\ mutex = {}
  /\ \E r \in cache : r.id = local[h].id /\ r.key \in KeysIn(job)
  /\ local' = [local EXCEPT ![h] = Idle]
  /\ UNCHANGED <<job, cache, mutex, creation, hooks, accepted, requested>>

(* Mutant of StopUpdate: an empty requested state is written as it is.     *)
StopUpdateEmpty(h) ==
  /\ local[h].pc = "stop"
  /\ job' = {IF r.id = local[h].id THEN [r EXCEPT !.state = ""] ELSE r : r \in job}
  /\ mutex' = {} /\ local' = [local EXCEPT ![h] = Idle]
  /\ UNCHANGED <<cache, creation, hooks, accepted, requested>>

(* Stop: update by id, which may hit no row, then unlock.                  *)
StopUpdate(h) ==
  /\ local[h].pc = "stop"
  /\ job' = {IF r.id = local[h].id THEN [r EXCEPT !.state = "stopped"] ELSE r :
               r \in job}
  /\ mutex' = {} /\ local' = [local EXCEPT ![h] = Idle]
  /\ UNCHANGED <<cache, creation, hooks, accepted, requested>>
-----------------------------------------------------------------------------
(* The commit service.                                                     *)

Fresh == {r \in cache : r.key \notin KeysIn(job)}

(* Ids that INSERT ... SELECT may give to the fresh rows: consecutive, in  *)
(* the order of the cache.                                                 *)
Numbering(f) ==
  \A r \in Fresh :
    /\ \A q \in job : q.id < f[r]
    /\ \A q \in Fresh : q.id < r.id => f[q] < f[r]
    /\ \/ f[r] = 1
       \/ \E q \in job : q.id = f[r] - 1
       \/ \E q \in Fresh : f[q] = f[r] - 1

(* Mutant of SyncJobs: the hooks get the ids the rows had in the cache.    *)
SyncJobsOldIds ==
  /\ mutex = {} /\ hooks = {} /\ cache # {}
  /\ \E f \in [Fresh -> Ids] :
       /\ Numbering(f)
       /\ job' = job \cup {[id |-> f[r], key |-> r.key, state |-> "running"] :
                             r \in Fresh}
  /\ hooks' = {[id |-> r.id, key |-> r.key] : r \in cache}
  /\ cache' = {}
  /\ UNCHANGED <<local, mutex, creation, accepted, requested>>

(* Mutant of SyncJobs: INSERT OR REPLACE, a stopped row runs again.        *)
SyncJobsReplaces ==
  /\ mutex = {} /\ hooks = {} /\ cache # {}
  /\ \E f \in [Fresh -> Ids] :
       /\ Numbering(f)
       /\ job' = {IF r.key \in KeysIn(cache) THEN [r EXCEPT !.state = "running"]
                  ELSE r : r \in job}
                 \cup {[id |-> f[r], key |-> r.key, state |-> "running"] :
                         r \in Fresh}
  /\ hooks' = {[id |-> r.id, key |-> r.key] :
                 r \in {q \in job' : q.key \in KeysIn(cache)}}
  /\ cache' = {}
  /\ UNCHANGED <<local, mutex, creation, accepted, requested>>

(* SyncJobs: INSERT OR IGNORE the whole cache into job, clear the cache,   *)
(* look up the new ids.  The service's tasks run one after the other.      *)
SyncJobs ==
  /\ mutex = {} /\ hooks = {} /\ cache # {}
  /\ \E f \in [Fresh -> Ids] :
       /\ Numbering(f)
       /\ job' = job \cup {[id |-> f[r], key |-> r.key, state |-> "running"] :
                             r \in Fresh}
  /\ hooks' = {[id |-> r.id, key |-> r.key] :
                 r \in {q \in job' : q.key \in KeysIn(cache)}}
  /\ cache' = {}
  /\ UNCHANGED <<local, mutex, creation, accepted, requested>>

(* CallJobStartHooks, without any lock.                                    *)
CallJobStartHooks ==
  /\ hooks # {}
  /\ hooks' = {}
  /\ UNCHANGED <<job, cache, local, mutex, creation, accepted, requested>>
-----------------------------------------------------------------------------
Insertion(h) == StartDirect(h) \/ StartCached(h) \/ StartRefused(h)
Locking(h)   == StopLock(h) \/ Transfer(h) \/ TransferNothing(h) \/ TransferFails(h)

Next ==
  \/ \E h \in Handlers, k \in Jobs :
       StartCheck(h, k) \/ StopFindCached(h, k) \/ StopFind(h, k)
  \/ \E h \in Handlers :
       \/ StartDirect(h) \/ StartCached(h) \/ StartRefused(h)
       \/ StopLock(h) \/ Transfer(h) \/ TransferNothing(h) \/ TransferFails(h)
       \/ StopUpdate(h)
  \/ SyncJobs \/ CallJobStartHooks

(* A handler that has begun goes on, a Go mutex starves no waiter, and the *)
(* scheduler runs the commit service again and again.  Nothing forces a    *)
(* request to arrive.                                                      *)
Fairness ==
  /\ \A h \in Handlers :
       SF_vars(Insertion(h)) /\ SF_vars(Locking(h)) /\ WF_vars(StopUpdate(h))
  /\ SF_vars(SyncJobs) /\ WF_vars(CallJobStartHooks)

Spec     == Init /\ [][Next]_vars
FairSpec == Spec /\ Fairness
-----------------------------------------------------------------------------
(* What the two tables mean for a job: a row of job counts, whatever the   *)
(* cache holds (JobState, and the cache before it is committed).           *)
Status(k) ==
  IF \E r \in job : r.key = k /\ r.state = "stopped" THEN "stopped"
  ELSE IF k \in KeysIn(job) THEN "running"
  ELSE IF k \in KeysIn(cache) THEN "cached"
  ELSE "unknown"

Life == INSTANCE JobLife WITH status <- [k \in Jobs |-> Status(k)]
-----------------------------------------------------------------------------
(* Properties.                                                             *)

(* Every variable keeps its type.                                          *)
TypeOK ==
  /\ job \subseteq Rows /\ cache \subseteq CacheRows
  /\ local \in [Handlers -> Locals]
  /\ mutex \subseteq Handlers /\ creation \subseteq Handlers
  /\ hooks \subseteq CacheRows
  /\ accepted \subseteq Jobs /\ requested \subseteq Jobs

(* A job whose start was confirmed is in one of the two tables from then   *)
(* on, whatever stops and commits do to either (TransferCachedJobToMain,   *)
(* SyncJobs).                                                              *)
NoJobLost == accepted \subseteq KeysIn(job) \cup KeysIn(cache)

(* The start hooks are called with ids of the job table (SyncJobs): the    *)
(* row is the job's, also after later stops and starts.                    *)
HooksGetTheirJob ==
  \A q \in hooks : \E r \in job : r.id = q.id /\ r.key = q.key

(* Both locks are held exactly by the handler inside, one at a time, and   *)
(* given back on every path (early returns of the four handlers, SyncJobs):*)
(* so the holder of JobRepository.Mutex, whom all others wait for, itself  *)
(* waits for nothing.                                                      *)
LocksInUse ==
  /\ mutex = {h \in Handlers : local[h].pc = "stop"}
  /\ creation = {h \in Handlers : local[h].pc = "start"}
  /\ \A g, h \in mutex : g = h
  /\ \A g, h \in creation : g \in Peers(h) => g = h

(* Starts, stops and commits, with their look-ups before the locks and     *)
(* rows that move between the tables, implement JobLife: a job never goes  *)
(* back a stage, and a stop changes one job (SyncJobs, Stop).              *)
ImplementsJobLife == Life!Spec

(* A job in the cache gets into the job table, where users see it: no      *)
(* handler keeps the mutex for good.                                       *)
CachedIsCommitted ==
  \A k \in Jobs : k \in KeysIn(cache) ~> k \in KeysIn(job)

(* Every request is answered, and a new one can be served.                 *)
RequestsReturn ==
  \A h \in Handlers : local[h] # Idle ~> local[h] = Idle /\ h \notin creation

(* "so that job.ID always points to the job table for downstream code"     *)
(* (api/job.go:1027): a job is marked as stopped only if someone asked for *)
(* it to be stopped.                                                       *)
OnlyRequestedStop ==
  \A r \in job : r.state = "stopped" => r.key \in requested

(* "Check if jobs are within the same day (prevent duplicates)"            *)
(* (api/job.go:756): no two rows of the job table are a duplicate start of *)
(* one job in the sense of that check.                                     *)
NoDuplicates ==
  \A q, r \in job : q.key # r.key =>
    ~(<<q.key, r.key>> \in Clash /\ <<r.key, q.key>> \in Clash)
=============================================================================
