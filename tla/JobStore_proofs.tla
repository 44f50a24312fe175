-------------------------- MODULE JobStore_proofs --------------------------
(* Proofs about the job tables, for every set of jobs and handlers.        *)
EXTENDS JobStore, TLAPS

(* The row a start or a transfer inserts (NamedJobInsert).                 *)
LEMMA RowType ==
  ASSUME NEW i \in Ids, NEW k \in Jobs
  PROVE  /\ [id |-> i, key |-> k, state |-> "running"] \in Rows
         /\ [id |-> i, key |-> k] \in CacheRows
BY DEF Rows, CacheRows

(* Inserting a row adds its job to those of the table.                     *)
LEMMA InsertKey ==
  ASSUME NEW table, NEW r
  PROVE  KeysIn(table \cup {r}) = KeysIn(table) \cup {r.key}
BY DEF KeysIn

(* Marking a row as stopped keeps its id and its key (Stop).               *)
LEMMA StopRow ==
  ASSUME NEW r \in Rows
  PROVE  LET q == [r EXCEPT !.state = "stopped"]
         IN  q \in Rows /\ q.id = r.id /\ q.key = r.key
BY DEF Rows

(* Stop changes neither which jobs the table has nor under which ids.      *)
LEMMA StopKeepsRows ==
  ASSUME TypeOK, NEW h \in Handlers, StopUpdate(h)
  PROVE  /\ job' \subseteq Rows
         /\ \A r \in job : \E q \in job' : q.id = r.id /\ q.key = r.key
         /\ KeysIn(job) \subseteq KeysIn(job)'
<1> DEFINE upd(r) == IF r.id = local[h].id THEN [r EXCEPT !.state = "stopped"]
                     ELSE r
<1>1. job' = {upd(r) : r \in job}
  BY DEF StopUpdate
<1>2. \A r \in job : upd(r) \in Rows /\ upd(r).id = r.id /\ upd(r).key = r.key
  BY StopRow DEF TypeOK
<1>3. \A r \in job : upd(r) \in job'
  BY <1>1
<1>4. job' \subseteq Rows
  BY <1>1, <1>2
<1>5. \A r \in job : \E q \in job' : q.id = r.id /\ q.key = r.key
  BY <1>2, <1>3
<1>6. KeysIn(job) \subseteq KeysIn(job)'
  BY <1>5 DEF KeysIn
<1> QED BY <1>4, <1>5, <1>6

(* SyncJobs keeps the job table and adds every job of the cache to it.     *)
LEMMA SyncMoves ==
  ASSUME TypeOK, SyncJobs
  PROVE  /\ job' \subseteq Rows /\ job \subseteq job'
         /\ KeysIn(cache) \subseteq KeysIn(job)'
<1>1. PICK f \in [Fresh -> Ids] :
        job' = job \cup {[id |-> f[r], key |-> r.key, state |-> "running"] :
                           r \in Fresh}
  BY DEF SyncJobs
<1>2. Fresh \subseteq CacheRows
  BY DEF Fresh, TypeOK
<1>3. \A r \in Fresh : f[r] \in Ids /\ r.key \in Jobs
  BY <1>2 DEF CacheRows
<1>4. job' \subseteq Rows
  BY <1>1, <1>3, RowType DEF TypeOK
<1>5. \A r \in Fresh : \E q \in job' : q.key = r.key
  <2> TAKE r \in Fresh
  <2> DEFINE q == [id |-> f[r], key |-> r.key, state |-> "running"]
  <2>1. q \in job' /\ q.key = r.key
    BY <1>1
  <2> QED BY <2>1
<1>6. \A r \in cache : \E q \in job' : q.key = r.key
  <2> TAKE r \in cache
  <2>1. CASE r \in Fresh
    BY <1>5, <2>1
  <2>2. CASE r \notin Fresh
    BY <1>1, <2>2 DEF Fresh, KeysIn
  <2> QED BY <2>1, <2>2
<1> QED BY <1>1, <1>4, <1>6 DEF KeysIn

(* The server starts with empty tables and idle handlers.                  *)
LEMMA InitInv == Init => TypeOK /\ NoJobLost /\ HooksGetTheirJob
BY DEF Init, TypeOK, NoJobLost, HooksGetTheirJob, Locals

(* Every step of JobStore keeps every variable in its type.                *)
LEMMA TypeStep ==
  ASSUME TypeOK, [Next]_vars
  PROVE  TypeOK'
<1> USE JobStoreAssumption DEF TypeOK
<1>1. CASE UNCHANGED vars
  BY <1>1 DEF vars
<1>2. ASSUME NEW h \in Handlers, NEW k \in Jobs,
             StartCheck(h, k) \/ StopFindCached(h, k) \/ StopFind(h, k)
      PROVE  TypeOK'
  <2>1. CASE StartCheck(h, k)
    <3>1. [pc |-> "start", key |-> k] \in Locals
      BY DEF Locals
    <3> QED BY <2>1, <3>1 DEF StartCheck
  <2>2. CASE StopFindCached(h, k)
    <3>1. PICK r \in cache :
            local' = [local EXCEPT
              ![h] = [pc |-> "found", key |-> k, id |-> r.id, cached |-> TRUE]]
      BY <2>2 DEF StopFindCached
    <3>2. [pc |-> "found", key |-> k, id |-> r.id, cached |-> TRUE] \in Locals
      BY DEF Locals, CacheRows
    <3> QED BY <2>2, <3>1, <3>2 DEF StopFindCached
  <2>3. CASE StopFind(h, k)
    <3>1. PICK r \in job :
            local' = [local EXCEPT
              ![h] = [pc |-> "found", key |-> k, id |-> r.id, cached |-> FALSE]]
      BY <2>3 DEF StopFind
    <3>2. [pc |-> "found", key |-> k, id |-> r.id, cached |-> FALSE] \in Locals
      BY DEF Locals, Rows
    <3> QED BY <2>3, <3>1, <3>2 DEF StopFind
  <2> QED BY <1>2, <2>1, <2>2, <2>3
<1>3. ASSUME NEW h \in Handlers, StartDirect(h) \/ StartCached(h) \/ StartRefused(h)
      PROVE  TypeOK'
  <2>1. local[h].pc = "start"
    BY <1>3 DEF StartDirect, StartCached, StartRefused
  <2>2. local[h].key \in Jobs
    BY <2>1 DEF Locals, Idle
  <2>3. Idle \in Locals
    BY DEF Locals
  <2>4. CASE StartDirect(h)
    BY <2>2, <2>3, <2>4, RowType DEF StartDirect
  <2>5. CASE StartCached(h)
    BY <2>2, <2>3, <2>5, RowType DEF StartCached
  <2>6. CASE StartRefused(h)
    BY <2>3, <2>6 DEF StartRefused
  <2> QED BY <1>3, <2>4, <2>5, <2>6
<1>4. ASSUME NEW h \in Handlers,
             StopLock(h) \/ Transfer(h) \/ TransferNothing(h) \/ TransferFails(h)
      PROVE  TypeOK'
  <2>1. local[h].pc = "found"
    BY <1>4 DEF StopLock, Transfer, TransferNothing, TransferFails
  <2>2. local[h].key \in Jobs /\ local[h].id \in Ids
    BY <2>1 DEF Locals, Idle
  <2>3. Ids \subseteq 0..MaxId
    BY DEF Ids
  <2>4. ASSUME NEW i \in 0..MaxId, Stopping(h, i)
        PROVE  local' \in [Handlers -> Locals] /\ mutex' \subseteq Handlers
    <3>1. [pc |-> "stop", key |-> local[h].key, id |-> i] \in Locals
      BY <2>2 DEF Locals
    <3> QED BY <2>4, <3>1 DEF Stopping
  <2>5. CASE StopLock(h)
    BY <2>2, <2>3, <2>4, <2>5 DEF StopLock
  <2>6. CASE Transfer(h)
    <3>1. PICK r \in cache, i \in Ids :
            /\ job' = job \cup {[id |-> i, key |-> r.key, state |-> "running"]}
            /\ cache' = cache \ {r}
            /\ Stopping(h, i)
      BY <2>6 DEF Transfer
    <3>2. r.key \in Jobs
      BY DEF CacheRows
    <3> QED BY <2>3, <2>4, <2>6, <3>1, <3>2, RowType DEF Transfer
  <2>7. CASE TransferNothing(h)
    BY <2>4, <2>7 DEF TransferNothing
  <2>8. CASE TransferFails(h)
    BY <2>8 DEF TransferFails, Locals
  <2> QED BY <1>4, <2>5, <2>6, <2>7, <2>8
<1>5. ASSUME NEW h \in Handlers, StopUpdate(h) PROVE TypeOK'
  BY <1>5, StopKeepsRows DEF StopUpdate, Locals
<1>6. CASE SyncJobs
  <2>1. hooks' \subseteq CacheRows
    <3>1. \A r \in job' : [id |-> r.id, key |-> r.key] \in CacheRows
      BY <1>6, SyncMoves DEF Rows, CacheRows
    <3> QED BY <1>6, <3>1 DEF SyncJobs
  <2> QED BY <1>6, <2>1, SyncMoves DEF SyncJobs
<1>7. CASE CallJobStartHooks
  BY <1>7 DEF CallJobStartHooks
<1> QED BY <1>1, <1>2, <1>3, <1>4, <1>5, <1>6, <1>7 DEF Next

(* No step takes a job out of both tables, and no start is confirmed of a  *)
(* job that is in neither.                                                 *)
LEMMA NoJobLostStep ==
  ASSUME TypeOK, NoJobLost, [Next]_vars
  PROVE  NoJobLost'
<1> USE DEF NoJobLost
<1>1. CASE UNCHANGED vars
  BY <1>1 DEF vars, KeysIn
<1>2. ASSUME UNCHANGED <<job, cache, accepted>> PROVE NoJobLost'
  BY <1>2 DEF KeysIn
<1>3. ASSUME NEW h \in Handlers, NEW k \in Jobs,
             StartCheck(h, k) \/ StopFindCached(h, k) \/ StopFind(h, k)
      PROVE  NoJobLost'
  BY <1>2, <1>3 DEF StartCheck, StopFindCached, StopFind
<1>4. ASSUME NEW h \in Handlers,
             StartRefused(h) \/ StopLock(h) \/ TransferNothing(h) \/ TransferFails(h)
      PROVE  NoJobLost'
  BY <1>2, <1>4 DEF StartRefused, StopLock, TransferNothing, TransferFails
<1>5. ASSUME NEW h \in Handlers, StartDirect(h) PROVE NoJobLost'
  <2>1. PICK i \in Ids :
          job' = job \cup {[id |-> i, key |-> local[h].key, state |-> "running"]}
    BY <1>5 DEF StartDirect
  <2> DEFINE new == [id |-> i, key |-> local[h].key, state |-> "running"]
  <2>2. KeysIn(job)' = KeysIn(job) \cup {local[h].key}
    <3>1. new.key = local[h].key
      OBVIOUS
    <3>2. KeysIn(job \cup {new}) = KeysIn(job) \cup {new.key}
      BY InsertKey
    <3> QED BY <2>1, <3>1, <3>2 DEF KeysIn
  <2> QED BY <1>5, <2>2 DEF StartDirect, KeysIn
<1>6. ASSUME NEW h \in Handlers, StartCached(h) PROVE NoJobLost'
  <2>1. PICK i \in Ids : cache' = cache \cup {[id |-> i, key |-> local[h].key]}
    BY <1>6 DEF StartCached
  <2> DEFINE new == [id |-> i, key |-> local[h].key]
  <2>2. KeysIn(cache)' = KeysIn(cache) \cup {local[h].key}
    <3>1. new.key = local[h].key
      OBVIOUS
    <3>2. KeysIn(cache \cup {new}) = KeysIn(cache) \cup {new.key}
      BY InsertKey
    <3> QED BY <2>1, <3>1, <3>2 DEF KeysIn
  <2> QED BY <1>6, <2>2 DEF StartCached, KeysIn
<1>7. ASSUME NEW h \in Handlers, Transfer(h) PROVE NoJobLost'
  <2>1. PICK r \in cache, i \in Ids :
          /\ job' = job \cup {[id |-> i, key |-> r.key, state |-> "running"]}
          /\ cache' = cache \ {r}
    BY <1>7 DEF Transfer
  <2> DEFINE new == [id |-> i, key |-> r.key, state |-> "running"]
  <2>2. KeysIn(job)' = KeysIn(job) \cup {r.key}
    <3>1. new.key = r.key
      OBVIOUS
    <3>2. KeysIn(job \cup {new}) = KeysIn(job) \cup {new.key}
      BY InsertKey
    <3> QED BY <2>1, <3>1, <3>2 DEF KeysIn
  <2>3. KeysIn(cache) \subseteq KeysIn(cache)' \cup {r.key}
    BY <2>1 DEF KeysIn
  <2> QED BY <1>7, <2>2, <2>3 DEF Transfer
<1>8. ASSUME NEW h \in Handlers, StopUpdate(h) PROVE NoJobLost'
  BY <1>8, StopKeepsRows DEF StopUpdate, KeysIn
<1>9. CASE SyncJobs
  <2>1. KeysIn(job) \subseteq KeysIn(job)'
    BY <1>9, SyncMoves DEF KeysIn
  <2> QED BY <1>9, <2>1, SyncMoves DEF SyncJobs
<1>10. CASE CallJobStartHooks
  BY <1>2, <1>10 DEF CallJobStartHooks
<1> QED
  BY <1>1, <1>3, <1>4, <1>5, <1>6, <1>7, <1>8, <1>9, <1>10 DEF Next

(* No step gives a row another id or key while its start hooks are due.    *)
LEMMA HooksStep ==
  ASSUME TypeOK, HooksGetTheirJob, [Next]_vars
  PROVE  HooksGetTheirJob'
<1> USE DEF HooksGetTheirJob
<1>1. CASE UNCHANGED vars
  BY <1>1 DEF vars
<1>2. ASSUME job \subseteq job', UNCHANGED hooks PROVE HooksGetTheirJob'
  BY <1>2
<1>3. ASSUME NEW h \in Handlers, NEW k \in Jobs,
             StartCheck(h, k) \/ StopFindCached(h, k) \/ StopFind(h, k)
      PROVE  HooksGetTheirJob'
  BY <1>2, <1>3 DEF StartCheck, StopFindCached, StopFind
<1>4. ASSUME NEW h \in Handlers,
             \/ StartDirect(h) \/ StartCached(h) \/ StartRefused(h)
             \/ StopLock(h) \/ Transfer(h) \/ TransferNothing(h) \/ TransferFails(h)
      PROVE  HooksGetTheirJob'
  BY <1>2, <1>4 DEF StartDirect, StartCached, StartRefused, StopLock, Transfer,
                    TransferNothing, TransferFails
<1>5. ASSUME NEW h \in Handlers, StopUpdate(h) PROVE HooksGetTheirJob'
  <2>1. hooks' = hooks
    BY <1>5 DEF StopUpdate
  <2>2. \A r \in job : \E q \in job' : q.id = r.id /\ q.key = r.key
    BY <1>5, StopKeepsRows
  <2> QED BY <2>1, <2>2
<1>6. CASE SyncJobs
  <2>1. \A q \in hooks' : \E r \in job' : q = [id |-> r.id, key |-> r.key]
    BY <1>6 DEF SyncJobs
  <2> QED BY <2>1
<1>7. CASE CallJobStartHooks
  BY <1>7 DEF CallJobStartHooks
<1> QED BY <1>1, <1>3, <1>4, <1>5, <1>6, <1>7 DEF Next

(***************************************************************************)
(* The refinement of JobLife.  Ids and keys are unique in either table, so *)
(* that an update by id changes at most one job.                           *)
(***************************************************************************)
UniqueIn(table) == \A q, r \in table : q.id = r.id \/ q.key = r.key => q = r

Unique == UniqueIn(job) /\ UniqueIn(cache)

Stopped(k) == \E r \in job : r.key = k /\ r.state = "stopped"

(* A row with a larger id and a new key keeps a table's rows unique.       *)
LEMMA InsertUnique ==
  ASSUME NEW table, UniqueIn(table), NEW r,
         \A q \in table : q.id \in Nat /\ q.id < r.id, r.id \in Nat,
         r.key \notin KeysIn(table)
  PROVE  UniqueIn(table \cup {r})
<1>1. \A q \in table : q.id # r.id /\ q.key # r.key
  BY DEF KeysIn
<1> QED BY <1>1 DEF UniqueIn

(* Rows and ids are of the types the arithmetic on ids needs.              *)
LEMMA IdsAreNumbers ==
  ASSUME TypeOK
  PROVE  /\ \A r \in job : r.id \in Nat /\ r \in Rows
         /\ \A r \in cache : r.id \in Nat /\ r \in CacheRows
         /\ Ids \subseteq Nat
BY JobStoreAssumption DEF TypeOK, Rows, CacheRows, Ids

(* No step makes two rows of a table share their id or their job.          *)
LEMMA UniqueStep ==
  ASSUME TypeOK, Unique, [Next]_vars
  PROVE  Unique'
<1> USE DEF Unique
<1>1. ASSUME UNCHANGED job, cache' \subseteq cache PROVE Unique'
  BY <1>1 DEF UniqueIn
<1>2. CASE UNCHANGED vars
  BY <1>1, <1>2 DEF vars
<1>3. ASSUME NEW h \in Handlers, NEW k \in Jobs,
             StartCheck(h, k) \/ StopFindCached(h, k) \/ StopFind(h, k)
      PROVE  Unique'
  BY <1>1, <1>3 DEF StartCheck, StopFindCached, StopFind
<1>4. ASSUME NEW h \in Handlers,
             StartRefused(h) \/ StopLock(h) \/ TransferNothing(h) \/ TransferFails(h)
      PROVE  Unique'
  BY <1>1, <1>4 DEF StartRefused, StopLock, TransferNothing, TransferFails
<1>5. ASSUME NEW h \in Handlers, StartDirect(h) PROVE Unique'
  <2>1. PICK i \in Ids :
          /\ NextId(job, i)
          /\ job' = job \cup {[id |-> i, key |-> local[h].key, state |-> "running"]}
    BY <1>5 DEF StartDirect
  <2> DEFINE new == [id |-> i, key |-> local[h].key, state |-> "running"]
  <2>2. new.id = i /\ new.key = local[h].key
    OBVIOUS
  <2>3. local[h].key \notin KeysIn(job) /\ cache' = cache
    BY <1>5 DEF StartDirect
  <2>4. \A q \in job : q.id \in Nat /\ q.id < new.id
    BY <2>1, <2>2, IdsAreNumbers DEF NextId
  <2>5. UniqueIn(job \cup {new})
    <3> HIDE DEF new
    <3> QED BY <2>1, <2>2, <2>3, <2>4, IdsAreNumbers, InsertUnique
  <2> QED BY <2>1, <2>3, <2>5 DEF UniqueIn
<1>6. ASSUME NEW h \in Handlers, StartCached(h) PROVE Unique'
  <2>1. PICK i \in Ids :
          NextId(cache, i) /\ cache' = cache \cup {[id |-> i, key |-> local[h].key]}
    BY <1>6 DEF StartCached
  <2> DEFINE new == [id |-> i, key |-> local[h].key]
  <2>2. new.id = i /\ new.key = local[h].key
    OBVIOUS
  <2>3. local[h].key \notin KeysIn(cache) /\ job' = job
    BY <1>6 DEF StartCached
  <2>4. \A q \in cache : q.id \in Nat /\ q.id < new.id
    BY <2>1, <2>2, IdsAreNumbers DEF NextId
  <2>5. UniqueIn(cache \cup {new})
    <3> HIDE DEF new
    <3> QED BY <2>1, <2>2, <2>3, <2>4, IdsAreNumbers, InsertUnique
  <2> QED BY <2>1, <2>3, <2>5 DEF UniqueIn
<1>7. ASSUME NEW h \in Handlers, Transfer(h) PROVE Unique'
  <2>1. PICK r \in cache, i \in Ids :
          /\ r.key \notin KeysIn(job) /\ NextId(job, i)
          /\ job' = job \cup {[id |-> i, key |-> r.key, state |-> "running"]}
          /\ cache' = cache \ {r}
    BY <1>7 DEF Transfer
  <2> DEFINE new == [id |-> i, key |-> r.key, state |-> "running"]
  <2>2. new.id = i /\ new.key = r.key
    OBVIOUS
  <2>3. \A q \in job : q.id \in Nat /\ q.id < new.id
    BY <2>1, <2>2, IdsAreNumbers DEF NextId
  <2>4. UniqueIn(job \cup {new})
    <3> HIDE DEF new
    <3> QED BY <2>1, <2>2, <2>3, IdsAreNumbers, InsertUnique
  <2> QED BY <2>1, <2>4 DEF UniqueIn
<1>8. ASSUME NEW h \in Handlers, StopUpdate(h) PROVE Unique'
  <2> DEFINE upd(r) == IF r.id = local[h].id THEN [r EXCEPT !.state = "stopped"]
                       ELSE r
  <2>1. job' = {upd(r) : r \in job} /\ cache' = cache
    BY <1>8 DEF StopUpdate
  <2>2. \A r \in job : upd(r).id = r.id /\ upd(r).key = r.key
    BY StopRow DEF TypeOK
  <2> HIDE DEF upd
  <2>3. UniqueIn(job)'
    BY <2>1, <2>2 DEF UniqueIn
  <2> QED BY <2>1, <2>3 DEF UniqueIn
<1>9. CASE SyncJobs
  <2>1. PICK f \in [Fresh -> Ids] :
          /\ Numbering(f)
          /\ job' = job \cup {[id |-> f[r], key |-> r.key, state |-> "running"] :
                                r \in Fresh}
    BY <1>9 DEF SyncJobs
  <2> DEFINE new(r) == [id |-> f[r], key |-> r.key, state |-> "running"]
  <2>2. \A r \in Fresh : new(r).id = f[r] /\ new(r).key = r.key
    OBVIOUS
  <2>3. \A r \in Fresh : r \in cache /\ r.id \in Nat /\ f[r] \in Nat
    BY IdsAreNumbers DEF Fresh
  <2>4. \A q, r \in Fresh : f[q] = f[r] => q = r
    <3> SUFFICES ASSUME NEW q \in Fresh, NEW r \in Fresh, f[q] = f[r]
                 PROVE  q = r
      OBVIOUS
    <3>1. ~(q.id < r.id) /\ ~(r.id < q.id)
      BY <2>1, <2>3 DEF Numbering
    <3>2. q.id = r.id
      BY <3>1, <2>3
    <3> QED BY <3>2, <2>3 DEF UniqueIn
  <2>5. \A q, r \in Fresh : q.key = r.key => q = r
    BY <2>3 DEF UniqueIn
  <2>6. \A r \in Fresh, q \in job : q.id # f[r] /\ q.key # r.key
    <3>1. \A r \in Fresh, q \in job : q.id < f[r]
      BY <2>1 DEF Numbering
    <3>2. \A r \in Fresh, q \in job : q.key # r.key
      BY DEF Fresh, KeysIn
    <3> QED BY <3>1, <3>2, <2>3, IdsAreNumbers
  <2>7. job' = job \cup {new(r) : r \in Fresh}
    BY <2>1
  <2>8. UniqueIn(job)'
    <3> HIDE DEF new
    <3> SUFFICES ASSUME NEW x \in job', NEW y \in job',
                        x.id = y.id \/ x.key = y.key
                 PROVE  x = y
      BY DEF UniqueIn
    <3>1. CASE x \in job /\ y \in job
      BY <3>1 DEF UniqueIn
    <3>2. CASE x \notin job /\ y \notin job
      <4>1. PICK q \in Fresh, r \in Fresh : x = new(q) /\ y = new(r)
        BY <2>7, <3>2
      <4> QED BY <4>1, <2>2, <2>4, <2>5
    <3>3. CASE x \in job /\ y \notin job
      <4>1. PICK r \in Fresh : y = new(r)
        BY <2>7, <3>3
      <4> QED BY <4>1, <2>2, <2>6, <3>3
    <3>4. CASE x \notin job /\ y \in job
      <4>1. PICK r \in Fresh : x = new(r)
        BY <2>7, <3>4
      <4> QED BY <4>1, <2>2, <2>6, <3>4
    <3> QED BY <3>1, <3>2, <3>3, <3>4
  <2>9. cache' = {}
    BY <1>9 DEF SyncJobs
  <2> QED BY <2>8, <2>9 DEF UniqueIn
<1>10. CASE CallJobStartHooks
  BY <1>1, <1>10 DEF CallJobStartHooks
<1> QED
  BY <1>2, <1>3, <1>4, <1>5, <1>6, <1>7, <1>8, <1>9, <1>10 DEF Next

(* The stage of a job, in terms of the rows it has.                        *)
LEMMA StatusCases ==
  ASSUME NEW k \in Jobs
  PROVE  /\ Stopped(k) => Status(k) = "stopped" /\ k \in KeysIn(job)
         /\ k \in KeysIn(job) /\ ~Stopped(k) => Status(k) = "running"
         /\ k \notin KeysIn(job) /\ k \in KeysIn(cache) => Status(k) = "cached"
         /\ k \notin KeysIn(job) /\ k \notin KeysIn(cache) => Status(k) = "unknown"
BY DEF Status, Stopped, KeysIn

(* A job whose rows do not change keeps its stage.                         *)
LEMMA StatusKept ==
  ASSUME NEW k \in Jobs,
         Stopped(k)' <=> Stopped(k),
         (k \in KeysIn(job))' <=> k \in KeysIn(job),
         k \in KeysIn(job) \/ ((k \in KeysIn(cache))' <=> k \in KeysIn(cache))
  PROVE  Status(k)' = Status(k)
BY DEF Status, Stopped

(* Adding running rows to the job table changes only the jobs of the rows. *)
LEMMA RunningRows ==
  ASSUME NEW S, \A r \in S : r.state = "running" /\ r.key \notin KeysIn(job),
         job' = job \cup S
  PROVE  /\ \A k \in Jobs : Stopped(k)' <=> Stopped(k)
         /\ \A k \in Jobs : (k \in KeysIn(job))' <=> k \in KeysIn(job) \cup KeysIn(S)
BY DEF Stopped, KeysIn

(* Steps that move jobs into the job table are commits of JobLife, or      *)
(* nothing when the jobs were there already.                               *)
LEMMA CommitStep ==
  ASSUME NEW S \in SUBSET Jobs,
         \A k \in S : Status(k) = "cached" /\ Status(k)' = "running",
         \A k \in Jobs \ S : Status(k)' = Status(k)
  PROVE  [Life!Next]_([k \in Jobs |-> Status(k)])
<1> DEFINE st == [k \in Jobs |-> Status(k)]
<1>1. CASE S = {}
  <2>1. st' = st
    BY <1>1
  <2> QED BY <2>1
<1>2. CASE S # {}
  <2>1. st' = [k \in Jobs |-> IF k \in S THEN "running" ELSE st[k]]
    OBVIOUS
  <2>2. S \in SUBSET {k \in Jobs : st[k] = "cached"}
    OBVIOUS
  <2>3. Life!Commit
    BY <1>2, <2>1, <2>2 DEF Life!Commit
  <2> QED BY <2>3 DEF Life!Next
<1> QED BY <1>1, <1>2

(* Steps that change no row, or only rows of the cache that do not count.  *)
LEMMA StutterStep ==
  ASSUME \A k \in Jobs : Status(k)' = Status(k)
  PROVE  [Life!Next]_([k \in Jobs |-> Status(k)])
BY CommitStep

(* A confirmed start is Accept, or Commit when the job was in the cache.   *)
LEMMA DirectImplements ==
  ASSUME TypeOK, NEW h \in Handlers, StartDirect(h)
  PROVE  [Life!Next]_([k \in Jobs |-> Status(k)])
<1> DEFINE st == [j \in Jobs |-> Status(j)]
<1>0. PICK k \in Jobs : k = local[h].key
  BY DEF StartDirect, StartCached, TypeOK, Locals, Idle
<1>1. PICK i \in Ids :
        job' = job \cup {[id |-> i, key |-> k, state |-> "running"]}
  BY <1>0 DEF StartDirect
<1>2. k \in Jobs /\ k \notin KeysIn(job) /\ cache' = cache
  BY <1>0 DEF StartDirect
<1> DEFINE S == {[id |-> i, key |-> k, state |-> "running"]}
<1>3. KeysIn(S) = {k} /\ \A r \in S : r.state = "running" /\ r.key = k
  BY DEF KeysIn
<1> HIDE DEF S
<1>4. /\ \A j \in Jobs : Stopped(j)' <=> Stopped(j)
      /\ \A j \in Jobs : (j \in KeysIn(job))' <=> j \in KeysIn(job) \cup {k}
  <2>1. job' = job \cup S
    BY <1>1 DEF S
  <2> QED BY <2>1, <1>2, <1>3, RunningRows
<1>5. \A j \in Jobs \ {k} : Status(j)' = Status(j)
  BY <1>2, <1>4, StatusKept DEF KeysIn
<1>6. Status(k)' = "running"
  <2>1. ~Stopped(k)' /\ (k \in KeysIn(job))'
    BY <1>2, <1>4, StatusCases
  <2> QED BY <2>1, <1>2 DEF Status, Stopped
<1>7. CASE k \in KeysIn(cache)
  <2>1. Status(k) = "cached"
    BY <1>2, <1>7, StatusCases
  <2> QED BY <1>2, <1>5, <1>6, <2>1, CommitStep
<1>8. CASE k \notin KeysIn(cache)
  <2>1. st[k] = "unknown"
    BY <1>2, <1>8, StatusCases
  <2>2. st' = [st EXCEPT ![k] = "running"]
    BY <1>2, <1>5, <1>6
  <2>3. Life!Accept(k)
    BY <2>1, <2>2 DEF Life!Accept
  <2> QED BY <1>2, <2>3 DEF Life!Next
<1> QED BY <1>7, <1>8

(* A start into the cache is Accept, or nothing when the job table has it. *)
LEMMA CachedImplements ==
  ASSUME TypeOK, NEW h \in Handlers, StartCached(h)
  PROVE  [Life!Next]_([k \in Jobs |-> Status(k)])
<1> DEFINE st == [j \in Jobs |-> Status(j)]
<1>0. PICK k \in Jobs : k = local[h].key
  BY DEF StartDirect, StartCached, TypeOK, Locals, Idle
<1>1. PICK i \in Ids : cache' = cache \cup {[id |-> i, key |-> k]}
  BY <1>0 DEF StartCached
<1>2. k \in Jobs /\ k \notin KeysIn(cache) /\ job' = job
  BY <1>0 DEF StartCached
<1>3. KeysIn(cache)' = KeysIn(cache) \cup {k}
  <2> DEFINE new == [id |-> i, key |-> k]
  <2>1. new.key = k
    OBVIOUS
  <2>2. KeysIn(cache \cup {new}) = KeysIn(cache) \cup {new.key}
    BY InsertKey
  <2> QED BY <1>1, <2>1, <2>2 DEF KeysIn
<1>4. \A j \in Jobs : /\ Stopped(j)' <=> Stopped(j)
                      /\ (j \in KeysIn(job))' <=> j \in KeysIn(job)
  BY <1>2 DEF Stopped, KeysIn
<1>5. \A j \in Jobs \ {k} : Status(j)' = Status(j)
  BY <1>3, <1>4, StatusKept
<1>6. CASE k \in KeysIn(job)
  <2>1. Status(k)' = Status(k)
    BY <1>2, <1>4, <1>6, StatusKept
  <2> QED BY <1>5, <2>1, StutterStep
<1>7. CASE k \notin KeysIn(job)
  <2>1. st[k] = "unknown"
    BY <1>2, <1>7, StatusCases
  <2>2. Status(k)' = "cached"
    <3>1. ~Stopped(k)' /\ ~(k \in KeysIn(job))' /\ (k \in KeysIn(cache))'
      BY <1>2, <1>3, <1>4, <1>7, StatusCases
    <3> QED BY <3>1 DEF Status, Stopped
  <2>3. st' = [st EXCEPT ![k] = "cached"]
    BY <1>2, <1>5, <2>2
  <2>4. Life!Accept(k)
    BY <2>1, <2>3 DEF Life!Accept
  <2> QED BY <1>2, <2>4 DEF Life!Next
<1> QED BY <1>6, <1>7

(* Moving one job out of the cache commits it.                             *)
LEMMA TransferImplements ==
  ASSUME TypeOK, Unique, NEW h \in Handlers, Transfer(h)
  PROVE  [Life!Next]_([k \in Jobs |-> Status(k)])
<1>1. PICK r \in cache, i \in Ids :
        /\ r.key \notin KeysIn(job)
        /\ job' = job \cup {[id |-> i, key |-> r.key, state |-> "running"]}
        /\ cache' = cache \ {r}
  BY DEF Transfer
<1> DEFINE k == r.key
           S == {[id |-> i, key |-> k, state |-> "running"]}
<1>2. k \in Jobs /\ k \in KeysIn(cache)
  BY DEF TypeOK, CacheRows, KeysIn
<1>3. KeysIn(S) = {k} /\ \A q \in S : q.state = "running" /\ q.key = k
  BY DEF KeysIn
<1> HIDE DEF S
<1>4. /\ \A j \in Jobs : Stopped(j)' <=> Stopped(j)
      /\ \A j \in Jobs : (j \in KeysIn(job))' <=> j \in KeysIn(job) \cup {k}
  <2>1. job' = job \cup S
    BY <1>1 DEF S
  <2> QED BY <2>1, <1>1, <1>3, RunningRows
<1>5. \A j \in Jobs \ {k} : (j \in KeysIn(cache))' <=> j \in KeysIn(cache)
  BY <1>1 DEF KeysIn
<1>6. \A j \in Jobs \ {k} : Status(j)' = Status(j)
  BY <1>4, <1>5, StatusKept
<1>7. Status(k) = "cached"
  BY <1>1, <1>2, StatusCases
<1>8. Status(k)' = "running"
  <2>1. ~Stopped(k)' /\ (k \in KeysIn(job))'
    BY <1>1, <1>2, <1>4, StatusCases
  <2> QED BY <2>1 DEF Status, Stopped
<1> QED BY <1>2, <1>6, <1>7, <1>8, CommitStep

(* The update by id is Stop of the one job that has the id, or nothing.    *)
LEMMA StopImplements ==
  ASSUME TypeOK, Unique, NEW h \in Handlers, StopUpdate(h)
  PROVE  [Life!Next]_([k \in Jobs |-> Status(k)])
<1> DEFINE st == [k \in Jobs |-> Status(k)]
           upd(r) == IF r.id = local[h].id THEN [r EXCEPT !.state = "stopped"]
                     ELSE r
<1>1. job' = {upd(r) : r \in job} /\ cache' = cache
  BY DEF StopUpdate
<1>2. \A r \in job : /\ upd(r).key = r.key
                     /\ r.id # local[h].id => upd(r) = r
                     /\ r.id = local[h].id => upd(r).state = "stopped"
  BY DEF TypeOK, Rows
<1> HIDE DEF upd
<1>3. KeysIn(job)' = KeysIn(job) /\ KeysIn(cache)' = KeysIn(cache)
  BY <1>1, <1>2 DEF KeysIn
<1>4. CASE \A r \in job : r.id # local[h].id
  <2>1. job' = job
    BY <1>1, <1>2, <1>4
  <2>2. \A k \in Jobs : Status(k)' = Status(k)
    BY <1>1, <2>1 DEF Status, KeysIn
  <2> QED BY <2>2, StutterStep
<1>5. CASE \E r \in job : r.id = local[h].id
  <2>1. PICK r \in job : r.id = local[h].id
    BY <1>5
  <2> DEFINE k == r.key
  <2>2. k \in Jobs /\ k \in KeysIn(job)
    BY DEF TypeOK, Rows, KeysIn
  <2>3. \A q \in job : q.key # k => upd(q) = q
    BY <1>2, <2>1 DEF Unique, UniqueIn
  <2>4. \A j \in Jobs \ {k} : Stopped(j)' <=> Stopped(j)
    BY <1>1, <1>2, <2>3 DEF Stopped
  <2>5. \A j \in Jobs \ {k} : Status(j)' = Status(j)
    BY <1>3, <2>4, StatusKept
  <2>6. Status(k)' = "stopped"
    BY <1>1, <1>2, <2>1 DEF Status
  <2>7. CASE Stopped(k)
    BY <2>2, <2>5, <2>6, <2>7, StatusCases, StutterStep
  <2>8. CASE ~Stopped(k)
    <3>1. st[k] = "running"
      BY <2>2, <2>8, StatusCases
    <3>2. st' = [st EXCEPT ![k] = "stopped"]
      BY <2>2, <2>5, <2>6
    <3>3. Life!Stop(k)
      BY <3>1, <3>2 DEF Life!Stop
    <3> QED BY <2>2, <3>3 DEF Life!Next
  <2> QED BY <2>7, <2>8
<1> QED BY <1>4, <1>5

(* SyncJobs commits the jobs of the cache that the job table lacks.        *)
LEMMA SyncImplements ==
  ASSUME TypeOK, SyncJobs
  PROVE  [Life!Next]_([k \in Jobs |-> Status(k)])
<1>1. PICK f \in [Fresh -> Ids] :
        job' = job \cup {[id |-> f[r], key |-> r.key, state |-> "running"] :
                           r \in Fresh}
  BY DEF SyncJobs
<1> DEFINE new(r) == [id |-> f[r], key |-> r.key, state |-> "running"]
           S      == {new(r) : r \in Fresh}
           K      == KeysIn(Fresh)
<1>2. \A r \in Fresh : new(r).key = r.key /\ new(r).state = "running"
  OBVIOUS
<1>3. job' = job \cup S
  BY <1>1
<1> HIDE DEF new
<1>4. KeysIn(S) = K
  BY <1>2 DEF KeysIn
<1>5. \A q \in S : q.state = "running" /\ q.key \notin KeysIn(job)
  BY <1>2 DEF Fresh
<1> HIDE DEF S
<1>6. /\ \A j \in Jobs : Stopped(j)' <=> Stopped(j)
      /\ \A j \in Jobs : (j \in KeysIn(job))' <=> j \in KeysIn(job) \cup K
  BY <1>3, <1>4, <1>5, RunningRows
<1>7. K \in SUBSET Jobs /\ \A k \in Jobs : k \in K <=> k \in KeysIn(cache)
                                                       /\ k \notin KeysIn(job)
  BY DEF Fresh, KeysIn, TypeOK, CacheRows
<1>8. ASSUME NEW k \in K PROVE Status(k) = "cached" /\ Status(k)' = "running"
  <2>1. k \in Jobs /\ ~Stopped(k)' /\ (k \in KeysIn(job))'
    BY <1>6, <1>7, StatusCases
  <2> QED BY <1>7, <2>1, StatusCases DEF Status, Stopped
<1>9. ASSUME NEW k \in Jobs \ K PROVE Status(k)' = Status(k)
  <2>1. CASE k \in KeysIn(job)
    BY <1>6, <2>1, StatusKept
  <2>2. CASE k \notin KeysIn(job)
    <3>1. k \notin KeysIn(cache) /\ ~(k \in KeysIn(cache))'
      BY <1>7, <2>2 DEF SyncJobs, KeysIn
    <3> QED BY <1>6, <3>1, StatusKept
  <2> QED BY <2>1, <2>2
<1> QED BY <1>7, <1>8, <1>9, CommitStep

(* Every step of JobStore is a step of JobLife or changes no job's stage.  *)
LEMMA LifeStep ==
  ASSUME TypeOK, Unique, [Next]_vars
  PROVE  [Life!Next]_([k \in Jobs |-> Status(k)])
<1>1. ASSUME UNCHANGED <<job, cache>>
      PROVE  [Life!Next]_([k \in Jobs |-> Status(k)])
  <2>1. \A k \in Jobs : Status(k)' = Status(k)
    BY <1>1 DEF Status, KeysIn
  <2> QED BY <2>1, StutterStep
<1>2. CASE UNCHANGED vars
  BY <1>1, <1>2 DEF vars
<1>3. ASSUME NEW h \in Handlers, NEW k \in Jobs,
             StartCheck(h, k) \/ StopFindCached(h, k) \/ StopFind(h, k)
      PROVE  UNCHANGED <<job, cache>>
  BY <1>3 DEF StartCheck, StopFindCached, StopFind
<1>4. ASSUME NEW h \in Handlers,
             StartRefused(h) \/ StopLock(h) \/ TransferNothing(h) \/ TransferFails(h)
      PROVE  UNCHANGED <<job, cache>>
  BY <1>4 DEF StartRefused, StopLock, TransferNothing, TransferFails
<1>5. CallJobStartHooks => UNCHANGED <<job, cache>>
  BY DEF CallJobStartHooks
<1> QED
  BY <1>1, <1>2, <1>3, <1>4, <1>5, DirectImplements, CachedImplements,
     TransferImplements, StopImplements, SyncImplements DEF Next

(* Type correctness of the job tables.                                     *)
THEOREM JobStoreTypeCorrect == Spec => []TypeOK
<1> QED BY InitInv, TypeStep, PTL DEF Spec

(* A job whose start was confirmed never disappears from the database,     *)
(* although TransferCachedJobToMain and SyncJobs move it between tables.   *)
THEOREM JobStoreLosesNoJob == Spec => []NoJobLost
<1>1. TypeOK /\ NoJobLost /\ [Next]_vars => (TypeOK /\ NoJobLost)'
  BY TypeStep, NoJobLostStep
<1> QED BY <1>1, InitInv, PTL DEF Spec

(* CallJobStartHooks passes every job with the id of its own row.          *)
THEOREM JobStoreHooksGetTheirJob == Spec => []HooksGetTheirJob
<1>1. TypeOK /\ HooksGetTheirJob /\ [Next]_vars => (TypeOK /\ HooksGetTheirJob)'
  BY TypeStep, HooksStep
<1> QED BY <1>1, InitInv, PTL DEF Spec

(* The tables, row ids and locks of JobStore implement JobLife: no job     *)
(* goes back a stage, and a stop changes one job (ImplementsJobLife).      *)
THEOREM JobStoreImplementsJobLife == Spec => ImplementsJobLife
<1>1. Init => Unique
  BY DEF Init, Unique, UniqueIn
<1>2. TypeOK /\ Unique /\ [Next]_vars => (TypeOK /\ Unique)'
  BY TypeStep, UniqueStep
<1>3. Init => Life!Init
  BY DEF Init, Life!Init, Status, KeysIn
<1>4. TypeOK /\ Unique /\ [Next]_vars => [Life!Next]_([k \in Jobs |-> Status(k)])
  BY LifeStep
<1>5. Init => TypeOK
  BY InitInv
<1> QED
  BY <1>1, <1>2, <1>3, <1>4, <1>5, PTL DEF Spec, ImplementsJobLife, Life!Spec

(* Every step gives back the locks it no longer needs.                     *)
LEMMA LocksStep ==
  ASSUME TypeOK, LocksInUse, [Next]_vars
  PROVE  LocksInUse'
<1> USE DEF TypeOK, LocksInUse
<1>0. Idle.pc = "idle"
  BY DEF Idle
<1>1. CASE UNCHANGED vars
  BY <1>1 DEF vars
<1>2. ASSUME NEW h \in Handlers, NEW k \in Jobs, StartCheck(h, k)
      PROVE  LocksInUse'
  <2>1. /\ local[h].pc = "idle" /\ creation \cap Peers(h) = {}
        /\ creation' = creation \cup {h} /\ UNCHANGED mutex
        /\ \A g \in Handlers : local'[g] = IF g = h THEN [pc |-> "start", key |-> k]
                                           ELSE local[g]
    BY <1>0, <1>2 DEF StartCheck
  <2>2. \A g \in Handlers : g \in Peers(h) <=> h \in Peers(g)
    BY JobStoreAssumption DEF Peers, Handlers
  <2>3. \A f, g \in creation' : f \in Peers(g) => f = g
    BY <2>1, <2>2
  <2>4. \A g \in Handlers :
          /\ local'[g].pc = "start" <=> g = h \/ local[g].pc = "start"
          /\ local'[g].pc = "stop" <=> local[g].pc = "stop"
    BY <2>1
  <2> QED BY <2>1, <2>3, <2>4
<1>3. ASSUME NEW h \in Handlers, NEW k \in Jobs, StopFindCached(h, k) \/ StopFind(h, k)
      PROVE  LocksInUse'
  <2>1. /\ local[h].pc = "idle" /\ UNCHANGED <<mutex, creation>>
        /\ \E l : l.pc = "found" /\ local' = [local EXCEPT ![h] = l]
    BY <1>0, <1>3 DEF StopFindCached, StopFind
  <2>2. \A g \in Handlers :
          /\ local'[g].pc = "start" <=> local[g].pc = "start"
          /\ local'[g].pc = "stop" <=> local[g].pc = "stop"
    BY <2>1
  <2> QED BY <2>1, <2>2
<1>4. ASSUME NEW h \in Handlers, StartDirect(h) \/ StartCached(h) \/ StartRefused(h)
      PROVE  LocksInUse'
  <2>1. /\ local[h].pc = "start" /\ creation' = creation \ {h} /\ UNCHANGED mutex
        /\ local' = [local EXCEPT ![h] = Idle]
    BY <1>4 DEF StartDirect, StartCached, StartRefused
  <2>2. \A g \in Handlers :
          /\ local'[g].pc = "start" <=> g # h /\ local[g].pc = "start"
          /\ local'[g].pc = "stop" <=> local[g].pc = "stop"
    BY <1>0, <2>1
  <2> QED BY <2>1, <2>2
<1>5. ASSUME NEW h \in Handlers, StopLock(h) \/ Transfer(h) \/ TransferNothing(h)
      PROVE  LocksInUse'
  <2>1. /\ local[h].pc = "found" /\ mutex = {} /\ mutex' = {h} /\ UNCHANGED creation
        /\ \E l : l.pc = "stop" /\ local' = [local EXCEPT ![h] = l]
    BY <1>5 DEF StopLock, Transfer, TransferNothing, Stopping
  <2>2. \A g \in Handlers :
          /\ local'[g].pc = "start" <=> local[g].pc = "start"
          /\ local'[g].pc = "stop" <=> g = h \/ local[g].pc = "stop"
    BY <2>1
  <2> QED BY <2>1, <2>2
<1>6. ASSUME NEW h \in Handlers, TransferFails(h)
      PROVE  LocksInUse'
  <2>1. /\ local[h].pc = "found" /\ UNCHANGED <<mutex, creation>>
        /\ local' = [local EXCEPT ![h] = Idle]
    BY <1>6 DEF TransferFails
  <2>2. \A g \in Handlers :
          /\ local'[g].pc = "start" <=> local[g].pc = "start"
          /\ local'[g].pc = "stop" <=> local[g].pc = "stop"
    BY <1>0, <2>1
  <2> QED BY <2>1, <2>2
<1>7. ASSUME NEW h \in Handlers, StopUpdate(h)
      PROVE  LocksInUse'
  <2>1. /\ local[h].pc = "stop" /\ mutex' = {} /\ UNCHANGED creation
        /\ local' = [local EXCEPT ![h] = Idle]
    BY <1>7 DEF StopUpdate
  <2>2. h \in mutex
    BY <2>1
  <2>3. \A g \in Handlers :
          /\ local'[g].pc = "start" <=> local[g].pc = "start"
          /\ local'[g].pc = "stop" <=> g # h /\ local[g].pc = "stop"
    BY <1>0, <2>1
  <2> QED BY <2>1, <2>2, <2>3
<1>8. CASE SyncJobs \/ CallJobStartHooks
  BY <1>8 DEF SyncJobs, CallJobStartHooks
<1> QED
  BY <1>1, <1>2, <1>3, <1>4, <1>5, <1>6, <1>7, <1>8 DEF Next

(* No path of a handler keeps a lock, and no two handlers are inside one,  *)
(* for any number of handlers.                                             *)
THEOREM JobStoreLocksInUse == Spec => []LocksInUse
<1>1. Init => LocksInUse
  BY DEF Init, LocksInUse, Idle
<1>2. TypeOK /\ LocksInUse /\ [Next]_vars => LocksInUse'
  BY LocksStep
<1> QED BY <1>1, <1>2, JobStoreTypeCorrect, PTL DEF Spec
=============================================================================
