-------------------------- MODULE Archiver_proofs --------------------------
(* Proofs about the archiver, for every finite set of jobs, every capacity *)
(* of the channel, with and without database errors.                       *)
EXTENDS Archiver, FiniteSetTheorems, TLAPS

(* Every step of Archiver keeps every variable in its type, as long as the *)
(* WaitGroup is not decremented below zero.                                *)
LEMMA TypeStep ==
  ASSUME TypeOK, [Next]_vars, pending' \in Nat
  PROVE  TypeOK'
<1> USE DEF TypeOK, Steps, Working, Statuses, handler, results, control
<1>1. CASE UNCHANGED vars
  BY <1>1 DEF vars
<1>2. ASSUME NEW j \in Jobs, Arrive(j) \/ StopJob(j) \/ StopFails(j) \/ Trigger(j)
      PROVE  TypeOK'
  <2>1. CASE Arrive(j)
    BY <2>1 DEF Arrive
  <2>2. CASE StopJob(j)
    BY <2>2 DEF StopJob
  <2>3. CASE StopFails(j)
    BY <2>3 DEF StopFails
  <2>4. CASE Trigger(j)
    BY <2>4 DEF Trigger
  <2> QED BY <1>2, <2>1, <2>2, <2>3, <2>4
<1>3. ASSUME NEW j \in Jobs, Send(j) PROVE TypeOK'
  BY <1>3 DEF Send
<1>4. ASSUME NEW j \in Jobs, SendPanics(j) PROVE TypeOK'
  BY <1>4 DEF SendPanics
<1>5. ASSUME NEW j \in Jobs, MetaFound(j) \/ Stored(j) \/ MarkArchived(j)
      PROVE  TypeOK'
  <2>1. CASE MetaFound(j)
    BY <2>1 DEF MetaFound
  <2>2. CASE Stored(j)
    BY <2>2 DEF Stored
  <2>3. CASE MarkArchived(j)
    BY <2>3 DEF MarkArchived
  <2> QED BY <1>5, <2>1, <2>2, <2>3
<1>6. ASSUME NEW j \in Jobs, ArchivingFails(j) PROVE TypeOK'
  BY <1>6 DEF ArchivingFails
<1>7. ASSUME NEW j \in Jobs, UpdateFails(j) \/ RunHooks(j) PROVE TypeOK'
  <2>1. CASE UpdateFails(j)
    BY <2>1 DEF UpdateFails
  <2>2. CASE RunHooks(j)
    BY <2>2 DEF RunHooks
  <2> QED BY <1>7, <2>1, <2>2
<1>8. CASE Take
  <2>1. Head(queue) \in Jobs /\ Tail(queue) \in Seq(Jobs)
    BY <1>8 DEF Take
  <2> QED BY <1>8, <2>1 DEF Take
<1>9. CASE WorkerExits \/ ServeError \/ ShutdownBegin \/ Exit
  BY <1>9 DEF WorkerExits, ServeError, ShutdownBegin, Exit
<1>10. CASE WaitReturns \/ Timeout \/ ShutdownEnds
  BY <1>10 DEF WaitReturns, Timeout, ShutdownEnds
<1> QED
  BY <1>1, <1>2, <1>3, <1>4, <1>5, <1>6, <1>7, <1>8, <1>9, <1>10 DEF Next

(* The set of counted jobs is finite, so its size is a number.             *)
LEMMA CountedFinite ==
  /\ IsFiniteSet(Counted)
  /\ Cardinality(Counted) \in Nat
<1>1. Counted \in SUBSET Jobs
  BY DEF Counted
<1>2. IsFiniteSet(Counted)
  BY <1>1, FS_Subset, ArchiverAssumption
<1> QED BY <1>2, FS_CardinalityType

(* A step that neither adds nor finishes a job leaves the count exact.     *)
LEMMA CountKept ==
  ASSUME PendingExact, UNCHANGED pending, Counted' = Counted
  PROVE  PendingExact' /\ pending' \in Nat
BY CountedFinite DEF PendingExact

(* archivePending.Add of a job that is not counted yet (Trigger).          *)
LEMMA CountUp ==
  ASSUME NEW j \in Jobs, PendingExact, j \notin Counted,
         Counted' = Counted \cup {j}, pending' = pending + 1
  PROVE  PendingExact' /\ pending' \in Nat
BY CountedFinite, FS_AddElement DEF PendingExact

(* archivePending.Done of a counted job (the worker's exits).              *)
LEMMA CountDown ==
  ASSUME NEW j \in Jobs, PendingExact, j \in Counted,
         Counted' = Counted \ {j}, pending' = pending - 1
  PROVE  PendingExact' /\ pending' \in Nat
<1>1. Cardinality(Counted \ {j}) = Cardinality(Counted) - 1
  BY CountedFinite, FS_RemoveElement
<1>2. PendingExact'
  BY <1>1 DEF PendingExact
<1>3. IsFiniteSet(Counted \ {j})
  BY CountedFinite, FS_Subset
<1>4. Cardinality(Counted \ {j}) \in Nat
  BY <1>3, FS_CardinalityType
<1> QED BY <1>1, <1>2, <1>4 DEF PendingExact

-----------------------------------------------------------------------------
(* The inductive invariant.  CleanShutdown needs that nothing enters the   *)
(* channel once Shutdown is under way, that the channel holds queued jobs  *)
(* only, each once, and that the count is exact; SuccessMeansArchived      *)
(* needs what the worker has done so far for a job, step by step.          *)

ClosedFirst == shut # "no" => closed

QueueHoldsQueued ==
  /\ \A i \in 1..Len(queue) : pc[queue[i]] = "queued"
  /\ \A i, k \in 1..Len(queue) : queue[i] = queue[k] => i = k

Progress ==
  \A j \in Jobs :
    /\ pc[j] \in {"update", "hooks"} => j \in stored
    /\ pc[j] = "hooks" => db[j] = "success"
    /\ db[j] = "success" => j \in stored /\ pc[j] \in {"hooks", "done"}
    /\ j \in hooked => db[j] = "success" /\ pc[j] = "done"
    /\ pc[j] = "done" /\ db[j] = "success" => j \in hooked

IInv ==
  /\ TypeOK /\ PendingExact /\ CleanShutdown
  /\ ClosedFirst /\ QueueHoldsQueued /\ Progress

(* The server starts with an empty channel and nothing counted (Start).    *)
LEMMA InitInv == Init => IInv
<1> SUFFICES ASSUME Init PROVE IInv
  OBVIOUS
<1>1. TypeOK
  <2>1. <<>> \in Seq(Jobs)
    OBVIOUS
  <2>2. pc \in [Jobs -> Steps] /\ db \in [Jobs -> Statuses]
    BY DEF Init, Steps, Statuses
  <2> QED BY <2>1, <2>2 DEF Init, TypeOK
<1>2. PendingExact
  <2>1. Counted = {}
    BY DEF Init, Counted, Working
  <2> QED BY <2>1, FS_EmptySet DEF Init, PendingExact
<1>3. CleanShutdown /\ ClosedFirst /\ QueueHoldsQueued
  BY DEF Init, CleanShutdown, ClosedFirst, QueueHoldsQueued
<1>4. Progress
  BY DEF Init, Progress
<1> QED BY <1>1, <1>2, <1>3, <1>4 DEF IInv

(* Trigger counts, the worker's ways out of a job uncount, nothing else    *)
(* changes which jobs are counted.                                         *)
LEMMA CountStep ==
  ASSUME IInv, [Next]_vars
  PROVE  PendingExact' /\ pending' \in Nat
<1> USE DEF IInv, Counted, Working, handler, results, control
<1>1. CASE UNCHANGED vars
  <2>1. Counted' = Counted
    BY <1>1 DEF vars
  <2> QED BY <1>1, <2>1, CountKept DEF vars
<1>2. ASSUME NEW j \in Jobs, Arrive(j) \/ StopJob(j) \/ StopFails(j)
      PROVE  PendingExact' /\ pending' \in Nat
  <2>1. Counted' = Counted /\ UNCHANGED pending
    BY <1>2 DEF TypeOK, Arrive, StopJob, StopFails
  <2> QED BY <2>1, CountKept
<1>3. ASSUME NEW j \in Jobs, Trigger(j)
      PROVE  PendingExact' /\ pending' \in Nat
  <2>1. j \notin Counted /\ Counted' = Counted \cup {j}
    BY <1>3 DEF TypeOK, Trigger
  <2>2. pending' = pending + 1
    BY <1>3 DEF Trigger
  <2> QED BY <2>1, <2>2, CountUp
<1>4. ASSUME NEW j \in Jobs, Send(j) \/ SendPanics(j)
      PROVE  PendingExact' /\ pending' \in Nat
  <2>1. Counted' = Counted /\ UNCHANGED pending
    BY <1>4 DEF TypeOK, Send, SendPanics
  <2> QED BY <2>1, CountKept
<1>5. ASSUME NEW j \in Jobs, MetaFound(j) \/ Stored(j) \/ MarkArchived(j)
      PROVE  PendingExact' /\ pending' \in Nat
  <2>1. Counted' = Counted /\ UNCHANGED pending
    BY <1>5 DEF TypeOK, MetaFound, Stored, MarkArchived
  <2> QED BY <2>1, CountKept
<1>6. ASSUME NEW j \in Jobs, ArchivingFails(j) \/ UpdateFails(j) \/ RunHooks(j)
      PROVE  PendingExact' /\ pending' \in Nat
  <2>1. j \in Counted /\ Counted' = Counted \ {j}
    BY <1>6 DEF TypeOK, ArchivingFails, UpdateFails, RunHooks
  <2>2. pending' = pending - 1
    BY <1>6 DEF ArchivingFails, UpdateFails, RunHooks
  <2> QED BY <2>1, <2>2, CountDown
<1>7. CASE Take
  <2>1. Head(queue) = queue[1] /\ 1 \in 1..Len(queue) /\ Head(queue) \in Jobs
    BY <1>7 DEF TypeOK, Take
  <2>2. pc[Head(queue)] = "queued"
    BY <2>1 DEF QueueHoldsQueued
  <2>3. Counted' = Counted /\ UNCHANGED pending
    BY <1>7, <2>1, <2>2 DEF TypeOK, Take
  <2> QED BY <2>3, CountKept
<1>8. CASE WorkerExits \/ ServeError \/ ShutdownBegin \/ WaitReturns
           \/ Timeout \/ ShutdownEnds \/ Exit
  <2>1. Counted' = Counted /\ UNCHANGED pending
    BY <1>8 DEF WorkerExits, ServeError, ShutdownBegin, WaitReturns, Timeout,
                ShutdownEnds, Exit
  <2> QED BY <2>1, CountKept
<1> QED
  BY <1>1, <1>2, <1>3, <1>4, <1>5, <1>6, <1>7, <1>8 DEF Next

(* The channel is closed before anything waits for its jobs.               *)
LEMMA ClosedStep ==
  ASSUME IInv, [Next]_vars
  PROVE  ClosedFirst'
<1> USE DEF IInv, ClosedFirst, handler, control
<1> QED
  BY DEF Next, vars, Arrive, StopJob, StopFails, Trigger, Send, SendPanics,
         MetaFound, Stored, ArchivingFails, MarkArchived, UpdateFails, RunHooks,
         Take, WorkerExits, ServeError, ShutdownBegin, WaitReturns, Timeout,
         ShutdownEnds, Exit

(* The channel goes on holding queued jobs, each once.                     *)
LEMMA QueueStep ==
  ASSUME IInv, [Next]_vars
  PROVE  QueueHoldsQueued'
<1> USE DEF IInv, TypeOK, QueueHoldsQueued, handler, results, control
<1>1. CASE UNCHANGED vars
  BY <1>1 DEF vars
<1>2. ASSUME NEW j \in Jobs, pc[j] # "queued", UNCHANGED queue,
             NEW s \in Steps, pc' = [pc EXCEPT ![j] = s]
      PROVE  QueueHoldsQueued'
  BY <1>2
<1>3. ASSUME NEW j \in Jobs, Send(j) PROVE QueueHoldsQueued'
  <2>1. pc[j] = "sending" /\ pc' = [pc EXCEPT ![j] = "queued"]
        /\ queue' = Append(queue, j)
    BY <1>3 DEF Send
  <2>2. /\ Len(queue') = Len(queue) + 1
        /\ queue'[Len(queue) + 1] = j
        /\ \A i \in 1..Len(queue) : queue'[i] = queue[i] /\ queue[i] \in Jobs
    BY <2>1
  <2>3. \A i \in 1..Len(queue) : queue[i] # j
    BY <2>1
  <2>4. \A i \in 1..Len(queue') : i \in 1..Len(queue) \/ i = Len(queue) + 1
    BY <2>2
  <2>5. \A i \in 1..Len(queue') : pc'[queue'[i]] = "queued"
    BY <2>1, <2>2, <2>3, <2>4
  <2>6. \A i, k \in 1..Len(queue') : queue'[i] = queue'[k] => i = k
    <3> SUFFICES ASSUME NEW i \in 1..Len(queue'), NEW k \in 1..Len(queue'),
                        queue'[i] = queue'[k]
                 PROVE  i = k
      OBVIOUS
    <3>1. CASE i \in 1..Len(queue) /\ k \in 1..Len(queue)
      BY <2>2, <3>1
    <3>2. CASE i = Len(queue) + 1 /\ k # i
      BY <2>2, <2>3, <2>4, <3>2
    <3>3. CASE k = Len(queue) + 1 /\ k # i
      BY <2>2, <2>3, <2>4, <3>3
    <3> QED BY <2>4, <3>1, <3>2, <3>3
  <2> QED BY <2>5, <2>6
<1>4. CASE Take
  <2>1. /\ queue # <<>>
        /\ pc' = [pc EXCEPT ![queue[1]] = "meta"]
        /\ queue' = Tail(queue)
    BY <1>4 DEF Take
  <2>2. /\ Len(queue') = Len(queue) - 1
        /\ \A i \in 1..Len(queue') : /\ queue'[i] = queue[i + 1]
                                     /\ i + 1 \in 1..Len(queue)
                                     /\ i + 1 # 1
    BY <2>1
  <2>3. 1 \in 1..Len(queue) /\ \A i \in 1..Len(queue) : queue[i] \in Jobs
    BY <2>1
  <2>4. \A i \in 1..Len(queue') : pc'[queue'[i]] = "queued"
    <3> TAKE i \in 1..Len(queue')
    <3>1. queue[i + 1] # queue[1]
      BY <2>2, <2>3
    <3>2. pc[queue[i + 1]] = "queued"
      BY <2>2
    <3> QED BY <2>1, <2>2, <2>3, <3>1, <3>2
  <2>5. \A i, k \in 1..Len(queue') : queue'[i] = queue'[k] => i = k
    <3> TAKE i, k \in 1..Len(queue')
    <3>1. queue[i + 1] = queue[k + 1] => i + 1 = k + 1
      BY <2>2
    <3> QED BY <2>2, <3>1
  <2> QED BY <2>4, <2>5
<1>5. CASE UNCHANGED <<pc, queue>>
  BY <1>5
<1>6. ASSUME NEW j \in Jobs, Arrive(j) \/ StopJob(j) \/ StopFails(j) \/ Trigger(j)
      PROVE  QueueHoldsQueued'
  BY <1>2, <1>6 DEF Steps, Arrive, StopJob, StopFails, Trigger
<1>7. ASSUME NEW j \in Jobs, SendPanics(j) \/ MetaFound(j) \/ Stored(j)
      PROVE  QueueHoldsQueued'
  BY <1>2, <1>7 DEF Steps, Working, SendPanics, MetaFound, Stored
<1>8. ASSUME NEW j \in Jobs, ArchivingFails(j) \/ MarkArchived(j)
      PROVE  QueueHoldsQueued'
  BY <1>2, <1>8 DEF Steps, Working, ArchivingFails, MarkArchived
<1>9. ASSUME NEW j \in Jobs, UpdateFails(j) \/ RunHooks(j)
      PROVE  QueueHoldsQueued'
  BY <1>2, <1>9 DEF Steps, UpdateFails, RunHooks
<1>10. CASE WorkerExits \/ ServeError \/ ShutdownBegin \/ WaitReturns
            \/ Timeout \/ ShutdownEnds \/ Exit
  BY <1>5, <1>10 DEF WorkerExits, ServeError, ShutdownBegin, WaitReturns,
                     Timeout, ShutdownEnds, Exit
<1> QED
  BY <1>1, <1>3, <1>4, <1>6, <1>7, <1>8, <1>9, <1>10 DEF Next

(* Once Shutdown has seen a count of zero, nothing is handed over any more *)
(* and nothing is left to be processed.                                    *)
LEMMA CleanStep ==
  ASSUME IInv, [Next]_vars
  PROVE  CleanShutdown'
<1> USE DEF IInv, TypeOK, CleanShutdown, Working, handler, results, control
<1>1. CASE UNCHANGED vars
  BY <1>1 DEF vars
<1>2. ASSUME NEW j \in Jobs, Arrive(j) \/ StopJob(j) \/ StopFails(j) \/ Trigger(j)
      PROVE  CleanShutdown'
  BY <1>2 DEF Arrive, StopJob, StopFails, Trigger
<1>3. ASSUME NEW j \in Jobs, Send(j) \/ SendPanics(j)
      PROVE  CleanShutdown'
  BY <1>3 DEF Send, SendPanics, ClosedFirst
<1>4. ASSUME NEW j \in Jobs, MetaFound(j) \/ Stored(j) \/ ArchivingFails(j)
      PROVE  CleanShutdown'
  BY <1>4 DEF MetaFound, Stored, ArchivingFails
<1>5. ASSUME NEW j \in Jobs, MarkArchived(j) \/ UpdateFails(j) \/ RunHooks(j)
      PROVE  CleanShutdown'
  BY <1>5 DEF MarkArchived, UpdateFails, RunHooks
<1>6. CASE Take
  <2>1. /\ queue[1] \in Jobs /\ pc[queue[1]] = "queued"
        /\ shut' = shut
    BY <1>6 DEF Take, QueueHoldsQueued
  <2> QED BY <2>1
<1>7. CASE WaitReturns
  <2>1. Counted = {}
    BY <1>7, CountedFinite, FS_EmptySet DEF WaitReturns, PendingExact
  <2> QED BY <1>7, <2>1 DEF WaitReturns, Counted
<1>8. CASE WorkerExits \/ ServeError \/ ShutdownBegin \/ Timeout \/ ShutdownEnds
           \/ Exit
  BY <1>8 DEF WorkerExits, ServeError, ShutdownBegin, Timeout, ShutdownEnds, Exit
<1> QED
  BY <1>1, <1>2, <1>3, <1>4, <1>5, <1>6, <1>7, <1>8 DEF Next

(* The worker does the steps of archiving one job in their order.          *)
LEMMA ProgressStep ==
  ASSUME IInv, [Next]_vars
  PROVE  Progress'
<1> USE DEF IInv, TypeOK, Progress, handler, results, control
<1>1. CASE UNCHANGED vars
  BY <1>1 DEF vars
<1>2. ASSUME NEW j \in Jobs, Arrive(j) \/ StopJob(j) \/ StopFails(j) \/ Trigger(j)
      PROVE  Progress'
  BY <1>2 DEF Arrive, StopJob, StopFails, Trigger
<1>3. ASSUME NEW j \in Jobs, Send(j) \/ SendPanics(j)
      PROVE  Progress'
  BY <1>3 DEF Send, SendPanics
<1>4. ASSUME NEW j \in Jobs, MetaFound(j) \/ Stored(j) PROVE Progress'
  BY <1>4 DEF MetaFound, Stored
<1>5. ASSUME NEW j \in Jobs, ArchivingFails(j) PROVE Progress'
  BY <1>5 DEF ArchivingFails
<1>6. ASSUME NEW j \in Jobs, MarkArchived(j) PROVE Progress'
  BY <1>6 DEF MarkArchived
<1>7. ASSUME NEW j \in Jobs, UpdateFails(j) \/ RunHooks(j) PROVE Progress'
  BY <1>7 DEF UpdateFails, RunHooks
<1>8. CASE Take
  <2>1. /\ queue[1] \in Jobs /\ pc[queue[1]] = "queued"
        /\ pc' = [pc EXCEPT ![queue[1]] = "meta"] /\ UNCHANGED results
    BY <1>8 DEF Take, QueueHoldsQueued
  <2> QED BY <2>1
<1>9. CASE WorkerExits \/ ServeError \/ ShutdownBegin \/ WaitReturns
           \/ Timeout \/ ShutdownEnds \/ Exit
  BY <1>9 DEF WorkerExits, ServeError, ShutdownBegin, WaitReturns, Timeout,
              ShutdownEnds, Exit
<1> QED
  BY <1>1, <1>2, <1>3, <1>4, <1>5, <1>6, <1>7, <1>8, <1>9 DEF Next

(* The invariant holds in every reachable state of the archiver.           *)
THEOREM ArchiverInvariant == Spec => []IInv
<1>1. ASSUME IInv, [Next]_vars PROVE IInv'
  BY <1>1, CountStep, TypeStep, ClosedStep, QueueStep, CleanStep, ProgressStep
     DEF IInv
<1> QED BY <1>1, InitInv, PTL DEF Spec

(* Type correctness: in particular archivePending never goes negative,     *)
(* which would panic.                                                      *)
THEOREM ArchiverTypeCorrect == Spec => []TypeOK
BY ArchiverInvariant, PTL DEF IInv

(* archivePending is the number of jobs between Add and Done.              *)
THEOREM ArchiverCountsExactly == Spec => []PendingExact
BY ArchiverInvariant, PTL DEF IInv

(* When archiver.Shutdown returns nil, every job handed over is processed. *)
THEOREM ArchiverShutsDownCleanly == Spec => []CleanShutdown
BY ArchiverInvariant, PTL DEF IInv

(* A row marked as archived has its data in the archive, and its hooks run *)
(* after that.                                                             *)
THEOREM ArchiverSuccessMeansArchived == Spec => []SuccessMeansArchived
<1>1. IInv => SuccessMeansArchived
  BY DEF IInv, Progress, SuccessMeansArchived
<1> QED BY <1>1, ArchiverInvariant, PTL

(***************************************************************************)
(* The refinement of ArchiveService.  The worker has one job at a time,    *)
(* and the server does not begin to shut down twice.                       *)
(***************************************************************************)
OneInWork == \A j, k \in InWork : j = k
ShutOnce  == server = "run" => shut = "no"

RInv == IInv /\ OneInWork /\ ShutOnce

(* Every step of Archiver keeps the worker to one job.                     *)
LEMMA OneStep ==
  ASSUME RInv, [Next]_vars
  PROVE  OneInWork' /\ ShutOnce'
<1> USE DEF RInv, IInv, TypeOK, OneInWork, ShutOnce, InWork, Working, control
<1>1. CASE UNCHANGED vars
  BY <1>1 DEF vars
<1>2. ASSUME NEW j \in Jobs, Arrive(j) \/ StopJob(j) \/ StopFails(j) \/ Trigger(j)
      PROVE  OneInWork' /\ ShutOnce'
  BY <1>2 DEF Arrive, StopJob, StopFails, Trigger
<1>3. ASSUME NEW j \in Jobs, Send(j) \/ SendPanics(j)
      PROVE  OneInWork' /\ ShutOnce'
  BY <1>3 DEF Send, SendPanics
<1>4. ASSUME NEW j \in Jobs, MetaFound(j) \/ Stored(j) \/ MarkArchived(j)
      PROVE  OneInWork' /\ ShutOnce'
  BY <1>4 DEF MetaFound, Stored, MarkArchived
<1>5. ASSUME NEW j \in Jobs, ArchivingFails(j) \/ UpdateFails(j) \/ RunHooks(j)
      PROVE  OneInWork' /\ ShutOnce'
  BY <1>5 DEF ArchivingFails, UpdateFails, RunHooks
<1>6. CASE Take
  <2>1. /\ \A j \in Jobs : pc[j] \notin Working
        /\ pc' = [pc EXCEPT ![Head(queue)] = "meta"]
        /\ server' = server /\ shut' = shut
    BY <1>6 DEF Take, AtSelect
  <2> QED BY <2>1
<1>7. CASE WorkerExits \/ ServeError \/ ShutdownBegin \/ WaitReturns
           \/ Timeout \/ ShutdownEnds \/ Exit
  <2>1. OneInWork'
    BY <1>7 DEF WorkerExits, ServeError, ShutdownBegin, WaitReturns, Timeout,
                ShutdownEnds, Exit
  <2>2. ShutOnce'
    BY <1>7 DEF WorkerExits, ServeError, ShutdownBegin, WaitReturns, Timeout,
                ShutdownEnds, Exit
  <2> QED BY <2>1, <2>2
<1> QED
  BY <1>1, <1>2, <1>3, <1>4, <1>5, <1>6, <1>7 DEF Next

(* The line while the worker has no job, and while it has one.             *)
LEMMA LineIs ==
  /\ InWork = {} => Line = queue
  /\ \A j \in Jobs : InWork = {j} => Line = <<j>> \o queue
BY DEF Line

(* A step that changes neither the line nor an outcome is none of the      *)
(* service.                                                                *)
LEMMA ServiceStutters ==
  ASSUME InWork' = InWork, queue' = queue,
         \A j \in Jobs : Outcome(j)' = Outcome(j),
         (shut \in {"drained", "ok"})' = (shut \in {"drained", "ok"})
  PROVE  [Service!Next]_(Service!avars)
<1>1. Line' = Line
  BY DEF Line
<1>2. [j \in Jobs |-> Outcome(j)]' = [j \in Jobs |-> Outcome(j)]
  OBVIOUS
<1> QED BY <1>1, <1>2 DEF Service!avars

(* The send is the hand-over: the job is last in line.                     *)
LEMMA SendAccepts ==
  ASSUME RInv, NEW j \in Jobs, Send(j)
  PROVE  Service!Accept(j)
<1> USE DEF RInv, IInv, TypeOK, OneInWork
<1>1. pc[j] = "sending" /\ pc' = [pc EXCEPT ![j] = "queued"]
      /\ queue' = Append(queue, j) /\ hooked' = hooked /\ shut' = shut /\ ~closed
  BY DEF Send, results, control
<1>2. InWork' = InWork
  BY <1>1 DEF InWork, Working
<1>3. Line' = Append(Line, j)
  <2>1. CASE InWork = {}
    <3>1. Line = queue /\ Line' = queue'
      BY <1>2, <2>1 DEF Line
    <3> QED BY <1>1, <3>1
  <2>2. CASE InWork # {}
    <3>1. PICK w \in Jobs : InWork = {w}
      <4>1. InWork \subseteq Jobs
        BY DEF InWork
      <4>2. \A k, m \in InWork : k = m
        BY DEF OneInWork
      <4>3. PICK w \in InWork : TRUE
        BY ONLY <2>2
      <4>4. w \in Jobs /\ InWork = {w}
        BY ONLY <4>1, <4>2, <4>3
      <4> QED BY ONLY <4>4
    <3>2. Line = <<w>> \o queue /\ Line' = <<w>> \o Append(queue, j)
      BY <1>1, <1>2, <3>1 DEF Line
    <3>3. <<w>> \o Append(queue, j) = Append(<<w>> \o queue, j)
      OBVIOUS
    <3> QED BY <3>2, <3>3
  <2> QED BY <2>1, <2>2
<1>4. Outcome(j) = "none" /\ \A k \in Jobs : Outcome(k)' = Outcome(k)
  BY <1>1 DEF Outcome
<1>5. shut \notin {"drained", "ok"}
  BY <1>1 DEF ClosedFirst
<1> QED BY <1>1, <1>3, <1>4, <1>5 DEF Service!Accept

(* Whichever way the worker leaves a job, the first in line is finished.   *)
LEMMA WorkerFinishes ==
  ASSUME RInv, NEW j \in Jobs, ArchivingFails(j) \/ UpdateFails(j) \/ RunHooks(j)
  PROVE  Service!Finish
<1> USE DEF RInv, IInv, TypeOK, OneInWork
<1>1. /\ pc[j] \in Working /\ pc' = [pc EXCEPT ![j] = "done"]
      /\ queue' = queue /\ shut' = shut
      /\ hooked' = hooked \/ hooked' = hooked \cup {j}
  BY DEF ArchivingFails, UpdateFails, RunHooks, Working, results, control
<1>2. InWork = {j} /\ InWork' = {}
  BY <1>1 DEF InWork, Working
<1>3. Line = <<j>> \o queue /\ Line' = queue
  BY <1>1, <1>2 DEF Line
<1>4. Line # <<>> /\ Head(Line) = j /\ Tail(Line) = queue
  BY <1>3
<1>5. Outcome(j) = "none" /\ Outcome(j)' \in {"archived", "failed"}
  BY <1>1 DEF Outcome, Working
<1>6. \A k \in Jobs \ {j} : Outcome(k)' = Outcome(k)
  BY <1>1 DEF Outcome
<1>7. [k \in Jobs |-> Outcome(k)]' =
        [[k \in Jobs |-> Outcome(k)] EXCEPT ![j] = Outcome(j)']
  BY <1>6
<1> QED BY <1>1, <1>3, <1>4, <1>5, <1>7 DEF Service!Finish

(* A count of zero means that the line is empty.                           *)
LEMMA WaitEnds ==
  ASSUME RInv, WaitReturns
  PROVE  Service!End
<1> USE DEF RInv, IInv, TypeOK
<1>1. Counted = {}
  BY CountedFinite, FS_EmptySet DEF WaitReturns, PendingExact
<1>2. InWork = {}
  BY <1>1 DEF Counted, InWork
<1>3. queue = <<>>
  <2>1. Len(queue) = 0
    <3> SUFFICES ASSUME Len(queue) # 0 PROVE FALSE
      OBVIOUS
    <3>1. 1 \in 1..Len(queue) /\ queue[1] \in Jobs
      OBVIOUS
    <3>2. pc[queue[1]] = "queued"
      BY <3>1 DEF QueueHoldsQueued
    <3> QED BY <1>1, <3>1, <3>2 DEF Counted
  <2> QED BY <2>1
<1>4. UNCHANGED <<pc, queue, hooked>> /\ shut' = "drained"
  BY DEF WaitReturns, handler, results
<1>5. Line = <<>> /\ Line' = Line
  BY <1>2, <1>3, <1>4 DEF Line, InWork
<1>6. [j \in Jobs |-> Outcome(j)]' = [j \in Jobs |-> Outcome(j)]
  BY <1>4 DEF Outcome
<1> QED BY <1>4, <1>5, <1>6 DEF Service!End

(* Every step of Archiver is a step of ArchiveService or none.             *)
LEMMA ServiceStep ==
  ASSUME RInv, [Next]_vars
  PROVE  [Service!Next]_(Service!avars)
<1> USE DEF RInv, IInv, TypeOK
<1>1. ASSUME UNCHANGED <<pc, queue, hooked>>,
             (shut \in {"drained", "ok"})' = (shut \in {"drained", "ok"})
      PROVE  [Service!Next]_(Service!avars)
  BY <1>1, ServiceStutters DEF InWork, Outcome
<1>2. CASE UNCHANGED vars
  BY <1>1, <1>2 DEF vars, handler, results, control
<1>3. ASSUME NEW j \in Jobs,
             \/ Arrive(j) \/ StopJob(j) \/ StopFails(j) \/ Trigger(j)
             \/ SendPanics(j) \/ MetaFound(j) \/ Stored(j) \/ MarkArchived(j)
      PROVE  [Service!Next]_(Service!avars)
  <2>1. /\ UNCHANGED <<queue, hooked, shut>>
        /\ pc[j] # "done"
        /\ \E s \in Steps \ {"done"} :
             /\ pc' = [pc EXCEPT ![j] = s]
             /\ s \in Working <=> pc[j] \in Working
    BY <1>3 DEF Arrive, StopJob, StopFails, Trigger, SendPanics, MetaFound,
                Stored, MarkArchived, handler, results, control, Steps, Working
  <2>2. InWork' = InWork
    BY <2>1 DEF InWork
  <2>3. \A k \in Jobs : Outcome(k)' = Outcome(k)
    BY <2>1 DEF Outcome
  <2> QED BY <2>1, <2>2, <2>3, ServiceStutters
<1>4. ASSUME NEW j \in Jobs, Send(j)
      PROVE  [Service!Next]_(Service!avars)
  BY <1>4, SendAccepts DEF Service!Next
<1>5. ASSUME NEW j \in Jobs, ArchivingFails(j) \/ UpdateFails(j) \/ RunHooks(j)
      PROVE  [Service!Next]_(Service!avars)
  BY <1>5, WorkerFinishes DEF Service!Next
<1>6. CASE Take
  <2>1. /\ queue # <<>> /\ InWork = {} /\ UNCHANGED <<hooked, shut>>
        /\ pc' = [pc EXCEPT ![Head(queue)] = "meta"] /\ queue' = Tail(queue)
    BY <1>6 DEF Take, AtSelect, InWork, results, control
  <2>2. queue[1] = Head(queue) /\ 1 \in 1..Len(queue) /\ Head(queue) \in Jobs
    BY <2>1
  <2>3. pc[Head(queue)] = "queued"
    BY <2>2 DEF QueueHoldsQueued
  <2>4. InWork' = {Head(queue)}
    BY <2>1, <2>2 DEF InWork, Working
  <2>5. Line = queue /\ Line' = <<Head(queue)>> \o Tail(queue)
    BY <2>1, <2>4 DEF Line
  <2>6. <<Head(queue)>> \o Tail(queue) = queue
    BY <2>1
  <2>7. [k \in Jobs |-> Outcome(k)]' = [k \in Jobs |-> Outcome(k)]
    <3>1. \A k \in Jobs : Outcome(k)' = Outcome(k)
      BY <2>1, <2>2, <2>3 DEF Outcome
    <3> QED BY <3>1
  <2> QED BY <2>1, <2>5, <2>6, <2>7 DEF Service!avars
<1>7. CASE WaitReturns
  BY <1>7, WaitEnds DEF Service!Next
<1>8. CASE WorkerExits \/ ServeError \/ ShutdownBegin \/ Timeout \/ ShutdownEnds
           \/ Exit
  <2>1. UNCHANGED <<pc, queue, hooked>>
    BY <1>8 DEF WorkerExits, ServeError, ShutdownBegin, Timeout, ShutdownEnds,
                Exit, handler, results
  <2>2. (shut \in {"drained", "ok"})' = (shut \in {"drained", "ok"})
    BY <1>8 DEF WorkerExits, ServeError, ShutdownBegin, Timeout, ShutdownEnds,
                Exit, ShutOnce
  <2> QED BY <1>1, <2>1, <2>2
<1> QED
  BY <1>2, <1>3, <1>4, <1>5, <1>6, <1>7, <1>8 DEF Next

(* The archiver finishes the jobs handed over once each, in their order,   *)
(* and ends well only with an empty line (ImplementsService).              *)
THEOREM ArchiverImplementsService == Spec => ImplementsService
<1>1. Init => RInv
  BY InitInv DEF RInv, Init, OneInWork, ShutOnce, InWork, Working
<1>2. Init => Service!Init
  <2> SUFFICES ASSUME Init PROVE Service!Init
    OBVIOUS
  <2>1. InWork = {} /\ queue = <<>> /\ shut = "no"
    BY DEF Init, InWork, Working
  <2>2. \A j \in Jobs : Outcome(j) = "none"
    BY DEF Init, Outcome
  <2> QED BY <2>1, <2>2, LineIs DEF Service!Init
<1>3. RInv /\ [Next]_vars => RInv'
  <2> SUFFICES ASSUME RInv, [Next]_vars PROVE RInv'
    OBVIOUS
  <2>1. PendingExact' /\ pending' \in Nat
    BY CountStep DEF RInv
  <2>2. TypeOK'
    BY <2>1, TypeStep DEF RInv, IInv
  <2> QED
    BY <2>1, <2>2, ClosedStep, QueueStep, CleanStep, ProgressStep, OneStep
       DEF RInv, IInv
<1>4. RInv /\ [Next]_vars => [Service!Next]_(Service!avars)
  BY ServiceStep
<1> QED
  BY <1>1, <1>2, <1>3, <1>4, PTL DEF Spec, ImplementsService, Service!Spec

(***************************************************************************)
(* No deadlock: whoever waits for the mutex waits for a handler that can   *)
(* go on or is at the channel, and a full channel keeps the worker busy.   *)
(***************************************************************************)

MutexHeld ==
  /\ \A j \in Jobs : j \in mutex => pc[j] \in {"stopped", "sending"}
  /\ mutex \subseteq Jobs

QueuedAreThere == \A j \in Jobs : pc[j] = "queued" => \E i \in 1..Len(queue) : queue[i] = j

LEMMA MutexStep ==
  ASSUME TypeOK, MutexHeld, QueueHoldsQueued, [Next]_vars
  PROVE  MutexHeld'
<1> USE DEF TypeOK, MutexHeld, Working, handler, results, control
<1>1. CASE UNCHANGED vars
  BY <1>1 DEF vars
<1>2. ASSUME NEW j \in Jobs, Arrive(j) \/ StopJob(j) \/ StopFails(j) \/ Trigger(j)
      PROVE  MutexHeld'
  BY <1>2 DEF Arrive, StopJob, StopFails, Trigger
<1>3. ASSUME NEW j \in Jobs, Send(j) \/ SendPanics(j)
      PROVE  MutexHeld'
  BY <1>3 DEF Send, SendPanics
<1>4. ASSUME NEW j \in Jobs,
             \/ MetaFound(j) \/ Stored(j) \/ ArchivingFails(j) \/ MarkArchived(j)
             \/ UpdateFails(j) \/ RunHooks(j)
      PROVE  MutexHeld'
  BY <1>4 DEF MetaFound, Stored, ArchivingFails, MarkArchived, UpdateFails, RunHooks
<1>5. CASE Take
  <2>1. /\ queue[1] \in Jobs /\ pc[queue[1]] = "queued"
        /\ pc' = [pc EXCEPT ![queue[1]] = "meta"] /\ UNCHANGED mutex
    BY <1>5 DEF Take, QueueHoldsQueued
  <2> QED BY <2>1
<1>6. CASE WorkerExits \/ ServeError \/ ShutdownBegin \/ WaitReturns
           \/ Timeout \/ ShutdownEnds \/ Exit
  BY <1>6 DEF WorkerExits, ServeError, ShutdownBegin, WaitReturns, Timeout,
              ShutdownEnds, Exit
<1> QED
  BY <1>1, <1>2, <1>3, <1>4, <1>5, <1>6 DEF Next

LEMMA QueuedStep ==
  ASSUME TypeOK, QueuedAreThere, [Next]_vars
  PROVE  QueuedAreThere'
<1> USE DEF TypeOK, QueuedAreThere, Working, handler, results, control
<1>1. CASE UNCHANGED vars
  BY <1>1 DEF vars
<1>2. ASSUME NEW j \in Jobs,
             \/ Arrive(j) \/ StopJob(j) \/ StopFails(j) \/ Trigger(j) \/ SendPanics(j)
             \/ MetaFound(j) \/ Stored(j) \/ ArchivingFails(j) \/ MarkArchived(j)
             \/ UpdateFails(j) \/ RunHooks(j)
      PROVE  QueuedAreThere'
  <2>1. /\ UNCHANGED queue
        /\ \A k \in Jobs : pc'[k] = "queued" => pc[k] = "queued"
    BY <1>2 DEF Arrive, StopJob, StopFails, Trigger, SendPanics, MetaFound, Stored,
                ArchivingFails, MarkArchived, UpdateFails, RunHooks
  <2> QED BY <2>1
<1>3. ASSUME NEW j \in Jobs, Send(j)
      PROVE  QueuedAreThere'
  <2>1. /\ Len(queue') = Len(queue) + 1 /\ queue'[Len(queue) + 1] = j
        /\ \A i \in 1..Len(queue) : queue'[i] = queue[i]
        /\ \A k \in Jobs : k # j => pc'[k] = pc[k]
    BY <1>3 DEF Send
  <2>2. Len(queue) \in Nat
    OBVIOUS
  <2>3. ASSUME NEW k \in Jobs, pc'[k] = "queued"
        PROVE  \E i \in 1..Len(queue') : queue'[i] = k
    <3>1. CASE k = j
      BY <2>1, <2>2, <3>1
    <3>2. CASE k # j
      <4>1. PICK i \in 1..Len(queue) : queue[i] = k
        BY <2>1, <2>3, <3>2
      <4>2. i \in 1..Len(queue') /\ queue'[i] = k
        BY <2>1, <2>2, <4>1
      <4> QED BY <4>2
    <3> QED BY <3>1, <3>2
  <2> QED BY <2>3
<1>4. CASE Take
  <2>1. /\ queue # <<>> /\ queue' = Tail(queue)
        /\ pc' = [pc EXCEPT ![Head(queue)] = "meta"]
    BY <1>4 DEF Take
  <2>2. /\ Len(queue) \in Nat /\ Len(queue') = Len(queue) - 1 /\ queue[1] \in Jobs
        /\ \A i \in 1..Len(queue') : queue'[i] = queue[i + 1]
        /\ pc' = [pc EXCEPT ![queue[1]] = "meta"]
    BY <2>1
  <2>3. ASSUME NEW k \in Jobs, pc'[k] = "queued"
        PROVE  \E i \in 1..Len(queue') : queue'[i] = k
    <3>1. k # queue[1] /\ pc[k] = "queued"
      BY <2>2, <2>3
    <3>2. PICK i \in 1..Len(queue) : queue[i] = k
      BY <3>1
    <3>3. i - 1 \in 1..Len(queue') /\ (i - 1) + 1 = i
      BY <2>2, <3>1, <3>2
    <3>4. queue'[i - 1] = k
      BY <2>2, <3>2, <3>3
    <3> QED BY <3>3, <3>4
  <2> QED BY <2>3
<1>5. CASE WorkerExits \/ ServeError \/ ShutdownBegin \/ WaitReturns
           \/ Timeout \/ ShutdownEnds \/ Exit
  BY <1>5 DEF WorkerExits, ServeError, ShutdownBegin, WaitReturns, Timeout,
              ShutdownEnds, Exit
<1> QED
  BY <1>1, <1>2, <1>3, <1>4, <1>5 DEF Next

(* As long as the worker runs, handlers, mutex, channel and worker do not  *)
(* all wait for one another, for any number of jobs and any capacity.      *)
THEOREM ArchiverNeverStuck == Spec => []NeverStuck
<1>1. Init => MutexHeld /\ QueuedAreThere
  BY DEF Init, MutexHeld, QueuedAreThere
<1>2. /\ IInv /\ MutexHeld /\ QueuedAreThere /\ [Next]_vars
      => (MutexHeld /\ QueuedAreThere)'
  BY MutexStep, QueuedStep DEF IInv
<1>3. ASSUME TypeOK, MutexHeld, QueuedAreThere
      PROVE  NeverStuck
  <2> SUFFICES ASSUME ~gone, NEW j \in Jobs, pc[j] \notin {"idle", "done", "panicked"}
               PROVE  CanGoOn
    BY DEF NeverStuck
  <2>1. ASSUME queue # <<>>
        PROVE  CanGoOn
    <3>1. CASE \E k \in Jobs : pc[k] \in Working
      BY <3>1 DEF CanGoOn
    <3>2. CASE \A k \in Jobs : pc[k] \notin Working
      BY <2>1, <3>2 DEF CanGoOn, AtSelect
    <3> QED BY <3>1, <3>2
  <2>2. ASSUME NEW k \in Jobs, pc[k] = "sending"
        PROVE  CanGoOn
    <3>1. CASE closed \/ Len(queue) < ChanCap
      BY <2>2, <3>1 DEF CanGoOn
    <3>2. CASE ~(Len(queue) < ChanCap)
      <4>1. queue # <<>>
        BY <3>2, ArchiverAssumption
      <4> QED BY <2>1, <4>1
    <3> QED BY <3>1, <3>2
  <2>3. CASE pc[j] \in {"stopped"} \cup Working
    BY <2>3 DEF CanGoOn
  <2>4. CASE pc[j] = "sending"
    BY <2>2, <2>4
  <2>5. CASE pc[j] = "queued"
    <3>1. PICK i \in 1..Len(queue) : queue[i] = j
      BY <1>3, <2>5 DEF QueuedAreThere
    <3>2. queue # <<>>
      BY <3>1
    <3> QED BY <2>1, <3>2
  <2>6. CASE pc[j] = "waiting"
    <3>1. CASE mutex = {}
      BY <2>6, <3>1 DEF CanGoOn
    <3>2. ASSUME NEW k \in mutex
          PROVE  CanGoOn
      <4>1. k \in Jobs /\ pc[k] \in {"stopped", "sending"}
        BY <1>3 DEF MutexHeld
      <4>2. CASE pc[k] = "stopped"
        BY <4>1, <4>2 DEF CanGoOn
      <4> QED BY <2>2, <4>1, <4>2
    <3> QED BY <3>1, <3>2
  <2> QED
    BY <1>3, <2>3, <2>4, <2>5, <2>6 DEF TypeOK, Steps
<1>4. IInv => TypeOK
  BY DEF IInv
<1> QED BY <1>1, <1>2, <1>3, <1>4, ArchiverInvariant, PTL DEF Spec
=============================================================================
