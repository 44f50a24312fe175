----------------------------- MODULE NodeStore ------------------------------
(***************************************************************************)
(* The metric store in memory under concurrent use: the tree of levels     *)
(* (pkg/metricstore/level.go), the writers that decode line protocol, the  *)
(* retention worker, the memory usage tracker, and the jobs that say which *)
(* nodes are in use.  A writer looks up a host's level and then that of a  *)
(* part of it, and writes under that level's lock only; freeing detaches   *)
(* levels that have become empty, also under a writer that holds one.      *)
(*                                                                         *)
(* Abstractions.  One metric and one cluster, whose level always has some  *)
(* host.  A step holds the locks of the levels it changes; freeing goes    *)
(* host by host, with the root locked or not.  Memory use is a free choice.*)
(* A job runs on one node and starts when it is registered.                *)
(***************************************************************************)
EXTENDS BufferChain

CONSTANTS
  Hosts,
  Parts,      \* parts of a host with a level of their own, e.g. its CPU
  Node,       \* stands for the host's own level
  Measured,   \* paths that report the metric: it has one granularity
  Writers,    \* goroutines in DecodeLine
  Retention,  \* Keys.RetentionInMemory
  Fractions,  \* of the retention time, which the tracker goes through
  Late,       \* how much later some samples arrive
  LastStart,  \* bound on the start times of jobs
  MaxTime     \* bound on the clock

ASSUME NodeAssumption ==
  /\ Node \notin Parts /\ Measured \subseteq Hosts \X (Parts \cup {Node})
  /\ Retention \in Nat /\ Late \in Nat /\ MaxTime \in Nat
  /\ LastStart \in Nat /\ Retention <= MaxTime
  /\ Fractions \in Seq(0..Retention)

VARIABLES
  chain,     \* per path: the buffers of the metric, <<>> for nil
  attached,  \* paths whose level hangs in the tree
  local,     \* per writer: the levels it holds
  now,       \* the clock
  jobs,      \* per host: start time of its running job, or NoJob
  sweep,     \* per worker: what it is freeing
  last,      \* state.lastRetentionTime
  excluded,  \* state.selectorsExcluded
  stage      \* the tracker's position in its cycle

store == <<chain, attached, local>>
vars  == <<store, now, jobs, sweep, last, excluded, stage>>

Times   == 0..MaxTime
Paths   == Hosts \X (Parts \cup {Node})
Root(h) == <<h, Node>>

NoJob  == -1
NoPath == <<>>

(* A level a writer holds: where it is, and whether it is still attached.  *)
Nothing == [path |-> NoPath, live |-> FALSE]
LevelRefs == [path : Paths, live : BOOLEAN]
Empty   == [host |-> Nothing, leaf |-> Nothing]
Locals  == [host : {Nothing} \cup LevelRefs, leaf : {Nothing} \cup LevelRefs]

(* Freeing at t: the hosts that are still to do, and whether the root is   *)
(* locked meanwhile.                                                       *)
Sweeps == [todo : SUBSET Hosts, t : Times, all : BOOLEAN]
NoSweep == [todo |-> {}, t |-> 0, all |-> FALSE]
Workers == {"retention", "tracker"}

(* The root's lock, which every look-up of a level takes.                  *)
RootFree(w) == \A v \in Workers \ {w} : sweep[v].todo = {} \/ ~sweep[v].all

Loaded == [start |-> -(Freq \div 2), cap |-> 1, data |-> <<0>>]

(* What a start-up loads: a buffer from a checkpoint has no room left.     *)
Init ==
  /\ chain \in [Paths -> {<<>>, <<Loaded>>}]
  /\ \A p \in Paths \ Measured : chain[p] = <<>>
  /\ attached = {p \in Paths : \E q \in Paths :
                   chain[q] # <<>> /\ (q = p \/ p = Root(q[1]))}
  /\ local = [w \in Writers |-> Empty]
  /\ now = Retention
  /\ jobs \in [Hosts -> {NoJob, 0}]
  /\ sweep = [v \in Workers |-> NoSweep]
  /\ last = 0 /\ excluded = FALSE /\ stage = 0
-----------------------------------------------------------------------------
(* DecodeLine.                                                             *)

(* GetLevel: find or create the level of a host.                           *)
Lookup(w, h) ==
  /\ local[w] = Empty /\ RootFree("")
  /\ \E p \in Measured : p[1] = h
  /\ attached' = attached \cup {Root(h)}
  /\ local' = [local EXCEPT ![w].host = [path |-> Root(h), live |-> TRUE]]
  /\ UNCHANGED <<chain, now, jobs, sweep, last, excluded, stage>>

(* findLevelOrCreate in WriteToLevel, from the host's level down, which    *)
(* the decoder keeps from line to line.                                    *)
Descend(w, x) ==
  LET host == local[w].host
      p    == <<host.path[1], x>>
  IN  /\ host # Nothing /\ local[w].leaf = Nothing /\ p \in Measured
      /\ attached' = IF host.live THEN attached \cup {p} ELSE attached
      /\ local' = [local EXCEPT ![w].leaf = [path |-> p, live |-> host.live]]
      /\ UNCHANGED <<chain, now, jobs, sweep, last, excluded, stage>>

(* WriteToLevel under the level's lock: the sample gets into the chain,    *)
(* or into a level nobody sees any more.                                   *)
Put(w, s) ==
  LET leaf == local[w].leaf
      p    == leaf.path
  IN  /\ leaf # Nothing /\ s \in Times /\ s \in {now, now - Late}
      /\ ~(leaf.live /\ Refused(chain[p], s))
      /\ chain' = IF leaf.live THEN [chain EXCEPT ![p] = Written(@, s)] ELSE chain
      /\ local' = [local EXCEPT ![w].leaf = Nothing]
      /\ UNCHANGED <<attached, now, jobs, sweep, last, excluded, stage>>

(* Any way out of DecodeLine: the end of the input, or a sample from the   *)
(* past.                                                                   *)
Return(w) ==
  /\ local[w] # Empty
  /\ local' = [local EXCEPT ![w] = Empty]
  /\ UNCHANGED <<chain, attached, now, jobs, sweep, last, excluded, stage>>
-----------------------------------------------------------------------------
(* Freeing.                                                                *)

(* Mutant of FreeHost: a level counts as empty when its own metrics are.   *)
FreeHostAlone(v, h) ==
  LET s    == sweep[v]
      mine == {p \in Paths : p[1] = h}
      rest == [p \in Paths |-> IF p \in mine THEN Freed(chain[p], s.t) ELSE chain[p]]
      gone == {p \in mine : rest[p] = <<>> /\ (s.all \/ p # Root(h))}
      seen(l) == IF l.path \in gone THEN [l EXCEPT !.live = FALSE] ELSE l
  IN  /\ h \in s.todo /\ RootFree(v)
      /\ chain' = rest
      /\ attached' = (IF s.all THEN attached ELSE attached \cup {Root(h)}) \ gone
      /\ local' = [w \in Writers |-> [host |-> seen(local[w].host),
                                      leaf |-> seen(local[w].leaf)]]
      /\ sweep' = [sweep EXCEPT ![v].todo = @ \ {h}]
      /\ UNCHANGED <<now, jobs, last, excluded, stage>>

(* freeAndCheckEmpty for one host: its chains are cut, and its parts are   *)
(* detached if they are empty now; so is the host itself when the root is  *)
(* being freed.  Free of a selector looks the host up and thus creates it. *)
FreeHost(v, h) ==
  LET s     == sweep[v]
      mine  == {p \in Paths : p[1] = h}
      rest  == [p \in Paths |-> IF p \in mine THEN Freed(chain[p], s.t) ELSE chain[p]]
      bare  == {p \in mine \ {Root(h)} : rest[p] = <<>>}
      alone == attached \cap mine \subseteq bare \cup {Root(h)}
      gone  == IF s.all /\ alone /\ rest[Root(h)] = <<>>
               THEN bare \cup {Root(h)} ELSE bare
      seen(l) == IF l.path \in gone THEN [l EXCEPT !.live = FALSE] ELSE l
  IN  /\ h \in s.todo /\ RootFree(v)
      /\ chain' = rest
      /\ attached' = (IF s.all THEN attached ELSE attached \cup {Root(h)}) \ gone
      /\ local' = [w \in Writers |-> [host |-> seen(local[w].host),
                                      leaf |-> seen(local[w].leaf)]]
      /\ sweep' = [sweep EXCEPT ![v].todo = @ \ {h}]
      /\ UNCHANGED <<now, jobs, last, excluded, stage>>

Idle(v) == sweep[v].todo = {}

(* GetUsedNodes: nodes of running jobs that started before t.              *)
Used(t) == {h \in Hosts : jobs[h] # NoJob /\ jobs[h] < t}

KnownHosts == {h \in Hosts : Root(h) \in attached}

(* Mutant of GetSelectors: the exclusions are looked up under the wrong    *)
(* key, and nothing is excluded.                                           *)
GetSelectorsAll(used) == KnownHosts

(* All nodes of the tree but those excluded.                               *)
GetSelectors(used) == KnownHosts \ used

(* Mutant of RetentionTick: the operands of the subtraction are swapped.   *)
RetentionTickSwapped ==
  LET t == Retention - now
  IN  /\ Idle("retention") /\ RootFree("retention")
      /\ last' = t
      /\ excluded' = (Used(t) # {})
      /\ sweep' = [sweep EXCEPT !["retention"] =
                     [todo |-> KnownHosts \ Used(t), t |-> t, all |-> Used(t) = {}]]
      /\ UNCHANGED <<store, now, jobs, stage>>

(* A tick of Retention, with state.mu held until the freeing is over: all  *)
(* of the tree, or what GetSelectors leaves.                               *)
RetentionTick ==
  LET t == now - Retention
  IN  /\ Idle("retention") /\ RootFree("retention")
      /\ last' = t
      /\ excluded' = (Used(t) # {})
      /\ sweep' = [sweep EXCEPT !["retention"] =
                     IF Used(t) = {}
                     THEN [todo |-> KnownHosts, t |-> t, all |-> TRUE]
                     ELSE [todo |-> GetSelectors(Used(t)), t |-> t, all |-> FALSE]]
      /\ UNCHANGED <<store, now, jobs, stage>>

(* A tick of MemoryUsageTracker: it reads what the retention worker left   *)
(* and frees the excluded nodes as well.                                   *)
TrackerTick ==
  /\ stage = 0 /\ Idle("tracker") /\ Idle("retention")
  /\ stage' = 1
  /\ sweep' = IF last # 0 /\ excluded
              THEN [sweep EXCEPT !["tracker"] =
                      [todo |-> KnownHosts, t |-> last, all |-> TRUE]]
              ELSE sweep
  /\ UNCHANGED <<store, now, jobs, last, excluded>>

(* Memory is above the cap: free down to the next fraction ...             *)
TrackerFrees ==
  /\ stage \in 1..Len(Fractions) /\ Idle("tracker") /\ RootFree("tracker")
  /\ stage' = stage + 1
  /\ sweep' = [sweep EXCEPT !["tracker"] =
                 [todo |-> KnownHosts, t |-> now - Fractions[stage], all |-> TRUE]]
  /\ UNCHANGED <<store, now, jobs, last, excluded>>

(* ... until it is below, or there is none left.                           *)
TrackerEnds ==
  /\ stage # 0 /\ Idle("tracker")
  /\ stage' = 0
  /\ UNCHANGED <<store, now, jobs, sweep, last, excluded>>
-----------------------------------------------------------------------------
(* The surroundings.                                                       *)

JobStart(h) ==
  /\ jobs[h] = NoJob /\ now <= LastStart
  /\ jobs' = [jobs EXCEPT ![h] = now]
  /\ UNCHANGED <<store, now, sweep, last, excluded, stage>>

JobStop(h) ==
  /\ jobs[h] # NoJob
  /\ jobs' = [jobs EXCEPT ![h] = NoJob]
  /\ UNCHANGED <<store, now, sweep, last, excluded, stage>>

Tick ==
  /\ now < MaxTime
  /\ now' = now + 1
  /\ UNCHANGED <<store, jobs, sweep, last, excluded, stage>>
-----------------------------------------------------------------------------
Next ==
  \/ \E w \in Writers : \/ \E h \in Hosts : Lookup(w, h)
                        \/ \E x \in Parts \cup {Node} : Descend(w, x)
                        \/ \E s \in Times : Put(w, s)
                        \/ Return(w)
  \/ \E v \in Workers, h \in Hosts : FreeHost(v, h)
  \/ RetentionTick \/ TrackerTick \/ TrackerFrees \/ TrackerEnds
  \/ \E h \in Hosts : JobStart(h) \/ JobStop(h)
  \/ Tick

Spec == Init /\ [][Next]_vars
-----------------------------------------------------------------------------
Samples(p) == Held(chain[p])

(* The samples of all chains that one host's freeing may touch expire      *)
(* together.                                                               *)
Store == INSTANCE SampleStore
           WITH held  <- [p \in Paths |-> Samples(p)],
                Roots <- {{p \in Paths : p[1] = h} : h \in Hosts},
                Width <- Freq, Slack <- (Cap + 1) * Freq
-----------------------------------------------------------------------------
(* Properties.                                                             *)

(* Every variable keeps its type; a level that has data or parts hangs in  *)
(* the tree, and a writer's level is at most as attached as the tree says. *)
TypeOK ==
  /\ chain \in [Paths -> Seq(Buffers)]
  /\ attached \subseteq Paths
  /\ local \in [Writers -> Locals]
  /\ now \in Times /\ jobs \in [Hosts -> Times \cup {NoJob}]
  /\ sweep \in [Workers -> Sweeps]
  /\ last \in Times /\ excluded \in BOOLEAN /\ stage \in 0..(Len(Fractions) + 1)

(* What has data is reachable from the root, also for a writer that has    *)
(* held its level across a detachment (findLevelOrCreate, free).           *)
Reachable ==
  /\ \A p \in Paths : chain[p] # <<>> => p \in attached
  /\ \A p \in attached : Root(p[1]) \in attached
  /\ \A w \in Writers : \A l \in {local[w].host, local[w].leaf} :
       l.live => l.path \in attached

(* Buffers, levels and locks implement SampleStore: no sample gets lost    *)
(* but by an expiry it is older than, and every expiry frees what it must. *)
ImplementsSampleStore == Store!Spec

(* Reading any range returns samples of that range only, each where it     *)
(* belongs, and when range and samples are aligned all of them, across     *)
(* full buffers, gaps, cut chains and buffers from a checkpoint (read).    *)
ReadsTheSamples ==
  \A p \in Paths : chain[p] # <<>> => RightlyRead(chain[p], Times)

(* Samples since the start of the job that runs on a node.                 *)
JobData(h) ==
  {s \in UNION {Samples(p) : p \in {q \in Paths : q[1] = h}} :
     jobs[h] # NoJob /\ jobs[h] <= s}

(* The retention worker takes nothing of a running job, although it looks  *)
(* up the used nodes once and frees for a while (Free, GetSelectors).      *)
RetentionSparesJobs ==
  [][\A h \in Hosts : FreeHost("retention", h) => JobData(h) \subseteq JobData(h)']_vars

(* "Data for these nodes is preserved even if older than the retention     *)
(* time" (metricstore.go:520): so does the tracker's first step.           *)
UsedNodesSpared ==
  [][\A h \in Hosts :
       FreeHost("tracker", h) /\ stage = 1 => JobData(h) \subseteq JobData(h)']_vars
=============================================================================
