-------------------------- MODULE NodeStore_proofs --------------------------
(* The metric store in memory, for any tree of hosts and parts, any number *)
(* of writers and any frequency, capacity and retention.                   *)
EXTENDS NodeStore, BufferRead_proofs

(* A chain is in order and has samples of times only.                      *)
ChainsOK ==
  \A p \in Paths : ChainOK(chain[p]) /\ Samples(p) \subseteq Times

(* The host's level a writer holds is that of a host.                      *)
HostLevels ==
  \A w \in Writers : local[w].host # Nothing =>
    \E h \in Hosts : local[w].host.path = Root(h)

(* What the retention worker still has to free is not needed by a job.     *)
RetentionTodo ==
  /\ sweep["retention"].t <= now
  /\ \A h \in sweep["retention"].todo :
       jobs[h] = NoJob \/ jobs[h] >= sweep["retention"].t

Inv ==
  /\ TypeOK /\ ChainsOK /\ Reachable /\ HostLevels /\ RetentionTodo
  /\ now >= Retention

LEMMA LoadedOK ==
  ChainOK(<<Loaded>>) /\ Held(<<Loaded>>) = {0}
<1> DEFINE z == -(Freq \div 2)
           d == <<0>>
           b == Loaded
           c == <<b>>
<1>1. b = [start |-> z, cap |-> 1, data |-> d]
  BY DEF Loaded
<1>2. d \in Seq(Nat \cup {NaN}) /\ Len(d) = 1 /\ d[1] = 0
  OBVIOUS
<1>3. z \in Int /\ z + 0 * Freq <= 0 /\ 0 < z + 1 * Freq
  BY Half
<1> HIDE DEF d, z, b
<1>4. b.start = z /\ b.cap = 1 /\ b.data = d /\ b \in Buffers
  BY <1>1, <1>2, <1>3 DEF Buffers
<1>5. 1 <= Cap /\ 1 \in 1..1 /\ \A k \in 1..1 : k = 1 /\ k - 1 = 0
  BY BufferAssumption
<1>6. BufferOK(b)
  <2>1. b.cap <= Cap /\ Len(b.data) \in 1..b.cap /\ Len(b.data) = 1
    BY <1>2, <1>4, <1>5
  <2>2. ASSUME NEW k \in 1..Len(b.data)
        PROVE  b.start + (k - 1) * Freq <= b.data[k] /\ b.data[k] < b.start + k * Freq
    <3>1. k = 1 /\ k - 1 = 0 /\ b.data[k] = 0
      BY <1>2, <1>4, <1>5, <2>1
    <3> QED BY <1>3, <1>4, <3>1
  <2> QED BY <1>4, <2>1, <2>2 DEF BufferOK
<1>7. c \in Seq(Buffers) /\ Len(c) = 1 /\ c[1] = b
  BY <1>4
<1>8. ChainOK(c)
  <2>1. \A i \in 1..Len(c) : i = 1
    BY <1>7
  <2>2. \A i, j \in 1..Len(c) : ~(i < j)
    BY <2>1
  <2> QED BY <1>6, <1>7, <2>1, <2>2 DEF ChainOK
<1>9. Held(c) = {0}
  <2>1. ASSUME NEW s \in Held(c) PROVE s = 0
    <3>1. PICK i \in 1..Len(c) : \E k \in 1..Len(c[i].data) : s = c[i].data[k]
      BY HeldMeans
    <3>2. i = 1
      BY <1>7
    <3>3. PICK k \in 1..Len(b.data) : s = b.data[k]
      BY <1>7, <3>1, <3>2
    <3>4. k = 1
      BY <1>2, <1>4, <1>5
    <3> QED BY <1>2, <1>4, <3>3, <3>4
  <2>2. 0 \in Held(c)
    <3>1. 1 \in 1..Len(c) /\ 1 \in 1..Len(c[1].data) /\ 0 = c[1].data[1] /\ 0 # NaN
      BY <1>2, <1>4, <1>7 DEF NaN
    <3> QED BY <3>1, HeldMeans
  <2> QED BY <2>1, <2>2
<1> QED BY <1>8, <1>9 DEF c, b

LEMMA NilOK ==
  /\ ChainOK(<<>>) /\ Held(<<>>) = {}
  /\ \A t : Freed(<<>>, t) = <<>>
<1>1. <<>> \in Seq(Buffers)
  OBVIOUS
<1>2. Len(<<>>) = 0 /\ 1..0 = {}
  OBVIOUS
<1>3. ChainOK(<<>>)
  BY <1>1, <1>2 DEF ChainOK
<1>4. Held(<<>>) = {}
  BY <1>2 DEF Held
<1>5. \A t : Ended(<<>>, t) = {}
  BY <1>2 DEF Ended
<1> QED BY <1>3, <1>4, <1>5 DEF Freed

LEMMA InitInv ==
  ASSUME Init
  PROVE  Inv
<1>1. chain \in [Paths -> {<<>>, <<Loaded>>}]
  BY DEF Init
<1>2. ChainsOK
  <2>1. 0 \in Times
    BY NodeAssumption DEF Times
  <2> QED BY <1>1, <2>1, LoadedOK, NilOK DEF ChainsOK, Samples
<1>3. TypeOK
  <2>1. chain \in [Paths -> Seq(Buffers)]
    <3>1. \A p \in Paths : chain[p] \in Seq(Buffers)
      BY <1>2 DEF ChainsOK, ChainOK
    <3> QED BY <1>1, <3>1
  <2>2. attached \subseteq Paths
    BY DEF Init
  <2>3. local \in [Writers -> Locals]
    <3>1. Empty \in Locals
      BY DEF Locals, Empty
    <3> QED BY <3>1 DEF Init
  <2>4. now \in Times /\ jobs \in [Hosts -> Times \cup {NoJob}]
    BY NodeAssumption DEF Init, Times
  <2>5. sweep \in [Workers -> Sweeps]
    <3>1. NoSweep \in Sweeps
      BY NodeAssumption DEF NoSweep, Sweeps, Times
    <3> QED BY <3>1 DEF Init
  <2>6. last \in Times /\ excluded \in BOOLEAN /\ stage \in 0..(Len(Fractions) + 1)
    <3>1. Len(Fractions) \in Nat
      BY NodeAssumption
    <3>2. last = 0 /\ excluded = FALSE /\ stage = 0
      BY DEF Init
    <3>3. 0 \in Times
      BY NodeAssumption DEF Times
    <3>4. 0 \in 0..(Len(Fractions) + 1)
      BY <3>1
    <3> QED BY <3>2, <3>3, <3>4
  <2> QED BY <2>1, <2>2, <2>3, <2>4, <2>5, <2>6 DEF TypeOK
<1>4. Reachable
  <2>0. attached = {p \in Paths : \E q \in Paths :
                      chain[q] # <<>> /\ (q = p \/ p = Root(q[1]))}
    BY DEF Init
  <2>1. \A p \in Paths : chain[p] # <<>> => p \in attached
    BY <2>0
  <2>2. ASSUME NEW p \in attached PROVE Root(p[1]) \in attached
    <3>1. p \in Paths
      BY <2>0
    <3>2. PICK q \in Paths : chain[q] # <<>> /\ (q = p \/ p = Root(q[1]))
      BY <2>0
    <3>3. Root(p[1]) \in Paths
      BY <3>1 DEF Paths, Root
    <3>4. Root(p[1]) = Root(q[1])
      <4>1. CASE q = p
        BY <4>1
      <4>2. CASE p = Root(q[1])
        <5>1. p[1] = q[1]
          BY <4>2 DEF Root
        <5> QED BY <5>1
      <4> QED BY <3>2, <4>1, <4>2
    <3> QED BY <2>0, <3>2, <3>3, <3>4
  <2>3. \A w \in Writers : ~local[w].host.live /\ ~local[w].leaf.live
    BY DEF Init, Empty, Nothing
  <2> QED BY <2>1, <2>2, <2>3 DEF Reachable
<1>5. HostLevels
  BY DEF Init, HostLevels, Empty
<1>6. RetentionTodo /\ now >= Retention
  <2>1. sweep["retention"] = NoSweep /\ now = Retention
    BY DEF Init, Workers
  <2>2. NoSweep.t = 0 /\ NoSweep.todo = {}
    BY DEF NoSweep
  <2> QED BY <2>1, <2>2, NodeAssumption DEF RetentionTodo
<1> QED BY <1>2, <1>3, <1>4, <1>5, <1>6 DEF Inv
-----------------------------------------------------------------------------
(* The levels gone are detached, also for the writers that hold them.      *)
Detached(h, gone) ==
  /\ \A p \in gone : chain'[p] = <<>>
  /\ Root(h) \in gone => {p \in attached : p[1] = h} \subseteq gone
  /\ attached \ gone \subseteq attached'
  /\ attached' \subseteq (attached \cup {Root(h)}) \ gone
  /\ local' = [w \in Writers |->
       [host |-> IF local[w].host.path \in gone
                 THEN [local[w].host EXCEPT !.live = FALSE] ELSE local[w].host,
        leaf |-> IF local[w].leaf.path \in gone
                 THEN [local[w].leaf EXCEPT !.live = FALSE] ELSE local[w].leaf]]

(* What FreeHost does to the chains, the tree and the writers' levels.     *)
LEMMA FreeHostMeans ==
  ASSUME Inv, NEW v \in Workers, NEW h \in Hosts, FreeHost(v, h)
  PROVE  LET t == sweep[v].t
             mine == {p \in Paths : p[1] = h}
         IN  /\ h \in sweep[v].todo /\ t \in Times
             /\ \A p \in mine : chain'[p] = Freed(chain[p], t)
             /\ \A p \in Paths \ mine : chain'[p] = chain[p]
             /\ chain' = [p \in Paths |-> chain'[p]]
             /\ sweep' = [sweep EXCEPT ![v].todo = @ \ {h}]
             /\ \E gone \in SUBSET mine : Detached(h, gone)
<1> DEFINE s == sweep[v]
           mine == {p \in Paths : p[1] = h}
           rest == [p \in Paths |-> IF p \in mine THEN Freed(chain[p], s.t) ELSE chain[p]]
           bare == {p \in mine \ {Root(h)} : rest[p] = <<>>}
           alone == attached \cap mine \subseteq bare \cup {Root(h)}
           gone == IF s.all /\ alone /\ rest[Root(h)] = <<>>
                   THEN bare \cup {Root(h)} ELSE bare
<1>1. s \in Sweeps /\ s.t \in Times
  BY DEF Inv, TypeOK, Sweeps
<1>2. /\ h \in s.todo /\ chain' = rest
      /\ attached' = (IF s.all THEN attached ELSE attached \cup {Root(h)}) \ gone
      /\ sweep' = [sweep EXCEPT ![v].todo = @ \ {h}]
      /\ local' = [w \in Writers |->
           [host |-> IF local[w].host.path \in gone
                     THEN [local[w].host EXCEPT !.live = FALSE] ELSE local[w].host,
            leaf |-> IF local[w].leaf.path \in gone
                     THEN [local[w].leaf EXCEPT !.live = FALSE] ELSE local[w].leaf]]
  BY DEF FreeHost
<1>3. Root(h) \in mine
  BY DEF Root, Paths
<1>4. /\ \A p \in mine : chain'[p] = Freed(chain[p], s.t)
      /\ \A p \in Paths \ mine : chain'[p] = chain[p]
      /\ chain' = [p \in Paths |-> chain'[p]]
  BY <1>2
<1>5. gone \in SUBSET mine
  BY <1>3
<1>6. \A p \in gone : chain'[p] = <<>>
  <2>1. chain' = rest
    BY <1>2
  <2> HIDE DEF rest
  <2> QED BY <2>1
<1>7. Root(h) \in gone => attached \cap mine \subseteq gone
  <2> HIDE DEF rest
  <2> QED OBVIOUS
<1>8. /\ attached \ gone \subseteq attached'
      /\ attached' \subseteq (attached \cup {Root(h)}) \ gone
  <2> HIDE DEF gone
  <2> QED BY <1>2
<1>9. {p \in attached : p[1] = h} = attached \cap mine
  BY DEF Inv, TypeOK
<1> HIDE DEF gone, rest
<1>10. Detached(h, gone)
  BY <1>2, <1>6, <1>7, <1>8, <1>9 DEF Detached
<1> QED BY <1>1, <1>2, <1>4, <1>5, <1>10

LEMMA LocalTypes ==
  ASSUME TypeOK, NEW w \in Writers
  PROVE  /\ local[w].host \in {Nothing} \cup LevelRefs
         /\ local[w].leaf \in {Nothing} \cup LevelRefs
         /\ local[w] = [host |-> local[w].host, leaf |-> local[w].leaf]
BY DEF TypeOK, Locals

LEMMA FreeHostInv ==
  ASSUME Inv, NEW v \in Workers, NEW h \in Hosts, FreeHost(v, h)
  PROVE  Inv'
<1> DEFINE t == sweep[v].t
           mine == {p \in Paths : p[1] = h}
<1>0. TypeOK /\ ChainsOK /\ Reachable /\ HostLevels /\ RetentionTodo
  BY DEF Inv
<1>1. /\ h \in sweep[v].todo /\ t \in Times
      /\ \A p \in mine : chain'[p] = Freed(chain[p], t)
      /\ \A p \in Paths \ mine : chain'[p] = chain[p]
      /\ chain' = [p \in Paths |-> chain'[p]]
      /\ sweep' = [sweep EXCEPT ![v].todo = @ \ {h}]
  BY FreeHostMeans
<1>11. PICK gone \in SUBSET mine : Detached(h, gone)
  BY FreeHostMeans
<1>2. /\ \A p \in gone : chain'[p] = <<>>
      /\ Root(h) \in gone => attached \cap mine \subseteq gone
      /\ attached \ gone \subseteq attached'
      /\ attached' \subseteq (attached \cup {Root(h)}) \ gone
      /\ local' = [w \in Writers |->
           [host |-> IF local[w].host.path \in gone
                     THEN [local[w].host EXCEPT !.live = FALSE] ELSE local[w].host,
            leaf |-> IF local[w].leaf.path \in gone
                     THEN [local[w].leaf EXCEPT !.live = FALSE] ELSE local[w].leaf]]
  BY <1>11 DEF Detached
<1>3. UNCHANGED <<now, jobs, last, excluded, stage>>
  BY DEF FreeHost
<1>4. t \in Int
  BY <1>1, NodeAssumption DEF Times
<1>5. ChainsOK'
  <2>1. ASSUME NEW p \in Paths PROVE ChainOK(chain'[p]) /\ Held(chain'[p]) \subseteq Times
    <3>1. ChainOK(chain[p]) /\ Held(chain[p]) \subseteq Times
      BY <1>0 DEF ChainsOK, Samples
    <3>2. CASE p \in mine
      <4>1. ChainOK(Freed(chain[p], t)) /\ Held(Freed(chain[p], t)) \subseteq Held(chain[p])
        BY <1>4, <3>1, FreedOK
      <4>2. chain'[p] = Freed(chain[p], t)
        BY <1>1, <3>2
      <4> QED BY <3>1, <4>1, <4>2
    <3>3. CASE p \notin mine
      BY <1>1, <3>1, <3>3
    <3> QED BY <3>2, <3>3
  <2> QED BY <2>1 DEF ChainsOK, Samples
<1>6. ASSUME NEW w \in Writers
      PROVE  /\ local'[w] \in Locals
             /\ local'[w].host.path = local[w].host.path
             /\ local'[w].host = Nothing <=> local[w].host = Nothing
             /\ local'[w].host.live => local[w].host.live /\ local[w].host.path \notin gone
             /\ local'[w].leaf.live => local[w].leaf.live /\ local[w].leaf.path \notin gone
             /\ local'[w].leaf.path = local[w].leaf.path
  <2>1. /\ local[w].host \in {Nothing} \cup LevelRefs
        /\ local[w].leaf \in {Nothing} \cup LevelRefs
    BY <1>0, LocalTypes
  <2> DEFINE seen(l) == IF l.path \in gone THEN [l EXCEPT !.live = FALSE] ELSE l
  <2>2. local'[w] = [host |-> seen(local[w].host), leaf |-> seen(local[w].leaf)]
    BY <1>2
  <2>3. ASSUME NEW l \in {Nothing} \cup LevelRefs
        PROVE  /\ seen(l) \in {Nothing} \cup LevelRefs /\ seen(l).path = l.path
               /\ seen(l).live => l.live /\ l.path \notin gone
               /\ seen(l) = Nothing <=> l = Nothing
    <3>1. NoPath \notin Paths
      BY DEF NoPath, Paths
    <3>2. CASE l = Nothing
      <4>1. l.path = NoPath /\ ~l.live
        BY <3>2 DEF Nothing
      <4>2. seen(l) = l
        BY <1>2, <3>1, <4>1
      <4> QED BY <4>1, <4>2
    <3>3. CASE l \in LevelRefs
      <4>1. l.path \in Paths /\ l.live \in BOOLEAN
        BY <3>3 DEF LevelRefs
      <4>2. seen(l) \in LevelRefs /\ seen(l).path = l.path
            /\ (seen(l).live => l.live /\ l.path \notin gone)
        BY <3>3 DEF LevelRefs
      <4>3. seen(l) # Nothing /\ l # Nothing
        <5>1. Nothing.path = NoPath
          BY DEF Nothing
        <5> QED BY <3>1, <4>1, <4>2, <5>1
      <4> QED BY <4>2, <4>3
    <3> QED BY <3>2, <3>3
  <2> HIDE DEF seen
  <2>4. local'[w].host = seen(local[w].host) /\ local'[w].leaf = seen(local[w].leaf)
    BY <2>2
  <2>5. local'[w] \in Locals
    BY <2>1, <2>2, <2>3 DEF Locals
  <2> QED BY <2>1, <2>3, <2>4, <2>5
<1>7. TypeOK'
  <2>1. chain' \in [Paths -> Seq(Buffers)]
    <3>1. \A p \in Paths : chain'[p] \in Seq(Buffers)
      BY <1>5 DEF ChainsOK, ChainOK
    <3> QED BY <1>1, <3>1
  <2>2. attached' \subseteq Paths
    <3>1. Root(h) \in Paths
      BY DEF Root, Paths
    <3> QED BY <1>0, <1>2, <3>1 DEF TypeOK
  <2>3. local' \in [Writers -> Locals]
    <3>1. \A w \in Writers : local'[w] \in Locals
      BY <1>6
    <3>2. DOMAIN local' = Writers
      BY <1>2
    <3>3. local' = [w \in Writers |-> local'[w]]
      BY <1>2
    <3> QED BY <3>1, <3>3
  <2>4. sweep' \in [Workers -> Sweeps]
    <3>1. sweep \in [Workers -> Sweeps]
      BY <1>0 DEF TypeOK
    <3>2. sweep[v] \in Sweeps
      BY <3>1
    <3>3. [sweep[v] EXCEPT !.todo = @ \ {h}] \in Sweeps
      BY <3>2 DEF Sweeps
    <3> QED BY <1>1, <3>1, <3>3
  <2> QED BY <1>0, <1>3, <2>1, <2>2, <2>3, <2>4 DEF TypeOK
<1>8. Reachable'
  <2>1. ASSUME NEW p \in Paths, chain'[p] # <<>> PROVE p \in attached'
    <3>1. p \notin gone
      BY <1>2, <2>1
    <3>2. chain[p] # <<>>
      BY <1>1, <2>1, NilOK
    <3>3. p \in attached
      BY <1>0, <3>2 DEF Reachable
    <3> QED BY <1>2, <3>1, <3>3
  <2>2. ASSUME NEW p \in attached' PROVE Root(p[1]) \in attached'
    <3>1. p \in (attached \cup {Root(h)}) \ gone
      BY <1>2
    <3>2. CASE p = Root(h)
      BY <3>2 DEF Root
    <3>3. CASE p # Root(h) /\ p[1] = h
      <4>1. p \in attached /\ p \in Paths
        BY <1>0, <3>1, <3>3 DEF TypeOK
      <4>2. Root(h) \notin gone
        BY <1>2, <3>1, <3>3, <4>1
      <4>3. Root(h) \in attached
        BY <1>0, <3>3, <4>1 DEF Reachable
      <4> QED BY <1>2, <3>3, <4>2, <4>3
    <3>4. CASE p[1] # h
      <4>1. p \in attached
        BY <3>1, <3>4 DEF Root
      <4>2. Root(p[1]) \in attached
        BY <1>0, <4>1 DEF Reachable
      <4>3. Root(p[1]) \notin gone
        BY <1>2, <3>4 DEF Root
      <4> QED BY <1>2, <4>2, <4>3
    <3> QED BY <3>2, <3>3, <3>4
  <2>3. ASSUME NEW w \in Writers, NEW l \in {local'[w].host, local'[w].leaf}, l.live
        PROVE  l.path \in attached'
    <3>1. CASE l = local'[w].host
      <4>1. local[w].host.live /\ local[w].host.path \notin gone /\ l.path = local[w].host.path
        BY <1>6, <2>3, <3>1
      <4>2. local[w].host.path \in attached
        BY <1>0, <4>1 DEF Reachable
      <4> QED BY <1>2, <4>1, <4>2
    <3>2. CASE l = local'[w].leaf
      <4>1. local[w].leaf.live /\ local[w].leaf.path \notin gone /\ l.path = local[w].leaf.path
        BY <1>6, <2>3, <3>2
      <4>2. local[w].leaf.path \in attached
        BY <1>0, <4>1 DEF Reachable
      <4> QED BY <1>2, <4>1, <4>2
    <3> QED BY <3>1, <3>2
  <2> QED BY <2>1, <2>2, <2>3 DEF Reachable
<1>9. HostLevels'
  BY <1>0, <1>6 DEF HostLevels
<1>10. RetentionTodo' /\ (now >= Retention)'
  <2>1. sweep \in [Workers -> Sweeps] /\ "retention" \in Workers
    BY <1>0 DEF TypeOK, Workers
  <2>2. sweep'["retention"].t = sweep["retention"].t
        /\ sweep'["retention"].todo \subseteq sweep["retention"].todo
    <3>1. sweep[v] \in Sweeps /\ sweep["retention"] \in Sweeps
      BY <2>1
    <3>2. CASE v = "retention"
      <4>1. sweep'["retention"] = [sweep["retention"] EXCEPT !.todo = @ \ {h}]
        BY <1>1, <2>1, <3>2
      <4> QED BY <3>1, <4>1 DEF Sweeps
    <3>3. CASE v # "retention"
      BY <1>1, <2>1, <3>3
    <3> QED BY <3>2, <3>3
  <2> QED BY <1>0, <1>3, <2>2 DEF Inv, RetentionTodo
<1> QED BY <1>5, <1>7, <1>8, <1>9, <1>10 DEF Inv
-----------------------------------------------------------------------------
LEMMA PutInv ==
  ASSUME Inv, NEW w \in Writers, NEW s \in Times, Put(w, s)
  PROVE  Inv'
<1> DEFINE leaf == local[w].leaf
           p == leaf.path
<1>0. TypeOK /\ ChainsOK /\ Reachable /\ HostLevels /\ RetentionTodo /\ now >= Retention
  BY DEF Inv
<1>1. /\ leaf # Nothing /\ ~(leaf.live /\ Refused(chain[p], s))
      /\ chain' = IF leaf.live THEN [chain EXCEPT ![p] = Written(@, s)] ELSE chain
      /\ local' = [local EXCEPT ![w].leaf = Nothing]
      /\ UNCHANGED <<attached, now, jobs, sweep, last, excluded, stage>>
  BY DEF Put
<1>2. leaf \in LevelRefs /\ p \in Paths /\ s \in Nat
  <2>1. leaf \in LevelRefs
    BY <1>0, <1>1, LocalTypes
  <2>2. p \in Paths
    BY <2>1 DEF LevelRefs
  <2>3. s \in Nat
    BY NodeAssumption DEF Times
  <2> QED BY <2>1, <2>2, <2>3
<1>3. \A q \in Paths :
        /\ ChainOK(chain'[q]) /\ Held(chain'[q]) \subseteq Times
        /\ chain'[q] # <<>> => q \in attached
  <2>1. ASSUME NEW q \in Paths
        PROVE  /\ ChainOK(chain'[q]) /\ Held(chain'[q]) \subseteq Times
               /\ chain'[q] # <<>> => q \in attached
    <3>1. /\ ChainOK(chain[q]) /\ Held(chain[q]) \subseteq Times
          /\ chain[q] # <<>> => q \in attached
      BY <1>0 DEF ChainsOK, Samples, Reachable
    <3>2. CASE leaf.live /\ q = p
      <4>1. chain'[q] = Written(chain[q], s)
        BY <1>0, <1>1, <1>2, <3>2 DEF TypeOK
      <4>2. ChainOK(Written(chain[q], s)) /\ Held(Written(chain[q], s)) \subseteq Held(chain[q]) \cup {s}
        BY <1>1, <1>2, <3>1, <3>2, WrittenOK
      <4>3. q \in attached
        BY <1>0, <3>2 DEF Reachable
      <4> QED BY <3>1, <4>1, <4>2, <4>3
    <3>3. CASE ~(leaf.live /\ q = p)
      <4>1. chain'[q] = chain[q]
        BY <1>0, <1>1, <1>2, <3>3 DEF TypeOK
      <4> QED BY <3>1, <4>1
    <3> QED BY <3>2, <3>3
  <2> QED BY <2>1
<1>4. chain' \in [Paths -> Seq(Buffers)]
  <2>1. \A q \in Paths : chain'[q] \in Seq(Buffers)
    BY <1>3 DEF ChainOK
  <2>2. chain' = [q \in Paths |-> chain'[q]]
    BY <1>0, <1>1 DEF TypeOK
  <2> QED BY <2>1, <2>2
<1>5. /\ local' \in [Writers -> Locals]
      /\ \A x \in Writers :
           local'[x].host = local[x].host /\ local'[x].leaf \in {local[x].leaf, Nothing}
  <2>1. local \in [Writers -> Locals]
    BY <1>0 DEF TypeOK
  <2>2. local[w] \in Locals /\ [local[w] EXCEPT !.leaf = Nothing] \in Locals
    BY <2>1 DEF Locals
  <2>3. ASSUME NEW x \in Writers
        PROVE  local'[x].host = local[x].host /\ local'[x].leaf \in {local[x].leaf, Nothing}
    <3>1. CASE x = w
      <4>1. local'[x] = [local[x] EXCEPT !.leaf = Nothing]
        BY <1>1, <2>1, <3>1
      <4> QED BY <2>2, <3>1, <4>1 DEF Locals
    <3>2. CASE x # w
      BY <1>1, <2>1, <3>2
    <3> QED BY <3>1, <3>2
  <2> QED BY <1>1, <2>1, <2>2, <2>3
<1>6. TypeOK'
  BY <1>0, <1>1, <1>4, <1>5 DEF TypeOK
<1>7. Reachable'
  <2>1. ASSUME NEW x \in Writers, NEW l \in {local'[x].host, local'[x].leaf}, l.live
        PROVE  l.path \in attached
    <3>1. ~Nothing.live
      BY DEF Nothing
    <3>2. l \in {local[x].host, local[x].leaf}
      BY <1>5, <2>1, <3>1
    <3> QED BY <1>0, <2>1, <3>2 DEF Reachable
  <2>2. attached' = attached
    BY <1>1
  <2> QED BY <1>0, <1>3, <2>1, <2>2 DEF Reachable
<1>8. HostLevels'
  BY <1>0, <1>5 DEF HostLevels
<1>9. ChainsOK'
  BY <1>3 DEF ChainsOK, Samples
<1>10. RetentionTodo' /\ (now >= Retention)'
  BY <1>0, <1>1 DEF RetentionTodo
<1> QED BY <1>6, <1>7, <1>8, <1>9, <1>10 DEF Inv

(* A step that changes what one writer holds and grows the tree at most.   *)
Decoded(w) ==
  /\ local' \in [Writers -> Locals]
  /\ attached \subseteq attached' /\ attached' \subseteq Paths
  /\ \A x \in Writers \ {w} : local'[x] = local[x]
  /\ \A p \in attached' : Root(p[1]) \in attached'
  /\ \A l \in {local'[w].host, local'[w].leaf} : l.live => l.path \in attached'
  /\ local'[w].host # Nothing => \E h \in Hosts : local'[w].host.path = Root(h)

(* Steps of the decoder before and after the write.                        *)
LEMMA DecodeInv ==
  ASSUME Inv, NEW w \in Writers,
         \/ \E h \in Hosts : Lookup(w, h)
         \/ \E x \in Parts \cup {Node} : Descend(w, x)
         \/ Return(w)
  PROVE  Inv'
<1>0. TypeOK /\ ChainsOK /\ Reachable /\ HostLevels /\ RetentionTodo /\ now >= Retention
  BY DEF Inv
<1>1. UNCHANGED <<chain, now, jobs, sweep, last, excluded, stage>>
  BY DEF Lookup, Descend, Return
<1>2. local \in [Writers -> Locals] /\ local[w] \in Locals
  BY <1>0 DEF TypeOK
<1>3. Decoded(w)
  <2>1. ASSUME NEW h \in Hosts, Lookup(w, h)
        PROVE  Decoded(w)
    <3> DEFINE ref == [path |-> Root(h), live |-> TRUE]
    <3>1. /\ attached' = attached \cup {Root(h)}
          /\ local' = [local EXCEPT ![w].host = ref]
          /\ local[w] = Empty
      BY <2>1 DEF Lookup
    <3>2. Root(h) \in Paths /\ Root(h)[1] = h
      BY DEF Root, Paths
    <3>3. ref \in LevelRefs
      BY <3>2 DEF LevelRefs
    <3>4. local'[w] = [host |-> ref, leaf |-> Nothing]
      <4>1. local'[w] = [Empty EXCEPT !.host = ref]
        BY <1>2, <3>1
      <4> HIDE DEF ref
      <4> QED BY <4>1 DEF Empty
    <3>5. [host |-> ref, leaf |-> Nothing] \in Locals
      BY <3>3 DEF Locals
    <3>6. local' \in [Writers -> Locals] /\ \A x \in Writers \ {w} : local'[x] = local[x]
      BY <1>2, <3>1, <3>4, <3>5
    <3>7. \A p \in attached' : Root(p[1]) \in attached'
      BY <1>0, <3>1, <3>2 DEF Reachable
    <3>8. /\ \A l \in {local'[w].host, local'[w].leaf} : l.live => l.path \in attached'
          /\ local'[w].host.path = Root(h)
      BY <3>1, <3>4 DEF Nothing
    <3> QED BY <1>0, <3>1, <3>2, <3>6, <3>7, <3>8 DEF TypeOK, Decoded
  <2>2. ASSUME NEW x \in Parts \cup {Node}, Descend(w, x)
        PROVE  Decoded(w)
    <3> DEFINE host == local[w].host
               p == <<host.path[1], x>>
               ref == [path |-> p, live |-> host.live]
    <3>1. /\ host # Nothing /\ p \in Measured
          /\ attached' = IF host.live THEN attached \cup {p} ELSE attached
          /\ local' = [local EXCEPT ![w].leaf = ref]
      BY <2>2 DEF Descend
    <3>2. host \in LevelRefs /\ p \in Paths
      BY <1>0, <3>1, LocalTypes, NodeAssumption DEF Paths
    <3>3. PICK h \in Hosts : host.path = Root(h)
      BY <1>0, <3>1 DEF HostLevels
    <3>4. p[1] = h
      BY <3>3 DEF Root
    <3>5. host.live => Root(h) \in attached
      BY <1>0, <3>3 DEF Reachable
    <3>6. ref \in LevelRefs /\ ref.path = p /\ ref.live = host.live
      BY <3>2 DEF LevelRefs
    <3>7. local[w] = [host |-> host, leaf |-> local[w].leaf]
      BY <1>2 DEF Locals
    <3> HIDE DEF ref
    <3>8. local'[w] = [host |-> host, leaf |-> ref]
      BY <1>2, <3>1, <3>7
    <3>9. [host |-> host, leaf |-> ref] \in Locals
      BY <3>2, <3>6 DEF Locals
    <3>10. local' \in [Writers -> Locals] /\ \A y \in Writers \ {w} : local'[y] = local[y]
      BY <1>2, <3>1, <3>8, <3>9
    <3>11. ASSUME NEW q \in attached' PROVE Root(q[1]) \in attached'
      <4>1. CASE q \in attached
        BY <1>0, <3>1, <4>1 DEF Reachable
      <4>2. CASE q \notin attached
        <5>1. q = p /\ host.live
          BY <3>1, <3>11, <4>2
        <5> QED BY <3>1, <3>4, <3>5, <5>1
      <4> QED BY <4>1, <4>2
    <3>12. local'[w].host = host /\ local'[w].leaf = ref
      BY <3>8
    <3>13. host.live => host.path \in attached' /\ p \in attached'
      BY <3>1, <3>3, <3>5
    <3>14. /\ attached \subseteq attached' /\ attached' \subseteq Paths
      BY <1>0, <3>1, <3>2 DEF TypeOK
    <3>15. \A l \in {local'[w].host, local'[w].leaf} : l.live => l.path \in attached'
      BY <3>6, <3>12, <3>13
    <3>16. local'[w].host # Nothing => \E g \in Hosts : local'[w].host.path = Root(g)
      BY <3>3, <3>12
    <3> QED BY <3>10, <3>11, <3>14, <3>15, <3>16 DEF Decoded
  <2>3. CASE Return(w)
    <3>1. local' = [local EXCEPT ![w] = Empty] /\ attached' = attached
      BY <2>3 DEF Return
    <3>2. Empty \in Locals /\ Empty.host = Nothing /\ Empty.leaf = Nothing /\ ~Nothing.live
      BY DEF Empty, Locals, Nothing
    <3>3. local'[w] = Empty
      BY <1>2, <3>1
    <3> QED BY <1>0, <1>2, <3>1, <3>2, <3>3 DEF TypeOK, Reachable, Decoded
  <2> QED BY <2>1, <2>2, <2>3
<1>4. TypeOK'
  BY <1>0, <1>1, <1>3 DEF TypeOK, Decoded
<1>5. Reachable'
  <2>1. \A p \in Paths : chain'[p] # <<>> => p \in attached'
    BY <1>0, <1>1, <1>3 DEF Reachable, Decoded
  <2>2. ASSUME NEW x \in Writers, NEW l \in {local'[x].host, local'[x].leaf}, l.live
        PROVE  l.path \in attached'
    <3>1. CASE x = w
      BY <1>3, <2>2, <3>1 DEF Decoded
    <3>2. CASE x # w
      <4>1. l \in {local[x].host, local[x].leaf}
        BY <1>3, <2>2, <3>2 DEF Decoded
      <4>2. l.path \in attached
        BY <1>0, <2>2, <4>1 DEF Reachable
      <4> QED BY <1>3, <4>2 DEF Decoded
    <3> QED BY <3>1, <3>2
  <2> QED BY <1>3, <2>1, <2>2 DEF Reachable, Decoded
<1>6. HostLevels'
  BY <1>0, <1>3 DEF HostLevels, Decoded
<1>7. ChainsOK'
  BY <1>0, <1>1 DEF ChainsOK, Samples
<1>8. RetentionTodo' /\ (now >= Retention)'
  BY <1>0, <1>1 DEF RetentionTodo
<1> QED BY <1>4, <1>5, <1>6, <1>7, <1>8 DEF Inv
-----------------------------------------------------------------------------
(* Starting a worker's freeing keeps the invariant.                        *)
LEMMA SweepInv ==
  ASSUME Inv, NEW v \in Workers, NEW s \in Sweeps,
         sweep' = [sweep EXCEPT ![v] = s],
         UNCHANGED <<store, now, jobs>>,
         last' \in Times, excluded' \in BOOLEAN, stage' \in 0..(Len(Fractions) + 1),
         v = "retention" => /\ s.t <= now
                            /\ \A h \in s.todo : jobs[h] = NoJob \/ jobs[h] >= s.t
  PROVE  Inv'
<1>0. TypeOK /\ ChainsOK /\ Reachable /\ HostLevels /\ RetentionTodo /\ now >= Retention
  BY DEF Inv
<1>1. sweep \in [Workers -> Sweeps] /\ "retention" \in Workers
  BY <1>0 DEF TypeOK, Workers
<1>2. TypeOK'
  BY <1>0, <1>1 DEF TypeOK, store
<1>3. ChainsOK' /\ Reachable' /\ HostLevels'
  BY <1>0 DEF ChainsOK, Samples, Reachable, HostLevels, store
<1>4. RetentionTodo'
  <2>1. CASE v = "retention"
    <3>1. sweep'["retention"] = s
      BY <1>1, <2>1
    <3> QED BY <2>1, <3>1 DEF RetentionTodo
  <2>2. CASE v # "retention"
    <3>1. sweep'["retention"] = sweep["retention"]
      BY <1>1, <2>2
    <3> QED BY <1>0, <3>1 DEF RetentionTodo
  <2> QED BY <2>1, <2>2
<1> QED BY <1>0, <1>2, <1>3, <1>4 DEF Inv

LEMMA ClockTypes ==
  ASSUME Inv
  PROVE  /\ now \in Nat /\ now <= MaxTime /\ Retention \in Nat /\ now >= Retention
         /\ now - Retention \in Times
         /\ \A h \in Hosts : jobs[h] = NoJob \/ jobs[h] \in Nat
         /\ sweep["retention"].t \in Nat /\ MaxTime \in Nat
<1>1. now \in Nat /\ now <= MaxTime /\ Retention \in Nat /\ now >= Retention /\ MaxTime \in Nat
  BY NodeAssumption DEF Inv, TypeOK, Times
<1>2. now - Retention \in Times
  BY <1>1 DEF Times
<1>3. \A h \in Hosts : jobs[h] = NoJob \/ jobs[h] \in Nat
  BY <1>1 DEF Inv, TypeOK, Times
<1>4. sweep["retention"].t \in Nat
  <2>1. sweep["retention"] \in Sweeps
    BY DEF Inv, TypeOK, Workers
  <2> QED BY <1>1, <2>1 DEF Sweeps, Times
<1> QED BY <1>1, <1>2, <1>3, <1>4

LEMMA KnownHostsAreHosts == KnownHosts \subseteq Hosts
BY DEF KnownHosts

(* The workers' ticks.                                                     *)
LEMMA WorkerInv ==
  ASSUME Inv, RetentionTick \/ TrackerTick \/ TrackerFrees \/ TrackerEnds
  PROVE  Inv'
<1>0. TypeOK /\ RetentionTodo /\ ChainsOK /\ Reachable /\ HostLevels /\ now >= Retention
  BY DEF Inv
<1>1. CASE RetentionTick
  <2> DEFINE t == now - Retention
             s == IF Used(t) = {} THEN [todo |-> KnownHosts, t |-> t, all |-> TRUE]
                  ELSE [todo |-> GetSelectors(Used(t)), t |-> t, all |-> FALSE]
  <2>1. /\ sweep' = [sweep EXCEPT !["retention"] = s] /\ last' = t
        /\ excluded' = (Used(t) # {}) /\ UNCHANGED <<store, now, jobs, stage>>
    BY <1>1 DEF RetentionTick
  <2>2. t \in Times
    BY ClockTypes
  <2>3. s \in Sweeps /\ s.t = t
    BY <2>2, KnownHostsAreHosts DEF Sweeps, GetSelectors
  <2>4. \A h \in s.todo : h \in Hosts /\ h \notin Used(t)
    BY KnownHostsAreHosts DEF GetSelectors
  <2>5. t <= now /\ t \in Nat
    BY ClockTypes
  <2> HIDE DEF s
  <2>6. \A h \in s.todo : jobs[h] = NoJob \/ jobs[h] >= s.t
    <3>1. SUFFICES ASSUME NEW h \in s.todo, jobs[h] # NoJob PROVE jobs[h] >= t
      BY <2>3
    <3>2. h \in Hosts /\ ~(jobs[h] < t)
      BY <2>4, <3>1 DEF Used
    <3>3. jobs[h] \in Nat
      BY <3>1, <3>2, ClockTypes
    <3> QED BY <2>5, <3>2, <3>3
  <2>7. "retention" \in Workers /\ excluded' \in BOOLEAN /\ last' \in Times
        /\ stage' \in 0..(Len(Fractions) + 1) /\ s.t <= now
    BY <1>0, <2>1, <2>2, <2>3, <2>5 DEF Workers, TypeOK
  <2>8. UNCHANGED <<store, now, jobs>>
    BY <2>1
  <2> QED BY <2>1, <2>3, <2>6, <2>7, <2>8, SweepInv
<1>2. CASE TrackerTick
  <2> DEFINE s == IF last # 0 /\ excluded
                  THEN [todo |-> KnownHosts, t |-> last, all |-> TRUE]
                  ELSE sweep["tracker"]
  <2>1. "tracker" \in Workers /\ "tracker" # "retention" /\ sweep["tracker"] \in Sweeps
        /\ sweep \in [Workers -> Sweeps]
    BY <1>0 DEF Workers, TypeOK
  <2>2. s \in Sweeps
    BY <1>0, <2>1, KnownHostsAreHosts DEF Sweeps, TypeOK
  <2>3. sweep' = [sweep EXCEPT !["tracker"] = s]
    BY <1>2, <2>1 DEF TrackerTick
  <2>4. stage' \in 0..(Len(Fractions) + 1)
    <3>1. stage' = 1 /\ Len(Fractions) \in Nat
      BY <1>2, NodeAssumption DEF TrackerTick
    <3> QED BY <3>1
  <2>5. UNCHANGED <<store, now, jobs>> /\ last' \in Times /\ excluded' \in BOOLEAN
    BY <1>0, <1>2 DEF TrackerTick, TypeOK
  <2> HIDE DEF s
  <2> QED BY <2>1, <2>2, <2>3, <2>4, <2>5, SweepInv
<1>3. CASE TrackerFrees
  <2> DEFINE s == [todo |-> KnownHosts, t |-> now - Fractions[stage], all |-> TRUE]
  <2>1. "tracker" \in Workers /\ "tracker" # "retention" /\ stage \in 1..Len(Fractions)
        /\ stage' = stage + 1
    BY <1>3 DEF Workers, TrackerFrees
  <2>2. now - Fractions[stage] \in Times
    <3>1. Fractions[stage] \in 0..Retention
      BY <2>1, NodeAssumption
    <3>2. Fractions[stage] \in Nat /\ Fractions[stage] <= Retention
      BY <3>1, ClockTypes
    <3> HIDE DEF s
    <3> QED BY <3>2, ClockTypes DEF Times
  <2>3. s \in Sweeps
    BY <2>2, KnownHostsAreHosts DEF Sweeps
  <2>4. sweep' = [sweep EXCEPT !["tracker"] = s]
    BY <1>3 DEF TrackerFrees
  <2>5. stage' \in 0..(Len(Fractions) + 1)
    <3>1. Len(Fractions) \in Nat
      BY NodeAssumption
    <3> QED BY <2>1, <3>1
  <2>6. UNCHANGED <<store, now, jobs>> /\ last' \in Times /\ excluded' \in BOOLEAN
    BY <1>0, <1>3 DEF TrackerFrees, TypeOK
  <2> HIDE DEF s
  <2> QED BY <2>1, <2>3, <2>4, <2>5, <2>6, SweepInv
<1>4. CASE TrackerEnds
  <2>1. UNCHANGED <<store, now, jobs, sweep, last, excluded>> /\ stage' = 0
    BY <1>4 DEF TrackerEnds
  <2>2. stage' \in 0..(Len(Fractions) + 1)
    <3>1. Len(Fractions) \in Nat
      BY NodeAssumption
    <3> QED BY <2>1, <3>1
  <2>3. TypeOK'
    BY <1>0, <2>1, <2>2 DEF TypeOK, store
  <2> QED BY <1>0, <2>1, <2>3 DEF Inv, ChainsOK, Samples, Reachable, HostLevels, RetentionTodo, store
<1> QED BY <1>1, <1>2, <1>3, <1>4

(* Jobs and the clock.                                                     *)
LEMMA OutsideInv ==
  ASSUME Inv, (\E h \in Hosts : JobStart(h) \/ JobStop(h)) \/ Tick
  PROVE  Inv'
<1>0. TypeOK /\ RetentionTodo /\ ChainsOK /\ Reachable /\ HostLevels /\ now >= Retention
  BY DEF Inv
<1>1. UNCHANGED <<store, sweep, last, excluded, stage>>
  BY DEF JobStart, JobStop, Tick
<1>2. /\ now' \in Times /\ now' >= now
      /\ jobs' \in [Hosts -> Times \cup {NoJob}]
      /\ \A h \in Hosts : jobs'[h] \in {jobs[h], NoJob, now}
  <2>1. now \in Times /\ now \in Nat /\ MaxTime \in Nat /\ jobs \in [Hosts -> Times \cup {NoJob}]
    BY <1>0, ClockTypes DEF TypeOK
  <2>2. CASE Tick
    BY <2>1, <2>2 DEF Tick, Times
  <2>3. CASE \E h \in Hosts : JobStart(h)
    BY <2>1, <2>3 DEF JobStart
  <2>4. CASE \E h \in Hosts : JobStop(h)
    BY <2>1, <2>4 DEF JobStop
  <2> QED BY <2>2, <2>3, <2>4
<1>3. TypeOK'
  BY <1>0, <1>1, <1>2 DEF TypeOK, store
<1>4. ChainsOK' /\ Reachable' /\ HostLevels'
  BY <1>0, <1>1 DEF ChainsOK, Samples, Reachable, HostLevels, store
<1>5. RetentionTodo' /\ (now >= Retention)'
  <2>1. sweep["retention"].todo \subseteq Hosts /\ sweep["retention"].t \in Nat
    BY <1>0, ClockTypes DEF TypeOK, Sweeps, Workers
  <2>2. now \in Nat /\ now' \in Nat /\ Retention \in Nat
    BY <1>2, ClockTypes DEF Times
  <2>3. sweep["retention"].t <= now
    BY <1>0 DEF RetentionTodo
  <2>4. ASSUME NEW h \in sweep["retention"].todo
        PROVE  jobs'[h] = NoJob \/ jobs'[h] >= sweep["retention"].t
    <3>1. jobs'[h] \in {jobs[h], NoJob, now}
      BY <1>2, <2>1
    <3>2. jobs[h] = NoJob \/ jobs[h] >= sweep["retention"].t
      BY <1>0 DEF RetentionTodo
    <3> QED BY <2>2, <2>3, <3>1, <3>2
  <2>5. sweep' = sweep
    BY <1>1
  <2>6. sweep["retention"].t <= now' /\ now' >= Retention
    BY <1>0, <1>2, <2>1, <2>2, <2>3
  <2> QED BY <2>4, <2>5, <2>6 DEF RetentionTodo
<1> QED BY <1>3, <1>4, <1>5 DEF Inv

LEMMA NextInv ==
  ASSUME Inv, [Next]_vars
  PROVE  Inv'
<1>1. CASE \E w \in Writers : \/ \E h \in Hosts : Lookup(w, h)
                              \/ \E x \in Parts \cup {Node} : Descend(w, x)
                              \/ Return(w)
  BY <1>1, DecodeInv
<1>2. CASE \E w \in Writers : \E s \in Times : Put(w, s)
  BY <1>2, PutInv
<1>3. CASE \E v \in Workers, h \in Hosts : FreeHost(v, h)
  BY <1>3, FreeHostInv
<1>4. CASE RetentionTick \/ TrackerTick \/ TrackerFrees \/ TrackerEnds
  BY <1>4, WorkerInv
<1>5. CASE (\E h \in Hosts : JobStart(h) \/ JobStop(h)) \/ Tick
  BY <1>5, OutsideInv
<1>6. CASE UNCHANGED vars
  BY <1>6 DEF Inv, TypeOK, ChainsOK, Samples, Reachable, HostLevels, RetentionTodo, vars, store
<1> QED BY <1>1, <1>2, <1>3, <1>4, <1>5, <1>6 DEF Next

LEMMA InvHolds == Spec => []Inv
BY InitInv, NextInv, PTL DEF Spec

(* Every variable keeps its type in every state.                           *)
THEOREM NodeStoreTypeCorrect == Spec => []TypeOK
<1>1. Inv => TypeOK
  BY DEF Inv
<1> QED BY <1>1, InvHolds, PTL

(* No chain of buffers and no writer's level hangs outside the tree        *)
(* unnoticed, whatever writers and the two freeing workers do at a time.   *)
THEOREM NodeStoreReachable == Spec => []Reachable
<1>1. Inv => Reachable
  BY DEF Inv
<1> QED BY <1>1, InvHolds, PTL

(* Reading any chain over any range returns samples of that range, each in *)
(* its place, and all of them when they lie on the grid of the read (read):*)
(* across full buffers, gaps, cut chains and buffers without room.         *)
THEOREM NodeStoreReadsTheSamples == Spec => []ReadsTheSamples
<1>1. Inv => ReadsTheSamples
  <2>1. Times \in SUBSET Int
    BY NodeAssumption DEF Times
  <2> QED BY <2>1, ReadRightly DEF Inv, ChainsOK, ReadsTheSamples
<1> QED BY <1>1, InvHolds, PTL
-----------------------------------------------------------------------------
LEMMA HeldTypes ==
  ASSUME Inv
  PROVE  [p \in Paths |-> Samples(p)] \in [Paths -> SUBSET Times]
BY DEF Inv, ChainsOK

(* A write maps to Put, or to a stutter under a detached level.            *)
LEMMA PutMaps ==
  ASSUME Inv, NEW w \in Writers, NEW s \in Times, Put(w, s)
  PROVE  [Store!Next]_([p \in Paths |-> Samples(p)])
<1> DEFINE leaf == local[w].leaf
           p == leaf.path
           held == [q \in Paths |-> Samples(q)]
<1>1. /\ leaf # Nothing /\ ~(leaf.live /\ Refused(chain[p], s))
      /\ chain' = IF leaf.live THEN [chain EXCEPT ![p] = Written(@, s)] ELSE chain
  BY DEF Put
<1>2. leaf \in LevelRefs /\ p \in Paths /\ s \in Nat /\ chain \in [Paths -> Seq(Buffers)]
  <2>1. leaf \in LevelRefs
    BY <1>1, LocalTypes DEF Inv
  <2>2. p \in Paths
    BY <2>1 DEF LevelRefs
  <2>3. s \in Nat
    BY NodeAssumption DEF Times
  <2> QED BY <2>1, <2>2, <2>3 DEF Inv, TypeOK
<1>3. CASE ~leaf.live
  BY <1>1, <1>3 DEF Samples
<1>4. CASE leaf.live
  <2> DEFINE w1 == Written(chain[p], s)
             replaced == Held(chain[p]) \ Held(w1)
  <2>1. ChainOK(chain[p]) /\ Held(chain[p]) \subseteq Times
    BY <1>2 DEF Inv, ChainsOK, Samples
  <2>2. /\ s \in Held(w1) /\ Held(w1) \subseteq Held(chain[p]) \cup {s}
        /\ \A q \in replaced : q - s < Freq /\ s - q < Freq
    BY <1>1, <1>2, <1>4, <2>1, WrittenOK
  <2>3. chain'[p] = w1 /\ \A q \in Paths : q # p => chain'[q] = chain[q]
    BY <1>1, <1>2, <1>4
  <2> HIDE DEF w1
  <2>4. Held(w1) = (Held(chain[p]) \ replaced) \cup {s}
    BY <2>2
  <2>5. held \in [Paths -> SUBSET Times] /\ held[p] = Held(chain[p])
    BY <1>2, HeldTypes DEF Samples
  <2>6. held' = [held EXCEPT ![p] = (held[p] \ replaced) \cup {s}]
    <3>1. held' = [q \in Paths |-> Held(chain'[q])]
      BY DEF Samples
    <3>2. \A q \in Paths : held[q] = Held(chain[q])
      BY DEF Samples
    <3>3. \A q \in Paths :
            Held(chain'[q]) = IF q = p THEN (held[p] \ replaced) \cup {s} ELSE held[q]
      BY <2>3, <2>4, <3>2
    <3> HIDE DEF held, replaced
    <3> QED BY <2>5, <3>1, <3>3
  <2>7. replaced \in SUBSET {q \in held[p] : q - s < Freq /\ s - q < Freq}
    BY <2>2, <2>5
  <2> HIDE DEF replaced
  <2>8. Store!Put(p, s)
    BY <2>6, <2>7 DEF Store!Put
  <2> QED BY <1>2, <2>8 DEF Store!Next
<1> QED BY <1>3, <1>4

(* Freeing a host maps to one expiry of all its places.                    *)
LEMMA FreeHostMaps ==
  ASSUME Inv, NEW v \in Workers, NEW h \in Hosts, FreeHost(v, h)
  PROVE  [Store!Next]_([p \in Paths |-> Samples(p)])
<1> DEFINE t == sweep[v].t
           mine == {p \in Paths : p[1] = h}
           held == [q \in Paths |-> Samples(q)]
<1>1. /\ t \in Times /\ \A p \in mine : chain'[p] = Freed(chain[p], t)
      /\ \A p \in Paths \ mine : chain'[p] = chain[p]
  BY FreeHostMeans
<1>2. t \in Int
  BY <1>1, NodeAssumption DEF Times
<1>3. held' = [q \in Paths |-> Held(chain'[q])] /\ held = [q \in Paths |-> Held(chain[q])]
  BY DEF Samples
<1>4. held' \in [Paths -> SUBSET Times]
  <2>1. Inv'
    BY FreeHostInv
  <2>2. \A q \in Paths : Held(chain'[q]) \subseteq Times
    BY <2>1 DEF Inv, ChainsOK, Samples
  <2> HIDE DEF held
  <2> QED BY <1>3, <2>2
<1>5. ASSUME NEW p \in Paths
      PROVE  /\ held'[p] \subseteq held[p]
             /\ p \notin mine => held'[p] = held[p]
             /\ p \in mine => /\ {s \in held[p] : s >= t} \subseteq held'[p]
                              /\ \A s \in held'[p] : s + (Cap + 1) * Freq > t
  <2>1. held[p] = Held(chain[p]) /\ held'[p] = Held(chain'[p])
    BY <1>3
  <2>2. ChainOK(chain[p]) /\ Held(chain[p]) \subseteq Times
    BY DEF Inv, ChainsOK, Samples
  <2> HIDE DEF held
  <2>3. CASE p \notin mine
    BY <1>1, <2>1, <2>3
  <2>4. CASE p \in mine
    <3>1. chain'[p] = Freed(chain[p], t)
      BY <1>1, <2>4
    <3>2. /\ Held(chain'[p]) \subseteq Held(chain[p])
          /\ \A s \in Held(chain[p]) \ Held(chain'[p]) : s < t
          /\ \A s \in Held(chain'[p]) : s + (Cap + 1) * Freq > t
      BY <1>2, <2>2, <3>1, FreedOK
    <3>3. \A s \in Held(chain[p]) : s \in Int
      BY <2>2, NodeAssumption DEF Times
    <3>4. {s \in held[p] : s >= t} \subseteq held'[p]
      BY <1>2, <2>1, <3>2, <3>3
    <3> QED BY <2>1, <2>4, <3>2, <3>4
  <2> QED BY <2>3, <2>4
<1> HIDE DEF held
<1>6. Store!Expire(mine, t)
  BY <1>4, <1>5 DEF Store!Expire, held
<1>7. mine \in {{p \in Paths : p[1] = g} : g \in Hosts}
  OBVIOUS
<1> QED BY <1>1, <1>6, <1>7 DEF Store!Next

LEMMA StepMaps ==
  ASSUME Inv, [Next]_vars
  PROVE  [Store!Next]_([p \in Paths |-> Samples(p)])
<1>1. CASE \E w \in Writers : \E s \in Times : Put(w, s)
  BY <1>1, PutMaps
<1>2. CASE \E v \in Workers, h \in Hosts : FreeHost(v, h)
  BY <1>2, FreeHostMaps
<1>3. CASE UNCHANGED chain
  BY <1>3 DEF Samples
<1>4. ASSUME \/ \E w \in Writers : \/ \E h \in Hosts : Lookup(w, h)
                                   \/ \E x \in Parts \cup {Node} : Descend(w, x)
                                   \/ Return(w)
             \/ RetentionTick \/ TrackerTick \/ TrackerFrees \/ TrackerEnds
             \/ \E h \in Hosts : JobStart(h) \/ JobStop(h)
             \/ Tick
             \/ UNCHANGED vars
      PROVE  UNCHANGED chain
  BY <1>4 DEF Lookup, Descend, Return, RetentionTick, TrackerTick, TrackerFrees,
              TrackerEnds, JobStart, JobStop, Tick, vars, store
<1> QED BY <1>1, <1>2, <1>3, <1>4 DEF Next

(* Buffers, levels, locks and the two freeing workers implement the        *)
(* abstract store of samples: what is lost has expired, what has expired   *)
(* by a buffer and a slot is gone.                                         *)
THEOREM NodeStoreImplementsSampleStore == Spec => ImplementsSampleStore
<1>1. Init => Store!Init
  BY InitInv, HeldTypes DEF Store!Init
<1>2. Inv /\ [Next]_vars => [Store!Next]_([p \in Paths |-> Samples(p)])
  BY StepMaps
<1> QED BY <1>1, <1>2, InvHolds, PTL DEF Spec, ImplementsSampleStore, Store!Spec
-----------------------------------------------------------------------------
(* The retention worker's freeing loses no sample a running job needs, for *)
(* jobs that start and stop while it goes through the nodes.               *)
THEOREM NodeStoreRetentionSparesJobs == Spec => RetentionSparesJobs
<1>1. ASSUME Inv, [Next]_vars, NEW h \in Hosts, FreeHost("retention", h)
      PROVE  JobData(h) \subseteq JobData(h)'
  <2> DEFINE t == sweep["retention"].t
             mine == {p \in Paths : p[1] = h}
  <2>0. "retention" \in Workers
    BY DEF Workers
  <2>1. /\ t \in Times /\ h \in sweep["retention"].todo
        /\ \A p \in mine : chain'[p] = Freed(chain[p], t)
    BY <1>1, <2>0, FreeHostMeans
  <2>2. jobs' = jobs
    BY <1>1 DEF FreeHost
  <2>3. jobs[h] = NoJob \/ jobs[h] >= t
    BY <1>1, <2>1 DEF Inv, RetentionTodo
  <2>4. t \in Nat /\ (jobs[h] = NoJob \/ jobs[h] \in Nat)
    BY <1>1, ClockTypes
  <2>5. ASSUME NEW s \in JobData(h) PROVE s \in JobData(h)'
    <3>1. PICK q \in mine : s \in Samples(q)
      BY DEF JobData
    <3>2. jobs[h] # NoJob /\ jobs[h] <= s
      BY DEF JobData
    <3>3. ChainOK(chain[q]) /\ Held(chain[q]) \subseteq Times
      BY <1>1 DEF Inv, ChainsOK, Samples
    <3>4. s \in Held(chain[q]) /\ s \in Nat
      BY <3>1, <3>3, NodeAssumption DEF Samples, Times
    <3>5. \A x \in Held(chain[q]) \ Held(Freed(chain[q], t)) : x < t
      BY <2>4, <3>3, FreedOK
    <3>6. s >= t
      BY <2>3, <2>4, <3>2, <3>4
    <3>7. s \in Held(Freed(chain[q], t))
      BY <2>4, <3>4, <3>5, <3>6
    <3>8. s \in Samples(q)'
      BY <2>1, <3>1, <3>7 DEF Samples
    <3> QED BY <2>2, <3>1, <3>2, <3>8 DEF JobData
  <2> QED BY <2>5
<1>2. Inv /\ [Next]_vars =>
        [\A h \in Hosts : FreeHost("retention", h) => JobData(h) \subseteq JobData(h)']_vars
  BY <1>1
<1> QED BY <1>2, InvHolds, PTL DEF Spec, RetentionSparesJobs
=============================================================================
