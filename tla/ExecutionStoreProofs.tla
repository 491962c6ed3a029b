------------------------ MODULE ExecutionStoreProofs ------------------------
(***************************************************************************)
(* What holds of the controller with its database for every number of      *)
(* executions, pools, nodes, environments, handlers and restarts: it       *)
(* implements ExecutionLife, and saves what it goes by.                    *)
(*                                                                         *)
(* A restart may leave an execution on a pool that is gone, so the         *)
(* invariant of ControllerProofs does not hold here.  The refinement asks  *)
(* for less: WellFormed speaks of executions only, and each handler has a  *)
(* lemma that says what it does to those.  What is saved asks for types    *)
(* (TypesHold), and for what handlers that save nothing leave alone        *)
(* (SameFiles).                                                            *)
(***************************************************************************)
EXTENDS ExecutionStore, ControllerProofs

-----------------------------------------------------------------------------
(* The invariant. *)

\* c has the parts of a cluster, and its executions and counter are what they should be.
WellFormed(c) ==
  /\ DOMAIN c = {"images", "pools", "envs", "nodes", "execs", "rr"}
  /\ c.execs \in [Exec -> ExecRec \cup {None}]
  /\ c.rr \in Nat

\* Rows have the type they should, their sizes are exact, and none that is finished
\* keeps secrets.
Exact(rs) ==
  /\ rs \in [Exec -> Row \cup {None}]
  /\ \A e \in Exec : rs[e] # None =>
       /\ rs[e].size = Columns(rs[e])
       /\ rs[e].status = "finished" => ~ rs[e].secrets

\* What is in memory has an active row.
ActiveIsStored(c, rs) == \A e \in Exec : c.execs[e] # None => IsActive(rs, e)

\* Slot s has still to write the end of e.
EndOf(q, s, e) == q[s] # None /\ q[s].ends = e

\* An execution whose end is to be written has left memory, its row is still active,
\* and no other handler writes its end.
EndsAwaited(c, rs, q) ==
  \A s \in Slot, e \in Exec : EndOf(q, s, e) =>
    /\ c.execs[e] = None
    /\ IsActive(rs, e)
    /\ \A t \in Slot : EndOf(q, t, e) => t = s

SInv ==
  /\ WellFormed(cluster) /\ WellFormed(saved)
  /\ Exact(rows)
  /\ pending \in [Slot -> Tail \cup {None}]
  /\ ActiveIsStored(cluster, rows)
  /\ EndsAwaited(cluster, rows, pending)

-----------------------------------------------------------------------------
(* What handlers do to executions. *)

\* Both clusters have the same executions, and the same of them at work.
Alike(c, d) ==
  \A e \in Exec :
    /\ d.execs[e] = None <=> c.execs[e] = None
    /\ c.execs[e] # None => (d.execs[e].status = "running" <=> c.execs[e].status = "running")

LEMMA NoneApart ==
  /\ None \notin Nat /\ None \notin Exec /\ None \notin Node
  /\ \A x \in ExecRec : x # None
  /\ \A x \in Row : x # None
  /\ \A x \in Tail : x # None
<1>1. Exec \subseteq Nat /\ Node \subseteq Nat
  BY SchedulerAssumption DEF Exec, Node
<1> QED BY <1>1, NoneAssumption, StoreAssumption

LEMMA AlikeTransitive ==
  ASSUME NEW b, NEW c, NEW d, Alike(b, c), Alike(c, d)
  PROVE  Alike(b, d)
BY DEF Alike

LEMMA AlikeSame ==
  ASSUME NEW c, NEW d, d.execs = c.execs
  PROVE  Alike(c, d)
BY DEF Alike

\* Whatever else is replaced in a cluster, its executions stay as they are.
LEMMA PartsReplaced ==
  ASSUME NEW c, WellFormed(c)
  PROVE  /\ \A x : WellFormed([c EXCEPT !.images = x]) /\ [c EXCEPT !.images = x].execs = c.execs
         /\ \A x : WellFormed([c EXCEPT !.pools = x]) /\ [c EXCEPT !.pools = x].execs = c.execs
         /\ \A x : WellFormed([c EXCEPT !.envs = x]) /\ [c EXCEPT !.envs = x].execs = c.execs
         /\ \A x : WellFormed([c EXCEPT !.nodes = x]) /\ [c EXCEPT !.nodes = x].execs = c.execs
         /\ \A x \in [Exec -> ExecRec \cup {None}] :
              WellFormed([c EXCEPT !.execs = x]) /\ [c EXCEPT !.execs = x].execs = x
BY DEF WellFormed

\* Placing a queued execution.
LEMMA PlaceKeeps ==
  ASSUME NEW c, WellFormed(c), NEW e \in Exec, NEW n \in Node, IsQueued(c, e)
  PROVE  /\ WellFormed(Place(c, e, n)) /\ Alike(c, Place(c, e, n))
         /\ \A f \in Exec \ {e} : Place(c, e, n).execs[f] = c.execs[f]
<1> DEFINE exec == [c.execs[e] EXCEPT !.node = n, !.status = "assigned"]
           d == Place(c, e, n)
<1>1. c.execs[e] \in ExecRec
  BY DEF WellFormed, IsQueued
<1>2. exec \in ExecRec /\ exec.status = "assigned"
  BY <1>1 DEF ExecRec
<1>3. /\ DOMAIN d = DOMAIN c
      /\ d.rr = (c.rr + 1) % RRModulus
      /\ d.execs = [c.execs EXCEPT ![e] = exec]
  BY DEF Place, WellFormed
<1>4. d.rr \in Nat
  BY <1>3, SchedulerAssumption DEF WellFormed
<1> HIDE DEF exec, d
<1>5. \A f \in Exec : d.execs[f] = IF f = e THEN exec ELSE c.execs[f]
  BY <1>3 DEF WellFormed
<1>6. WellFormed(d)
  BY <1>2, <1>3, <1>4 DEF WellFormed
<1>7. Alike(c, d)
  BY <1>1, <1>2, <1>5, NoneApart DEF Alike, IsQueued
<1> QED BY <1>5, <1>6, <1>7 DEF d

LEMMA ScheduleKeeps ==
  ASSUME NEW c, WellFormed(c), NEW e \in Exec, IsQueued(c, e)
  PROVE  /\ WellFormed(Schedule(c, e)) /\ Alike(c, Schedule(c, e))
         /\ \A f \in Exec \ {e} : Schedule(c, e).execs[f] = c.execs[f]
<1>1. CASE c.execs[e] # None /\ Schedulable(c, c.execs[e].pool)
  <2> DEFINE nodes == Preferred(c, c.execs[e].pool)
             n == Nth(nodes, c.rr % Cardinality(nodes))
  <2>1. n \in nodes
    BY <1>1, PickLemma DEF Schedulable, WellFormed
  <2>2. n \in Node
    BY <2>1, CandidatesAreNodes
  <2>3. Schedule(c, e) = Place(c, e, n)
    BY <1>1 DEF Schedule
  <2> HIDE DEF n
  <2> QED BY <2>2, <2>3, PlaceKeeps
<1>2. CASE ~ (c.execs[e] # None /\ Schedulable(c, c.execs[e].pool))
  <2>1. Schedule(c, e) = c
    BY <1>2 DEF Schedule
  <2> QED BY <2>1 DEF Alike
<1> QED BY <1>1, <1>2

\* schedule_queued.
LEMMA SweepKeeps ==
  ASSUME NEW c, WellFormed(c)
  PROVE  WellFormed(ScheduleQueued(c)) /\ Alike(c, ScheduleQueued(c))
<1> DEFINE s == Sweep(c)
           Bad == {k \in 0..MaxExec : ~ (WellFormed(s[k]) /\ Alike(c, s[k]))}
<1>1. Bad = {}
  <2> SUFFICES ASSUME Bad # {} PROVE FALSE
    OBVIOUS
  <2>1. PICK m \in Bad : \A k \in Bad : m <= k
    <3>1. Bad \subseteq Nat
      BY SchedulerAssumption
    <3> HIDE DEF Bad
    <3> QED BY <3>1, LeastElement
  <2>2. m # 0
    BY <2>1, SweepDef, AlikeSame
  <2>3. m \in Exec /\ m - 1 \in 0..MaxExec /\ m - 1 \notin Bad
    BY <2>1, <2>2, SchedulerAssumption DEF Exec
  <2>4. WellFormed(s[m-1]) /\ Alike(c, s[m-1])
    BY <2>3
  <2>5. s[m] = TurnOf(s[m-1], m)
    BY <2>3, SweepDef
  <2> HIDE DEF s
  <2>6. WellFormed(s[m]) /\ Alike(s[m-1], s[m])
    BY <2>3, <2>4, <2>5, ScheduleKeeps, AlikeSame DEF TurnOf
  <2>7. Alike(c, s[m])
    BY <2>4, <2>6, AlikeTransitive
  <2> QED BY <2>1, <2>6, <2>7
<1>2. MaxExec \in 0..MaxExec
  BY SchedulerAssumption
<1> QED BY <1>1, <1>2 DEF ScheduleQueued

\* d has the executions of c, whatever else is different.
SameExecs(c, d) == DOMAIN d = DOMAIN c /\ d.execs = c.execs /\ d.rr = c.rr

LEMMA SameExecsAlike ==
  ASSUME NEW c, WellFormed(c), NEW d, SameExecs(c, d)
  PROVE  WellFormed(d) /\ Alike(c, d)
BY DEF SameExecs, WellFormed, Alike

LEMMA SameExecsTransitive ==
  ASSUME NEW b, NEW c, NEW d, SameExecs(b, c), SameExecs(c, d)
  PROVE  SameExecs(b, d)
BY DEF SameExecs

\* What handlers do before they call schedule_queued.
LEMMA SweptSameExecs ==
  ASSUME NEW c, WellFormed(c), NEW d, SameExecs(c, d)
  PROVE  WellFormed(ScheduleQueued(d)) /\ Alike(c, ScheduleQueued(d))
BY SameExecsAlike, SweepKeeps, AlikeTransitive

\* Operators that change nodes and pools only.
LEMMA OperatorsKeepExecs ==
  ASSUME NEW c, WellFormed(c), NEW n, NEW p
  PROVE  /\ SameExecs(c, Refresh(c, n))
         /\ SameExecs(c, ResetIdle(c, n))
         /\ SameExecs(c, AddWarm(c, n, p))
         /\ SameExecs(c, RemoveIdle(c, n, p))
         /\ SameExecs(c, DropPool(c, p))
         /\ SameExecs(c, RetirePool(c, p))
         /\ \A e, k : SameExecs(c, Release(c, e, k))
<1>1. SameExecs(c, Refresh(c, n))
  BY DEF SameExecs, WellFormed, Refresh
<1>2. SameExecs(c, ResetIdle(c, n))
  BY DEF SameExecs, WellFormed, ResetIdle
<1>3. SameExecs(c, AddWarm(c, n, p))
  BY DEF SameExecs, WellFormed, AddWarm
<1>4. SameExecs(c, RemoveIdle(c, n, p))
  BY DEF SameExecs, WellFormed, RemoveIdle
<1>5. SameExecs(c, DropPool(c, p))
  BY DEF SameExecs, WellFormed, DropPool
<1>6. SameExecs(c, RetirePool(c, p))
  BY <1>5 DEF SameExecs, WellFormed, RetirePool
<1>7. ASSUME NEW e, NEW k PROVE SameExecs(c, Release(c, e, k))
  BY DEF SameExecs, WellFormed, Release
<1> QED BY <1>1, <1>2, <1>3, <1>4, <1>5, <1>6, <1>7

\* The executions that wait on a pool move to another one.
LEMMA RequeueKeeps ==
  ASSUME NEW c, WellFormed(c), NEW old, NEW new \in Pool
  PROVE  WellFormed(Requeue(c, old, new)) /\ Alike(c, Requeue(c, old, new))
<1> DEFINE moved == Movable(c, old)
           execs == [e \in Exec |->
             IF e \in moved
             THEN [c.execs[e] EXCEPT !.pool = new, !.node = None, !.status = "queued"]
             ELSE c.execs[e]]
           d == Requeue(c, old, new)
<1>1. ASSUME NEW e \in moved
      PROVE  /\ e \in Exec /\ c.execs[e] \in ExecRec
             /\ execs[e] \in ExecRec /\ execs[e].status = "queued"
             /\ c.execs[e].status # "running"
  <2>1. e \in Exec /\ c.execs[e] \in ExecRec /\ c.execs[e].status # "running"
    BY <1>1 DEF Movable, WellFormed
  <2>2. [c.execs[e] EXCEPT !.pool = new, !.node = None, !.status = "queued"] \in ExecRec
    BY <2>1 DEF ExecRec
  <2>3. [c.execs[e] EXCEPT !.pool = new, !.node = None, !.status = "queued"].status = "queued"
    BY <2>1 DEF ExecRec
  <2>4. execs[e] = [c.execs[e] EXCEPT !.pool = new, !.node = None, !.status = "queued"]
    BY <1>1, <2>1
  <2> HIDE DEF execs
  <2> QED BY <2>1, <2>2, <2>3, <2>4
<1>2. ASSUME NEW e \in Exec, e \notin moved PROVE execs[e] = c.execs[e]
  BY <1>2
<1>3. DOMAIN d = DOMAIN c /\ d.execs = execs /\ d.rr = c.rr
  BY DEF Requeue, WellFormed
<1>4. DOMAIN execs = Exec /\ execs = [e \in Exec |-> execs[e]]
  OBVIOUS
<1> HIDE DEF moved, execs, d
<1>5. execs \in [Exec -> ExecRec \cup {None}]
  <2>1. \A e \in Exec : execs[e] \in ExecRec \cup {None}
    BY <1>1, <1>2 DEF WellFormed
  <2> QED BY <1>4, <2>1
<1>6. WellFormed(d)
  BY <1>3, <1>5 DEF WellFormed
<1>7. Alike(c, d)
  <2>1. ASSUME NEW e \in Exec, e \in moved
        PROVE  /\ d.execs[e] # None /\ c.execs[e] # None
               /\ d.execs[e].status # "running" /\ c.execs[e].status # "running"
    BY <1>1, <1>3, <2>1, NoneApart
  <2>2. ASSUME NEW e \in Exec, e \notin moved PROVE d.execs[e] = c.execs[e]
    BY <1>2, <1>3, <2>2
  <2> QED BY <2>1, <2>2 DEF Alike
<1> QED BY <1>6, <1>7 DEF d

LEMMA RestartPoolKeeps ==
  ASSUME NEW c, WellFormed(c), NEW i, NEW old, NEW new \in Pool, NEW cfg
  PROVE  /\ WellFormed(ScheduleQueued(RestartPool(c, i, old, new, cfg)))
         /\ Alike(c, ScheduleQueued(RestartPool(c, i, old, new, cfg)))
<1> DEFINE r == Requeue(c, old, new)
           d == RestartPool(c, i, old, new, cfg)
<1>1. WellFormed(r) /\ Alike(c, r)
  BY RequeueKeeps
<1>2. SameExecs(r, RetirePool(r, old))
  BY <1>1, OperatorsKeepExecs
<1>3. SameExecs(RetirePool(r, old), d)
  <2>1. WellFormed(RetirePool(r, old))
    BY <1>1, <1>2, SameExecsAlike
  <2> QED BY <2>1 DEF RestartPool, SameExecs, WellFormed
<1>4. SameExecs(r, d)
  BY <1>2, <1>3, SameExecsTransitive
<1> HIDE DEF r, d
<1>5. WellFormed(ScheduleQueued(d)) /\ Alike(r, ScheduleQueued(d))
  BY <1>1, <1>4, SweptSameExecs
<1> QED BY <1>1, <1>5, AlikeTransitive DEF d

-----------------------------------------------------------------------------
(* The handlers. *)

\* A step keeps the executions in memory, and which of them are at work.
StepKeeps == WellFormed(cluster') /\ Alike(cluster, cluster')

LEMMA NewIdInSet ==
  ASSUME NEW S \in SUBSET Nat, S # {}
  PROVE  NewId(S) \in S
BY LeastElement DEF NewId

LEMMA NodeHandlersKeep ==
  ASSUME WellFormed(cluster)
  PROVE  \A n \in Node :
           /\ Heartbeat(n) \/ StartAgent(n) \/ DeleteNode(n) => StepKeeps
           /\ \A p \in Pool : AddWarmInstance(n, p) \/ RemoveIdleInstance(n, p) => StepKeeps
           /\ \A i \in Image : ImageArrived(n, i) => StepKeeps
           /\ \A a \in Artifact : ArtifactArrived(n, a) => StepKeeps
<1>1. ASSUME NEW n \in Node, Heartbeat(n) PROVE StepKeeps
  BY <1>1, OperatorsKeepExecs, SweptSameExecs DEF Heartbeat, StepKeeps
<1>2. ASSUME NEW n \in Node, StartAgent(n) PROVE StepKeeps
  <2> DEFINE known == IF cluster.nodes[n] # None THEN cluster
                      ELSE [cluster EXCEPT !.nodes[n] = NewNode(n)]
             d == Refresh(ResetIdle(known, n), n)
  <2>1. SameExecs(cluster, known)
    BY DEF SameExecs, WellFormed
  <2>2. cluster' = ScheduleQueued(d)
    BY <1>2 DEF StartAgent
  <2> HIDE DEF known
  <2>3. SameExecs(known, ResetIdle(known, n))
    BY <2>1, SameExecsAlike, OperatorsKeepExecs
  <2>4. SameExecs(ResetIdle(known, n), d)
    BY <2>1, <2>3, SameExecsAlike, OperatorsKeepExecs
  <2> HIDE DEF d
  <2>5. SameExecs(cluster, d)
    BY <2>1, <2>3, <2>4, SameExecsTransitive
  <2> QED BY <2>2, <2>5, SweptSameExecs DEF StepKeeps
<1>3. ASSUME NEW n \in Node, DeleteNode(n) PROVE StepKeeps
  <2>1. SameExecs(cluster, [cluster EXCEPT !.nodes[n] = None])
    BY DEF SameExecs, WellFormed
  <2> QED BY <1>3, <2>1, SweptSameExecs DEF DeleteNode, StepKeeps
<1>4. ASSUME NEW n \in Node, NEW p, AddWarmInstance(n, p) PROVE StepKeeps
  BY <1>4, OperatorsKeepExecs, SweptSameExecs DEF AddWarmInstance, StepKeeps
<1>5. ASSUME NEW n \in Node, NEW p, RemoveIdleInstance(n, p) PROVE StepKeeps
  BY <1>5, OperatorsKeepExecs, SweptSameExecs DEF RemoveIdleInstance, StepKeeps
<1>6. ASSUME NEW n \in Node, NEW i, ImageArrived(n, i) PROVE StepKeeps
  <2> DEFINE b == [cluster EXCEPT !.nodes[n].images = @ \cup {i}]
  <2>1. SameExecs(cluster, b)
    BY DEF SameExecs, WellFormed
  <2>2. cluster' = ScheduleQueued(Refresh(b, n))
    BY <1>6 DEF ImageArrived
  <2> HIDE DEF b
  <2>3. SameExecs(cluster, Refresh(b, n))
    BY <2>1, SameExecsAlike, OperatorsKeepExecs, SameExecsTransitive
  <2> QED BY <2>2, <2>3, SweptSameExecs DEF StepKeeps
<1>7. ASSUME NEW n \in Node, NEW a, ArtifactArrived(n, a) PROVE StepKeeps
  <2>1. SameExecs(cluster, [cluster EXCEPT !.nodes[n].artifacts = @ \cup {a}])
    BY DEF SameExecs, WellFormed
  <2> QED BY <1>7, <2>1, SweptSameExecs DEF ArtifactArrived, StepKeeps
<1> QED BY <1>1, <1>2, <1>3, <1>4, <1>5, <1>6, <1>7

LEMMA UserHandlersKeep ==
  ASSUME WellFormed(cluster)
  PROVE  /\ \A i, kind : ImportImage(i, kind) \/ UpdateImage(i, kind) => StepKeeps
         /\ \A i : DeleteImage(i) => StepKeeps
         /\ \A p, cfg : CreatePool(p, cfg) => StepKeeps
         /\ \A p : DeletePool(p) => StepKeeps
         /\ \A r : CommitCreate(r) => StepKeeps
         /\ \A v : DeleteEnvironment(v) => StepKeeps
<1>1. ASSUME NEW i, NEW kind, ImportImage(i, kind) PROVE SameExecs(cluster, cluster')
  BY <1>1 DEF ImportImage, SameExecs, WellFormed
<1>2. ASSUME NEW i, NEW kind, UpdateImage(i, kind) PROVE SameExecs(cluster, cluster')
  BY <1>2 DEF UpdateImage, SameExecs, WellFormed
<1>3. ASSUME NEW i, DeleteImage(i) PROVE SameExecs(cluster, cluster')
  BY <1>3 DEF DeleteImage, SameExecs, WellFormed
<1>4. ASSUME NEW p, NEW cfg, CreatePool(p, cfg) PROVE SameExecs(cluster, cluster')
  BY <1>4 DEF CreatePool, SameExecs, WellFormed
<1>5. ASSUME NEW p, DeletePool(p) PROVE SameExecs(cluster, cluster')
  BY <1>5, OperatorsKeepExecs DEF DeletePool
<1>6. ASSUME NEW r, CommitCreate(r) PROVE SameExecs(cluster, cluster')
  BY <1>6 DEF CommitCreate, SameExecs, WellFormed
<1>7. ASSUME NEW v, DeleteEnvironment(v) PROVE SameExecs(cluster, cluster')
  <2> DEFINE d == DropPool(cluster, cluster.envs[v].pool)
  <2>1. SameExecs(cluster, d)
    BY OperatorsKeepExecs
  <2>2. DOMAIN cluster' = DOMAIN d /\ cluster'.execs = d.execs /\ cluster'.rr = d.rr
    <3>1. WellFormed(d)
      BY <2>1, SameExecsAlike
    <3> HIDE DEF d
    <3> QED BY <1>7, <3>1 DEF DeleteEnvironment, WellFormed, d
  <2> HIDE DEF d
  <2> QED BY <2>1, <2>2 DEF SameExecs
<1>8. SameExecs(cluster, cluster') => StepKeeps
  BY SameExecsAlike DEF StepKeeps
<1> QED BY <1>1, <1>2, <1>3, <1>4, <1>5, <1>6, <1>7, <1>8

LEMMA FreshPoolInPool ==
  ASSUME FreshPools # {}
  PROVE  NewId(FreshPools) \in Pool
<1>1. FreshPools \subseteq Pool /\ Pool \subseteq Nat
  BY SchedulerAssumption DEF FreshPools, Pool
<1> QED BY <1>1, NewIdInSet

LEMMA MovingHandlersKeep ==
  ASSUME WellFormed(cluster)
  PROVE  /\ \A i : RestartEnvironment(i) => StepKeeps
         /\ \A r : CommitUpdate(r) => StepKeeps
<1>1. ASSUME NEW i, RestartEnvironment(i) PROVE StepKeeps
  <2>1. NewId(FreshPools) \in Pool
    BY <1>1, FreshPoolInPool DEF RestartEnvironment
  <2>2. cluster' = ScheduleQueued(RestartPool(cluster, i, cluster.envs[i].pool,
                                              NewId(FreshPools), cluster.envs[i].cfg))
    BY <1>1 DEF RestartEnvironment
  <2> QED BY <2>1, <2>2, RestartPoolKeeps DEF StepKeeps
<1>2. ASSUME NEW r, CommitUpdate(r) PROVE StepKeeps
  <2> DEFINE v == requests[r].env
             old == requests[r].old
             cfg == requests[r].cfg
             d == [cluster EXCEPT !.pools[old.pool] = [env |-> v, cfg |-> cfg],
                                  !.envs[v] = [pool |-> old.pool, cfg |-> cfg]]
  <2>1. CASE Rebuilds(old.cfg, cfg)
    <3>1. /\ FreshPools # {}
          /\ cluster' = ScheduleQueued(
               RestartPool(cluster, v, old.pool, NewId(FreshPools), cfg))
      BY <1>2, <2>1 DEF CommitUpdate
    <3>2. NewId(FreshPools) \in Pool
      BY <3>1, FreshPoolInPool
    <3> QED BY <3>1, <3>2, RestartPoolKeeps DEF StepKeeps
  <2>2. CASE ~ Rebuilds(old.cfg, cfg)
    <3>1. SameExecs(cluster, d)
      BY DEF SameExecs, WellFormed
    <3>2. cluster' = ScheduleQueued(d)
      BY <1>2, <2>2 DEF CommitUpdate
    <3> HIDE DEF d
    <3> QED BY <3>1, <3>2, SweptSameExecs DEF StepKeeps
  <2> QED BY <2>1, <2>2
<1> QED BY <1>1, <1>2

\* What holds of every other execution.
OthersKept(c, d, e) ==
  \A f \in Exec \ {e} :
    /\ d.execs[f] = None <=> c.execs[f] = None
    /\ c.execs[f] # None => (d.execs[f].status = "running" <=> c.execs[f].status = "running")

\* A new execution waits.
LEMMA CreateAdds ==
  ASSUME WellFormed(cluster), NEW e \in Exec, NEW i \in Env, NEW p \in Pool, NEW queue,
         CreateExecution(e, i, p, queue)
  PROVE  /\ WellFormed(cluster') /\ OthersKept(cluster, cluster', e)
         /\ cluster.execs[e] = None
         /\ cluster'.execs[e] \in ExecRec /\ cluster'.execs[e].status # "running"
<1> DEFINE rec == [status |-> "queued", pool |-> p, node |-> None, env |-> i]
           c == [cluster EXCEPT !.execs[e] = rec]
<1>1. cluster' = Schedule(c, e) /\ cluster.execs[e] = None
  BY DEF CreateExecution
<1>2. rec \in ExecRec /\ rec.status = "queued"
  BY DEF ExecRec
<1>3. DOMAIN c = DOMAIN cluster /\ c.rr = cluster.rr /\ c.execs = [cluster.execs EXCEPT ![e] = rec]
  BY DEF WellFormed
<1> HIDE DEF rec, c
<1>4. \A f \in Exec : c.execs[f] = IF f = e THEN rec ELSE cluster.execs[f]
  BY <1>3 DEF WellFormed
<1>5. WellFormed(c) /\ IsQueued(c, e)
  BY <1>2, <1>3, <1>4, NoneApart DEF WellFormed, IsQueued
<1>6. /\ WellFormed(cluster') /\ Alike(c, cluster')
      /\ \A f \in Exec \ {e} : cluster'.execs[f] = c.execs[f]
  BY <1>1, <1>5, ScheduleKeeps
<1>7. OthersKept(cluster, cluster', e)
  BY <1>4, <1>6 DEF OthersKept
<1>8. cluster'.execs[e] # None /\ cluster'.execs[e].status # "running"
  BY <1>2, <1>4, <1>5, <1>6, NoneApart DEF Alike
<1>9. cluster'.execs[e] \in ExecRec
  BY <1>6, <1>8 DEF WellFormed
<1> QED BY <1>1, <1>6, <1>7, <1>8, <1>9

\* An execution that was assigned is at work.
LEMMA NextWorkStarts ==
  ASSUME WellFormed(cluster), NEW n \in Node, NEW e \in Exec, NextWork(n, e)
  PROVE  /\ WellFormed(cluster') /\ OthersKept(cluster, cluster', e)
         /\ cluster.execs[e] # None /\ cluster.execs[e].status # "running"
         /\ cluster'.execs[e] \in ExecRec /\ cluster'.execs[e].status = "running"
<1> DEFINE exec == [cluster.execs[e] EXCEPT !.status = "running"]
<1>1. /\ cluster.execs[e] # None /\ cluster.execs[e].status = "assigned"
      /\ cluster' = [cluster EXCEPT !.execs[e].status = "running"]
  BY DEF NextWork
<1>2. cluster.execs[e] \in ExecRec
  BY <1>1 DEF WellFormed
<1>3. exec \in ExecRec /\ exec.status = "running"
  BY <1>2 DEF ExecRec
<1>4. /\ DOMAIN cluster' = DOMAIN cluster /\ cluster'.rr = cluster.rr
      /\ cluster'.execs = [cluster.execs EXCEPT ![e] = exec]
  BY <1>1 DEF WellFormed
<1> HIDE DEF exec
<1>5. \A f \in Exec : cluster'.execs[f] = IF f = e THEN exec ELSE cluster.execs[f]
  BY <1>4 DEF WellFormed
<1>6. WellFormed(cluster')
  BY <1>3, <1>4 DEF WellFormed
<1> QED BY <1>1, <1>3, <1>5, <1>6 DEF OthersKept

\* An execution that has ended leaves memory.
LEMMA FinishRemoves ==
  ASSUME NEW c, WellFormed(c), NEW e \in Exec, NEW keepIdle
  PROVE  LET d == Finish(c, e, keepIdle)
         IN  WellFormed(d) /\ OthersKept(c, d, e) /\ d.execs[e] = None
<1> DEFINE p == c.execs[e].pool
           r == Release(c, e, keepIdle)
           freed == [r EXCEPT !.execs[e] = None]
           left == IF Stale(freed, p) THEN DropPool(freed, p) ELSE freed
           d == Finish(c, e, keepIdle)
<1>1. SameExecs(c, r) /\ WellFormed(r)
  BY OperatorsKeepExecs, SameExecsAlike
<1>2. DOMAIN freed = DOMAIN r /\ freed.rr = r.rr /\ freed.execs = [r.execs EXCEPT ![e] = None]
  <2> HIDE DEF r
  <2> QED BY <1>1 DEF WellFormed
<1>3. d = ScheduleQueued(left)
  BY DEF Finish
<1> HIDE DEF r, freed, d
<1>4. \A f \in Exec : freed.execs[f] = IF f = e THEN None ELSE c.execs[f]
  BY <1>1, <1>2 DEF WellFormed, SameExecs
<1>5. WellFormed(freed)
  BY <1>1, <1>2 DEF WellFormed
<1>6. SameExecs(freed, left)
  <2>1. SameExecs(freed, DropPool(freed, p))
    BY <1>5, OperatorsKeepExecs
  <2> QED BY <2>1 DEF SameExecs
<1> HIDE DEF left
<1>7. WellFormed(d) /\ Alike(freed, d)
  BY <1>3, <1>5, <1>6, SweptSameExecs
<1>8. OthersKept(c, d, e) /\ d.execs[e] = None
  BY <1>4, <1>7 DEF Alike, OthersKept
<1> QED BY <1>7, <1>8 DEF d

-----------------------------------------------------------------------------
(* The table. *)

\* A row is written anew; it is active, and all others stay.
LEMMA UpsertLemma ==
  ASSUME NEW rs, Exact(rs), NEW e \in Exec, NEW rec \in ExecRec
  PROVE  LET us == Upsert(rs, e, rec)
         IN  /\ Exact(us) /\ IsActive(us, e)
             /\ us[e] \in Row /\ us[e].secrets = (rs[e] # None /\ rs[e].secrets)
             /\ us[e].result = FALSE
             /\ \A f \in Exec \ {e} : us[f] = rs[f]
<1> DEFINE kept == rs[e] # None /\ rs[e].secrets
           row == [status |-> rec.status, pool |-> rec.pool, node |-> rec.node,
                   env |-> rec.env, secrets |-> kept, result |-> FALSE, size |-> 0]
           new == [row EXCEPT !.size = Columns(row)]
           us == Upsert(rs, e, rec)
<1>1. kept \in BOOLEAN
  BY DEF Exact, Row
<1>2. us = [rs EXCEPT ![e] = new]
  BY DEF Upsert
<1>3. Columns(row) \in Nat
  <2>1. row.secrets = kept /\ row.result = FALSE
    OBVIOUS
  <2> HIDE DEF kept, row
  <2> QED BY <1>1, <2>1 DEF Columns, One
<1>4. /\ rec.status \in {"queued", "assigned", "running"} /\ rec.pool \in Pool
      /\ rec.node \in Node \cup {None} /\ rec.env \in Env
  BY DEF ExecRec
<1> HIDE DEF kept
<1>5. /\ new \in Row /\ new.status = rec.status /\ new.secrets = kept
      /\ new.result = FALSE /\ new.size = Columns(row)
  <2> DEFINE k == Columns(row)
  <2> HIDE DEF k
  <2> QED BY <1>1, <1>3, <1>4 DEF Row, k
<1>6. Columns(new) = Columns(row)
  BY DEF Columns
<1> HIDE DEF new, us, row
<1>7. \A f \in Exec : us[f] = IF f = e THEN new ELSE rs[f]
  BY <1>2 DEF Exact
<1>8. us \in [Exec -> Row \cup {None}]
  BY <1>2, <1>5 DEF Exact
<1>9. Exact(us)
  BY <1>4, <1>5, <1>6, <1>7, <1>8 DEF Exact
<1>10. IsActive(us, e)
  BY <1>4, <1>5, <1>7, NoneApart DEF IsActive
<1> QED BY <1>5, <1>7, <1>9, <1>10 DEF us, kept

\* save_executions: those to be saved are active, all others stay.
LEMMA SaveAllLemma ==
  ASSUME NEW rs, Exact(rs), NEW recs \in [Exec -> ExecRec \cup {None}]
  PROVE  LET us == SaveAll(rs, recs)
         IN  /\ Exact(us)
             /\ \A e \in Exec : IF recs[e] = None THEN us[e] = rs[e] ELSE IsActive(us, e)
<1> DEFINE us == SaveAll(rs, recs)
<1>1. us = [e \in Exec |-> IF recs[e] = None THEN rs[e] ELSE Upsert(rs, e, recs[e])[e]]
  BY DEF SaveAll
<1> HIDE DEF us
<1>2. ASSUME NEW e \in Exec, recs[e] = None PROVE us[e] = rs[e]
  BY <1>1, <1>2
<1>3. ASSUME NEW e \in Exec, recs[e] # None
      PROVE  \E ws : Exact(ws) /\ IsActive(ws, e) /\ us[e] = ws[e]
  <2>1. recs[e] \in ExecRec
    BY <1>3
  <2>2. us[e] = Upsert(rs, e, recs[e])[e]
    BY <1>1, <1>3
  <2> QED BY <2>1, <2>2, UpsertLemma
<1>4. \A e \in Exec : recs[e] # None => IsActive(us, e)
  BY <1>3 DEF IsActive
<1>5. ASSUME NEW e \in Exec
      PROVE  \E ws : Exact(ws) /\ us[e] = ws[e]
  BY <1>2, <1>3
<1>6. Exact(us)
  <2>1. DOMAIN us = Exec /\ us = [e \in Exec |-> us[e]]
    BY <1>1
  <2>2. \A e \in Exec : us[e] \in Row \cup {None}
    BY <1>5 DEF Exact
  <2>3. us \in [Exec -> Row \cup {None}]
    BY <2>1, <2>2
  <2> QED BY <1>5, <2>3 DEF Exact
<1> QED BY <1>2, <1>4, <1>6 DEF us

\* Rows that are deleted.
LEMMA WithoutLemma ==
  ASSUME NEW rs, Exact(rs), NEW gone
  PROVE  /\ Exact(Without(rs, gone))
         /\ \A e \in Exec : Without(rs, gone)[e] = IF e \in gone THEN None ELSE rs[e]
BY DEF Without, Exact

\* prune: nothing but finished executions goes, and not the one to keep.
LEMMA PrunedLemma ==
  ASSUME NEW rs, Exact(rs), NEW lim, NEW keep, NEW us \in Pruned(rs, lim, keep)
  PROVE  /\ Exact(us)
         /\ \E gone \in SUBSET (Finished(rs) \ {keep}) :
              \A e \in Exec : us[e] = IF e \in gone THEN None ELSE rs[e]
<1>1. PICK gone \in SUBSET (Finished(rs) \ {keep}) : us = Without(rs, gone)
  BY DEF Pruned
<1> QED BY <1>1, WithoutLemma

\* complete_execution's row.
LEMMA CompleteLemma ==
  ASSUME NEW rs, Exact(rs), NEW e \in Exec, rs[e] # None, NEW result \in BOOLEAN
  PROVE  LET us == Complete(rs, e, result)
         IN  /\ Exact(us)
             /\ us[e] # None /\ us[e].status = "finished"
             /\ \A f \in Exec \ {e} : us[f] = rs[f]
<1> DEFINE new == [rs[e] EXCEPT !.status = "finished", !.result = result,
                                !.secrets = FALSE, !.size = 2 + One(result)]
           us == Complete(rs, e, result)
<1>1. rs[e] \in Row
  BY DEF Exact
<1>2. 2 + One(result) \in Nat
  BY DEF One
<1>3. /\ new \in Row /\ new.status = "finished" /\ new.result = result
      /\ new.secrets = FALSE /\ new.size = 2 + One(result)
  BY <1>1, <1>2 DEF Row
<1>4. us = [rs EXCEPT ![e] = new]
  BY DEF Complete, Exact
<1> HIDE DEF new, us
<1>5. Columns(new) = new.size
  BY <1>3 DEF Columns, One
<1>6. \A f \in Exec : us[f] = IF f = e THEN new ELSE rs[f]
  BY <1>4 DEF Exact
<1>7. us \in [Exec -> Row \cup {None}]
  BY <1>3, <1>4 DEF Exact
<1>8. Exact(us)
  BY <1>3, <1>5, <1>6, <1>7 DEF Exact
<1> QED BY <1>3, <1>6, <1>8, NoneApart DEF us

\* load_active_executions: what is active stays so, what is finished is not touched.
LEMMA RequeuedLemma ==
  ASSUME NEW rs, Exact(rs)
  PROVE  /\ Exact(Requeued(rs))
         /\ \A e \in Exec : IF IsActive(rs, e) THEN IsActive(Requeued(rs), e)
                            ELSE Requeued(rs)[e] = rs[e]
<1> DEFINE us == Requeued(rs)
           new(e) == [rs[e] EXCEPT !.status = "queued", !.node = None]
<1>1. us = [e \in Exec |-> IF IsActive(rs, e) THEN new(e) ELSE rs[e]]
  BY DEF Requeued
<1>2. ASSUME NEW e \in Exec, IsActive(rs, e)
      PROVE  /\ new(e) \in Row /\ new(e).status = "queued"
             /\ new(e).size = rs[e].size /\ Columns(new(e)) = Columns(rs[e])
  <2>1. rs[e] \in Row /\ rs[e].status # "finished"
    BY <1>2 DEF IsActive, Exact
  <2>2. /\ new(e) \in Row /\ new(e).status = "queued" /\ new(e).size = rs[e].size
        /\ new(e).secrets = rs[e].secrets /\ new(e).result = rs[e].result
    BY <2>1 DEF Row
  <2> HIDE DEF new
  <2> QED BY <2>1, <2>2 DEF Columns
<1> HIDE DEF new, us
<1>3. \A e \in Exec : us[e] = IF IsActive(rs, e) THEN new(e) ELSE rs[e]
  BY <1>1
<1>4. us \in [Exec -> Row \cup {None}]
  BY <1>1, <1>2 DEF Exact
<1>5. Exact(us)
  BY <1>2, <1>3, <1>4 DEF Exact, IsActive
<1>6. \A e \in Exec : IsActive(rs, e) => IsActive(us, e)
  BY <1>2, <1>3, NoneApart DEF IsActive
<1> QED BY <1>3, <1>5, <1>6 DEF us

-----------------------------------------------------------------------------
(* Steps that change no life. *)

\* The same rows are there, and the same of them are active.
SameRows(rs, us) ==
  \A e \in Exec : /\ us[e] = None <=> rs[e] = None
                  /\ IsActive(us, e) <=> IsActive(rs, e)

LEMMA StoredLemma ==
  ASSUME NEW c, WellFormed(c)
  PROVE  WellFormed(Stored(c))
BY PartsReplaced DEF Stored

LEMMA QuietStep ==
  ASSUME SInv, StepKeeps, WellFormed(saved'), Exact(rows'), SameRows(rows, rows'),
         pending' \in [Slot -> Tail \cup {None}],
         \A s \in Slot, e \in Exec : EndOf(pending', s, e) => EndOf(pending, s, e)
  PROVE  SInv' /\ lifeBar' = lifeBar
<1>1. ActiveIsStored(cluster', rows')
  BY DEF SInv, StepKeeps, Alike, SameRows, ActiveIsStored
<1>2. EndsAwaited(cluster', rows', pending')
  BY DEF SInv, StepKeeps, Alike, SameRows, EndsAwaited
<1>3. LifeIn(cluster', rows') = LifeIn(cluster, rows)
  <2> SUFFICES ASSUME NEW e \in Exec
               PROVE  LifeIn(cluster', rows')[e] = LifeIn(cluster, rows)[e]
    BY DEF LifeIn
  <2>1. rows[e] # None => (rows'[e].status = "finished" <=> rows[e].status = "finished")
    BY DEF SameRows, IsActive
  <2> QED BY <2>1 DEF StepKeeps, Alike, SameRows, LifeIn
<1> QED BY <1>1, <1>2, <1>3 DEF SInv, StepKeeps, lifeBar

\* What is to be saved of a step.
LEMMA ChangedLemma ==
  ASSUME WellFormed(cluster')
  PROVE  /\ Changed \in [Exec -> ExecRec \cup {None}]
         /\ \A e \in Exec : Changed[e] # None => cluster.execs[e] # None
BY DEF Changed, WellFormed

LEMMA SavingQuiet ==
  ASSUME SInv, StepKeeps, rows' = SaveAll(rows, Changed), saved' = Stored(cluster'),
         pending' = pending
  PROVE  SInv' /\ lifeBar' = lifeBar
<1>1. WellFormed(saved')
  BY StoredLemma DEF StepKeeps
<1>2. Exact(rows') /\ SameRows(rows, rows')
  <2>1. /\ Changed \in [Exec -> ExecRec \cup {None}]
        /\ \A e \in Exec : Changed[e] # None => IsActive(rows, e)
    BY ChangedLemma DEF StepKeeps, SInv, ActiveIsStored
  <2>2. /\ Exact(rows')
        /\ \A e \in Exec : IF Changed[e] = None THEN rows'[e] = rows[e] ELSE IsActive(rows', e)
    BY <2>1, SaveAllLemma DEF SInv
  <2> QED BY <2>1, <2>2 DEF SameRows, IsActive
<1> QED BY <1>1, <1>2, QuietStep DEF SInv

LEMMA SaveLaterQuiet ==
  ASSUME SInv, NEW s \in Slot, StepKeeps, saved' = Stored(cluster'), rows' = rows,
         pending' = [pending EXCEPT ![s] =
           [recs |-> Changed, ends |-> None, result |-> FALSE, node |-> None]]
  PROVE  SInv' /\ lifeBar' = lifeBar
<1> DEFINE tail == [recs |-> Changed, ends |-> None, result |-> FALSE, node |-> None]
<1>1. WellFormed(saved')
  BY StoredLemma DEF StepKeeps
<1>2. tail \in Tail /\ tail.ends = None
  BY ChangedLemma DEF StepKeeps, Tail
<1> HIDE DEF tail
<1>3. pending' \in [Slot -> Tail \cup {None}]
  BY <1>2 DEF SInv, tail
<1>4. \A t \in Slot : pending'[t] = IF t = s THEN tail ELSE pending[t]
  BY DEF SInv, tail
<1>5. \A t \in Slot, e \in Exec : EndOf(pending', t, e) => EndOf(pending, t, e)
  BY <1>2, <1>4, NoneApart DEF EndOf
<1>6. Exact(rows') /\ SameRows(rows, rows')
  BY DEF SInv, SameRows, IsActive
<1> QED BY <1>1, <1>3, <1>5, <1>6, QuietStep

-----------------------------------------------------------------------------
(* Steps in which one execution moves on, and finished ones may be forgotten. *)

\* The rows of `gone` are deleted; that of e is as it may be.
Deleted(rs, us, e, gone) ==
  /\ gone \subseteq Finished(rs) \ {e}
  /\ \A f \in Exec \ {e} : us[f] = IF f \in gone THEN None ELSE rs[f]

LEMMA FinishedIsOver ==
  ASSUME SInv, NEW e \in Finished(rows)
  PROVE  e \in Exec /\ cluster.execs[e] = None /\ lifeBar[e] = "over"
<1>1. e \in Exec /\ cluster.execs[e] = None
  BY DEF SInv, ActiveIsStored, IsActive, Finished
<1> QED BY <1>1 DEF lifeBar, LifeIn, Finished

LEMMA MovesLife ==
  ASSUME SInv, NEW e \in Exec, OthersKept(cluster, cluster', e),
         NEW gone, Deleted(rows, rows', e, gone), NEW from, lifeBar[e] \in from
  PROVE  Life!Goes(e, from, lifeBar'[e])
<1>1. gone \in SUBSET (Life!Over \ {e})
  BY FinishedIsOver DEF Deleted, Life!Over
<1>2. ASSUME NEW f \in Exec \ {e}
      PROVE  lifeBar'[f] = IF f \in gone THEN "unknown" ELSE lifeBar[f]
  <2>1. CASE f \in gone
    <3>1. cluster'.execs[f] = None /\ rows'[f] = None
      BY <2>1, FinishedIsOver DEF Deleted, OthersKept
    <3> QED BY <2>1, <3>1 DEF lifeBar, LifeIn
  <2>2. CASE f \notin gone
    <3>1. rows'[f] = rows[f]
      BY <2>2 DEF Deleted
    <3> QED BY <2>2, <3>1 DEF OthersKept, lifeBar, LifeIn, IsActive
  <2> QED BY <2>1, <2>2
<1>3. lifeBar' = [f \in Exec |-> IF f = e THEN lifeBar'[e]
                                 ELSE IF f \in gone THEN "unknown" ELSE lifeBar[f]]
  <2>1. lifeBar' = [f \in Exec |-> lifeBar'[f]]
    BY DEF lifeBar, LifeIn
  <2> DEFINE bar == lifeBar'
  <2>2. bar = [f \in Exec |-> bar[f]] /\ \A f \in Exec \ {e} :
          bar[f] = IF f \in gone THEN "unknown" ELSE lifeBar[f]
    BY <1>2, <2>1
  <2> HIDE DEF bar
  <2>3. bar = [f \in Exec |-> IF f = e THEN bar[e]
                              ELSE IF f \in gone THEN "unknown" ELSE lifeBar[f]]
    BY <2>2
  <2> QED BY <2>3 DEF bar
<1> QED BY <1>1, <1>3 DEF Life!Goes

LEMMA MovesInv ==
  ASSUME SInv, NEW e \in Exec, WellFormed(cluster'), WellFormed(saved'), Exact(rows'),
         pending' \in [Slot -> Tail \cup {None}],
         OthersKept(cluster, cluster', e), NEW gone, Deleted(rows, rows', e, gone),
         cluster'.execs[e] # None => IsActive(rows', e),
         \A s \in Slot, f \in Exec \ {e} : EndOf(pending', s, f) => EndOf(pending, s, f),
         \A s \in Slot : EndOf(pending', s, e) =>
           /\ cluster'.execs[e] = None
           /\ IsActive(rows', e)
           /\ \A t \in Slot : EndOf(pending', t, e) => t = s
  PROVE  SInv'
<1>1. \A f \in Exec \ {e} : IsActive(rows, f) => IsActive(rows', f)
  BY DEF Deleted, Finished, IsActive
<1>2. ActiveIsStored(cluster', rows')
  BY <1>1 DEF SInv, ActiveIsStored, OthersKept
<1>3. EndsAwaited(cluster', rows', pending')
  BY <1>1 DEF SInv, EndsAwaited, OthersKept
<1> QED BY <1>2, <1>3 DEF SInv

\* A row is inserted for a new execution, and others are pruned.
LEMMA InsertRow ==
  ASSUME Exact(rows), NEW e \in Exec, rows[e] = None, NEW i \in Env, NEW p \in Pool,
         NEW secrets \in BOOLEAN
  PROVE  \E ins : /\ Insert(e, i, p, secrets) = Pruned(ins, limit, e)
                  /\ Exact(ins) /\ IsActive(ins, e) /\ ins[e].result = FALSE
                  /\ \A f \in Exec \ {e} : ins[f] = rows[f]
<1> DEFINE rec == [status |-> "queued", pool |-> p, node |-> None, env |-> i]
           row == Upsert(rows, e, rec)
           new == [row[e] EXCEPT !.secrets = secrets, !.size = row[e].size + One(secrets)]
           ins == [row EXCEPT ![e].secrets = secrets, ![e].size = @ + One(secrets)]
<1>1. /\ Exact(row) /\ row[e] \in Row /\ row[e].secrets = FALSE /\ row[e].status # "finished"
      /\ row[e].result = FALSE
      /\ \A f \in Exec \ {e} : row[f] = rows[f]
  <2>1. rec \in ExecRec
    BY DEF ExecRec
  <2> HIDE DEF rec
  <2> QED BY <2>1, UpsertLemma DEF IsActive
<1>2. Insert(e, i, p, secrets) = Pruned(ins, limit, e)
  BY DEF Insert
<1> HIDE DEF row
<1>3. ins = [row EXCEPT ![e] = new]
  BY <1>1 DEF Exact, Row
<1>4. /\ new \in Row /\ new.status = row[e].status /\ new.secrets = secrets
      /\ new.result = row[e].result /\ new.size = row[e].size + One(secrets)
  <2>1. row[e].size + One(secrets) \in Nat
    BY <1>1 DEF Row, One
  <2> QED BY <1>1, <2>1 DEF Row
<1>5. row[e].size = Columns(row[e])
  BY <1>1, NoneApart DEF Exact
<1> HIDE DEF new, ins
<1>6. new.size = Columns(new)
  BY <1>1, <1>4, <1>5 DEF Columns, One
<1>7. \A f \in Exec : ins[f] = IF f = e THEN new ELSE row[f]
  BY <1>1, <1>3 DEF Exact
<1>8. Exact(ins)
  <2>1. ins \in [Exec -> Row \cup {None}]
    BY <1>1, <1>3, <1>4 DEF Exact
  <2> QED BY <1>1, <1>4, <1>6, <1>7, <2>1 DEF Exact
<1>9. IsActive(ins, e) /\ ins[e].result = FALSE
  BY <1>1, <1>4, <1>7, NoneApart DEF IsActive
<1> QED BY <1>1, <1>2, <1>7, <1>8, <1>9

LEMMA InsertLemma ==
  ASSUME NEW rs, Exact(rs), NEW e \in Exec, rs[e] = None, NEW i \in Env, NEW p \in Pool,
         NEW secrets \in BOOLEAN, rs = rows, NEW us \in Insert(e, i, p, secrets)
  PROVE  Exact(us) /\ us[e] # None /\ \E gone : Deleted(rs, us, e, gone)
<1>1. PICK ins : /\ Insert(e, i, p, secrets) = Pruned(ins, limit, e)
                 /\ Exact(ins) /\ IsActive(ins, e) /\ ins[e].result = FALSE
                 /\ \A f \in Exec \ {e} : ins[f] = rows[f]
  BY InsertRow
<1>2. Exact(us)
  BY <1>1, PrunedLemma
<1>3. PICK gone \in SUBSET (Finished(ins) \ {e}) :
         \A f \in Exec : us[f] = IF f \in gone THEN None ELSE ins[f]
  BY <1>1, PrunedLemma
<1>4. Deleted(rs, us, e, gone)
  BY <1>1, <1>3 DEF Deleted, Finished
<1>5. us[e] # None
  BY <1>1, <1>3 DEF IsActive
<1> QED BY <1>2, <1>4, <1>5

-----------------------------------------------------------------------------
(* Every step keeps the invariant and is a step of a life, or of none. *)

\* A step of a life in which what is over is not taken back, or of none.
Onward ==
  \/ /\ \/ \E e \in Exec : Life!Accept(e) \/ Life!HandOut(e) \/ Life!Report(e) \/ Life!Conclude(e)
        \/ Life!Forget
     /\ restarts' = restarts
  \/ Life!Restart
  \/ lifeBar' = lifeBar /\ restarts' = restarts

LifeStep == Onward \/ (Life!TakeBack /\ restarts' = restarts)

LEMMA LifeStepIsNext == LifeStep => [Life!Next]_<<lifeBar, restarts>>
BY DEF LifeStep, Onward, Life!Next, Life!Proceed

LEMMA GoesIsOnward ==
  ASSUME NEW e \in Exec, restarts' = restarts,
         \/ Life!Goes(e, {"unknown"}, "waiting") \/ Life!Goes(e, {"waiting"}, "running")
         \/ Life!Goes(e, {"running", "waiting"}, "ending") \/ Life!Goes(e, {"ending"}, "over")
  PROVE  Onward
BY DEF Onward, Life!Accept, Life!HandOut, Life!Report, Life!Conclude

LEMMA SubmitAcceptedStep ==
  ASSUME SInv, NEW e \in Exec, NEW i \in Env, NEW p \in Pool, NEW secrets \in BOOLEAN,
         SubmitAccepted(e, i, p, secrets)
  PROVE  SInv' /\ Onward
<1>1. /\ Unused(e) /\ CreateExecution(e, i, p, TRUE)
      /\ saved' = saved /\ pending' = pending /\ restarts' = restarts
  BY DEF SubmitAccepted
<1>2. PICK rs \in Insert(e, i, p, secrets) : rows' = Upsert(rs, e, cluster'.execs[e])
  BY DEF SubmitAccepted
<1>3. rows[e] = None
  BY <1>1 DEF Unused
<1>4. /\ WellFormed(cluster') /\ OthersKept(cluster, cluster', e)
      /\ cluster.execs[e] = None
      /\ cluster'.execs[e] \in ExecRec /\ cluster'.execs[e].status # "running"
  BY <1>1, CreateAdds DEF SInv
<1>5. Exact(rs) /\ \E gone : Deleted(rows, rs, e, gone)
  BY <1>2, <1>3, InsertLemma DEF SInv
<1>6. /\ Exact(rows') /\ IsActive(rows', e)
      /\ \A f \in Exec \ {e} : rows'[f] = rs[f]
  BY <1>2, <1>4, <1>5, UpsertLemma
<1>7. PICK gone : Deleted(rows, rows', e, gone)
  BY <1>5, <1>6 DEF Deleted
<1>8. \A s \in Slot : ~ EndOf(pending, s, e)
  BY <1>1 DEF Unused, EndOf
<1>9. SInv'
  BY <1>1, <1>4, <1>6, <1>7, <1>8, MovesInv DEF SInv
<1>10. lifeBar[e] \in {"unknown"} /\ lifeBar'[e] = "waiting"
  BY <1>3, <1>4, <1>6, NoneApart DEF lifeBar, LifeIn
<1>11. Life!Goes(e, {"unknown"}, "waiting")
  BY <1>4, <1>7, <1>10, MovesLife
<1> QED BY <1>1, <1>9, <1>11, GoesIsOnward

\* Executions that are over are forgotten.
LEMMA ForgetStep ==
  ASSUME SInv, NEW gone, gone \subseteq Finished(rows), Exact(rows'),
         \A e \in Exec : rows'[e] = IF e \in gone THEN None ELSE rows[e],
         UNCHANGED <<cluster, saved, pending, restarts>>
  PROVE  SInv' /\ Onward
<1>1. \A e \in Exec : IsActive(rows', e) <=> IsActive(rows, e)
  BY DEF Finished, IsActive
<1>2. SInv'
  BY <1>1 DEF SInv, ActiveIsStored, EndsAwaited, EndOf
<1>3. gone \in SUBSET Life!Over
  BY FinishedIsOver DEF Life!Over
<1>4. ASSUME NEW e \in Exec
      PROVE  lifeBar'[e] = IF e \in gone THEN "unknown" ELSE lifeBar[e]
  <2>1. CASE e \in gone
    <3>1. cluster'.execs[e] = None /\ rows'[e] = None
      BY <2>1, FinishedIsOver
    <3> QED BY <2>1, <3>1 DEF lifeBar, LifeIn
  <2>2. CASE e \notin gone
    BY <1>1, <2>2 DEF lifeBar, LifeIn
  <2> QED BY <2>1, <2>2
<1>5. lifeBar' = [e \in Exec |-> IF e \in gone THEN "unknown" ELSE lifeBar[e]]
  <2> DEFINE bar == lifeBar'
  <2>1. bar = [e \in Exec |-> bar[e]]
    BY DEF lifeBar, LifeIn
  <2>2. \A e \in Exec : bar[e] = IF e \in gone THEN "unknown" ELSE lifeBar[e]
    BY <1>4
  <2> HIDE DEF bar
  <2>3. bar = [e \in Exec |-> IF e \in gone THEN "unknown" ELSE lifeBar[e]]
    BY <2>1, <2>2
  <2> QED BY <2>3 DEF bar
<1>6. Life!Forget
  BY <1>3, <1>5 DEF Life!Forget
<1> QED BY <1>2, <1>6 DEF Onward

LEMMA SubmitRefusedStep ==
  ASSUME SInv, NEW e \in Exec, NEW i \in Env, NEW p \in Pool, NEW secrets \in BOOLEAN,
         SubmitRefused(e, i, p, secrets)
  PROVE  SInv' /\ Onward
<1>1. rows[e] = None /\ UNCHANGED <<cluster, saved, pending, restarts>>
  BY DEF SubmitRefused, Unused, vars
<1>2. PICK rs \in Insert(e, i, p, secrets) : rows' = Without(rs, {e})
  BY DEF SubmitRefused
<1>3. Exact(rs) /\ \E gone : Deleted(rows, rs, e, gone)
  BY <1>1, <1>2, InsertLemma DEF SInv
<1>4. PICK gone : Deleted(rows, rs, e, gone)
  BY <1>3
<1>5. Exact(rows') /\ \A f \in Exec : rows'[f] = IF f \in {e} THEN None ELSE rs[f]
  BY <1>2, <1>3, WithoutLemma
<1>6. \A f \in Exec : rows'[f] = IF f \in gone THEN None ELSE rows[f]
  BY <1>1, <1>4, <1>5 DEF Deleted
<1>7. gone \subseteq Finished(rows)
  BY <1>4 DEF Deleted
<1> QED BY <1>1, <1>5, <1>6, <1>7, ForgetStep

\* The garbage collector, and a new limit.
LEMMA PruneStep ==
  ASSUME SInv, NEW lim, rows' \in Pruned(rows, lim, None),
         UNCHANGED <<cluster, saved, pending, restarts>>
  PROVE  SInv' /\ Onward
<1>1. /\ Exact(rows')
      /\ \E gone \in SUBSET (Finished(rows) \ {None}) :
           \A e \in Exec : rows'[e] = IF e \in gone THEN None ELSE rows[e]
  BY PrunedLemma DEF SInv
<1> QED BY <1>1, ForgetStep

LEMMA TakeWorkStep ==
  ASSUME SInv, NEW s \in Slot, NEW n \in Node, NEW e \in Exec, TakeWork(s, n, e)
  PROVE  SInv' /\ Onward
<1> DEFINE tail == [recs |-> Changed, ends |-> None, result |-> FALSE, node |-> n]
<1>1. /\ NextWork(n, e) /\ rows' = rows /\ saved' = saved /\ restarts' = restarts
      /\ pending' = [pending EXCEPT ![s] = tail]
  BY DEF TakeWork
<1>2. /\ WellFormed(cluster') /\ OthersKept(cluster, cluster', e)
      /\ cluster.execs[e] # None /\ cluster.execs[e].status # "running"
      /\ cluster'.execs[e] \in ExecRec /\ cluster'.execs[e].status = "running"
  BY <1>1, NextWorkStarts DEF SInv
<1>3. tail \in Tail /\ tail.ends = None
  BY <1>2, ChangedLemma DEF Tail
<1> HIDE DEF tail
<1>4. pending' \in [Slot -> Tail \cup {None}]
  BY <1>1, <1>3 DEF SInv
<1>5. \A t \in Slot : pending'[t] = IF t = s THEN tail ELSE pending[t]
  BY <1>1 DEF SInv
<1>6. \A t \in Slot, f \in Exec : EndOf(pending', t, f) => EndOf(pending, t, f)
  BY <1>3, <1>5, NoneApart DEF EndOf
<1>7. IsActive(rows, e)
  BY <1>2 DEF SInv, ActiveIsStored
<1>8. \A t \in Slot : ~ EndOf(pending', t, e)
  BY <1>2, <1>6 DEF SInv, EndsAwaited
<1>9. Deleted(rows, rows', e, {})
  BY <1>1 DEF Deleted
<1>10. IsActive(rows', e) /\ Exact(rows') /\ WellFormed(saved')
  BY <1>1, <1>7 DEF SInv, IsActive
<1>11. SInv'
  BY <1>2, <1>4, <1>6, <1>8, <1>9, <1>10, MovesInv
<1>12. lifeBar[e] \in {"waiting"} /\ lifeBar'[e] = "running"
  BY <1>2, <1>7, <1>10, NoneApart DEF lifeBar, LifeIn
<1>13. Life!Goes(e, {"waiting"}, "running")
  BY <1>2, <1>9, <1>12, MovesLife
<1> QED BY <1>1, <1>11, <1>13, GoesIsOnward

\* An execution is reported on, and its end is to be written.
LEMMA EndedStep ==
  ASSUME SInv, NEW s \in Slot, NEW e \in Exec, NEW keepIdle, NEW result \in BOOLEAN,
         cluster.execs[e] # None, cluster' = Finish(cluster, e, keepIdle),
         saved' = Stored(cluster'), Ended(s, e, result), rows' = rows, restarts' = restarts
  PROVE  SInv' /\ Onward
<1> DEFINE tail == [recs |-> [Changed EXCEPT ![e] = None], ends |-> e,
                    result |-> result, node |-> None]
<1>1. /\ WellFormed(cluster') /\ OthersKept(cluster, cluster', e)
      /\ cluster'.execs[e] = None
  BY FinishRemoves DEF SInv
<1>2. tail \in Tail /\ tail.ends = e
  BY <1>1, ChangedLemma DEF Tail
<1>3. pending' = [pending EXCEPT ![s] = tail]
  BY DEF Ended
<1> HIDE DEF tail
<1>4. pending' \in [Slot -> Tail \cup {None}]
  BY <1>2, <1>3 DEF SInv
<1>5. \A t \in Slot : pending'[t] = IF t = s THEN tail ELSE pending[t]
  BY <1>3 DEF SInv
<1>6. IsActive(rows, e)
  BY DEF SInv, ActiveIsStored
<1>7. \A t \in Slot : ~ EndOf(pending, t, e)
  BY DEF SInv, EndsAwaited
<1>8. \A t \in Slot, f \in Exec \ {e} : EndOf(pending', t, f) => EndOf(pending, t, f)
  BY <1>2, <1>5 DEF EndOf
<1>9. \A t \in Slot : EndOf(pending', t, e) => t = s
  BY <1>5, <1>7 DEF EndOf
<1>10. Deleted(rows, rows', e, {})
  BY DEF Deleted
<1>11. Exact(rows') /\ IsActive(rows', e) /\ WellFormed(saved')
  BY <1>1, <1>6, StoredLemma DEF SInv, IsActive
<1>12. SInv'
  BY <1>1, <1>4, <1>8, <1>9, <1>10, <1>11, MovesInv
<1>13. lifeBar[e] \in {"running", "waiting"} /\ lifeBar'[e] = "ending"
  BY <1>1, <1>6, <1>11 DEF lifeBar, LifeIn, IsActive
<1>14. Life!Goes(e, {"running", "waiting"}, "ending")
  BY <1>1, <1>10, <1>13, MovesLife
<1> QED BY <1>12, <1>14, GoesIsOnward

\* The cluster and the table stay, and nothing more is to be written.
LEMMA StutterStep ==
  ASSUME SInv, UNCHANGED <<cluster, saved, rows, restarts>>,
         pending' \in [Slot -> Tail \cup {None}],
         \A s \in Slot, e \in Exec : EndOf(pending', s, e) => EndOf(pending, s, e)
  PROVE  SInv' /\ Onward
<1>1. StepKeeps /\ WellFormed(saved') /\ Exact(rows') /\ SameRows(rows, rows')
  BY AlikeSame DEF SInv, StepKeeps, SameRows, IsActive
<1> QED BY <1>1, QuietStep DEF Onward

LEMMA ReportStep ==
  ASSUME SInv, NEW s \in Slot, NEW n \in Node, NEW e \in Exec,
         NEW keepIdle \in BOOLEAN, NEW result \in BOOLEAN,
         Report(s, n, e, keepIdle, result) \/ LateReport(s, n, e, keepIdle, result)
  PROVE  SInv' /\ Onward
<1>1. rows' = rows /\ restarts' = restarts
  BY DEF Report, LateReport
<1>2. CASE cluster.execs[e] # None /\ cluster.execs[e].node = n
  <2>1. /\ cluster' = Finish(cluster, e, keepIdle)
        /\ saved' = Stored(cluster') /\ Ended(s, e, result)
    BY <1>2 DEF Report, LateReport, CompleteExecution
  <2> QED BY <1>1, <1>2, <2>1, EndedStep
<1>3. CASE ~ (cluster.execs[e] # None /\ cluster.execs[e].node = n)
  <2>1. cluster' = cluster /\ saved' = saved /\ pending' = pending
    BY <1>3 DEF Report, LateReport, CompleteExecution
  <2> QED BY <1>1, <2>1, StutterStep DEF SInv
<1> QED BY <1>2, <1>3

\* A write that comes late makes rows active again, and those executions are ending.
LEMMA SaveStep ==
  ASSUME SInv, NEW s \in Slot, Save(s)
  PROVE  SInv' /\ Life!TakeBack /\ restarts' = restarts
<1> DEFINE recs == pending[s].recs
           back == {e \in Exec : recs[e] # None /\ lifeBar[e] \in {"over", "unknown"}}
<1>1. /\ pending[s] \in Tail /\ recs \in [Exec -> ExecRec \cup {None}]
      /\ rows' = SaveAll(rows, recs)
      /\ UNCHANGED <<cluster, saved, restarts>>
      /\ pending' = [pending EXCEPT ![s] =
           IF pending[s].ends = None THEN None ELSE [pending[s] EXCEPT !.recs = NoRecs]]
  BY DEF Save, SInv, Tail, vars
<1>2. /\ Exact(rows')
      /\ \A e \in Exec : IF recs[e] = None THEN rows'[e] = rows[e] ELSE IsActive(rows', e)
  BY <1>1, SaveAllLemma DEF SInv
<1>3. /\ pending' \in [Slot -> Tail \cup {None}]
      /\ \A t \in Slot, e \in Exec : EndOf(pending', t, e) => EndOf(pending, t, e)
  <2> DEFINE rest == [pending[s] EXCEPT !.recs = NoRecs]
             new == IF pending[s].ends = None THEN None ELSE rest
  <2>1. NoRecs \in [Exec -> ExecRec \cup {None}]
    BY DEF NoRecs
  <2>2. rest \in Tail /\ rest.ends = pending[s].ends
    <3> DEFINE none == NoRecs
    <3> HIDE DEF none
    <3>1. none \in [Exec -> ExecRec \cup {None}]
      BY <2>1 DEF none
    <3>2. [pending[s] EXCEPT !.recs = none] \in Tail
          /\ [pending[s] EXCEPT !.recs = none].ends = pending[s].ends
      BY <1>1, <3>1 DEF Tail
    <3> QED BY <3>2 DEF none
  <2> HIDE DEF rest
  <2>3. new \in Tail \cup {None} /\ (new # None => new.ends = pending[s].ends)
    BY <2>2
  <2>4. pending' = [pending EXCEPT ![s] = new]
    BY <1>1 DEF rest
  <2> HIDE DEF new
  <2>5. \A t \in Slot : pending'[t] = IF t = s THEN new ELSE pending[t]
    BY <2>4 DEF SInv
  <2>6. pending' \in [Slot -> Tail \cup {None}]
    BY <2>3, <2>4 DEF SInv
  <2>7. pending[s] # None
    BY DEF Save
  <2> QED BY <2>3, <2>5, <2>6, <2>7 DEF EndOf
<1> HIDE DEF recs
<1>4. \A e \in Exec : IsActive(rows, e) => IsActive(rows', e)
  BY <1>2 DEF IsActive
<1>5. SInv'
  <2>1. ActiveIsStored(cluster', rows')
    BY <1>1, <1>4 DEF SInv, ActiveIsStored
  <2>2. EndsAwaited(cluster', rows', pending')
    BY <1>1, <1>3, <1>4 DEF SInv, EndsAwaited
  <2> QED BY <1>1, <1>2, <1>3, <2>1, <2>2 DEF SInv
<1>6. ASSUME NEW e \in Exec
      PROVE  lifeBar'[e] = IF e \in back THEN "ending" ELSE lifeBar[e]
  <2>1. CASE recs[e] = None
    BY <1>1, <1>2, <2>1 DEF lifeBar, LifeIn, IsActive
  <2>2. CASE recs[e] # None /\ cluster.execs[e] # None
    <3>1. IsActive(rows, e) /\ IsActive(rows', e)
      BY <1>4, <2>2 DEF SInv, ActiveIsStored
    <3> QED BY <1>1, <2>2, <3>1 DEF lifeBar, LifeIn
  <2>3. CASE recs[e] # None /\ cluster.execs[e] = None
    <3>1. IsActive(rows', e) /\ lifeBar'[e] = "ending"
      BY <1>1, <1>2, <2>3 DEF lifeBar, LifeIn, IsActive
    <3>2. lifeBar[e] \in {"unknown", "over", "ending"}
      BY <2>3 DEF lifeBar, LifeIn
    <3> QED BY <2>3, <3>1, <3>2
  <2> QED BY <2>1, <2>2, <2>3
<1>7. lifeBar' = [e \in Exec |-> IF e \in back THEN "ending" ELSE lifeBar[e]]
  <2> DEFINE bar == lifeBar'
  <2>1. bar = [e \in Exec |-> bar[e]]
    BY DEF lifeBar, LifeIn
  <2>2. \A e \in Exec : bar[e] = IF e \in back THEN "ending" ELSE lifeBar[e]
    BY <1>6
  <2> HIDE DEF bar, back
  <2>3. bar = [e \in Exec |-> IF e \in back THEN "ending" ELSE lifeBar[e]]
    BY <2>1, <2>2
  <2> QED BY <2>3 DEF bar
<1>8. back \in SUBSET {e \in Exec : lifeBar[e] \in {"over", "unknown"}}
  OBVIOUS
<1> HIDE DEF back
<1>9. Life!TakeBack
  BY <1>7, <1>8 DEF Life!TakeBack
<1> QED BY <1>1, <1>5, <1>9

\* Slot s has nothing more to write.
LEMMA SlotFreed ==
  ASSUME SInv, NEW s \in Slot, pending' = [pending EXCEPT ![s] = None]
  PROVE  /\ pending' \in [Slot -> Tail \cup {None}]
         /\ \A t \in Slot, e \in Exec : EndOf(pending', t, e) => EndOf(pending, t, e) /\ t # s
BY DEF SInv, EndOf

LEMMA EndStep ==
  ASSUME SInv, NEW s \in Slot, End(s)
  PROVE  SInv' /\ Onward
<1> DEFINE e == pending[s].ends
<1>1. /\ pending[s] # None /\ pending[s] \in Tail
      /\ UNCHANGED <<cluster, saved, restarts>>
      /\ pending' = [pending EXCEPT ![s] = None]
  BY DEF End, SInv, vars
<1>2. /\ pending' \in [Slot -> Tail \cup {None}]
      /\ \A t \in Slot, f \in Exec : EndOf(pending', t, f) => EndOf(pending, t, f) /\ t # s
  BY <1>1, SlotFreed
<1>3. CASE e = None
  <2>1. rows' = rows
    BY <1>3 DEF End
  <2> QED BY <1>1, <1>2, <2>1, StutterStep
<1>4. CASE e # None
  <2>1. e \in Exec /\ pending[s].result \in BOOLEAN /\ EndOf(pending, s, e)
    BY <1>1, <1>4 DEF Tail, EndOf
  <2>2. PICK rs \in Pruned(Complete(rows, e, pending[s].result), limit, e) :
          rows' = IF Used(rs) > limit THEN Complete(rs, e, FALSE) ELSE rs
    BY <1>4 DEF End
  <2> HIDE DEF e
  <2>3. /\ cluster.execs[e] = None /\ IsActive(rows, e)
        /\ \A t \in Slot : EndOf(pending, t, e) => t = s
    BY <2>1 DEF SInv, EndsAwaited
  <2> DEFINE done == Complete(rows, e, pending[s].result)
  <2>4. /\ Exact(done) /\ done[e] # None /\ done[e].status = "finished"
        /\ \A f \in Exec \ {e} : done[f] = rows[f]
    BY <2>1, <2>3, CompleteLemma DEF SInv, IsActive
  <2> HIDE DEF done
  <2>5. Exact(rs)
    BY <2>2, <2>4, PrunedLemma DEF done
  <2>6. PICK gone \in SUBSET (Finished(done) \ {e}) :
          \A f \in Exec : rs[f] = IF f \in gone THEN None ELSE done[f]
    BY <2>2, <2>4, PrunedLemma DEF done
  <2>7. rs[e] # None /\ rs[e].status = "finished"
    BY <2>1, <2>4, <2>6
  <2>8. /\ Exact(rows') /\ rows'[e] # None /\ rows'[e].status = "finished"
        /\ \A f \in Exec \ {e} : rows'[f] = rs[f]
    <3>1. CASE Used(rs) > limit
      BY <2>1, <2>2, <2>5, <2>7, <3>1, CompleteLemma
    <3>2. CASE ~ (Used(rs) > limit)
      BY <2>2, <2>5, <2>7, <3>2
    <3> QED BY <3>1, <3>2
  <2>9. Deleted(rows, rows', e, gone)
    BY <2>4, <2>6, <2>8 DEF Deleted, Finished
  <2>10. OthersKept(cluster, cluster', e)
    BY <1>1 DEF OthersKept
  <2>11. SInv'
    BY <1>1, <1>2, <2>1, <2>3, <2>8, <2>9, <2>10, MovesInv DEF SInv
  <2>12. lifeBar[e] \in {"ending"} /\ lifeBar'[e] = "over"
    BY <1>1, <2>1, <2>3, <2>8 DEF lifeBar, LifeIn, IsActive
  <2>13. Life!Goes(e, {"ending"}, "over")
    BY <2>1, <2>9, <2>10, <2>12, MovesLife
  <2> QED BY <1>1, <2>1, <2>11, <2>13, GoesIsOnward
<1> QED BY <1>3, <1>4

LEMMA FailWriteStep ==
  ASSUME SInv, NEW s \in Slot, FailWrite(s)
  PROVE  SInv' /\ Onward
<1>1. /\ UNCHANGED <<cluster, saved, rows, restarts>>
      /\ pending' = [pending EXCEPT ![s] = None]
  BY DEF FailWrite
<1> QED BY <1>1, SlotFreed, StutterStep

\* What is loaded is what the table has of active executions.
LEMMA LoadedLemma ==
  ASSUME NEW rs, Exact(rs)
  PROVE  /\ Loaded(rs) \in [Exec -> ExecRec \cup {None}]
         /\ \A e \in Exec : IF IsActive(rs, e)
                            THEN Loaded(rs)[e] # None /\ Loaded(rs)[e].status = "queued"
                            ELSE Loaded(rs)[e] = None
<1> DEFINE new(e) == [status |-> "queued", pool |-> rs[e].pool, node |-> None, env |-> rs[e].env]
<1>1. ASSUME NEW e \in Exec, IsActive(rs, e) PROVE new(e) \in ExecRec
  <2>1. rs[e].pool \in Pool /\ rs[e].env \in Env
    BY <1>1 DEF IsActive, Exact, Row
  <2> QED BY <2>1 DEF ExecRec
<1>2. Loaded(rs) = [e \in Exec |-> IF IsActive(rs, e) THEN new(e) ELSE None]
  BY DEF Loaded
<1>3. \A e \in Exec : new(e).status = "queued"
  OBVIOUS
<1> HIDE DEF new
<1>4. Loaded(rs) \in [Exec -> ExecRec \cup {None}]
  BY <1>1, <1>2
<1> QED BY <1>1, <1>2, <1>3, <1>4, NoneApart

LEMMA MigratedLemma ==
  ASSUME NEW c, WellFormed(c), NEW id
  PROVE  WellFormed(Migrated(c, id))
BY DEF Migrated, WellFormed

LEMMA RestartStep ==
  ASSUME SInv, Restart
  PROVE  SInv' /\ Onward
<1>1. PICK id \in [Legacy(saved) -> NewEnvs] :
        /\ saved' = Migrated(saved, id)
        /\ cluster' = [Migrated(saved, id) EXCEPT !.execs = Loaded(rows)]
  BY DEF Restart
<1>2. WellFormed(saved')
  BY <1>1, MigratedLemma DEF SInv
<1>3. /\ Loaded(rows) \in [Exec -> ExecRec \cup {None}]
      /\ \A e \in Exec : IF IsActive(rows, e)
                         THEN Loaded(rows)[e] # None /\ Loaded(rows)[e].status = "queued"
                         ELSE Loaded(rows)[e] = None
  BY LoadedLemma DEF SInv
<1>4. WellFormed(cluster') /\ cluster'.execs = Loaded(rows)
  BY <1>1, <1>2, <1>3, PartsReplaced
<1>5. /\ rows' \in Pruned(Requeued(rows), limit, None)
      /\ pending' = [s \in Slot |-> None] /\ restarts' = restarts + 1
  BY DEF Restart
<1> DEFINE again == Requeued(rows)
<1>6. /\ Exact(again)
      /\ \A e \in Exec : IF IsActive(rows, e) THEN IsActive(again, e) ELSE again[e] = rows[e]
  BY RequeuedLemma DEF SInv
<1> HIDE DEF again
<1>7. Exact(rows')
  BY <1>5, <1>6, PrunedLemma DEF again
<1>8. PICK gone \in SUBSET (Finished(again) \ {None}) :
        \A e \in Exec : rows'[e] = IF e \in gone THEN None ELSE again[e]
  BY <1>5, <1>6, PrunedLemma DEF again
<1>9. gone \subseteq Finished(rows)
  BY <1>6, <1>8 DEF Finished, IsActive
<1>10. ASSUME NEW e \in Exec
       PROVE  IF IsActive(rows, e) THEN IsActive(rows', e)
              ELSE rows'[e] = IF e \in gone THEN None ELSE rows[e]
  <2>1. IsActive(rows, e) => e \notin gone
    BY <1>9 DEF Finished, IsActive
  <2> QED BY <1>6, <1>8, <2>1 DEF IsActive
<1>11. SInv'
  <2>1. pending' \in [Slot -> Tail \cup {None}]
    BY <1>5
  <2>2. ActiveIsStored(cluster', rows')
    BY <1>3, <1>4, <1>10 DEF ActiveIsStored
  <2>3. EndsAwaited(cluster', rows', pending')
    BY <1>5 DEF EndsAwaited, EndOf
  <2> QED BY <1>2, <1>4, <1>7, <2>1, <2>2, <2>3 DEF SInv
<1>12. gone \in SUBSET Life!Over
  BY <1>9, FinishedIsOver DEF Life!Over
<1> DEFINE next(e) == IF e \in gone THEN "unknown"
                      ELSE IF lifeBar[e] \in {"running", "ending"} THEN "waiting"
                      ELSE lifeBar[e]
<1>13. ASSUME NEW e \in Exec PROVE lifeBar'[e] = next(e)
  <2>1. CASE IsActive(rows, e)
    <3>1. lifeBar[e] \in {"running", "waiting", "ending"}
      BY <2>1 DEF lifeBar, LifeIn, IsActive
    <3>2. lifeBar'[e] = "waiting"
      BY <1>3, <1>4, <1>10, <2>1 DEF lifeBar, LifeIn
    <3>3. e \notin gone
      BY <1>9, <2>1 DEF Finished, IsActive
    <3> QED BY <3>1, <3>2, <3>3
  <2>2. CASE ~ IsActive(rows, e)
    <3>1. cluster.execs[e] = None /\ cluster'.execs[e] = None
      BY <1>3, <1>4, <2>2 DEF SInv, ActiveIsStored
    <3>2. lifeBar[e] \in {"unknown", "over"}
      BY <2>2, <3>1 DEF lifeBar, LifeIn, IsActive
    <3>3. lifeBar'[e] = IF e \in gone THEN "unknown" ELSE lifeBar[e]
      BY <1>10, <2>2, <3>1 DEF lifeBar, LifeIn, IsActive
    <3> QED BY <3>2, <3>3
  <2> QED BY <2>1, <2>2
<1>14. lifeBar' = [e \in Exec |-> next(e)]
  <2> DEFINE bar == lifeBar'
  <2>1. bar = [e \in Exec |-> bar[e]]
    BY DEF lifeBar, LifeIn
  <2>2. \A e \in Exec : bar[e] = next(e)
    BY <1>13
  <2> HIDE DEF bar, next
  <2>3. bar = [e \in Exec |-> next(e)]
    BY <2>1, <2>2
  <2> QED BY <2>3 DEF bar
<1>15. Life!Restart
  BY <1>5, <1>12, <1>14 DEF Life!Restart
<1> QED BY <1>11, <1>15 DEF Onward

LEMMA NodeSavesStep ==
  ASSUME SInv, NodeSaves
  PROVE  SInv' /\ Onward
<1>1. StepKeeps
  BY NodeHandlersKeep DEF NodeSaves, Saving, SInv
<1>2. /\ rows' = SaveAll(rows, Changed) /\ saved' = Stored(cluster')
      /\ pending' = pending /\ restarts' = restarts
  BY DEF NodeSaves, Saving
<1> QED BY <1>1, <1>2, SavingQuiet DEF Onward

LEMMA UserSavesStep ==
  ASSUME SInv, UserSaves
  PROVE  SInv' /\ Onward
<1>1. StepKeeps
  BY UserHandlersKeep DEF UserSaves, Saving, SInv
<1>2. /\ rows' = SaveAll(rows, Changed) /\ saved' = Stored(cluster')
      /\ pending' = pending /\ restarts' = restarts
  BY DEF UserSaves, Saving
<1> QED BY <1>1, <1>2, SavingQuiet DEF Onward

LEMMA PreparingStep ==
  ASSUME SInv, Preparing
  PROVE  SInv' /\ Onward
<1>1. UNCHANGED <<cluster, saved, rows, pending, restarts>>
  BY DEF Preparing, BeginCreate, BeginUpdate, PrepareArtifact, AbandonRequest, storeVars
<1> QED BY <1>1, StutterStep DEF SInv

LEMMA SaveLaterStep ==
  ASSUME SInv, NEW s \in Slot,
         \/ \E i \in Env : SaveLater(s, RestartEnvironment(i))
         \/ \E r \in Req : SaveLater(s, CommitUpdate(r))
  PROVE  SInv' /\ Onward
<1>1. StepKeeps
  BY MovingHandlersKeep DEF SaveLater, SInv
<1>2. /\ saved' = Stored(cluster') /\ rows' = rows /\ restarts' = restarts
      /\ pending' = [pending EXCEPT ![s] =
           [recs |-> Changed, ends |-> None, result |-> FALSE, node |-> None]]
  BY DEF SaveLater
<1> QED BY <1>1, <1>2, SaveLaterQuiet DEF Onward

LEMMA PanicStep ==
  ASSUME SInv, NEW p, PanicMoving(p)
  PROVE  SInv' /\ Onward
<1>1. /\ cluster' = Requeue(cluster, p, NewId(FreshPools)) /\ NewId(FreshPools) \in Pool
      /\ UNCHANGED <<saved, rows, pending, restarts>>
  BY FreshPoolInPool DEF PanicMoving, storeVars
<1>2. StepKeeps
  BY <1>1, RequeueKeeps DEF SInv, StepKeeps
<1>3. WellFormed(saved') /\ Exact(rows') /\ SameRows(rows, rows')
  BY <1>1 DEF SInv, SameRows, IsActive
<1> QED BY <1>1, <1>2, <1>3, QuietStep DEF SInv, Onward

LEMMA MovingStep ==
  ASSUME SInv, NEW s \in Slot,
         \/ \E i \in Env : RestartSaves(s, i)
         \/ \E r \in Req : UpdateSaves(s, r)
  PROVE  SInv' /\ Onward
BY SaveLaterStep, PanicStep DEF RestartSaves, UpdateSaves

LEMMA NextStep ==
  ASSUME SInv, [StoreNext]_allVars
  PROVE  /\ SInv' /\ LifeStep
         /\ Onward \/ \E s \in Slot : Save(s)
<1>1. CASE SubmitStep
  BY <1>1, SubmitAcceptedStep, SubmitRefusedStep DEF SubmitStep, LifeStep
<1>2. CASE WorkStep
  BY <1>2, TakeWorkStep, ReportStep DEF WorkStep, LifeStep
<1>3. CASE WriteStep
  BY <1>3, SaveStep, EndStep, FailWriteStep DEF WriteStep, LifeStep
<1>4. CASE Collect
  BY <1>4, PruneStep DEF Collect, vars, LifeStep
<1>5. CASE \E l \in Limits : SetStorageLimit(l)
  BY <1>5, PruneStep DEF SetStorageLimit, vars, LifeStep
<1>6. CASE UNCHANGED allVars
  BY <1>6, StutterStep DEF SInv, allVars, vars, storeVars, LifeStep
<1> QED BY <1>1, <1>2, <1>3, <1>4, <1>5, <1>6, NodeSavesStep, UserSavesStep,
           PreparingStep, MovingStep, RestartStep DEF StoreNext, LifeStep

\* What is over is active again only through a write.
LEMMA OnwardRevivesNone ==
  ASSUME SInv, Onward, NEW e \in Finished(rows)
  PROVE  ~ IsActive(rows', e)
<1>1. e \in Exec /\ lifeBar[e] = "over"
  BY FinishedIsOver
<1>2. lifeBar'[e] \in {"over", "unknown"}
  <2>1. ASSUME NEW f \in Exec, NEW from, NEW to, Life!Goes(f, from, to), "over" \notin from
        PROVE  lifeBar'[e] \in {"over", "unknown"}
    BY <1>1, <2>1 DEF Life!Goes
  <2>2. CASE \E f \in Exec : Life!Accept(f) \/ Life!HandOut(f) \/ Life!Report(f) \/ Life!Conclude(f)
    BY <2>1, <2>2 DEF Life!Accept, Life!HandOut, Life!Report, Life!Conclude
  <2>3. CASE Life!Forget
    BY <1>1, <2>3 DEF Life!Forget
  <2>4. CASE Life!Restart
    BY <1>1, <2>4 DEF Life!Restart
  <2>5. CASE lifeBar' = lifeBar
    BY <1>1, <2>5
  <2> QED BY <2>2, <2>3, <2>4, <2>5 DEF Onward
<1> QED BY <1>1, <1>2 DEF lifeBar, LifeIn, IsActive

LEMMA SaveRevivesStale ==
  ASSUME SInv, NEW s \in Slot, Save(s), NEW e \in Finished(rows), IsActive(rows', e)
  PROVE  StaleSave(s, e) /\ pending'[s] # pending[s]
<1>1. /\ pending[s] # None /\ pending[s] \in Tail /\ pending[s].recs # NoRecs
      /\ rows' = SaveAll(rows, pending[s].recs)
      /\ pending'[s] = IF pending[s].ends = None THEN None
                       ELSE [pending[s] EXCEPT !.recs = NoRecs]
  BY DEF Save, SInv
<1>2. pending[s].recs \in [Exec -> ExecRec \cup {None}]
  BY <1>1 DEF Tail
<1>3. e \in Exec /\ ~ IsActive(rows, e)
  BY DEF Finished, IsActive
<1>4. pending[s].recs[e] # None
  <2>1. pending[s].recs[e] = None => rows'[e] = rows[e]
    BY <1>1, <1>2, <1>3, SaveAllLemma DEF SInv
  <2> QED BY <1>3, <2>1 DEF IsActive
<1>5. pending'[s] # pending[s]
  <2>1. [pending[s] EXCEPT !.recs = NoRecs].recs = NoRecs
    BY <1>1 DEF Tail
  <2> QED BY <1>1, <2>1
<1> QED BY <1>1, <1>4, <1>5 DEF StaleSave

-----------------------------------------------------------------------------
(* The types of what the controller goes by, wherever its executions are. *)

\* The state of the controller itself has the type it should.
TypesHold == Typed(cluster, requests, runs) /\ files \subseteq Artifact

LEMMA ClusterTyped ==
  ASSUME TypesHold, cluster' \in Cluster, UNCHANGED <<requests, files>>,
         runs' \subseteq Node \X Exec
  PROVE  TypesHold'
BY DEF TypesHold, Typed

LEMMA NodeHandlersTyped ==
  ASSUME TypesHold
  PROVE  \A n \in Node :
           /\ Heartbeat(n) \/ StartAgent(n) \/ DeleteNode(n) => TypesHold'
           /\ \A p \in Pool : AddWarmInstance(n, p) \/ RemoveIdleInstance(n, p) => TypesHold'
           /\ \A i \in Image : ImageArrived(n, i) => TypesHold'
           /\ \A a \in Artifact : ArtifactArrived(n, a) => TypesHold'
<1>1. cluster \in Cluster /\ runs \subseteq Node \X Exec
  BY DEF TypesHold, Typed
<1>2. NodesSwept => cluster' \in Cluster
  BY SweepLemma DEF NodesSwept
<1>3. ASSUME NEW n \in Node, Heartbeat(n) PROVE TypesHold'
  BY <1>1, <1>2, <1>3, HeartbeatSweeps, ClusterTyped DEF Heartbeat
<1>4. ASSUME NEW n \in Node, StartAgent(n) PROVE TypesHold'
  <2>1. runs' \subseteq Node \X Exec /\ UNCHANGED <<requests, files>>
    BY <1>1, <1>4 DEF StartAgent
  <2> QED BY <1>1, <1>2, <1>4, <2>1, StartAgentSweeps, ClusterTyped
<1>5. ASSUME NEW n \in Node, DeleteNode(n) PROVE TypesHold'
  <2> DEFINE d == [cluster EXCEPT !.nodes = [cluster.nodes EXCEPT ![n] = None]]
  <2>1. runs' \subseteq Node \X Exec /\ UNCHANGED <<requests, files>>
    BY <1>1, <1>5 DEF DeleteNode
  <2>2. [cluster.nodes EXCEPT ![n] = None] \in [Node -> NodeRec \cup {None}]
    BY <1>1 DEF Cluster
  <2>3. d \in Cluster
    BY <1>1, <2>2, ClusterUpdates
  <2>4. cluster' = ScheduleQueued(d)
    BY <1>1, <1>5 DEF DeleteNode, Cluster
  <2> HIDE DEF d
  <2> QED BY <2>1, <2>3, <2>4, SweepLemma, ClusterTyped
<1>6. ASSUME NEW n \in Node, NEW p \in Pool, AddWarmInstance(n, p) \/ RemoveIdleInstance(n, p)
      PROVE  TypesHold'
  BY <1>1, <1>2, <1>6, WarmSweeps, ClusterTyped DEF AddWarmInstance, RemoveIdleInstance
<1>7. ASSUME NEW n \in Node, NEW i \in Image, ImageArrived(n, i) PROVE TypesHold'
  BY <1>1, <1>2, <1>7, ImageArrivedSweeps, ClusterTyped DEF ImageArrived
<1>8. ASSUME NEW n \in Node, NEW a \in Artifact, ArtifactArrived(n, a) PROVE TypesHold'
  BY <1>1, <1>2, <1>8, ArtifactArrivedSweeps, ClusterTyped DEF ArtifactArrived
<1> QED BY <1>3, <1>4, <1>5, <1>6, <1>7, <1>8

LEMMA ImagesAndPoolsTyped ==
  ASSUME TypesHold
  PROVE  /\ \A i \in Image, kind \in {"vm", "runtime"} :
              ImportImage(i, kind) \/ UpdateImage(i, kind) => TypesHold'
         /\ \A i \in Image : DeleteImage(i) => TypesHold'
         /\ \A p \in UserPool, cfg \in PoolConfig : CreatePool(p, cfg) => TypesHold'
         /\ \A p \in Pool : DeletePool(p) => TypesHold'
<1>1. cluster \in Cluster /\ runs \subseteq Node \X Exec
  BY DEF TypesHold, Typed
<1>2. ASSUME NEW i \in Image, NEW kind \in {"vm", "runtime"}, ImportImage(i, kind)
      PROVE  TypesHold'
  BY <1>1, <1>2, ImportImageWork, ClusterTyped DEF ImportImage
<1>3. ASSUME NEW i \in Image, NEW kind \in {"vm", "runtime"}, UpdateImage(i, kind)
      PROVE  TypesHold'
  BY <1>1, <1>3, UpdateImageWork, ClusterTyped DEF UpdateImage
<1>4. ASSUME NEW i \in Image, DeleteImage(i) PROVE TypesHold'
  BY <1>1, <1>4, DeleteImageWork, ClusterTyped DEF DeleteImage
<1>5. ASSUME NEW p \in UserPool, NEW cfg \in PoolConfig, CreatePool(p, cfg) PROVE TypesHold'
  <2> DEFINE x == [env |-> None, cfg |-> cfg]
  <2>1. p \in Pool /\ x \in PoolRec
    BY ControllerAssumption DEF PoolRec
  <2>2. cluster' = [cluster EXCEPT !.pools = [cluster.pools EXCEPT ![p] = x]]
    BY <1>1, <1>5 DEF CreatePool, Cluster
  <2> HIDE DEF x
  <2>3. [cluster.pools EXCEPT ![p] = x] \in [Pool -> PoolRec \cup {None}]
    BY <1>1, <2>1 DEF Cluster
  <2>4. cluster' \in Cluster
    BY <1>1, <2>2, <2>3, ClusterUpdates
  <2> QED BY <1>1, <1>5, <2>4, ClusterTyped DEF CreatePool
<1>6. ASSUME NEW p \in Pool, DeletePool(p) PROVE TypesHold'
  BY <1>1, <1>6, DropPoolLemma, ClusterTyped DEF DeletePool
<1> QED BY <1>2, <1>3, <1>4, <1>5, <1>6

LEMMA RequestTyped ==
  ASSUME TypesHold, NEW r \in Req, NEW x \in CreateReq \cup UpdateReq \cup {None},
         x # None /\ ~ x.built => x.cfg.artifact # None
  PROVE  Typed(cluster, [requests EXCEPT ![r] = x], runs)
<1> DEFINE q == [requests EXCEPT ![r] = x]
<1>1. q \in [Req -> CreateReq \cup UpdateReq \cup {None}]
  BY DEF TypesHold, Typed
<1>2. \A y \in Req : q[y] = IF y = r THEN x ELSE requests[y]
  BY DEF TypesHold, Typed
<1> HIDE DEF q
<1>3. \A y \in Req : q[y] # None /\ ~ q[y].built => q[y].cfg.artifact # None
  BY <1>2 DEF TypesHold, Typed
<1> QED BY <1>1, <1>3 DEF TypesHold, Typed, q

LEMMA RequestHandlersTyped ==
  ASSUME TypesHold, NEW r \in Req
  PROVE  /\ \A cfg \in EnvConfig : BeginCreate(r, cfg) => TypesHold'
         /\ \A i \in Env, cfg \in EnvConfig : BeginUpdate(r, i, cfg) => TypesHold'
         /\ PrepareArtifact(r) \/ AbandonRequest(r) => TypesHold'
<1>1. ASSUME NEW cfg \in EnvConfig, BeginCreate(r, cfg) PROVE TypesHold'
  <2> DEFINE x == [env |-> None, old |-> None, cfg |-> cfg, built |-> cfg.artifact = None]
  <2>1. x \in CreateReq \cup UpdateReq
    BY ControllerAssumption DEF CreateReq
  <2>2. x # None /\ ~ x.built => x.cfg.artifact # None
    OBVIOUS
  <2> HIDE DEF x
  <2>3. Typed(cluster, [requests EXCEPT ![r] = x], runs)
    BY <2>1, <2>2, RequestTyped
  <2> QED BY <1>1, <2>3 DEF TypesHold, BeginCreate, x
<1>2. ASSUME NEW i \in Env, NEW cfg \in EnvConfig, BeginUpdate(r, i, cfg) PROVE TypesHold'
  <2> DEFINE x == [env |-> i, old |-> cluster.envs[i], cfg |-> cfg,
                   built |-> cfg.artifact = None \/ SamePackages(cluster.envs[i].cfg, cfg)]
  <2>1. cluster.envs[i] \in EnvRec
    BY <1>2, ClusterParts DEF TypesHold, Typed, BeginUpdate
  <2>2. x \in CreateReq \cup UpdateReq
    BY <2>1, ControllerAssumption DEF UpdateReq
  <2>3. x # None /\ ~ x.built => x.cfg.artifact # None
    OBVIOUS
  <2> HIDE DEF x
  <2>4. Typed(cluster, [requests EXCEPT ![r] = x], runs)
    BY <2>2, <2>3, RequestTyped
  <2> QED BY <1>2, <2>4 DEF TypesHold, BeginUpdate, x
<1>3. ASSUME PrepareArtifact(r) PROVE TypesHold'
  <2> DEFINE x == [requests[r] EXCEPT !.built = TRUE]
  <2>1. requests[r] \in CreateReq \cup UpdateReq
    BY <1>3 DEF TypesHold, Typed, PrepareArtifact
  <2>2. x \in CreateReq \cup UpdateReq /\ x.built
    BY <2>1 DEF CreateReq, UpdateReq
  <2>3. requests' = [requests EXCEPT ![r] = x]
    BY <1>3 DEF PrepareArtifact, TypesHold, Typed
  <2> HIDE DEF x
  <2>4. Typed(cluster, [requests EXCEPT ![r] = x], runs)
    BY <2>2, RequestTyped
  <2>5. requests[r].cfg.artifact \in Artifact
    <3>1. requests[r].cfg \in Config
      BY <2>1 DEF CreateReq, UpdateReq
    <3>2. requests[r].cfg.artifact # None
      BY <1>3 DEF TypesHold, Typed, PrepareArtifact
    <3> QED BY <3>1, <3>2 DEF Config
  <2> QED BY <1>3, <2>3, <2>4, <2>5 DEF TypesHold, PrepareArtifact
<1>4. ASSUME AbandonRequest(r) PROVE TypesHold'
  <2>1. Typed(cluster, [requests EXCEPT ![r] = None], runs)
    BY RequestTyped
  <2> QED BY <1>4, <2>1 DEF TypesHold, AbandonRequest
<1> QED BY <1>1, <1>2, <1>3, <1>4

\* The cluster takes a value of its type, and request r is done.
LEMMA RequestDone ==
  ASSUME TypesHold, NEW r \in Req, cluster' \in Cluster,
         requests' = [requests EXCEPT ![r] = None], UNCHANGED <<files, runs>>
  PROVE  TypesHold'
<1>1. Typed(cluster, [requests EXCEPT ![r] = None], runs)
  BY RequestTyped
<1> QED BY <1>1 DEF TypesHold, Typed

\* An environment with its pool.
LEMMA ManagedTyped ==
  ASSUME NEW c \in Cluster, NEW p \in Pool, NEW i \in Env, NEW cfg \in Config,
         NEW d, d = [c EXCEPT !.pools[p] = [env |-> i, cfg |-> cfg],
                              !.envs[i] = [pool |-> p, cfg |-> cfg]]
  PROVE  d \in Cluster
<1> DEFINE x == [env |-> i, cfg |-> cfg]
           v == [pool |-> p, cfg |-> cfg]
           g == [c EXCEPT !.pools = [c.pools EXCEPT ![p] = x]]
<1>1. x \in PoolRec /\ v \in EnvRec
  BY DEF PoolRec, EnvRec
<1>2. d = [g EXCEPT !.envs = [c.envs EXCEPT ![i] = v]]
  BY DEF Cluster
<1> HIDE DEF x, v
<1>3. /\ [c.pools EXCEPT ![p] = x] \in [Pool -> PoolRec \cup {None}]
      /\ [c.envs EXCEPT ![i] = v] \in [Env -> EnvRec \cup {None}]
  BY <1>1 DEF Cluster
<1>4. g \in Cluster
  BY <1>3, ClusterUpdates
<1> HIDE DEF g
<1> QED BY ONLY <1>2, <1>3, <1>4, ClusterUpdates

LEMMA CommitCreateTyped ==
  ASSUME TypesHold, NEW r \in Req, CommitCreate(r)
  PROVE  TypesHold'
<1> DEFINE i == NewId(FreshEnvs)
           p == NewId(FreshPools)
           cfg == requests[r].cfg
<1>1. cluster \in Cluster /\ i \in Env /\ p \in Pool
  BY Fresh DEF CommitCreate, TypesHold, Typed
<1>2. cfg \in Config
  <2>1. requests[r] \in CreateReq \cup UpdateReq
    BY DEF TypesHold, Typed, CommitCreate
  <2> QED BY <2>1 DEF CreateReq, UpdateReq
<1>3. /\ cluster' = [cluster EXCEPT !.pools[p] = [env |-> i, cfg |-> cfg],
                                    !.envs[i] = [pool |-> p, cfg |-> cfg]]
      /\ requests' = [requests EXCEPT ![r] = None] /\ UNCHANGED <<files, runs>>
  BY DEF CommitCreate
<1> HIDE DEF i, p, cfg
<1>4. cluster' \in Cluster
  BY <1>1, <1>2, <1>3, ManagedTyped
<1> QED BY <1>3, <1>4, RequestDone

LEMMA DeleteEnvironmentTyped ==
  ASSUME TypesHold, NEW i \in Env, DeleteEnvironment(i)
  PROVE  TypesHold'
<1> DEFINE env == cluster.envs[i]
           gone == IF env.cfg.artifact # None /\ LastUser(i) THEN {env.cfg.artifact} ELSE {}
           b == DropPool(cluster, env.pool)
           left == [b EXCEPT !.envs[i] = None]
           f == [n \in Node |-> [left.nodes[n] EXCEPT !.artifacts = left.nodes[n].artifacts \ gone]]
           d == [left EXCEPT !.nodes = [n \in Node |-> IF left.nodes[n] = None THEN None
                                                       ELSE f[n]]]
<1>1. cluster \in Cluster /\ env.pool \in Pool
  <2>1. env \in EnvRec
    BY ClusterParts DEF TypesHold, Typed, DeleteEnvironment
  <2> QED BY <2>1 DEF EnvRec, TypesHold, Typed
<1>2. /\ cluster' = d /\ files' = files \ gone /\ UNCHANGED <<requests, runs>>
  BY DEF DeleteEnvironment
<1> HIDE DEF env, gone, d
<1>3. b \in Cluster
  BY <1>1, DropPoolLemma
<1> HIDE DEF b
<1>4. left \in Cluster
  <2>1. left = [b EXCEPT !.envs = [b.envs EXCEPT ![i] = None]]
    BY <1>3 DEF Cluster
  <2>2. [b.envs EXCEPT ![i] = None] \in [Env -> EnvRec \cup {None}]
    BY <1>3 DEF Cluster
  <2> HIDE DEF left
  <2> QED BY ONLY <1>3, <2>1, <2>2, ClusterUpdates
<1> HIDE DEF left
<1>5. ASSUME NEW n \in Node, left.nodes[n] # None PROVE f[n] \in NodeRec
  <2>1. left.nodes[n] \in NodeRec
    BY <1>4, <1>5, ClusterParts
  <2>2. left.nodes[n].artifacts \ gone \in SUBSET Artifact
    BY <2>1 DEF NodeRec
  <2> QED BY ONLY <1>5, <2>1, <2>2, NodeUpdates
<1> HIDE DEF f
<1>6. d \in Cluster
  BY <1>4, <1>5, AllNodesChanged DEF d
<1> QED BY <1>2, <1>6 DEF TypesHold, Typed

\* restart_environment_pool, where it does not find the old pool gone.
LEMMA MovedTyped ==
  ASSUME TypesHold, NEW i \in Env, NEW old \in Pool, NEW cfg \in Config,
         Claims(cluster, requests, i, old), FreshPools # {}, ~ OldPoolGone(old)
  PROVE  ScheduleQueued(RestartPool(cluster, i, old, NewId(FreshPools), cfg)) \in Cluster
<1> DEFINE p == NewId(FreshPools)
           d == RestartPool(cluster, i, old, p, cfg)
<1>1. cluster \in Cluster /\ p \in Pool /\ old # p
  BY Fresh DEF TypesHold, Typed
<1>2. Running(cluster, old) => cluster.pools[old] # None
  BY DEF OldPoolGone, Running
<1> HIDE DEF p
<1>3. Restarted(cluster, i, old, p, cfg, d)
  BY <1>1, <1>2, PoolReplaced
<1> HIDE DEF d
<1>4. d \in Cluster
  BY <1>3 DEF Restarted
<1> QED BY <1>4, SweepLemma DEF d, p

LEMMA RestartSavesTyped ==
  ASSUME TypesHold, NEW s \in Slot, NEW i \in Env, RestartSaves(s, i)
  PROVE  TypesHold'
<1>1. CASE cluster.envs[i] # None /\ OldPoolGone(cluster.envs[i].pool)
  <2>1. cluster.envs[i].pool \in Pool /\ NewId(FreshPools) \in Pool
    BY <1>1, ClusterParts, Fresh DEF TypesHold, Typed, EnvRec, RestartSaves, PanicMoving
  <2>2. cluster' = Requeue(cluster, cluster.envs[i].pool, NewId(FreshPools))
    BY <1>1 DEF RestartSaves, PanicMoving
  <2>3. cluster' \in Cluster
    BY <2>1, <2>2, RequeueLemma DEF TypesHold, Typed
  <2> QED BY <1>1, <2>3, ClusterTyped DEF RestartSaves, PanicMoving, TypesHold, Typed
<1>2. CASE cluster.envs[i] # None /\ ~ OldPoolGone(cluster.envs[i].pool)
  <2> DEFINE env == cluster.envs[i]
  <2>1. RestartEnvironment(i)
    BY <1>2 DEF RestartSaves, SaveLater
  <2>2. env \in EnvRec /\ Claims(cluster, requests, i, env.pool)
    BY <1>2, ClusterParts DEF TypesHold, Typed, Claims
  <2>3. env.pool \in Pool /\ env.cfg \in Config
    BY <2>2 DEF EnvRec
  <2>4. /\ cluster' = ScheduleQueued(RestartPool(cluster, i, env.pool, NewId(FreshPools), env.cfg))
        /\ FreshPools # {} /\ UNCHANGED <<requests, files, runs>>
    BY <2>1 DEF RestartEnvironment
  <2>5. ~ OldPoolGone(env.pool)
    BY <1>2
  <2> HIDE DEF env
  <2>6. cluster' \in Cluster
    BY <2>2, <2>3, <2>4, <2>5, MovedTyped
  <2> QED BY <2>4, <2>6, ClusterTyped DEF TypesHold, Typed
<1>3. CASE cluster.envs[i] = None
  BY <1>3 DEF RestartSaves, SaveLater, RestartEnvironment
<1> QED BY <1>1, <1>2, <1>3

LEMMA UpdateSavesTyped ==
  ASSUME TypesHold, NEW s \in Slot, NEW r \in Req, UpdateSaves(s, r)
  PROVE  TypesHold'
<1> DEFINE i == requests[r].env
           old == requests[r].old
           cfg == requests[r].cfg
           panics == /\ requests[r] # None /\ i # None /\ requests[r].built
                     /\ Rebuilds(old.cfg, cfg) /\ OldPoolGone(old.pool)
<1>1. requests[r] # None /\ i # None
  BY DEF UpdateSaves, SaveLater, CommitUpdate
<1>2. /\ i \in Env /\ old.pool \in Pool /\ cfg \in Config
      /\ Claims(cluster, requests, i, old.pool)
  <2>1. requests[r] \in CreateReq \cup UpdateReq
    BY <1>1 DEF TypesHold, Typed
  <2>2. requests[r] \in UpdateReq
    BY <1>1, <2>1 DEF CreateReq
  <2>3. i \in Env /\ old \in EnvRec /\ cfg \in Config
    BY <2>2 DEF UpdateReq
  <2> QED BY <1>1, <2>3 DEF EnvRec, Claims
<1>3. CASE panics
  <2>1. /\ cluster' = Requeue(cluster, old.pool, NewId(FreshPools)) /\ FreshPools # {}
        /\ requests' = [requests EXCEPT ![r] = None] /\ UNCHANGED <<files, runs>>
    BY <1>3 DEF UpdateSaves, PanicMoving
  <2>2. NewId(FreshPools) \in Pool
    BY <2>1, Fresh
  <2> HIDE DEF i, old, cfg, panics
  <2>3. cluster' \in Cluster
    BY <1>2, <2>1, <2>2, RequeueLemma DEF TypesHold, Typed
  <2> QED BY <2>1, <2>3, RequestDone
<1>4. CASE ~ panics
  <2>1. CommitUpdate(r)
    BY <1>4 DEF UpdateSaves, SaveLater
  <2>2. requests' = [requests EXCEPT ![r] = None] /\ UNCHANGED <<files, runs>>
    BY <2>1 DEF CommitUpdate
  <2>3. CASE Rebuilds(old.cfg, cfg)
    <3>1. /\ ~ OldPoolGone(old.pool) /\ FreshPools # {}
          /\ cluster' = ScheduleQueued(
               RestartPool(cluster, i, old.pool, NewId(FreshPools), cfg))
      BY <1>4, <2>1, <2>3 DEF CommitUpdate
    <3> HIDE DEF i, old, cfg, panics
    <3>2. cluster' \in Cluster
      BY <1>2, <3>1, MovedTyped
    <3> QED BY <2>2, <3>2, RequestDone
  <2>4. CASE ~ Rebuilds(old.cfg, cfg)
    <3> DEFINE d == [cluster EXCEPT !.pools[old.pool] = [env |-> i, cfg |-> cfg],
                                    !.envs[i] = [pool |-> old.pool, cfg |-> cfg]]
    <3>1. cluster' = ScheduleQueued(d)
      BY <2>1, <2>4 DEF CommitUpdate
    <3>2. cluster \in Cluster
      BY DEF TypesHold, Typed
    <3> HIDE DEF i, old, cfg, panics
    <3>3. d \in Cluster
      BY <1>2, <3>2, ManagedTyped
    <3> HIDE DEF d
    <3>4. cluster' \in Cluster
      BY <3>1, <3>3, SweepLemma
    <3> QED BY <2>2, <3>4, RequestDone
  <2> QED BY <2>3, <2>4
<1> QED BY <1>3, <1>4

-----------------------------------------------------------------------------
(* What is saved, and is left alone by the handlers that do not save it. *)

\* What placing executions leaves alone: everything but them and what nodes count.
SameFiles(c, d) ==
  /\ d.images = c.images /\ d.pools = c.pools /\ d.envs = c.envs
  /\ \A n \in Node :
       IF c.nodes[n] = None THEN d.nodes[n] = None
       ELSE /\ d.nodes[n] # None
            /\ \A f \in {"images", "artifacts", "ready"} : d.nodes[n][f] = c.nodes[n][f]

LEMMA ScheduleFiles ==
  ASSUME NEW c \in Cluster, NEW e \in Exec, IsQueued(c, e), NEW d, d = Schedule(c, e)
  PROVE  SameFiles(c, d)
<1>1. CASE d = c
  BY <1>1 DEF SameFiles
<1>2. CASE Schedulable(c, c.execs[e].pool) /\ \E n \in Node : c.nodes[n] # None /\ d = Place(c, e, n)
  <2> DEFINE p == c.execs[e].pool
  <2>1. PICK n \in Node : c.nodes[n] # None /\ d = Place(c, e, n)
    BY <1>2
  <2>2. p = c.execs[e].pool
    OBVIOUS
  <2>3. c.pools[p] # None
    BY <1>2 DEF Schedulable
  <2> HIDE DEF p
  <2>4. /\ d.images = c.images /\ d.pools = c.pools /\ d.envs = c.envs
        /\ \A m \in Node : m # n => d.nodes[m] = c.nodes[m]
        /\ d.nodes[n] = TakeInstance(c.nodes[n], p, c.pools[p].cfg.size)
        /\ p \in Pool
    BY <2>1, <2>2, PlaceParts
  <2>5. c.nodes[n] \in NodeRec /\ c.pools[p].cfg.size \in Nat
    BY <2>1, <2>3, <2>4, ClusterParts DEF PoolRec, Config
  <2>6. /\ d.nodes[n] # None
        /\ d.nodes[n].images = c.nodes[n].images /\ d.nodes[n].artifacts = c.nodes[n].artifacts
        /\ d.nodes[n].ready = c.nodes[n].ready
    BY <2>4, <2>5, TakeInstanceParts
  <2> QED BY <2>1, <2>4, <2>6 DEF SameFiles
<1>3. d = c \/ (Schedulable(c, c.execs[e].pool) /\ \E n \in Node : c.nodes[n] # None /\ d = Place(c, e, n))
  BY ScheduleCases
<1> QED BY <1>1, <1>2, <1>3

LEMMA SubmitTyped ==
  ASSUME TypesHold, NEW e \in Exec, NEW i \in Env, NEW p \in Pool, NEW queue,
         CreateExecution(e, i, p, queue)
  PROVE  TypesHold' /\ SameFiles(cluster, cluster')
<1> DEFINE x == [status |-> "queued", pool |-> p, node |-> None, env |-> i]
           d == [cluster EXCEPT !.execs = [cluster.execs EXCEPT ![e] = x]]
<1>1. cluster \in Cluster
  BY DEF TypesHold, Typed
<1>2. x \in ExecRec /\ x # None /\ x.status = "queued"
  <2>1. x \in ExecRec /\ x.status = "queued"
    BY DEF ExecRec
  <2> QED BY <2>1, Apart
<1>3. cluster' = Schedule(d, e) /\ UNCHANGED <<requests, files, runs>>
  BY <1>1 DEF CreateExecution, Cluster
<1> HIDE DEF x
<1>4. /\ d \in Cluster
      /\ d.pools = cluster.pools /\ d.envs = cluster.envs /\ d.nodes = cluster.nodes
      /\ \A f \in Exec : d.execs[f] = IF f = e THEN x ELSE cluster.execs[f]
  BY <1>1, <1>2, ExecChanged
<1>5. d.images = cluster.images
  BY <1>1 DEF Cluster
<1> HIDE DEF d
<1>6. IsQueued(d, e)
  BY <1>2, <1>4 DEF IsQueued
<1>7. cluster' \in Cluster /\ Placed(d, cluster')
  BY <1>3, <1>4, <1>6, ScheduleLemma
<1>8. TypesHold'
  BY <1>3, <1>7, ClusterTyped DEF TypesHold, Typed
<1>9. SameFiles(d, cluster')
  BY <1>3, <1>4, <1>6, ScheduleFiles
<1>10. SameFiles(cluster, cluster')
  BY <1>4, <1>5, <1>9 DEF SameFiles
<1> QED BY <1>8, <1>10

LEMMA RequeueFiles ==
  ASSUME NEW c \in Cluster, NEW old \in Pool, NEW new \in Pool,
         NEW d, d = Requeue(c, old, new)
  PROVE  SameFiles(c, d)
<1>1. /\ d.images = c.images /\ d.pools = c.pools /\ d.envs = c.envs
      /\ \A n \in Node : d.nodes[n] = None <=> c.nodes[n] = None
  BY RequeueLemma
<1>2. ASSUME NEW n \in Node, c.nodes[n] # None
      PROVE  \E u : d.nodes[n] = [c.nodes[n] EXCEPT !.used = u]
  BY <1>2 DEF Requeue, Cluster
<1>3. ASSUME NEW n \in Node, c.nodes[n] # None
      PROVE  /\ d.nodes[n].images = c.nodes[n].images
             /\ d.nodes[n].artifacts = c.nodes[n].artifacts
             /\ d.nodes[n].ready = c.nodes[n].ready
  <2>1. c.nodes[n] \in NodeRec
    BY <1>3, ClusterParts
  <2>2. PICK u : d.nodes[n] = [c.nodes[n] EXCEPT !.used = u]
    BY <1>2, <1>3
  <2> QED BY <2>1, <2>2 DEF NodeRec
<1> QED BY <1>1, <1>3 DEF SameFiles

LEMMA NextWorkTyped ==
  ASSUME TypesHold, NEW n \in Node, NEW e \in Exec, NextWork(n, e)
  PROVE  TypesHold' /\ SameFiles(cluster, cluster')
<1> DEFINE x == [cluster.execs[e] EXCEPT !.status = "running"]
           d == [cluster EXCEPT !.execs = [cluster.execs EXCEPT ![e] = x]]
<1>1. cluster \in Cluster /\ runs' \subseteq Node \X Exec /\ UNCHANGED <<requests, files>>
  BY DEF TypesHold, Typed, NextWork
<1>2. x \in ExecRec
  <2>1. cluster.execs[e] \in ExecRec
    BY <1>1, ClusterParts DEF NextWork
  <2> QED BY <2>1 DEF ExecRec
<1>3. cluster' = d
  BY <1>1 DEF NextWork, Cluster
<1> HIDE DEF x
<1>4. /\ d \in Cluster /\ d.pools = cluster.pools /\ d.envs = cluster.envs
      /\ d.nodes = cluster.nodes
  BY <1>1, <1>2, ExecChanged
<1>5. d.images = cluster.images
  BY <1>1 DEF Cluster
<1> HIDE DEF d
<1>6. SameFiles(cluster, cluster')
  BY <1>3, <1>4, <1>5 DEF SameFiles
<1> QED BY <1>1, <1>3, <1>4, <1>6, ClusterTyped

\* complete_execution, once it found the execution on the node that reports it.
LEMMA FinishTyped ==
  ASSUME NEW c \in Cluster, NEW e \in Exec, NEW keepIdle, c.execs[e] # None
  PROVE  Finish(c, e, keepIdle) \in Cluster
<1> DEFINE p == c.execs[e].pool
           b == Release(c, e, keepIdle)
           freed == [b EXCEPT !.execs[e] = None]
           d == IF Stale(freed, p) THEN DropPool(freed, p) ELSE freed
<1>1. p \in Pool
  BY ClusterParts DEF ExecRec
<1>2. b \in Cluster
  BY ReleaseLemma
<1> HIDE DEF b, p
<1>3. [b.execs EXCEPT ![e] = None] \in [Exec -> ExecRec \cup {None}]
  BY <1>2 DEF Cluster
<1>4. freed = [b EXCEPT !.execs = [b.execs EXCEPT ![e] = None]]
  BY <1>2 DEF Cluster
<1> HIDE DEF freed
<1>5. freed \in Cluster
  BY ONLY <1>2, <1>3, <1>4, ClusterUpdates
<1>6. d \in Cluster
  BY <1>1, <1>5, DropPoolLemma
<1> HIDE DEF d
<1>7. ScheduleQueued(d) \in Cluster
  BY <1>6, SweepLemma
<1> QED BY <1>7 DEF d, freed, b, p, Finish

-----------------------------------------------------------------------------
(* What is saved is what the controller goes by. *)

\* What the controller goes by has its type, and so has what it would go by after a
\* restart, which is the same but for executions.
MInv ==
  /\ TypesHold
  /\ saved \in Cluster /\ saved = Stored(saved)
  /\ SameFiles(cluster, saved)
  /\ limit \in Limits /\ ghosts \subseteq Node \X Exec /\ restarts \in 0..MaxRestarts

\* What every step but a restart does: it saves the cluster, or changes nothing that
\* is saved.
KeepsSaved ==
  /\ TypesHold'
  /\ saved' = Stored(cluster') \/ (saved' = saved /\ SameFiles(cluster, cluster'))
  /\ limit' \in Limits /\ ghosts' \subseteq Node \X Exec /\ restarts' = restarts

LEMMA StoredTyped ==
  ASSUME NEW c \in Cluster
  PROVE  Stored(c) \in Cluster /\ Stored(c) = Stored(Stored(c)) /\ SameFiles(c, Stored(c))
<1> DEFINE none == [e \in Exec |-> None]
<1>1. none \in [Exec -> ExecRec \cup {None}]
  OBVIOUS
<1> HIDE DEF none
<1>2. Stored(c) = [c EXCEPT !.execs = none]
  BY DEF Stored, none
<1>3. Stored(c) \in Cluster
  BY <1>1, <1>2, ClusterUpdates
<1>4. Stored(Stored(c)) = [[c EXCEPT !.execs = none] EXCEPT !.execs = none]
  BY <1>2 DEF Stored, none
<1>5. [[c EXCEPT !.execs = none] EXCEPT !.execs = none] = [c EXCEPT !.execs = none]
  BY DEF Cluster
<1>6. SameFiles(c, Stored(c))
  <2>1. /\ Stored(c).images = c.images /\ Stored(c).pools = c.pools
        /\ Stored(c).envs = c.envs /\ Stored(c).nodes = c.nodes
    BY <1>2 DEF Cluster
  <2> QED BY <2>1 DEF SameFiles
<1> QED BY <1>2, <1>3, <1>4, <1>5, <1>6

LEMMA SavedFollows ==
  ASSUME MInv, KeepsSaved
  PROVE  MInv'
<1>1. cluster' \in Cluster
  BY DEF KeepsSaved, TypesHold, Typed
<1>2. CASE saved' = Stored(cluster')
  BY <1>1, <1>2, StoredTyped DEF MInv, KeepsSaved
<1>3. CASE saved' = saved /\ SameFiles(cluster, cluster')
  <2>1. SameFiles(cluster', saved)
    BY <1>3 DEF MInv, SameFiles
  <2> QED BY <1>3, <2>1 DEF MInv, KeepsSaved
<1> QED BY <1>2, <1>3 DEF KeepsSaved

LEMMA SubmitSaved ==
  ASSUME MInv, SubmitStep
  PROVE  KeepsSaved
<1>1. PICK e \in Exec, i \in Env, p \in Pool, secrets \in BOOLEAN :
         SubmitAccepted(e, i, p, secrets) \/ SubmitRefused(e, i, p, secrets)
  BY DEF SubmitStep
<1>2. CASE SubmitAccepted(e, i, p, secrets)
  <2>1. /\ CreateExecution(e, i, p, TRUE)
        /\ UNCHANGED <<saved, limit, pending, ghosts, restarts>>
    BY <1>2 DEF SubmitAccepted
  <2>2. TypesHold' /\ SameFiles(cluster, cluster')
    BY <2>1, SubmitTyped DEF MInv
  <2> QED BY <2>1, <2>2 DEF KeepsSaved, MInv
<1>3. CASE SubmitRefused(e, i, p, secrets)
  BY <1>3 DEF SubmitRefused, KeepsSaved, MInv, SameFiles, TypesHold, vars
<1> QED BY <1>1, <1>2, <1>3

LEMMA WorkSaved ==
  ASSUME MInv, WorkStep
  PROVE  KeepsSaved
<1>1. cluster \in Cluster /\ runs \subseteq Node \X Exec
  BY DEF MInv, TypesHold, Typed
<1>2. ASSUME NEW s \in Slot, NEW n \in Node, NEW e \in Exec, TakeWork(s, n, e)
      PROVE  KeepsSaved
  BY <1>2, NextWorkTyped DEF TakeWork, KeepsSaved, MInv
<1>3. ASSUME NEW s \in Slot, NEW n \in Node, NEW e \in Exec, NEW keepIdle, NEW result,
             Report(s, n, e, keepIdle, result)
      PROVE  KeepsSaved
  <2>1. /\ UNCHANGED <<requests, files, limit, ghosts, restarts>>
        /\ runs' \subseteq Node \X Exec
    BY <1>1, <1>3 DEF Report, CompleteExecution
  <2>2. CASE cluster.execs[e] # None /\ cluster.execs[e].node = n
    <3>1. cluster' = Finish(cluster, e, keepIdle) /\ saved' = Stored(cluster')
      BY <1>3, <2>2 DEF Report, CompleteExecution
    <3>2. cluster' \in Cluster
      BY <1>1, <2>2, <3>1, FinishTyped
    <3> QED BY <2>1, <3>1, <3>2, ClusterTyped DEF KeepsSaved, MInv
  <2>3. CASE ~ (cluster.execs[e] # None /\ cluster.execs[e].node = n)
    <3>1. cluster' = cluster /\ saved' = saved
      BY <1>3, <2>3 DEF Report, CompleteExecution
    <3> QED BY <1>1, <2>1, <3>1, ClusterTyped DEF KeepsSaved, MInv, SameFiles
  <2> QED BY <2>2, <2>3
<1>4. ASSUME NEW s \in Slot, NEW n \in Node, NEW e \in Exec, NEW keepIdle, NEW result,
             LateReport(s, n, e, keepIdle, result)
      PROVE  KeepsSaved
  <2>1. /\ UNCHANGED <<requests, files, runs, limit, restarts>>
        /\ ghosts' \subseteq Node \X Exec
    BY <1>4 DEF LateReport, MInv
  <2>2. CASE cluster.execs[e] # None /\ cluster.execs[e].node = n
    <3>1. cluster' = Finish(cluster, e, keepIdle) /\ saved' = Stored(cluster')
      BY <1>4, <2>2 DEF LateReport
    <3>2. cluster' \in Cluster
      BY <1>1, <2>2, <3>1, FinishTyped
    <3> QED BY <1>1, <2>1, <3>1, <3>2, ClusterTyped DEF KeepsSaved, MInv
  <2>3. CASE ~ (cluster.execs[e] # None /\ cluster.execs[e].node = n)
    <3>1. cluster' = cluster /\ saved' = saved
      BY <1>4, <2>3 DEF LateReport
    <3> QED BY <1>1, <2>1, <3>1, ClusterTyped DEF KeepsSaved, MInv, SameFiles
  <2> QED BY <2>2, <2>3
<1> QED BY <1>2, <1>3, <1>4 DEF WorkStep

LEMMA WriteSaved ==
  ASSUME MInv, WriteStep \/ Collect \/ (\E l \in Limits : SetStorageLimit(l))
  PROVE  KeepsSaved
<1>1. /\ UNCHANGED <<cluster, requests, files, saved, ghosts, restarts>>
      /\ limit' \in Limits /\ runs' \subseteq runs
  BY DEF WriteStep, Save, End, FailWrite, Collect, SetStorageLimit, vars, MInv
<1>2. runs' \subseteq Node \X Exec /\ cluster' \in Cluster
  BY <1>1 DEF MInv, TypesHold, Typed
<1>3. TypesHold'
  BY <1>1, <1>2, ClusterTyped DEF MInv
<1> QED BY <1>1, <1>3 DEF MInv, KeepsSaved, SameFiles

LEMMA NodesSaved ==
  ASSUME MInv, NodeSaves
  PROVE  KeepsSaved
<1>1. /\ saved' = Stored(cluster') /\ UNCHANGED <<limit, restarts>>
      /\ ghosts' \subseteq ghosts
  BY DEF NodeSaves, Saving
<1>2. TypesHold'
  BY NodeHandlersTyped DEF NodeSaves, Saving, MInv
<1> QED BY <1>1, <1>2 DEF MInv, KeepsSaved

LEMMA UsersSaved ==
  ASSUME MInv, UserSaves
  PROVE  KeepsSaved
<1>1. saved' = Stored(cluster') /\ UNCHANGED <<limit, restarts, ghosts>>
  BY DEF UserSaves, Saving
<1>2. TypesHold'
  BY ImagesAndPoolsTyped, CommitCreateTyped, DeleteEnvironmentTyped
  DEF UserSaves, Saving, MInv
<1> QED BY <1>1, <1>2 DEF MInv, KeepsSaved

LEMMA PreparingSaved ==
  ASSUME MInv, Preparing
  PROVE  KeepsSaved
<1>1. cluster' = cluster /\ UNCHANGED storeVars
  BY DEF Preparing, BeginCreate, BeginUpdate, PrepareArtifact, AbandonRequest
<1>2. TypesHold'
  BY RequestHandlersTyped DEF Preparing, MInv
<1> QED BY <1>1, <1>2 DEF MInv, KeepsSaved, SameFiles, storeVars

LEMMA MovingSaved ==
  ASSUME MInv, \/ \E s \in Slot, i \in Env : RestartSaves(s, i)
               \/ \E s \in Slot, r \in Req : UpdateSaves(s, r)
  PROVE  KeepsSaved
<1>1. TypesHold'
  BY RestartSavesTyped, UpdateSavesTyped DEF MInv
<1>2. ASSUME NEW p \in Pool, PanicMoving(p) PROVE KeepsSaved
  <2>1. NewId(FreshPools) \in Pool /\ cluster' = Requeue(cluster, p, NewId(FreshPools))
    BY <1>2, Fresh DEF PanicMoving
  <2>2. SameFiles(cluster, cluster')
    BY <2>1, RequeueFiles DEF MInv, TypesHold, Typed
  <2> QED BY <1>1, <1>2, <2>2 DEF PanicMoving, KeepsSaved, MInv, storeVars
<1>3. ASSUME NEW s \in Slot, NEW i \in Env, RestartSaves(s, i) PROVE KeepsSaved
  <2>1. CASE cluster.envs[i] # None /\ OldPoolGone(cluster.envs[i].pool)
    <3>1. cluster.envs[i].pool \in Pool
      BY <2>1, ClusterParts DEF MInv, TypesHold, Typed, EnvRec
    <3> QED BY <1>2, <1>3, <2>1, <3>1 DEF RestartSaves
  <2>2. CASE ~ (cluster.envs[i] # None /\ OldPoolGone(cluster.envs[i].pool))
    BY <1>1, <1>3, <2>2 DEF RestartSaves, SaveLater, KeepsSaved, MInv
  <2> QED BY <2>1, <2>2
<1>4. ASSUME NEW s \in Slot, NEW r \in Req, UpdateSaves(s, r) PROVE KeepsSaved
  <2> DEFINE panics == /\ requests[r] # None /\ requests[r].env # None /\ requests[r].built
                       /\ Rebuilds(requests[r].old.cfg, requests[r].cfg)
                       /\ OldPoolGone(requests[r].old.pool)
  <2>1. CASE panics
    <3>1. requests[r] \in UpdateReq
      BY <2>1 DEF MInv, TypesHold, Typed, CreateReq
    <3>2. requests[r].old.pool \in Pool
      BY <3>1 DEF UpdateReq, EnvRec
    <3> QED BY <1>2, <1>4, <2>1, <3>2 DEF UpdateSaves
  <2>2. CASE ~ panics
    BY <1>1, <1>4, <2>2 DEF UpdateSaves, SaveLater, KeepsSaved, MInv
  <2> QED BY <2>1, <2>2
<1> QED BY <1>3, <1>4

\* migrate_legacy gives pools environments, and takes none away.
LEMMA MigratedTyped ==
  ASSUME NEW c \in Cluster, c = Stored(c), NEW id \in [Legacy(c) -> Env],
         NEW d, d = Migrated(c, id)
  PROVE  /\ d \in Cluster /\ d = Stored(d)
         /\ \A p \in Pool : d.pools[p] = None <=> c.pools[p] = None
<1> DEFINE pool(p) == IF p \in Legacy(c) THEN [c.pools[p] EXCEPT !.env = id[p]] ELSE c.pools[p]
           pools == [p \in Pool |-> pool(p)]
           owner(i) == CHOOSE x \in Legacy(c) : id[x] = i
           env(i) == IF \E p \in Legacy(c) : id[p] = i
                     THEN [pool |-> owner(i),
                           cfg |-> [c.pools[owner(i)].cfg EXCEPT !.artifact = None]]
                     ELSE c.envs[i]
           envs == [i \in Env |-> env(i)]
<1>1. d = [[c EXCEPT !.pools = pools] EXCEPT !.envs = envs]
  BY DEF Migrated, Cluster
<1>2. ASSUME NEW p \in Pool
      PROVE  pool(p) \in PoolRec \cup {None} /\ (pool(p) = None <=> c.pools[p] = None)
  <2>1. CASE p \in Legacy(c)
    <3>1. c.pools[p] \in PoolRec /\ id[p] \in Env
      BY <2>1, ClusterParts DEF Legacy
    <3>2. [c.pools[p] EXCEPT !.env = id[p]] \in PoolRec
      BY <3>1 DEF PoolRec
    <3> QED BY <2>1, <3>1, <3>2, Apart
  <2>2. CASE p \notin Legacy(c)
    BY <2>2 DEF Cluster
  <2> QED BY <2>1, <2>2
<1>3. ASSUME NEW i \in Env PROVE env(i) \in EnvRec \cup {None}
  <2>1. CASE \E p \in Legacy(c) : id[p] = i
    <3>1. owner(i) \in Legacy(c)
      BY <2>1
    <3> HIDE DEF owner
    <3>2. owner(i) \in Pool /\ c.pools[owner(i)] \in PoolRec
      BY <3>1, ClusterParts DEF Legacy
    <3>3. [c.pools[owner(i)].cfg EXCEPT !.artifact = None] \in Config
      BY <3>2 DEF PoolRec, Config
    <3> QED BY <2>1, <3>2, <3>3 DEF EnvRec
  <2>2. CASE ~ \E p \in Legacy(c) : id[p] = i
    BY <2>2 DEF Cluster
  <2> QED BY <2>1, <2>2
<1>4. /\ pools \in [Pool -> PoolRec \cup {None}] /\ envs \in [Env -> EnvRec \cup {None}]
      /\ \A p \in Pool : pools[p] = None <=> c.pools[p] = None
  <2> HIDE DEF pool, env
  <2> QED BY <1>2, <1>3
<1> HIDE DEF pools, envs
<1>5. d \in Cluster
  BY ONLY c \in Cluster, <1>1, <1>4, ClusterUpdates
<1>6. d.pools = pools /\ d.execs = c.execs
  BY <1>1 DEF Cluster
<1>7. d.execs = [e \in Exec |-> None]
  <2>1. c.execs = [e \in Exec |-> None]
    BY DEF Stored, Cluster
  <2> QED BY <1>6, <2>1
<1>8. d = Stored(d)
  BY <1>5, <1>7 DEF Stored, Cluster
<1> QED BY <1>4, <1>5, <1>6, <1>8

LEMMA RestartFollows ==
  ASSUME SInv, MInv, Restart
  PROVE  /\ MInv'
         /\ \A p \in Pool : cluster'.pools[p] = None <=> cluster.pools[p] = None
         /\ cluster'.execs = Loaded(rows)
<1>1. PICK id \in [Legacy(saved) -> NewEnvs] :
        /\ saved' = Migrated(saved, id)
        /\ cluster' = [Migrated(saved, id) EXCEPT !.execs = Loaded(rows)]
  BY DEF Restart
<1>2. id \in [Legacy(saved) -> Env]
  BY DEF NewEnvs
<1>3. /\ saved' \in Cluster /\ saved' = Stored(saved')
      /\ \A p \in Pool : saved'.pools[p] = None <=> saved.pools[p] = None
  BY <1>1, <1>2, MigratedTyped DEF MInv
<1>4. Loaded(rows) \in [Exec -> ExecRec \cup {None}]
  BY LoadedLemma DEF SInv
<1>5. cluster' = [saved' EXCEPT !.execs = Loaded(rows)]
  BY <1>1
<1>6. cluster' \in Cluster
  BY <1>3, <1>4, <1>5, ClusterUpdates
<1>7. /\ cluster'.images = saved'.images /\ cluster'.pools = saved'.pools
      /\ cluster'.envs = saved'.envs /\ cluster'.nodes = saved'.nodes
      /\ cluster'.execs = Loaded(rows)
  BY <1>3, <1>5 DEF Cluster
<1>8. SameFiles(cluster', saved')
  BY <1>7 DEF SameFiles
<1>9. /\ runs' = {} /\ requests' = [r \in Req |-> None] /\ UNCHANGED <<files, limit>>
      /\ ghosts' \subseteq ghosts \cup runs
      /\ restarts < MaxRestarts /\ restarts' = restarts + 1
  BY DEF Restart
<1>10. TypesHold'
  BY <1>6, <1>9 DEF TypesHold, Typed, MInv
<1>11. ghosts' \subseteq Node \X Exec /\ restarts' \in 0..MaxRestarts
  BY <1>9, StoreAssumption DEF MInv, TypesHold, Typed
<1>12. MInv'
  BY <1>3, <1>8, <1>9, <1>10, <1>11 DEF MInv
<1>13. \A p \in Pool : cluster'.pools[p] = None <=> cluster.pools[p] = None
  BY <1>3, <1>7 DEF MInv, SameFiles
<1> QED BY <1>7, <1>12, <1>13

LEMMA NextSaved ==
  ASSUME SInv, MInv, [StoreNext]_allVars
  PROVE  MInv' /\ (Restart \/ UNCHANGED restarts)
<1>1. CASE Restart
  BY <1>1, RestartFollows
<1>2. CASE KeepsSaved
  BY <1>2, SavedFollows DEF KeepsSaved
<1>3. CASE UNCHANGED allVars
  BY <1>3 DEF allVars, vars, storeVars, MInv, TypesHold, Typed, SameFiles, Stored
<1>4. CASE SubmitStep \/ WorkStep \/ WriteStep \/ NodeSaves \/ UserSaves \/ Preparing
  BY <1>2, <1>4, SubmitSaved, WorkSaved, WriteSaved, NodesSaved, UsersSaved, PreparingSaved
<1>5. CASE \/ \E s \in Slot, i \in Env : RestartSaves(s, i)
           \/ \E s \in Slot, r \in Req : UpdateSaves(s, r)
  BY <1>2, <1>5, MovingSaved
<1>6. CASE Collect \/ \E l \in Limits : SetStorageLimit(l)
  BY <1>2, <1>6, WriteSaved
<1> QED BY <1>1, <1>3, <1>4, <1>5, <1>6 DEF StoreNext

LEMMA InitSaved == EmptyInit => MInv
<1> SUFFICES ASSUME EmptyInit PROVE MInv
  OBVIOUS
<1>1. cluster \in Cluster
  BY DEF EmptyInit, Init, Cluster
<1>2. TypesHold
  BY <1>1 DEF EmptyInit, Init, TypesHold, Typed
<1>3. saved = cluster /\ cluster.execs = [e \in Exec |-> None]
  BY DEF EmptyInit, Init, StoreInit
<1>4. saved = Stored(saved)
  BY <1>1, <1>3 DEF Stored, Cluster
<1>5. SameFiles(cluster, saved)
  BY <1>3 DEF SameFiles
<1>6. limit \in Limits /\ ghosts \subseteq Node \X Exec /\ restarts \in 0..MaxRestarts
  BY StoreAssumption DEF EmptyInit, StoreInit
<1> QED BY <1>1, <1>2, <1>3, <1>4, <1>5, <1>6 DEF MInv

-----------------------------------------------------------------------------
(* What the table takes, and its limit. *)

LEMMA UsedNat ==
  ASSUME NEW rs, Exact(rs)
  PROVE  /\ [e \in Exec |-> IF rs[e] = None THEN 0 ELSE rs[e].size] \in [1..MaxExec -> Nat]
         /\ Used(rs) \in Nat
<1> DEFINE sizes == [e \in Exec |-> IF rs[e] = None THEN 0 ELSE rs[e].size]
<1>1. sizes \in [1..MaxExec -> Nat]
  BY DEF Exact, Row, Exec
<1> HIDE DEF sizes
<1>2. Total(sizes, MaxExec) \in Nat
  BY <1>1, TotalNat, SchedulerAssumption
<1> QED BY <1>1, <1>2 DEF Used, sizes

LEMMA UsedShrinks ==
  ASSUME NEW rs, NEW us, Exact(rs), Exact(us),
         \A e \in Exec : us[e] # None => rs[e] # None /\ us[e].size <= rs[e].size
  PROVE  Used(us) <= Used(rs)
<1> DEFINE f == [e \in Exec |-> IF us[e] = None THEN 0 ELSE us[e].size]
           g == [e \in Exec |-> IF rs[e] = None THEN 0 ELSE rs[e].size]
<1>1. f \in [1..MaxExec -> Nat] /\ g \in [1..MaxExec -> Nat]
  BY UsedNat
<1>2. \A e \in Exec : f[e] = (IF us[e] = None THEN 0 ELSE us[e].size)
                      /\ g[e] = (IF rs[e] = None THEN 0 ELSE rs[e].size)
  OBVIOUS
<1>3. Used(us) = Total(f, MaxExec) /\ Used(rs) = Total(g, MaxExec)
  BY DEF Used
<1> HIDE DEF f, g
<1>4. ASSUME NEW e \in 1..MaxExec PROVE f[e] <= g[e]
  <2>1. f[e] \in Nat /\ g[e] \in Nat /\ e \in Exec
    BY <1>1 DEF Exec
  <2>2. CASE us[e] = None
    BY <1>2, <2>1, <2>2
  <2>3. CASE us[e] # None
    BY <1>2, <2>1, <2>3
  <2> QED BY <2>2, <2>3
<1> QED BY <1>1, <1>3, <1>4, TotalMonotonic, SchedulerAssumption

\* Nothing that is over came or got a result, and no row grew.
Smaller(rs, us) ==
  /\ \A e \in Exec : us[e] # None => rs[e] # None /\ us[e].size <= rs[e].size
  /\ \A e \in Finished(us) : e \in Finished(rs) /\ (us[e].result => rs[e].result)

LEMMA NotFuller ==
  ASSUME NEW rs, NEW us, Exact(rs), Exact(us), Smaller(rs, us), NEW lim \in Nat,
         Overfull(us, lim)
  PROVE  Overfull(rs, lim)
<1>1. Used(us) <= Used(rs) /\ Used(us) \in Nat /\ Used(rs) \in Nat
  BY UsedShrinks, UsedNat DEF Smaller
<1>2. Finished(us) \subseteq Finished(rs) /\ Finished(rs) \subseteq Exec /\ Finished(us) \subseteq Exec
  BY DEF Smaller, Finished
<1>3. IsFiniteSet(Finished(rs))
  BY <1>2, FiniteParts
<1>4. /\ Cardinality(Finished(us)) \in Nat /\ Cardinality(Finished(rs)) \in Nat
      /\ Cardinality(Finished(us)) <= Cardinality(Finished(rs))
  BY <1>2, <1>3, FiniteParts, FS_Subset
<1>5. Used(rs) > lim
  BY <1>1 DEF Overfull
<1>6. CASE Cardinality(Finished(us)) > 1
  BY <1>4, <1>5, <1>6 DEF Overfull
<1>7. CASE \E e \in Finished(us) : us[e].result
  BY <1>5, <1>7 DEF Overfull, Smaller
<1> QED BY <1>6, <1>7 DEF Overfull

\* prune: what is left is within the limit, or nothing that is over but the one to keep.
LEMMA PrunedFits ==
  ASSUME NEW rs, Exact(rs), NEW lim, NEW keep, NEW us \in Pruned(rs, lim, keep)
  PROVE  Used(us) <= lim \/ Finished(us) \subseteq {keep}
<1>1. PICK gone \in SUBSET (Finished(rs) \ {keep}) :
        /\ us = Without(rs, gone)
        /\ gone = Finished(rs) \ {keep} \/ Used(Without(rs, gone)) <= lim
  BY DEF Pruned
<1>2. \A e \in Exec : us[e] = IF e \in gone THEN None ELSE rs[e]
  BY <1>1, WithoutLemma
<1> QED BY <1>1, <1>2 DEF Finished

LEMMA FitsNotFull ==
  ASSUME NEW rs, Exact(rs), NEW lim \in Nat, Used(rs) <= lim \/ Finished(rs) = {}
  PROVE  ~ Overfull(rs, lim)
<1>1. Used(rs) \in Nat
  BY UsedNat
<1>2. Cardinality({}) = 0
  BY FS_EmptySet
<1> QED BY <1>1, <1>2 DEF Overfull

\* A row that is written again, without a result, is no larger.
LEMMA UpsertSmaller ==
  ASSUME NEW rs, Exact(rs), NEW e \in Exec, NEW rec \in ExecRec, rs[e] # None,
         NEW us, us = Upsert(rs, e, rec)
  PROVE  Exact(us) /\ us[e].size <= rs[e].size /\ Smaller(rs, us)
<1>1. /\ Exact(us) /\ IsActive(us, e) /\ us[e] \in Row
      /\ us[e].secrets = (rs[e] # None /\ rs[e].secrets) /\ us[e].result = FALSE
      /\ \A f \in Exec \ {e} : us[f] = rs[f]
  BY UpsertLemma
<1>2. rs[e] \in Row /\ rs[e].secrets \in BOOLEAN
  BY DEF Exact, Row
<1>3. us[e] # None /\ us[e].status # "finished"
  BY <1>1 DEF IsActive
<1>4. us[e].size = Columns(us[e]) /\ rs[e].size = Columns(rs[e])
  BY <1>1, <1>3 DEF Exact
<1>5. us[e].secrets = rs[e].secrets
  BY <1>1, <1>2
<1>6. Columns(us[e]) = 1 + One(rs[e].secrets)
  BY <1>1, <1>3, <1>5 DEF Columns, One
<1>7. Columns(us[e]) <= Columns(rs[e])
  BY <1>2, <1>6 DEF Columns, One, Row
<1>8. us[e].size <= rs[e].size
  BY <1>4, <1>7
<1>9. \A f \in Exec \ {e} : rs[f] # None => rs[f].size <= rs[f].size
  BY DEF Exact, Row
<1>10. e \notin Finished(us)
  BY <1>3 DEF Finished
<1> QED BY <1>1, <1>8, <1>9, <1>10 DEF Smaller, Finished

\* save_executions and save_execution: an active row is as large as before, and a
\* finished one that is active again smaller.
LEMMA SavesSmaller ==
  ASSUME NEW rs, Exact(rs), NEW recs \in [Exec -> ExecRec \cup {None}],
         NEW us, us = SaveAll(rs, recs), \A e \in Exec : recs[e] # None => rs[e] # None
  PROVE  Exact(us) /\ Smaller(rs, us)
<1>1. /\ Exact(us)
      /\ \A e \in Exec : IF recs[e] = None THEN us[e] = rs[e] ELSE IsActive(us, e)
  BY SaveAllLemma
<1>2. ASSUME NEW e \in Exec, us[e] # None
      PROVE  rs[e] # None /\ us[e].size <= rs[e].size
  <2>1. CASE recs[e] = None
    <3>1. us[e] = rs[e] /\ rs[e] \in Row
      BY <1>1, <1>2, <2>1 DEF Exact
    <3> QED BY <1>2, <3>1 DEF Row
  <2>2. CASE recs[e] # None
    <3>1. us[e] = Upsert(rs, e, recs[e])[e] /\ recs[e] \in ExecRec /\ rs[e] # None
      BY <2>2 DEF SaveAll
    <3> QED BY <3>1, UpsertSmaller
  <2> QED BY <2>1, <2>2
<1>3. ASSUME NEW e \in Finished(us)
      PROVE  e \in Finished(rs) /\ (us[e].result => rs[e].result)
  <2>1. e \in Exec /\ recs[e] = None /\ us[e] = rs[e]
    BY <1>1, <1>3 DEF Finished, IsActive
  <2> QED BY <1>3, <2>1 DEF Finished
<1> QED BY <1>1, <1>2, <1>3 DEF Smaller

\* Results past the limit, as ResultsWithinLimit explains them.
Explains ==
  Overfull(rows', limit') =>
    \/ Overfull(rows, limit)
    \/ \E s \in Slot, e \in Exec :
         StaleSave(s, e) /\ pending'[s] # pending[s] /\ rows[e] = None

LEMMA SubmitExplains ==
  ASSUME SInv, limit \in Nat, SubmitStep
  PROVE  Explains
<1>1. PICK e \in Exec, i \in Env, p \in Pool, secrets \in BOOLEAN :
         SubmitAccepted(e, i, p, secrets) \/ SubmitRefused(e, i, p, secrets)
  BY DEF SubmitStep
<1>2. Exact(rows) /\ rows[e] = None /\ limit' = limit
  BY <1>1 DEF SInv, SubmitAccepted, SubmitRefused, Unused
<1>3. PICK ins : /\ Insert(e, i, p, secrets) = Pruned(ins, limit, e)
                 /\ Exact(ins) /\ IsActive(ins, e) /\ ins[e].result = FALSE
                 /\ \A f \in Exec \ {e} : ins[f] = rows[f]
  BY <1>2, InsertRow
<1>4. ASSUME NEW rs \in Insert(e, i, p, secrets)
      PROVE  /\ Exact(rs) /\ rs[e] = ins[e] /\ e \notin Finished(rs)
             /\ Used(rs) <= limit \/ Finished(rs) = {}
  <2>1. Exact(ins) /\ rs \in Pruned(ins, limit, e)
    BY <1>3
  <2>2. PICK gone \in SUBSET (Finished(ins) \ {e}) :
          \A f \in Exec : rs[f] = IF f \in gone THEN None ELSE ins[f]
    BY ONLY <2>1, PrunedLemma
  <2>3. rs[e] = ins[e] /\ e \notin Finished(rs)
    BY <1>3, <2>2 DEF IsActive, Finished
  <2>4. Exact(rs)
    BY <1>3, PrunedLemma
  <2>5. Used(rs) <= limit \/ Finished(rs) \subseteq {e}
    BY <1>3, PrunedFits
  <2> QED BY <2>3, <2>4, <2>5
<1>5. CASE SubmitAccepted(e, i, p, secrets)
  <2>1. PICK rs \in Insert(e, i, p, secrets) :
          Used(rs) <= limit /\ rows' = Upsert(rs, e, cluster'.execs[e])
    BY <1>5 DEF SubmitAccepted
  <2>2. Exact(rs) /\ rs[e] # None /\ (Used(rs) <= limit \/ Finished(rs) = {})
    BY <1>3, <1>4 DEF IsActive
  <2>3. cluster'.execs[e] \in ExecRec
    BY <1>5, CreateAdds DEF SInv, SubmitAccepted
  <2>4. Exact(rows') /\ Smaller(rs, rows')
    BY <2>1, <2>2, <2>3, UpsertSmaller
  <2>5. ~ Overfull(rs, limit)
    BY <2>2, FitsNotFull
  <2> QED BY <1>2, <2>2, <2>4, <2>5, NotFuller DEF Explains
<1>6. CASE SubmitRefused(e, i, p, secrets)
  <2>1. PICK rs \in Insert(e, i, p, secrets) : rows' = Without(rs, {e})
    BY <1>6 DEF SubmitRefused
  <2>2. Exact(rs) /\ (Used(rs) <= limit \/ Finished(rs) = {})
    BY <1>4
  <2>3. Exact(rows') /\ \A f \in Exec : rows'[f] = IF f \in {e} THEN None ELSE rs[f]
    BY <2>1, <2>2, WithoutLemma
  <2>4. Smaller(rs, rows')
    <3>1. \A f \in Exec : rows'[f] # None => rs[f] # None /\ rows'[f] = rs[f] /\ rs[f].size \in Nat
      BY <2>2, <2>3 DEF Exact, Row
    <3> QED BY <3>1 DEF Smaller, Finished
  <2>5. ~ Overfull(rs, limit)
    BY <2>2, FitsNotFull
  <2> QED BY <1>2, <2>2, <2>3, <2>4, <2>5, NotFuller DEF Explains
<1> QED BY <1>1, <1>5, <1>6

LEMMA PruneExplains ==
  ASSUME NEW rs, Exact(rs), limit' \in Nat, rows' \in Pruned(rs, limit', None)
  PROVE  Explains
<1>1. Exact(rows')
  BY PrunedLemma
<1>2. Used(rows') <= limit' \/ Finished(rows') \subseteq {None}
  BY PrunedFits
<1>3. Finished(rows') \subseteq {None} => Finished(rows') = {}
  BY NoneApart DEF Finished
<1> QED BY <1>1, <1>2, <1>3, FitsNotFull DEF Explains

LEMMA SavingExplains ==
  ASSUME SInv, limit \in Nat, limit' = limit, rows' = SaveAll(rows, Changed), SInv'
  PROVE  Explains
<1>1. /\ Changed \in [Exec -> ExecRec \cup {None}]
      /\ \A e \in Exec : Changed[e] # None => cluster.execs[e] # None
  BY ChangedLemma DEF SInv
<1>2. \A e \in Exec : Changed[e] # None => rows[e] # None
  BY <1>1 DEF SInv, ActiveIsStored, IsActive
<1> DEFINE recs == Changed
<1> HIDE DEF recs
<1>3. Exact(rows') /\ Smaller(rows, rows')
  <2>1. /\ recs \in [Exec -> ExecRec \cup {None}] /\ rows' = SaveAll(rows, recs)
        /\ \A e \in Exec : recs[e] # None => rows[e] # None
    BY <1>1, <1>2 DEF recs
  <2> QED BY <2>1, SavesSmaller DEF SInv
<1> QED BY <1>3, NotFuller DEF Explains, SInv

LEMMA SaveExplains ==
  ASSUME SInv, limit \in Nat, NEW s \in Slot, Save(s)
  PROVE  Explains
<1>1. /\ pending[s] # None /\ pending[s] \in Tail /\ pending[s].recs # NoRecs
      /\ rows' = SaveAll(rows, pending[s].recs) /\ limit' = limit
      /\ pending'[s] = IF pending[s].ends = None THEN None
                       ELSE [pending[s] EXCEPT !.recs = NoRecs]
  BY DEF Save, SInv
<1>2. pending[s].recs \in [Exec -> ExecRec \cup {None}]
  BY <1>1 DEF Tail
<1>3. pending'[s] # pending[s]
  <2>1. [pending[s] EXCEPT !.recs = NoRecs].recs = NoRecs
    BY <1>1 DEF Tail
  <2> QED BY <1>1, <2>1
<1>4. CASE \A e \in Exec : pending[s].recs[e] # None => rows[e] # None
  <2>1. Exact(rows') /\ Smaller(rows, rows')
    BY <1>1, <1>2, <1>4, SavesSmaller DEF SInv
  <2> QED BY <1>1, <2>1, NotFuller DEF Explains, SInv
<1>5. CASE \E e \in Exec : pending[s].recs[e] # None /\ rows[e] = None
  BY <1>1, <1>3, <1>5 DEF Explains, StaleSave
<1> QED BY <1>4, <1>5

LEMMA EndExplains ==
  ASSUME SInv, limit \in Nat, NEW s \in Slot, End(s)
  PROVE  Explains
<1> DEFINE e == pending[s].ends
           result == pending[s].result
<1>1. /\ pending[s] # None /\ limit' = limit
      /\ IF e = None THEN rows' = rows
         ELSE \E rs \in Pruned(Complete(rows, e, result), limit, e) :
                rows' = IF Used(rs) > limit THEN Complete(rs, e, FALSE) ELSE rs
  BY DEF End
<1>2. pending[s] \in Tail
  BY <1>1 DEF SInv
<1>3. CASE e = None
  BY <1>1, <1>3 DEF Explains
<1>4. CASE e # None
  <2>1. e \in Exec /\ result \in BOOLEAN /\ IsActive(rows, e)
    BY <1>1, <1>2, <1>4 DEF Tail, SInv, EndsAwaited, EndOf
  <2> DEFINE done == Complete(rows, e, result)
  <2>2. Exact(done) /\ done[e] # None /\ done[e].status = "finished"
    BY <2>1, CompleteLemma DEF SInv, IsActive
  <2>3. PICK rs \in Pruned(done, limit, e) :
          rows' = IF Used(rs) > limit THEN Complete(rs, e, FALSE) ELSE rs
    BY <1>1, <1>4
  <2> HIDE DEF done, result, e
  <2>4. Exact(rs) /\ rs[e] # None
    BY <2>1, <2>2, PrunedLemma
  <2>5. Used(rs) \in Nat
    BY <2>4, UsedNat
  <2>6. CASE Used(rs) <= limit
    <3>1. rows' = rs
      <4>1. ~ (Used(rs) > limit)
        BY ONLY <2>5, <2>6, limit \in Nat
      <4> QED BY <2>3, <4>1
    <3> QED BY <1>1, <2>4, <2>6, <3>1, FitsNotFull DEF Explains
  <2>7. CASE ~ (Used(rs) <= limit)
    <3>1. rows' = Complete(rs, e, FALSE)
      <4>1. Used(rs) > limit
        BY ONLY <2>5, <2>7, limit \in Nat
      <4> QED BY <2>3, <4>1
    <3>2. Finished(rs) \subseteq {e}
      BY <2>2, <2>7, PrunedFits
    <3>3. /\ rows'[e] # None /\ rows'[e].status = "finished" /\ rows'[e].result = FALSE
          /\ \A f \in Exec \ {e} : rows'[f] = rs[f]
      <4>1. rows'[e].result = FALSE
        BY <2>1, <2>4, <3>1 DEF Complete, Exact, Row
      <4> QED BY <2>1, <2>4, <3>1, <4>1, CompleteLemma
    <3>4. Finished(rows') = {e}
      BY <2>1, <3>2, <3>3 DEF Finished
    <3>5. Cardinality(Finished(rows')) = 1
      BY <3>4, FS_Singleton
    <3>6. ~ Overfull(rows', limit')
      BY <3>3, <3>4, <3>5 DEF Overfull
    <3> QED BY <3>6 DEF Explains
  <2> QED BY <2>6, <2>7
<1> QED BY <1>3, <1>4

LEMMA NextExplains ==
  ASSUME SInv, MInv, [StoreNext]_allVars
  PROVE  Explains
<1>1. limit \in Nat /\ limit' \in Nat /\ SInv'
  BY NextStep, NextSaved, StoreAssumption DEF MInv
<1>2. CASE rows' = rows /\ limit' = limit
  BY <1>2 DEF Explains
<1>3. CASE SubmitStep
  BY <1>1, <1>3, SubmitExplains
<1>4. CASE WriteStep
  <2>1. ASSUME NEW s \in Slot, FailWrite(s) PROVE Explains
    BY <1>2, <2>1 DEF FailWrite
  <2> QED BY <1>1, <1>4, <2>1, SaveExplains, EndExplains DEF WriteStep
<1>5. CASE WorkStep \/ Preparing \/ UNCHANGED allVars
  <2>1. WorkStep => rows' = rows /\ limit' = limit
    BY DEF WorkStep, TakeWork, Report, LateReport
  <2>2. Preparing \/ UNCHANGED allVars => rows' = rows /\ limit' = limit
    BY DEF Preparing, storeVars, allVars
  <2> QED BY <1>2, <1>5, <2>1, <2>2
<1>6. CASE NodeSaves \/ UserSaves
  <2>1. rows' = SaveAll(rows, Changed) /\ limit' = limit
    BY <1>6 DEF NodeSaves, UserSaves, Saving
  <2> QED BY <1>1, <2>1, SavingExplains
<1>7. CASE \/ \E s \in Slot, i \in Env : RestartSaves(s, i)
           \/ \E s \in Slot, r \in Req : UpdateSaves(s, r)
  BY <1>2, <1>7 DEF RestartSaves, UpdateSaves, SaveLater, PanicMoving, storeVars
<1>8. CASE Collect \/ \E l \in Limits : SetStorageLimit(l)
  <2>1. rows' \in Pruned(rows, limit', None)
    BY <1>8 DEF Collect, SetStorageLimit
  <2> QED BY <1>1, <2>1, PruneExplains DEF SInv
<1>9. CASE Restart
  <2>1. rows' \in Pruned(Requeued(rows), limit', None)
    BY <1>9 DEF Restart
  <2>2. Exact(Requeued(rows))
    BY RequeuedLemma DEF SInv
  <2> QED BY <1>1, <2>1, <2>2, PruneExplains
<1> QED BY <1>3, <1>4, <1>5, <1>6, <1>7, <1>8, <1>9 DEF StoreNext

-----------------------------------------------------------------------------
(* The theorems. *)

LEMMA StoreInitInv == EmptyInit => SInv
<1> SUFFICES ASSUME Init, StoreInit PROVE SInv
  BY DEF EmptyInit
<1>1. WellFormed(cluster) /\ WellFormed(saved)
  BY DEF Init, StoreInit, WellFormed
<1>2. Exact(rows) /\ pending \in [Slot -> Tail \cup {None}]
  BY DEF StoreInit, Exact
<1>3. ActiveIsStored(cluster, rows) /\ EndsAwaited(cluster, rows, pending)
  BY DEF Init, StoreInit, ActiveIsStored, EndsAwaited, EndOf
<1> QED BY <1>1, <1>2, <1>3 DEF SInv

LEMMA StoreInvariance == StoreSpec => []SInv
<1>1. SInv /\ [StoreNext]_allVars => SInv'
  BY NextStep
<1> QED BY <1>1, StoreInitInv, PTL DEF StoreSpec

\* What a row is said to take is what its columns take, and no finished execution keeps
\* its secrets, whatever is written late, pruned or loaded again.
THEOREM SizesStayExact == StoreSpec => []SizesExact
<1>1. SInv => SizesExact
  BY DEF SInv, Exact, SizesExact
<1> QED BY <1>1, StoreInvariance, PTL

\* An execution that is over is active again only through a write that was delayed past
\* its end: no restart, late report or pruning brings it back.
THEOREM RevivedOnlyByStaleSaves == StoreSpec => RevivedByStaleSave
<1> DEFINE Explained == \A e \in Finished(rows) :
             IsActive(rows', e) => \E s \in Slot : StaleSave(s, e) /\ pending'[s] # pending[s]
<1>1. SInv /\ [StoreNext]_allVars => [Explained]_allVars
  BY NextStep, OnwardRevivesNone, SaveRevivesStale
<1>2. [][Explained]_allVars => RevivedByStaleSave
  BY PTL DEF RevivedByStaleSave
<1> HIDE DEF Explained
<1> QED BY <1>1, <1>2, StoreInvariance, PTL DEF StoreSpec

\* The controller and its database implement the life of an execution, for any number of
\* executions, nodes, handlers past the lock and restarts of the controller: none that
\* was accepted is lost, ends without a report, or is handed out twice in between.
THEOREM StoreImplementsLife == StoreSpec => ImplementsLife
<1>1. EmptyInit => Life!Init
  BY DEF EmptyInit, Init, StoreInit, Life!Init, lifeBar, LifeIn
<1>2. SInv /\ [StoreNext]_allVars => [Life!Next]_<<lifeBar, restarts>>
  BY NextStep, LifeStepIsNext
<1> QED BY <1>1, <1>2, StoreInvariance, PTL DEF StoreSpec, ImplementsLife, Life!Spec

LEMMA SavedInvariance == StoreSpec => [](SInv /\ MInv)
<1>1. EmptyInit => MInv
  BY InitSaved
<1>2. SInv /\ MInv /\ [StoreNext]_allVars => MInv'
  BY NextSaved
<1> QED BY <1>1, <1>2, StoreInvariance, PTL DEF StoreSpec

\* The controller and its tables have the types they should: for every number of
\* handlers, restarts and executions.
THEOREM StoreTypeCorrect == StoreSpec => []StoreTypeOK
<1>1. SInv /\ MInv => StoreTypeOK
  BY DEF SInv, MInv, Exact, TypesHold, Typed, StoreTypeOK, TypeOK
<1> QED BY <1>1, SavedInvariance, PTL

\* Whatever else is written late or not at all, the metadata table has the images,
\* pools, environments and nodes the controller goes by.
THEOREM MetadataStaysCurrent == StoreSpec => []MetadataIsCurrent
<1>1. MInv => MetadataIsCurrent
  BY DEF MInv, SameFiles, MetadataIsCurrent
<1> QED BY <1>1, SavedInvariance, PTL

\* A restart strands an execution on a pool that is gone only where its row was behind.
THEOREM StrandedExplained == StoreSpec => StrandedByUnsavedMove
<1> DEFINE Explained ==
      restarts' # restarts =>
       \A e \in Exec :
         /\ cluster'.execs[e] # None
         /\ cluster'.pools[cluster'.execs[e].pool] = None
         => \/ cluster.execs[e] = None
            \/ cluster.pools[cluster.execs[e].pool] = None
            \/ rows[e].pool # cluster.execs[e].pool
<1>1. SInv /\ MInv /\ [StoreNext]_allVars => Explained
  <2> SUFFICES ASSUME SInv, MInv, [StoreNext]_allVars, restarts' # restarts,
                      NEW e \in Exec, cluster'.execs[e] # None,
                      cluster'.pools[cluster'.execs[e].pool] = None
               PROVE  \/ cluster.pools[cluster.execs[e].pool] = None
                      \/ rows[e].pool # cluster.execs[e].pool
    OBVIOUS
  <2>1. Restart
    BY NextSaved
  <2>2. /\ \A p \in Pool : cluster'.pools[p] = None <=> cluster.pools[p] = None
        /\ cluster'.execs = Loaded(rows)
    BY <2>1, RestartFollows
  <2>3. IsActive(rows, e)
    BY <2>2, LoadedLemma DEF SInv
  <2>4. cluster'.execs[e].pool = rows[e].pool
    BY <2>2, <2>3 DEF Loaded
  <2>5. rows[e].pool \in Pool
    BY <2>3 DEF SInv, Exact, IsActive, Row
  <2> QED BY <2>2, <2>4, <2>5
<1>2. (StoreSpec => [][Explained]_allVars) => (StoreSpec => StrandedByUnsavedMove)
  BY DEF StrandedByUnsavedMove
<1> HIDE DEF Explained
<1> QED BY <1>1, <1>2, SavedInvariance, PTL DEF StoreSpec

\* Results take the table past its limit only through a write that was delayed past the
\* end of an execution whose row was pruned since.
THEOREM LimitHeld == StoreSpec => ResultsWithinLimit
<1>1. SInv /\ MInv /\ [StoreNext]_allVars => Explains
  BY NextExplains
<1>2. (StoreSpec => [][Explains]_allVars) => (StoreSpec => ResultsWithinLimit)
  BY DEF ResultsWithinLimit, Explains
<1> QED BY <1>1, <1>2, SavedInvariance, PTL DEF StoreSpec
=============================================================================
