---------------------------- MODULE AgentProofs ----------------------------
(***************************************************************************)
(* What holds of the node agents and the controller together, for every    *)
(* number of nodes, executions, pools, images, environments and requests.  *)
(*                                                                         *)
(* The invariant AInv is the controller's with that of the agents: an      *)
(* agent that is down has nothing, and a task is the run of an execution   *)
(* that is running at its node.  DriftIsExplained compares what a step     *)
(* does to the two counts of the same MicroVMs: Drift says it of the       *)
(* controller's side, for each handler, and the lemmas on the agent's      *)
(* steps match it with what becomes of the table.                          *)
(***************************************************************************)
EXTENDS NodeAgent, ControllerProofs

-----------------------------------------------------------------------------
(* What a controller step does to the numbers an agent's are compared with. *)

\* The executions at work on pool p at node n that are not known to have their MicroVM:
\* those the node was not handed yet and those of N.
Meant(c, N, n, p) == {e \in InUse(c, n, p) : c.execs[e].status = "assigned" \/ e \in N}

Room(c, N, n, p) == IdleAt(c, n, p) + Cardinality(Meant(c, N, n, p))

GoesAway(c, d, n, p) ==
  \/ c.nodes[n] # None /\ d.nodes[n] = None
  \/ d.pools[p] = None
  \/ d.pools[p].cfg.warm = 0

\* From c to d the idle MicroVMs of p at n the controller counts grow by k at the most and
\* those together with the executions meant for one by k at least, unless n or p goes away.
Drift(c, d, N, n, p, k) ==
  /\ IdleAt(d, n, p) <= IdleAt(c, n, p) + k
  /\ GoesAway(c, d, n, p) \/ Room(c, N, n, p) + k <= Room(d, N, n, p)

Steady(c, d, N) == \A n \in Node, p \in Pool : Drift(c, d, N, n, p, 0)

\* What the controller counts as idle and what may be meant for it are numbers.
LEMMA RoomType ==
  ASSUME NEW c \in Cluster, NEW N, NEW n \in Node, NEW p \in Pool
  PROVE  /\ IdleAt(c, n, p) \in Nat
         /\ IsFiniteSet(Meant(c, N, n, p)) /\ Cardinality(Meant(c, N, n, p)) \in Nat
         /\ Room(c, N, n, p) \in Nat
<1>1. IdleAt(c, n, p) \in Nat
  BY HeldType
<1>2. Meant(c, N, n, p) \subseteq Exec
  BY DEF Meant, InUse, ActiveOn
<1>3. IsFiniteSet(Meant(c, N, n, p)) /\ Cardinality(Meant(c, N, n, p)) \in Nat
  BY <1>2, FiniteParts
<1> QED BY <1>1, <1>3 DEF Room

LEMMA MeantDrift ==
  ASSUME NEW c \in Cluster, NEW d \in Cluster, NEW N, NEW n \in Node, NEW p \in Pool,
         NEW k \in Int, IdleAt(d, n, p) = IdleAt(c, n, p) + k,
         Meant(d, N, n, p) = Meant(c, N, n, p)
  PROVE  Drift(c, d, N, n, p, k)
<1>1. /\ IdleAt(c, n, p) \in Nat /\ IdleAt(d, n, p) \in Nat
      /\ Cardinality(Meant(c, N, n, p)) \in Nat
  BY RoomType
<1>2. Room(c, N, n, p) + k <= Room(d, N, n, p) /\ IdleAt(d, n, p) <= IdleAt(c, n, p) + k
  BY <1>1 DEF Room
<1> QED BY <1>2 DEF Drift

\* Where the executions at work and the idle MicroVMs are the same.
LEMMA SameDrift ==
  ASSUME NEW c \in Cluster, NEW d \in Cluster, NEW N, NEW n \in Node, NEW p \in Pool,
         IdleAt(d, n, p) = IdleAt(c, n, p), InUse(d, n, p) = InUse(c, n, p),
         \A e \in InUse(c, n, p) : d.execs[e] = c.execs[e]
  PROVE  Drift(c, d, N, n, p, 0)
<1>1. Meant(d, N, n, p) = Meant(c, N, n, p)
  BY DEF Meant
<1>2. IdleAt(d, n, p) = IdleAt(c, n, p) + 0
  BY RoomType
<1> QED BY <1>1, <1>2, MeantDrift

\* Where the node or the pool goes away, only that the count does not grow has to be
\* shown.
LEMMA AwayDrift ==
  ASSUME NEW c \in Cluster, NEW d \in Cluster, NEW N, NEW n \in Node, NEW p \in Pool,
         IdleAt(d, n, p) <= IdleAt(c, n, p), GoesAway(c, d, n, p)
  PROVE  Drift(c, d, N, n, p, 0)
<1>1. IdleAt(c, n, p) \in Nat
  BY RoomType
<1> QED BY <1>1 DEF Drift

\* What follows a change may take it further, if it keeps the nodes there are and makes no
\* pool.
LEMMA DriftOn ==
  ASSUME NEW b \in Cluster, NEW c \in Cluster, NEW d \in Cluster, NEW N,
         NEW n \in Node, NEW p \in Pool, NEW k \in Int,
         Drift(b, c, N, n, p, k), Drift(c, d, N, n, p, 0),
         c.nodes[n] = None <=> d.nodes[n] = None,
         d.pools[p] = c.pools[p] \/ d.pools[p] = None
  PROVE  Drift(b, d, N, n, p, k)
<1>1. /\ IdleAt(b, n, p) \in Nat /\ IdleAt(c, n, p) \in Nat /\ IdleAt(d, n, p) \in Nat
      /\ Room(b, N, n, p) \in Nat /\ Room(c, N, n, p) \in Nat /\ Room(d, N, n, p) \in Nat
  BY RoomType
<1>2. IdleAt(d, n, p) <= IdleAt(b, n, p) + k
  BY <1>1 DEF Drift
<1>4. CASE GoesAway(b, c, n, p) \/ GoesAway(c, d, n, p)
  <2>1. GoesAway(b, d, n, p)
    BY <1>4 DEF GoesAway
  <2> QED BY <1>2, <2>1 DEF Drift
<1>5. CASE ~ GoesAway(b, c, n, p) /\ ~ GoesAway(c, d, n, p)
  <2>1. Room(b, N, n, p) + k <= Room(c, N, n, p) /\ Room(c, N, n, p) + 0 <= Room(d, N, n, p)
    BY <1>5 DEF Drift
  <2>2. Room(b, N, n, p) + k <= Room(d, N, n, p)
    BY <1>1, <2>1
  <2> QED BY <1>2, <2>2 DEF Drift
<1> QED BY <1>4, <1>5

\* Placing an execution on an idle MicroVM has it wait for one, and so has placing it where
\* one is to be started.
LEMMA PlaceSteady ==
  ASSUME NEW c \in Cluster, NEW e \in Exec, NEW n \in Node, IsQueued(c, e),
         c.nodes[n] # None, c.pools[c.execs[e].pool] # None, NEW N,
         NEW d, d = Place(c, e, n)
  PROVE  Steady(c, d, N)
<1> DEFINE p == c.execs[e].pool
           size == c.pools[p].cfg.size
<1>0. p = c.execs[e].pool /\ size = c.pools[p].cfg.size
  OBVIOUS
<1>8. c.pools[p] # None
  OBVIOUS
<1> HIDE DEF size, p
<1>1. /\ d \in Cluster /\ p \in Pool
      /\ \A f \in Exec : f # e => d.execs[f] = c.execs[f]
      /\ ~ Works(c, e) /\ Works(d, e) /\ d.execs[e].pool = p /\ d.execs[e].node = n
      /\ \A m \in Node, y \in Pool : m # n \/ y # p => IdleAt(d, m, y) = IdleAt(c, m, y)
      /\ IdleAt(c, n, p) \in Nat
      /\ IdleAt(c, n, p) > 0 => IdleAt(d, n, p) = IdleAt(c, n, p) - 1
      /\ ~ (IdleAt(c, n, p) > 0) => IdleAt(d, n, p) = IdleAt(c, n, p)
  BY <1>0, <1>8, PlaceCounts
<1>2. d.execs[e].status = "assigned"
  BY PlaceParts
<1>3. /\ \A m \in Node, y \in Pool : m # n \/ y # p => InUse(d, m, y) = InUse(c, m, y)
      /\ InUse(d, n, p) = InUse(c, n, p) \cup {e}
      /\ e \notin InUse(c, n, p)
  BY ONLY <1>1, InUseAdded
<1>4. ASSUME NEW m \in Node, NEW y \in Pool, m # n \/ y # p
      PROVE  Drift(c, d, N, m, y, 0)
  <2>1. IdleAt(d, m, y) = IdleAt(c, m, y) /\ InUse(d, m, y) = InUse(c, m, y)
    BY <1>1, <1>3, <1>4
  <2>2. ASSUME NEW f \in InUse(c, m, y) PROVE d.execs[f] = c.execs[f]
    <3>1. f \in Exec /\ Works(c, f)
      BY <2>2 DEF InUse, ActiveOn, Holds, Works
    <3> QED BY <1>1, <3>1
  <2> QED BY <1>1, <2>1, <2>2, SameDrift
<1>5. Drift(c, d, N, n, p, 0)
  <2>1. e \notin Meant(c, N, n, p)
    BY <1>3 DEF Meant
  <2>2. Meant(d, N, n, p) = Meant(c, N, n, p) \cup {e}
    <3>1. \A f \in InUse(c, n, p) : d.execs[f] = c.execs[f]
      BY <1>1, <1>3 DEF InUse, ActiveOn
    <3> QED BY <1>2, <1>3, <3>1 DEF Meant
  <2>3. /\ IsFiniteSet(Meant(c, N, n, p)) /\ Cardinality(Meant(c, N, n, p)) \in Nat
    BY <1>1, RoomType
  <2>4. Cardinality(Meant(d, N, n, p)) = Cardinality(Meant(c, N, n, p)) + 1
    BY <2>1, <2>2, <2>3, FS_AddElement
  <2>5. Room(c, N, n, p) + 0 <= Room(d, N, n, p)
    BY <1>1, <2>3, <2>4 DEF Room
  <2>6. IdleAt(d, n, p) <= IdleAt(c, n, p) + 0
    BY <1>1
  <2> QED BY <2>5, <2>6 DEF Drift
<1> QED BY <1>4, <1>5 DEF Steady

LEMMA SteadySelf ==
  ASSUME NEW c \in Cluster, NEW N
  PROVE  Steady(c, c, N)
BY SameDrift DEF Steady

\* For each idle MicroVM that schedule_queued takes out of the count it places an execution
\* that is meant for it.
LEMMA SweepSteady ==
  ASSUME NEW c \in Cluster, NEW N
  PROVE  Steady(c, ScheduleQueued(c), N)
<1> DEFINE good == {d \in Cluster : Steady(c, d, N)}
           S == [k \in 0..MaxExec |-> good]
<1>1. \A k \in Exec : k \in 0..MaxExec /\ k - 1 \in 0..MaxExec
  BY SchedulerAssumption DEF Exec
<1>2. 0 \in 0..MaxExec /\ MaxExec \in 0..MaxExec
  BY SchedulerAssumption
<1>3. ASSUME NEW k \in Exec, NEW d \in good PROVE TurnOf(d, k) \in good
  <2>1. CASE ~ IsQueued(d, k)
    BY <1>3, <2>1 DEF TurnOf
  <2>2. CASE IsQueued(d, k) /\ Schedule(d, k) = d
    BY <1>3, <2>2 DEF TurnOf
  <2>3. CASE IsQueued(d, k) /\ Schedule(d, k) # d
    <3>1. PICK n \in Node :
            /\ d.nodes[n] # None /\ Schedule(d, k) = Place(d, k, n)
            /\ d.pools[d.execs[k].pool] # None
      BY <2>3, ScheduleCases DEF Schedulable
    <3> DEFINE t == Place(d, k, n)
    <3>3. t = Place(d, k, n)
      OBVIOUS
    <3> HIDE DEF t
    <3>4. t \in Cluster /\ Placed(d, t)
      BY <2>3, <3>1, <3>3, PlaceLemma
    <3>5. Steady(d, t, N)
      BY <2>3, <3>1, <3>3, PlaceSteady
    <3>6. Steady(c, t, N)
      BY <3>4, <3>5, DriftOn DEF Steady, Placed
    <3> QED BY <2>3, <3>1, <3>3, <3>4, <3>6 DEF TurnOf
  <2> QED BY <2>1, <2>2, <2>3
<1>4. c \in good
  BY SteadySelf
<1> HIDE DEF good
<1>5. c \in S[0] /\ \A k \in Exec : \A d \in S[k-1] : TurnOf(d, k) \in S[k]
  BY <1>1, <1>2, <1>3, <1>4
<1>6. ScheduleQueued(c) \in S[MaxExec]
  <2> HIDE DEF S
  <2> QED BY <1>5, SweepInduction
<1> QED BY <1>2, <1>6 DEF good

\* schedule_queued after a change.
LEMMA SweptDrift ==
  ASSUME NEW c \in Cluster, NEW d \in Cluster, NEW N, NEW n \in Node, NEW p \in Pool,
         NEW k \in Int, Drift(c, d, N, n, p, k)
  PROVE  Drift(c, ScheduleQueued(d), N, n, p, k)
<1>1. Drift(d, ScheduleQueued(d), N, n, p, 0)
  BY SweepSteady DEF Steady
<1>2. ScheduleQueued(d) \in Cluster /\ Placed(d, ScheduleQueued(d))
  BY SweepLemma
<1> QED BY <1>1, <1>2, DriftOn DEF Placed

-----------------------------------------------------------------------------
(* The controller's handlers. *)

\* Where no execution changes, and idle MicroVMs go only where the node or the pool does.
LEMMA SameExecsSteady ==
  ASSUME NEW c \in Cluster, NEW d \in Cluster, NEW N, d.execs = c.execs,
         \A n \in Node, p \in Pool :
           \/ IdleAt(d, n, p) = IdleAt(c, n, p)
           \/ IdleAt(d, n, p) = 0 /\ GoesAway(c, d, n, p)
  PROVE  Steady(c, d, N)
<1> SUFFICES ASSUME NEW n \in Node, NEW p \in Pool PROVE Drift(c, d, N, n, p, 0)
  BY DEF Steady
<1>1. IdleAt(c, n, p) \in Nat
  BY RoomType
<1>2. CASE IdleAt(d, n, p) = IdleAt(c, n, p)
  <2>1. InUse(d, n, p) = InUse(c, n, p)
    BY DEF InUse, ActiveOn, Holds
  <2> QED BY <1>2, <2>1, SameDrift
<1>3. CASE IdleAt(d, n, p) = 0 /\ GoesAway(c, d, n, p)
  BY <1>1, <1>3, AwayDrift
<1> QED BY <1>2, <1>3

LEMMA SteadyReached ==
  ASSUME cluster \in Cluster, NEW N, NEW d \in Cluster, Steady(cluster, d, N),
         cluster' = d \/ cluster' = ScheduleQueued(d)
  PROVE  Steady(cluster, cluster', N)
BY SweptDrift DEF Steady

LEMMA UntouchedSteady ==
  ASSUME NEW c \in Cluster, NEW d \in Cluster, NEW N, Untouched(c, d)
  PROVE  Steady(c, d, N)
<1>1. ASSUME NEW n \in Node, NEW p \in Pool
      PROVE  \/ IdleAt(d, n, p) = IdleAt(c, n, p)
             \/ IdleAt(d, n, p) = 0 /\ GoesAway(c, d, n, p)
  BY DEF Untouched, IdleAt, GoesAway
<1> QED BY <1>1, SameExecsSteady DEF Untouched

LEMMA QuietSteady ==
  ASSUME IInv, Quiet, NEW N
  PROVE  Steady(cluster, cluster', N)
<1>1. cluster \in Cluster
  BY DEF IInv, Sound, Typed
<1> QED BY <1>1, UntouchedSteady, SteadyReached DEF Quiet

\* Handlers that change pools, environments and requests only.
LEMMA PoolsSteady ==
  ASSUME IInv, NEW d \in Cluster, NEW N, d.nodes = cluster.nodes, d.execs = cluster.execs,
         cluster' = d \/ cluster' = ScheduleQueued(d)
  PROVE  Steady(cluster, cluster', N)
<1>1. cluster \in Cluster
  BY DEF IInv, Sound, Typed
<1>2. \A n \in Node, p \in Pool : IdleAt(d, n, p) = IdleAt(cluster, n, p)
  BY DEF IdleAt
<1>3. Steady(cluster, d, N)
  BY <1>1, <1>2, SameExecsSteady
<1> QED BY <1>1, <1>3, SteadyReached

LEMMA CreatePoolSteady ==
  ASSUME IInv, NEW p \in UserPool, NEW cfg \in PoolConfig, CreatePool(p, cfg), NEW N
  PROVE  Steady(cluster, cluster', N)
<1>1. cluster \in Cluster /\ cluster' \in Cluster
  BY CreatePoolKept, ControllerAssumption DEF IInv, Sound, Typed, Kept
<1>2. cluster'.execs = cluster.execs /\ cluster'.nodes = cluster.nodes
  BY <1>1 DEF CreatePool, Cluster
<1> QED BY <1>1, <1>2, PoolsSteady

LEMMA CommitCreateSteady ==
  ASSUME IInv, NEW r \in Req, CommitCreate(r), NEW N
  PROVE  Steady(cluster, cluster', N)
<1>1. cluster \in Cluster /\ cluster' \in Cluster
  BY CommitCreateKept DEF IInv, Sound, Typed, Kept
<1>2. cluster'.execs = cluster.execs /\ cluster'.nodes = cluster.nodes
  BY <1>1 DEF CommitCreate, Cluster
<1> QED BY <1>1, <1>2, PoolsSteady

\* A pool that goes away takes its own idle MicroVMs out of the count and no other.
LEMMA DropPoolIdle ==
  ASSUME NEW c \in Cluster, NEW p \in Pool, NEW d, d = DropPool(c, p)
  PROVE  /\ d \in Cluster /\ d.pools[p] = None /\ d.execs = c.execs
         /\ \A n \in Node, y \in Pool :
              IdleAt(d, n, y) = IdleAt(c, n, y) \/ (IdleAt(d, n, y) = 0 /\ y = p)
<1>1. /\ d \in Cluster /\ d.execs = c.execs
      /\ d.pools = [c.pools EXCEPT ![p] = None]
      /\ \A n \in Node : d.nodes[n] = None <=> c.nodes[n] = None
  BY DropPoolLemma
<1>2. d.pools[p] = None
  BY <1>1 DEF Cluster
<1>3. ASSUME NEW n \in Node, NEW y \in Pool
      PROVE  IdleAt(d, n, y) = IdleAt(c, n, y) \/ (IdleAt(d, n, y) = 0 /\ y = p)
  <2>1. CASE c.nodes[n] = None
    BY <1>1, <2>1 DEF IdleAt
  <2>2. CASE c.pools[p] = None
    BY <2>2 DEF DropPool
  <2>3. CASE c.nodes[n] # None /\ c.pools[p] # None
    <3>1. d.nodes[n].idle = [c.nodes[n].idle EXCEPT ![p] = 0] /\ c.nodes[n].idle \in [Pool -> Nat]
      BY <2>3, DropPoolNodes, ClusterParts DEF NodeRec
    <3>2. d.nodes[n].idle[y] = IF y = p THEN 0 ELSE c.nodes[n].idle[y]
      BY <3>1
    <3> QED BY <1>1, <2>3, <3>2 DEF IdleAt
  <2> QED BY <2>1, <2>2, <2>3
<1> QED BY <1>1, <1>2, <1>3

LEMMA DropPoolSteady ==
  ASSUME NEW c \in Cluster, NEW p \in Pool, NEW N, NEW d, d = DropPool(c, p)
  PROVE  d \in Cluster /\ Steady(c, d, N)
<1>1. /\ d \in Cluster /\ d.pools[p] = None /\ d.execs = c.execs
      /\ \A n \in Node, y \in Pool :
           IdleAt(d, n, y) = IdleAt(c, n, y) \/ (IdleAt(d, n, y) = 0 /\ y = p)
  BY DropPoolIdle
<1>2. \A n \in Node : GoesAway(c, d, n, p)
  BY <1>1 DEF GoesAway
<1> QED BY <1>1, <1>2, SameExecsSteady

LEMMA DeletePoolSteady ==
  ASSUME IInv, NEW p \in Pool, DeletePool(p), NEW N
  PROVE  Steady(cluster, cluster', N)
<1>1. cluster \in Cluster /\ cluster' = DropPool(cluster, p)
  BY DEF IInv, Sound, Typed, DeletePool
<1> QED BY <1>1, DropPoolSteady

LEMMA DeleteEnvironmentSteady ==
  ASSUME IInv, NEW i \in Env, DeleteEnvironment(i), NEW N
  PROVE  Steady(cluster, cluster', N)
<1> DEFINE env == cluster.envs[i]
           gone == IF env.cfg.artifact # None /\ LastUser(i) THEN {env.cfg.artifact} ELSE {}
           p == env.pool
           b == DropPool(cluster, p)
           e == [b EXCEPT !.envs[i] = None]
<1>1. cluster \in Cluster /\ cluster' \in Cluster
  BY DeleteEnvironmentKept DEF IInv, Sound, Typed, Kept
<1>2. p \in Pool /\ b = DropPool(cluster, p)
  BY EmptiedPool
<1>3. cluster' = [e EXCEPT !.nodes = [n \in Node |->
                    IF e.nodes[n] = None THEN None
                    ELSE [e.nodes[n] EXCEPT !.artifacts = @ \ gone]]]
  BY DEF DeleteEnvironment
<1> HIDE DEF b, env, gone, p
<1>4. /\ b \in Cluster /\ b.pools[p] = None /\ b.execs = cluster.execs
      /\ \A n \in Node, y \in Pool :
           IdleAt(b, n, y) = IdleAt(cluster, n, y) \/ (IdleAt(b, n, y) = 0 /\ y = p)
  BY <1>1, <1>2, DropPoolIdle
<1>5. /\ cluster'.execs = b.execs /\ cluster'.pools = b.pools
      /\ \A n \in Node : cluster'.nodes[n] =
           IF b.nodes[n] = None THEN None
           ELSE [b.nodes[n] EXCEPT !.artifacts = b.nodes[n].artifacts \ gone]
  BY <1>3, <1>4 DEF Cluster
<1>6. ASSUME NEW n \in Node, NEW y \in Pool PROVE IdleAt(cluster', n, y) = IdleAt(b, n, y)
  <2>1. CASE b.nodes[n] = None
    BY <1>5, <2>1 DEF IdleAt
  <2>2. CASE b.nodes[n] # None
    <3>1. b.nodes[n] \in NodeRec
      BY <1>4, <2>2, ClusterParts
    <3>2. cluster'.nodes[n] = [b.nodes[n] EXCEPT !.artifacts = b.nodes[n].artifacts \ gone]
      BY <1>5, <2>2
    <3>3. [b.nodes[n] EXCEPT !.artifacts = b.nodes[n].artifacts \ gone] \in NodeRec
      BY <3>1, NodeUpdates DEF NodeRec
    <3>4. cluster'.nodes[n] # None /\ cluster'.nodes[n].idle = b.nodes[n].idle
      BY ONLY <3>1, <3>2, <3>3, Apart DEF NodeRec
    <3> QED BY <2>2, <3>4 DEF IdleAt
  <2> QED BY <2>1, <2>2
<1>7. \A n \in Node : GoesAway(cluster, cluster', n, p)
  BY <1>4, <1>5 DEF GoesAway
<1> QED BY <1>1, <1>4, <1>5, <1>6, <1>7, SameExecsSteady

LEMMA RequeueIdle ==
  ASSUME NEW c \in Cluster, NEW old \in Pool, NEW new \in Pool,
         NEW a, a = Requeue(c, old, new)
  PROVE  \A n \in Node, p \in Pool : IdleAt(a, n, p) = IdleAt(c, n, p)
<1> DEFINE size == IF c.pools[old] = None THEN 0 ELSE c.pools[old].cfg.size
<1>1. size = IF c.pools[old] = None THEN 0 ELSE c.pools[old].cfg.size
  OBVIOUS
<1> HIDE DEF size
<1>2. \A n \in Node : a.nodes[n] = None <=> c.nodes[n] = None
  BY RequeueLemma
<1> DEFINE freed(n) == {e \in Movable(c, old) :
                          c.execs[e].status = "assigned" /\ c.execs[e].node = n}
<1>3. ASSUME NEW n \in Node, c.nodes[n] # None
      PROVE  /\ a.nodes[n].idle = c.nodes[n].idle
             /\ a.nodes[n].used = Monus(c.nodes[n].used, size * Cardinality(freed(n)))
  BY <1>1, <1>3, RequeueNodes
<1> QED BY <1>2, <1>3 DEF IdleAt

\* A restart of a pool changes no count of idle MicroVMs but the old pool's, if it drops that.
LEMMA RestartIdle ==
  ASSUME NEW c \in Cluster, PoolsExist(c),
         NEW i \in Env, NEW old \in Pool, NEW new \in Pool, NEW cfg \in Config, old # new,
         NEW d, d = RestartPool(c, i, old, new, cfg), NEW n \in Node, NEW p \in Pool
  PROVE  IdleAt(d, n, p) = IdleAt(c, n, p) \/ (IdleAt(d, n, p) = 0 /\ p = old)
<1> DEFINE a == Requeue(c, old, new)
           b == RetirePool(a, old)
<1>1. a = Requeue(c, old, new) /\ b = RetirePool(a, old)
  OBVIOUS
<1>2. d = [b EXCEPT !.pools[new] = [env |-> i, cfg |-> cfg], !.envs[i] = [pool |-> new, cfg |-> cfg]]
  BY DEF RestartPool
<1> HIDE DEF a, b
<1>3. a \in Cluster
  BY <1>1, RequeueLemma
<1>4. IdleAt(a, n, p) = IdleAt(c, n, p)
  BY <1>1, RequeueIdle
<1>5. \/ b = [a EXCEPT !.pools[old].cfg.warm = 0]
      \/ b = DropPool(a, old)
  BY <1>1 DEF RetirePool
<1>6. CASE b = [a EXCEPT !.pools[old].cfg.warm = 0]
  <2>1. d.nodes = a.nodes
    BY <1>2, <1>3, <1>6 DEF Cluster
  <2> QED BY <1>4, <2>1 DEF IdleAt
<1>7. CASE b = DropPool(a, old)
  <2>1. /\ b \in Cluster
        /\ IdleAt(b, n, p) = IdleAt(a, n, p) \/ (IdleAt(b, n, p) = 0 /\ p = old)
    BY <1>3, <1>7, DropPoolIdle
  <2>2. d.nodes = b.nodes
    BY <1>2, <2>1 DEF Cluster
  <2>3. IdleAt(d, n, p) = IdleAt(b, n, p)
    BY <2>2 DEF IdleAt
  <2> QED BY <1>4, <2>1, <2>3
<1> QED BY <1>5, <1>6, <1>7

\* The old pool of an environment goes away, at once or by being kept no longer warm; the
\* executions moved to the new one are queued.
LEMMA RestartSteady ==
  ASSUME NEW c \in Cluster, PoolsExist(c), NEW N,
         NEW i \in Env, NEW old \in Pool, NEW new \in Pool, NEW cfg \in Config, old # new,
         NEW d, d = RestartPool(c, i, old, new, cfg)
  PROVE  d \in Cluster /\ Steady(c, d, N)
<1>1. Restarted(c, i, old, new, cfg, d)
  BY RestartParts
<1>2. d \in Cluster
  BY <1>1 DEF Restarted
<1>3. d.pools[old] = None \/ d.pools[old].cfg.warm = 0
  <2>1. ASSUME d.pools[old] # None PROVE d.pools[old].cfg.warm = 0
    <3>1. c.pools[old] # None /\ d.pools[old].cfg = [c.pools[old].cfg EXCEPT !.warm = 0]
      BY <1>1, <2>1 DEF Restarted
    <3>2. c.pools[old].cfg \in Config
      BY <3>1, ClusterParts DEF PoolRec
    <3> QED BY <3>1, <3>2 DEF Config
  <2> QED BY <2>1
<1> SUFFICES ASSUME NEW n \in Node, NEW p \in Pool PROVE Drift(c, d, N, n, p, 0)
  BY <1>2 DEF Steady
<1>4. IdleAt(d, n, p) = IdleAt(c, n, p) \/ (IdleAt(d, n, p) = 0 /\ p = old)
  BY RestartIdle
<1>5. IdleAt(c, n, p) \in Nat
  BY RoomType
<1>6. CASE p = old
  <2>1. GoesAway(c, d, n, p)
    BY <1>3, <1>6 DEF GoesAway
  <2>2. IdleAt(d, n, p) <= IdleAt(c, n, p)
    BY <1>4, <1>5
  <2> QED BY <1>2, <2>1, <2>2, AwayDrift
<1>7. CASE p # old
  <2>1. \A e \in Exec :
          IF e \in Movable(c, old)
          THEN /\ d.execs[e] # None /\ d.execs[e].status = "queued" /\ c.execs[e].pool = old
          ELSE d.execs[e] = c.execs[e]
    BY <1>1 DEF Restarted, Movable
  <2>2. InUse(d, n, p) = InUse(c, n, p)
    BY <1>7, <2>1 DEF InUse, ActiveOn, Holds
  <2>3. \A e \in InUse(c, n, p) : d.execs[e] = c.execs[e]
    BY <1>7, <2>1 DEF InUse, ActiveOn, Holds
  <2> QED BY <1>2, <1>4, <1>7, <2>2, <2>3, SameDrift
<1> QED BY <1>6, <1>7

LEMMA ReplacedSteady ==
  ASSUME IInv, NEW i \in Env, NEW old \in Pool, NEW cfg \in Config,
         Claims(cluster, requests, i, old), FreshPools # {},
         NEW new, new = NewId(FreshPools), NEW N,
         cluster' = ScheduleQueued(RestartPool(cluster, i, old, new, cfg))
  PROVE  Steady(cluster, cluster', N)
<1> DEFINE d == RestartPool(cluster, i, old, new, cfg)
<1>1. cluster \in Cluster /\ PoolsExist(cluster)
  BY DEF IInv, Sound, Typed
<1>2. new \in Pool /\ old # new
  BY Fresh
<1>3. d = RestartPool(cluster, i, old, new, cfg)
  OBVIOUS
<1> HIDE DEF d
<1>4. d \in Cluster /\ Steady(cluster, d, N)
  BY <1>1, <1>2, <1>3, RestartSteady
<1> QED BY <1>1, <1>3, <1>4, SteadyReached

LEMMA RestartEnvironmentSteady ==
  ASSUME IInv, NEW i \in Env, RestartEnvironment(i), NEW N
  PROVE  Steady(cluster, cluster', N)
<1> DEFINE env == cluster.envs[i]
<1>1. env \in EnvRec /\ env # None
  BY ClusterParts DEF IInv, Sound, Typed, RestartEnvironment
<1>2. env.pool \in Pool /\ env.cfg \in Config /\ Claims(cluster, requests, i, env.pool)
  BY <1>1 DEF EnvRec, Claims
<1>3. /\ cluster' = ScheduleQueued(RestartPool(cluster, i, env.pool, NewId(FreshPools), env.cfg))
      /\ FreshPools # {}
  BY DEF RestartEnvironment
<1> HIDE DEF env
<1> QED BY <1>2, <1>3, ReplacedSteady

LEMMA CommitUpdateSteady ==
  ASSUME IInv, NEW r \in Req, CommitUpdate(r), NEW N
  PROVE  Steady(cluster, cluster', N)
<1> DEFINE i == requests[r].env
           old == requests[r].old
           cfg == requests[r].cfg
           v == [pool |-> old.pool, cfg |-> cfg]
           x == [env |-> i, cfg |-> cfg]
           d == [cluster EXCEPT !.pools[old.pool] = x, !.envs[i] = v]
<1>1. cluster \in Cluster
  BY DEF IInv, Sound, Typed
<1>2. /\ i \in Env /\ old \in EnvRec /\ old.pool \in Pool /\ cfg \in Config
      /\ Claims(cluster, requests, i, old.pool)
  <2>1. requests[r] \in CreateReq \cup UpdateReq
    BY DEF IInv, Sound, Typed, CommitUpdate
  <2>2. requests[r] \in UpdateReq
    BY <2>1 DEF CreateReq, CommitUpdate
  <2>3. i \in Env /\ old \in EnvRec /\ old.pool \in Pool /\ cfg \in Config
    BY <2>2 DEF UpdateReq, EnvRec
  <2> QED BY <2>3 DEF Claims, CommitUpdate
<1>3. CASE Rebuilds(old.cfg, cfg)
  <2>1. /\ cluster' = ScheduleQueued(RestartPool(cluster, i, old.pool, NewId(FreshPools), cfg))
        /\ FreshPools # {}
    BY <1>3 DEF CommitUpdate
  <2> HIDE DEF i, old, cfg
  <2> QED BY <1>2, <2>1, ReplacedSteady
<1>4. CASE ~ Rebuilds(old.cfg, cfg)
  <2>1. cluster' = ScheduleQueued(d)
    BY <1>4 DEF CommitUpdate
  <2>2. x \in PoolRec /\ v \in EnvRec
    BY <1>2 DEF PoolRec, EnvRec
  <2> HIDE DEF i, old, cfg, v, x
  <2>3. /\ [cluster.pools EXCEPT ![old.pool] = x] \in [Pool -> PoolRec \cup {None}]
        /\ [cluster.envs EXCEPT ![i] = v] \in [Env -> EnvRec \cup {None}]
    BY <1>1, <2>2 DEF Cluster
  <2> DEFINE g == [cluster EXCEPT !.pools = [cluster.pools EXCEPT ![old.pool] = x]]
  <2>4. g \in Cluster
    BY <1>1, <2>3, ClusterUpdates
  <2>5. /\ d = [g EXCEPT !.envs = [cluster.envs EXCEPT ![i] = v]]
        /\ d.nodes = cluster.nodes /\ d.execs = cluster.execs
    BY <1>1 DEF Cluster
  <2> HIDE DEF g, d
  <2>6. d \in Cluster
    BY <2>3, <2>4, <2>5, ClusterUpdates
  <2> QED BY <2>1, <2>5, <2>6, PoolsSteady
<1> QED BY <1>3, <1>4

\* A submission is queued, then placed or not.
LEMMA CreateExecutionSteady ==
  ASSUME IInv, NEW e \in Exec, NEW i \in Env, NEW p \in Pool, NEW queue \in BOOLEAN,
         CreateExecution(e, i, p, queue), NEW N
  PROVE  Steady(cluster, cluster', N)
<1> DEFINE x == [status |-> "queued", pool |-> p, node |-> None, env |-> i]
           d == [cluster EXCEPT !.execs[e] = x]
<1>1. /\ cluster \in Cluster /\ cluster.execs[e] = None /\ cluster' = Schedule(d, e)
  BY DEF IInv, Sound, Typed, CreateExecution
<1>2. x \in ExecRec /\ x # None /\ x.status = "queued" /\ x.pool = p
  <2>1. x \in ExecRec
    BY DEF ExecRec
  <2> QED BY <2>1, Apart
<1>3. d = [cluster EXCEPT !.execs = [cluster.execs EXCEPT ![e] = x]]
  BY <1>1 DEF Cluster
<1> HIDE DEF x
<1>4. /\ d \in Cluster /\ d.nodes = cluster.nodes
      /\ \A f \in Exec : d.execs[f] = IF f = e THEN x ELSE cluster.execs[f]
  <2> DEFINE g == [cluster EXCEPT !.execs = [cluster.execs EXCEPT ![e] = x]]
  <2>1. /\ g \in Cluster
        /\ g.pools = cluster.pools /\ g.envs = cluster.envs /\ g.nodes = cluster.nodes
        /\ \A f \in Exec : g.execs[f] = IF f = e THEN x ELSE cluster.execs[f]
    BY <1>1, <1>2, ExecChanged
  <2> QED BY <1>3, <2>1
<1> HIDE DEF d
<1>5. IsQueued(d, e) /\ d.execs[e].pool = p
  BY <1>2, <1>4 DEF IsQueued
<1>6. Steady(cluster, d, N)
  <2> SUFFICES ASSUME NEW n \in Node, NEW y \in Pool PROVE Drift(cluster, d, N, n, y, 0)
    BY DEF Steady
  <2>1. IdleAt(d, n, y) = IdleAt(cluster, n, y)
    BY <1>4 DEF IdleAt
  <2>2. InUse(d, n, y) = InUse(cluster, n, y)
    BY <1>1, <1>2, <1>4 DEF InUse, ActiveOn, Holds
  <2>3. \A f \in InUse(cluster, n, y) : d.execs[f] = cluster.execs[f]
    BY <1>1, <1>4 DEF InUse, ActiveOn, Holds
  <2> QED BY <1>1, <1>4, <2>1, <2>2, <2>3, SameDrift
<1>7. CASE cluster' = d
  BY <1>6, <1>7
<1>8. CASE cluster' # d
  <2>1. PICK n \in Node : /\ d.nodes[n] # None /\ cluster' = Place(d, e, n)
                          /\ d.pools[d.execs[e].pool] # None
    BY <1>1, <1>4, <1>5, <1>8, ScheduleCases DEF Schedulable
  <2> DEFINE t == Place(d, e, n)
  <2>2. t = Place(d, e, n)
    OBVIOUS
  <2> HIDE DEF t
  <2>3. t \in Cluster /\ Placed(d, t)
    BY <1>4, <1>5, <2>1, <2>2, PlaceLemma
  <2>4. Steady(d, t, N)
    BY <1>4, <1>5, <2>1, <2>2, PlaceSteady
  <2>5. Steady(cluster, t, N)
    BY <1>1, <1>4, <1>6, <2>3, <2>4, DriftOn DEF Steady, Placed
  <2> QED BY <2>1, <2>2, <2>5
<1> QED BY <1>7, <1>8

\* The start of an agent changes the count of its own idle MicroVMs.
LEMMA StartAgentSteady ==
  ASSUME IInv, NEW n \in Node, StartAgent(n), NEW N, NEW m \in Node, m # n, NEW p \in Pool
  PROVE  Drift(cluster, cluster', N, m, p, 0)
<1> DEFINE x == NewNode(n)
           known == IF cluster.nodes[n] # None THEN cluster
                    ELSE [cluster EXCEPT !.nodes = [cluster.nodes EXCEPT ![n] = x]]
           reset == ResetIdle(known, n)
           d == Refresh(reset, n)
<1>1. cluster \in Cluster
  BY DEF IInv, Sound, Typed
<1>2. x \in NodeRec /\ x # None
  <2>1. x \in NodeRec
    BY ControllerAssumption DEF NewNode, NodeRec
  <2> QED BY <2>1, Apart
<1>3. cluster' = ScheduleQueued(d)
  BY <1>1 DEF StartAgent, Cluster
<1> HIDE DEF x
<1>4. /\ known \in Cluster /\ SameWork(cluster, known) /\ known.nodes[n] # None
      /\ known.nodes[m] = cluster.nodes[m]
  <2>1. CASE cluster.nodes[n] # None
    BY <1>1, <2>1 DEF SameWork
  <2>2. CASE cluster.nodes[n] = None
    <3> DEFINE g == [cluster EXCEPT !.nodes = [cluster.nodes EXCEPT ![n] = x]]
    <3>1. g \in Cluster /\ SameWork(cluster, g)
      BY <1>1, <1>2, NodeChanged
    <3>2. \A k \in Node : g.nodes[k] = IF k = n THEN x ELSE cluster.nodes[k]
      BY <1>1 DEF Cluster
    <3>3. known = g
      BY <2>2
    <3> HIDE DEF g, known
    <3> QED BY <1>2, <3>1, <3>2, <3>3
  <2> QED BY <2>1, <2>2
<1> HIDE DEF known
<1>5. reset \in Cluster /\ SameWork(known, reset) /\ reset.nodes[m] = known.nodes[m]
  <2>1. reset \in Cluster /\ SameWork(known, reset)
    BY <1>4, ResetIdleLemma
  <2>2. reset.nodes[m] = known.nodes[m]
    BY <1>4 DEF ResetIdle, Cluster
  <2> QED BY <2>1, <2>2
<1> HIDE DEF reset
<1>6. reset.nodes[n] # None
  BY <1>4, <1>5 DEF SameWork
<1>7. d \in Cluster /\ d.nodes[m] = reset.nodes[m] /\ d.execs = reset.execs
  <2>1. d \in Cluster /\ SameWork(reset, d)
    BY <1>5, <1>6, RefreshLemma
  <2>2. d.nodes[m] = reset.nodes[m]
    BY <1>5 DEF Refresh, Cluster
  <2> QED BY <2>1, <2>2 DEF SameWork
<1> HIDE DEF d
<1>8. Drift(cluster, d, N, m, p, 0)
  <2>1. IdleAt(d, m, p) = IdleAt(cluster, m, p) /\ d.execs = cluster.execs
    BY <1>4, <1>5, <1>7 DEF SameWork, IdleAt
  <2>2. InUse(d, m, p) = InUse(cluster, m, p)
    BY <2>1 DEF InUse, ActiveOn, Holds
  <2> QED BY <1>1, <1>7, <2>1, <2>2, SameDrift
<1> QED BY <1>1, <1>3, <1>7, <1>8, SweptDrift

\* A count of idle MicroVMs changes, and nothing else.
LEMMA OneDrift ==
  ASSUME NEW c \in Cluster, NEW d \in Cluster, NEW N, NEW n \in Node, NEW p \in Pool,
         d.execs = c.execs, NEW k \in Int, IdleAt(d, n, p) = IdleAt(c, n, p) + k,
         \A m \in Node, y \in Pool : m # n \/ y # p => IdleAt(d, m, y) = IdleAt(c, m, y)
  PROVE  /\ Drift(c, d, N, n, p, k)
         /\ \A m \in Node, y \in Pool : m # n \/ y # p => Drift(c, d, N, m, y, 0)
<1>1. \A m \in Node, y \in Pool : InUse(d, m, y) = InUse(c, m, y)
  BY DEF InUse, ActiveOn, Holds
<1>2. Meant(d, N, n, p) = Meant(c, N, n, p)
  BY <1>1 DEF Meant
<1> QED BY <1>1, <1>2, MeantDrift, SameDrift

\* POST .../idle counts one more, whoever schedule_queued then gives it to.
LEMMA AddWarmDrift ==
  ASSUME IInv, NEW n \in Node, NEW p \in Pool, AddWarmInstance(n, p), NEW N
  PROVE  /\ Drift(cluster, cluster', N, n, p, 1)
         /\ \A m \in Node, y \in Pool : m # n \/ y # p => Drift(cluster, cluster', N, m, y, 0)
<1>1. cluster \in Cluster /\ cluster.nodes[n] # None /\ cluster.pools[p] # None
  BY DEF IInv, Sound, Typed, AddWarmInstance, WarmNeeded, WarmNodes
<1> DEFINE size == cluster.pools[p].cfg.size
           d == AddWarm(cluster, n, p)
<1>2. size = cluster.pools[p].cfg.size /\ d = AddWarm(cluster, n, p)
  OBVIOUS
<1>3. cluster' = ScheduleQueued(d)
  BY DEF AddWarmInstance
<1> HIDE DEF size, d
<1>4. d \in Cluster
  BY <1>1, <1>2, AddWarmLemma
<1>5. /\ d.pools = cluster.pools /\ d.execs = cluster.execs
      /\ \A m \in Node, y \in Pool :
           m # n \/ y # p => IdleAt(d, m, y) = IdleAt(cluster, m, y)
      /\ IdleAt(d, n, p) = IdleAt(cluster, n, p) + 1
  BY <1>1, <1>2, WarmAdded
<1>6. /\ Drift(cluster, d, N, n, p, 1)
      /\ \A m \in Node, y \in Pool : m # n \/ y # p => Drift(cluster, d, N, m, y, 0)
  BY <1>1, <1>4, <1>5, OneDrift
<1> QED BY <1>1, <1>3, <1>4, <1>6, SweptDrift

\* DELETE .../idle counts one less.
LEMMA RemoveIdleDrift ==
  ASSUME IInv, NEW n \in Node, NEW p \in Pool, RemoveIdleInstance(n, p), NEW N
  PROVE  /\ Drift(cluster, cluster', N, n, p, -1)
         /\ \A m \in Node, y \in Pool : m # n \/ y # p => Drift(cluster, cluster', N, m, y, 0)
<1>1. /\ cluster \in Cluster /\ cluster.nodes[n] # None /\ cluster.pools[p] # None
      /\ IdleAt(cluster, n, p) > 0
  BY DEF IInv, Sound, Typed, RemoveIdleInstance, IdleSurplus, IdleAt
<1> DEFINE size == cluster.pools[p].cfg.size
           d == RemoveIdle(cluster, n, p)
<1>2. size = cluster.pools[p].cfg.size /\ d = RemoveIdle(cluster, n, p)
  OBVIOUS
<1>3. cluster' = ScheduleQueued(d) /\ IdleSurplus(cluster, n, p)
  BY DEF RemoveIdleInstance
<1> HIDE DEF size, d
<1>4. d \in Cluster
  BY <1>1, <1>2, <1>3, RemoveIdleLemma
<1>5. /\ d.pools = cluster.pools /\ d.execs = cluster.execs
      /\ \A m \in Node, y \in Pool :
           m # n \/ y # p => IdleAt(d, m, y) = IdleAt(cluster, m, y)
      /\ IdleAt(cluster, n, p) = IdleAt(d, n, p) + 1
  BY <1>1, <1>2, WarmRemoved
<1>6. -1 \in Int /\ IdleAt(d, n, p) = IdleAt(cluster, n, p) + (-1)
  BY <1>4, <1>5, RoomType
<1>7. /\ Drift(cluster, d, N, n, p, -1)
      /\ \A m \in Node, y \in Pool : m # n \/ y # p => Drift(cluster, d, N, m, y, 0)
  BY <1>1, <1>4, <1>5, <1>6, OneDrift
<1> QED BY <1>1, <1>3, <1>4, <1>6, <1>7, SweptDrift

\* An execution that had its MicroVM ends.
LEMMA FreedDrift ==
  ASSUME NEW c \in Cluster, NEW d \in Cluster, NEW e \in Exec,
         c.execs[e].status = "running", NEW N, e \notin N,
         \A f \in Exec : d.execs[f] = IF f = e THEN None ELSE c.execs[f],
         NEW n \in Node, NEW p \in Pool, NEW k \in Int, IdleAt(d, n, p) = IdleAt(c, n, p) + k,
         \A m \in Node, y \in Pool : m # n \/ y # p => IdleAt(d, m, y) = IdleAt(c, m, y)
  PROVE  /\ Drift(c, d, N, n, p, k)
         /\ \A m \in Node, y \in Pool : m # n \/ y # p => Drift(c, d, N, m, y, 0)
<1>2. ASSUME NEW m \in Node, NEW y \in Pool PROVE Meant(d, N, m, y) = Meant(c, N, m, y)
  <2>1. e \notin Meant(c, N, m, y) /\ e \notin Meant(d, N, m, y)
    BY DEF Meant, InUse, ActiveOn, Holds
  <2>2. ASSUME NEW f \in Exec, f # e PROVE f \in Meant(d, N, m, y) <=> f \in Meant(c, N, m, y)
    BY <2>2 DEF Meant, InUse, ActiveOn, Holds
  <2>3. Meant(d, N, m, y) \subseteq Exec /\ Meant(c, N, m, y) \subseteq Exec
    BY DEF Meant, InUse, ActiveOn
  <2> QED BY <2>1, <2>2, <2>3
<1>3. Drift(c, d, N, n, p, k)
  BY <1>2, MeantDrift
<1>4. ASSUME NEW m \in Node, NEW y \in Pool, m # n \/ y # p PROVE Drift(c, d, N, m, y, 0)
  <2>1. IdleAt(c, m, y) \in Nat
    BY RoomType
  <2>2. IdleAt(d, m, y) = IdleAt(c, m, y) + 0
    BY <1>4, <2>1
  <2> QED BY <1>2, <2>2, MeantDrift
<1> QED BY <1>3, <1>4

\* complete_execution counts one more if its MicroVM was kept, and none otherwise.
LEMMA CompleteDrift ==
  ASSUME IInv, NEW n \in Node, NEW e \in Exec, NEW keepIdle \in BOOLEAN,
         CompleteExecution(n, e, keepIdle), NEW N, e \notin N,
         NEW p, p = cluster.execs[e].pool, NEW k, k = IF keepIdle THEN 1 ELSE 0
  PROVE  /\ p \in Pool
         /\ Drift(cluster, cluster', N, n, p, k)
         /\ \A m \in Node, y \in Pool : m # n \/ y # p => Drift(cluster, cluster', N, m, y, 0)
<1> DEFINE size == cluster.pools[p].cfg.size
           b == Release(cluster, e, keepIdle)
           freed == [b EXCEPT !.execs[e] = None]
           d == IF Stale(freed, p) THEN DropPool(freed, p) ELSE freed
<1>1. /\ cluster \in Cluster /\ PoolsExist(cluster) /\ NodesKnown(cluster)
      /\ <<n, e>> \in runs
  BY DEF IInv, Sound, Typed, CompleteExecution
<1>2. /\ cluster.execs[e] # None /\ cluster.execs[e].node = n
      /\ cluster.execs[e].status = "running"
  BY <1>1 DEF IInv, Sound, Expected
<1>3. cluster' = ScheduleQueued(d)
  BY <1>2 DEF CompleteExecution, Finish
<1>4. /\ p \in Pool /\ cluster.pools[p] # None
      /\ cluster.nodes[n] # None /\ Works(cluster, e)
  <2>1. p \in Pool
    BY <1>1, <1>2, ClusterParts DEF ExecRec
  <2> QED BY <1>1, <1>2, <2>1 DEF PoolsExist, NodesKnown, Works, IsQueued
<1>5. b \in Cluster
  BY <1>1, <1>2, ReleaseLemma
<1>6. freed \in Cluster
  <2> HIDE DEF b
  <2> DEFINE g == [b EXCEPT !.execs = [b.execs EXCEPT ![e] = None]]
  <2>1. g \in Cluster
    BY <1>5, ExecChanged
  <2>2. freed = g
    BY <1>5 DEF Cluster
  <2> QED BY <2>1, <2>2
<1>7. /\ freed = [Release(cluster, e, keepIdle) EXCEPT !.execs[e] = None]
      /\ size = cluster.pools[p].cfg.size
  OBVIOUS
<1>8. d = IF Stale(freed, p) THEN DropPool(freed, p) ELSE freed
  OBVIOUS
<1> HIDE DEF b, freed, d, size
<1>9. Freed(cluster, freed, e, n, p, keepIdle, size)
  BY <1>1, <1>2, <1>4, <1>7, ReleaseCounts
<1>10. /\ Drift(cluster, freed, N, n, p, k)
       /\ \A m \in Node, y \in Pool : m # n \/ y # p => Drift(cluster, freed, N, m, y, 0)
  <2>1. /\ \A f \in Exec : freed.execs[f] = IF f = e THEN None ELSE cluster.execs[f]
        /\ \A m \in Node, y \in Pool : m # n \/ y # p => IdleAt(freed, m, y) = IdleAt(cluster, m, y)
        /\ IdleAt(cluster, n, p) \in Nat
        /\ k \in Int /\ IdleAt(freed, n, p) = IdleAt(cluster, n, p) + k
    BY <1>9 DEF Freed
  <2> QED BY <1>1, <1>2, <1>4, <1>6, <2>1, FreedDrift
\* The pool may go with its last execution.
<1>11. ASSUME NEW m \in Node, NEW y \in Pool, NEW j \in Int, Drift(cluster, freed, N, m, y, j)
       PROVE  Drift(cluster, cluster', N, m, y, j)
  <2>1. CASE d = DropPool(freed, p)
    <3>1. d \in Cluster /\ Steady(freed, d, N)
      BY <1>4, <1>6, <2>1, DropPoolSteady
    <3>2. /\ freed.nodes[m] = None <=> d.nodes[m] = None
          /\ d.pools[y] = freed.pools[y] \/ d.pools[y] = None
      <4>1. /\ d.pools = [freed.pools EXCEPT ![p] = None]
            /\ \A x \in Node : d.nodes[x] = None <=> freed.nodes[x] = None
        BY ONLY <1>4, <1>6, <2>1, DropPoolLemma
      <4>2. DOMAIN freed.pools = Pool
        BY <1>6 DEF Cluster
      <4> QED BY <4>1, <4>2
    <3>3. Drift(freed, d, N, m, y, 0)
      BY <3>1 DEF Steady
    <3>4. Drift(cluster, d, N, m, y, j)
      BY <1>1, <1>6, <1>11, <3>1, <3>2, <3>3, DriftOn
    <3> QED BY <1>1, <1>3, <3>1, <3>4, SweptDrift
  <2>2. CASE d = freed
    BY <1>1, <1>3, <1>6, <1>11, <2>2, SweptDrift
  <2> QED BY <1>8, <2>1, <2>2
<1>12. k \in Int
  OBVIOUS
<1> QED BY <1>4, <1>10, <1>11, <1>12

\* What users and operators do.
LEMMA AdministerSteady ==
  ASSUME IInv, Administer, NEW N
  PROVE  Steady(cluster, cluster', N)
<1>0. cluster \in Cluster
  BY DEF IInv, Sound, Typed
<1>1. ASSUME cluster' = cluster PROVE Steady(cluster, cluster', N)
  BY <1>0, <1>1, SteadySelf
<1>2. ASSUME NEW i \in Image, NEW kind \in {"vm", "runtime"},
             ImportImage(i, kind) \/ UpdateImage(i, kind)
      PROVE  Steady(cluster, cluster', N)
  BY <1>2, ImagesQuiet, QuietSteady
<1>3. ASSUME NEW i \in Image, DeleteImage(i) PROVE Steady(cluster, cluster', N)
  BY <1>3, ImagesQuiet, QuietSteady
<1>4. ASSUME NEW p \in UserPool, NEW cfg \in PoolConfig, CreatePool(p, cfg)
      PROVE  Steady(cluster, cluster', N)
  BY <1>4, CreatePoolSteady
<1>5. ASSUME NEW p \in Pool, DeletePool(p) PROVE Steady(cluster, cluster', N)
  BY <1>5, DeletePoolSteady
<1>6. ASSUME NEW r \in Req, NEW cfg \in EnvConfig, BeginCreate(r, cfg)
      PROVE  Steady(cluster, cluster', N)
  BY <1>1, <1>6 DEF BeginCreate
<1>7. ASSUME NEW r \in Req, NEW i \in Env, NEW cfg \in EnvConfig, BeginUpdate(r, i, cfg)
      PROVE  Steady(cluster, cluster', N)
  BY <1>1, <1>7 DEF BeginUpdate
<1>8. ASSUME NEW r \in Req, PrepareArtifact(r) \/ AbandonRequest(r)
      PROVE  Steady(cluster, cluster', N)
  BY <1>1, <1>8 DEF PrepareArtifact, AbandonRequest
<1>9. ASSUME NEW r \in Req, CommitCreate(r) \/ CommitUpdate(r)
      PROVE  Steady(cluster, cluster', N)
  BY <1>9, CommitCreateSteady, CommitUpdateSteady
<1>10. ASSUME NEW i \in Env, RestartEnvironment(i) \/ DeleteEnvironment(i)
       PROVE  Steady(cluster, cluster', N)
  BY <1>10, RestartEnvironmentSteady, DeleteEnvironmentSteady
<1>11. ASSUME NEW n \in Node, DeleteNode(n) PROVE Steady(cluster, cluster', N)
  BY <1>11, DeleteNodeQuiet, QuietSteady
<1> QED BY <1>2, <1>3, <1>4, <1>5, <1>6, <1>7, <1>8, <1>9, <1>10, <1>11 DEF Administer

-----------------------------------------------------------------------------
(* What a node was handed. *)

\* An execution that runs keeps its pool.
Stays ==
  \A e \in Exec : cluster'.execs[e] # None /\ cluster'.execs[e].status = "running"
    => cluster.execs[e] # None /\ cluster'.execs[e].pool = cluster.execs[e].pool

\* schedule_queued starts nothing, it only assigns.
LEMMA SweptStays ==
  ASSUME Swept
  PROVE  Stays
<1>1. PICK d \in Cluster : cluster' = ScheduleQueued(d) /\ Requeues(cluster, d)
  BY DEF Swept
<1>2. Placed(d, cluster')
  BY <1>1, SweepLemma
<1> QED BY <1>1, <1>2 DEF Stays, Placed, Requeues, IsQueued

LEMMA CreateExecutionStays ==
  ASSUME IInv, NEW e \in Exec, NEW i \in Env, NEW p \in Pool, NEW queue \in BOOLEAN,
         CreateExecution(e, i, p, queue)
  PROVE  Stays
<1> DEFINE x == [status |-> "queued", pool |-> p, node |-> None, env |-> i]
           d == [cluster EXCEPT !.execs[e] = x]
<1>1. cluster \in Cluster /\ cluster' = Schedule(d, e)
  BY DEF IInv, Sound, Typed, CreateExecution
<1>2. x \in ExecRec /\ x # None /\ x.status = "queued"
  <2>1. x \in ExecRec
    BY DEF ExecRec
  <2> QED BY <2>1, Apart
<1>3. d = [cluster EXCEPT !.execs = [cluster.execs EXCEPT ![e] = x]]
  BY <1>1 DEF Cluster
<1> HIDE DEF x
<1>4. d \in Cluster /\ \A f \in Exec : d.execs[f] = IF f = e THEN x ELSE cluster.execs[f]
  <2> DEFINE g == [cluster EXCEPT !.execs = [cluster.execs EXCEPT ![e] = x]]
  <2>1. g \in Cluster /\ \A f \in Exec : g.execs[f] = IF f = e THEN x ELSE cluster.execs[f]
    BY <1>1, <1>2, ExecChanged
  <2> QED BY <1>3, <2>1
<1> HIDE DEF d
<1>5. IsQueued(d, e)
  BY <1>2, <1>4 DEF IsQueued
<1>6. cluster' = d \/ Placed(d, cluster')
  <2>1. CASE Schedule(d, e) = d
    BY <1>1, <2>1
  <2>2. CASE Schedule(d, e) # d
    <3>1. PICK n \in Node : /\ d.nodes[n] # None /\ Schedule(d, e) = Place(d, e, n)
                            /\ d.pools[d.execs[e].pool] # None
      BY <1>4, <1>5, <2>2, ScheduleCases DEF Schedulable
    <3> QED BY <1>1, <1>4, <1>5, <3>1, PlaceLemma
  <2> QED BY <2>1, <2>2
<1>7. \A f \in Exec : cluster'.execs[f] = d.execs[f] \/ cluster'.execs[f].status = "assigned"
  BY <1>6 DEF Placed
<1> QED BY <1>2, <1>4, <1>7 DEF Stays

\* next_work makes one execution of the node run, and moves no other.
LEMMA NextWorkStays ==
  ASSUME IInv, NEW n \in Node, NEW e \in Exec, NextWork(n, e)
  PROVE  /\ Stays
         /\ cluster'.nodes = cluster.nodes
         /\ cluster'.execs[e] # None /\ cluster'.execs[e].status = "running"
         /\ cluster'.execs[e].pool = cluster.execs[e].pool /\ cluster'.execs[e].node = n
         /\ \A f \in Exec : f # e => cluster'.execs[f] = cluster.execs[f]
<1> DEFINE x == [cluster.execs[e] EXCEPT !.status = "running"]
<1>1. cluster \in Cluster /\ cluster.execs[e] \in ExecRec /\ cluster.execs[e].node = n
  BY ClusterParts DEF IInv, Sound, Typed, NextWork
<1>2. x # None /\ x.status = "running" /\ x.pool = cluster.execs[e].pool /\ x.node = n
  <2>1. /\ x \in ExecRec /\ x.status = "running" /\ x.pool = cluster.execs[e].pool
        /\ x.node = n
    BY <1>1 DEF ExecRec
  <2> QED BY <2>1, Apart
<1>3. cluster' = [cluster EXCEPT !.execs = [cluster.execs EXCEPT ![e] = x]]
  BY <1>1 DEF NextWork, Cluster
<1> HIDE DEF x
<1>4. /\ cluster'.nodes = cluster.nodes
      /\ \A f \in Exec : cluster'.execs[f] = IF f = e THEN x ELSE cluster.execs[f]
  BY <1>1, <1>3 DEF Cluster
<1>5. cluster.execs[e] # None
  BY DEF NextWork
<1> QED BY <1>2, <1>4, <1>5 DEF Stays

\* Whatever the controller does, an execution that runs stays on its pool: only those not
\* yet at a node are moved to another.
LEMMA NextStays ==
  ASSUME IInv, [Next]_vars
  PROVE  Stays
<1>0. cluster \in Cluster
  BY DEF IInv, Sound, Typed
<1>1. ASSUME cluster'.execs = cluster.execs PROVE Stays
  BY <1>1 DEF Stays
<1>2. CASE Administer
  <2>1. ASSUME NEW i \in Image, NEW kind \in {"vm", "runtime"},
               ImportImage(i, kind) \/ UpdateImage(i, kind) \/ DeleteImage(i)
        PROVE  Stays
    BY <1>0, <1>1, <2>1 DEF ImportImage, UpdateImage, DeleteImage, Cluster
  <2>2. ASSUME NEW p \in UserPool, NEW cfg \in PoolConfig, CreatePool(p, cfg) PROVE Stays
    BY <1>0, <1>1, <2>2 DEF CreatePool, Cluster
  <2>3. ASSUME NEW p \in Pool, DeletePool(p) PROVE Stays
    <3>1. cluster' = DropPool(cluster, p)
      BY <2>3 DEF DeletePool
    <3> QED BY <1>0, <1>1, <3>1, DropPoolIdle
  <2>4. ASSUME NEW r \in Req, NEW cfg \in EnvConfig, BeginCreate(r, cfg) PROVE Stays
    BY <1>1, <2>4 DEF BeginCreate
  <2>5. ASSUME NEW r \in Req, NEW i \in Env, NEW cfg \in EnvConfig, BeginUpdate(r, i, cfg)
        PROVE  Stays
    BY <1>1, <2>5 DEF BeginUpdate
  <2>6. ASSUME NEW r \in Req, PrepareArtifact(r) \/ AbandonRequest(r) PROVE Stays
    BY <1>1, <2>6 DEF PrepareArtifact, AbandonRequest
  <2>7. ASSUME NEW r \in Req, CommitCreate(r) PROVE Stays
    BY <1>0, <1>1, <2>7 DEF CommitCreate, Cluster
  <2>8. ASSUME NEW r \in Req, CommitUpdate(r) PROVE Stays
    BY <2>8, CommitUpdateKept, SweptStays
  <2>9. ASSUME NEW i \in Env, RestartEnvironment(i) PROVE Stays
    BY <2>9, RestartEnvironmentKept, SweptStays
  <2>10. ASSUME NEW i \in Env, DeleteEnvironment(i) PROVE Stays
    <3> DEFINE p == cluster.envs[i].pool
               b == DropPool(cluster, p)
    <3>1. p \in Pool /\ b = DropPool(cluster, p)
      BY <2>10, EmptiedPool
    <3>2. cluster'.execs = b.execs
      BY <2>10, <3>1, <1>0, DropPoolIdle DEF DeleteEnvironment, Cluster
    <3> HIDE DEF p, b
    <3>3. b.execs = cluster.execs
      BY <1>0, <3>1, DropPoolIdle
    <3> QED BY <1>1, <3>2, <3>3
  <2>11. ASSUME NEW n \in Node, DeleteNode(n) PROVE Stays
    BY <2>11, DeleteNodeKept, SweptStays
  <2> QED BY <1>2, <2>1, <2>2, <2>3, <2>4, <2>5, <2>6, <2>7, <2>8, <2>9, <2>10, <2>11
       DEF Administer
<1>3. CASE Submit
  BY <1>3, CreateExecutionStays DEF Submit
<1>4. CASE Serve
  <2>1. ASSUME NEW n \in Node, Heartbeat(n) \/ StartAgent(n) PROVE Stays
    BY <2>1, HeartbeatKept, StartAgentKept, SweptStays
  <2>2. ASSUME NEW n \in Node, NEW i \in Image, ImageArrived(n, i) PROVE Stays
    BY <2>2, ImageArrivedKept, SweptStays
  <2>3. ASSUME NEW n \in Node, NEW a \in Artifact, ArtifactArrived(n, a) PROVE Stays
    BY <2>3, ArtifactArrivedKept, SweptStays
  <2>4. ASSUME NEW n \in Node, NEW p \in Pool,
               AddWarmInstance(n, p) \/ RemoveIdleInstance(n, p)
        PROVE  Stays
    BY <2>4, WarmKept, SweptStays
  <2>5. ASSUME NEW n \in Node, NEW e \in Exec, NextWork(n, e) PROVE Stays
    BY <2>5, NextWorkStays
  <2>6. ASSUME NEW n \in Node, NEW e \in Exec, NEW keepIdle \in BOOLEAN,
               CompleteExecution(n, e, keepIdle)
        PROVE  Stays
    BY <2>6, CompleteExecutionKept, SweptStays
  <2> QED BY <1>4, <2>1, <2>2, <2>3, <2>4, <2>5, <2>6 DEF Serve
<1>5. CASE UNCHANGED vars
  BY <1>1, <1>5 DEF vars
<1> QED BY <1>2, <1>3, <1>4, <1>5 DEF Next

-----------------------------------------------------------------------------
(* The invariant of the agents. *)

AgentTyped ==
  /\ loop \in [Node -> Loop]
  /\ table \in Counts /\ out \in Counts /\ kept \in Counts
  /\ tasks \in [Exec -> Task \cup {None}]

\* The pool a MicroVM is started for is known; MicroVMs are out of the table only while
\* maintain_vms asks about them; an agent that is down has nothing.
Rests ==
  \A n \in Node :
    /\ At(n, "start") => loop[n].pool \in Pool
    /\ ~ At(n, "ask") => out[n] = Nothing /\ kept[n] = Nothing
    /\ At(n, "down") => /\ table[n] = Nothing
                        /\ \A e \in Exec : tasks[e] # None => tasks[e].node # n

\* A task is for an execution the node was handed, of the pool it is on still.
Handed ==
  \A e \in Exec : tasks[e] # None =>
    /\ <<tasks[e].node, e>> \in runs
    /\ cluster.execs[e].pool = tasks[e].pool

AInv == IInv /\ AgentTyped /\ Rests /\ Handed

\* A task is at the node and of the pool its execution is at and of, and runs.
LEMMA TaskOf ==
  ASSUME AInv, NEW e \in Exec, tasks[e] # None
  PROVE  /\ tasks[e] \in Task /\ tasks[e].node \in Node /\ tasks[e].pool \in Pool
         /\ cluster.execs[e] # None /\ cluster.execs[e].status = "running"
         /\ cluster.execs[e].node = tasks[e].node /\ cluster.execs[e].pool = tasks[e].pool
         /\ <<tasks[e].node, e>> \in runs
         /\ ~ At(tasks[e].node, "down")
<1>1. tasks[e] \in Task /\ tasks[e].node \in Node /\ tasks[e].pool \in Pool
  BY DEF AInv, AgentTyped, Task
<1>2. <<tasks[e].node, e>> \in runs /\ cluster.execs[e].pool = tasks[e].pool
  BY DEF AInv, Handed
<1>3. /\ cluster.execs[e] # None /\ cluster.execs[e].status = "running"
      /\ cluster.execs[e].node = tasks[e].node
  BY <1>2 DEF AInv, IInv, Sound, Expected
<1> QED BY <1>1, <1>2, <1>3 DEF AInv, Rests

\* The counts f but for those of node n, or that of pool p there.
AllBut(f, n, h) == [f EXCEPT ![n] = h]

OneBut(f, n, p, k) == [f EXCEPT ![n][p] = k]

LEMMA CountChanged ==
  ASSUME NEW f \in Counts, NEW n \in Node, NEW p \in Pool, NEW k \in Nat,
         NEW g, g = OneBut(f, n, p, k)
  PROVE  /\ g \in Counts
         /\ \A m \in Node, y \in Pool : g[m][y] = IF m = n /\ y = p THEN k ELSE f[m][y]
         /\ \A m \in Node : m # n => g[m] = f[m]
<1> DEFINE h == [f[n] EXCEPT ![p] = k]
<1>1. h \in [Pool -> Nat] /\ \A y \in Pool : h[y] = IF y = p THEN k ELSE f[n][y]
  BY DEF Counts
<1>2. g = [f EXCEPT ![n] = h]
  BY DEF OneBut
<1> HIDE DEF h
<1>3. g \in Counts /\ \A m \in Node : g[m] = IF m = n THEN h ELSE f[m]
  BY <1>1, <1>2 DEF Counts
<1> QED BY <1>1, <1>3

LEMMA CountsSet ==
  ASSUME NEW f \in Counts, NEW n \in Node, NEW h \in [Pool -> Nat], NEW g, g = AllBut(f, n, h)
  PROVE  g \in Counts /\ \A m \in Node : g[m] = IF m = n THEN h ELSE f[m]
BY DEF Counts, AllBut

LEMMA NothingType == Nothing \in [Pool -> Nat] /\ \A p \in Pool : Nothing[p] = 0
BY DEF Nothing

LEMMA LoopSet ==
  ASSUME AgentTyped, NEW n \in Node, NEW l \in Loop, loop' = [loop EXCEPT ![n] = l]
  PROVE  loop' \in [Node -> Loop] /\ \A m \in Node : loop'[m] = IF m = n THEN l ELSE loop[m]
BY DEF AgentTyped

LEMMA GoOnLoop ==
  ASSUME AgentTyped, NEW n \in Node, NEW phase \in Phase, GoOn(n, phase)
  PROVE  /\ loop' \in [Node -> Loop]
         /\ loop'[n].phase = phase /\ loop'[n].pool = loop[n].pool
         /\ \A m \in Node : m # n => loop'[m] = loop[m]
<1> DEFINE l == [loop[n] EXCEPT !.phase = phase]
<1>1. loop[n] \in Loop
  BY DEF AgentTyped
<1>2. l \in Loop /\ l.phase = phase /\ l.pool = loop[n].pool
  BY <1>1 DEF Loop
<1>3. loop' = [loop EXCEPT ![n] = l]
  BY DEF GoOn
<1> HIDE DEF l
<1> QED BY <1>2, <1>3, LoopSet

LEMMA NextPoolLoop ==
  ASSUME AgentTyped, NEW n \in Node, NextPool(n)
  PROVE  /\ loop' \in [Node -> Loop] /\ loop'[n].phase = "warm"
         /\ \A m \in Node : m # n => loop'[m] = loop[m]
<1> DEFINE l == [loop[n] EXCEPT !.phase = "warm", !.todo = @ \ {loop[n].pool}, !.pool = None]
<1>1. loop[n] \in Loop
  BY DEF AgentTyped
<1>2. l \in Loop /\ l.phase = "warm"
  BY <1>1 DEF Loop, Phase
<1>3. loop' = [loop EXCEPT ![n] = l]
  BY DEF NextPool
<1> HIDE DEF l
<1> QED BY <1>2, <1>3, LoopSet

LEMMA TaskBecomes ==
  ASSUME AgentTyped, NEW e \in Exec, tasks[e] # None,
         NEW a \in {"start", "busy", "kept", "gone"}, Becomes(e, a)
  PROVE  /\ tasks' \in [Exec -> Task \cup {None}]
         /\ tasks'[e] # None /\ tasks'[e].at = a
         /\ tasks'[e].node = tasks[e].node /\ tasks'[e].pool = tasks[e].pool
         /\ \A f \in Exec : f # e => tasks'[f] = tasks[f]
<1> DEFINE x == [tasks[e] EXCEPT !.at = a]
<1>1. tasks[e] \in Task
  BY DEF AgentTyped
<1>2. x \in Task /\ x.at = a /\ x.node = tasks[e].node /\ x.pool = tasks[e].pool
  BY <1>1 DEF Task
<1>3. x # None
  BY <1>2, AgentAssumption
<1>4. tasks' = [tasks EXCEPT ![e] = x]
  BY DEF Becomes
<1> HIDE DEF x
<1> QED BY <1>2, <1>3, <1>4 DEF AgentTyped

LEMMA TaskEnds ==
  ASSUME AgentTyped, NEW e \in Exec, tasks' = [tasks EXCEPT ![e] = None]
  PROVE  /\ tasks' \in [Exec -> Task \cup {None}] /\ tasks'[e] = None
         /\ \A f \in Exec : f # e => tasks'[f] = tasks[f]
BY DEF AgentTyped

\* A turn of one agent, or the step of a task there, leaves the others alone.
LEMMA RestsKept ==
  ASSUME AInv, NEW n \in Node,
         \A m \in Node : m # n => /\ loop'[m] = loop[m] /\ table'[m] = table[m]
                                  /\ out'[m] = out[m] /\ kept'[m] = kept[m],
         \A e \in Exec : tasks'[e] # None => tasks[e] # None /\ tasks'[e].node = tasks[e].node,
         loop'[n].phase # "down",
         loop'[n].phase = "start" => loop'[n].pool \in Pool,
         loop'[n].phase # "ask" => out'[n] = Nothing /\ kept'[n] = Nothing
  PROVE  Rests'
BY DEF AInv, Rests, At

\* A task stays one of an execution that its node was handed, whatever the controller
\* does.
LEMMA HandedKept ==
  ASSUME AInv, IInv', Stays,
         \A e \in Exec : tasks'[e] # None =>
           /\ tasks[e] # None
           /\ tasks'[e].node = tasks[e].node /\ tasks'[e].pool = tasks[e].pool
           /\ <<tasks[e].node, e>> \in runs'
  PROVE  Handed'
<1> SUFFICES ASSUME NEW e \in Exec, tasks'[e] # None
             PROVE  /\ <<tasks'[e].node, e>> \in runs'
                    /\ cluster'.execs[e].pool = tasks'[e].pool
  BY DEF Handed
<1>1. <<tasks'[e].node, e>> \in runs'
  OBVIOUS
<1>2. cluster'.execs[e] # None /\ cluster'.execs[e].status = "running"
  BY <1>1 DEF IInv, Sound, Expected
<1>3. cluster'.execs[e].pool = cluster.execs[e].pool
  BY <1>2 DEF Stays
<1> QED BY <1>1, <1>3 DEF AInv, Handed

\* Every step of the agents is one of the controller, or none, or a report that is lost.
LEMMA ControllerStep ==
  ASSUME AInv, [AgentNext]_allVars
  PROVE  IInv' /\ Stays
<1>1. CASE [Next]_vars
  BY <1>1, NextIInv, NextStays DEF AInv
<1>2. ASSUME NEW e \in Exec, ReportFails(e) PROVE IInv' /\ Stays
  <2>1. UNCHANGED <<cluster, requests, files>> /\ runs' \subseteq runs
    BY <1>2 DEF ReportFails
  <2>2. cluster' \in Cluster /\ KeepsWork(cluster, cluster') /\ IInv
    BY <2>1 DEF KeepsWork, AInv, IInv, Sound, Typed
  <2>3. Kept
    BY <2>1, <2>2, KeptWork
  <2>4. Stays
    BY <2>1 DEF Stays
  <2> QED BY <2>3, <2>4 DEF Kept, IInv
<1>3. ASSUME NEW n \in Node, Start(n) \/ Stop(n) PROVE [Next]_vars
  BY <1>3 DEF Start, Stop, Next, Serve
<1>4. ASSUME NEW n \in Node, Turn(n) PROVE [Next]_vars
  <2>1. CASE Beat(n) \/ Announce(n) \/ Fetch(n)
    BY <2>1 DEF Beat, Announce, Fetch, Next, Serve
  <2>2. CASE Prune(n) \/ TakeOut(n) \/ PutBack(n) \/ WarmFailed(n) \/ Maintained(n)
    BY <2>2 DEF Prune, TakeOut, PutBack, WarmFailed, Maintained
  <2>3. CASE WarmStarted(n)
    <3>1. loop[n].pool \in Pool
      BY <2>3 DEF WarmStarted, AInv, Rests
    <3> QED BY <2>3, <3>1 DEF WarmStarted, Next, Serve, vars
  <2>4. ASSUME NEW p \in Pool, Ask(n, p) \/ NeedsWarm(n, p) PROVE [Next]_vars
    BY <2>4 DEF Ask, NeedsWarm, Next, Serve, vars
  <2>5. ASSUME NEW e \in Exec, Work(n, e) PROVE [Next]_vars
    BY <2>5 DEF Work, Next, Serve
  <2> QED BY <1>4, <2>1, <2>2, <2>3, <2>4, <2>5 DEF Turn
<1>5. ASSUME NEW e \in Exec, TaskStep(e) PROVE [Next]_vars \/ ReportFails(e)
  <2>1. CASE DirFails(e) \/ Acquire(e) \/ Boot(e) \/ BootFails(e) \/ Keep(e) \/ Destroy(e)
    BY <2>1 DEF DirFails, Acquire, Boot, BootFails, Keep, Destroy
  <2>2. CASE Report(e)
    <3>1. tasks[e] # None
      BY <2>2 DEF Report, Is
    <3>2. tasks[e].node \in Node
      BY <3>1, TaskOf
    <3>3. Is(e, "kept") \in BOOLEAN
      BY DEF Is
    <3> QED BY <2>2, <3>2, <3>3 DEF Report, Next, Serve
  <2> QED BY <1>5, <2>1, <2>2 DEF TaskStep
<1>6. CASE (Administer \/ Submit) /\ UNCHANGED agentVars
  BY <1>6, <1>1 DEF Next
<1>7. CASE UNCHANGED allVars
  BY <1>7, <1>1 DEF allVars
<1> QED BY <1>1, <1>2, <1>3, <1>4, <1>5, <1>6, <1>7 DEF AgentNext

\* A turn of an agent that neither starts nor ends a task.
LEMMA TurnKept ==
  ASSUME AInv, IInv', Stays, runs' = runs, tasks' = tasks, NEW n \in Node,
         loop' \in [Node -> Loop], table' \in Counts, out' \in Counts, kept' \in Counts,
         \A m \in Node : m # n => /\ loop'[m] = loop[m] /\ table'[m] = table[m]
                                  /\ out'[m] = out[m] /\ kept'[m] = kept[m],
         loop'[n].phase # "down",
         loop'[n].phase = "start" => loop'[n].pool \in Pool,
         loop'[n].phase # "ask" => out'[n] = Nothing /\ kept'[n] = Nothing
  PROVE  AInv'
<1>1. AgentTyped'
  BY DEF AInv, AgentTyped
<1>2. Rests'
  BY RestsKept
<1>3. \A e \in Exec : tasks'[e] # None => <<tasks[e].node, e>> \in runs'
  BY TaskOf
<1>4. Handed'
  BY <1>3, HandedKept
<1> QED BY <1>1, <1>2, <1>4 DEF AInv

\* What a turn leaves as it is has its type still.
LEMMA Parts ==
  ASSUME AInv
  PROVE  /\ AgentTyped /\ loop \in [Node -> Loop]
         /\ table \in Counts /\ out \in Counts /\ kept \in Counts
         /\ \A n \in Node : table[n] \in [Pool -> Nat] /\ out[n] \in [Pool -> Nat]
                            /\ kept[n] \in [Pool -> Nat]
         /\ \A n \in Node : ~ At(n, "ask") => out[n] = Nothing /\ kept[n] = Nothing
BY DEF AInv, AgentTyped, Counts, Rests

LEMMA MoveKept ==
  ASSUME AInv, IInv', Stays, NEW n \in Node,
         \/ Fetch(n) \/ Maintained(n) \/ WarmFailed(n) \/ Beat(n) \/ Announce(n)
         \/ \E p \in Pool : NeedsWarm(n, p)
  PROVE  AInv'
<1>1. CASE Fetch(n)
  <2>1. PICK failed \in SUBSET Pool :
          loop' = [loop EXCEPT ![n].phase = "prune",
                     ![n].known = {p \in Pool : cluster.pools[p] # None} \ failed]
    BY <1>1 DEF Fetch
  <2> DEFINE l == [loop[n] EXCEPT !.phase = "prune",
                     !.known = {p \in Pool : cluster.pools[p] # None} \ failed]
  <2>2. loop[n] \in Loop
    BY Parts
  <2>3. l \in Loop /\ l.phase = "prune"
    BY <2>2 DEF Loop, Phase
  <2>4. loop' = [loop EXCEPT ![n] = l]
    BY <2>1
  <2> HIDE DEF l
  <2>5. loop' \in [Node -> Loop] /\ \A m \in Node : loop'[m] = IF m = n THEN l ELSE loop[m]
    BY <2>3, <2>4, LoopSet, Parts
  <2>6. At(n, "sync") /\ UNCHANGED <<vars, table, out, kept, tasks>>
    BY <1>1 DEF Fetch
  <2>7. runs' = runs
    BY <2>6 DEF vars
  <2> QED BY <2>3, <2>5, <2>6, <2>7, Parts, TurnKept DEF At
<1>2. CASE Maintained(n)
  <2>1. At(n, "warm") /\ GoOn(n, "poll") /\ UNCHANGED <<vars, table, out, kept, tasks>>
    BY <1>2 DEF Maintained
  <2>2. /\ loop' \in [Node -> Loop] /\ loop'[n].phase = "poll"
        /\ \A m \in Node : m # n => loop'[m] = loop[m]
    BY <2>1, GoOnLoop, Parts DEF Phase
  <2>3. runs' = runs
    BY <2>1 DEF vars
  <2> QED BY <2>1, <2>2, <2>3, Parts, TurnKept DEF At
<1>3. CASE WarmFailed(n)
  <2>1. At(n, "start") /\ NextPool(n) /\ UNCHANGED <<vars, table, out, kept, tasks>>
    BY <1>3 DEF WarmFailed
  <2>2. /\ loop' \in [Node -> Loop] /\ loop'[n].phase = "warm"
        /\ \A m \in Node : m # n => loop'[m] = loop[m]
    BY <2>1, NextPoolLoop, Parts
  <2>3. runs' = runs
    BY <2>1 DEF vars
  <2> QED BY <2>1, <2>2, <2>3, Parts, TurnKept DEF At
<1>4. CASE Beat(n)
  <2>1. At(n, "poll") /\ GoOn(n, "sync") /\ UNCHANGED <<table, out, kept, tasks>> /\ runs' = runs
    BY <1>4 DEF Beat, Heartbeat
  <2>2. /\ loop' \in [Node -> Loop] /\ loop'[n].phase = "sync"
        /\ \A m \in Node : m # n => loop'[m] = loop[m]
    BY <2>1, GoOnLoop, Parts DEF Phase
  <2> QED BY <2>1, <2>2, Parts, TurnKept DEF At
<1>5. CASE Announce(n)
  <2>1. At(n, "sync") /\ UNCHANGED <<loop, table, out, kept, tasks>> /\ runs' = runs
    BY <1>5 DEF Announce, ImageArrived, ArtifactArrived, agentVars
  <2> QED BY <2>1, Parts, TurnKept DEF At
<1>6. ASSUME NEW p \in Pool, NeedsWarm(n, p) PROVE AInv'
  <2>1. At(n, "warm") /\ UNCHANGED <<vars, table, out, kept, tasks>>
    BY <1>6 DEF NeedsWarm
  <2>2. runs' = runs
    BY <2>1 DEF vars
  <2>3. loop[n] \in Loop /\ loop[n].phase = "warm"
    BY <2>1, Parts DEF At
  <2>4. PICK l \in Loop : /\ loop' = [loop EXCEPT ![n] = l]
                          /\ l.phase = "warm" \/ (l.phase = "start" /\ l.pool \in Pool)
    <3> DEFINE a == [loop[n] EXCEPT !.phase = "start", !.pool = p]
               b == [loop[n] EXCEPT !.todo = @ \ {p}]
    <3>1. a \in Loop /\ a.phase = "start" /\ a.pool \in Pool /\ b \in Loop /\ b.phase = "warm"
      BY <2>3 DEF Loop, Phase
    <3>2. loop' = [loop EXCEPT ![n] = a] \/ loop' = [loop EXCEPT ![n] = b]
      BY <1>6 DEF NeedsWarm
    <3> HIDE DEF a, b
    <3> QED BY <3>1, <3>2
  <2>5. loop' \in [Node -> Loop] /\ \A m \in Node : loop'[m] = IF m = n THEN l ELSE loop[m]
    BY <2>4, LoopSet, Parts
  <2> QED BY <2>1, <2>2, <2>4, <2>5, Parts, TurnKept DEF At
<1> QED BY <1>1, <1>2, <1>3, <1>4, <1>5, <1>6

\* What maintain_vms does to the numbers of its agent.
LEMMA PruneCounts ==
  ASSUME AInv, NEW n \in Node, Prune(n)
  PROVE  /\ table' \in Counts /\ UNCHANGED <<vars, out, kept, tasks>>
         /\ \A m \in Node : m # n => table'[m] = table[m]
         /\ \A p \in Pool : table'[n][p] = IF p \in loop[n].known THEN table[n][p] ELSE 0
<1> DEFINE h == [p \in Pool |-> IF p \in loop[n].known THEN table[n][p] ELSE 0]
<1>1. h \in [Pool -> Nat] /\ \A p \in Pool : h[p] = IF p \in loop[n].known THEN table[n][p] ELSE 0
  BY Parts
<1>2. table' = AllBut(table, n, h) /\ UNCHANGED <<vars, out, kept, tasks>>
  BY DEF Prune, AllBut
<1> HIDE DEF h
<1>3. table' \in Counts /\ \A m \in Node : table'[m] = IF m = n THEN h ELSE table[m]
  BY <1>1, <1>2, Parts, CountsSet
<1> QED BY <1>1, <1>2, <1>3

LEMMA TakeOutCounts ==
  ASSUME AInv, NEW n \in Node, TakeOut(n)
  PROVE  /\ table' \in Counts /\ out' \in Counts /\ UNCHANGED <<vars, kept, tasks>>
         /\ \A m \in Node : m # n => table'[m] = table[m] /\ out'[m] = out[m]
         /\ table'[n] = Nothing /\ out'[n] = table[n]
         /\ out[n] = Nothing
<1>1. /\ table' = AllBut(table, n, Nothing) /\ out' = AllBut(out, n, table[n])
      /\ At(n, "take") /\ UNCHANGED <<vars, kept, tasks>>
  BY DEF TakeOut, AllBut
<1>2. out[n] = Nothing
  BY <1>1, Parts DEF At
<1>3. table' \in Counts /\ \A m \in Node : table'[m] = IF m = n THEN Nothing ELSE table[m]
  BY <1>1, Parts, NothingType, CountsSet
<1>4. out' \in Counts /\ \A m \in Node : out'[m] = IF m = n THEN table[n] ELSE out[m]
  BY <1>1, Parts, CountsSet
<1> QED BY <1>1, <1>2, <1>3, <1>4

LEMMA PutBackCounts ==
  ASSUME AInv, NEW n \in Node, PutBack(n)
  PROVE  /\ table' \in Counts /\ kept' \in Counts /\ UNCHANGED <<vars, out, tasks>>
         /\ \A m \in Node : m # n => table'[m] = table[m] /\ kept'[m] = kept[m]
         /\ \A p \in Pool : table'[n][p] = table[n][p] + kept[n][p]
         /\ kept'[n] = Nothing /\ out[n] = Nothing
<1> DEFINE h == [p \in Pool |-> table[n][p] + kept[n][p]]
<1>1. h \in [Pool -> Nat] /\ \A p \in Pool : h[p] = table[n][p] + kept[n][p]
  BY Parts
<1>2. /\ table' = AllBut(table, n, h) /\ kept' = AllBut(kept, n, Nothing)
      /\ out[n] = Nothing /\ UNCHANGED <<vars, out, tasks>>
  BY DEF PutBack, AllBut
<1> HIDE DEF h
<1>3. table' \in Counts /\ \A m \in Node : table'[m] = IF m = n THEN h ELSE table[m]
  BY <1>1, <1>2, Parts, CountsSet
<1>4. kept' \in Counts /\ \A m \in Node : kept'[m] = IF m = n THEN Nothing ELSE kept[m]
  BY <1>2, Parts, NothingType, CountsSet
<1> QED BY <1>1, <1>2, <1>3, <1>4

\* One MicroVM is gone from those taken out, and is retained unless the controller lets it
\* go.
LEMMA AskCounts ==
  ASSUME AInv, NEW n \in Node, NEW p \in Pool, Ask(n, p)
  PROVE  /\ out' \in Counts /\ kept' \in Counts /\ UNCHANGED <<loop, table, tasks>>
         /\ \A m \in Node : m # n => out'[m] = out[m] /\ kept'[m] = kept[m]
         /\ out[n][p] \in Nat /\ out[n][p] > 0
         /\ \A y \in Pool : out'[n][y] = IF y = p THEN out[n][p] - 1 ELSE out[n][y]
         /\ \/ RemoveIdleInstance(n, p) /\ kept' = kept
            \/ /\ UNCHANGED vars
               /\ \A y \in Pool : kept'[n][y] = IF y = p THEN kept[n][p] + 1 ELSE kept[n][y]
<1>1. /\ out' = OneBut(out, n, p, out[n][p] - 1) /\ out[n][p] > 0
      /\ UNCHANGED <<loop, table, tasks>>
      /\ \/ RemoveIdleInstance(n, p) /\ kept' = kept
         \/ UNCHANGED vars /\ kept' = OneBut(kept, n, p, kept[n][p] + 1)
  BY DEF Ask, OneBut
<1>2. out[n][p] \in Nat /\ kept[n][p] \in Nat
  BY Parts
<1>3. out[n][p] - 1 \in Nat /\ kept[n][p] + 1 \in Nat
  BY <1>1, <1>2
<1>4. /\ out' \in Counts /\ \A m \in Node : m # n => out'[m] = out[m]
      /\ \A y \in Pool : out'[n][y] = IF y = p THEN out[n][p] - 1 ELSE out[n][y]
  <2> DEFINE k == out[n][p] - 1
  <2>1. k \in Nat /\ out' = OneBut(out, n, p, k)
    BY <1>1, <1>3
  <2> HIDE DEF k
  <2>2. /\ out' \in Counts /\ \A m \in Node : m # n => out'[m] = out[m]
        /\ \A m \in Node, y \in Pool : out'[m][y] = IF m = n /\ y = p THEN k ELSE out[m][y]
    <3>1. out \in Counts
      BY Parts
    <3> QED BY ONLY n \in Node, p \in Pool, <2>1, <3>1, CountChanged
  <2> QED BY <2>2 DEF k
<1>5. CASE RemoveIdleInstance(n, p) /\ kept' = kept
  BY <1>1, <1>2, <1>4, <1>5, Parts
<1>6. CASE UNCHANGED vars /\ kept' = OneBut(kept, n, p, kept[n][p] + 1)
  <2>1. /\ kept' \in Counts /\ \A m \in Node : m # n => kept'[m] = kept[m]
        /\ \A y \in Pool : kept'[n][y] = IF y = p THEN kept[n][p] + 1 ELSE kept[n][y]
    <3> DEFINE k == kept[n][p] + 1
    <3>1. k \in Nat /\ kept' = OneBut(kept, n, p, k)
      BY <1>3, <1>6
    <3> HIDE DEF k
    <3>2. /\ kept' \in Counts /\ \A m \in Node : m # n => kept'[m] = kept[m]
          /\ \A m \in Node, y \in Pool :
               kept'[m][y] = IF m = n /\ y = p THEN k ELSE kept[m][y]
      <4>1. kept \in Counts
        BY Parts
      <4> QED BY ONLY n \in Node, p \in Pool, <3>1, <4>1, CountChanged
    <3> QED BY <3>2 DEF k
  <2> QED BY <1>1, <1>2, <1>4, <1>6, <2>1
<1> QED BY <1>1, <1>5, <1>6

LEMMA WarmStartedCounts ==
  ASSUME AInv, NEW n \in Node, WarmStarted(n), NEW p, p = loop[n].pool
  PROVE  /\ p \in Pool /\ table' \in Counts /\ UNCHANGED <<out, kept, tasks>>
         /\ \A m \in Node : m # n => table'[m] = table[m]
         /\ \/ /\ AddWarmInstance(n, p)
               /\ \A y \in Pool : table'[n][y] = IF y = p THEN table[n][p] + 1 ELSE table[n][y]
            \/ UNCHANGED vars /\ table' = table
<1>1. p \in Pool
  BY DEF WarmStarted, AInv, Rests
<1>2. table[n][p] \in Nat
  BY <1>1, Parts
<1>3. /\ UNCHANGED <<out, kept, tasks>>
      /\ \/ AddWarmInstance(n, p) /\ table' = OneBut(table, n, p, table[n][p] + 1)
         \/ UNCHANGED vars /\ table' = table
  BY DEF WarmStarted, OneBut
<1>4. CASE AddWarmInstance(n, p) /\ table' = OneBut(table, n, p, table[n][p] + 1)
  <2>1. /\ table' \in Counts /\ \A m \in Node : m # n => table'[m] = table[m]
        /\ \A y \in Pool : table'[n][y] = IF y = p THEN table[n][p] + 1 ELSE table[n][y]
    <3> DEFINE k == table[n][p] + 1
    <3>1. k \in Nat /\ table' = OneBut(table, n, p, k)
      BY <1>2, <1>4
    <3> HIDE DEF k
    <3>2. /\ table' \in Counts /\ \A m \in Node : m # n => table'[m] = table[m]
          /\ \A m \in Node, y \in Pool :
               table'[m][y] = IF m = n /\ y = p THEN k ELSE table[m][y]
      <4>1. table \in Counts
        BY Parts
      <4> QED BY ONLY n \in Node, <1>1, <3>1, <4>1, CountChanged
    <3> QED BY <3>2 DEF k
  <2> QED BY <1>1, <1>3, <1>4, <2>1
<1>5. CASE UNCHANGED vars /\ table' = table
  BY <1>1, <1>3, <1>5, Parts
<1> QED BY <1>3, <1>4, <1>5

LEMMA MaintainKept ==
  ASSUME AInv, IInv', Stays, NEW n \in Node,
         \/ Prune(n) \/ TakeOut(n) \/ PutBack(n) \/ WarmStarted(n)
         \/ \E p \in Pool : Ask(n, p)
  PROVE  AInv'
<1>1. CASE Prune(n)
  <2>1. At(n, "prune") /\ GoOn(n, "take")
    BY <1>1 DEF Prune
  <2>2. /\ loop' \in [Node -> Loop] /\ loop'[n].phase = "take"
        /\ \A m \in Node : m # n => loop'[m] = loop[m]
    BY <2>1, GoOnLoop, Parts DEF Phase
  <2>3. /\ table' \in Counts /\ runs' = runs /\ UNCHANGED <<out, kept, tasks>>
        /\ \A m \in Node : m # n => table'[m] = table[m]
    BY <1>1, PruneCounts DEF vars
  <2> QED BY <2>1, <2>2, <2>3, Parts, TurnKept DEF At
<1>2. CASE TakeOut(n)
  <2>1. At(n, "take") /\ GoOn(n, "ask")
    BY <1>2 DEF TakeOut
  <2>2. /\ loop' \in [Node -> Loop] /\ loop'[n].phase = "ask"
        /\ \A m \in Node : m # n => loop'[m] = loop[m]
    BY <2>1, GoOnLoop, Parts DEF Phase
  <2>3. /\ table' \in Counts /\ out' \in Counts /\ runs' = runs /\ UNCHANGED <<kept, tasks>>
        /\ \A m \in Node : m # n => table'[m] = table[m] /\ out'[m] = out[m]
    BY <1>2, TakeOutCounts DEF vars
  <2> QED BY <2>1, <2>2, <2>3, Parts, TurnKept DEF At
<1>3. CASE PutBack(n)
  <2> DEFINE l == [loop[n] EXCEPT !.phase = "warm", !.todo = loop[n].known]
  <2>1. loop[n] \in Loop
    BY Parts
  <2>2. l \in Loop /\ l.phase = "warm"
    BY <2>1 DEF Loop, Phase
  <2>3. loop' = [loop EXCEPT ![n] = l]
    BY <1>3 DEF PutBack
  <2> HIDE DEF l
  <2>4. loop' \in [Node -> Loop] /\ \A m \in Node : loop'[m] = IF m = n THEN l ELSE loop[m]
    BY <2>2, <2>3, LoopSet, Parts
  <2>5. /\ table' \in Counts /\ kept' \in Counts /\ runs' = runs /\ UNCHANGED <<out, tasks>>
        /\ \A m \in Node : m # n => table'[m] = table[m] /\ kept'[m] = kept[m]
        /\ kept'[n] = Nothing /\ out'[n] = Nothing
    BY <1>3, PutBackCounts DEF vars
  <2> QED BY <2>2, <2>4, <2>5, Parts, TurnKept
<1>4. CASE WarmStarted(n)
  <2>1. At(n, "start")
    BY <1>4 DEF WarmStarted
  <2>2. /\ loop' \in [Node -> Loop] /\ loop'[n].phase = "warm"
        /\ \A m \in Node : m # n => loop'[m] = loop[m]
    <3>1. CASE NextPool(n)
      BY <3>1, NextPoolLoop, Parts
    <3>2. CASE loop' = [loop EXCEPT ![n].phase = "warm", ![n].pool = None]
      <4> DEFINE l == [loop[n] EXCEPT !.phase = "warm", !.pool = None]
      <4>1. loop[n] \in Loop
        BY Parts
      <4>2. l \in Loop /\ l.phase = "warm"
        BY <4>1 DEF Loop, Phase
      <4>3. loop' = [loop EXCEPT ![n] = l]
        BY <3>2
      <4> HIDE DEF l
      <4> QED BY <4>2, <4>3, LoopSet, Parts
    <3> QED BY <1>4, <3>1, <3>2 DEF WarmStarted
  <2>3. /\ table' \in Counts /\ runs' = runs /\ UNCHANGED <<out, kept, tasks>>
        /\ \A m \in Node : m # n => table'[m] = table[m]
    BY <1>4, WarmStartedCounts DEF vars, AddWarmInstance
  <2> QED BY <2>1, <2>2, <2>3, Parts, TurnKept DEF At
<1>5. ASSUME NEW p \in Pool, Ask(n, p) PROVE AInv'
  <2>1. At(n, "ask")
    BY <1>5 DEF Ask
  <2>2. /\ out' \in Counts /\ kept' \in Counts /\ runs' = runs /\ UNCHANGED <<loop, table, tasks>>
        /\ \A m \in Node : m # n => out'[m] = out[m] /\ kept'[m] = kept[m]
    BY <1>5, AskCounts DEF vars, RemoveIdleInstance
  <2> QED BY <2>1, <2>2, Parts, TurnKept DEF At
<1> QED BY <1>1, <1>2, <1>3, <1>4, <1>5

LEMMA StartKept ==
  ASSUME AInv, IInv', Stays, NEW n \in Node, Start(n)
  PROVE  AInv'
<1>1. /\ At(n, "down") /\ GoOn(n, "sync") /\ UNCHANGED <<table, out, kept, tasks>>
      /\ runs' = {run \in runs : run[1] # n}
  BY DEF Start, StartAgent
<1>2. /\ loop' \in [Node -> Loop] /\ loop'[n].phase = "sync"
      /\ \A m \in Node : m # n => loop'[m] = loop[m]
  BY <1>1, GoOnLoop, Parts DEF Phase
<1>3. AgentTyped'
  BY <1>1, <1>2 DEF AInv, AgentTyped
<1>4. Rests'
  BY <1>1, <1>2, RestsKept, Parts DEF At
<1>5. ASSUME NEW e \in Exec, tasks'[e] # None PROVE <<tasks[e].node, e>> \in runs'
  <2>1. <<tasks[e].node, e>> \in runs /\ tasks[e].node # n
    BY <1>1, <1>5, TaskOf
  <2> QED BY <1>1, <2>1
<1>6. Handed'
  BY <1>1, <1>5, HandedKept
<1> QED BY <1>3, <1>4, <1>6 DEF AInv

\* What the end of an agent leaves.
LEMMA StopParts ==
  ASSUME AInv, NEW n \in Node, Stop(n)
  PROVE  /\ UNCHANGED vars
         /\ loop' \in [Node -> Loop] /\ table' \in Counts /\ out' \in Counts /\ kept' \in Counts
         /\ tasks' \in [Exec -> Task \cup {None}]
         /\ loop'[n].phase = "down"
         /\ table'[n] = Nothing /\ out'[n] = Nothing /\ kept'[n] = Nothing
         /\ \A m \in Node : m # n => /\ loop'[m] = loop[m] /\ table'[m] = table[m]
                                     /\ out'[m] = out[m] /\ kept'[m] = kept[m]
         /\ \A e \in Exec :
              tasks'[e] = IF tasks[e] # None /\ tasks[e].node = n THEN None ELSE tasks[e]
<1>1. /\ loop' = [loop EXCEPT ![n] = Idling]
      /\ table' = AllBut(table, n, Nothing) /\ out' = AllBut(out, n, Nothing)
      /\ kept' = AllBut(kept, n, Nothing)
      /\ tasks' = [e \in Exec |-> IF tasks[e] # None /\ tasks[e].node = n THEN None ELSE tasks[e]]
      /\ UNCHANGED vars
  BY DEF Stop, AllBut
<1>2. Idling \in Loop /\ Idling.phase = "down"
  BY DEF Idling, Loop, Phase
<1>3. loop' \in [Node -> Loop] /\ \A m \in Node : loop'[m] = IF m = n THEN Idling ELSE loop[m]
  BY <1>1, <1>2, LoopSet, Parts
<1>4. table' \in Counts /\ \A m \in Node : table'[m] = IF m = n THEN Nothing ELSE table[m]
  BY <1>1, Parts, NothingType, CountsSet
<1>5. out' \in Counts /\ \A m \in Node : out'[m] = IF m = n THEN Nothing ELSE out[m]
  BY <1>1, Parts, NothingType, CountsSet
<1>6. kept' \in Counts /\ \A m \in Node : kept'[m] = IF m = n THEN Nothing ELSE kept[m]
  BY <1>1, Parts, NothingType, CountsSet
<1>7. tasks' \in [Exec -> Task \cup {None}]
  BY <1>1 DEF AInv, AgentTyped
<1>8. \A e \in Exec : tasks'[e] = IF tasks[e] # None /\ tasks[e].node = n THEN None ELSE tasks[e]
  BY <1>1
<1> QED BY <1>1, <1>2, <1>3, <1>4, <1>5, <1>6, <1>7, <1>8

\* An agent that ends leaves nothing behind.
LEMMA StopKept ==
  ASSUME AInv, IInv', Stays, NEW n \in Node, Stop(n)
  PROVE  AInv'
<1>1. /\ runs' = runs
      /\ loop'[n].phase = "down"
      /\ table'[n] = Nothing /\ out'[n] = Nothing /\ kept'[n] = Nothing
      /\ \A m \in Node : m # n => /\ loop'[m] = loop[m] /\ table'[m] = table[m]
                                  /\ out'[m] = out[m] /\ kept'[m] = kept[m]
      /\ \A e \in Exec :
           tasks'[e] = IF tasks[e] # None /\ tasks[e].node = n THEN None ELSE tasks[e]
  BY StopParts DEF vars
<1>2. AgentTyped'
  BY StopParts DEF AgentTyped
<1>3. \A e \in Exec : tasks'[e] # None => tasks[e] # None /\ tasks'[e] = tasks[e] /\ tasks[e].node # n
  BY <1>1
<1>4. Rests'
  <2> SUFFICES ASSUME NEW m \in Node
               PROVE  /\ loop'[m].phase = "start" => loop'[m].pool \in Pool
                      /\ loop'[m].phase # "ask" => out'[m] = Nothing /\ kept'[m] = Nothing
                      /\ loop'[m].phase = "down" =>
                           /\ table'[m] = Nothing
                           /\ \A e \in Exec : tasks'[e] # None => tasks'[e].node # m
    BY DEF Rests, At
  <2>1. CASE m = n
    BY <1>1, <1>3, <2>1
  <2>2. CASE m # n
    BY <1>1, <1>3, <2>2 DEF AInv, Rests, At
  <2> QED BY <2>1, <2>2
<1>5. \A e \in Exec : tasks'[e] # None => <<tasks[e].node, e>> \in runs'
  BY <1>1, <1>3, TaskOf
<1>6. Handed'
  BY <1>3, <1>5, HandedKept
<1> QED BY <1>2, <1>4, <1>6 DEF AInv

\* An execution is handed out before its task starts.
LEMMA WorkParts ==
  ASSUME AInv, NEW n \in Node, NEW e \in Exec, Work(n, e), NEW p, p = cluster.execs[e].pool
  PROVE  /\ p \in Pool /\ tasks[e] = None /\ tasks' \in [Exec -> Task \cup {None}]
         /\ tasks'[e] # None /\ tasks'[e].node = n /\ tasks'[e].pool = p /\ tasks'[e].at = "new"
         /\ \A f \in Exec : f # e => tasks'[f] = tasks[f]
         /\ cluster.execs[e] # None /\ cluster.execs[e].status = "assigned"
         /\ cluster.execs[e].node = n
<1>1. /\ cluster \in Cluster /\ PoolsExist(cluster) /\ NextWork(n, e)
      /\ cluster.execs[e] # None /\ cluster.execs[e].status = "assigned"
      /\ cluster.execs[e].node = n
  BY DEF AInv, IInv, Sound, Typed, Work, NextWork
<1>2. cluster.pools[p] # None /\ p \in Pool
  BY <1>1, ClusterParts DEF PoolsExist, ExecRec
<1>3. cluster.pools[p].cfg.reuse \in BOOLEAN
  BY <1>1, <1>2, ClusterParts DEF PoolRec, Config
<1>4. tasks[e] = None
  BY <1>1, TaskOf
<1> DEFINE x == [node |-> n, pool |-> p, reuse |-> cluster.pools[p].cfg.reuse, at |-> "new"]
<1>5. x \in Task /\ x.node = n /\ x.pool = p /\ x.at = "new"
  BY <1>2, <1>3 DEF Task
<1>6. x # None
  BY <1>5, AgentAssumption
<1>7. tasks' = [tasks EXCEPT ![e] = x]
  BY DEF Work
<1> HIDE DEF x
<1>8. /\ tasks' \in [Exec -> Task \cup {None}]
      /\ \A f \in Exec : tasks'[f] = IF f = e THEN x ELSE tasks[f]
  BY <1>5, <1>7 DEF AInv, AgentTyped
<1> QED BY <1>1, <1>2, <1>4, <1>5, <1>6, <1>8

\* What next_work hands out gets a task.
LEMMA WorkKept ==
  ASSUME AInv, IInv', Stays, NEW n \in Node, NEW e \in Exec, Work(n, e)
  PROVE  AInv'
<1> DEFINE p == cluster.execs[e].pool
<1>0. p = cluster.execs[e].pool
  OBVIOUS
<1>1. /\ At(n, "poll") /\ UNCHANGED <<loop, table, out, kept>>
      /\ runs' = runs \cup {<<n, e>>} /\ NextWork(n, e)
  BY DEF Work, NextWork
<1> HIDE DEF p
<1>2. /\ tasks' \in [Exec -> Task \cup {None}]
      /\ tasks'[e] # None /\ tasks'[e].node = n /\ tasks'[e].pool = p
      /\ \A f \in Exec : f # e => tasks'[f] = tasks[f]
  BY <1>0, WorkParts
<1>3. AgentTyped'
  BY <1>1, <1>2 DEF AInv, AgentTyped
<1>4. Rests'
  <2> SUFFICES ASSUME NEW m \in Node, At(m, "down"), NEW f \in Exec, tasks'[f] # None
               PROVE  tasks'[f].node # m
    BY <1>1 DEF AInv, Rests, At
  <2>1. CASE f = e
    BY <1>1, <1>2, <2>1 DEF At
  <2>2. CASE f # e
    BY <1>2, <2>2 DEF AInv, Rests
  <2> QED BY <2>1, <2>2
<1>5. Handed'
  <2> SUFFICES ASSUME NEW f \in Exec, tasks'[f] # None
               PROVE  /\ <<tasks'[f].node, f>> \in runs'
                      /\ cluster'.execs[f].pool = tasks'[f].pool
    BY DEF Handed
  <2>1. CASE f = e
    <3>1. cluster'.execs[e].pool = cluster.execs[e].pool
      BY <1>1, NextWorkStays DEF AInv
    <3> QED BY <1>0, <1>1, <1>2, <2>1, <3>1
  <2>2. CASE f # e
    <3>1. cluster'.execs[f] = cluster.execs[f]
      BY <1>1, <2>2, NextWorkStays DEF AInv
    <3> QED BY <1>1, <1>2, <2>2, <3>1 DEF AInv, Handed
  <2> QED BY <2>1, <2>2
<1> QED BY <1>3, <1>4, <1>5 DEF AInv

\* A task takes a MicroVM from the table or has one put back.
LEMMA TableCounts ==
  ASSUME AInv, NEW e \in Exec, tasks[e] # None, NEW n, n = tasks[e].node,
         NEW p, p = tasks[e].pool
  PROVE  /\ n \in Node /\ p \in Pool /\ table[n][p] \in Nat
         /\ Acquire(e) =>
              /\ UNCHANGED <<vars, loop, out, kept>>
              /\ \/ /\ table[n][p] > 0 /\ Becomes(e, "busy")
                    /\ table' = OneBut(table, n, p, table[n][p] - 1)
                 \/ table[n][p] = 0 /\ Becomes(e, "start") /\ table' = table
         /\ Keep(e) => /\ UNCHANGED <<vars, loop, out, kept>> /\ Becomes(e, "kept")
                       /\ table' = OneBut(table, n, p, table[n][p] + 1)
<1>1. n \in Node /\ p \in Pool
  BY TaskOf
<1>2. table[n][p] \in Nat
  BY <1>1, Parts
<1>3. ASSUME Acquire(e)
      PROVE  /\ UNCHANGED <<vars, loop, out, kept>>
             /\ \/ /\ table[n][p] > 0 /\ Becomes(e, "busy")
                   /\ table' = OneBut(table, n, p, table[n][p] - 1)
                \/ table[n][p] = 0 /\ Becomes(e, "start") /\ table' = table
  <2>1. /\ UNCHANGED <<vars, loop, out, kept>>
        /\ \/ /\ table[n][p] > 0 /\ Becomes(e, "busy")
              /\ table' = OneBut(table, n, p, table[n][p] - 1)
           \/ ~ (table[n][p] > 0) /\ Becomes(e, "start") /\ table' = table
    BY <1>3 DEF Acquire, OneBut
  <2> QED BY <1>2, <2>1
<1>4. ASSUME Keep(e)
      PROVE  /\ UNCHANGED <<vars, loop, out, kept>> /\ Becomes(e, "kept")
             /\ table' = OneBut(table, n, p, table[n][p] + 1)
  BY <1>4 DEF Keep, OneBut
<1> QED BY <1>1, <1>2, <1>3, <1>4

LEMMA TableSet ==
  ASSUME AInv, NEW n \in Node, NEW p \in Pool, NEW k \in Nat, table' = OneBut(table, n, p, k)
  PROVE  /\ table' \in Counts
         /\ \A m \in Node : m # n => table'[m] = table[m]
         /\ \A m \in Node, y \in Pool : table'[m][y] = IF m = n /\ y = p THEN k ELSE table[m][y]
<1>1. table \in Counts
  BY Parts
<1> QED BY ONLY n \in Node, p \in Pool, k \in Nat, table' = OneBut(table, n, p, k), <1>1, CountChanged

\* A task changes itself and the table of its node.
LEMMA TaskKept ==
  ASSUME AInv, IInv', Stays, NEW e \in Exec, TaskStep(e)
  PROVE  AInv'
<1> DEFINE n == tasks[e].node
           p == tasks[e].pool
<1>1. tasks[e] # None
  BY DEF TaskStep, DirFails, Acquire, Boot, BootFails, Keep, Destroy, Report, ReportFails, Is
<1>2. n = tasks[e].node /\ p = tasks[e].pool
  OBVIOUS
<1> HIDE DEF n, p
<1>3. n \in Node /\ p \in Pool /\ table[n][p] \in Nat
  BY <1>1, <1>2, TableCounts
<1>4. ~ At(n, "down")
  BY <1>1, <1>2, TaskOf
<1>5. UNCHANGED <<loop, out, kept>>
  BY DEF TaskStep, DirFails, Acquire, Boot, BootFails, Keep, Destroy, Report, ReportFails
<1>6. table' \in Counts /\ \A m \in Node : m # n => table'[m] = table[m]
  <2>1. CASE table' = table
    BY <2>1, Parts
  <2>2. CASE Acquire(e) /\ table' # table
    <3> DEFINE k == table[n][p] - 1
    <3>1. k \in Nat /\ table' = OneBut(table, n, p, k)
      BY <1>1, <1>2, <1>3, <2>2, TableCounts
    <3> HIDE DEF k
    <3> QED BY <1>3, <3>1, TableSet
  <2>3. CASE Keep(e)
    <3> DEFINE k == table[n][p] + 1
    <3>1. k \in Nat /\ table' = OneBut(table, n, p, k)
      BY <1>1, <1>2, <1>3, <2>3, TableCounts
    <3> HIDE DEF k
    <3> QED BY <1>3, <3>1, TableSet
  <2> QED BY <2>1, <2>2, <2>3
          DEF TaskStep, DirFails, Boot, BootFails, Destroy, Report, ReportFails
<1>7. CASE Report(e) \/ ReportFails(e)
  <2>1. tasks' = [tasks EXCEPT ![e] = None] /\ runs' = runs \ {<<n, e>>}
    BY <1>2, <1>7 DEF Report, ReportFails, CompleteExecution
  <2>2. /\ tasks' \in [Exec -> Task \cup {None}] /\ tasks'[e] = None
        /\ \A f \in Exec : f # e => tasks'[f] = tasks[f]
    BY <2>1, TaskEnds, Parts
  <2>3. \A f \in Exec : tasks'[f] # None => f # e /\ tasks[f] # None /\ tasks'[f] = tasks[f]
    BY <2>2
  <2>4. \A f \in Exec : tasks'[f] # None => <<tasks[f].node, f>> \in runs'
    BY <2>1, <2>3, TaskOf
  <2>5. AgentTyped'
    BY <1>5, <1>6, <2>2 DEF AInv, AgentTyped
  <2>6. Rests'
    BY <1>3, <1>4, <1>5, <1>6, <2>3, RestsKept, Parts DEF At, AInv, Rests
  <2>7. Handed'
    BY <2>3, <2>4, HandedKept
  <2> QED BY <2>5, <2>6, <2>7 DEF AInv
<1>8. CASE DirFails(e) \/ Acquire(e) \/ Boot(e) \/ BootFails(e) \/ Keep(e) \/ Destroy(e)
  <2>1. /\ runs' = runs
        /\ \E a \in {"start", "busy", "kept", "gone"} : Becomes(e, a)
    BY <1>8 DEF DirFails, Acquire, Boot, BootFails, Keep, Destroy, vars
  <2>2. /\ tasks' \in [Exec -> Task \cup {None}]
        /\ tasks'[e] # None /\ tasks'[e].node = tasks[e].node /\ tasks'[e].pool = tasks[e].pool
        /\ \A f \in Exec : f # e => tasks'[f] = tasks[f]
    BY <1>1, <2>1, TaskBecomes, Parts
  <2>3. \A f \in Exec : tasks'[f] # None =>
          /\ tasks[f] # None
          /\ tasks'[f].node = tasks[f].node /\ tasks'[f].pool = tasks[f].pool
    BY <1>1, <2>2
  <2>4. \A f \in Exec : tasks'[f] # None => <<tasks[f].node, f>> \in runs'
    BY <2>1, <2>3, TaskOf
  <2>5. AgentTyped'
    BY <1>5, <1>6, <2>2 DEF AInv, AgentTyped
  <2>6. Rests'
    BY <1>3, <1>4, <1>5, <1>6, <2>3, RestsKept, Parts DEF At, AInv, Rests
  <2>7. Handed'
    BY <2>3, <2>4, HandedKept
  <2> QED BY <2>5, <2>6, <2>7 DEF AInv
<1> QED BY <1>7, <1>8 DEF TaskStep

\* What users and operators do: a node with a task is not deleted.
LEMMA OthersKept ==
  ASSUME AInv, IInv', Stays, Administer \/ Submit, UNCHANGED agentVars
  PROVE  AInv'
<1>1. UNCHANGED <<loop, table, out, kept, tasks>>
  BY DEF agentVars
<1>2. AgentTyped' /\ Rests'
  BY <1>1 DEF AInv, AgentTyped, Rests, At
<1>3. ASSUME NEW e \in Exec, tasks[e] # None PROVE <<tasks[e].node, e>> \in runs'
  <2> DEFINE n == tasks[e].node
  <2>1. /\ n \in Node /\ <<n, e>> \in runs /\ cluster.execs[e].pool \in Pool
        /\ e \in ActiveOn(cluster, cluster.execs[e].pool) /\ cluster.execs[e].node = n
    BY <1>3, TaskOf DEF ActiveOn, Holds
  <2> HIDE DEF n
  <2>2. CASE runs' = runs
    BY <2>1, <2>2 DEF n
  <2>3. CASE \E m \in Node : DeleteNode(m)
    <3>1. PICK m \in Node : DeleteNode(m)
      BY <2>3
    <3>2. m # n
      BY <2>1, <3>1 DEF DeleteNode
    <3> QED BY <2>1, <3>1, <3>2 DEF DeleteNode, n
  <2>4. runs' = runs \/ \E m \in Node : DeleteNode(m)
    BY DEF Administer, Submit, ImportImage, UpdateImage, DeleteImage, CreatePool, DeletePool,
           BeginCreate, BeginUpdate, PrepareArtifact, AbandonRequest, CommitCreate, CommitUpdate,
           RestartEnvironment, DeleteEnvironment, CreateExecution
  <2> QED BY <2>2, <2>3, <2>4
<1>4. Handed'
  BY <1>1, <1>3, HandedKept
<1> QED BY <1>2, <1>4 DEF AInv

\* Nothing is anywhere at first.
LEMMA InitAInv == Init /\ AgentInit => AInv
<1> SUFFICES ASSUME Init, AgentInit PROVE AInv
  OBVIOUS
<1>1. IInv
  BY InitIInv
<1>2. Idling \in Loop /\ Idling.phase = "down"
  BY DEF Idling, Loop, Phase
<1>3. AgentTyped
  BY <1>2, NothingType DEF AgentInit, AgentTyped, Counts
<1>4. Rests /\ Handed
  BY <1>2 DEF AgentInit, Rests, Handed, At
<1> QED BY <1>1, <1>3, <1>4 DEF AInv

\* Every step of agents, tasks and clients keeps it.
LEMMA NextAInv == AInv /\ [AgentNext]_allVars => AInv'
<1> SUFFICES ASSUME AInv, [AgentNext]_allVars PROVE AInv'
  OBVIOUS
<1>0. IInv' /\ Stays
  BY ControllerStep
<1>1. ASSUME NEW n \in Node, Start(n) \/ Stop(n) PROVE AInv'
  BY <1>0, <1>1, StartKept, StopKept
<1>2. ASSUME NEW n \in Node, Turn(n) PROVE AInv'
  BY <1>0, <1>2, MoveKept, MaintainKept, WorkKept DEF Turn
<1>3. ASSUME NEW e \in Exec, TaskStep(e) PROVE AInv'
  BY <1>0, <1>3, TaskKept
<1>4. CASE (Administer \/ Submit) /\ UNCHANGED agentVars
  BY <1>0, <1>4, OthersKept
<1>5. CASE UNCHANGED allVars
  <2>1. UNCHANGED <<cluster, runs, loop, table, out, kept, tasks>>
    BY <1>5 DEF allVars, vars, agentVars
  <2> QED BY <1>0, <2>1 DEF AInv, AgentTyped, Rests, Handed, At
<1> QED BY <1>1, <1>2, <1>3, <1>4, <1>5 DEF AgentNext

\* What the theorems about the agents rest on holds throughout, whatever the agents, their
\* tasks, the administrators and the submitters do.
THEOREM AgentInvariance == AgentSpec => []AInv
BY InitAInv, NextAInv, PTL DEF AgentSpec

\* The agents' variables have their types, with those of the controller.
THEOREM AgentTypeCorrect == AgentSpec => []AgentTypeOK
<1>1. AInv => AgentTypeOK
  BY DEF AInv, IInv, Sound, Typed, TypeOK, AgentTyped, AgentTypeOK
<1> QED BY <1>1, AgentInvariance, PTL

-----------------------------------------------------------------------------
(* The two counts. *)

New == {e \in Exec : Is(e, "new")}

StrayExcuse(n, p) ==
  \E e \in Exec :
    /\ Here(e, n, p)
    /\ \/ Turns(e, "new", "gone")
       \/ Turns(e, "new", "start") /\ out[n][p] + kept[n][p] > 0
       \/ Is(e, "kept") /\ Ends(e) /\ UNCHANGED cluster

PhantomExcuse(n, p) ==
  \/ At(n, "prune") /\ p \notin loop[n].known
  \/ \E e \in Exec :
       /\ Here(e, n, p)
       /\ \/ Turns(e, "new", "busy")
          \/ Is(e, "kept") /\ Ends(e)

Explained(n, p) ==
  /\ StrayAppears(n, p) => GoesAway(cluster, cluster', n, p) \/ StrayExcuse(n, p)
  /\ PhantomAppears(n, p) => PhantomExcuse(n, p)

\* What an agent waits for is what the controller-side lemmas say of the tasks that are
\* new.
LEMMA WaitingIsMeant ==
  ASSUME NEW n \in Node, NEW p \in Pool
  PROVE  Waiting(n, p) = Meant(cluster, New, n, p)
BY DEF Waiting, Meant, New, InUse, ActiveOn

LEMMA Numbers ==
  ASSUME AInv, NEW n \in Node, NEW p \in Pool
  PROVE  /\ table[n][p] \in Nat /\ out[n][p] \in Nat /\ kept[n][p] \in Nat
         /\ Spare(n, p) \in Nat /\ IdleAt(cluster, n, p) \in Nat
         /\ IsFiniteSet(Waiting(n, p)) /\ Cardinality(Waiting(n, p)) \in Nat
         /\ IsFiniteSet(Unreported(n, p)) /\ Cardinality(Unreported(n, p)) \in Nat
<1>1. table[n][p] \in Nat /\ out[n][p] \in Nat /\ kept[n][p] \in Nat
  BY Parts
<1>2. IdleAt(cluster, n, p) \in Nat
  BY RoomType DEF AInv, IInv, Sound, Typed
<1>3. Waiting(n, p) \subseteq Exec /\ Unreported(n, p) \subseteq Exec
  BY DEF Waiting, ActiveOn, Unreported
<1>4. /\ IsFiniteSet(Waiting(n, p)) /\ Cardinality(Waiting(n, p)) \in Nat
      /\ IsFiniteSet(Unreported(n, p)) /\ Cardinality(Unreported(n, p)) \in Nat
  BY <1>3, FiniteParts
<1> QED BY <1>1, <1>2, <1>4 DEF Spare

LEMMA NumbersNext ==
  ASSUME AInv', NEW n \in Node, NEW p \in Pool
  PROVE  /\ Spare(n, p)' \in Nat /\ IdleAt(cluster', n, p) \in Nat
         /\ Cardinality(Waiting(n, p)') \in Nat /\ Cardinality(Unreported(n, p)') \in Nat
<1>1. table'[n][p] \in Nat /\ out'[n][p] \in Nat /\ kept'[n][p] \in Nat
  BY DEF AInv, AgentTyped, Counts
<1>2. IdleAt(cluster', n, p) \in Nat
  BY RoomType DEF AInv, IInv, Sound, Typed
<1>3. Waiting(n, p)' \subseteq Exec /\ Unreported(n, p)' \subseteq Exec
  BY DEF Waiting, ActiveOn, Unreported
<1>4. Cardinality(Waiting(n, p)') \in Nat /\ Cardinality(Unreported(n, p)') \in Nat
  BY <1>3, FiniteParts
<1> QED BY <1>1, <1>2, <1>4 DEF Spare

\* What the controller and the agent count move together: no stray appears.
LEMMA NoStray ==
  ASSUME AInv, AInv', NEW n \in Node, NEW p \in Pool, NEW k \in Int,
         IdleAt(cluster, n, p) + Cardinality(Waiting(n, p)) + k
           <= IdleAt(cluster', n, p) + Cardinality(Waiting(n, p)'),
         Spare(n, p)' + Cardinality(Unreported(n, p))
           <= Spare(n, p) + k + Cardinality(Unreported(n, p)')
  PROVE  ~ StrayAppears(n, p)
<1> DEFINE s == Spare(n, p)
           i == IdleAt(cluster, n, p)
           w == Cardinality(Waiting(n, p))
           u == Cardinality(Unreported(n, p))
           ss == Spare(n, p)'
           ii == IdleAt(cluster', n, p)
           ww == Cardinality(Waiting(n, p)')
           uu == Cardinality(Unreported(n, p)')
<1>1. s \in Nat /\ i \in Nat /\ w \in Nat /\ u \in Nat
  BY Numbers
<1>2. ss \in Nat /\ ii \in Nat /\ ww \in Nat /\ uu \in Nat
  BY NumbersNext
<1>3. i + w + k <= ii + ww /\ ss + u <= s + k + uu
  OBVIOUS
<1>4. /\ Strays(n, p) = Monus(s, i + w + u)
      /\ Strays(n, p)' = Monus(ss, ii + ww + uu)
  BY DEF Strays
<1> HIDE DEF s, i, w, u, ss, ii, ww, uu
<1>5. ss - (ii + ww + uu) <= s - (i + w + u)
  BY <1>1, <1>2, <1>3
<1>6. Monus(ss, ii + ww + uu) <= Monus(s, i + w + u)
  BY <1>1, <1>2, <1>5 DEF Monus
<1>7. Monus(ss, ii + ww + uu) \in Nat /\ Monus(s, i + w + u) \in Nat
  BY <1>1, <1>2 DEF Monus
<1> QED BY <1>4, <1>6, <1>7 DEF StrayAppears

\* If the count grows by no more than the agent gains, there is no new phantom.
LEMMA NoPhantom ==
  ASSUME AInv, AInv', NEW n \in Node, NEW p \in Pool, NEW k \in Int,
         IdleAt(cluster', n, p) <= IdleAt(cluster, n, p) + k,
         Spare(n, p) + k <= Spare(n, p)'
  PROVE  ~ PhantomAppears(n, p)
<1> DEFINE s == Spare(n, p)
           i == IdleAt(cluster, n, p)
           ss == Spare(n, p)'
           ii == IdleAt(cluster', n, p)
<1>1. s \in Nat /\ i \in Nat /\ ss \in Nat /\ ii \in Nat
  BY Numbers, NumbersNext
<1>2. ii <= i + k /\ s + k <= ss
  OBVIOUS
<1>3. SUFFICES ASSUME Up(n) PROVE ~ (Phantoms(n, p)' > Phantoms(n, p))
  BY DEF PhantomAppears
<1>4. /\ Phantoms(n, p) = Monus(i, s)
      /\ Phantoms(n, p)' = Monus(ii, ss) \/ Phantoms(n, p)' = 0
  BY <1>3 DEF Phantoms
<1> HIDE DEF s, i, ss, ii
<1>5. Monus(ii, ss) <= Monus(i, s) /\ Monus(ii, ss) \in Nat /\ Monus(i, s) \in Nat
  BY <1>1, <1>2 DEF Monus
<1> QED BY <1>4, <1>5

\* The agent's number moves as the controller's.
LEMMA Matched ==
  ASSUME AInv, AInv', NEW n \in Node, NEW p \in Pool, NEW k \in Int,
         Drift(cluster, cluster', New, n, p, k),
         Spare(n, p)' = Spare(n, p) + k,
         Waiting(n, p)' = Meant(cluster', New, n, p),
         Unreported(n, p)' = Unreported(n, p)
  PROVE  Explained(n, p)
<1>1. /\ Spare(n, p) \in Nat /\ Spare(n, p)' \in Nat
      /\ IdleAt(cluster, n, p) \in Nat /\ IdleAt(cluster', n, p) \in Nat
      /\ Cardinality(Waiting(n, p)) \in Nat /\ Cardinality(Waiting(n, p)') \in Nat
      /\ Cardinality(Unreported(n, p)) \in Nat
  BY Numbers, NumbersNext
<1>2. ~ PhantomAppears(n, p)
  <2>1. IdleAt(cluster', n, p) <= IdleAt(cluster, n, p) + k
    BY DEF Drift
  <2>2. Spare(n, p) + k <= Spare(n, p)'
    BY <1>1
  <2> QED BY <2>1, <2>2, NoPhantom
<1>3. GoesAway(cluster, cluster', n, p) \/ ~ StrayAppears(n, p)
  <2>1. CASE ~ GoesAway(cluster, cluster', n, p)
    <3>1. Room(cluster, New, n, p) + k <= Room(cluster', New, n, p)
      BY <2>1 DEF Drift
    <3>2. /\ Room(cluster, New, n, p) = IdleAt(cluster, n, p) + Cardinality(Waiting(n, p))
          /\ Room(cluster', New, n, p) = IdleAt(cluster', n, p) + Cardinality(Waiting(n, p)')
      BY WaitingIsMeant DEF Room
    <3>3. IdleAt(cluster, n, p) + Cardinality(Waiting(n, p)) + k
            <= IdleAt(cluster', n, p) + Cardinality(Waiting(n, p)')
      BY <3>1, <3>2
    <3>4. Spare(n, p)' + Cardinality(Unreported(n, p))
            <= Spare(n, p) + k + Cardinality(Unreported(n, p)')
      <4>1. Cardinality(Unreported(n, p)') = Cardinality(Unreported(n, p))
        OBVIOUS
      <4> QED BY <1>1, <4>1
    <3> QED BY <3>3, <3>4, NoStray
  <2> QED BY <2>1
<1> QED BY <1>2, <1>3 DEF Explained

\* The tasks are the same, and so are the MicroVMs of the agent.
LEMMA SameTasks ==
  ASSUME tasks' = tasks, NEW n \in Node, NEW p \in Pool
  PROVE  /\ Waiting(n, p)' = Meant(cluster', New, n, p)
         /\ Unreported(n, p)' = Unreported(n, p)
BY DEF Waiting, Meant, New, InUse, ActiveOn, Is, Unreported, Here

\* Where neither the tasks nor the table of a node change, the drift is the controller's.
LEMMA SteadyExplained ==
  ASSUME AInv, AInv', tasks' = tasks, NEW n \in Node, NEW p \in Pool,
         Drift(cluster, cluster', New, n, p, 0), Spare(n, p)' = Spare(n, p)
  PROVE  Explained(n, p)
<1>1. Spare(n, p)' = Spare(n, p) + 0
  BY Numbers
<1> QED BY <1>1, SameTasks, Matched

-----------------------------------------------------------------------------
(* The turns of an agent. *)

LEMMA SameSpare ==
  ASSUME NEW n \in Node, NEW p \in Pool,
         table'[n] = table[n], out'[n] = out[n], kept'[n] = kept[n]
  PROVE  Spare(n, p)' = Spare(n, p)
BY DEF Spare

LEMMA SteadyHere ==
  ASSUME AInv, UNCHANGED cluster, NEW n \in Node, NEW p \in Pool
  PROVE  Drift(cluster, cluster', New, n, p, 0)
<1>1. cluster \in Cluster
  BY DEF AInv, IInv, Sound, Typed
<1>2. Steady(cluster, cluster', New)
  BY <1>1, SteadySelf
<1> QED BY <1>2 DEF Steady

\* Steps of the loop that move no MicroVM.
LEMMA MoveExplained ==
  ASSUME AInv, AInv', NEW n \in Node,
         \/ Fetch(n) \/ Maintained(n) \/ WarmFailed(n) \/ Beat(n) \/ Announce(n)
         \/ \E p \in Pool : NeedsWarm(n, p),
         NEW m \in Node, NEW y \in Pool
  PROVE  Explained(m, y)
<1>1. tasks' = tasks /\ table' = table /\ out' = out /\ kept' = kept
  BY DEF Fetch, Maintained, WarmFailed, Beat, Announce, NeedsWarm, agentVars
<1>2. Drift(cluster, cluster', New, m, y, 0)
  <2>1. CASE Beat(n)
    <3>1. Quiet /\ IInv
      BY <2>1, HeartbeatQuiet DEF Beat, AInv
    <3> QED BY <3>1, QuietSteady DEF Steady
  <2>2. CASE Announce(n)
    <3>1. Quiet /\ IInv
      BY <2>2, ArrivalQuiet DEF Announce, AInv
    <3> QED BY <3>1, QuietSteady DEF Steady
  <2>3. CASE ~ Beat(n) /\ ~ Announce(n)
    <3>1. cluster' = cluster
      BY <2>3 DEF Fetch, Maintained, WarmFailed, NeedsWarm, vars
    <3> QED BY <3>1, SteadyHere
  <2> QED BY <2>1, <2>2, <2>3
<1>3. Spare(m, y)' = Spare(m, y)
  BY <1>1, SameSpare
<1> QED BY <1>1, <1>2, <1>3, SteadyExplained

\* Users and their requests.
LEMMA OthersExplained ==
  ASSUME AInv, AInv', Administer \/ Submit, UNCHANGED agentVars, NEW m \in Node, NEW y \in Pool
  PROVE  Explained(m, y)
<1>1. tasks' = tasks /\ table' = table /\ out' = out /\ kept' = kept /\ IInv
  BY DEF agentVars, AInv
<1>2. Drift(cluster, cluster', New, m, y, 0)
  BY <1>1, AdministerSteady, CreateExecutionSteady DEF Submit, Steady
<1>3. Spare(m, y)' = Spare(m, y)
  BY <1>1, SameSpare
<1> QED BY <1>1, <1>2, <1>3, SteadyExplained

\* An agent that starts has no MicroVM yet.
LEMMA StartExplained ==
  ASSUME AInv, AInv', NEW n \in Node, Start(n), NEW m \in Node, NEW y \in Pool
  PROVE  Explained(m, y)
<1>1. /\ tasks' = tasks /\ table' = table /\ out' = out /\ kept' = kept
      /\ IInv /\ At(n, "down") /\ StartAgent(n)
  BY DEF Start, AInv
<1>2. Spare(m, y)' = Spare(m, y)
  BY <1>1, SameSpare
<1>3. CASE m # n
  <2>1. Drift(cluster, cluster', New, m, y, 0)
    BY <1>1, <1>3, StartAgentSteady
  <2> QED BY <1>1, <1>2, <2>1, SteadyExplained
<1>4. CASE m = n
  <2>1. ~ PhantomAppears(n, y)
    BY <1>1 DEF PhantomAppears, Up
  <2>2. Spare(n, y) = 0
    <3>1. table[n] = Nothing /\ out[n] = Nothing /\ kept[n] = Nothing
      BY <1>1 DEF AInv, Rests, At
    <3> QED BY <3>1, NothingType DEF Spare
  <2>3. /\ IdleAt(cluster, n, y) \in Nat /\ Cardinality(Waiting(n, y)) \in Nat
        /\ Cardinality(Unreported(n, y)) \in Nat
        /\ IdleAt(cluster', n, y) \in Nat /\ Cardinality(Waiting(n, y)') \in Nat
        /\ Cardinality(Unreported(n, y)') \in Nat
    BY Numbers, NumbersNext
  <2>4. Strays(n, y) = 0 /\ Strays(n, y)' = 0
    BY <1>2, <1>4, <2>2, <2>3 DEF Strays, Monus
  <2>5. ~ StrayAppears(n, y)
    BY <2>4 DEF StrayAppears
  <2> QED BY <1>4, <2>1, <2>5 DEF Explained
<1> QED BY <1>3, <1>4

\* An agent that ends leaves no MicroVM, and takes its own tasks with it.
LEMMA StopExplained ==
  ASSUME AInv, AInv', NEW n \in Node, Stop(n), NEW m \in Node, NEW y \in Pool
  PROVE  Explained(m, y)
<1>1. /\ UNCHANGED vars /\ loop'[n].phase = "down"
      /\ table'[n] = Nothing /\ out'[n] = Nothing /\ kept'[n] = Nothing
      /\ m # n => table'[m] = table[m] /\ out'[m] = out[m] /\ kept'[m] = kept[m]
      /\ \A e \in Exec :
           tasks'[e] = IF tasks[e] # None /\ tasks[e].node = n THEN None ELSE tasks[e]
  BY StopParts
<1>2. cluster' = cluster
  BY <1>1 DEF vars
<1>3. CASE m # n
  <2>1. Drift(cluster, cluster', New, m, y, 0)
    BY <1>2, SteadyHere
  <2>2. Spare(m, y)' = Spare(m, y) + 0
    BY <1>1, <1>3, SameSpare, Numbers
  <2>3. Unreported(m, y)' = Unreported(m, y)
    BY <1>1, <1>3 DEF Unreported, Here, Is
  <2>4. Waiting(m, y)' = Meant(cluster', New, m, y)
    <3>1. ASSUME NEW e \in InUse(cluster, m, y)
          PROVE  tasks[e] # None => tasks[e].node = m
      BY <3>1, TaskOf DEF InUse, ActiveOn
    <3>2. \A e \in InUse(cluster, m, y) : tasks'[e] = tasks[e]
      BY <1>1, <1>3, <3>1 DEF InUse, ActiveOn
    <3>3. Waiting(m, y)' =
            {e \in InUse(cluster, m, y) :
               cluster.execs[e].status = "assigned" \/ (tasks'[e] # None /\ tasks'[e].at = "new")}
      BY <1>2 DEF Waiting, InUse, ActiveOn, Is
    <3>4. Meant(cluster', New, m, y) =
            {e \in InUse(cluster, m, y) :
               cluster.execs[e].status = "assigned" \/ (tasks[e] # None /\ tasks[e].at = "new")}
      BY <1>2 DEF Meant, New, Is, InUse, ActiveOn
    <3> QED BY <3>2, <3>3, <3>4
  <2> QED BY <2>1, <2>2, <2>3, <2>4, Matched
<1>4. CASE m = n
  <2>1. Spare(n, y)' = 0
    BY <1>1, NothingType DEF Spare
  <2>2. /\ Spare(n, y) \in Nat /\ IdleAt(cluster, n, y) \in Nat
        /\ Cardinality(Waiting(n, y)) \in Nat /\ Cardinality(Unreported(n, y)) \in Nat
        /\ IdleAt(cluster', n, y) \in Nat /\ Cardinality(Waiting(n, y)') \in Nat
        /\ Cardinality(Unreported(n, y)') \in Nat
    BY Numbers, NumbersNext
  <2>3. Strays(n, y)' = 0 /\ Strays(n, y) \in Nat
    BY <2>1, <2>2 DEF Strays, Monus
  <2>4. Phantoms(n, y)' = 0 /\ Phantoms(n, y) \in Nat
    BY <1>1, <2>2 DEF Phantoms, Up, At, Monus
  <2> QED BY <1>4, <2>3, <2>4 DEF Explained, StrayAppears, PhantomAppears
<1> QED BY <1>3, <1>4

\* The MicroVMs of a pool whose snapshot is not to be had go without a word.
LEMMA PruneExplained ==
  ASSUME AInv, AInv', NEW n \in Node, Prune(n), NEW m \in Node, NEW y \in Pool
  PROVE  Explained(m, y)
<1>1. /\ UNCHANGED <<vars, out, kept, tasks>>
      /\ \A x \in Node : x # n => table'[x] = table[x]
      /\ \A p \in Pool : table'[n][p] = IF p \in loop[n].known THEN table[n][p] ELSE 0
  BY PruneCounts
<1>2. cluster' = cluster /\ tasks' = tasks /\ out' = out /\ kept' = kept
  BY <1>1 DEF vars
<1>3. Drift(cluster, cluster', New, m, y, 0)
  BY <1>2, SteadyHere
<1>4. CASE m # n \/ y \in loop[n].known
  <2>1. Spare(m, y)' = Spare(m, y)
    BY <1>1, <1>2, <1>4 DEF Spare
  <2> QED BY <1>2, <1>3, <2>1, SteadyExplained
<1>5. CASE m = n /\ y \notin loop[n].known
  <2>1. /\ Spare(n, y) \in Nat /\ Spare(n, y)' \in Nat
        /\ table[n][y] \in Nat /\ out[n][y] \in Nat /\ kept[n][y] \in Nat
        /\ IdleAt(cluster, n, y) \in Nat /\ Cardinality(Waiting(n, y)) \in Nat
        /\ Cardinality(Unreported(n, y)) \in Nat
    BY Numbers, NumbersNext
  <2>2. Spare(n, y)' <= Spare(n, y)
    BY <1>1, <1>2, <1>5, <2>1 DEF Spare
  <2>3. Waiting(n, y)' = Waiting(n, y) /\ Unreported(n, y)' = Unreported(n, y)
    BY <1>2, SameTasks, WaitingIsMeant
  <2>4. ~ StrayAppears(n, y)
    <3>1. /\ Cardinality(Waiting(n, y)') = Cardinality(Waiting(n, y))
          /\ Cardinality(Unreported(n, y)') = Cardinality(Unreported(n, y))
      BY <2>3
    <3>2. /\ IdleAt(cluster, n, y) + Cardinality(Waiting(n, y)) + 0
               <= IdleAt(cluster', n, y) + Cardinality(Waiting(n, y)')
          /\ Spare(n, y)' + Cardinality(Unreported(n, y))
               <= Spare(n, y) + 0 + Cardinality(Unreported(n, y)')
      BY <1>2, <2>1, <2>2, <3>1
    <3> QED BY <3>2, NoStray
  <2>5. PhantomExcuse(n, y)
    BY <1>5 DEF PhantomExcuse, Prune
  <2> QED BY <1>5, <2>4, <2>5 DEF Explained
<1> QED BY <1>4, <1>5

\* MicroVMs go out of the table and back into it.
LEMMA TableExplained ==
  ASSUME AInv, AInv', NEW n \in Node, TakeOut(n) \/ PutBack(n), NEW m \in Node, NEW y \in Pool
  PROVE  Explained(m, y)
<1>1. cluster' = cluster /\ tasks' = tasks
  BY DEF TakeOut, PutBack, vars
<1>2. Drift(cluster, cluster', New, m, y, 0)
  BY <1>1, SteadyHere
<1>3. table[m][y] \in Nat /\ out[m][y] \in Nat /\ kept[m][y] \in Nat
  BY Numbers
<1>4. CASE TakeOut(n)
  <2>1. /\ kept' = kept
        /\ m # n => table'[m] = table[m] /\ out'[m] = out[m]
        /\ table'[n] = Nothing /\ out'[n] = table[n] /\ out[n] = Nothing
    BY <1>4, TakeOutCounts
  <2>2. Spare(m, y)' = Spare(m, y)
    BY <1>3, <2>1, NothingType DEF Spare
  <2> QED BY <1>1, <1>2, <2>2, SteadyExplained
<1>5. CASE PutBack(n)
  <2>1. /\ out' = out
        /\ m # n => table'[m] = table[m] /\ kept'[m] = kept[m]
        /\ table'[n][y] = table[n][y] + kept[n][y] /\ kept'[n] = Nothing /\ out[n] = Nothing
    BY <1>5, PutBackCounts
  <2>2. Spare(m, y)' = Spare(m, y)
    BY <1>3, <2>1, NothingType DEF Spare
  <2> QED BY <1>1, <1>2, <2>2, SteadyExplained
<1> QED BY <1>4, <1>5

\* A MicroVM goes as the controller takes it off the count, or is retained.
LEMMA AskExplained ==
  ASSUME AInv, AInv', NEW n \in Node, NEW p \in Pool, Ask(n, p), NEW m \in Node, NEW y \in Pool
  PROVE  Explained(m, y)
<1>1. /\ UNCHANGED <<loop, table, tasks>>
      /\ \A x \in Node : x # n => out'[x] = out[x] /\ kept'[x] = kept[x]
      /\ \A x \in Pool : out'[n][x] = IF x = p THEN out[n][p] - 1 ELSE out[n][x]
      /\ \/ RemoveIdleInstance(n, p) /\ kept' = kept
         \/ /\ UNCHANGED vars
            /\ \A x \in Pool : kept'[n][x] = IF x = p THEN kept[n][p] + 1 ELSE kept[n][x]
  BY AskCounts
<1>2. /\ table[n][p] \in Nat /\ out[n][p] \in Nat /\ kept[n][p] \in Nat
      /\ table[m][y] \in Nat /\ out[m][y] \in Nat /\ kept[m][y] \in Nat
  BY Numbers
<1>3. tasks' = tasks /\ table' = table /\ IInv
  BY <1>1 DEF AInv
<1>4. CASE RemoveIdleInstance(n, p) /\ kept' = kept
  <2>1. /\ Drift(cluster, cluster', New, n, p, -1)
        /\ \A x \in Node, z \in Pool : x # n \/ z # p => Drift(cluster, cluster', New, x, z, 0)
    BY <1>3, <1>4, RemoveIdleDrift
  <2>2. CASE m = n /\ y = p
    <3> DEFINE k == -1
    <3>1. k \in Int /\ Drift(cluster, cluster', New, n, p, k)
      BY <2>1
    <3>2. out'[n][p] = out[n][p] + k /\ kept'[n][p] = kept[n][p] /\ table'[n][p] = table[n][p]
      BY <1>1, <1>2, <1>3, <1>4
    <3> HIDE DEF k
    <3>3. Spare(n, p)' = Spare(n, p) + k
      BY <1>2, <3>1, <3>2 DEF Spare
    <3>4. Waiting(n, p)' = Meant(cluster', New, n, p) /\ Unreported(n, p)' = Unreported(n, p)
      BY <1>3, SameTasks
    <3> QED BY <2>2, <3>1, <3>3, <3>4, Matched
  <2>3. CASE m # n \/ y # p
    <3>1. Spare(m, y)' = Spare(m, y)
      BY <1>1, <1>3, <1>4, <2>3 DEF Spare
    <3> QED BY <1>3, <2>1, <2>3, <3>1, SteadyExplained
  <2> QED BY <2>2, <2>3
<1>5. CASE /\ UNCHANGED vars
           /\ \A x \in Pool : kept'[n][x] = IF x = p THEN kept[n][p] + 1 ELSE kept[n][x]
  <2>1. cluster' = cluster
    BY <1>5 DEF vars
  <2>2. Drift(cluster, cluster', New, m, y, 0)
    BY <2>1, SteadyHere
  <2>3. Spare(m, y)' = Spare(m, y)
    BY <1>1, <1>2, <1>3, <1>5 DEF Spare
  <2> QED BY <1>3, <2>2, <2>3, SteadyExplained
<1> QED BY <1>1, <1>4, <1>5

\* A MicroVM that was started is one more for both, or is destroyed.
LEMMA WarmStartedExplained ==
  ASSUME AInv, AInv', NEW n \in Node, WarmStarted(n), NEW m \in Node, NEW y \in Pool
  PROVE  Explained(m, y)
<1> DEFINE p == loop[n].pool
<1>0. p = loop[n].pool
  OBVIOUS
<1> HIDE DEF p
<1>1. /\ p \in Pool /\ UNCHANGED <<out, kept, tasks>>
      /\ \A x \in Node : x # n => table'[x] = table[x]
      /\ \/ /\ AddWarmInstance(n, p)
            /\ \A x \in Pool : table'[n][x] = IF x = p THEN table[n][p] + 1 ELSE table[n][x]
         \/ UNCHANGED vars /\ table' = table
  BY <1>0, WarmStartedCounts
<1>3. tasks' = tasks /\ out' = out /\ kept' = kept /\ IInv
  BY <1>1 DEF AInv
<1>4. CASE /\ AddWarmInstance(n, p)
           /\ \A x \in Pool : table'[n][x] = IF x = p THEN table[n][p] + 1 ELSE table[n][x]
  <2>1. /\ Drift(cluster, cluster', New, n, p, 1)
        /\ \A x \in Node, z \in Pool : x # n \/ z # p => Drift(cluster, cluster', New, x, z, 0)
    BY <1>1, <1>3, <1>4, AddWarmDrift
  <2>2. CASE m = n /\ y = p
    <3> DEFINE k == 1
    <3>1. k \in Int /\ Drift(cluster, cluster', New, n, y, k)
      BY <2>1, <2>2
    <3>2. table'[n][y] = table[n][y] + k /\ kept'[n][y] = kept[n][y] /\ out'[n][y] = out[n][y]
      BY <1>1, <1>3, <1>4, <2>2
    <3>3. table[n][y] \in Nat /\ out[n][y] \in Nat /\ kept[n][y] \in Nat
      BY Numbers
    <3> HIDE DEF k
    <3>4. Spare(n, y)' = Spare(n, y) + k
      BY <3>1, <3>2, <3>3 DEF Spare
    <3>5. Waiting(n, y)' = Meant(cluster', New, n, y) /\ Unreported(n, y)' = Unreported(n, y)
      BY <1>3, SameTasks
    <3> QED BY <2>2, <3>1, <3>4, <3>5, Matched
  <2>3. CASE m # n \/ y # p
    <3>1. Spare(m, y)' = Spare(m, y)
      BY <1>1, <1>3, <1>4, <2>3 DEF Spare
    <3> QED BY <1>3, <2>1, <2>3, <3>1, SteadyExplained
  <2> QED BY <2>2, <2>3
<1>5. CASE UNCHANGED vars /\ table' = table
  <2>1. cluster' = cluster
    BY <1>5 DEF vars
  <2>2. Drift(cluster, cluster', New, m, y, 0)
    BY <2>1, SteadyHere
  <2>3. Spare(m, y)' = Spare(m, y)
    BY <1>3, <1>5, SameSpare
  <2> QED BY <1>3, <2>2, <2>3, SteadyExplained
<1> QED BY <1>1, <1>4, <1>5

\* An execution that is handed out still has its MicroVM to come.
LEMMA WorkExplained ==
  ASSUME AInv, AInv', NEW n \in Node, NEW e \in Exec, Work(n, e), NEW m \in Node, NEW y \in Pool
  PROVE  Explained(m, y)
<1> DEFINE p == cluster.execs[e].pool
<1>0. p = cluster.execs[e].pool
  OBVIOUS
<1> HIDE DEF p
<1>1. /\ p \in Pool /\ tasks[e] = None
      /\ tasks'[e] # None /\ tasks'[e].at = "new"
      /\ \A f \in Exec : f # e => tasks'[f] = tasks[f]
      /\ cluster.execs[e] # None /\ cluster.execs[e].status = "assigned"
      /\ cluster.execs[e].node = n
  BY <1>0, WorkParts
<1>2. UNCHANGED <<loop, table, out, kept>> /\ NextWork(n, e) /\ IInv
  BY DEF Work, AInv
<1>3. /\ cluster'.nodes = cluster.nodes
      /\ cluster'.execs[e] # None /\ cluster'.execs[e].status = "running"
      /\ cluster'.execs[e].pool = p /\ cluster'.execs[e].node = n
      /\ \A f \in Exec : f # e => cluster'.execs[f] = cluster.execs[f]
  BY <1>0, <1>2, NextWorkStays
<1>4. Waiting(m, y)' = Waiting(m, y)
  <2>1. ASSUME NEW f \in Exec PROVE f \in Waiting(m, y)' <=> f \in Waiting(m, y)
    <3>1. CASE f = e
      BY <1>0, <1>1, <1>3, <3>1 DEF Waiting, ActiveOn, Holds, Is
    <3>2. CASE f # e
      BY <1>1, <1>3, <3>2 DEF Waiting, ActiveOn, Holds, Is
    <3> QED BY <3>1, <3>2
  <2>2. Waiting(m, y)' \subseteq Exec /\ Waiting(m, y) \subseteq Exec
    BY DEF Waiting, ActiveOn
  <2> QED BY <2>1, <2>2
<1>5. Unreported(m, y)' = Unreported(m, y)
  <2>1. ASSUME NEW f \in Exec PROVE f \in Unreported(m, y)' <=> f \in Unreported(m, y)
    <3>1. CASE f = e
      BY <1>1, <3>1 DEF Unreported, Here, Is
    <3>2. CASE f # e
      BY <1>1, <3>2 DEF Unreported, Here, Is
    <3> QED BY <3>1, <3>2
  <2>2. Unreported(m, y)' \subseteq Exec /\ Unreported(m, y) \subseteq Exec
    BY DEF Unreported
  <2> QED BY <2>1, <2>2
<1>6. IdleAt(cluster', m, y) = IdleAt(cluster, m, y)
  BY <1>3 DEF IdleAt
<1>7. Spare(m, y)' = Spare(m, y)
  BY <1>2, SameSpare
<1>8. /\ Spare(m, y) \in Nat /\ IdleAt(cluster, m, y) \in Nat
      /\ Cardinality(Waiting(m, y)) \in Nat /\ Cardinality(Unreported(m, y)) \in Nat
  BY Numbers
<1>9. ~ StrayAppears(m, y)
  <2>1. /\ Cardinality(Waiting(m, y)') = Cardinality(Waiting(m, y))
        /\ Cardinality(Unreported(m, y)') = Cardinality(Unreported(m, y))
    BY <1>4, <1>5
  <2>2. /\ IdleAt(cluster, m, y) + Cardinality(Waiting(m, y)) + 0
             <= IdleAt(cluster', m, y) + Cardinality(Waiting(m, y)')
        /\ Spare(m, y)' + Cardinality(Unreported(m, y))
             <= Spare(m, y) + 0 + Cardinality(Unreported(m, y)')
    BY <1>6, <1>7, <1>8, <2>1
  <2> QED BY <2>2, NoStray
<1>10. ~ PhantomAppears(m, y)
  <2>1. /\ IdleAt(cluster', m, y) <= IdleAt(cluster, m, y) + 0
        /\ Spare(m, y) + 0 <= Spare(m, y)'
    BY <1>6, <1>7, <1>8
  <2> QED BY <2>1, NoPhantom
<1> QED BY <1>9, <1>10 DEF Explained

-----------------------------------------------------------------------------
(* The steps of a task. *)

\* A task goes on: what waits for a MicroVM and what is unreported change by its execution
\* at the most.
LEMMA TaskCounts ==
  ASSUME AInv, cluster' = cluster, NEW e \in Exec, tasks[e] # None,
         NEW n, n = tasks[e].node, NEW p, p = tasks[e].pool,
         NEW a \in {"start", "busy", "kept", "gone"}, Becomes(e, a)
  PROVE  /\ \A m \in Node, y \in Pool : m # n \/ y # p =>
              Waiting(m, y)' = Waiting(m, y) /\ Unreported(m, y)' = Unreported(m, y)
         /\ Waiting(n, p)' = Waiting(n, p) \ {e}
         /\ e \in Waiting(n, p) <=> Is(e, "new")
         /\ Unreported(n, p)' = IF a = "kept" THEN Unreported(n, p) \cup {e}
                                ELSE Unreported(n, p) \ {e}
         /\ e \in Unreported(n, p) <=> Is(e, "kept")
         /\ Here(e, n, p) /\ tasks'[e] # None /\ tasks'[e].at = a
<1>1. /\ tasks'[e] # None /\ tasks'[e].at = a
      /\ tasks'[e].node = n /\ tasks'[e].pool = p
      /\ \A f \in Exec : f # e => tasks'[f] = tasks[f]
  BY TaskBecomes, Parts
<1>2. /\ cluster.execs[e] # None /\ cluster.execs[e].status = "running"
      /\ cluster.execs[e].node = n /\ cluster.execs[e].pool = p
  BY TaskOf
<1>3. ASSUME NEW m, NEW y, NEW f \in Exec
      PROVE  /\ f # e => (f \in Waiting(m, y)' <=> f \in Waiting(m, y))
             /\ f # e => (f \in Unreported(m, y)' <=> f \in Unreported(m, y))
  BY <1>1 DEF Waiting, Unreported, Here, Is, ActiveOn
<1>4. ASSUME NEW m, NEW y
      PROVE  /\ e \in Waiting(m, y) <=> m = n /\ y = p /\ Is(e, "new")
             /\ e \notin Waiting(m, y)'
             /\ e \in Unreported(m, y) <=> m = n /\ y = p /\ Is(e, "kept")
             /\ e \in Unreported(m, y)' <=> m = n /\ y = p /\ a = "kept"
  BY <1>1, <1>2 DEF Waiting, Unreported, Here, Is, ActiveOn, Holds
<1>5. ASSUME NEW m, NEW y
      PROVE  /\ Waiting(m, y) \subseteq Exec /\ Waiting(m, y)' \subseteq Exec
             /\ Unreported(m, y) \subseteq Exec /\ Unreported(m, y)' \subseteq Exec
  BY DEF Waiting, Unreported, ActiveOn
<1>6. ASSUME NEW m \in Node, NEW y \in Pool, m # n \/ y # p
      PROVE  Waiting(m, y)' = Waiting(m, y) /\ Unreported(m, y)' = Unreported(m, y)
  BY <1>3, <1>4, <1>5, <1>6
<1>7. Waiting(n, p)' = Waiting(n, p) \ {e}
  BY <1>3, <1>4, <1>5
<1>8. Unreported(n, p)' = IF a = "kept" THEN Unreported(n, p) \cup {e}
                          ELSE Unreported(n, p) \ {e}
  <2> DEFINE U == Unreported(n, p)
             V == Unreported(n, p)'
  <2>1. /\ U \subseteq Exec /\ V \subseteq Exec
        /\ \A f \in Exec : f # e => (f \in V <=> f \in U)
        /\ e \in V <=> a = "kept"
    BY <1>3, <1>4, <1>5
  <2> HIDE DEF U, V
  <2>2. V = IF a = "kept" THEN U \cup {e} ELSE U \ {e}
    BY ONLY e \in Exec, <2>1
  <2> QED BY <2>2 DEF U, V
<1>9. (e \in Waiting(n, p) <=> Is(e, "new")) /\ (e \in Unreported(n, p) <=> Is(e, "kept"))
  BY <1>4
<1>10. Here(e, n, p)
  BY DEF Here
<1> QED BY <1>1, <1>6, <1>7, <1>8, <1>9, <1>10

\* Where nothing that is compared changes.
LEMMA SameExplained ==
  ASSUME AInv, AInv', cluster' = cluster, NEW m \in Node, NEW y \in Pool,
         Waiting(m, y)' = Waiting(m, y), Unreported(m, y)' = Unreported(m, y),
         Spare(m, y)' = Spare(m, y)
  PROVE  Explained(m, y)
<1>1. Spare(m, y)' = Spare(m, y) + 0
  BY Numbers
<1>2. Waiting(m, y)' = Meant(cluster', New, m, y)
  BY WaitingIsMeant
<1> QED BY <1>1, <1>2, SteadyHere, Matched

\* A MicroVM boots or does not, or is destroyed after use: none was idle.
LEMMA QuietTaskExplained ==
  ASSUME AInv, AInv', NEW e \in Exec, Boot(e) \/ BootFails(e) \/ Destroy(e),
         NEW m \in Node, NEW y \in Pool
  PROVE  Explained(m, y)
<1>1. PICK n \in Node, p \in Pool : n = tasks[e].node /\ p = tasks[e].pool /\ tasks[e] # None
  BY TaskOf DEF Boot, BootFails, Destroy, Is
<1>2. /\ cluster' = cluster /\ table' = table /\ out' = out /\ kept' = kept
      /\ ~ Is(e, "new") /\ ~ Is(e, "kept")
  BY DEF Boot, BootFails, Destroy, Is, vars
<1>3. PICK a \in {"busy", "gone"} : Becomes(e, a)
  BY DEF Boot, BootFails, Destroy
<1>4. /\ \A x \in Node, z \in Pool : x # n \/ z # p =>
           Waiting(x, z)' = Waiting(x, z) /\ Unreported(x, z)' = Unreported(x, z)
      /\ Waiting(n, p)' = Waiting(n, p) \ {e} /\ e \notin Waiting(n, p)
      /\ Unreported(n, p)' = Unreported(n, p) \ {e} /\ e \notin Unreported(n, p)
  BY <1>1, <1>2, <1>3, TaskCounts
<1>5. Waiting(n, p)' = Waiting(n, p) /\ Unreported(n, p)' = Unreported(n, p)
  BY <1>4
<1>6. Waiting(m, y)' = Waiting(m, y) /\ Unreported(m, y)' = Unreported(m, y)
  BY <1>4, <1>5
<1> QED BY <1>2, <1>6, SameSpare, SameExplained

\* The MicroVM that was to be taken by the execution remains.
LEMMA DirFailsExplained ==
  ASSUME AInv, AInv', NEW e \in Exec, DirFails(e), NEW m \in Node, NEW y \in Pool
  PROVE  Explained(m, y)
<1>1. PICK n \in Node, p \in Pool : n = tasks[e].node /\ p = tasks[e].pool /\ tasks[e] # None
  BY TaskOf DEF DirFails, Is
<1>2. /\ cluster' = cluster /\ table' = table /\ out' = out /\ kept' = kept
      /\ Is(e, "new") /\ Becomes(e, "gone")
  BY DEF DirFails, vars
<1>3. /\ \A x \in Node, z \in Pool : x # n \/ z # p =>
           Waiting(x, z)' = Waiting(x, z) /\ Unreported(x, z)' = Unreported(x, z)
      /\ Here(e, n, p) /\ tasks'[e] # None /\ tasks'[e].at = "gone"
  BY <1>1, <1>2, TaskCounts
<1>4. Spare(m, y)' = Spare(m, y)
  BY <1>2, SameSpare
<1>5. CASE m # n \/ y # p
  BY <1>2, <1>3, <1>4, <1>5, SameExplained
<1>6. CASE m = n /\ y = p
  <2>1. StrayExcuse(n, p)
    BY <1>2, <1>3 DEF StrayExcuse, Turns
  <2>2. ~ PhantomAppears(m, y)
    <3>1. /\ IdleAt(cluster', m, y) <= IdleAt(cluster, m, y) + 0
          /\ Spare(m, y) + 0 <= Spare(m, y)'
      BY <1>2, <1>4, Numbers
    <3> QED BY <3>1, NoPhantom
  <2> QED BY <1>6, <2>1, <2>2 DEF Explained
<1> QED BY <1>5, <1>6

\* The execution takes a MicroVM that was idle, whatever the controller made room for, or
\* finds none.
LEMMA AcquireExplained ==
  ASSUME AInv, AInv', NEW e \in Exec, Acquire(e), NEW m \in Node, NEW y \in Pool
  PROVE  Explained(m, y)
<1>1. PICK n \in Node, p \in Pool : n = tasks[e].node /\ p = tasks[e].pool /\ tasks[e] # None
  BY TaskOf DEF Acquire, Is
<1>2. /\ cluster' = cluster /\ out' = out /\ kept' = kept /\ Is(e, "new") /\ ~ Is(e, "kept")
      /\ table[n][p] \in Nat
      /\ \/ /\ table[n][p] > 0 /\ Becomes(e, "busy")
            /\ table' = OneBut(table, n, p, table[n][p] - 1)
         \/ table[n][p] = 0 /\ Becomes(e, "start") /\ table' = table
  BY <1>1, TableCounts DEF Acquire, Is, vars
<1>3. PICK a \in {"busy", "start"} : Becomes(e, a)
  BY <1>2
<1>10. a \in {"start", "busy", "kept", "gone"} /\ a # "kept"
  OBVIOUS
<1>4. /\ \A x \in Node, z \in Pool : x # n \/ z # p =>
           Waiting(x, z)' = Waiting(x, z) /\ Unreported(x, z)' = Unreported(x, z)
      /\ Waiting(n, p)' = Waiting(n, p) \ {e} /\ e \in Waiting(n, p)
      /\ Unreported(n, p)' = Unreported(n, p) \ {e} /\ e \notin Unreported(n, p)
      /\ Here(e, n, p) /\ tasks'[e] # None
  <2>1. /\ \A x \in Node, z \in Pool : x # n \/ z # p =>
             Waiting(x, z)' = Waiting(x, z) /\ Unreported(x, z)' = Unreported(x, z)
        /\ Waiting(n, p)' = Waiting(n, p) \ {e}
        /\ e \in Waiting(n, p) <=> Is(e, "new")
        /\ Unreported(n, p)' = IF a = "kept" THEN Unreported(n, p) \cup {e}
                               ELSE Unreported(n, p) \ {e}
        /\ e \in Unreported(n, p) <=> Is(e, "kept")
        /\ Here(e, n, p) /\ tasks'[e] # None
    BY <1>1, <1>2, <1>3, <1>10, TaskCounts
  <2> QED BY <1>2, <1>10, <2>1
<1>5. /\ out[n][p] \in Nat /\ kept[n][p] \in Nat
      /\ Spare(n, p) \in Nat /\ IdleAt(cluster, n, p) \in Nat
      /\ IsFiniteSet(Waiting(n, p)) /\ Cardinality(Waiting(n, p)) \in Nat
      /\ Cardinality(Unreported(n, p)) \in Nat
  BY Numbers
<1>6. /\ Cardinality(Waiting(n, p)') = Cardinality(Waiting(n, p)) - 1
      /\ Unreported(n, p)' = Unreported(n, p)
  <2>1. Cardinality(Waiting(n, p) \ {e}) = Cardinality(Waiting(n, p)) - 1
    BY <1>4, <1>5, FS_RemoveElement
  <2> QED BY <1>4, <2>1
<1>7. CASE /\ table[n][p] > 0 /\ Becomes(e, "busy")
           /\ table' = OneBut(table, n, p, table[n][p] - 1)
  <2> DEFINE k == table[n][p] - 1
  <2>1. k \in Nat /\ table' = OneBut(table, n, p, k)
    BY <1>2, <1>7
  <2> HIDE DEF k
  <2>2. \A x \in Node, z \in Pool : table'[x][z] = IF x = n /\ z = p THEN k ELSE table[x][z]
    BY <2>1, TableSet
  <2>3. CASE m # n \/ y # p
    <3>1. Spare(m, y)' = Spare(m, y)
      BY <1>2, <2>2, <2>3 DEF Spare
    <3> QED BY <1>2, <1>4, <2>3, <3>1, SameExplained
  <2>4. CASE m = n /\ y = p
    <3>1. Spare(n, p)' = Spare(n, p) - 1
      BY <1>2, <1>5, <2>2 DEF Spare, k
    <3>2. ~ StrayAppears(n, p)
      <4> DEFINE j == -1
      <4>1. Cardinality(Unreported(n, p)') = Cardinality(Unreported(n, p))
        BY <1>6
      <4>2. /\ j \in Int
            /\ IdleAt(cluster, n, p) + Cardinality(Waiting(n, p)) + j
                 <= IdleAt(cluster', n, p) + Cardinality(Waiting(n, p)')
            /\ Spare(n, p)' + Cardinality(Unreported(n, p))
                 <= Spare(n, p) + j + Cardinality(Unreported(n, p)')
        BY <1>2, <1>5, <1>6, <3>1, <4>1
      <4> HIDE DEF j
      <4> QED BY <4>2, NoStray
    <3>3. tasks'[e].at = "busy"
      BY <1>1, <1>2, <1>7, TaskCounts
    <3>4. PhantomExcuse(n, p)
      BY <1>2, <1>4, <3>3 DEF PhantomExcuse, Turns
    <3> QED BY <2>4, <3>2, <3>4 DEF Explained
  <2> QED BY <2>3, <2>4
<1>8. CASE table[n][p] = 0 /\ Becomes(e, "start") /\ table' = table
  <2>1. Spare(m, y)' = Spare(m, y)
    BY <1>2, <1>8, SameSpare
  <2>2. CASE m # n \/ y # p
    BY <1>2, <1>4, <2>1, <2>2, SameExplained
  <2>3. CASE m = n /\ y = p
    <3>1. ~ PhantomAppears(m, y)
      <4>1. /\ IdleAt(cluster', m, y) <= IdleAt(cluster, m, y) + 0
            /\ Spare(m, y) + 0 <= Spare(m, y)'
        BY <1>2, <2>1, Numbers
      <4> QED BY <4>1, NoPhantom
    <3>2. CASE out[n][p] + kept[n][p] > 0
      <4>1. tasks'[e].at = "start"
        BY <1>1, <1>2, <1>8, TaskCounts
      <4>2. StrayExcuse(n, p)
        BY <1>2, <1>4, <3>2, <4>1 DEF StrayExcuse, Turns
      <4> QED BY <2>3, <3>1, <4>2 DEF Explained
    <3>3. CASE ~ (out[n][p] + kept[n][p] > 0)
      <4>1. Spare(m, y)' = 0
        <5>1. table[n][p] = 0 /\ out[n][p] = 0 /\ kept[n][p] = 0
          BY <1>5, <1>8, <3>3
        <5>2. Spare(n, p) = 0
          BY <5>1 DEF Spare
        <5> QED BY <2>1, <2>3, <5>2
      <4>2. /\ Spare(m, y) \in Nat /\ IdleAt(cluster, m, y) \in Nat
            /\ Cardinality(Waiting(m, y)) \in Nat /\ Cardinality(Unreported(m, y)) \in Nat
            /\ IdleAt(cluster', m, y) \in Nat /\ Cardinality(Waiting(m, y)') \in Nat
            /\ Cardinality(Unreported(m, y)') \in Nat
        BY Numbers, NumbersNext
      <4>3. Strays(m, y)' = 0 /\ Strays(m, y) \in Nat
        BY <4>1, <4>2 DEF Strays, Monus
      <4> QED BY <3>1, <4>3 DEF Explained, StrayAppears
    <3> QED BY <3>2, <3>3
  <2> QED BY <2>2, <2>3
<1> QED BY <1>2, <1>7, <1>8

\* A MicroVM that was in use is idle, and its execution will say so.
LEMMA KeepExplained ==
  ASSUME AInv, AInv', NEW e \in Exec, Keep(e), NEW m \in Node, NEW y \in Pool
  PROVE  Explained(m, y)
<1>1. PICK n \in Node, p \in Pool : n = tasks[e].node /\ p = tasks[e].pool /\ tasks[e] # None
  BY TaskOf DEF Keep, Is
<1>2. /\ cluster' = cluster /\ out' = out /\ kept' = kept /\ ~ Is(e, "new") /\ ~ Is(e, "kept")
      /\ table[n][p] \in Nat /\ Becomes(e, "kept")
      /\ table' = OneBut(table, n, p, table[n][p] + 1)
  BY <1>1, TableCounts DEF Keep, Is, vars
<1>3. /\ \A x \in Node, z \in Pool : x # n \/ z # p =>
           Waiting(x, z)' = Waiting(x, z) /\ Unreported(x, z)' = Unreported(x, z)
      /\ Waiting(n, p)' = Waiting(n, p) \ {e} /\ e \notin Waiting(n, p)
      /\ Unreported(n, p)' = Unreported(n, p) \cup {e} /\ e \notin Unreported(n, p)
  BY <1>1, <1>2, TaskCounts
<1>4. /\ out[n][p] \in Nat /\ kept[n][p] \in Nat
      /\ Spare(n, p) \in Nat /\ IdleAt(cluster, n, p) \in Nat
      /\ Cardinality(Waiting(n, p)) \in Nat
      /\ IsFiniteSet(Unreported(n, p)) /\ Cardinality(Unreported(n, p)) \in Nat
  BY Numbers
<1>5. /\ Waiting(n, p)' = Waiting(n, p)
      /\ Cardinality(Unreported(n, p)') = Cardinality(Unreported(n, p)) + 1
  <2>1. Cardinality(Unreported(n, p) \cup {e}) = Cardinality(Unreported(n, p)) + 1
    BY <1>3, <1>4, FS_AddElement
  <2> QED BY <1>3, <2>1
<1> DEFINE k == table[n][p] + 1
<1>6. k \in Nat /\ table' = OneBut(table, n, p, k)
  BY <1>2
<1> HIDE DEF k
<1>7. \A x \in Node, z \in Pool : table'[x][z] = IF x = n /\ z = p THEN k ELSE table[x][z]
  BY <1>6, TableSet
<1>8. CASE m # n \/ y # p
  <2>1. Spare(m, y)' = Spare(m, y)
    BY <1>2, <1>7, <1>8 DEF Spare
  <2> QED BY <1>2, <1>3, <1>8, <2>1, SameExplained
<1>9. CASE m = n /\ y = p
  <2>1. Spare(n, p)' = Spare(n, p) + 1
    BY <1>2, <1>4, <1>7 DEF Spare, k
  <2>2. Cardinality(Waiting(n, p)') = Cardinality(Waiting(n, p))
    BY <1>5
  <2>3. /\ IdleAt(cluster, n, p) + Cardinality(Waiting(n, p)) + 0
             <= IdleAt(cluster', n, p) + Cardinality(Waiting(n, p)')
        /\ Spare(n, p)' + Cardinality(Unreported(n, p))
             <= Spare(n, p) + 0 + Cardinality(Unreported(n, p)')
    BY <1>2, <1>4, <1>5, <2>1, <2>2
  <2>4. /\ IdleAt(cluster', n, p) <= IdleAt(cluster, n, p) + 0
        /\ Spare(n, p) + 0 <= Spare(n, p)'
    BY <1>2, <1>4, <2>1
  <2> QED BY <1>9, <2>3, <2>4, NoStray, NoPhantom DEF Explained
<1> QED BY <1>8, <1>9

Over(e) == tasks' = [tasks EXCEPT ![e] = None]

\* A task that is over is not in the count of its execution any longer.
LEMMA EndCounts ==
  ASSUME AInv, NEW e \in Exec, tasks[e] # None, ~ Is(e, "new"),
         NEW n, n = tasks[e].node, NEW p, p = tasks[e].pool,
         Over(e), NEW m \in Node, NEW y \in Pool
  PROVE  /\ Waiting(m, y)' = Meant(cluster', New, m, y)
         /\ Unreported(m, y)' = Unreported(m, y) \ {e}
         /\ e \in Unreported(m, y) <=> m = n /\ y = p /\ Is(e, "kept")
         /\ Here(e, n, p) /\ Ends(e) /\ e \notin New
<1>1. tasks'[e] = None /\ \A f \in Exec : f # e => tasks'[f] = tasks[f]
  BY TaskEnds DEF AInv, Over
<1>2. ASSUME NEW f \in Exec
      PROVE  tasks'[f] # None /\ tasks'[f].at = "new" <=> f \in New
  <2>1. CASE f = e
    BY <1>1, <2>1 DEF New
  <2>2. CASE f # e
    BY <1>1, <2>2 DEF New, Is
  <2> QED BY <2>1, <2>2
<1>3. Waiting(m, y)' = Meant(cluster', New, m, y)
  BY <1>2 DEF Waiting, Meant, InUse, ActiveOn, Is
<1>4. e \in Unreported(m, y) <=> m = n /\ y = p /\ Is(e, "kept")
  BY DEF Unreported, Here
<1>5. Unreported(m, y)' = Unreported(m, y) \ {e}
  <2>1. ASSUME NEW f \in Exec
        PROVE  f \in Unreported(m, y)' <=> f \in Unreported(m, y) /\ f # e
    <3>1. CASE f = e
      BY <1>1, <3>1 DEF Unreported, Is
    <3>2. CASE f # e
      BY <1>1, <3>2 DEF Unreported, Here, Is
    <3> QED BY <3>1, <3>2
  <2>2. Unreported(m, y) \subseteq Exec /\ Unreported(m, y)' \subseteq Exec
    BY DEF Unreported
  <2> QED BY <2>1, <2>2
<1>6. Here(e, n, p) /\ Ends(e) /\ e \notin New
  BY <1>1 DEF Here, Ends, New
<1> QED BY <1>3, <1>4, <1>5, <1>6

\* What the report says is what became of the MicroVM; only that it may have been taken
\* by another execution since.
LEMMA ReportExplained ==
  ASSUME AInv, AInv', NEW e \in Exec, Report(e), NEW m \in Node, NEW y \in Pool
  PROVE  Explained(m, y)
<1>1. PICK n \in Node, p \in Pool : n = tasks[e].node /\ p = tasks[e].pool /\ tasks[e] # None
  BY TaskOf DEF Report, Is
<1>2. /\ table' = table /\ out' = out /\ kept' = kept /\ IInv
      /\ ~ Is(e, "new") /\ tasks' = [tasks EXCEPT ![e] = None]
      /\ CompleteExecution(n, e, Is(e, "kept")) /\ p = cluster.execs[e].pool
  BY <1>1, TaskOf DEF Report, Is, AInv
<1>3. /\ Waiting(m, y)' = Meant(cluster', New, m, y)
      /\ Unreported(m, y)' = Unreported(m, y) \ {e}
      /\ e \in Unreported(m, y) <=> m = n /\ y = p /\ Is(e, "kept")
      /\ Here(e, n, p) /\ Ends(e) /\ e \notin New
  <2>1. Over(e) /\ ~ Is(e, "new")
    BY <1>2 DEF Over
  <2> QED BY <1>1, <2>1, EndCounts
<1>4. Spare(m, y)' = Spare(m, y)
  BY <1>2, SameSpare
<1>5. Is(e, "kept") \in BOOLEAN
  BY DEF Is
<1>6. \A k : k = (IF Is(e, "kept") THEN 1 ELSE 0) =>
        /\ Drift(cluster, cluster', New, n, p, k)
        /\ \A x \in Node, z \in Pool : x # n \/ z # p => Drift(cluster, cluster', New, x, z, 0)
  BY <1>2, <1>3, <1>5, CompleteDrift
<1>7. CASE m # n \/ y # p \/ ~ Is(e, "kept")
  <2>1. Drift(cluster, cluster', New, m, y, 0)
    BY <1>6, <1>7
  <2>2. Unreported(m, y)' = Unreported(m, y) /\ Spare(m, y)' = Spare(m, y) + 0
    BY <1>3, <1>4, <1>7, Numbers
  <2> QED BY <1>3, <2>1, <2>2, Matched
<1>8. CASE m = n /\ y = p /\ Is(e, "kept")
  <2>1. Drift(cluster, cluster', New, m, y, 1)
    BY <1>6, <1>8
  <2>2. PhantomExcuse(m, y)
    BY <1>3, <1>8 DEF PhantomExcuse
  <2>3. CASE GoesAway(cluster, cluster', m, y)
    BY <2>2, <2>3 DEF Explained
  <2>4. CASE ~ GoesAway(cluster, cluster', m, y)
    <3>1. Cardinality(Unreported(m, y)') = Cardinality(Unreported(m, y)) - 1
      <4>1. e \in Unreported(m, y) /\ IsFiniteSet(Unreported(m, y))
        BY <1>3, <1>8, Numbers
      <4>2. Cardinality(Unreported(m, y) \ {e}) = Cardinality(Unreported(m, y)) - 1
        BY <4>1, FS_RemoveElement
      <4> QED BY <1>3, <4>2
    <3>2. Room(cluster, New, m, y) + 1 <= Room(cluster', New, m, y)
      BY <2>1, <2>4 DEF Drift
    <3>3. /\ Room(cluster, New, m, y)
                = IdleAt(cluster, m, y) + Cardinality(Waiting(m, y))
          /\ Room(cluster', New, m, y)
                = IdleAt(cluster', m, y) + Cardinality(Waiting(m, y)')
      BY <1>3, WaitingIsMeant DEF Room
    <3>4. /\ IdleAt(cluster, m, y) + Cardinality(Waiting(m, y)) + 1
               <= IdleAt(cluster', m, y) + Cardinality(Waiting(m, y)')
          /\ Spare(m, y)' + Cardinality(Unreported(m, y))
               <= Spare(m, y) + 1 + Cardinality(Unreported(m, y)')
      BY <1>4, <3>1, <3>2, <3>3, Numbers
    <3>5. ~ StrayAppears(m, y)
      BY <3>4, NoStray
    <3> QED BY <2>2, <3>5 DEF Explained
  <2> QED BY <2>3, <2>4
<1> QED BY <1>7, <1>8

\* The controller never learns that a MicroVM was kept.
LEMMA ReportFailsExplained ==
  ASSUME AInv, AInv', NEW e \in Exec, ReportFails(e), NEW m \in Node, NEW y \in Pool
  PROVE  Explained(m, y)
<1>1. PICK n \in Node, p \in Pool : n = tasks[e].node /\ p = tasks[e].pool /\ tasks[e] # None
  BY TaskOf DEF ReportFails, Is
<1>2. /\ table' = table /\ out' = out /\ kept' = kept /\ cluster' = cluster
      /\ ~ Is(e, "new") /\ tasks' = [tasks EXCEPT ![e] = None]
  BY <1>1 DEF ReportFails, Is
<1>3. /\ Waiting(m, y)' = Meant(cluster', New, m, y)
      /\ Unreported(m, y)' = Unreported(m, y) \ {e}
      /\ e \in Unreported(m, y) <=> m = n /\ y = p /\ Is(e, "kept")
      /\ Here(e, n, p) /\ Ends(e)
  <2>1. Over(e) /\ ~ Is(e, "new")
    BY <1>2 DEF Over
  <2> QED BY <1>1, <2>1, EndCounts
<1>4. Spare(m, y)' = Spare(m, y)
  BY <1>2, SameSpare
<1>5. CASE m # n \/ y # p \/ ~ Is(e, "kept")
  <2>1. Unreported(m, y)' = Unreported(m, y) /\ Spare(m, y)' = Spare(m, y) + 0
    BY <1>3, <1>4, <1>5, Numbers
  <2> QED BY <1>2, <1>3, <2>1, SteadyHere, Matched
<1>6. CASE m = n /\ y = p /\ Is(e, "kept")
  BY <1>2, <1>3, <1>6 DEF Explained, StrayExcuse, PhantomExcuse
<1> QED BY <1>5, <1>6

-----------------------------------------------------------------------------

\* One step of the system, whichever it is.
LEMMA NextExplained ==
  ASSUME AInv, AInv', [AgentNext]_allVars, NEW m \in Node, NEW y \in Pool
  PROVE  Explained(m, y)
<1>1. ASSUME NEW n \in Node, Start(n) \/ Stop(n) PROVE Explained(m, y)
  BY <1>1, StartExplained, StopExplained
<1>2. ASSUME NEW n \in Node, Turn(n) PROVE Explained(m, y)
  <2>1. CASE \/ Fetch(n) \/ Maintained(n) \/ WarmFailed(n) \/ Beat(n) \/ Announce(n)
             \/ \E p \in Pool : NeedsWarm(n, p)
    BY <2>1, MoveExplained
  <2>2. CASE Prune(n)
    BY <2>2, PruneExplained
  <2>3. CASE TakeOut(n) \/ PutBack(n)
    BY <2>3, TableExplained
  <2>4. CASE WarmStarted(n)
    BY <2>4, WarmStartedExplained
  <2>5. CASE \E p \in Pool : Ask(n, p)
    BY <2>5, AskExplained
  <2>6. CASE \E e \in Exec : Work(n, e)
    BY <2>6, WorkExplained
  <2> QED BY <1>2, <2>1, <2>2, <2>3, <2>4, <2>5, <2>6 DEF Turn
<1>3. ASSUME NEW e \in Exec, TaskStep(e) PROVE Explained(m, y)
  BY <1>3, QuietTaskExplained, DirFailsExplained, AcquireExplained, KeepExplained,
     ReportExplained, ReportFailsExplained DEF TaskStep
<1>4. CASE (Administer \/ Submit) /\ UNCHANGED agentVars
  BY <1>4, OthersExplained
<1>5. CASE UNCHANGED allVars
  <2>1. cluster' = cluster /\ tasks' = tasks /\ table' = table /\ out' = out /\ kept' = kept
    BY <1>5 DEF allVars, vars, agentVars
  <2>2. Drift(cluster, cluster', New, m, y, 0)
    BY <2>1, SteadyHere
  <2>3. Spare(m, y)' = Spare(m, y)
    BY <2>1, SameSpare
  <2> QED BY <2>1, <2>2, <2>3, SteadyExplained
<1> QED BY <1>1, <1>2, <1>3, <1>4, <1>5 DEF AgentNext

\* The agent's MicroVMs and the controller's count of them part company only where the
\* code gives no way to keep them together: whatever the agents, their tasks, the
\* controller's handlers and its other clients do, and wherever an agent ends.
THEOREM DriftIsExplained == AgentSpec => DriftExplained
<1> DEFINE Expl ==
      \A n \in Node, p \in Pool :
        /\ StrayAppears(n, p) =>
          \/ cluster.nodes[n] # None /\ cluster'.nodes[n] = None
          \/ cluster'.pools[p] = None \/ cluster'.pools[p].cfg.warm = 0
          \/ \E e \in Exec :
               /\ Here(e, n, p)
               /\ \/ Turns(e, "new", "gone")
                  \/ Turns(e, "new", "start") /\ out[n][p] + kept[n][p] > 0
                  \/ Is(e, "kept") /\ Ends(e) /\ UNCHANGED cluster
        /\ PhantomAppears(n, p) =>
          \/ At(n, "prune") /\ p \notin loop[n].known
          \/ \E e \in Exec :
               /\ Here(e, n, p)
               /\ \/ Turns(e, "new", "busy")
                  \/ Is(e, "kept") /\ Ends(e)
<1>1. AInv /\ [AgentNext]_allVars => Expl
  <2> SUFFICES ASSUME AInv, [AgentNext]_allVars, NEW n \in Node, NEW p \in Pool
               PROVE  Explained(n, p)
    BY DEF Explained, GoesAway, StrayExcuse, PhantomExcuse
  <2>1. AInv'
    BY NextAInv
  <2> QED BY <2>1, NextExplained
<1>2. (AgentSpec => [][Expl]_allVars) => (AgentSpec => DriftExplained)
  BY DEF DriftExplained
<1> HIDE DEF Expl
<1>3. AgentSpec => [][Expl]_allVars
  BY <1>1, AgentInvariance, PTL DEF AgentSpec
<1> QED BY <1>2, <1>3
=============================================================================
