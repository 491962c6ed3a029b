----------------------------- MODULE Scheduler -----------------------------
(***************************************************************************)
(* The scheduler of platform/src/cluster.rs: pure operators on the value   *)
(* of the controller's `Cluster` struct.  Every handler of api.rs that     *)
(* changes the cluster is built from them, under the one write lock, so    *)
(* each is an operator from clusters to clusters and module Controller     *)
(* turns the handlers into actions.                                        *)
(*                                                                         *)
(* Data the properties do not tell apart is abstracted:                    *)
(*   - `cpu_millis` and `memory_mib` are treated alike by the code, so one *)
(*     dimension stands for both: a node's `cap`, `used`, a pool's `size`; *)
(*   - nodes are 1..NumNodes and executions 1..MaxExec, numbered in the    *)
(*     order the code sorts them in (node id; (created_at_ms, id));        *)
(*   - `round_robin` only matters modulo the number of candidates, so it   *)
(*     is kept modulo RRModulus, a common multiple of those numbers;       *)
(*   - `None` stands for every Option::None and every absent map entry.    *)
(***************************************************************************)
EXTENDS Integers, FiniteSets

CONSTANTS
  NumNodes,   \* the nodes are 1..NumNodes, in the order of their ids
  MaxExec,    \* bound: executions in memory at one time
  NumPools,   \* bound: pool names in use at one time
  Image,      \* bound: image ids
  Artifact,   \* bound: environment artifact keys
  Env,        \* bound: environment ids
  RRModulus,  \* a common multiple of 1..NumNodes
  None        \* an absent entry, or Option::None

ASSUME SchedulerAssumption ==
  /\ NumNodes \in Nat \ {0}
  /\ MaxExec \in Nat \ {0}
  /\ NumPools \in Nat \ {0}
  /\ Env \subseteq Nat
  /\ RRModulus \in Nat \ {0}
  /\ \A k \in 1..NumNodes : RRModulus % k = 0

Node == 1..NumNodes
Exec == 1..MaxExec
Pool == 1..NumPools

-----------------------------------------------------------------------------
(* The values a cluster is made of. *)

\* What an environment asks of its MicroVMs, or a user of a VM pool.
Config == [image : Image, artifact : Artifact \cup {None}, warm : Nat,
           max : Nat \cup {None}, size : Nat, reuse : BOOLEAN]

PoolRec == [env : Env \cup {None}, cfg : Config]

EnvRec == [pool : Pool, cfg : Config]

NodeRec == [cap : Nat, used : Nat, images : SUBSET Image,
            artifacts : SUBSET Artifact, idle : [Pool -> Nat], ready : BOOLEAN]

ExecRec == [status : {"queued", "assigned", "running"}, pool : Pool,
            node : Node \cup {None}, env : Env]

Cluster == [images : [Image -> {"absent", "vm", "runtime"}],
            pools  : [Pool -> PoolRec \cup {None}],
            envs   : [Env -> EnvRec \cup {None}],
            nodes  : [Node -> NodeRec \cup {None}],
            execs  : [Exec -> ExecRec \cup {None}],
            rr     : Nat]

\* None is no value of the program.
ASSUME NoneAssumption ==
  /\ None \notin Nat /\ None \notin Artifact
  /\ None \notin PoolRec /\ None \notin EnvRec
  /\ None \notin NodeRec /\ None \notin ExecRec

-----------------------------------------------------------------------------
(* Helpers on numbers. *)

Monus(a, b) == IF a > b THEN a - b ELSE 0

Least(a, b) == IF a < b THEN a ELSE b

\* The partial sums of a function on 1..n, and their last.
PartialSums(f, n) ==
  LET s[k \in 0..n] == IF k = 0 THEN 0 ELSE s[k-1] + f[k] IN s

Total(f, n) == PartialSums(f, n)[n]

\* The element of a set of numbers with exactly k elements below it: position
\* k (from 0) of the set when it is sorted.
Nth(S, k) == CHOOSE x \in S : Cardinality({y \in S : y < x}) = k

-----------------------------------------------------------------------------
(* What handlers count. *)

Holds(c, e, p) ==
  /\ c.execs[e] # None
  /\ c.execs[e].pool = p
  /\ c.execs[e].status \in {"assigned", "running"}

ActiveOn(c, p) == {e \in Exec : Holds(c, e, p)}

Active(c, p) == Cardinality(ActiveOn(c, p))

IdleAt(c, n, p) == IF c.nodes[n] = None THEN 0 ELSE c.nodes[n].idle[p]

Idle(c, p) == Total([n \in Node |-> IdleAt(c, n, p)], NumNodes)

Below(count, limit) == limit # None => count < limit

\* The node holds the pool's image and, if it has one, its artifact.
HasRuntime(node, cfg) ==
  /\ cfg.image \in node.images
  /\ cfg.artifact # None => cfg.artifact \in node.artifacts

ImageReady(c, i) == \A n \in Node : c.nodes[n] # None => i \in c.nodes[n].images

-----------------------------------------------------------------------------
(* Placing executions. *)

\* Mutant: idle MicroVMs are forgotten in the instance limit.
CanStart_ActiveOnly(c, p) == Below(Active(c, p), c.pools[p].cfg.max)

CanStart(c, p) == Below(Active(c, p) + Idle(c, p), c.pools[p].cfg.max)

\* Mutant: the limit is asked for even where an idle MicroVM waits.
Candidates_NoReuse(c, p) ==
  {n \in Node : /\ c.nodes[n] # None
                /\ c.nodes[n].ready
                /\ HasRuntime(c.nodes[n], c.pools[p].cfg)
                /\ CanStart(c, p) /\ c.nodes[n].cap >= c.pools[p].cfg.size}

\* The nodes an execution of pool p may be placed on.
Candidates(c, p) ==
  {n \in Node :
     /\ c.nodes[n] # None
     /\ c.nodes[n].ready
     /\ HasRuntime(c.nodes[n], c.pools[p].cfg)
     /\ \/ IdleAt(c, n, p) > 0
        \/ CanStart(c, p) /\ c.nodes[n].cap >= c.pools[p].cfg.size}

Schedulable(c, p) ==
  /\ c.pools[p] # None
  /\ Below(Active(c, p), c.pools[p].cfg.max)
  /\ Candidates(c, p) # {}

\* Nodes with an idle MicroVM come before nodes that would start one.
Preferred(c, p) ==
  LET idle == {n \in Candidates(c, p) : IdleAt(c, n, p) > 0}
  IN  IF idle = {} THEN Candidates(c, p) ELSE idle

\* Node n takes an idle MicroVM of pool p, or reserves room for a new one.
TakeInstance(node, p, size) ==
  IF node.idle[p] > 0 THEN [node EXCEPT !.idle[p] = @ - 1]
                      ELSE [node EXCEPT !.used = @ + size]

Place(c, e, n) ==
  LET p == c.execs[e].pool
  IN  [c EXCEPT !.rr = (@ + 1) % RRModulus,
                !.nodes[n] = TakeInstance(@, p, c.pools[p].cfg.size),
                !.execs[e].node = n,
                !.execs[e].status = "assigned"]

\* schedule: place execution e if its pool has room, else leave all as it is.
Schedule(c, e) ==
  IF c.execs[e] # None /\ Schedulable(c, c.execs[e].pool)
  THEN LET nodes == Preferred(c, c.execs[e].pool)
       IN  Place(c, e, Nth(nodes, c.rr % Cardinality(nodes)))
  ELSE c

IsQueued(c, e) == c.execs[e] # None /\ c.execs[e].status = "queued"

\* Mutant: the newest submission first.
Sweep_NewestFirst(c) ==
  LET s[k \in 0..MaxExec] ==
        IF k = 0 THEN c
        ELSE IF IsQueued(s[k-1], MaxExec + 1 - k)
             THEN Schedule(s[k-1], MaxExec + 1 - k) ELSE s[k-1]
  IN  s

\* The clusters the loop of schedule_queued goes through: Sweep(c)[k] is the
\* cluster once the queued executions among the k oldest have had their turn.
Sweep(c) ==
  LET s[k \in 0..MaxExec] ==
        IF k = 0 THEN c
        ELSE IF IsQueued(s[k-1], k) THEN Schedule(s[k-1], k) ELSE s[k-1]
  IN  s

ScheduleQueued(c) == Sweep(c)[MaxExec]

\* Mutant: a MicroVM kept idle gives its resources back as well.
Release_Twice(c, e, keepIdle) ==
  LET p == c.execs[e].pool
      n == c.execs[e].node
  IN  IF n = None \/ c.pools[p] = None THEN c
      ELSE IF c.nodes[n] = None THEN c
      ELSE [c EXCEPT !.nodes[n].idle[p] = IF keepIdle THEN @ + 1 ELSE @,
                     !.nodes[n].used = Monus(@, c.pools[p].cfg.size)]

\* release: give the MicroVM of execution e back, to its pool or for good.
Release(c, e, keepIdle) ==
  LET p == c.execs[e].pool
      n == c.execs[e].node
  IN  IF n = None \/ c.pools[p] = None THEN c
      ELSE IF c.nodes[n] = None THEN c
      ELSE IF keepIdle THEN [c EXCEPT !.nodes[n].idle[p] = @ + 1]
      ELSE [c EXCEPT !.nodes[n].used = Monus(@, c.pools[p].cfg.size)]

-----------------------------------------------------------------------------
(* Warm instances. *)

WarmNodes(c, p) ==
  {n \in Node : /\ c.nodes[n] # None
                /\ HasRuntime(c.nodes[n], c.pools[p].cfg)
                /\ c.nodes[n].cap >= c.pools[p].cfg.size}

WarmGoal(c, p) ==
  LET cfg == c.pools[p].cfg
  IN  IF cfg.max = None THEN cfg.warm
      ELSE IF cfg.reuse THEN Least(cfg.warm, cfg.max)
      ELSE Least(cfg.warm, Monus(cfg.max, Active(c, p)))

\* warm_targets: the goal split evenly, the remainder going to the first nodes.
WarmTarget(c, n, p) ==
  LET nodes == WarmNodes(c, p)
      count == Cardinality(nodes)
      index == Cardinality({m \in nodes : m < n})
  IN  IF n \notin nodes THEN 0
      ELSE WarmGoal(c, p) \div count
           + (IF index < WarmGoal(c, p) % count THEN 1 ELSE 0)

WarmTargets(c, p) == Total([n \in Node |-> WarmTarget(c, n, p)], NumNodes)

\* The pool's instances that count as warm: of the cluster and of one node.
WarmIn(c, p) == Idle(c, p) + (IF c.pools[p].cfg.reuse THEN Active(c, p) ELSE 0)

WarmOn(c, n, p) ==
  IdleAt(c, n, p)
  + (IF c.pools[p].cfg.reuse
     THEN Cardinality({e \in ActiveOn(c, p) : c.execs[e].node = n}) ELSE 0)

\* warm_instance_needed, and the condition add_warm_instance repeats.
WarmNeeded(c, n, p) ==
  /\ c.pools[p] # None
  /\ n \in WarmNodes(c, p)
  /\ WarmOn(c, n, p) < WarmTarget(c, n, p)
  /\ WarmIn(c, p) < WarmTargets(c, p)
  /\ CanStart(c, p)

AddWarm(c, n, p) ==
  [c EXCEPT !.nodes[n].used = @ + c.pools[p].cfg.size, !.nodes[n].idle[p] = @ + 1]

\* Mutants: a busy instance counts as removable; a node at its target is above it.
IdleSurplus_AnyInstance(c, n, p) ==
  /\ c.pools[p] # None
  /\ WarmOn(c, n, p) > WarmTarget(c, n, p)
  /\ WarmIn(c, p) >= WarmTargets(c, p)

IdleSurplus_AtTarget(c, n, p) ==
  /\ c.pools[p] # None
  /\ WarmOn(c, n, p) >= WarmTarget(c, n, p)
  /\ WarmIn(c, p) >= WarmTargets(c, p)
  /\ IdleAt(c, n, p) > 0

\* remove_idle_instance: its conditions, then what it does.
IdleSurplus(c, n, p) ==
  /\ c.pools[p] # None
  /\ WarmOn(c, n, p) > WarmTarget(c, n, p)
  /\ WarmIn(c, p) >= WarmTargets(c, p)
  /\ IdleAt(c, n, p) > 0

RemoveIdle(c, n, p) ==
  [c EXCEPT !.nodes[n].used = Monus(@, c.pools[p].cfg.size), !.nodes[n].idle[p] = @ - 1]

\* reset_idle_instances: a restarted node has none of its idle MicroVMs left.
ResetIdle(c, n) ==
  LET held == [p \in Pool |-> IF c.pools[p] = None THEN 0
                              ELSE c.pools[p].cfg.size * c.nodes[n].idle[p]]
  IN  [c EXCEPT !.nodes[n].used = Monus(@, Total(held, NumPools)),
                !.nodes[n].idle = [p \in Pool |-> 0]]

\* refresh_node: a node is ready once it holds every image of the cluster.
Refresh(c, n) ==
  [c EXCEPT !.nodes[n].ready =
      {i \in Image : c.images[i] # "absent"} \subseteq c.nodes[n].images]

-----------------------------------------------------------------------------

\* Removing a pool takes its idle MicroVMs off every node.
DropPool(c, p) ==
  IF c.pools[p] = None THEN c
  ELSE [c EXCEPT
          !.pools[p] = None,
          !.nodes = [n \in Node |->
             IF c.nodes[n] = None THEN None
             ELSE [c.nodes[n] EXCEPT
                     !.used = Monus(@, c.pools[p].cfg.size * c.nodes[n].idle[p]),
                     !.idle[p] = 0]]]
=============================================================================
