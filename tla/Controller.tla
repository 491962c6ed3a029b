----------------------------- MODULE Controller -----------------------------
(***************************************************************************)
(* The controller of platform/src/api.rs while it runs: one action per     *)
(* handler that changes the cluster.  A handler takes the write lock of    *)
(* the cluster and keeps it until it is done, so it is one step; creating  *)
(* and updating an environment check under a read lock, build a package    *)
(* artifact with no lock at all and only then take the write lock, so each *)
(* is several steps with a request record in between.                      *)
(*                                                                         *)
(* The nodes appear as the calls they make.  `runs` holds the work a node  *)
(* has been handed by next_work and has not reported on yet: a report is   *)
(* sent once, and an agent that restarts has lost its runs.                *)
(* The execution database is the subject of other modules.                 *)
(***************************************************************************)
EXTENDS Scheduler

CONSTANTS
  Req,         \* bound: create and update environment requests in flight
  UserPool,    \* the pool names users choose; the rest are `environment-<id>...`
  EnvConfig,   \* the configurations environments are created with or updated to
  PoolConfig,  \* the configurations of the VM pools users create
  Capacity     \* the capacity a node reports

VARIABLES
  cluster,   \* the Cluster behind the lock
  requests,  \* the create and update environment requests in flight
  files,     \* the artifact files in the controller's `environments` directory
  runs       \* <<n, e>>: node n was handed execution e and has not reported

vars == <<cluster, requests, files, runs>>

-----------------------------------------------------------------------------

\* A request to create an environment, or to update the one it read as `old`;
\* `built` once it is past prepare_environment_artifact.
CreateReq == [env : {None}, old : {None}, cfg : Config, built : BOOLEAN]
UpdateReq == [env : Env, old : EnvRec, cfg : Config, built : BOOLEAN]

ASSUME ControllerAssumption ==
  /\ UserPool \subseteq Pool
  /\ EnvConfig \subseteq Config
  /\ PoolConfig \subseteq Config
  /\ Capacity \in [Node -> Nat]
  \* what create_pool and create_environment accept
  /\ \A cfg \in EnvConfig \cup PoolConfig :
       cfg.max # None => cfg.max > 0 /\ cfg.warm <= cfg.max
  /\ None \notin CreateReq /\ None \notin UpdateReq

TypeOK ==
  /\ cluster \in Cluster
  /\ requests \in [Req -> CreateReq \cup UpdateReq \cup {None}]
  /\ files \subseteq Artifact
  /\ runs \subseteq Node \X Exec

Init ==
  /\ cluster = [images |-> [i \in Image |-> "absent"],
                pools  |-> [p \in Pool |-> None],
                envs   |-> [i \in Env |-> None],
                nodes  |-> [n \in Node |-> None],
                execs  |-> [e \in Exec |-> None],
                rr     |-> 0]
  /\ requests = [r \in Req |-> None]
  /\ files = {}
  /\ runs = {}

-----------------------------------------------------------------------------
(* Identifiers.  Uuid::new_v4 returns an id nothing refers to; ids are     *)
(* interchangeable, so a step takes the smallest.                          *)

\* Environment i goes by pool p somewhere: in the map of environments, in
\* the pool's own record, in an execution, or in an update's snapshot.
Claims(c, q, i, p) ==
  \/ c.envs[i] # None /\ c.envs[i].pool = p
  \/ c.pools[p] # None /\ c.pools[p].env = i
  \/ \E e \in Exec : c.execs[e] # None /\ c.execs[e].pool = p /\ c.execs[e].env = i
  \/ \E r \in Req : q[r] # None /\ q[r].env = i /\ q[r].old.pool = p

FreshEnvs == {i \in Env : /\ cluster.envs[i] = None
                          /\ \A p \in Pool : ~ Claims(cluster, requests, i, p)}

\* Mutant: a name is free as soon as no pool has it.
FreshPools_NotPresent == {p \in Pool \ UserPool : cluster.pools[p] = None}

FreshPools == {p \in Pool \ UserPool :
                 /\ cluster.pools[p] = None
                 /\ \A i \in Env : ~ Claims(cluster, requests, i, p)}

NewId(S) == CHOOSE x \in S : \A y \in S : x <= y

-----------------------------------------------------------------------------
(* Images. *)

\* import_image once the image is built: every node has to fetch it.
ImportImage(i, kind) ==
  /\ cluster.images[i] = "absent"
  /\ cluster' = [cluster EXCEPT
       !.images[i] = kind,
       !.nodes = [n \in Node |-> IF cluster.nodes[n] = None THEN None
                                 ELSE [cluster.nodes[n] EXCEPT !.ready = FALSE]]]
  /\ UNCHANGED <<requests, files, runs>>

\* update_image: the executor the image is said to have decides its kind.
UpdateImage(i, kind) ==
  /\ cluster.images[i] # "absent"
  /\ cluster' = [cluster EXCEPT !.images[i] = kind]
  /\ UNCHANGED <<requests, files, runs>>

ImageInUse(i) ==
  \/ \E p \in Pool : cluster.pools[p] # None /\ cluster.pools[p].cfg.image = i
  \/ \E v \in Env : cluster.envs[v] # None /\ cluster.envs[v].cfg.image = i

\* delete_image: the nodes forget it, their status is left as it is.
DeleteImage(i) ==
  /\ cluster.images[i] # "absent"
  /\ ~ ImageInUse(i)
  /\ cluster' = [cluster EXCEPT
       !.images[i] = "absent",
       !.nodes = [n \in Node |-> IF cluster.nodes[n] = None THEN None
                                 ELSE [cluster.nodes[n] EXCEPT !.images = @ \ {i}]]]
  /\ UNCHANGED <<requests, files, runs>>

-----------------------------------------------------------------------------
(* VM pools. *)

CreatePool(p, cfg) ==
  /\ cluster.images[cfg.image] = "vm"
  /\ ImageReady(cluster, cfg.image)
  /\ cluster.pools[p] = None
  /\ cluster' = [cluster EXCEPT !.pools[p] = [env |-> None, cfg |-> cfg]]
  /\ UNCHANGED <<requests, files, runs>>

\* delete_pool: refused while an execution is on the pool.
DeletePool(p) ==
  /\ cluster.pools[p] # None
  /\ \A e \in Exec : cluster.execs[e] # None => cluster.execs[e].pool # p
  /\ cluster' = DropPool(cluster, p)
  /\ UNCHANGED <<requests, files, runs>>

-----------------------------------------------------------------------------
(* Environments. *)

ImageFit(cfg) ==
  /\ cluster.images[cfg.image] = "runtime"
  /\ ImageReady(cluster, cfg.image)

\* create_environment up to the release of its read lock.
BeginCreate(r, cfg) ==
  /\ requests[r] = None
  /\ ImageFit(cfg)
  /\ requests' = [requests EXCEPT ![r] =
       [env |-> None, old |-> None, cfg |-> cfg, built |-> cfg.artifact = None]]
  /\ UNCHANGED <<cluster, files, runs>>

SamePackages(old, cfg) == old.image = cfg.image /\ old.artifact = cfg.artifact

\* update_environment up to the release of its read lock.
BeginUpdate(r, i, cfg) ==
  /\ requests[r] = None
  /\ cluster.envs[i] # None
  /\ ImageFit(cfg)
  /\ requests' = [requests EXCEPT ![r] =
       [env |-> i, old |-> cluster.envs[i], cfg |-> cfg,
        built |-> cfg.artifact = None \/ SamePackages(cluster.envs[i].cfg, cfg)]]
  /\ UNCHANGED <<cluster, files, runs>>

\* prepare_environment_artifact: the file is there, or is built.
PrepareArtifact(r) ==
  /\ requests[r] # None
  /\ ~ requests[r].built
  /\ files' = files \cup {requests[r].cfg.artifact}
  /\ requests' = [requests EXCEPT ![r].built = TRUE]
  /\ UNCHANGED <<cluster, runs>>

\* The build fails, or the caller goes away while it runs.
AbandonRequest(r) ==
  /\ requests[r] # None
  /\ requests' = [requests EXCEPT ![r] = None]
  /\ UNCHANGED <<cluster, files, runs>>

\* create_environment under its write lock.
CommitCreate(r) ==
  /\ requests[r] # None
  /\ requests[r].env = None
  /\ requests[r].built
  /\ FreshEnvs # {} /\ FreshPools # {}
  /\ LET i == NewId(FreshEnvs)
         p == NewId(FreshPools)
         cfg == requests[r].cfg
     IN  cluster' = [cluster EXCEPT !.pools[p] = [env |-> i, cfg |-> cfg],
                                    !.envs[i] = [pool |-> p, cfg |-> cfg]]
  /\ requests' = [requests EXCEPT ![r] = None]
  /\ UNCHANGED <<files, runs>>

\* Mutant: executions at work are moved as well.
Movable_All(c, p) == {e \in Exec : c.execs[e] # None /\ c.execs[e].pool = p}

\* The executions restart_environment_pool moves: those not yet at a node.
Movable(c, p) == {e \in Exec : /\ c.execs[e] # None
                               /\ c.execs[e].pool = p
                               /\ c.execs[e].status \in {"queued", "assigned"}}

\* They are queued again, on the new pool; the room of the assigned ones is
\* given back.
Requeue(c, old, new) ==
  LET moved == Movable(c, old)
      freed(n) == Cardinality({e \in moved : c.execs[e].status = "assigned"
                                             /\ c.execs[e].node = n})
      size == IF c.pools[old] = None THEN 0 ELSE c.pools[old].cfg.size
  IN  [c EXCEPT
         !.execs = [e \in Exec |->
            IF e \in moved
            THEN [c.execs[e] EXCEPT !.pool = new, !.node = None, !.status = "queued"]
            ELSE c.execs[e]],
         !.nodes = [n \in Node |->
            IF c.nodes[n] = None THEN None
            ELSE [c.nodes[n] EXCEPT !.used = Monus(@, size * freed(n))]]]

\* Mutant: the old pool never stays.
RetirePool_Always(c, p) == DropPool(c, p)

\* The old pool stays, with no warm instances, while something runs on it.
RetirePool(c, p) ==
  IF \E e \in Exec : /\ c.execs[e] # None
                     /\ c.execs[e].pool = p
                     /\ c.execs[e].status = "running"
  THEN [c EXCEPT !.pools[p].cfg.warm = 0]
  ELSE DropPool(c, p)

\* restart_environment_pool, and the insertion of the environment after it.
RestartPool(c, i, old, new, cfg) ==
  [RetirePool(Requeue(c, old, new), old) EXCEPT
     !.pools[new] = [env |-> i, cfg |-> cfg],
     !.envs[i] = [pool |-> new, cfg |-> cfg]]

Rebuilds(old, cfg) == ~ SamePackages(old, cfg) \/ old.size # cfg.size

\* update_environment under its write lock: it goes by the pool it read.
CommitUpdate(r) ==
  /\ requests[r] # None
  /\ requests[r].env # None
  /\ requests[r].built
  /\ LET i == requests[r].env
         old == requests[r].old
         cfg == requests[r].cfg
     IN  IF Rebuilds(old.cfg, cfg)
         THEN /\ FreshPools # {}
              /\ cluster' = ScheduleQueued(
                   RestartPool(cluster, i, old.pool, NewId(FreshPools), cfg))
         ELSE cluster' = ScheduleQueued(
                [cluster EXCEPT !.pools[old.pool] = [env |-> i, cfg |-> cfg],
                                !.envs[i] = [pool |-> old.pool, cfg |-> cfg]])
  /\ requests' = [requests EXCEPT ![r] = None]
  /\ UNCHANGED <<files, runs>>

RestartEnvironment(i) ==
  /\ cluster.envs[i] # None
  /\ FreshPools # {}
  /\ LET env == cluster.envs[i]
     IN  cluster' = ScheduleQueued(
           RestartPool(cluster, i, env.pool, NewId(FreshPools), env.cfg))
  /\ UNCHANGED <<requests, files, runs>>

\* Mutant: nobody else is looked for.
LastUser_Always(i) == TRUE

\* The artifact goes with the last environment that uses it.
LastUser(i) ==
  \A j \in Env \ {i} : cluster.envs[j] # None =>
    cluster.envs[j].cfg.artifact # cluster.envs[i].cfg.artifact

DeleteEnvironment(i) ==
  /\ cluster.envs[i] # None
  /\ \A e \in Exec : cluster.execs[e] # None => cluster.execs[e].env # i
  /\ LET env == cluster.envs[i]
         gone == IF env.cfg.artifact # None /\ LastUser(i)
                 THEN {env.cfg.artifact} ELSE {}
         left == [DropPool(cluster, env.pool) EXCEPT !.envs[i] = None]
     IN  /\ cluster' = [left EXCEPT !.nodes = [n \in Node |->
                          IF left.nodes[n] = None THEN None
                          ELSE [left.nodes[n] EXCEPT !.artifacts = @ \ gone]]]
         /\ files' = files \ gone
  /\ UNCHANGED <<requests, runs>>

-----------------------------------------------------------------------------
(* Executions. *)

\* What a submission resolves to: an environment by id or name, or a pool an
\* environment manages.
Target(i, p) ==
  /\ cluster.pools[p] # None
  /\ \/ cluster.envs[i] # None /\ cluster.envs[i].pool = p
     \/ cluster.pools[p].env = i

\* create_execution.  The new execution may be of any age rank: created_at_ms
\* has ties, which the random id decides, and is wall-clock time.
CreateExecution(e, i, p, queue) ==
  /\ Target(i, p)
  /\ cluster.images[cluster.pools[p].cfg.image] = "runtime"
  /\ cluster.execs[e] = None
  /\ \A n \in Node : <<n, e>> \notin runs
  /\ LET submitted == [cluster EXCEPT !.execs[e] =
                         [status |-> "queued", pool |-> p, node |-> None, env |-> i]]
         placed == Schedule(submitted, e)
     IN  /\ queue \/ ~ IsQueued(placed, e)
         /\ cluster' = placed
  /\ UNCHANGED <<requests, files, runs>>

-----------------------------------------------------------------------------
(* Nodes. *)

\* delete_node, and the enrollment of the node with it.
DeleteNode(n) ==
  /\ cluster.nodes[n] # None
  /\ \A p \in Pool : \A e \in ActiveOn(cluster, p) : cluster.execs[e].node # n
  /\ cluster' = ScheduleQueued([cluster EXCEPT !.nodes[n] = None])
  /\ runs' = {run \in runs : run[1] # n}
  /\ UNCHANGED <<requests, files>>

NewNode(n) == [cap |-> Capacity[n], used |-> 0, images |-> {}, artifacts |-> {},
               idle |-> [p \in Pool |-> 0], ready |-> FALSE]

\* register_node as a heartbeat of a running agent.
Heartbeat(n) ==
  /\ cluster.nodes[n] # None
  /\ cluster' = ScheduleQueued(Refresh(cluster, n))
  /\ UNCHANGED <<requests, files, runs>>

\* register_node as the first call of an agent that has just started: it asks
\* for its idle instances to be reset, and what it was running is gone.
StartAgent(n) ==
  /\ LET known == IF cluster.nodes[n] # None THEN cluster
                  ELSE [cluster EXCEPT !.nodes[n] = NewNode(n)]
     IN  cluster' = ScheduleQueued(Refresh(ResetIdle(known, n), n))
  /\ runs' = {run \in runs : run[1] # n}
  /\ UNCHANGED <<requests, files>>

\* image_ready.
ImageArrived(n, i) ==
  /\ cluster.images[i] # "absent"
  /\ cluster.nodes[n] # None
  /\ cluster' = ScheduleQueued(
       Refresh([cluster EXCEPT !.nodes[n].images = @ \cup {i}], n))
  /\ UNCHANGED <<requests, files, runs>>

\* environment_ready.
ArtifactArrived(n, a) ==
  /\ \E i \in Env : cluster.envs[i] # None /\ cluster.envs[i].cfg.artifact = a
  /\ cluster.nodes[n] # None
  /\ cluster' = ScheduleQueued([cluster EXCEPT !.nodes[n].artifacts = @ \cup {a}])
  /\ UNCHANGED <<requests, files, runs>>

AddWarmInstance(n, p) ==
  /\ WarmNeeded(cluster, n, p)
  /\ cluster' = ScheduleQueued(AddWarm(cluster, n, p))
  /\ UNCHANGED <<requests, files, runs>>

RemoveIdleInstance(n, p) ==
  /\ IdleSurplus(cluster, n, p)
  /\ cluster' = ScheduleQueued(RemoveIdle(cluster, n, p))
  /\ UNCHANGED <<requests, files, runs>>

\* next_work: hand node n one of the executions assigned to it.
NextWork(n, e) ==
  /\ cluster.nodes[n] # None
  /\ cluster.execs[e] # None
  /\ cluster.execs[e].node = n
  /\ cluster.execs[e].status = "assigned"
  /\ cluster' = [cluster EXCEPT !.execs[e].status = "running"]
  /\ runs' = runs \cup {<<n, e>>}
  /\ UNCHANGED <<requests, files>>

\* A pool no environment goes by goes away with its last execution.
Stale(c, p) ==
  /\ \A i \in Env : c.envs[i] # None => c.envs[i].pool # p
  /\ \A e \in Exec : c.execs[e] # None => c.execs[e].pool # p

\* Mutants: the queue is not looked at; a retired pool stays.
Finish_NoSweep(c, e, keepIdle) ==
  LET p == c.execs[e].pool
      freed == [Release(c, e, keepIdle) EXCEPT !.execs[e] = None]
  IN  IF Stale(freed, p) THEN DropPool(freed, p) ELSE freed

Finish_KeepPool(c, e, keepIdle) ==
  ScheduleQueued([Release(c, e, keepIdle) EXCEPT !.execs[e] = None])

Finish(c, e, keepIdle) ==
  LET p == c.execs[e].pool
      freed == [Release(c, e, keepIdle) EXCEPT !.execs[e] = None]
  IN  ScheduleQueued(IF Stale(freed, p) THEN DropPool(freed, p) ELSE freed)

\* complete_execution: only the node the execution is on may report it.
CompleteExecution(n, e, keepIdle) ==
  /\ <<n, e>> \in runs
  /\ IF cluster.execs[e] # None /\ cluster.execs[e].node = n
     THEN cluster' = Finish(cluster, e, keepIdle)
     ELSE UNCHANGED cluster
  /\ runs' = runs \ {<<n, e>>}
  /\ UNCHANGED <<requests, files>>

-----------------------------------------------------------------------------

Administer ==
  \/ \E i \in Image, kind \in {"vm", "runtime"} : ImportImage(i, kind) \/ UpdateImage(i, kind)
  \/ \E i \in Image : DeleteImage(i)
  \/ \E p \in UserPool, cfg \in PoolConfig : CreatePool(p, cfg)
  \/ \E p \in Pool : DeletePool(p)
  \/ \E r \in Req, cfg \in EnvConfig : BeginCreate(r, cfg)
  \/ \E r \in Req, i \in Env, cfg \in EnvConfig : BeginUpdate(r, i, cfg)
  \/ \E r \in Req : PrepareArtifact(r) \/ AbandonRequest(r)
  \/ \E r \in Req : CommitCreate(r) \/ CommitUpdate(r)
  \/ \E i \in Env : RestartEnvironment(i) \/ DeleteEnvironment(i)
  \/ \E n \in Node : DeleteNode(n)

Submit == \E e \in Exec, i \in Env, p \in Pool, queue \in BOOLEAN :
            CreateExecution(e, i, p, queue)

Serve ==
  \/ \E n \in Node : Heartbeat(n) \/ StartAgent(n)
  \/ \E n \in Node, i \in Image : ImageArrived(n, i)
  \/ \E n \in Node, a \in Artifact : ArtifactArrived(n, a)
  \/ \E n \in Node, p \in Pool : AddWarmInstance(n, p) \/ RemoveIdleInstance(n, p)
  \/ \E n \in Node, e \in Exec : NextWork(n, e)
  \/ \E n \in Node, e \in Exec, keepIdle \in BOOLEAN : CompleteExecution(n, e, keepIdle)

Next == Administer \/ Submit \/ Serve

Spec == Init /\ [][Next]_vars
-----------------------------------------------------------------------------
(* Safety. *)

\* Every execution in memory is on a pool that exists.  next_work and
\* create_execution index the map of pools with an execution's pool, and
\* restart_environment_pool unwraps what it finds there: each would panic.
ActivePoolExists ==
  \A e \in Exec : cluster.execs[e] # None => cluster.pools[cluster.execs[e].pool] # None

\* A placed execution is on a node the controller knows (delete_node refuses
\* otherwise), and an unplaced one on none: no execution waits for a node that
\* will never ask for it.
PlacedOnKnownNode ==
  \A e \in Exec : cluster.execs[e] # None =>
    IF IsQueued(cluster, e) THEN cluster.execs[e].node = None
    ELSE /\ cluster.execs[e].node # None
         /\ cluster.nodes[cluster.execs[e].node] # None

\* While the controller stays up, what a node was handed is still its own when
\* it reports: complete_execution never answers 403 or 404 to it, whatever
\* restarts, updates and deletions happened meanwhile, and no execution is with
\* two nodes.
ReportsAreExpected ==
  \A run \in runs : /\ cluster.execs[run[2]] # None
                    /\ cluster.execs[run[2]].node = run[1]
                    /\ cluster.execs[run[2]].status = "running"

\* Executions of two environments never share a pool, so no MicroVM serves both
\* (README: its MicroVMs never switch environments).
IsolatedEnvironments ==
  \A e, f \in Exec :
    /\ cluster.execs[e] # None /\ cluster.execs[f] # None
    /\ cluster.execs[e].pool = cluster.execs[f].pool
    => cluster.execs[e].env = cluster.execs[f].env

\* The scheduler conserves work: whenever the lock is free, no queued execution
\* could be placed.  Every handler that frees room or makes a node usable has to
\* run schedule_queued for this.
QueuedIsBlocked ==
  \A e \in Exec : IsQueued(cluster, e) => ~ Schedulable(cluster, cluster.execs[e].pool)

\* What node n has reserved for pool p: its idle MicroVMs and those in use.
Reserved(c, n, p) ==
  IF c.pools[p] = None THEN 0
  ELSE c.pools[p].cfg.size
       * (IdleAt(c, n, p) + Cardinality({e \in ActiveOn(c, p) : c.execs[e].node = n}))

\* The resources a node is shown to use are exactly those of its MicroVMs: none
\* are leaked or given back twice by reuse, warm instances, requeueing, or the
\* removal of a pool.
UsedIsReserved ==
  \A n \in Node : cluster.nodes[n] # None =>
    cluster.nodes[n].used
      = Total([p \in Pool |-> Reserved(cluster, n, p)], NumPools)

\* No step takes a pool past its max_instances, or further past it: placing,
\* keeping idle, warming and draining all count the same MicroVMs.
ScaleOutLimit ==
  [][\A p \in Pool :
       /\ cluster.pools[p] # None /\ cluster'.pools[p] # None
       /\ cluster.pools[p].cfg.max = cluster'.pools[p].cfg.max
       /\ cluster.pools[p].cfg.max # None
       => LET before == Active(cluster, p) + Idle(cluster, p)
              after  == Active(cluster', p) + Idle(cluster', p)
          IN  after <= before \/ after <= cluster.pools[p].cfg.max]_vars

\* No step places an execution while an older one of its pool stays queued: the
\* queue of a pool is served in order, new submissions included.
NoOvertaking ==
  [][\A e, f \in Exec :
       /\ e < f
       /\ IsQueued(cluster, e) /\ IsQueued(cluster', e)
       /\ cluster'.execs[f] # None /\ cluster'.execs[f].status = "assigned"
       /\ cluster'.execs[f].pool = cluster'.execs[e].pool
       => cluster.execs[f] = cluster'.execs[f]]_vars

\* A pool of an environment that no environment goes by and nothing runs on.
Orphans(c) == {p \in Pool : c.pools[p] # None /\ c.pools[p].env # None /\ Stale(c, p)}

StaleUpdate(r) ==
  /\ requests[r] # None /\ requests[r].env # None
  /\ LET env == cluster.envs[requests[r].env]
     IN  env = None \/ env.pool # requests[r].old.pool

\* A managed pool is orphaned, kept warm with no environment to use it and no
\* execution whose end would remove it, only by an update that read its
\* environment before the pool was replaced.
OrphansFromStaleUpdates ==
  [][Orphans(cluster') \subseteq Orphans(cluster)
     \/ \E r \in Req : StaleUpdate(r) /\ requests'[r] = None]_vars

\* The images and artifacts something in a cluster goes by that are not there.
GoneImages(c) ==
  {i \in Image : /\ c.images[i] = "absent"
                 /\ \/ \E p \in Pool : c.pools[p] # None /\ c.pools[p].cfg.image = i
                    \/ \E v \in Env : c.envs[v] # None /\ c.envs[v].cfg.image = i}

GoneArtifacts(c, fs) ==
  {c.envs[i].cfg.artifact : i \in {j \in Env : c.envs[j] # None}} \ (fs \cup {None})

\* delete_image refuses an image in use, delete_environment keeps an artifact
\* another environment uses: what is needed goes missing only when a request
\* commits that was checked, or whose artifact was built, before the deletion.
\* create_execution would index the map of images with the missing one, and nodes
\* would ask for an artifact that is gone.
LossesFromStaleChecks ==
  [][\/ /\ GoneImages(cluster') \subseteq GoneImages(cluster)
        /\ GoneArtifacts(cluster', files') \subseteq GoneArtifacts(cluster, files)
     \/ \E r \in Req :
          /\ requests[r] # None /\ requests'[r] = None
          /\ \/ cluster.images[requests[r].cfg.image] = "absent"
             \/ requests[r].cfg.artifact \notin files \cup {None}]_vars

-----------------------------------------------------------------------------
(* Liveness. *)

\* An agent's loop: it asks for work again as soon as it has dealt with the
\* last answer, and sends a heartbeat and maintains its warm instances every
\* two seconds.  Every MicroVM execution has a hard timeout, so a run ends.
Fairness ==
  /\ \A n \in Node : WF_vars(Heartbeat(n))
  /\ \A n \in Node : WF_vars(\E e \in Exec : NextWork(n, e))
  /\ \A n \in Node, e \in Exec :
       WF_vars(\E keepIdle \in BOOLEAN : CompleteExecution(n, e, keepIdle))
  /\ \A n \in Node, p \in Pool : WF_vars(AddWarmInstance(n, p))
  /\ \A n \in Node, p \in Pool : WF_vars(RemoveIdleInstance(n, p))

WarmStep == \E n \in Node, p \in Pool : AddWarmInstance(n, p) \/ RemoveIdleInstance(n, p)

Settled == \A n \in Node, p \in Pool :
             ~ WarmNeeded(cluster, n, p) /\ ~ IdleSurplus(cluster, n, p)

\* Once nothing else happens, adding and removing warm instances comes to rest:
\* the two rules never chase each other across nodes.
WarmSettles == <>[][WarmStep]_vars => <>[]Settled

\* A started execution ends, as the SDK's `wait` promises.
StartedFinishes ==
  \A e \in Exec : cluster.execs[e] # None /\ cluster.execs[e].status = "running"
                  ~> cluster.execs[e] = None

\* Once submissions stop, every execution is placed, run and finished.
QueueDrains ==
  <>[][\A e \in Exec : cluster.execs[e] = None => cluster'.execs[e] = None]_vars
    => <>[](\A e \in Exec : cluster.execs[e] = None)
=============================================================================
