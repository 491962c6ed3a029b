# A formal model of Scraperack

TLA+ modules for the controller and the node agent of Scraperack
(`platform/src`), TLC configurations that check them on small instances, and
proofs checked by TLAPS. `PROJECT.json` maps every definition to the lines it
models and lists runs, mutants, hazards, findings and theorems.

Contents: [the system](#the-system), [modules](#modules),
[how the controller is modelled](#how-the-controller-is-modelled),
[the execution database](#the-execution-database),
[the node agent](#the-node-agent), [the start limiter](#the-start-limiter),
[networks](#networks), [the guest](#the-guest),
[artifacts and snapshots](#artifacts-and-snapshots), [enrollment](#enrollment),
[runs](#runs), [fairness](#fairness), [proofs](#proofs), [findings](#findings),
[what is not modelled](#what-is-not-modelled), [plan](#plan).

## The system

Scraperack runs Python functions in Firecracker MicroVMs on a cluster. One
*controller* (an HTTP server and a database) decides; a *node agent* on each
machine asks it for work, starts MicroVMs and reports results; a *guest agent* in
each MicroVM runs the function. Everything is pulled: the controller never calls
a node.

| component | source | state | operations |
|---|---|---|---|
| Scheduler | `cluster.rs` | none of its own: methods of the `Cluster` struct | `schedule`, `schedule_queued`, `release`, warm instances (`add_warm_instance`, `remove_idle_instance`, `warm_targets`), `reset_idle_instances`, `refresh_node`, `image_ready` |
| Controller, cluster handlers | `api.rs` | `Cluster` behind one RwLock: images, pools, environments, nodes, active executions, round-robin counter; artifact files on disk | one HTTP handler each: images, pools, environments, executions, `register_node`, `image_ready`, `environment_ready`, warm instances, `next_work`, `complete_execution`, `delete_node` |
| Controller, execution database | `storage.rs` | SQLite rows of executions, secrets, sizes, settings | insert, save, complete with pruning, retention, reload of active executions at start |
| Controller, builds | `api.rs` | files being built | `import_image` and `prepare_environment_artifact` call docker, skopeo, mke2fs |
| Controller, working directories | `api.rs` | content-addressed archives | upload, download, garbage collection |
| Enrollment | `api.rs`, `join.rs` | join tokens, credentials, files of a node | create and redeem a token, local join, the `join` command |
| Legacy migration | `api.rs` | the saved cluster | turns VM pools of executor images into environments, at every start |
| Agent, loop and MicroVM table | `node.rs` | `VmState`: idle and running MicroVMs | heartbeat, sync, `maintain_vms`, long poll, `run_execution` |
| Agent, start limiter | `node.rs` | a count, a limit, a Notify | `acquire`, drop of a permit, `set_limit` |
| Agent, networks | `node.rs` | subnets and host ports in use | `allocate`, `release` |
| Agent, files and snapshots | `node.rs` | images, artifacts, snapshots on disk | `sync_images`, `sync_environments`, `sync_snapshots`, `ensure_snapshot` |
| Guest agent, executor | `guest/` | executor process, cached functions, working directories | run, preload, network, snapshot requests |
| SDK, console, installer | `sdk`, `platform/gui`, `install.sh` | none that matters here | clients of the HTTP API |

### What is hard

* **Handlers that let go of the lock.** Creating and updating an environment
  check under a read lock, build a package artifact for minutes with no lock, and
  commit under a write lock. Whatever they checked may be gone, and an update
  even uses the pool it *read*.
* **Counters that must agree.** `used_cpu_millis`, `idle_instances`,
  `max_instances` and the warm targets count the same MicroVMs from different
  sides and are moved by placement, reuse, release, requeueing, warming,
  draining, pool removal and agent restarts. Subtractions saturate, so drift
  would never show.
* **An event-driven queue.** Nothing polls the queue: each handler that could
  make a queued execution placeable has to run `schedule_queued` itself.
* **Lost calls and restarts.** A report is sent once; an agent that restarts
  forgets what it ran; the controller reloads its queue from a database that is
  written after the lock was dropped.
* **Two views of one set.** The controller's idle counter and the agent's idle
  MicroVMs are only kept together by calls that may fail or overlap. The host and
  the guest have the same trouble with what a MicroVM has cached.
* **Cleaning up by an old list.** Agents download, verify, delete and report by
  lists they fetched before, while artifacts are deleted and built again under
  the same key.
* **Commands that stop halfway.** `join` changes a machine in five steps, and an
  agent ends on any error in its main loop and is started again by systemd.

### What makes it correct

Nothing an execution in memory needs is taken away (its pool, its node); a report
from a node is always expected; two environments never share a pool; the queue
is work conserving and in order; the scale-out limit and the use of resources are
exact; warm instances settle; executions finish, and none is lost with its row. For the
agent: nobody waits on a free permit; no two MicroVMs share a subnet or a port; a
node that is taken to have an artifact has it, until an update leaves the artifact to
nobody; the two counts of idle MicroVMs
part only where the code lets them. For a machine: it acts as the node it was made
and as no other, a token is used once, and no credential is forgotten.

## Modules

| module | contents |
|---|---|
| `Scheduler` | `cluster.rs` as operators from clusters to clusters |
| `Controller` | the handlers of `api.rs` as actions over a cluster, the requests in flight, the artifact files, and the work at nodes; the properties |
| `MCController` | instances for TLC: configurations of environments, starting states, and the steps some runs are confined to |
| `ExecutionLife` | abstract: what an execution is to those who submitted it |
| `ExecutionStore`, `MCStore` | `storage.rs` under the handlers of `Controller`: the table of executions, the saved cluster, writes after the lock, failing writes, the restart of the controller and its migration; refines `ExecutionLife` |
| `NodeAgent`, `MCAgent` | the main loop of an agent, `maintain_vms` and `run_execution` over the table of idle MicroVMs, composed with `Controller` |
| `VmStartLimiter` | `VmStartLimiter` of `node.rs` on tokio's `Notify` |
| `NetworkLeases`, `MCLeases` | `Network` of `node.rs`: subnets, ports and iptables rules |
| `GuestCache`, `MCGuest` | the host, the guest agent and the executor around one reused MicroVM |
| `Distribution`, `MCDistribution` | an artifact on its way from `create_environment` or `update_environment` to a MicroVM's start |
| `Enrollment`, `MCEnrollment` | tokens, credentials, the `join` command, the start of an agent |
| `ControllerProofs`, `AgentProofs`, `ExecutionStoreProofs`, `VmStartLimiterProofs`, `NetworkLeasesProofs`, `GuestCacheProofs`, `DistributionProofs`, `EnrollmentProofs` | theorems and their proofs |

`Controller` extends `Scheduler`. `ExecutionStore` and `NodeAgent` extend
`Controller`, from two sides: each of their actions is an action of `Controller`
with what is written to the database, or with what changes at the agent. The other
modules share little state with those: the limiter a number (the limit a heartbeat
answers), networks and guests that a start takes place or fails, `Distribution` the
readiness of a node, `Enrollment` the set of nodes. Each has the slice of the
controller it needs as variables of its own.

## How the controller is modelled

The state is the Rust state with its data made small.

* `cluster` is the `Cluster` struct. A handler holds the write lock from its
  first look at the cluster to its last change of it, so it is one action, the
  `schedule_queued` it ends with included. `cluster.images[i]` says whether the
  image exists and whether it has an executor (`"runtime"`) or not (`"vm"`).
  A `Config` is what an environment or a user's pool asks of its MicroVMs.
* `requests[r]` is a `create_environment` or `update_environment` between its two
  locks, with the environment as it was *read* (`old`). `BeginCreate`/`BeginUpdate`
  end with the release of the read lock, `PrepareArtifact` is the unlocked build,
  `CommitCreate`/`CommitUpdate` the rest. `AbandonRequest` is a build that fails
  or a caller that hangs up.
* `files` are the artifacts in the controller's `environments` directory.
* `runs` holds `<<n, e>>` from the answer of `next_work` to the one report the
  agent sends. `StartAgent` (the first `register_node` of an agent, with
  `reset_idle`) and `DeleteNode` drop the node's runs.

Abstractions, with the reason each is safe for what is checked:

* One resource stands for CPU and memory; the code treats the two in parallel.
  `used` may exceed `cap`: the code overcommits on purpose, and only compares a
  pool's size with the whole capacity.
* Execution numbers are age ranks: the code sorts by `(created_at_ms, id)`, and
  `CreateExecution` may take any free number, since timestamps tie and clocks move.
  Numbers are reused once an execution is over and no agent still has it.
* `round_robin` is kept modulo `RRModulus`, a common multiple of the numbers of
  candidates it is ever reduced by.
* Ids of environments and names of managed pools are UUIDs. A new one is one that
  nothing refers to (`Claims`): no map, no execution, no request in flight.
* Not in the model because no property tells it apart: names and their uniqueness,
  payloads, results, labels, preload modules, network specs, timeouts, MicroVM
  reports, and `update_node`, which only sets the limit of the start limiter.
* The database, and the calls that follow the release of the lock
  (`save_executions`), are added by `ExecutionStore`.

## The execution database

`ExecutionStore` adds to the controller's state the `executions` table (`rows`), the
cluster as saved in the metadata table (`saved`, without executions, as serde skips
them), `max_storage_bytes` (`limit`), and `pending`: what handlers that have
let go of the lock have still to write.

* Most handlers write before they let go of the lock; `Saving` wraps their action of
  `Controller`, and `Changed` is what they pass to `save_executions`. `SubmitAccepted`
  and `SubmitRefused` insert a row first, as `create_execution` does.
* `restart_environment` and `update_environment` save the cluster under the lock and
  the executions after it (`RestartSaves` and `UpdateSaves`, by `SaveLater`); `complete_execution` (`Report`) then also its
  execution's end; `next_work` (`TakeWork`) answers only after its write. `Save` and
  `End` are these writes, each a SQLite transaction, and `FailWrite` one that fails:
  the handler answers 500 and gives up the rest.
* `Restart` is the controller going down at any point and `serve` starting again: the
  saved cluster, every active row queued, pruning. What agents still run becomes
  `ghosts`, whose reports (`LateReport`) the new process accepts if the execution
  happens to be on that node again. An agent may also restart, and usually does when
  its long poll breaks.
* A restart may bring back an execution of an environment that was deleted since, on a
  pool whose name another environment has got. If that one is restarted while its pool is
  gone and the execution runs, the `unwrap` in `restart_environment_pool` panics
  (`PanicMoving`): what waited has been moved in memory, and nothing is saved.
* Sizes are counted in columns (payload, secrets, result, metrics: 1 each). Time is
  left open: `Pruned` may remove any finished executions as past their retention, and
  any more that suffice for the limit, so nothing depends on the order of ends.
* `migrate_legacy` runs at every start and is part of `Restart`: `Legacy` are the VM
  pools whose image has an executor by now, `Migrated` the cluster in which each has
  become an environment, under a new id that must still be the same at the next start
  (`MetadataIsCurrent`). Its loop over executions does nothing, because executions are
  loaded after it; the model has none.
* Not modelled here: a write that fails while the lock is held, the content of
  secrets, and the fallback to a `state.json` without a database.

`ExecutionLife` is what the table and the memory amount to together: an execution is
accepted, waits, runs, is ending and over, and may be forgotten then; only a restart
puts a running one back. `lifeBar` maps memory and row to that. An execution in memory
without an active row maps to no state of `ExecutionLife`, so that `ImplementsLife`
also says that an active execution can be looked up and will be loaded again.

## The node agent

`NodeAgent` has a program counter per agent (`loop`), the numbers of idle MicroVMs in
the table (`table`), in the local vectors of `maintain_vms` (`out`, `kept`), and the
tasks that execute what `next_work` handed out. A call to the controller is one step
of both sides: `Work` is `NextWork` of `Controller` with a new task, `Ask` its
`RemoveIdle` or `KeepIdle`, `Report` its `CompleteExecution`. Between the calls
everything interleaves: tasks take MicroVMs and put them back while `maintain_vms` has
emptied the table, pools go away, the agent stops at any point and loses its table.
MicroVMs of a pool are alike, so a number is enough; which of them `acquire` takes
(the last used) makes no difference, and idle expiry never decides anything, because
`maintain_vms` takes a MicroVM the controller wants to keep as it is
(node.rs:1272). A deleted node's agent is refused its next call that needs the
credential, and ends (`Refused`); until then its MicroVMs are there. What warm instances and idle timeouts say of a MicroVM that ends its
execution is left open (`Keep` or `Destroy`).

## The start limiter

`VmStartLimiter` has a step for each access to the mutex or to the Notify:
`notified()`, `enable()`, the check, the return (which drops the `Notified`), the
drop of the permit, its `notify_one`, and `set_limit`'s store and
`notify_waiters`. The agent's main loop is one of the tasks: it starts warm
MicroVMs itself, so it applies a new limit only while it is not waiting for a
permit. tokio's `Notify` is modelled from its documentation as external
operators: a notification is kept for one when nobody waits; `notify_waiters`
wakes all futures that exist; `enable` takes a kept notification or joins the
waiters; a future that is dropped after it was woken alone passes that on. Whom
`notify_one` picks is left open, so the results do not depend on FIFO order.

## Networks

`NetworkLeases` has `NetworkState` (subnets, ports, the two cursors), the leases of
MicroVMs and the rules in the chain. `Allocate` is one step, under the mutex: `Grabs`
folds over the list of ports as the code does, from the cursor around, past what other
programs hold (`Others`), and leaves behind what it has taken when a later port or the
subnet is not to be had. `Attach`, `Detach` and `Free` are `setup` and `release` with
the mutex free, so MicroVMs overlap in every order; `Detach` may fail at each rule
unnoticed. Addresses are computed from the subnet and left out.

## The guest

`GuestCache` is one MicroVM from restore to restore: what the host believes the guest
to have (`functions`, `workingDirs` of `LiveVm`), the guest agent (whether its
executor runs, whether it is connected), what the executor has (`cached`, `unpacked`)
and the request under way. The executor may die at any step; the guest agent sends a
request again, to one it starts anew, once. User code may raise, exit or return.

## Artifacts and snapshots

`Distribution` follows one artifact, as `sync_environments` treats each by itself. Its
key is a hash of the image and the *names* of packages, so contents are numbers, one
for each build; every other artifact, and having none, is `Other`. `Prepare`, `Build`,
`HashFile` and `Commit` are `create_environment`, and `update_environment` where it
gives an environment the artifact, with their windows; two may build at once. `Keep` is
an update that leaves the packages as they are: it commits the checksum it has *read*.
`Leave` takes an environment to other packages. Unlike `Delete` of the last environment
with the artifact, it touches neither the file nor `Node.environments` (`Forget`), so
the node stays `confirmed` for an artifact of no environment (`stale`, until the node
reports it again or the artifact is deleted), while the agent removes its file.

The agent lists, checks by marker or hash, downloads, verifies, marks, reports, cleans
up, takes and sweeps snapshots, all by lists it fetched before. What it downloads is
whatever the environment has by then: another artifact's content may be put under this
one's name (`nodeFile = Other`). `start` is a `start_vm` beside it, from the moment the
node is given the execution; when its environment is taken to other packages it goes
on, on a pool that is retired (`own`). Pools themselves are in `Controller`; here the
list of `sync_snapshots` may have one with this snapshot or not. The agent may end
between any two steps (`Crash`, which also stands for its end over other artifacts), and
ends by itself when a download or a report is refused or a verification fails, as `run`
does with `?`.

## Enrollment

`Enrollment` has the controller's tokens and credentials with what is saved of them,
and for each machine its files, whether the agent's service runs, its agent and its
`join` command. `join` is five steps after the answer; each may be the last. A failed
`save` leaves memory ahead of the database. `register_node` is two steps, as it takes
two locks. Secrets and ids are numbers; one that nobody holds any more stands for a
new one (`Fresh`), which keeps the model finite. `removed` and `issued` are history
that the properties speak of.

## Runs

| run | instance | shows |
|---|---|---|
| `in_use` | 2 nodes, 2 executions, 1 environment rescaled between limits 2 and 1, reuse on and off, 1 request in flight | `TypeOK`, `QueuedIsBlocked`, `UsedIsReserved`, `ScaleOutLimit`, `NoOvertaking` |
| `isolation` | 2 environments, 3 pools, 2 executions, 1 artifact, 1 request, deletion of pools and of the image | `IsolatedEnvironments`, `ActivePoolExists`, `ReportsAreExpected`, `OrphansFromStaleUpdates`, `LossesFromStaleChecks` |
| `warm` | 2 nodes that stay up, 2 executions | `WarmSettles`, `QueueDrains` (liveness) |
| `limiter` | 4 tasks, limits 0 (taken as 1), 2 and 3 | `NoLostWakeup`, `StartsAreGranted` (liveness) |
| `writes` | 1 node, 2 executions, 2 pools, 2 handlers past the lock, limits 3 and 4, 1 restart; confined to submissions, work, reports, pruning, restarts of the environment and the controller | `SizesExact`, `ResultsWithinLimit`, `RevivedByStaleSave`, `StrandedByUnsavedMove`, `ImplementsLife` (refinement) |
| `metadata` | every handler from an empty cluster: 1 execution, 3 pools (1 a user's), 1 artifact, 1 request, 1 restart with migration | `MetadataIsCurrent` |
| `agent` | 1 agent that starts and stops and whose node may be deleted, 2 executions, 2 pools one after the other, up to 2 strays | `DriftExplained`, `AgentComesBack`, `RetiredVmsGo` (liveness) |
| `leases` | 2 MicroVMs, 3 subnets, 2 dynamic ports, 2 protocols, lists of up to 2 ports, another program on a port | `Exclusive`, `MisroutesExplained`, `LeaksExplained` |
| `guest` | 2 functions, 2 working directories, payloads with and without | `RerunsBounded`, `FalseBeliefsExplained`, `GuestAnswers` (liveness) |
| `files` | 2 environments, a request each, 1 artifact built twice, 3 creations or updates, any crashes | `StaleSnapshotsExplained`, `StartsKeepTheirFiles`, `BrokenExplained`, `ExitsExplained`, `ReportsAreTrue`, `GetsReady` (liveness) |
| `enrollment` | the controller's machine and another, 1 token at a time, 2 ids, 3 credentials, 2 faults | `SingleUse`, `OwnIdentity`, `CredentialsLast`, `ZombiesExplained`, `JoinedComesUp` (liveness) |
| `crash` | 1 node, 1 execution, an agent that restarts | `StartedFinishes` is violated, see [findings](#findings) |

What the properties say:

* `QueuedIsBlocked`: whenever the lock is free, no queued execution could be
  placed. It holds only if *every* handler that frees room or makes a node usable
  calls `schedule_queued`.
* `UsedIsReserved`: a node's `used` is the sum of the MicroVMs it holds, idle or at
  work; no leak and no double release on any path.
* `ScaleOutLimit`: no step takes a pool past `max_instances`, or further past it.
  (An update may lower the limit below what runs; that is not a violation.)
* `NoOvertaking`: no step places an execution and leaves an older one of its pool
  queued, although `create_execution` schedules the new one by itself.
* `ActivePoolExists`, `ReportsAreExpected`, `IsolatedEnvironments`: see
  [proofs](#proofs).
* `OrphansFromStaleUpdates`, `LossesFromStaleChecks`: a managed pool is left behind for
  nobody, and an image or an artifact file an environment needs is gone, only through a
  request that checked before another handler took it away. Those races are in the
  code; the properties say that they are the only source of such damage.
* `ImplementsLife`: see [the execution database](#the-execution-database). It fails if a
  restart loads too little, if pruning takes an active execution or the end that was
  just written, or if an execution a node has is queued again.
* `ResultsWithinLimit`: results take the table past `max_storage_bytes` only through a
  write delayed so long that it brings back a pruned row. `RevivedByStaleSave`: such a
  write is also the only way in which a finished execution becomes active again.
  `StrandedByUnsavedMove`: a restart finds an execution on a pool that is gone only
  where its move to another pool was not written yet.
* `SizesExact`: `size_bytes`, kept by adding and subtracting, is what the columns take.
* `MetadataIsCurrent`: no handler forgets to save what it decided about images, pools,
  environments and nodes, the migration at the start included.
* `WarmSettles`: adding and removing warm instances, decided node by node, comes
  to rest when nothing else happens. `QueueDrains`: once submissions stop, every
  execution is finished.
* `DriftExplained`: the step in which an agent comes to have an idle MicroVM that the
  controller does not count, or the reverse, is one of the few listed. All other
  interleavings of `maintain_vms`, tasks, failed calls and retired pools keep the two
  counts together, up to what is on its way.
* `AgentComesBack`: `maintain_vms`, whose loop starts MicroVMs for as long as the
  controller wants more, comes back to asking for work. `RetiredVmsGo`: MicroVMs of a
  pool that went away do not stay.
* `Exclusive`: no two leases have a subnet or a port in common. `MisroutesExplained`:
  the port of a MicroVM leads elsewhere only through a rule whose deletion failed.
  `LeaksExplained`: subnets and ports are lost only at the two places named there.
* `RerunsBounded`: user code is called at most twice for an execution, and once if the
  host left the function out. `FalseBeliefsExplained`: when the host comes to be wrong
  about what the guest has. `GuestAnswers`: a request is answered without the host's
  timeout, however often executors die.
* `StartsKeepTheirFiles`: the file of an artifact a node is taken to have, or that a
  start needs whose environment has it, is never removed by an old list, except after an
  update left the artifact to nobody. `StaleSnapshotsExplained`, `BrokenExplained`,
  `ExitsExplained`, `ReportsAreTrue`: how a snapshot can be of another build than its
  drive, how an environment can record what no node can get, over what an agent ends by
  itself, and when it vouches for the wrong file. `GetsReady`: otherwise an environment
  gets to the node.
* `OwnIdentity`: an agent acts only as the node its credential was issued for, and no
  two as one, whatever a `join` that was cut off left in its files. `CredentialsLast`:
  the controller never forgets a credential a machine has. `ZombiesExplained`: how a
  node can be left that no agent can act as. `JoinedComesUp`: a machine that has joined
  becomes that node.

**Bounds.** Two nodes are the fewest on which targets split unevenly, candidates
alternate and one node is preferred for its idle MicroVM. Two executions are the
fewest that overtake, share or exceed a limit. A pool can be restarted while its
predecessor still runs something, and restarted again, with three pools. A request in
flight needs one slot: what it races with are whole handlers. `in_use`, `isolation`,
`warm`, `writes` and `agent` start from a controller in service (`ServingInit`,
`InService`): images imported, agents known and in sync; all of it reachable from `Init`, as
`metadata` starts. `SubmitInOrder` (`isolation`, `warm`, `agent`, `crash`) numbers submissions in
the order of their creation. `isolation` does not check for deadlock, because nothing
is left to do once users have deleted the image.

The store's races need two executions, so that one's end prunes or schedules the other,
and two handlers past the lock, one that is late and one that is not. Limits of 3 and 4
columns hold a finished execution with its result and at most one more row, so each
submission and each end meets the limit. One restart is enough for ghosts and reloads.
In `agent`, one node is enough: agents share nothing. `OncePerPool` ends restarts of
the environment with the pool names, `FewStrays` bounds MicroVMs nobody accounts for,
which pile up in the code as well. In `leases`, three subnets and two ports are used up
by two MicroVMs and what they leak, and both cursors wrap around; `MaxFreeRules`
bounds rules that stay behind. In `files`, two builds are one that is used and one that
replaces it, at once or after a deletion. Three records of environments (`MaxRecords`)
are enough to share the artifact and take one environment off it, to leave it to nobody
and take it up again, and to commit a checksum that was read before; the safety
properties were also seen to hold with three builds and with four records. With so few
updates the premise of `GetsReady` on them is always met. The agent ends as often as it
likes. In `enrollment`, two faults interrupt a `join` and what repairs it; an id or
credential nobody holds is used again. Four tasks in
`limiter` with limits up to three let two permits be free while two tasks sleep and two
wake-ups are on their way, which is where wake-ups could be lost.

Every property has a mutant in `PROJECT.json`: a plausible bug in a mapped
definition that breaks it under the run's own configuration. The mutants stand
next to the definitions they change, marked as such. Each module has a type
invariant. All but that of the abstract `ExecutionLife` are proved; that of the controller
is also checked by `in_use`.

## Fairness

Liveness is checked only where the code justifies what is assumed.

* Controller (`Fairness`): an agent that stays up polls for work as soon as it has
  dealt with the last answer, sends a heartbeat and maintains its warm instances
  every two seconds (`run` in `node.rs`), and reports what it ran, because every
  execution has a hard timeout. Each is weak fairness of that call. Nothing is
  assumed of users, of imports or of submissions.
* Limiter: the runtime polls woken tasks, and a start ends (guest requests time
  out after 10 and 30 seconds). There is no fairness on `acquire` being called.
  `StartsAreGranted` has the premise that nobody new asks: a newcomer may take a
  permit ahead of a task that was just woken, so under endless newcomers a single
  task may starve, and the code does nothing against that.
* Agent (`LoopFairness`): the main loop goes on from call to call; each is answered,
  refused (`Refused`) or timed out, starts included. One weak fairness for the whole loop, since it is one
  thread of control. Nothing is assumed of executions, whose tasks may last for ever.
* Guest (`WF_vars(GuestStep)`): the guest agent and the executor go on, and user code
  comes to an end or is ended by the host. The executor need not stay alive.
* Artifacts (`DistFairness`): the agent's loop goes on, systemd starts it again
  (`Restart=on-failure` in `platform/deploy`), and a start that has begun ends. `GetsReady` has
  the premise that environments are not deleted or updated for ever, as the agent ends
  in the round in which it asks for an artifact that is gone or another by then, and
  that it does not end for ever over anything else (`killed`): a broken environment of
  another artifact that its sync comes to first keeps this one from the node for good.
* Enrollment (`EnrollFairness`): systemd starts an agent that has ended, and one that
  can go on does. No fairness for the `join` command, which a user may break off, or for
  faults.
* `crash` adds agents that restart, with the same fairness.

## Proofs

TLAPS proves, for every value of the constants, all safety properties the runs check:

* `ControllerProofs`, for any number of nodes, executions, pools, images, artifacts,
  environments and requests. Of the operators of `Scheduler`: `SweepLemma`, that the loop
  of `schedule_queued` keeps the type and only turns queued executions into executions
  assigned to known nodes; `SweepOrder`, that it leaves nothing that could be placed and
  serves pools in order. Of the controller: `TypeCorrect`, `PoolsOutliveExecutions`,
  `NodesOutlivePlacements`, `ReportsAccepted`, `Isolation`; `WorkConserved` and
  `QueueServedInOrder` (the queue), `BooksBalance` (what nodes are shown to use),
  `LimitKept` (`max_instances`), `OrphansExplained`, `LossesExplained`.
* `AgentProofs`, for as many agents, with any MicroVMs and tasks: `AgentInvariance`,
  `AgentTypeCorrect`, `DriftIsExplained`.
* `ExecutionStoreProofs`, for any executions, handlers past the lock, limits and restarts:
  `StoreTypeCorrect`, `StoreImplementsLife` (the refinement), `RevivedOnlyByStaleSaves`,
  `SizesStayExact`, `LimitHeld`, `MetadataStaysCurrent`, `StrandedExplained`. They are
  about `StoreSpec`, which starts from nothing.
* `VmStartLimiterProofs`, for any finite set of tasks and any limits:
  `LimiterTypeCorrect`, `PermitsExact` and `NoWakeupLost`.
* `NetworkLeasesProofs`, for any MicroVMs, ranges of subnets and ports, lists and other
  programs: `LeaseTypeCorrect`, `LeasesAreExclusive`, `MisroutesAreExplained`,
  `LeaksAreExplained`.
* `GuestCacheProofs`, for any functions, directories and payloads: `GuestTypeCorrect`,
  `UserCodeRunsOnceOrTwice`, `BeliefsExplained`.
* `DistributionProofs`, for any environments, requests, builds and updates:
  `DistTypeCorrect`, `StartsFindTheirFiles`, `StaleSnapshotsOutlived`,
  `AgentsReportTheTruth`, `AgentsEndForAReason`, `EnvironmentsBreakForAReason`.
* `EnrollmentProofs`, for any machines, tokens, ids, credentials and faults:
  `EnrollTypeCorrect`, `TokensAreSingleUse`, `NobodyElse`, `CredentialsKept`,
  `ZombiesAreExplained`.

Assumptions: those declared in the modules (positive bounds, `None` is no value of the
program, configurations are what `create_pool` and `create_environment` accept). TLC
evaluates them on every run.

**The controller's invariant** (`IInv`) is `Sound` of the cluster, the requests
and the runs: `Typed`, `PoolsExist`, `NodesKnown`, `Expected` and
`UniqueClaims`. The property one wants, that executions sharing a pool are of one
environment, is not inductive. A stale update moves executions from the pool it
read: if another environment could own that pool by then, they would change
hands. `UniqueClaims` closes this: at most one environment goes by a pool name in
*any* of the four places a name lives (the environment, the pool's own record, an
execution, an update in flight). `Expected` needs `Movable` to leave running
executions alone, and `PoolsExist` needs `RetirePool` to keep a pool that something
runs on. Most handlers change the cluster and then call `schedule_queued`, so
`ControllerProofs` has a lemma per kind of change and `SoundSweep` for the queue.

**The queue.** `schedule_queued` is a fold over the executions in order of age.
`SweepInduction` is its induction, by the least number at which a predicate of the
intermediate clusters fails. `Blocked(c, k)`, that none of the first `k` executions is queued and
could be placed, goes from turn to turn because placing an execution makes no node a
candidate for another one. At the end it is `QueuedIsBlocked`, which handlers that do not
sweep keep because they make no node better (`NodesNoBetter`). `InOrder` follows with
it: an older execution of the same pool that stayed queued was offered the same nodes.

**The books.** `UsedIsReserved` compares a number with a sum over pools, and a handler
moves one term: the `Total` lemmas say what that does to the sum. `Accounts` adds that no
MicroVM is idle for a pool that is gone. `Sizes` says that all records of one pool (the
pool, its environment, what an update in flight has read) have the same size, which makes
it harmless that an update takes the size from what it read. **The limit**
needs no invariant of its own. Handlers that give room back are `Shrinks`, those that take
some `Limited`, each turn of the sweep included. `NextWithin` puts them together: every
step goes to a cluster that keeps the limits, and may sweep from there.

**Names.** An environment's pool is an orphan, or an image or artifact missing, by what
goes by its name: `SameNames` says that scheduling, reports and nodes change none of that.

**The agents' invariant** (`AInv`) is `IInv` with `AgentTyped`, `Rests` (an agent that is
down has no MicroVMs and no tasks, and MicroVMs are out of the table only while
`maintain_vms` asks about them) and `Handed` (a task is the run of an execution its node
was handed, of the pool the execution is on). With `Expected`, which comes from `IInv`, the
execution of a task still runs at its node, so that a report finds it there. For `Handed`
each handler has to be shown to leave the pool of a running execution (`Stays`).
`DriftIsExplained` does not follow from an invariant, as it says which steps may part two
counts. `Drift(c, d, N, n, p, k)` is what a handler may do on the controller's side:
count at most `k` idle MicroVMs more, and have room, for idle ones and executions meant
for one, for at least `k` more, unless node or pool go away. Each handler has a lemma that
says with which `k`. `SweepSteady` says of the loop of `schedule_queued` that `k` is 0:
an idle MicroVM that is no longer counted is meant for the execution that was placed on
it. An agent's step that takes or gives `k` MicroVMs then changes nothing between the
counts (`Matched`). What remains are the steps where the two sides do differ, each of
which is one of those the property lists.

**The store's invariant** (`SInv`) cannot rest on `IInv`: a restart may leave an execution
on a pool that is gone (`StrandedByUnsavedMove`). The refinement asks for less. `WellFormed`
types the executions of a cluster and nothing else; `SameExecs` and `Kept` say of every
handler that it leaves them, or which of them are at work, as they were. `ActiveIsStored`
ties memory to the table, and `EndsAwaited` says that an execution whose end is still to
be written has left memory, has an active row and no second handler to end it, so that
`End` always finds a row and ends what was `ending`. Each action then maps to a step of
`ExecutionLife` or to none (`Onward`), all but `Save`, which may take back what was over.

`MInv` is what survives a restart: the types (`TypesHold`), and that the saved cluster
agrees with memory on everything but executions and counters (`SameFiles`). A handler that
does not save changes nothing else (`KeepsSaved`), and the migration of a cluster that was
migrated is the identity. `LimitHeld` goes by kinds of writes: what deletes or shrinks rows
(`Smaller`) goes past no limit, what adds one prunes in the same transaction, and a write
of an old row adds none unless it was pruned.

**The limiter's invariant** counts. That a sleeper and a free permit imply a
wake-up on its way is not inductive: one step may use up a wake-up while two
permits are free. `Enough` says that while somebody sleeps and no new limit is to
be announced, `limit <= active + Wakeups`, where a wake-up is a task that will
look at the count (`Looking`) or one woken alone that passes it on if it gets a
permit (`Passing`). A task may be both, and then counts twice; that is exactly
what makes the `notify_one` of a task woken while it checks add up.

**Leases** (`LInv`): that leases are disjoint is inductive only together with `Held`,
that whatever a lease holds is marked as taken, through all the stages of a release.
The allocation is a function over the list of ports; `AllocateStep` sums up what is
used of it: what it takes was free, all of it is marked, and the subnet is free too.
Misroutes and leaks follow from `LInv` step by step, as each lease moves alone.

**The guest** (`GInv`): `CallsCounted` ties how often user code was called to the
attempt the request is in, and `WithheldOnce` says that a function that was left out
can have been called only in the executor that had it. `BeliefsExplained` also needs
`Delivered`: what the execution needs is in the guest from when it was loaded, unless
the executor died.

**Artifacts** (`DInv` in `DistributionProofs`): a list without environments was fetched
when nothing was confirmed or after an update had left the artifact to nobody
(`PlacedForKnown`), and only the same agent, by its next list, reports anything; so
where it cleans up by such a list nothing else is placed on its node
(`EmptyListsAreSafe`). A marker is of the file beside it, or the file came without one
(`MarkerIsTrue`). Contents grow from the controller's file to the node's to what a
snapshot is being taken of (`ContentsGrow`), so a snapshot that is of neither has
outlived something or another artifact was downloaded (`SnapshotIsCurrent`).

**Enrollment**: `TInv`, that a token which memory or database takes for unused has
given nothing; a failed save does not matter, because its caller gets no answer. `OInv`
adds `Linked` (a credential in a table of the controller goes with the id it was issued
for, in memory and in the database), `Acting` and `Apart`, that no two machines have an
id in common in their files, agents or joins. `Apart` is what makes identities unique,
and holds because a new id is nobody's, which is where `HeldIds` matters. `CInv`, for
`CredentialsLast`, has the stages of a `join` (`Stage`): which files are written by then,
and that no agent runs on half of them; so what a machine reads belongs together and is
`Known` to the controller. `ZInv` says that an agent between the two halves of its
registration has a credential unless its node was removed.

Only model-checked: liveness (`WarmSettles`, `QueueDrains`, `StartsAreGranted`,
`AgentComesBack`, `RetiredVmsGo`, `GuestAnswers`, `JoinedComesUp`, `GetsReady`), which
the prover does not reach.

## Findings

One run checks what the documentation says and TLC finds it violated; `PROJECT.json`
quotes both sides.

* `crash`: an agent restarts, or its one report is lost; `register_node` resets its
  idle instances and requeues nothing, so the execution runs for ever and the
  SDK's `wait` never returns. An execution that is lost this way also keeps counting
  towards `max_instances` of its pool.

Also seen while modelling. Where a property is named, it says how far the damage goes,
and holds:

* `create_environment` commits an environment whose image was deleted during the build,
  and an update one whose artifact was (`LossesFromStaleChecks`). `create_execution` then
  indexes the map of images with it; nodes ask for a file that is gone.
* Handlers that write executions after they dropped the lock write them as they were. An
  execution that finished meanwhile is active again in the table and runs again after a
  restart (`RevivedByStaleSave`). It takes a write that is delayed for as long as an
  execution lasts.
* `restart_environment` and `update_environment` save the cluster without the old pool
  before the executions they moved; a controller that stops in between reloads them on a
  pool that is gone (`StrandedByUnsavedMove`).
* A controller that restarts queues what was running, but the saved nodes keep its
  resources counted, and `reset_idle_instances` gives back only idle instances: the
  number in the console grows with restarts under load. It is only shown, never compared
  with a capacity. After a restart nothing schedules until a node calls, so a new
  submission may overtake the reloaded queue; no document promises that order.
* After such a restart `restart_environment_pool` can panic on the `unwrap` of the old pool
  (api.rs:1390), having moved what waited to a pool that it does not come to create
  (`PanicMoving`).
* `delete_pool` removes a pool an environment owns; submissions to the environment are
  refused from then on, until it is restarted. A VM pool whose image is given an executor
  by `update_image` becomes an environment at the next restart.
* `maintain_vms` takes all idle MicroVMs out of the table while it asks about each. An
  execution placed on one of them meanwhile starts another MicroVM, past `max_instances`
  and past what is reserved (`DriftExplained`).
* With `max_instances` of 1, an idle warm MicroVM on a node that is not ready blocks the
  queue of its environment until that node is in sync again.
* `start_vm` returns by `?` between leasing its network and starting Firecracker, and
  `allocate` between two ports: what was taken is never given back (`LeaksExplained`). A
  rule whose deletion failed leads the next MicroVM's port to a stale address
  (`MisroutesExplained`).
* A host that is wrong about a function or a directory in a MicroVM
  (`FalseBeliefsExplained`) stays wrong: every later execution with it fails in this
  MicroVM, which counts as healthy and is kept.
* README.md:31 calls package environments "content-addressed", and README.md:47 says they
  "are built once". Two concurrent
  `prepare_environment_artifact` of the same packages both build (api.rs:1187), and
  builds differ. The environment that recorded the first can then never be verified
  (`BrokenExplained`): the agent of every node ends in each round of its sync, with all
  its MicroVMs, until that environment is deleted (`ExitsExplained`). An update that
  keeps the packages commits the checksum it read before it waited for the lock, and may
  break its environment in the same way.
* `update_environment` that takes the last environment off an artifact leaves the
  artifact in `Node.environments` and its file at the controller, where only
  `delete_environment` of an environment that has it would remove them. The agents do
  remove their file, so an execution that was handed out on the retired pool may find
  no drive, and an environment that takes up the artifact later counts as ready on
  nodes that have nothing of it (`StartsKeepTheirFiles`).
* An update between an agent's list and its download or report ends the agent with all
  its MicroVMs (`ExitsExplained`). The download has by then put the other artifact under
  the name of the first, where the marker of the first may be believed (`ReportsAreTrue`,
  `StaleSnapshotsExplained`).
* `sync_snapshots` goes by a list of pools that may be older than a pool: it deletes the
  snapshot that the pool's first start has just taken, and that start fails.
* `snapshot_key` has the artifact's key and not its checksum: after a deletion and a
  rebuild between two rounds, a MicroVM is restored with the memory of the old file
  system over the new drive (`StaleSnapshotsExplained`). A file that was renamed into
  place before a crash is believed by the marker of its predecessor (`ReportsAreTrue`).
* README.md:15 says of `join`: "The command refuses to run on that controller itself."
  It compares with a `controller-id` file that `serve` removes at its start and nothing
  writes (join.rs:43), so it does run there, and disables its own controller
  (`JoinedComesUp` has to exclude that).
* A node removed between the two halves of `register_node` comes back without a
  credential (`ZombiesExplained`). As no agent can act as it, images are never ready on
  all nodes again. Deleting the controller's own node is undone by its agent, which
  enrolls again. A `join` whose answer is lost leaves a credential that `list_nodes`
  does not show.

## What is not modelled

* Working directories: archives are stored under their hash, checked against it at both
  ends under a lock, and never deleted. Checking the hash is all there is to say.
* `sync_images`: it goes like `sync_environments`, with ids that are never built again,
  so that none of the races of `Distribution` apply. (An image that is not ext4 is never
  reported ready.)
* The builds themselves (docker, skopeo, mke2fs): a build is a new content, or fails. Torn
  writes of single files in `join`, and what it reads from an old configuration.
* MicroVM reports and metrics, views, names, labels, encryption of secrets, payload
  encodings: nothing that is modelled depends on them. Writes that fail while the
  controller's lock is held: of the `save` in `complete_execution` (api.rs:2433) only what
  follows from the failing write of the row after it is covered.
* Firecracker, cgroups, mounts, the guest's network and services: calls that succeed or
  fail. The Python SDK, the console and the installer are clients or scripts without state
  of their own that the rest depends on.

## Plan

All components that keep state are modelled, but for what the section before names, and
all safety properties are proved. Left:

1. What the proofs establish on the way and no property says yet: that `create_execution`
   schedules at once whatever can be placed; that the agents' tasks are those of their
   runs, so that a lost run is always one that `crash` shows.
2. The safety side of the liveness properties: the measures by which `maintain_vms` comes
   to an end (`AgentComesBack`) and warm instances settle (`WarmSettles`), as action
   properties that the prover reaches.
3. `ExecutionStore` from `InService` as well as from nothing, so that the theorems cover
   the starting states of `writes` directly and not as states reachable from `StoreSpec`.
