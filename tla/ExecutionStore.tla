--------------------------- MODULE ExecutionStore ---------------------------
(***************************************************************************)
(* The controller with its database: what platform/src/storage.rs keeps of *)
(* executions, when the handlers of api.rs write it, and what a controller *)
(* that restarts makes of it.                                              *)
(*                                                                         *)
(* Most handlers write before they let go of the cluster's lock.  Three    *)
(* write after it (next_work, complete_execution and the restart of an     *)
(* environment), so other handlers run in between: `pending` holds what    *)
(* they have still to write.  A write may fail, and the controller may go  *)
(* down between any two.                                                   *)
(*                                                                         *)
(* Time is left open: retention may have run out for any finished          *)
(* execution, and those pruned for their size are any that suffice.        *)
(***************************************************************************)
EXTENDS Controller

LOCAL INSTANCE Functions

CONSTANTS
  Slot,        \* bound: handlers that have let go of the lock and not written
  Limits,      \* the values of max_storage_bytes
  MaxRestarts  \* bound: restarts of the controller

VARIABLES
  rows,      \* the executions table
  saved,     \* the cluster in the metadata table, which leaves executions out
  limit,     \* max_storage_bytes
  pending,   \* what handlers without the lock have to write
  ghosts,    \* runs handed out by an earlier process of the controller
  restarts   \* how often the controller has restarted

storeVars == <<rows, saved, limit, pending, ghosts, restarts>>
allVars == <<vars, storeVars>>

Row == [status : {"queued", "assigned", "running", "finished"}, pool : Pool,
        node : Node \cup {None}, env : Env, secrets : BOOLEAN, result : BOOLEAN,
        size : Nat]

\* Executions to save as they were under the lock, then the one to complete
\* and whether it has a result; `node` is set if it waits for the answer.
Tail == [recs : [Exec -> ExecRec \cup {None}], ends : Exec \cup {None},
         result : BOOLEAN, node : Node \cup {None}]

ASSUME StoreAssumption ==
  /\ Limits \subseteq Nat \ {0} /\ Limits # {}
  /\ MaxRestarts \in Nat
  /\ None \notin Row /\ None \notin Tail

Stored(c) == [c EXCEPT !.execs = [e \in Exec |-> None]]

StoreTypeOK ==
  /\ TypeOK
  /\ rows \in [Exec -> Row \cup {None}]
  /\ saved \in Cluster /\ saved = Stored(saved)
  /\ limit \in Limits
  /\ pending \in [Slot -> Tail \cup {None}]
  /\ ghosts \subseteq Node \X Exec
  /\ restarts \in 0..MaxRestarts

StoreInit ==
  /\ rows = [e \in Exec |-> None]
  /\ saved = cluster
  /\ limit \in Limits
  /\ pending = [s \in Slot |-> None]
  /\ ghosts = {}
  /\ restarts = 0

-----------------------------------------------------------------------------
(* The table.  A payload, the secrets, a result, and the metrics a finished *)
(* execution has are of size 1 each.                                        *)

One(b) == IF b THEN 1 ELSE 0

\* What a row's columns take.
Columns(row) == 1 + One(row.secrets) + One(row.result) + One(row.status = "finished")

Finished(rs) == {e \in Exec : rs[e] # None /\ rs[e].status = "finished"}

IsActive(rs, e) == rs[e] # None /\ rs[e].status # "finished"

\* storage_used.
Used(rs) == Total([e \in Exec |-> IF rs[e] = None THEN 0 ELSE rs[e].size], MaxExec)

Without(rs, gone) == [e \in Exec |-> IF e \in gone THEN None ELSE rs[e]]

\* prune: finished executions past their retention go, then as many more as the
\* limit takes; `keep` is protected.
Pruned(rs, lim, keep) ==
  LET candidates == Finished(rs) \ {keep}
  IN  {Without(rs, gone) : gone \in
         {g \in SUBSET candidates : g = candidates \/ Used(Without(rs, g)) <= lim}}

\* upsert_execution: all columns but the secrets are overwritten, whatever the
\* row says by now.
Upsert(rs, e, rec) ==
  LET kept == rs[e] # None /\ rs[e].secrets
      row  == [status |-> rec.status, pool |-> rec.pool, node |-> rec.node,
               env |-> rec.env, secrets |-> kept, result |-> FALSE, size |-> 0]
  IN  [rs EXCEPT ![e] = [row EXCEPT !.size = Columns(row)]]

\* save_executions.
SaveAll(rs, recs) ==
  [e \in Exec |-> IF recs[e] = None THEN rs[e] ELSE Upsert(rs, e, recs[e])[e]]

\* Mutant: the size of the secrets is left in the row's.
Complete_SecretsCounted(rs, e, result) ==
  [rs EXCEPT ![e] = [@ EXCEPT !.status = "finished", !.result = result, !.secrets = FALSE,
                              !.size = 2 + One(result) + One(rs[e].secrets)]]

\* complete_execution's row: its result and metrics, no secrets any more.  Nothing
\* goes by where it ran, which the code writes again.
Complete(rs, e, result) ==
  [rs EXCEPT ![e] = [@ EXCEPT !.status = "finished", !.result = result,
                              !.secrets = FALSE, !.size = 2 + One(result)]]

-----------------------------------------------------------------------------
(* Handlers that write while they hold the lock. *)

\* The executions a step changes and keeps: those schedule_queued placed and
\* those restart_environment_pool moved.
Changed == [e \in Exec |-> IF cluster.execs[e] # None /\ cluster'.execs[e] # cluster.execs[e]
                           THEN cluster'.execs[e] ELSE None]

NoRecs == [e \in Exec |-> None]

\* An id nothing refers to, as Uuid::new_v4 returns.
Unused(e) ==
  /\ rows[e] = None
  /\ \A n \in Node : <<n, e>> \notin ghosts
  /\ \A s \in Slot : pending[s] # None => pending[s].recs[e] = None /\ pending[s].ends # e

\* A name the cluster gains is none a row may bring back, as Uuid::new_v4 ensures;
\* users choose theirs, but nothing runs on those unless
\* they were migrated.
NewNames ==
  /\ \A p \in Pool \ UserPool :
       cluster.pools[p] = None /\ cluster'.pools[p] # None =>
         /\ \A e \in Exec : IsActive(rows, e) => rows[e].pool # p
         /\ \A s \in Slot, e \in Exec :
              pending[s] # None /\ pending[s].recs[e] # None => pending[s].recs[e].pool # p
  /\ \A i \in Env :
       cluster.envs[i] = None /\ cluster'.envs[i] # None =>
         \A e \in Exec : IsActive(rows, e) => rows[e].env # i

\* create_execution: a row first; no execution without one.
Insert(e, i, p, secrets) ==
  LET rec == [status |-> "queued", pool |-> p, node |-> None, env |-> i]
      row == Upsert(rows, e, rec)
  IN  Pruned([row EXCEPT ![e].secrets = secrets, ![e].size = @ + One(secrets)], limit, e)

\* It is accepted, and saved again as schedule left it.
SubmitAccepted(e, i, p, secrets) ==
  /\ Unused(e)
  /\ CreateExecution(e, i, p, TRUE)
  /\ \E rs \in Insert(e, i, p, secrets) :
       /\ Used(rs) <= limit
       /\ rows' = Upsert(rs, e, cluster'.execs[e])
  /\ UNCHANGED <<saved, limit, pending, ghosts, restarts>>

\* It is refused: the storage is full, or the cluster is and it was not to queue.
SubmitRefused(e, i, p, secrets) ==
  /\ Unused(e)
  /\ cluster.execs[e] = None
  /\ Target(i, p)
  /\ cluster.images[cluster.pools[p].cfg.image] = "runtime"
  /\ \E rs \in Insert(e, i, p, secrets) :
       /\ Used(rs) > limit \/ ~ Schedulable(cluster, p)
       /\ rows' = Without(rs, {e})
  /\ UNCHANGED <<vars, saved, limit, pending, ghosts, restarts>>

\* The handlers that save the cluster and what they scheduled.
Saving(handler) ==
  /\ handler
  /\ NewNames
  /\ rows' = SaveAll(rows, Changed)
  /\ saved' = Stored(cluster')
  /\ UNCHANGED <<limit, pending, restarts>>

\* Handlers of nodes.
NodeSaves ==
  \/ \E n \in Node :
       \/ Saving(Heartbeat(n)) /\ UNCHANGED ghosts
       \/ Saving(StartAgent(n)) /\ ghosts' = {run \in ghosts : run[1] # n}
       \/ Saving(DeleteNode(n)) /\ ghosts' = {run \in ghosts : run[1] # n}
  \/ \E n \in Node, p \in Pool :
       Saving(AddWarmInstance(n, p) \/ RemoveIdleInstance(n, p)) /\ UNCHANGED ghosts
  \/ \E n \in Node, i \in Image : Saving(ImageArrived(n, i)) /\ UNCHANGED ghosts
  \/ \E n \in Node, a \in Artifact : Saving(ArtifactArrived(n, a)) /\ UNCHANGED ghosts

\* Handlers of users.
UserSaves ==
  /\ \/ \E i \in Image, kind \in {"vm", "runtime"} :
          Saving(ImportImage(i, kind)) \/ Saving(UpdateImage(i, kind))
     \/ \E i \in Image : Saving(DeleteImage(i))
     \/ \E p \in UserPool, cfg \in PoolConfig : Saving(CreatePool(p, cfg))
     \/ \E p \in Pool : Saving(DeletePool(p))
     \/ \E r \in Req : Saving(CommitCreate(r))
     \/ \E i \in Env : Saving(DeleteEnvironment(i))
  /\ UNCHANGED ghosts

\* What create_environment and update_environment do before their write lock.
Preparing ==
  /\ \/ \E r \in Req, cfg \in EnvConfig : BeginCreate(r, cfg)
     \/ \E r \in Req, i \in Env, cfg \in EnvConfig : BeginUpdate(r, i, cfg)
     \/ \E r \in Req : PrepareArtifact(r) \/ AbandonRequest(r)
  /\ UNCHANGED storeVars

-----------------------------------------------------------------------------
(* Handlers that write after they let go of the lock. *)

\* Mutant: the cluster is not saved.
SaveLater_ClusterUnsaved(s, handler) ==
  /\ pending[s] = None
  /\ handler
  /\ NewNames
  /\ pending' = [pending EXCEPT ![s] =
       [recs |-> Changed, ends |-> None, result |-> FALSE, node |-> None]]
  /\ UNCHANGED <<rows, saved, limit, ghosts, restarts>>

\* restart_environment and update_environment save the cluster under the lock, the
\* executions they moved and scheduled later.
SaveLater(s, handler) ==
  /\ pending[s] = None
  /\ handler
  /\ NewNames
  /\ saved' = Stored(cluster')
  /\ pending' = [pending EXCEPT ![s] =
       [recs |-> Changed, ends |-> None, result |-> FALSE, node |-> None]]
  /\ UNCHANGED <<rows, limit, ghosts, restarts>>

\* restart_environment_pool unwraps the old pool while something runs on it.  It may
\* be gone: a restart brings back an execution of an environment deleted since, on
\* a pool whose name went to another one.
OldPoolGone(p) ==
  /\ cluster.pools[p] = None
  /\ \E e \in Exec : /\ cluster.execs[e] # None
                    /\ cluster.execs[e].pool = p
                    /\ cluster.execs[e].status = "running"

\* Then the handler panics: what waited has been moved, and nothing is saved.
PanicMoving(p) ==
  /\ FreshPools # {}
  /\ cluster' = Requeue(cluster, p, NewId(FreshPools))
  /\ UNCHANGED <<files, runs, storeVars>>

\* restart_environment.
RestartSaves(s, i) ==
  IF cluster.envs[i] # None /\ OldPoolGone(cluster.envs[i].pool)
  THEN PanicMoving(cluster.envs[i].pool) /\ UNCHANGED requests
  ELSE SaveLater(s, RestartEnvironment(i))

\* update_environment under its write lock.
UpdateSaves(s, r) ==
  IF /\ requests[r] # None /\ requests[r].env # None /\ requests[r].built
     /\ Rebuilds(requests[r].old.cfg, requests[r].cfg)
     /\ OldPoolGone(requests[r].old.pool)
  THEN PanicMoving(requests[r].old.pool) /\ requests' = [requests EXCEPT ![r] = None]
  ELSE SaveLater(s, CommitUpdate(r))

\* next_work: the execution is running in memory, its row comes next, and only
\* then is it handed out.
TakeWork(s, n, e) ==
  /\ pending[s] = None
  /\ NextWork(n, e)
  /\ pending' = [pending EXCEPT ![s] =
       [recs |-> Changed, ends |-> None, result |-> FALSE, node |-> n]]
  /\ UNCHANGED <<rows, saved, limit, ghosts, restarts>>

Answered(n, e) ==
  \A s \in Slot : pending[s] # None /\ pending[s].node = n => pending[s].recs[e] = None

\* complete_execution: the execution leaves memory; others it made room for are
\* to be saved, and then its own end.
Ended(s, e, result) ==
  pending' = [pending EXCEPT ![s] =
    [recs |-> [Changed EXCEPT ![e] = None], ends |-> e, result |-> result, node |-> None]]

Report(s, n, e, keepIdle, result) ==
  /\ pending[s] = None
  /\ Answered(n, e)
  /\ CompleteExecution(n, e, keepIdle)
  /\ IF cluster.execs[e] # None /\ cluster.execs[e].node = n
     THEN saved' = Stored(cluster') /\ Ended(s, e, result)
     ELSE UNCHANGED <<saved, pending>>
  /\ UNCHANGED <<rows, limit, ghosts, restarts>>

\* A report of a run from before a restart of the controller: the execution may
\* be queued, on another node, or on the same one again.
LateReport(s, n, e, keepIdle, result) ==
  /\ pending[s] = None
  /\ <<n, e>> \in ghosts
  /\ IF cluster.execs[e] # None /\ cluster.execs[e].node = n
     THEN /\ cluster' = Finish(cluster, e, keepIdle)
          /\ saved' = Stored(cluster')
          /\ Ended(s, e, result)
     ELSE UNCHANGED <<cluster, saved, pending>>
  /\ ghosts' = ghosts \ {<<n, e>>}
  /\ UNCHANGED <<requests, files, runs, rows, limit, restarts>>

\* save_executions, and save_execution in next_work.
Save(s) ==
  /\ pending[s] # None
  /\ pending[s].recs # NoRecs
  /\ rows' = SaveAll(rows, pending[s].recs)
  /\ pending' = [pending EXCEPT ![s] =
       IF pending[s].ends = None THEN None ELSE [pending[s] EXCEPT !.recs = NoRecs]]
  /\ UNCHANGED <<vars, saved, limit, ghosts, restarts>>

\* Mutant: a result is kept whatever room there is.
End_NoLimit(s) ==
  /\ pending[s] # None
  /\ pending[s].recs = NoRecs
  /\ LET e == pending[s].ends
     IN  IF e = None THEN UNCHANGED rows
         ELSE rows' \in Pruned(Complete(rows, e, pending[s].result), limit, e)
  /\ pending' = [pending EXCEPT ![s] = None]
  /\ UNCHANGED <<vars, saved, limit, ghosts, restarts>>

\* Database::complete_execution: a result that does not fit after all that can
\* go has gone is dropped, and the execution fails.
End(s) ==
  /\ pending[s] # None
  /\ pending[s].recs = NoRecs
  /\ LET e == pending[s].ends
     IN  IF e = None THEN UNCHANGED rows
         ELSE \E rs \in Pruned(Complete(rows, e, pending[s].result), limit, e) :
                rows' = IF Used(rs) > limit THEN Complete(rs, e, FALSE) ELSE rs
  /\ pending' = [pending EXCEPT ![s] = None]
  /\ UNCHANGED <<vars, saved, limit, ghosts, restarts>>

\* A write fails: the handler answers 500 and gives up what it had to write, and
\* next_work's execution is handed to nobody.
FailWrite(s) ==
  /\ pending[s] # None
  /\ pending' = [pending EXCEPT ![s] = None]
  /\ runs' = IF pending[s].node = None THEN runs
             ELSE {run \in runs : run[1] # pending[s].node \/ Answered(run[1], run[2])}
  /\ UNCHANGED <<cluster, requests, files, rows, saved, limit, ghosts, restarts>>

-----------------------------------------------------------------------------
(* The database on its own, and the restart of the controller. *)

\* The garbage collector's turn, every minute.
Collect ==
  /\ rows' \in Pruned(rows, limit, None)
  /\ UNCHANGED <<vars, saved, limit, pending, ghosts, restarts>>

\* update_storage_settings.
SetStorageLimit(l) ==
  /\ limit' = l
  /\ rows' \in Pruned(rows, l, None)
  /\ UNCHANGED <<vars, saved, pending, ghosts, restarts>>

\* load_active_executions: whatever had not finished is queued again.
Loaded(rs) ==
  [e \in Exec |-> IF IsActive(rs, e)
                  THEN [status |-> "queued", pool |-> rs[e].pool, node |-> None, env |-> rs[e].env]
                  ELSE None]

\* Mutant: whatever is in the table.
Requeued_All(rs) ==
  [e \in Exec |-> IF rs[e] # None THEN [rs[e] EXCEPT !.status = "queued", !.node = None]
                  ELSE None]

\* Its update of the table.
Requeued(rs) ==
  [e \in Exec |-> IF IsActive(rs, e) THEN [rs[e] EXCEPT !.status = "queued", !.node = None]
                  ELSE rs[e]]

\* Pools that belong to nobody but hold an image with an executor: from a version
\* without environments, or given the executor by an update of the image since.
Legacy(c) == {p \in Pool : /\ c.pools[p] # None
                           /\ c.pools[p].env = None
                           /\ c.images[c.pools[p].cfg.image] = "runtime"}

\* Environment ids nothing refers to after a restart.
NewEnvs == {i \in Env : /\ saved.envs[i] = None
                        /\ \A p \in Pool : saved.pools[p] # None => saved.pools[p].env # i
                        /\ \A e \in Exec : IsActive(rows, e) => rows[e].env # i}

\* migrate_legacy: each becomes the pool of an environment of its own, without
\* packages.  No executions are loaded yet, so none is told.
Migrated(c, id) ==
  [c EXCEPT
     !.pools = [p \in Pool |-> IF p \in Legacy(c) THEN [c.pools[p] EXCEPT !.env = id[p]]
                                                  ELSE c.pools[p]],
     !.envs = [i \in Env |->
        IF \E p \in Legacy(c) : id[p] = i
        THEN LET p == CHOOSE x \in Legacy(c) : id[x] = i
             IN  [pool |-> p, cfg |-> [c.pools[p].cfg EXCEPT !.artifact = None]]
        ELSE c.envs[i]]]

\* The controller goes down, whatever it had to write, and serve() starts again.
\* Agents may go on with what they run and report it to the new process.
Restart ==
  /\ restarts < MaxRestarts
  /\ restarts' = restarts + 1
  /\ \E id \in [Legacy(saved) -> NewEnvs] :
       /\ IsInjective(id)
       /\ saved' = Migrated(saved, id)
       /\ cluster' = [Migrated(saved, id) EXCEPT !.execs = Loaded(rows)]
  /\ rows' \in Pruned(Requeued(rows), limit, None)
  /\ ghosts' = ghosts \cup {run \in runs : Answered(run[1], run[2])}
  /\ runs' = {}
  /\ requests' = [r \in Req |-> None]
  /\ pending' = [s \in Slot |-> None]
  /\ UNCHANGED <<files, limit>>

-----------------------------------------------------------------------------

SubmitStep == \E e \in Exec, i \in Env, p \in Pool, secrets \in BOOLEAN :
                SubmitAccepted(e, i, p, secrets) \/ SubmitRefused(e, i, p, secrets)

WorkStep ==
  \/ \E s \in Slot, n \in Node, e \in Exec : TakeWork(s, n, e)
  \/ \E s \in Slot, n \in Node, e \in Exec, keepIdle, result \in BOOLEAN :
       Report(s, n, e, keepIdle, result) \/ LateReport(s, n, e, keepIdle, result)

WriteStep == \E s \in Slot : Save(s) \/ End(s) \/ FailWrite(s)

StoreNext ==
  \/ SubmitStep \/ WorkStep \/ WriteStep \/ NodeSaves \/ UserSaves \/ Preparing
  \/ \E s \in Slot, i \in Env : RestartSaves(s, i)
  \/ \E s \in Slot, r \in Req : UpdateSaves(s, r)
  \/ Collect \/ \E l \in Limits : SetStorageLimit(l)
  \/ Restart

EmptyInit == Init /\ StoreInit

StoreSpec == EmptyInit /\ [][StoreNext]_allVars

-----------------------------------------------------------------------------
(* Safety. *)

\* size_bytes, which is kept by adding and subtracting, is what the columns take,
\* and a finished execution keeps no secrets.
SizesExact ==
  \A e \in Exec : rows[e] # None =>
    /\ rows[e].size = Columns(rows[e])
    /\ rows[e].status = "finished" => ~ rows[e].secrets

\* s has still to write e as it was before.
StaleSave(s, e) == pending[s] # None /\ pending[s].recs[e] # None

\* Past its limit with results: more than the executions that are not over and the
\* metrics of the last that was.
Overfull(rs, lim) ==
  /\ Used(rs) > lim
  /\ Cardinality(Finished(rs)) > 1 \/ \E e \in Finished(rs) : rs[e].result

\* Results take the table past its limit only when a write that was delayed past the
\* end of an execution brings back a row that had been pruned.
ResultsWithinLimit ==
  [][Overfull(rows', limit') =>
       \/ Overfull(rows, limit)
       \/ \E s \in Slot, e \in Exec :
            StaleSave(s, e) /\ pending'[s] # pending[s] /\ rows[e] = None]_allVars

\* An execution that is over is taken for active again only by a write that was
\* delayed past its end: not by a restart, a late report or pruning.
RevivedByStaleSave ==
  [][\A e \in Finished(rows) :
       IsActive(rows', e) => \E s \in Slot : StaleSave(s, e) /\ pending'[s] # pending[s]]_allVars

\* What a restarted controller starts from is what was decided: the metadata table
\* is never behind in images, pools and environments, nor in the nodes and what
\* they hold.  Only executions and the counters they move may be older.
MetadataIsCurrent ==
  /\ saved.images = cluster.images
  /\ saved.pools = cluster.pools
  /\ saved.envs = cluster.envs
  /\ \A n \in Node :
       IF cluster.nodes[n] = None THEN saved.nodes[n] = None
       ELSE /\ saved.nodes[n] # None
            /\ \A f \in {"images", "artifacts", "ready"} :
                 saved.nodes[n][f] = cluster.nodes[n][f]

\* A restart leaves an execution on a pool that is gone, where nothing ever places it,
\* only if its row was behind: it had been moved to another pool, or was over, and that
\* was not written yet, or its write failed.  restart_environment saves the cluster
\* without the old pool before the executions it moved.
StrandedByUnsavedMove ==
  [][restarts' # restarts =>
       \A e \in Exec :
         /\ cluster'.execs[e] # None
         /\ cluster'.pools[cluster'.execs[e].pool] = None
         => \/ cluster.execs[e] = None
            \/ cluster.pools[cluster.execs[e].pool] = None
            \/ rows[e].pool # cluster.execs[e].pool]_allVars

-----------------------------------------------------------------------------
(* Refinement. *)

\* What is in memory waits or runs, and would be lost without an active row; what is
\* not is over as far as its row says so.
LifeIn(c, rs) ==
  [e \in Exec |->
    IF c.execs[e] # None
    THEN IF ~ IsActive(rs, e) THEN "lost"
         ELSE IF c.execs[e].status = "running" THEN "running" ELSE "waiting"
    ELSE IF rs[e] = None THEN "unknown"
    ELSE IF rs[e].status = "finished" THEN "over" ELSE "ending"]

lifeBar == LifeIn(cluster, rows)

Life == INSTANCE ExecutionLife WITH life <- lifeBar, starts <- restarts

\* The controller and its database implement the life of an execution: one that is in
\* memory has an active row whatever is pruned, written late or fails; a restart forgets
\* none; an end is there when its handler has written it; and none that a node was
\* handed is queued or handed out again while the controller stays up.
ImplementsLife == Life!Spec

=============================================================================
