---------------------------- MODULE Distribution ----------------------------
(***************************************************************************)
(* How a package artifact comes to a node: create_environment,             *)
(* update_environment and delete_environment at the controller             *)
(* (platform/src/api.rs), the agent's sync_environments and                *)
(* sync_snapshots, and start_vm beside them (platform/src/node.rs), while  *)
(* the agent ends at any moment.                                           *)
(*                                                                         *)
(* One artifact: its key is a hash of the image and the names of packages, *)
(* so that what one build of it holds is not what another does.  Contents  *)
(* are numbers, and a checksum is the content it is of.  Every other       *)
(* artifact, and having none, is Other.  One node, and one of the          *)
(* snapshots the artifact's pools may have: their keys differ in size,     *)
(* network and preload.  The pools themselves are in Controller: here one  *)
(* with the artifact may be there whatever its environment has, as         *)
(* update_environment keeps those that something runs on.                  *)
(*                                                                         *)
(* Starts are those of executions, which run beside the agent's loop.  The *)
(* loop starts warm MicroVMs itself, after sync_snapshots and only for     *)
(* pools whose snapshot is there, which changes nothing here.              *)
(***************************************************************************)
EXTENDS Integers, FiniteSets

CONSTANTS
  Env,         \* environments
  Req,         \* requests that create one with the artifact, or update one to have it
  Target,      \* the environment of each request
  MaxBuilds,   \* bound: builds of the artifact
  MaxRecords,  \* bound: times an environment is created or updated
  None

Content == 1..MaxBuilds

Other == 0

VARIABLES
  file,       \* the artifact in the controller's `environments` directory
  builds,
  requests,   \* those of Req that are under way, before the write lock
  envs,       \* the sha256 of the environments that have the artifact
  confirmed,  \* the artifact is among Node.environments
  stale,      \* history: see Unused
  records,
  nodeFile,   \* what is under the artifact's name on the node
  marker,     \* what the .sha256 file beside it says
  snapshot,   \* the content the node's snapshot was taken with
  agent,
  start,      \* a start_vm under way
  torn,       \* history: the file was replaced and its marker was not
  outlived,   \* history: see Outlives
  killed      \* the agent ended for a reason outside of this

cluster == <<envs, confirmed, stale, records>>
controller == <<file, builds, requests, cluster>>
disk == <<nodeFile, marker, torn>>
snap == <<snapshot, outlived>>
vars == <<controller, disk, snap, agent, start, killed>>

Known == {i \in Env : envs[i] \in Content}

Request == [at : {"build", "hash"}, sha : {None}] \cup [at : {"commit"}, sha : Content]

Listed == [env : Env, sha : Content]

\* sync_environments: "list", "check", and what it does for `cur`: "download", "mark",
\* "ready"; sync_snapshots: "pools", "snapshot", "sweep".
Agent == [at : {"list", "check", "download", "mark", "ready", "pools", "snapshot", "sweep"},
          todo : SUBSET Listed, cur : Listed \cup {None}, wanted : BOOLEAN]

\* From the moment the node is given an execution of `env`, on a pool with the artifact:
\* `own` until the environment is updated to have another.
Start == [env : Env, own : BOOLEAN, at : {"ensure", "making", "load"},
          of : Content \cup {Other, None}]

ASSUME DistributionAssumption ==
  /\ MaxBuilds \in Nat /\ MaxRecords \in Nat
  /\ Target \in [Req -> Env]
  /\ None \notin Nat \cup Env \cup Agent \cup Start \cup Request \cup Listed

DistTypeOK ==
  /\ file \in Content \cup {None}
  /\ builds \in 0..MaxBuilds
  /\ requests \in [Req -> Request \cup {None}]
  /\ envs \in [Env -> Content \cup {Other, None}]
  /\ confirmed \in BOOLEAN /\ stale \in BOOLEAN
  /\ records \in 0..MaxRecords
  /\ nodeFile \in Content \cup {Other, None}
  /\ marker \in Content \cup {None}
  /\ snapshot \in Content \cup {Other, None}
  /\ agent \in Agent \cup {None}
  /\ start \in Start \cup {None}
  /\ torn \in BOOLEAN /\ outlived \in BOOLEAN /\ killed \in BOOLEAN

Idle == [at |-> "list", todo |-> {}, cur |-> None, wanted |-> FALSE]

DistInit ==
  /\ file = None /\ builds = 0
  /\ requests = [r \in Req |-> None]
  /\ envs = [i \in Env |-> None]
  /\ confirmed = FALSE /\ stale = FALSE /\ records = 0
  /\ nodeFile = None /\ marker = None /\ torn = FALSE
  /\ snapshot = None /\ outlived = FALSE
  /\ agent = Idle
  /\ start = None
  /\ killed = FALSE

-----------------------------------------------------------------------------
(* The controller: create_environment and update_environment. *)

\* prepare_environment_artifact: is the file there?
Prepare(r) ==
  /\ requests[r] = None
  /\ requests' = [requests EXCEPT ![r] =
       [at |-> IF file = None THEN "build" ELSE "hash", sha |-> None]]
  /\ UNCHANGED <<file, builds, cluster, disk, snap, agent, start, killed>>

\* An update that leaves image and packages as they are goes by the checksum it has read.
Keep(r) ==
  /\ requests[r] = None
  /\ envs[Target[r]] \in Content
  /\ requests' = [requests EXCEPT ![r] = [at |-> "commit", sha |-> envs[Target[r]]]]
  /\ UNCHANGED <<file, builds, cluster, disk, snap, agent, start, killed>>

Requested(r, step) == requests[r] # None /\ requests[r].at = step

\* A snapshot is there that is of none of the artifact's environments any more, or not
\* of the file they go by now.
Outlives(left, content) ==
  snapshot # None /\ (left = {} \/ (file # None /\ content # file))

\* build_environment, which renames what it has built to the key, whatever is there.
Build(r) ==
  /\ Requested(r, "build")
  /\ builds < MaxBuilds
  /\ builds' = builds + 1
  /\ file' = builds + 1
  /\ requests' = [requests EXCEPT ![r].at = "hash"]
  /\ outlived' = (outlived \/ Outlives(Known, builds + 1))
  /\ UNCHANGED <<cluster, disk, snapshot, agent, start, killed>>

\* The build fails, or the caller goes away.
Abandon(r) ==
  /\ requests[r] # None
  /\ requests' = [requests EXCEPT ![r] = None]
  /\ UNCHANGED <<file, builds, cluster, disk, snap, agent, start, killed>>

\* hash_file, an error if the file has gone since.
HashFile(r) ==
  /\ Requested(r, "hash")
  /\ requests' = [requests EXCEPT ![r] =
       IF file = None THEN None ELSE [at |-> "commit", sha |-> file]]
  /\ UNCHANGED <<file, builds, cluster, disk, snap, agent, start, killed>>

\* The node is taken to have an artifact that no environment has any more.
Unused == Known # {} /\ Known' = {} /\ confirmed

\* Under the write lock: environment i is inserted, put back if it was deleted meanwhile.
\* (To create one is to give it an id that is free.)  The artifact it had stays on disk and
\* in `environments` of the nodes, its pool while something runs there.
Record(i, sha) ==
  /\ records < MaxRecords /\ records' = records + 1
  /\ envs' = [envs EXCEPT ![i] = sha]
  /\ stale' = (stale \/ Unused)
  /\ start' = IF start # None /\ start.env = i /\ sha = Other
              THEN [start EXCEPT !.own = FALSE] ELSE start
  /\ UNCHANGED <<file, builds, confirmed, disk, snap, agent, killed>>

\* It has the artifact now.
Commit(r) ==
  /\ Requested(r, "commit")
  /\ Record(Target[r], requests[r].sha)
  /\ requests' = [requests EXCEPT ![r] = None]

\* It has other packages, or none; what comes before the lock changes nothing here.
Leave(i) == Record(i, Other) /\ UNCHANGED requests

-----------------------------------------------------------------------------
(* The controller: delete_environment. *)

\* Mutant: the file goes with any of them.
LastUser_Always(i) == TRUE

LastUser(i) == Known = {i}

\* Mutant: the nodes are taken to have what they are about to remove.
Forget_No == UNCHANGED <<confirmed, stale>>

\* The artifact is taken from `environments` of the nodes.
Forget == confirmed' = FALSE /\ stale' = FALSE

\* Refused while executions of the environment are active.
Delete(i) ==
  /\ envs[i] # None
  /\ start # None => start.env # i
  /\ envs' = [envs EXCEPT ![i] = None]
  /\ IF envs[i] \in Content /\ LastUser(i) THEN file' = None /\ Forget
                                          ELSE UNCHANGED <<file, confirmed, stale>>
  /\ outlived' = (outlived \/ (envs[i] \in Content /\ Outlives(Known \ {i}, file)))
  /\ UNCHANGED <<builds, requests, records, disk, snapshot, agent, start, killed>>

-----------------------------------------------------------------------------
(* The agent: sync_environments. *)

At(step) == agent # None /\ agent.at = step

Exit == agent' = None /\ start' = None

ListEnvironments ==
  /\ At("list")
  /\ agent' = [agent EXCEPT !.at = "check",
                            !.todo = {[env |-> i, sha |-> envs[i]] : i \in Known},
                            !.wanted = Known # {}]
  /\ UNCHANGED <<controller, disk, snap, start, killed>>

\* Mutant: a file that is there is the right one.
Check_Exists(x) ==
  /\ At("check") /\ x \in agent.todo
  /\ agent' = [agent EXCEPT !.todo = @ \ {x}, !.cur = x,
       !.at = IF nodeFile # None /\ marker = x.sha THEN "ready"
              ELSE IF nodeFile # None THEN "mark" ELSE "download"]
  /\ UNCHANGED <<controller, disk, snap, start, killed>>

\* The next environment of the list, in any order: its marker is believed, the file is
\* hashed where that says something else.
Check(x) ==
  /\ At("check") /\ x \in agent.todo
  /\ agent' = [agent EXCEPT !.todo = @ \ {x}, !.cur = x,
       !.at = IF nodeFile # None /\ marker = x.sha THEN "ready"
              ELSE IF nodeFile = x.sha THEN "mark" ELSE "download"]
  /\ UNCHANGED <<controller, disk, snap, start, killed>>

\* What the environment has by now comes into place under the artifact's name, whatever it
\* is; if it is not what was listed, the agent ends.
Download ==
  /\ At("download")
  /\ LET served == IF envs[agent.cur.env] \in Content THEN file ELSE envs[agent.cur.env]
     IN  /\ served # None
         /\ nodeFile' = served
         /\ IF served = agent.cur.sha
            THEN agent' = [agent EXCEPT !.at = "mark"] /\ UNCHANGED start ELSE Exit
  /\ torn' = TRUE
  /\ UNCHANGED <<controller, marker, snap, killed>>

\* The environment is gone or has no packages now, or its file is gone: 404 or 500, and
\* the agent ends.
DownloadFails ==
  /\ At("download")
  /\ envs[agent.cur.env] \notin Content \/ file = None
  /\ Exit
  /\ UNCHANGED <<controller, disk, snap, killed>>

Mark ==
  /\ At("mark")
  /\ marker' = agent.cur.sha
  /\ torn' = FALSE
  /\ agent' = [agent EXCEPT !.at = "ready"]
  /\ UNCHANGED <<controller, nodeFile, snap, start, killed>>

\* environment_ready: it goes by the key, an error if no environment has it.
Ready ==
  /\ At("ready")
  /\ IF Known # {}
     THEN /\ confirmed' = TRUE /\ stale' = FALSE
          /\ agent' = [agent EXCEPT !.at = "check", !.cur = None]
          /\ UNCHANGED start
     ELSE Exit /\ UNCHANGED <<confirmed, stale>>
  /\ UNCHANGED <<file, builds, requests, envs, records, disk, snap, killed>>

\* The end of sync_environments: a file no environment of the list has goes, and its
\* marker unless that fails.
Clean ==
  /\ At("check") /\ agent.todo = {}
  /\ agent' = [Idle EXCEPT !.at = "pools"]
  /\ IF agent.wanted \/ nodeFile = None THEN UNCHANGED disk
     ELSE nodeFile' = None /\ marker' \in {marker, None} /\ torn' = FALSE
  /\ UNCHANGED <<controller, snap, start, killed>>

-----------------------------------------------------------------------------
(* The agent: sync_snapshots. *)

\* One of the pools there are may have this snapshot.
ListPools ==
  /\ At("pools")
  /\ \E listed \in BOOLEAN : agent' = [agent EXCEPT !.at = "snapshot", !.wanted = listed]
  /\ UNCHANGED <<controller, disk, snap, start, killed>>

Take(content) == snapshot' = content /\ outlived' = (content # file)

\* Mutant: a snapshot that cannot be taken is the end.
EnsureSnapshot_Bails ==
  /\ At("snapshot")
  /\ ~ (agent.wanted /\ snapshot = None /\ start # None /\ start.at = "making")
  /\ IF agent.wanted /\ snapshot = None /\ nodeFile # None
     THEN Take(nodeFile) ELSE UNCHANGED snap
  /\ IF agent.wanted /\ snapshot = None /\ nodeFile = None
     THEN Exit
     ELSE agent' = [agent EXCEPT !.at = "sweep"] /\ UNCHANGED start
  /\ UNCHANGED <<controller, disk, killed>>

\* ensure_snapshot of the pools of the list, behind the one a start may be taking.
\* Without the artifact it fails, and the pool is left out.
EnsureSnapshot ==
  /\ At("snapshot")
  /\ ~ (agent.wanted /\ snapshot = None /\ start # None /\ start.at = "making")
  /\ IF agent.wanted /\ snapshot = None /\ nodeFile # None
     THEN Take(nodeFile) ELSE UNCHANGED snap
  /\ agent' = [agent EXCEPT !.at = "sweep"]
  /\ UNCHANGED <<controller, disk, start, killed>>

\* Snapshots of no pool of the list go, while starts may be about to load them.
Sweep ==
  /\ At("sweep")
  /\ IF agent.wanted THEN UNCHANGED snap ELSE snapshot' = None /\ outlived' = FALSE
  /\ agent' = Idle
  /\ UNCHANGED <<controller, disk, start, killed>>

\* It is killed, or something else fails: the sync of another artifact, for example.
Crash ==
  /\ agent # None
  /\ killed' = TRUE
  /\ Exit
  /\ UNCHANGED <<controller, disk, snap>>

\* systemd starts it again.
Restart ==
  /\ agent = None
  /\ agent' = Idle /\ killed' = FALSE
  /\ UNCHANGED <<controller, disk, snap, start>>

-----------------------------------------------------------------------------
(* start_vm, for an execution the controller has placed here. *)

\* The node has the artifact, for all the controller knows.
Begin(i) ==
  /\ agent # None /\ start = None
  /\ envs[i] \in Content /\ confirmed
  /\ start' = [env |-> i, own |-> TRUE, at |-> "ensure", of |-> None]
  /\ UNCHANGED <<controller, disk, snap, agent, killed>>

StartAt(step) == start # None /\ start.at = step

\* ensure_snapshot: the one there is, or it takes one of the drive as it is now.
Ensure ==
  /\ StartAt("ensure")
  /\ start' = IF snapshot # None THEN [start EXCEPT !.at = "load"]
              ELSE IF nodeFile = None THEN None
              ELSE [env |-> start.env, own |-> start.own, at |-> "making", of |-> nodeFile]
  /\ UNCHANGED <<controller, disk, snap, agent, killed>>

\* The snapshot is renamed into place.
Publish ==
  /\ StartAt("making")
  /\ Take(start.of)
  /\ start' = [start EXCEPT !.at = "load", !.of = None]
  /\ UNCHANGED <<controller, disk, agent, killed>>

\* It is loaded and its drive opened, or either is missing and the start fails.
Load ==
  /\ StartAt("load")
  /\ start' = None
  /\ UNCHANGED <<controller, disk, snap, agent, killed>>

-----------------------------------------------------------------------------

RequestStep(r) ==
  Prepare(r) \/ Keep(r) \/ Build(r) \/ Abandon(r) \/ HashFile(r) \/ Commit(r)

EnvStep(i) == Leave(i) \/ Delete(i)

AgentStep ==
  \/ ListEnvironments \/ Download \/ DownloadFails \/ Mark \/ Ready \/ Clean
  \/ \E x \in Listed : Check(x)
  \/ ListPools \/ EnsureSnapshot \/ Sweep \/ Restart

StartStep == Ensure \/ Publish \/ Load

DistNext ==
  \/ \E r \in Req : RequestStep(r)
  \/ \E i \in Env : EnvStep(i) \/ Begin(i)
  \/ AgentStep \/ StartStep \/ Crash

\* The loop of the agent goes on and systemd starts it again; what a start waits for
\* is cut off by timeouts.
DistFairness == WF_vars(AgentStep) /\ WF_vars(StartStep)

DistSpec == DistInit /\ [][DistNext]_vars /\ DistFairness
-----------------------------------------------------------------------------
(* Safety. *)

\* An environment that records something else than what the controller would send.
Broken(i) == envs[i] \in Content /\ envs[i] # file

\* README: package artifacts are immutable and built once.  An environment comes to
\* record what is not there only where create_environment or update_environment held its
\* checksum, prepared or read, while the file was replaced or deleted, or by a second
\* build that had begun before the first was done.  Deleting environments, or moving them
\* to other packages, breaks none that is left.
BrokenExplained ==
  [][\A i \in Env : Broken(i)' /\ ~ Broken(i) =>
       \/ \E r \in Req : Requested(r, "commit") /\ Target[r] = i /\ requests[r].sha # file
       \/ builds' # builds /\ file # None]_vars

\* The agent ends by itself, and all MicroVMs with it, only over an environment that was
\* deleted, moved to other packages or recorded anew since it was listed, or that is
\* broken: for a list that is out of date in any other way it goes on.
ExitsExplained ==
  [][agent # None /\ agent' = None /\ ~ killed' =>
       agent.cur # None /\ (envs[agent.cur.env] # agent.cur.sha \/ Broken(agent.cur.env))]_vars

\* The agent reports an artifact that is not what the environment recorded only after
\* it ended between a download and its marker.
ReportsAreTrue ==
  [][At("ready") /\ At("check")' => nodeFile = agent.cur.sha \/ torn]_vars

\* A snapshot is of other packages than the artifact beside it, with which MicroVMs are
\* restored from it, only if it outlived the artifact's environments or its file at the
\* controller, or was taken of an outdated one (its key says nothing of the content), or
\* if another artifact was downloaded under this one's name.
StaleSnapshotsExplained ==
  snapshot # None /\ nodeFile # None /\ snapshot # nodeFile => outlived \/ nodeFile = Other

\* A start for an environment that still has the artifact.
Needed == start # None /\ start.own

\* sync_environments takes the file away by a list that is out of date only where the
\* controller takes the node for prepared and nothing starts there that needs it, or
\* after update_environment left the node as prepared for an artifact nobody has: until
\* it reports it again, the controller places on it what it has no file for.
StartsKeepTheirFiles ==
  confirmed \/ Needed => nodeFile # None \/ stale

-----------------------------------------------------------------------------
(* Liveness. *)

Sound == Known # {} /\ \A i \in Env : ~ Broken(i)

\* Environments that record what is there, as long as they do, get to the node, unless
\* some are deleted or updated for ever, over which the agent ends each time, or it ends
\* for ever over something else: over a broken environment of another artifact, which its
\* sync comes to first, for example.
GetsReady ==
  <>[][\A i \in Env : envs[i] \in Content => envs'[i] = envs[i]]_vars /\ <>[] ~ killed
    => (Sound ~> ~ Sound \/ (confirmed /\ (nodeFile = file \/ torn)))
=============================================================================
