---------------------------- MODULE MCController ----------------------------
(***************************************************************************)
(* Instances of Controller for TLC: configurations, and the states and     *)
(* steps some runs start from and are confined to.                         *)
(***************************************************************************)
EXTENDS Controller

CONSTANTS img, art, img2

Cfg(image, artifact, warm, max, size, reuse) ==
  [image |-> image, artifact |-> artifact, warm |-> warm, max |-> max,
   size |-> size, reuse |-> reuse]

NoConfigs == {}
NoPools == {}
FirstPool == {1}

EqualCapacity == [n \in Node |-> 2]

\* Serving: one environment, rescaled between these two.
ServeConfigs == {Cfg(img, None, 1, 2, 1, TRUE), Cfg(img, None, 1, 1, 1, FALSE)}
\* Reusing its MicroVMs or not.
WarmConfigs == {Cfg(img, None, 2, 3, 1, TRUE), Cfg(img, None, 2, 2, 1, FALSE)}

\* With packages and without them.
PackageConfigs == {Cfg(img, None, 1, 2, 1, TRUE), Cfg(img, art, 1, 1, 1, FALSE)}

-----------------------------------------------------------------------------

\* A controller some time after its start: images imported, every agent up with
\* the packages of the one environment, the last in sync and the others without
\* the newest images, no work.
ServingInit ==
  /\ \E cfg \in EnvConfig :
    /\ files = {cfg.artifact} \ {None}
    /\ cluster = [images |-> [i \in Image |-> "runtime"],
                  pools  |-> [p \in Pool |-> IF p = 1 THEN [env |-> 1, cfg |-> cfg] ELSE None],
                  envs   |-> [i \in Env |-> IF i = 1 THEN [pool |-> 1, cfg |-> cfg] ELSE None],
                  nodes  |-> [n \in Node |->
                    LET images == IF n = NumNodes THEN Image ELSE {img}
                    IN  [NewNode(n) EXCEPT !.images = images, !.ready = images = Image,
                                           !.artifacts = files]],
                  execs  |-> [e \in Exec |-> None],
                  rr     |-> 0]
  /\ requests = [r \in Req |-> None]
  /\ runs = {}

\* Submissions in the order of their creation times.
SubmitInOrder ==
  \E e \in Exec, i \in Env, p \in Pool :
    /\ \A f \in Exec : cluster.execs[f] # None => f < e
    /\ CreateExecution(e, i, p, TRUE)

\* Agents that stay up.
Steady ==
  \/ \E n \in Node : Heartbeat(n)
  \/ \E n \in Node, p \in Pool : AddWarmInstance(n, p) \/ RemoveIdleInstance(n, p)
  \/ \E n \in Node, e \in Exec : NextWork(n, e)
  \/ \E n \in Node, e \in Exec, keepIdle \in BOOLEAN : CompleteExecution(n, e, keepIdle)

\* Everything that happens to an environment in use: work, agents that restart,
\* restarts and updates of the environment.
InUse ==
  \/ Submit \/ Serve
  \/ \E i \in Env : RestartEnvironment(i)
  \/ \E r \in Req, i \in Env, cfg \in EnvConfig : BeginUpdate(r, i, cfg)
  \/ \E r \in Req : CommitUpdate(r)

\* Environments that come and go, with their packages, while executions run on
\* them.
Replaced ==
  \/ SubmitInOrder
  \/ \E n \in Node, e \in Exec : NextWork(n, e) \/ CompleteExecution(n, e, FALSE)
  \/ \E n \in Node, a \in Artifact : ArtifactArrived(n, a)
  \/ \E p \in Pool : DeletePool(p)
  \/ \E i \in Image : DeleteImage(i)
  \/ \E i \in Env : RestartEnvironment(i) \/ DeleteEnvironment(i)
  \/ \E r \in Req, cfg \in EnvConfig : BeginCreate(r, cfg)
  \/ \E r \in Req, i \in Env, cfg \in EnvConfig : BeginUpdate(r, i, cfg)
  \/ \E r \in Req : PrepareArtifact(r) \/ AbandonRequest(r)
  \/ \E r \in Req : CommitCreate(r) \/ CommitUpdate(r)

ReplacedSpec == ServingInit /\ [][Replaced]_vars
InUseSpec == ServingInit /\ [][InUse]_vars
SteadySpec == ServingInit /\ [][SubmitInOrder \/ Steady]_vars /\ Fairness
CrashSpec == ServingInit /\ [][SubmitInOrder \/ Steady \/ \E n \in Node : StartAgent(n)]_vars
                         /\ Fairness
=============================================================================
