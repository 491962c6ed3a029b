------------------------------- MODULE MCAgent -------------------------------
(***************************************************************************)
(* Instances of NodeAgent for TLC: a controller in service, as in          *)
(* MCController, and agents that are about to start.                       *)
(***************************************************************************)
EXTENDS NodeAgent, MCController

CONSTANT MaxStrays

\* With packages; its MicroVMs reused or not.
AgentConfigs == {Cfg(img, art, 1, 2, 1, reuse) : reuse \in BOOLEAN}

\* Bound: as many restarts as there are pools to come, whose names are never used again.
OncePerPool(i) ==
  /\ cluster.envs[i] # None /\ cluster.envs[i].pool < NumPools
  /\ NewId(FreshPools) > cluster.envs[i].pool
  /\ RestartEnvironment(i)

\* Bound: MicroVMs nobody accounts for pile up at an agent without end.
FewStrays == \A n \in Node, p \in Pool : cluster'.pools[p] # None => Strays(n, p)' <= MaxStrays

\* Users submit, restart the environment and delete the node; the agent is stopped,
\* starts again, and does all that it does.
Running ==
  \/ \E n \in Node : Start(n) \/ Stop(n) \/ Turn(n)
  \/ \E e \in Exec : TaskStep(e) /\ FewStrays
  \/ /\ SubmitInOrder \/ (\E i \in Env : OncePerPool(i)) \/ \E n \in Node : DeleteNode(n)
     /\ UNCHANGED agentVars

RunningInit == ServingInit /\ AgentInit
RunningSpec == RunningInit /\ [][Running]_allVars /\ LoopFairness
==============================================================================
