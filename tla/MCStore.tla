------------------------------ MODULE MCStore ------------------------------
(***************************************************************************)
(* Instances of ExecutionStore for TLC: a controller in service, as in     *)
(* MCController, with an empty table of executions.                        *)
(***************************************************************************)
EXTENDS ExecutionStore, TLC

CONSTANTS img, art

Slots == Permutations(Slot)

NoConfigs == {}
NoPools == {}
FirstPool == {1}

EqualCapacity == [n \in Node |-> 2]

\* One environment; its MicroVMs are kept and reused, at most one of them.
StoreConfigs == {[image |-> img, artifact |-> None, warm |-> 0, max |-> 1,
                  size |-> 1, reuse |-> TRUE]}

\* The same with packages and a warm instance.
AdminConfigs == {[image |-> img, artifact |-> art, warm |-> 1, max |-> 1, size |-> 1,
                  reuse |-> TRUE]}

UserConfigs == {[image |-> img, artifact |-> None, warm |-> 0, max |-> None, size |-> 1,
                 reuse |-> FALSE]}

\* Room for one finished execution with its result, or one with secrets that waits,
\* and for another one as well.
StoreLimits == {3, 4}
TightLimit == {3}

\* The environment is there, and every agent is in sync.
InService ==
  /\ \E cfg \in EnvConfig :
       cluster = [images |-> [i \in Image |-> "runtime"],
                  pools  |-> [p \in Pool |-> IF p = 1 THEN [env |-> 1, cfg |-> cfg] ELSE None],
                  envs   |-> [i \in Env |-> IF i = 1 THEN [pool |-> 1, cfg |-> cfg] ELSE None],
                  nodes  |-> [n \in Node |-> [NewNode(n) EXCEPT !.images = Image, !.ready = TRUE]],
                  execs  |-> [e \in Exec |-> None],
                  rr     |-> 0]
  /\ requests = [r \in Req |-> None]
  /\ files = {}
  /\ runs = {}

\* What writes of executions can race with: submissions, work, reports, pruning,
\* restarts of an environment and of the controller.
Racing ==
  \/ SubmitStep
  \/ \E s \in Slot, i \in Env : RestartSaves(s, i)
  \/ \E s \in Slot, n \in Node, e \in Exec : TakeWork(s, n, e)
  \/ \E s \in Slot, n \in Node, e \in Exec :
       Report(s, n, e, FALSE, TRUE) \/ LateReport(s, n, e, FALSE, TRUE)
  \/ \E s \in Slot : Save(s) \/ End(s) \/ FailWrite(s)
  \/ Collect \/ \E l \in Limits : SetStorageLimit(l)
  \/ Restart

RacingInit == InService /\ StoreInit
RacingSpec == RacingInit /\ [][Racing]_allVars
=============================================================================
