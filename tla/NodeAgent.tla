------------------------------ MODULE NodeAgent ------------------------------
(***************************************************************************)
(* The node agents of platform/src/node.rs with the controller they call:  *)
(* the main loop of `run`, maintain_vms, and the tasks that execute what   *)
(* next_work hands out, over the table of MicroVMs they share (VmState).   *)
(*                                                                         *)
(* The controller counts a node's idle MicroVMs by the calls it gets; the  *)
(* agent has the MicroVMs.  Nothing ever compares the two.                 *)
(*                                                                         *)
(* A call to the controller is one step of both.  Any call of the main     *)
(* loop that fails ends the agent, and its MicroVMs with it (kill_on_drop).*)
(* MicroVMs of a pool are alike but for where they are, so the table holds *)
(* numbers; which idle one is taken, the last used, makes no difference.   *)
(* What the start limiter, the networks, the snapshots and the guest do is *)
(* in modules of their own: here, a start takes place or fails.            *)
(***************************************************************************)
EXTENDS Controller

VARIABLES
  loop,   \* where the main loop of an agent is, and the pools it works on
  table,  \* VmState.idle: how many of each pool
  out,    \* taken out of it by maintain_vms, not asked about yet
  kept,   \* asked about and retained, not put back yet
  tasks   \* the run_execution of an execution, until it is reported

agentVars == <<loop, table, out, kept, tasks>>
allVars == <<vars, agentVars>>

Phase == {"down", "sync", "prune", "take", "ask", "warm", "start", "poll"}

\* The pools sync_snapshots returned, those of them still to be warmed, and the
\* one a MicroVM is being started for.
Loop == [phase : Phase, known : SUBSET Pool, todo : SUBSET Pool,
         pool : Pool \cup {None}]

\* `reuse` as it was in the answer of next_work; `kept` and `gone` say what became
\* of the MicroVM of an execution that is over.
Task == [node : Node, pool : Pool, reuse : BOOLEAN,
         at : {"new", "start", "busy", "kept", "gone"}]

Counts == [Node -> [Pool -> Nat]]

AgentTypeOK ==
  /\ TypeOK
  /\ loop \in [Node -> Loop]
  /\ table \in Counts /\ out \in Counts /\ kept \in Counts
  /\ tasks \in [Exec -> Task \cup {None}]

ASSUME AgentAssumption == None \notin Task /\ None \notin Pool

Nothing == [p \in Pool |-> 0]

Idling == [phase |-> "down", known |-> {}, todo |-> {}, pool |-> None]

AgentInit ==
  /\ loop = [n \in Node |-> Idling]
  /\ table = [n \in Node |-> Nothing]
  /\ out = [n \in Node |-> Nothing]
  /\ kept = [n \in Node |-> Nothing]
  /\ tasks = [e \in Exec |-> None]

At(n, phase) == loop[n].phase = phase

GoOn(n, phase) == loop' = [loop EXCEPT ![n].phase = phase]

-----------------------------------------------------------------------------
(* Start, end and turns of the main loop. *)

\* The agent registers for the first time.
Start(n) ==
  /\ At(n, "down")
  /\ StartAgent(n)
  /\ GoOn(n, "sync")
  /\ UNCHANGED <<table, out, kept, tasks>>

\* A call fails, or the process is stopped: nothing of the agent is left.
Stop(n) ==
  /\ ~ At(n, "down")
  /\ loop' = [loop EXCEPT ![n] = Idling]
  /\ table' = [table EXCEPT ![n] = Nothing]
  /\ out' = [out EXCEPT ![n] = Nothing]
  /\ kept' = [kept EXCEPT ![n] = Nothing]
  /\ tasks' = [e \in Exec |-> IF tasks[e] # None /\ tasks[e].node = n THEN None ELSE tasks[e]]
  /\ UNCHANGED vars

\* The heartbeat that is due every two seconds.
Beat(n) ==
  /\ At(n, "poll")
  /\ Heartbeat(n)
  /\ GoOn(n, "sync")
  /\ UNCHANGED <<table, out, kept, tasks>>

\* sync_images and sync_environments report what is there.
Announce(n) ==
  /\ At(n, "sync")
  /\ \/ \E i \in Image : ImageArrived(n, i)
     \/ \E a \in Artifact : ArtifactArrived(n, a)
  /\ UNCHANGED agentVars

\* sync_snapshots: the pools there are, but for those whose snapshot fails.
Fetch(n) ==
  /\ At(n, "sync")
  /\ \E failed \in SUBSET Pool :
       loop' = [loop EXCEPT ![n].phase = "prune",
                  ![n].known = {p \in Pool : cluster.pools[p] # None} \ failed]
  /\ UNCHANGED <<vars, table, out, kept, tasks>>

-----------------------------------------------------------------------------
(* maintain_vms. *)

\* Mutant: pools that are gone keep their MicroVMs.
Prune_Nothing(n) ==
  /\ At(n, "prune")
  /\ GoOn(n, "take")
  /\ UNCHANGED <<vars, table, out, kept, tasks>>

\* Idle MicroVMs of unknown pools are destroyed, without a word to the controller.
Prune(n) ==
  /\ At(n, "prune")
  /\ table' = [table EXCEPT ![n] =
       [p \in Pool |-> IF p \in loop[n].known THEN table[n][p] ELSE 0]]
  /\ GoOn(n, "take")
  /\ UNCHANGED <<vars, out, kept, tasks>>

\* The table is emptied.
TakeOut(n) ==
  /\ At(n, "take")
  /\ out' = [out EXCEPT ![n] = table[n]]
  /\ table' = [table EXCEPT ![n] = Nothing]
  /\ GoOn(n, "ask")
  /\ UNCHANGED <<vars, kept, tasks>>

\* DELETE .../idle for one of them: it is destroyed or retained.
Ask(n, p) ==
  /\ At(n, "ask")
  /\ out[n][p] > 0
  /\ cluster.nodes[n] # None
  /\ out' = [out EXCEPT ![n][p] = @ - 1]
  /\ \/ RemoveIdleInstance(n, p) /\ UNCHANGED kept
     \/ /\ ~ IdleSurplus(cluster, n, p)
        /\ kept' = [kept EXCEPT ![n][p] = @ + 1]
        /\ UNCHANGED vars
  /\ UNCHANGED <<loop, table, tasks>>

\* What was retained is put back.
PutBack(n) ==
  /\ At(n, "ask")
  /\ out[n] = Nothing
  /\ table' = [table EXCEPT ![n] = [p \in Pool |-> table[n][p] + kept[n][p]]]
  /\ kept' = [kept EXCEPT ![n] = Nothing]
  /\ loop' = [loop EXCEPT ![n].phase = "warm", ![n].todo = loop[n].known]
  /\ UNCHANGED <<vars, out, tasks>>

\* GET .../idle: another MicroVM is to be started for the pool, or the next pool
\* has its turn.
NeedsWarm(n, p) ==
  /\ At(n, "warm")
  /\ p \in loop[n].todo
  /\ cluster.nodes[n] # None
  /\ loop' = IF WarmNeeded(cluster, n, p)
             THEN [loop EXCEPT ![n].phase = "start", ![n].pool = p]
             ELSE [loop EXCEPT ![n].todo = @ \ {p}]
  /\ UNCHANGED <<vars, table, out, kept, tasks>>

\* The pool is done with for this turn.
NextPool(n) ==
  loop' = [loop EXCEPT ![n].phase = "warm", ![n].todo = @ \ {loop[n].pool}, ![n].pool = None]

\* Mutant: whatever the controller answers, the MicroVM stays.
WarmStarted_Always(n) ==
  /\ At(n, "start")
  /\ LET p == loop[n].pool
     IN  /\ \/ AddWarmInstance(n, p)
            \/ ~ WarmNeeded(cluster, n, p) /\ cluster.nodes[n] # None /\ UNCHANGED vars
         /\ table' = [table EXCEPT ![n][p] = @ + 1]
  /\ NextPool(n)
  /\ UNCHANGED <<out, kept, tasks>>

\* It has started, and POST .../idle accepts it, or it is destroyed.
WarmStarted(n) ==
  /\ At(n, "start")
  /\ LET p == loop[n].pool
     IN  \/ /\ AddWarmInstance(n, p)
            /\ table' = [table EXCEPT ![n][p] = @ + 1]
            /\ loop' = [loop EXCEPT ![n].phase = "warm", ![n].pool = None]
         \/ /\ ~ WarmNeeded(cluster, n, p) /\ cluster.nodes[n] # None
            /\ NextPool(n)
            /\ UNCHANGED <<vars, table>>
  /\ UNCHANGED <<out, kept, tasks>>

\* Mutant: the pool is tried again.
WarmFailed_Again(n) ==
  /\ At(n, "start")
  /\ loop' = [loop EXCEPT ![n].phase = "warm", ![n].pool = None]
  /\ UNCHANGED <<vars, table, out, kept, tasks>>

WarmFailed(n) ==
  /\ At(n, "start")
  /\ NextPool(n)
  /\ UNCHANGED <<vars, table, out, kept, tasks>>

Maintained(n) ==
  /\ At(n, "warm")
  /\ loop[n].todo = {}
  /\ GoOn(n, "poll")
  /\ UNCHANGED <<vars, table, out, kept, tasks>>

-----------------------------------------------------------------------------
(* run_execution, in a task of its own. *)

Is(e, at) == tasks[e] # None /\ tasks[e].at = at

Becomes(e, at) == tasks' = [tasks EXCEPT ![e].at = at]

\* next_work has an execution for the node.
Work(n, e) ==
  /\ At(n, "poll")
  /\ NextWork(n, e)
  /\ LET p == cluster.execs[e].pool
     IN  tasks' = [tasks EXCEPT ![e] =
           [node |-> n, pool |-> p, reuse |-> cluster.pools[p].cfg.reuse, at |-> "new"]]
  /\ UNCHANGED <<loop, table, out, kept>>

\* Its working directory is not to be had.
DirFails(e) ==
  /\ Is(e, "new")
  /\ Becomes(e, "gone")
  /\ UNCHANGED <<vars, loop, table, out, kept>>

\* VmState.acquire: an idle MicroVM of the pool, or a new one has to be started.
Acquire(e) ==
  /\ Is(e, "new")
  /\ LET n == tasks[e].node
         p == tasks[e].pool
     IN  IF table[n][p] > 0
         THEN /\ table' = [table EXCEPT ![n][p] = @ - 1]
              /\ Becomes(e, "busy")
         ELSE Becomes(e, "start") /\ UNCHANGED table
  /\ UNCHANGED <<vars, loop, out, kept>>

Boot(e) ==
  /\ Is(e, "start")
  /\ Becomes(e, "busy")
  /\ UNCHANGED <<vars, loop, table, out, kept>>

BootFails(e) ==
  /\ Is(e, "start")
  /\ Becomes(e, "gone")
  /\ UNCHANGED <<vars, loop, table, out, kept>>

\* The guest answers, and the MicroVM is kept; idle_timeout_secs and warm_instances
\* have a say in that which is left open.
Keep(e) ==
  /\ Is(e, "busy")
  /\ tasks[e].reuse
  /\ table' = [table EXCEPT ![tasks[e].node][tasks[e].pool] = @ + 1]
  /\ Becomes(e, "kept")
  /\ UNCHANGED <<vars, loop, out, kept>>

\* It is not to be reused, its guest failed or took too long: it is destroyed.
Destroy(e) ==
  /\ Is(e, "busy")
  /\ Becomes(e, "gone")
  /\ UNCHANGED <<vars, loop, table, out, kept>>

\* The one report, after the MicroVM went back to the table or was destroyed.
Report(e) ==
  /\ Is(e, "kept") \/ Is(e, "gone")
  /\ CompleteExecution(tasks[e].node, e, Is(e, "kept"))
  /\ tasks' = [tasks EXCEPT ![e] = None]
  /\ UNCHANGED <<loop, table, out, kept>>

ReportFails(e) ==
  /\ Is(e, "kept") \/ Is(e, "gone")
  /\ runs' = runs \ {<<tasks[e].node, e>>}
  /\ tasks' = [tasks EXCEPT ![e] = None]
  /\ UNCHANGED <<cluster, requests, files, loop, table, out, kept>>

-----------------------------------------------------------------------------

Turn(n) ==
  \/ Beat(n) \/ Announce(n) \/ Fetch(n)
  \/ Prune(n) \/ TakeOut(n) \/ PutBack(n)
  \/ WarmStarted(n) \/ WarmFailed(n) \/ Maintained(n)
  \/ \E p \in Pool : Ask(n, p) \/ NeedsWarm(n, p)
  \/ \E e \in Exec : Work(n, e)

TaskStep(e) ==
  \/ DirFails(e) \/ Acquire(e) \/ Boot(e) \/ BootFails(e)
  \/ Keep(e) \/ Destroy(e) \/ Report(e) \/ ReportFails(e)

AgentNext ==
  \/ \E n \in Node : Start(n) \/ Stop(n) \/ Turn(n)
  \/ \E e \in Exec : TaskStep(e)
  \/ (Administer \/ Submit) /\ UNCHANGED agentVars

AgentSpec == Init /\ AgentInit /\ [][AgentNext]_allVars
-----------------------------------------------------------------------------
(* Safety: two counts of the same MicroVMs. *)

Up(n) == ~ At(n, "down")

\* The idle MicroVMs of pool p at an agent, wherever maintain_vms has them.
Spare(n, p) == table[n][p] + out[n][p] + kept[n][p]

Here(e, n, p) == tasks[e] # None /\ tasks[e].node = n /\ tasks[e].pool = p

\* Executions that may have been placed on an idle MicroVM and have not come to it,
\* and those whose MicroVM is idle again which the controller does not know yet.
Waiting(n, p) ==
  {e \in ActiveOn(cluster, p) : /\ cluster.execs[e].node = n
                                /\ cluster.execs[e].status = "assigned" \/ Is(e, "new")}

Unreported(n, p) == {e \in Exec : Here(e, n, p) /\ Is(e, "kept")}

\* Idle MicroVMs at the agent that nothing at the controller accounts for, and idle
\* MicroVMs the controller counts that the agent does not have.
Strays(n, p) ==
  Monus(Spare(n, p), IdleAt(cluster, n, p) + Cardinality(Waiting(n, p))
                     + Cardinality(Unreported(n, p)))

Phantoms(n, p) == IF Up(n) THEN Monus(IdleAt(cluster, n, p), Spare(n, p)) ELSE 0

Ends(e) == tasks[e] # None /\ tasks'[e] = None

Turns(e, from, to) == Is(e, from) /\ tasks'[e] # None /\ tasks'[e].at = to

\* An agent comes to hold an idle MicroVM the controller does not count.
StrayAppears(n, p) == Strays(n, p)' > Strays(n, p)

\* The controller comes to count one the agent does not have.
PhantomAppears(n, p) == Up(n) /\ Phantoms(n, p)' > Phantoms(n, p)

\* The two counts part only where the code lets them.  There is a stray if the node is
\* deleted, or its pool is going away, or an execution that was meant for it failed before
\* it took it, or was started anew while maintain_vms had it out of the table, or was the
\* one whose end could not be reported.  There is a phantom if an execution for which the
\* controller had made room took a MicroVM that was idle, or reports one that another has
\* taken meanwhile, or the snapshot of the pool could not be prepared.
DriftExplained ==
  [][\A n \in Node, p \in Pool :
     /\ StrayAppears(n, p) =>
       \/ cluster.nodes[n] # None /\ cluster'.nodes[n] = None
       \/ cluster'.pools[p] = None \/ cluster'.pools[p].cfg.warm = 0
       \/ \E e \in Exec :
            /\ Here(e, n, p)
            /\ \/ Turns(e, "new", "gone")
               \/ Turns(e, "new", "start") /\ out[n][p] + kept[n][p] > 0
               \/ Is(e, "kept") /\ Ends(e) /\ UNCHANGED cluster
     /\ PhantomAppears(n, p) =>
       \/ At(n, "prune") /\ p \notin loop[n].known
       \/ \E e \in Exec :
            /\ Here(e, n, p)
            /\ \/ Turns(e, "new", "busy")
               \/ Is(e, "kept") /\ Ends(e)]_allVars

-----------------------------------------------------------------------------
(* Liveness. *)

\* The node was deleted: a call that is due is refused, and the agent ends.
Refused(n) ==
  /\ cluster.nodes[n] = None
  /\ loop[n].phase \in {"ask", "warm", "start", "poll"}
  /\ Stop(n)

\* An agent's main loop goes on from call to call, each answered or timed out.
LoopFairness ==
  \A n \in Node : WF_allVars(
    \/ Refused(n) \/ Beat(n) \/ Fetch(n) \/ Prune(n) \/ TakeOut(n) \/ PutBack(n)
    \/ WarmStarted(n) \/ WarmFailed(n) \/ Maintained(n)
    \/ \E p \in Pool : Ask(n, p) \/ NeedsWarm(n, p))

\* While maintain_vms runs the agent asks for no work: it comes back to that whatever
\* starts fail and however executions take the warm MicroVMs it just added.
AgentComesBack == \A n \in Node : Up(n) ~> At(n, "poll") \/ At(n, "down")

\* The MicroVMs of a pool that went away do not stay behind at an agent.
RetiredVmsGo ==
  \A n \in Node, p \in Pool :
    <>[](cluster.pools[p] = None) => []<>(Spare(n, p) = 0 \/ At(n, "down"))
=============================================================================
