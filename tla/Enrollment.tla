----------------------------- MODULE Enrollment -----------------------------
(***************************************************************************)
(* How machines become nodes: join tokens and node credentials at the      *)
(* controller (platform/src/api.rs), the join command (join.rs), and the   *)
(* start of an agent (node.rs), through failures at every step.            *)
(*                                                                         *)
(* There is one controller, on machine Host.  The others have controllers  *)
(* of their own, which are not modelled: an agent there that is not joined *)
(* does not call this one.  Secrets and ids are numbers; one that nobody   *)
(* holds any more is given out again, which stands for a new one.          *)
(*                                                                         *)
(* Executions are left out; what else the handlers do to the cluster is in *)
(* modules Controller and ExecutionStore.                                  *)
(***************************************************************************)
EXTENDS Integers, FiniteSets

CONSTANTS
  Machine, Host,
  NumTokens,  \* bound: join tokens at one time
  NumIds,     \* bound: node ids that somebody holds at one time
  NumCreds,   \* the same of credentials
  MaxFaults,  \* bound: failing writes and calls, crashes and interruptions
  None

ASSUME EnrollmentAssumption ==
  /\ Host \in Machine
  /\ NumTokens \in Nat /\ NumIds \in Nat /\ NumCreds \in Nat /\ MaxFaults \in Nat
  /\ None \notin Nat

Token == 1..NumTokens
NodeId == 1..NumIds
Cred == 1..NumCreds

Elsewhere == 0  \* the id a machine has at a controller of its own

VARIABLES
  tokens,           \* join_tokens
  creds,            \* node_credentials
  nodes,            \* Cluster.nodes
  saved,            \* the three, in the database
  disabled,         \* the controller service is disabled, on Host
  files,            \* node-id, and SCRAPERACK_NODE_CREDENTIAL
  running,          \* the agent's service is started
  agents,           \* its process, once it has a credential
  joins,            \* the join command of a machine
  issued,           \* history: the node id a credential was issued with
  handed,           \* history: how often a token led to credentials
  removed,          \* history: node ids delete_node was called for
  faults

controller == <<tokens, creds, nodes, saved>>
machines == <<files, running, agents, joins>>
history == <<issued, handed, removed>>
vars == <<controller, disabled, machines, history, faults>>

Files == [id : NodeId \cup {Elsewhere, None}, cred : Cred \cup {None}]

\* "named": its id is not written yet; "enrolled": to register; "checked": in
\* register_node, past the authentication; "up": registered.
Agent == [id : NodeId \cup {Elsewhere}, cred : Cred,
          at : {"named", "enrolled", "checked", "up"}]

\* What the join command does next.
Join == [at : {"stop", "config", "id", "controller", "start"}, id : NodeId, cred : Cred]

EnrollTypeOK ==
  /\ tokens \in [Token -> {"absent", "open", "used"}]
  /\ creds \in [NodeId -> Cred \cup {None}]
  /\ nodes \subseteq NodeId
  /\ saved \in [tokens : [Token -> {"absent", "open", "used"}],
                creds : [NodeId -> Cred \cup {None}], nodes : SUBSET NodeId]
  /\ disabled \in BOOLEAN
  /\ files \in [Machine -> Files]
  /\ running \in [Machine -> BOOLEAN]
  /\ agents \in [Machine -> Agent \cup {None}]
  /\ joins \in [Machine -> Join \cup {None}]
  /\ issued \in [Cred -> NodeId \cup {None}]
  /\ handed \in [Token -> Nat]
  /\ removed \subseteq NodeId
  /\ faults \in 0..MaxFaults

\* Installed machines: the agent of Host enrolls for the first time, the others have done
\* so at their own controllers.
EnrollInit ==
  /\ tokens = [t \in Token |-> "absent"]
  /\ creds = [n \in NodeId |-> None]
  /\ nodes = {}
  /\ saved = [tokens |-> tokens, creds |-> creds, nodes |-> nodes]
  /\ disabled = FALSE
  /\ files = [m \in Machine |-> [id |-> IF m = Host THEN None ELSE Elsewhere, cred |-> None]]
  /\ running = [m \in Machine |-> TRUE]
  /\ agents = [m \in Machine |-> None]
  /\ joins = [m \in Machine |-> None]
  /\ issued = [c \in Cred |-> None]
  /\ handed = [t \in Token |-> 0]
  /\ removed = {}
  /\ faults = 0

-----------------------------------------------------------------------------
(* The controller. *)

\* Who holds which ids and credentials.
HeldIds ==
  nodes \cup saved.nodes
  \cup {n \in NodeId : creds[n] # None \/ saved.creds[n] # None}
  \cup {files[m].id : m \in Machine}
  \cup {agents[m].id : m \in {a \in Machine : agents[a] # None}}
  \cup {joins[m].id : m \in {a \in Machine : joins[a] # None}}

HeldCreds ==
  {creds[n] : n \in NodeId} \cup {saved.creds[n] : n \in NodeId}
  \cup {files[m].cred : m \in Machine}
  \cup {agents[m].cred : m \in {a \in Machine : agents[a] # None}}
  \cup {joins[m].cred : m \in {a \in Machine : joins[a] # None}}

LeastOf(S) == CHOOSE x \in S : \A y \in S : x <= y

Fresh(S, held) == IF S \ held = {} THEN None ELSE LeastOf(S \ held)

Fault == faults < MaxFaults /\ faults' = faults + 1

\* save: everything, or nothing and an error to the caller.
Save(ok) ==
  IF ok THEN /\ saved' = [tokens |-> tokens', creds |-> creds', nodes |-> nodes']
             /\ UNCHANGED faults
        ELSE Fault /\ UNCHANGED saved

\* create_join_token.  One that could not be saved is shown to nobody.
CreateToken(t) ==
  /\ ~ disabled
  /\ tokens[t] = "absent"
  /\ tokens' = [tokens EXCEPT ![t] = "open"]
  /\ UNCHANGED <<creds, nodes>>
  /\ Save(TRUE)
  /\ UNCHANGED <<disabled, machines, history>>

\* expires_at_ms has passed: as far as anyone can tell the token is gone, and a day
\* later it is.
Expire(t) ==
  /\ tokens[t] # "absent"
  /\ tokens' = [tokens EXCEPT ![t] = "absent"]
  /\ saved' = [saved EXCEPT !.tokens[t] = "absent"]
  /\ handed' = [handed EXCEPT ![t] = 0]
  /\ UNCHANGED <<creds, nodes, disabled, machines, issued, removed, faults>>

\* A new credential for node n, which is nobody's from now on but its.
Issue(n, c) ==
  /\ creds' = [creds EXCEPT ![n] = c]
  /\ issued' = [x \in Cred |-> IF x = c THEN n ELSE IF x \in HeldCreds THEN issued[x] ELSE None]
  /\ removed' = removed \ {n}

\* Mutant: the answer does not depend on the write.
JoinCluster_Unsaved(m, t, ok) ==
  LET n == Fresh(NodeId, HeldIds)
      c == Fresh(Cred, HeldCreds)
  IN  /\ ~ disabled /\ joins[m] = None
      /\ tokens[t] = "open"
      /\ n # None /\ c # None
      /\ tokens' = [tokens EXCEPT ![t] = "used"]
      /\ Issue(n, c)
      /\ UNCHANGED nodes
      /\ Save(ok)
      /\ joins' = [joins EXCEPT ![m] = [at |-> "stop", id |-> n, cred |-> c]]
      /\ handed' = [handed EXCEPT ![t] = @ + 1]
      /\ UNCHANGED <<disabled, files, running, agents>>

\* join_cluster.  The identity check of the command before it compares with a file
\* that nothing writes, so it runs on any machine.
JoinCluster(m, t, ok) ==
  LET n == Fresh(NodeId, HeldIds)
      c == Fresh(Cred, HeldCreds)
  IN  /\ ~ disabled /\ joins[m] = None
      /\ tokens[t] = "open"
      /\ n # None /\ c # None
      /\ tokens' = [tokens EXCEPT ![t] = "used"]
      /\ Issue(n, c)
      /\ UNCHANGED nodes
      /\ Save(ok)
      /\ IF ok THEN /\ joins' = [joins EXCEPT ![m] = [at |-> "stop", id |-> n, cred |-> c]]
                    /\ handed' = [handed EXCEPT ![t] = @ + 1]
               ELSE UNCHANGED <<joins, handed>>
      /\ UNCHANGED <<disabled, files, running, agents>>

\* local_join, of the agent of Host: for the id it has, or a new one.
LocalJoin(ok) ==
  LET id == files[Host].id
      n == IF id = None THEN Fresh(NodeId, HeldIds) ELSE id
      c == Fresh(Cred, HeldCreds)
  IN  /\ ~ disabled
      /\ running[Host] /\ agents[Host] = None /\ files[Host].cred = None
      /\ n # None /\ c # None
      /\ Issue(n, c)
      /\ UNCHANGED <<tokens, nodes>>
      /\ Save(ok)
      /\ IF ok THEN agents' = [agents EXCEPT ![Host] =
                      [id |-> n, cred |-> c, at |-> IF n = id THEN "enrolled" ELSE "named"]]
               ELSE UNCHANGED agents
      /\ UNCHANGED <<disabled, files, running, joins, handed>>

\* Mutant: the node stays.
DeleteNode_KeepNode(n, ok) ==
  /\ ~ disabled
  /\ n \in nodes \/ creds[n] # None
  /\ creds' = [creds EXCEPT ![n] = None]
  /\ UNCHANGED <<tokens, nodes>>
  /\ Save(ok)
  /\ removed' = removed \cup {n}
  /\ UNCHANGED <<disabled, machines, issued, handed>>

\* delete_node, where no execution runs.
DeleteNode(n, ok) ==
  /\ ~ disabled
  /\ n \in nodes \/ creds[n] # None
  /\ nodes' = nodes \ {n}
  /\ creds' = [creds EXCEPT ![n] = None]
  /\ UNCHANGED tokens
  /\ Save(ok)
  /\ removed' = removed \cup {n}
  /\ UNCHANGED <<disabled, machines, issued, handed>>

\* The controller starts with what it has saved; calls in flight have failed.
Load ==
  /\ tokens' = saved.tokens /\ creds' = saved.creds /\ nodes' = saved.nodes
  /\ UNCHANGED saved

Calling(m) == agents[m] # None /\ agents[m].at = "checked"

\* The controller dies.
RestartController ==
  /\ ~ disabled
  /\ Fault
  /\ Load
  /\ agents' = [m \in Machine |-> IF Calling(m) THEN None ELSE agents[m]]
  /\ UNCHANGED <<disabled, files, running, joins, history>>

-----------------------------------------------------------------------------
(* The rest of the join command, step by step. *)

Joining(m, step) == joins[m] # None /\ joins[m].at = step

Next(m, step) == joins' = [joins EXCEPT ![m].at = step]

\* Mutant: the service goes on.
StopAgent_Not(m) ==
  /\ Joining(m, "stop")
  /\ Next(m, "config")
  /\ UNCHANGED <<controller, disabled, files, running, agents, history, faults>>

\* systemctl stop scraperack-node
StopAgent(m) ==
  /\ Joining(m, "stop")
  /\ running' = [running EXCEPT ![m] = FALSE]
  /\ agents' = [agents EXCEPT ![m] = None]
  /\ Next(m, "config")
  /\ UNCHANGED <<controller, disabled, files, history, faults>>

WriteConfig(m) ==
  /\ Joining(m, "config")
  /\ files' = [files EXCEPT ![m].cred = joins[m].cred]
  /\ Next(m, "id")
  /\ UNCHANGED <<controller, disabled, running, agents, history, faults>>

WriteNodeId(m) ==
  /\ Joining(m, "id")
  /\ files' = [files EXCEPT ![m].id = joins[m].id]
  /\ Next(m, "controller")
  /\ UNCHANGED <<controller, disabled, running, agents, history, faults>>

\* systemctl disable --now scraperack-controller scraperack-gui
DisableController(m) ==
  /\ Joining(m, "controller")
  /\ disabled' = (disabled \/ m = Host)
  /\ Next(m, "start")
  /\ UNCHANGED <<controller, files, running, agents, history, faults>>

\* systemctl enable --now scraperack-node
StartService(m) ==
  /\ Joining(m, "start")
  /\ running' = [running EXCEPT ![m] = TRUE]
  /\ joins' = [joins EXCEPT ![m] = None]
  /\ UNCHANGED <<controller, disabled, files, agents, history, faults>>

\* A step fails, the answer to join_cluster is lost, or the command is killed.
Interrupt(m) ==
  /\ joins[m] # None
  /\ Fault
  /\ joins' = [joins EXCEPT ![m] = None]
  /\ UNCHANGED <<controller, disabled, files, running, agents, history>>

\* The machine starts again, and its agent, which is enabled all along; on Host the
\* controller too.
Reboot(m) ==
  /\ Fault
  /\ running' = [running EXCEPT ![m] = TRUE]
  /\ agents' = [a \in Machine |-> IF a = m \/ (m = Host /\ Calling(a)) THEN None ELSE agents[a]]
  /\ joins' = [joins EXCEPT ![m] = None]
  /\ IF m = Host THEN Load ELSE UNCHANGED controller
  /\ UNCHANGED <<disabled, files, history>>

-----------------------------------------------------------------------------
(* The agent.  systemd starts it again whenever it fails. *)

AgentAt(m, step) == agents[m] # None /\ agents[m].at = step

Exits(m) == agents' = [agents EXCEPT ![m] = None]

\* With the credential it has been given, and the id beside it.
Launch(m) ==
  /\ running[m] /\ agents[m] = None
  /\ files[m].cred # None /\ files[m].id # None
  /\ agents' = [agents EXCEPT ![m] =
       [id |-> files[m].id, cred |-> files[m].cred, at |-> "enrolled"]]
  /\ UNCHANGED <<controller, disabled, files, running, joins, history, faults>>

KeepId(m) ==
  /\ AgentAt(m, "named")
  /\ files' = [files EXCEPT ![m].id = agents[m].id]
  /\ agents' = [agents EXCEPT ![m].at = "enrolled"]
  /\ UNCHANGED <<controller, disabled, running, joins, history, faults>>

\* authenticated_node, and the comparison with the id in the request.
Authentic(agent) == agent.id \in NodeId /\ creds[agent.id] = agent.cred

\* Mutant: any credential will do.
Authenticate_Anyone(m) ==
  /\ AgentAt(m, "enrolled") \/ AgentAt(m, "up")
  /\ ~ disabled
  /\ IF agents[m].id \in NodeId /\ \E n \in NodeId : creds[n] = agents[m].cred
     THEN agents' = [agents EXCEPT ![m].at = "checked"] ELSE Exits(m)
  /\ UNCHANGED <<controller, disabled, files, running, joins, history, faults>>

\* The first half of register_node, at the start or as a heartbeat.
Authenticate(m) ==
  /\ AgentAt(m, "enrolled") \/ AgentAt(m, "up")
  /\ ~ disabled
  /\ IF Authentic(agents[m]) THEN agents' = [agents EXCEPT ![m].at = "checked"] ELSE Exits(m)
  /\ UNCHANGED <<controller, disabled, files, running, joins, history, faults>>

\* The second half, under the write lock.
Register(m, ok) ==
  /\ AgentAt(m, "checked")
  /\ ~ disabled
  /\ nodes' = nodes \cup {agents[m].id}
  /\ UNCHANGED <<tokens, creds>>
  /\ Save(ok)
  /\ IF ok THEN agents' = [agents EXCEPT ![m].at = "up"] ELSE Exits(m)
  /\ UNCHANGED <<disabled, files, running, joins, history>>

\* A call fails.
CallFails(m) ==
  /\ agents[m] # None
  /\ IF disabled THEN UNCHANGED faults ELSE Fault
  /\ Exits(m)
  /\ UNCHANGED <<controller, disabled, files, running, joins, history>>

-----------------------------------------------------------------------------

JoinStep(m) ==
  \/ StopAgent(m) \/ WriteConfig(m) \/ WriteNodeId(m)
  \/ DisableController(m) \/ StartService(m)

AgentStep(m) ==
  \/ m = Host /\ LocalJoin(TRUE)
  \/ Launch(m) \/ KeepId(m) \/ Authenticate(m) \/ Register(m, TRUE)

EnrollNext ==
  \/ \E t \in Token : CreateToken(t) \/ Expire(t)
  \/ \E m \in Machine, t \in Token, ok \in BOOLEAN : JoinCluster(m, t, ok)
  \/ \E n \in NodeId, ok \in BOOLEAN : DeleteNode(n, ok)
  \/ LocalJoin(FALSE) \/ RestartController
  \/ \E m \in Machine :
       \/ JoinStep(m) \/ Interrupt(m) \/ Reboot(m)
       \/ AgentStep(m) \/ Register(m, FALSE) \/ CallFails(m)

\* An agent that can go on does, and systemd starts one that has ended.
EnrollFairness == \A m \in Machine : WF_vars(AgentStep(m))

EnrollSpec == EnrollInit /\ [][EnrollNext]_vars /\ EnrollFairness
-----------------------------------------------------------------------------
(* Safety. *)

\* api.rs: join_tokens_are_single_use.  However the controller dies and its writes
\* fail, a token hands out no more than one credential.
SingleUse == \A t \in Token : handed[t] <= 1

\* Whatever a join that was cut off has left in the files of a machine, an agent acts
\* only as the node its credential was issued for, and no two act as one.
OwnIdentity ==
  /\ \A m \in Machine : AgentAt(m, "checked") \/ AgentAt(m, "up")
       => agents[m].id \in NodeId /\ issued[agents[m].cred] = agents[m].id
  /\ \A m, o \in Machine : m # o /\ AgentAt(m, "up") /\ AgentAt(o, "up")
       => agents[m].id # agents[o].id

\* A credential that goes with the id beside it, and whose node was not removed.
Good(pair) == pair.id \in NodeId \ removed /\ pair.cred # None /\ issued[pair.cred] = pair.id

\* The controller never forgets a credential an agent or a machine has got, whatever
\* it crashed at.
CredentialsLast ==
  \A m \in Machine :
    /\ agents[m] # None /\ Good(agents[m]) => saved.creds[agents[m].id] = agents[m].cred
    /\ Good(files[m]) => saved.creds[files[m].id] = files[m].cred

\* Nodes nobody can act as: executions that are placed on them wait for ever, and
\* images are never on all nodes.
Zombies == {n \in nodes : creds[n] = None}

\* A node comes to be without a credential only where it was removed between the two
\* halves of its registration, or where the controller starts again with such a one.
ZombiesExplained ==
  [][\A n \in Zombies' \ Zombies :
       \/ \E m \in Machine : AgentAt(m, "checked") /\ agents[m].id = n /\ n \in removed
       \/ n \in saved.nodes /\ saved.creds[n] = None]_vars

-----------------------------------------------------------------------------
(* Liveness. *)

Ready(m) == running[m] /\ joins[m] = None /\ Good(files[m])

\* A machine that has joined becomes the node it was made, after whatever failures,
\* unless that node is removed, the machine joins again, or the controller was made a
\* node of itself.
JoinedComesUp ==
  \A m \in Machine :
    Ready(m) ~> \/ AgentAt(m, "up") /\ agents[m].id = files[m].id
                \/ ~ Ready(m) \/ disabled

=============================================================================
