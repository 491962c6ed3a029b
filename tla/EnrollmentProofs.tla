-------------------------- MODULE EnrollmentProofs --------------------------
(***************************************************************************)
(* Proofs about Enrollment, for any machines, tokens, ids and faults.      *)
(*                                                                         *)
(* A token that is open, in memory or in the database, has given nothing:  *)
(* join_cluster saves it as used before it answers, and a token that could *)
(* not be saved, which a restart opens again, was not answered for.        *)
(*                                                                         *)
(* An id is in the hands of one machine: it is new when it is given out,   *)
(* and what a machine does with its files, its agent and its join moves it *)
(* around within the machine.                                              *)
(*                                                                         *)
(* A credential is saved before it is given away, and what a machine was   *)
(* given the controller keeps (Known).  Only local_join issues another one *)
(* for an id that is in use, the one in the file of a machine that has no  *)
(* credential; no join is about to bring that machine one for the same id, *)
(* as its id is written after its credential (Stage).                      *)
(***************************************************************************)
EXTENDS Enrollment, TLAPS, WellFoundedInduction

Status == {"absent", "open", "used"}

\* The parts of the controller that tokens depend on, with their types.
TokenTypes ==
  /\ tokens \in [Token -> Status]
  /\ saved = [tokens |-> saved.tokens, creds |-> saved.creds, nodes |-> saved.nodes]
  /\ saved.tokens \in [Token -> Status]
  /\ handed \in [Token -> Nat]

\* Memory and database agree on which tokens there are, and one that either takes for
\* unused has given nothing.
UnusedGaveNothing ==
  \A t \in Token :
    /\ tokens[t] = "absent" <=> saved.tokens[t] = "absent"
    /\ tokens[t] # "used" \/ saved.tokens[t] # "used" => handed[t] = 0
    /\ handed[t] <= 1

TInv == TokenTypes /\ UnusedGaveNothing

\* The initial state satisfies the invariant.
LEMMA InitInv == EnrollInit => TInv
  BY DEF EnrollInit, TInv, TokenTypes, UnusedGaveNothing, Status

\* A step that leaves the tokens alone, saves them or not, keeps it.
LEMMA OthersInv ==
  ASSUME TInv, UNCHANGED <<tokens, handed>>,
         UNCHANGED saved \/ saved' = [tokens |-> tokens', creds |-> creds', nodes |-> nodes']
  PROVE  TInv'
  BY DEF TInv, TokenTypes, UnusedGaveNothing

\* create_join_token, and the end of a token.
LEMMA TokenInv ==
  ASSUME TInv, NEW t \in Token, CreateToken(t) \/ Expire(t)
  PROVE  TInv'
<1>1. CASE CreateToken(t)
  BY <1>1 DEF TInv, TokenTypes, UnusedGaveNothing, CreateToken, Save, Status, history
<1>2. CASE Expire(t)
  <2>1. saved' = [tokens |-> [saved.tokens EXCEPT ![t] = "absent"], creds |-> saved.creds,
                  nodes |-> saved.nodes]
    BY <1>2 DEF Expire, TInv, TokenTypes
  <2>. QED  BY <1>2, <2>1 DEF TInv, TokenTypes, UnusedGaveNothing, Expire, Status
<1>. QED  BY <1>1, <1>2

\* join_cluster.
LEMMA JoinInv ==
  ASSUME TInv, NEW m \in Machine, NEW t \in Token, NEW ok \in BOOLEAN, JoinCluster(m, t, ok)
  PROVE  TInv'
  BY DEF TInv, TokenTypes, UnusedGaveNothing, JoinCluster, Save, Status

\* A controller that starts again.
LEMMA LoadInv ==
  ASSUME TInv, Load, UNCHANGED handed
  PROVE  TInv'
  BY DEF TInv, TokenTypes, UnusedGaveNothing, Load

\* The invariant is inductive.
LEMMA StepInv == TInv /\ [EnrollNext]_vars => TInv'
<1>. SUFFICES ASSUME TInv, [EnrollNext]_vars PROVE TInv'
  OBVIOUS
<1>1. ASSUME NEW n \in NodeId, NEW ok \in BOOLEAN, DeleteNode(n, ok) PROVE TInv'
  BY <1>1, OthersInv DEF DeleteNode, Save
<1>2. ASSUME NEW ok \in BOOLEAN, LocalJoin(ok) PROVE TInv'
  BY <1>2, OthersInv DEF LocalJoin, Save
<1>3. ASSUME NEW m \in Machine, NEW ok \in BOOLEAN, Register(m, ok) PROVE TInv'
  BY <1>3, OthersInv DEF Register, Save, Exits, history
<1>4. CASE RestartController
  BY <1>4, LoadInv DEF RestartController, history
<1>5. ASSUME NEW m \in Machine, Reboot(m) PROVE TInv'
  BY <1>5, LoadInv, OthersInv DEF Reboot, history, controller
<1>6. ASSUME NEW m \in Machine,
             JoinStep(m) \/ Interrupt(m) \/ Launch(m) \/ KeepId(m) \/ Authenticate(m) \/ CallFails(m)
      PROVE  TInv'
  BY <1>6, OthersInv
  DEF JoinStep, StopAgent, WriteConfig, WriteNodeId, DisableController, StartService, Interrupt,
      Launch, KeepId, Authenticate, CallFails, controller, history
<1>7. CASE UNCHANGED vars
  BY <1>7, OthersInv DEF vars, controller, history
<1>. QED
  BY <1>1, <1>2, <1>3, <1>4, <1>5, <1>6, <1>7, TokenInv, JoinInv DEF EnrollNext, AgentStep

\* join_tokens_are_single_use: a token gives out no more than one credential, whatever
\* writes fail and whenever the controller or the machines start again.
THEOREM TokensAreSingleUse == EnrollSpec => []SingleUse
<1>1. TInv => SingleUse
  BY DEF TInv, UnusedGaveNothing, SingleUse
<1>. QED  BY <1>1, InitInv, StepInv, PTL DEF EnrollSpec

-----------------------------------------------------------------------------
(* Types. *)

\* Sets of numbers have a least element.
LEMMA LeastElement ==
  ASSUME NEW S, S \subseteq Nat, S # {}
  PROVE  \E m \in S : \A n \in S : m <= n
<1>1. \E m \in S : \A n \in S : ~ (<<n, m>> \in OpToRel(<, Nat))
  BY NatLessThanWellFounded, WFMin
<1>2. ASSUME NEW m \in S, NEW n \in S, n < m PROVE <<n, m>> \in OpToRel(<, Nat)
  BY <1>2 DEF OpToRel
<1>3. \E m \in S : \A n \in S : ~ (n < m)
  BY <1>1, <1>2, Zenon
<1>. QED  BY <1>3

\* What is fresh is nobody's.
LEMMA FreshIsNew ==
  ASSUME NEW S, NEW held, S \subseteq Nat, Fresh(S, held) # None
  PROVE  Fresh(S, held) \in S /\ Fresh(S, held) \notin held
<1>1. S \ held # {} /\ Fresh(S, held) = LeastOf(S \ held)
  BY DEF Fresh
<1>2. \E x \in S \ held : \A y \in S \ held : x <= y
  BY <1>1, LeastElement
<1>3. LeastOf(S \ held) \in S \ held
  BY <1>2 DEF LeastOf
<1>. QED  BY <1>1, <1>3

\* Ids and credentials are numbers, and not None.
LEMMA Numbers == NodeId \subseteq Nat /\ Cred \subseteq Nat /\ None \notin Nat
  BY EnrollmentAssumption DEF NodeId, Cred

-----------------------------------------------------------------------------
(* Ids and credentials. *)

\* The types of what machines hold, and whom a credential was issued to.  The machine of
\* the controller has no other controller's id.
MachineTypes ==
  /\ files \in [Machine -> Files]
  /\ agents \in [Machine -> Agent \cup {None}]
  /\ joins \in [Machine -> Join \cup {None}]
  /\ creds \in [NodeId -> Cred \cup {None}]
  /\ saved.creds \in [NodeId -> Cred \cup {None}]
  /\ issued \in [Cred -> NodeId \cup {None}]
  /\ files[Host].id # Elsewhere
  /\ agents[Host] # None => agents[Host].id # Elsewhere

\* A credential the controller knows goes with the id it was issued for.
Linked ==
  \A n \in NodeId :
    /\ creds[n] # None => issued[creds[n]] = n
    /\ saved.creds[n] # None => issued[saved.creds[n]] = n

\* So does that of an agent that has passed authentication.
Acting ==
  \A m \in Machine : AgentAt(m, "checked") \/ AgentAt(m, "up")
    => agents[m].id \in NodeId /\ issued[agents[m].cred] = agents[m].id

\* Machine m has id n, in its files, its agent or its join command.
Has(m, n) ==
  \/ files[m].id = n
  \/ agents[m] # None /\ agents[m].id = n
  \/ joins[m] # None /\ joins[m].id = n

\* No two machines have the same one.
Apart == \A m, o \in Machine, n \in NodeId : Has(m, n) /\ Has(o, n) => m = o

OInv == MachineTypes /\ Linked /\ Acting /\ Apart

\* The initial state satisfies the invariant.
LEMMA OwnInit == EnrollInit => OInv
<1>. SUFFICES ASSUME EnrollInit PROVE OInv
  OBVIOUS
<1>1. MachineTypes
  BY Numbers, EnrollmentAssumption DEF EnrollInit, MachineTypes, Files, Elsewhere
<1>2. Linked /\ Acting
  BY DEF EnrollInit, Linked, Acting, AgentAt
<1>3. Apart
  BY Numbers DEF EnrollInit, Apart, Has, Elsewhere, NodeId
<1>. QED  BY <1>1, <1>2, <1>3 DEF OInv

\* What a machine has is held.
LEMMA HasIsHeld ==
  ASSUME NEW m \in Machine, NEW n, Has(m, n)
  PROVE  n \in HeldIds
  BY DEF Has, HeldIds

\* Machines stay apart when what they get is theirs, or a new id for one of them.
LEMMA StayApart ==
  ASSUME Apart, NEW k, NEW i, i \notin HeldIds,
         \A m \in Machine, n \in NodeId : Has(m, n)' => Has(m, n) \/ (m = k /\ n = i)
  PROVE  Apart'
  BY HasIsHeld DEF Apart

\* The same, where nothing is new.
LEMMA MoveApart ==
  ASSUME Apart, \A m \in Machine, n \in NodeId : Has(m, n)' => Has(m, n)
  PROVE  Apart'
  BY DEF Apart

\* A credential that is issued is new, and leaves the others as they are.
LEMMA IssueLinks ==
  ASSUME MachineTypes, NEW n \in NodeId, NEW c \in Cred, c \notin HeldCreds, Issue(n, c)
  PROVE  /\ creds' = [creds EXCEPT ![n] = c]
         /\ issued' \in [Cred -> NodeId \cup {None}]
         /\ issued'[c] = n
         /\ \A x \in HeldCreds \cap Cred : x # c /\ issued'[x] = issued[x]
  BY DEF Issue, MachineTypes

\* What is in use is held.
LEMMA UsedIsHeld ==
  /\ \A n \in NodeId : creds[n] \in HeldCreds /\ saved.creds[n] \in HeldCreds
  /\ \A m \in Machine : agents[m] # None => agents[m].cred \in HeldCreds
  BY DEF HeldCreds

\* A step after which creds and saved.creds hold a credential only where one of them held
\* it before, and nothing is issued.
LEMMA KeepLinked ==
  ASSUME Linked, UNCHANGED issued,
         \A n \in NodeId : creds'[n] \in {creds[n], saved.creds[n], None},
         \A n \in NodeId : saved.creds'[n] \in {creds[n], saved.creds[n], None}
  PROVE  Linked'
  BY DEF Linked

\* join_cluster.
LEMMA JoinOwn ==
  ASSUME TInv, OInv, NEW m \in Machine, NEW t \in Token, NEW ok \in BOOLEAN, JoinCluster(m, t, ok)
  PROVE  OInv'
<1>. DEFINE n == Fresh(NodeId, HeldIds)
            c == Fresh(Cred, HeldCreds)
<1>1. n \in NodeId /\ n \notin HeldIds /\ c \in Cred /\ c \notin HeldCreds /\ Issue(n, c)
  BY FreshIsNew, Numbers DEF JoinCluster
<1>2. /\ creds' = [creds EXCEPT ![n] = c]
      /\ UNCHANGED <<files, agents>>
      /\ UNCHANGED saved \/ saved' = [tokens |-> tokens', creds |-> creds', nodes |-> nodes']
      /\ UNCHANGED joins \/ joins' = [joins EXCEPT ![m] = [at |-> "stop", id |-> n, cred |-> c]]
  BY <1>1 DEF JoinCluster, Save, Issue
<1>. HIDE DEF n, c
<1>3. /\ issued' \in [Cred -> NodeId \cup {None}]
      /\ issued'[c] = n
      /\ \A x \in HeldCreds \cap Cred : x # c /\ issued'[x] = issued[x]
  BY <1>1, IssueLinks DEF OInv
<1>4. MachineTypes'
  BY <1>1, <1>2, <1>3 DEF OInv, MachineTypes, Join
<1>5. saved.creds' = creds' \/ saved.creds' = saved.creds
  <2>1. CASE UNCHANGED saved
    BY <2>1
  <2>2. CASE saved' = [tokens |-> tokens', creds |-> creds', nodes |-> nodes']
    BY <2>2
  <2>. QED  BY <1>2, <2>1, <2>2
<1>6. Linked'
  <2>1. \A k \in NodeId : creds'[k] # None => issued'[creds'[k]] = k
    BY <1>1, <1>2, <1>3, UsedIsHeld DEF OInv, MachineTypes, Linked
  <2>2. \A k \in NodeId : saved.creds[k] # None => issued'[saved.creds[k]] = k
    BY <1>3, UsedIsHeld DEF OInv, MachineTypes, Linked
  <2>. QED  BY <2>1, <2>2, <1>5 DEF Linked
<1>7. Acting'
  BY <1>2, <1>3, UsedIsHeld, Numbers DEF OInv, MachineTypes, Acting, AgentAt, Agent
<1>8. Apart'
  <2>1. \A o \in Machine, i \in NodeId : Has(o, i)' => Has(o, i) \/ (o = m /\ i = n)
    BY <1>2 DEF Has, OInv, MachineTypes
  <2>. QED  BY <1>1, <2>1, StayApart DEF OInv
<1>. QED  BY <1>4, <1>6, <1>7, <1>8 DEF OInv

\* local_join.
LEMMA LocalOwn ==
  ASSUME TInv, OInv, NEW ok \in BOOLEAN, LocalJoin(ok)
  PROVE  OInv'
<1>. DEFINE id == files[Host].id
            n == IF id = None THEN Fresh(NodeId, HeldIds) ELSE id
            c == Fresh(Cred, HeldCreds)
<1>1. /\ n \in NodeId /\ c \in Cred /\ c \notin HeldCreds /\ Issue(n, c)
      /\ n = id \/ n \notin HeldIds
  <2>1. id \in NodeId \cup {None}
    BY EnrollmentAssumption DEF OInv, MachineTypes, Files
  <2>2. CASE id = None
    BY <2>2, FreshIsNew, Numbers DEF LocalJoin
  <2>3. CASE id # None
    BY <2>1, <2>3, FreshIsNew, Numbers DEF LocalJoin
  <2>. QED  BY <2>2, <2>3
<1>2. /\ creds' = [creds EXCEPT ![n] = c]
      /\ UNCHANGED <<files, joins>>
      /\ UNCHANGED saved \/ saved' = [tokens |-> tokens', creds |-> creds', nodes |-> nodes']
      /\ \/ UNCHANGED agents
         \/ agents' = [agents EXCEPT ![Host] =
              [id |-> n, cred |-> c, at |-> IF n = id THEN "enrolled" ELSE "named"]]
  BY <1>1 DEF LocalJoin, Save, Issue
<1>3. id = files[Host].id
  OBVIOUS
<1>. HIDE DEF n, c, id
<1>4. /\ issued' \in [Cred -> NodeId \cup {None}]
      /\ issued'[c] = n
      /\ \A x \in HeldCreds \cap Cred : x # c /\ issued'[x] = issued[x]
  BY <1>1, IssueLinks DEF OInv
<1>5. MachineTypes'
  <2>. DEFINE a == [id |-> n, cred |-> c, at |-> IF n = id THEN "enrolled" ELSE "named"]
  <2>1. a \in Agent /\ a.id # Elsewhere
    BY <1>1 DEF Agent, Elsewhere, NodeId
  <2>2. agents' = agents \/ agents' = [agents EXCEPT ![Host] = a]
    BY <1>2
  <2>. HIDE DEF a
  <2>3. agents' \in [Machine -> Agent \cup {None}] /\ (agents'[Host] # None => agents'[Host].id # Elsewhere)
    BY <2>1, <2>2, EnrollmentAssumption DEF OInv, MachineTypes
  <2>. QED  BY <1>1, <1>2, <1>4, <2>3 DEF OInv, MachineTypes
<1>6. saved.creds' = creds' \/ saved.creds' = saved.creds
  <2>1. CASE UNCHANGED saved
    BY <2>1
  <2>2. CASE saved' = [tokens |-> tokens', creds |-> creds', nodes |-> nodes']
    BY <2>2
  <2>. QED  BY <1>2, <2>1, <2>2
<1>7. Linked'
  <2>1. \A k \in NodeId : creds'[k] # None => issued'[creds'[k]] = k
    BY <1>1, <1>2, <1>4, UsedIsHeld DEF OInv, MachineTypes, Linked
  <2>2. \A k \in NodeId : saved.creds[k] # None => issued'[saved.creds[k]] = k
    BY <1>4, UsedIsHeld DEF OInv, MachineTypes, Linked
  <2>. QED  BY <2>1, <2>2, <1>6 DEF Linked
<1>8. Acting'
  <2>1. SUFFICES ASSUME NEW o \in Machine, (AgentAt(o, "checked") \/ AgentAt(o, "up"))'
                 PROVE  agents'[o].id \in NodeId /\ issued'[agents'[o].cred] = agents'[o].id
    BY DEF Acting
  <2>2. agents'[o] = agents[o] /\ agents[o] # None
    BY <1>2, <2>1, EnrollmentAssumption DEF AgentAt, OInv, MachineTypes
  <2>. QED  BY <1>4, <2>1, <2>2, UsedIsHeld DEF OInv, MachineTypes, Acting, AgentAt, Agent
<1>9. Apart'
  <2>1. \A o \in Machine, i \in NodeId : Has(o, i)' => Has(o, i) \/ (o = Host /\ i = n)
    BY <1>2, EnrollmentAssumption DEF Has, OInv, MachineTypes
  <2>2. CASE n = id
    BY <1>3, <2>1, <2>2, MoveApart DEF OInv, Has
  <2>3. CASE n \notin HeldIds
    BY <2>1, <2>3, StayApart DEF OInv
  <2>. QED  BY <1>1, <2>2, <2>3
<1>. QED  BY <1>5, <1>7, <1>8, <1>9 DEF OInv

\* The next step of an agent, or of a join, has the id and the credential it had.
LEMMA SameHolder ==
  /\ \A a \in Agent, s \in {"named", "enrolled", "checked", "up"} :
       /\ [a EXCEPT !.at = s] \in Agent
       /\ [a EXCEPT !.at = s].id = a.id
  /\ \A j \in Join, s \in {"stop", "config", "id", "controller", "start"} :
       /\ [j EXCEPT !.at = s] \in Join
       /\ [j EXCEPT !.at = s].id = j.id
  BY DEF Agent, Join

\* The files of a machine, after one of them is written.
LEMMA SameFiles ==
  /\ \A f \in Files, i \in NodeId \cup {Elsewhere, None} :
       [f EXCEPT !.id = i] \in Files /\ [f EXCEPT !.id = i].id = i
  /\ \A f \in Files, c \in Cred \cup {None} :
       [f EXCEPT !.cred = c] \in Files /\ [f EXCEPT !.cred = c].id = f.id
  BY DEF Files

\* The rest of the join command moves what its machine has, and so does the agent.
LEMMA MachineOwn ==
  ASSUME OInv, NEW m \in Machine,
         JoinStep(m) \/ Interrupt(m) \/ Launch(m) \/ KeepId(m) \/ Authenticate(m) \/ CallFails(m)
  PROVE  OInv'
<1>1. UNCHANGED <<controller, issued>>
  BY DEF JoinStep, StopAgent, WriteConfig, WriteNodeId, DisableController, StartService, Interrupt,
         Launch, KeepId, Authenticate, CallFails, history
<1>2. MachineTypes'
  <2>. USE <1>1 DEF OInv, MachineTypes, controller, Files, Agent, Join, Elsewhere, NodeId
  <2>1. CASE JoinStep(m)
    <3>1. files' \in [Machine -> Files] /\ files'[Host].id # Elsewhere
      <4>1. CASE WriteConfig(m)
        <5>1. joins[m] \in Join /\ joins[m].cred \in Cred /\ files[m] \in Files
          BY <4>1 DEF WriteConfig, Joining
        <5>2. files' = [files EXCEPT ![m] = [files[m] EXCEPT !.cred = joins[m].cred]]
          BY <4>1 DEF WriteConfig
        <5>. HIDE DEF Files, Join
        <5>. QED  BY <5>1, <5>2, SameFiles, EnrollmentAssumption
      <4>2. CASE WriteNodeId(m)
        <5>1. joins[m] \in Join /\ joins[m].id \in NodeId /\ files[m] \in Files
          BY <4>2 DEF WriteNodeId, Joining
        <5>2. files' = [files EXCEPT ![m] = [files[m] EXCEPT !.id = joins[m].id]]
          BY <4>2 DEF WriteNodeId
        <5>3. joins[m].id # Elsewhere
          BY <5>1
        <5>. HIDE DEF Files, Join, NodeId, Elsewhere
        <5>. QED  BY <5>1, <5>2, <5>3, SameFiles, EnrollmentAssumption
      <4>. QED
        BY <2>1, <4>1, <4>2 DEF JoinStep, StopAgent, DisableController, StartService
    <3>2. joins' \in [Machine -> Join \cup {None}]
      <4>1. ASSUME NEW s \in {"config", "id", "controller", "start"}, Next(m, s), joins[m] # None
            PROVE  joins' \in [Machine -> Join \cup {None}]
        <5>1. joins' = [joins EXCEPT ![m] = [joins[m] EXCEPT !.at = s]] /\ joins[m] \in Join
          BY <4>1 DEF Next
        <5>. HIDE DEF Join
        <5>. QED  BY <5>1, SameHolder
      <4>2. CASE StartService(m)
        BY <4>2 DEF StartService
      <4>. QED
        BY <2>1, <4>1, <4>2
        DEF JoinStep, StopAgent, WriteConfig, WriteNodeId, DisableController, Joining
    <3>3. agents' = agents \/ agents' = [agents EXCEPT ![m] = None]
      BY <2>1 DEF JoinStep, StopAgent, WriteConfig, WriteNodeId, DisableController, StartService
    <3>4. agents' \in [Machine -> Agent \cup {None}] /\ (agents'[Host] # None => agents'[Host].id # Elsewhere)
      BY <3>3, EnrollmentAssumption
    <3>. QED  BY <3>1, <3>2, <3>4
  <2>2. CASE Interrupt(m)
    BY <2>2 DEF Interrupt
  <2>3. CASE Launch(m)
    BY <2>3 DEF Launch
  <2>4. CASE KeepId(m)
    <3>1. agents[m] \in Agent /\ files[m] \in Files /\ agents[m].id \in NodeId \cup {Elsewhere}
      BY <2>4 DEF KeepId, AgentAt
    <3>2. /\ files' = [files EXCEPT ![m] = [files[m] EXCEPT !.id = agents[m].id]]
          /\ agents' = [agents EXCEPT ![m] = [agents[m] EXCEPT !.at = "enrolled"]]
          /\ agents[m] # None /\ UNCHANGED joins
      BY <2>4 DEF KeepId, AgentAt
    <3>. DEFINE a == [agents[m] EXCEPT !.at = "enrolled"]
                f == [files[m] EXCEPT !.id = agents[m].id]
    <3>. HIDE DEF Files, Agent, NodeId, Elsewhere
    <3>3. a \in Agent /\ a.id = agents[m].id
      BY <3>1, SameHolder
    <3>4. f \in Files /\ f.id = agents[m].id
      BY <3>1, SameFiles
    <3>5. agents' = [agents EXCEPT ![m] = a] /\ files' = [files EXCEPT ![m] = f]
      BY <3>2
    <3>. HIDE DEF a, f
    <3>6. agents' \in [Machine -> Agent \cup {None}] /\ (agents'[Host] # None => agents'[Host].id # Elsewhere)
      BY <3>2, <3>3, <3>5, EnrollmentAssumption
    <3>7. files' \in [Machine -> Files] /\ files'[Host].id # Elsewhere
      BY <3>2, <3>4, <3>5, EnrollmentAssumption
    <3>. QED  BY <3>2, <3>6, <3>7
  <2>5. CASE Authenticate(m)
    <3>1. agents[m] \in Agent /\ agents[m] # None /\ UNCHANGED <<files, joins>>
      BY <2>5 DEF Authenticate, AgentAt
    <3>2. \/ agents' = [agents EXCEPT ![m] = [agents[m] EXCEPT !.at = "checked"]]
          \/ agents' = [agents EXCEPT ![m] = None]
      BY <2>5 DEF Authenticate, Exits
    <3>. DEFINE a == [agents[m] EXCEPT !.at = "checked"]
    <3>. HIDE DEF Agent, Elsewhere
    <3>3. a \in Agent /\ a.id = agents[m].id
      BY <3>1, SameHolder
    <3>4. agents' = [agents EXCEPT ![m] = a] \/ agents' = [agents EXCEPT ![m] = None]
      BY <3>2
    <3>. HIDE DEF a
    <3>5. agents' \in [Machine -> Agent \cup {None}] /\ (agents'[Host] # None => agents'[Host].id # Elsewhere)
      BY <3>1, <3>3, <3>4, EnrollmentAssumption
    <3>. QED  BY <3>1, <3>5
  <2>6. CASE CallFails(m)
    BY <2>6 DEF CallFails, Exits
  <2>. QED  BY <2>1, <2>2, <2>3, <2>4, <2>5, <2>6
<1>3. Linked'
  BY <1>1 DEF OInv, Linked, controller
<1>4. Acting'
  <2>. USE <1>1 DEF OInv, MachineTypes, Acting, AgentAt, controller
  <2>1. CASE UNCHANGED agents
    BY <2>1
  <2>2. CASE StopAgent(m) \/ CallFails(m) \/ Launch(m) \/ KeepId(m)
    BY <2>2 DEF StopAgent, CallFails, Exits, Launch, KeepId, Agent
  <2>3. CASE Authenticate(m)
    BY <2>3, Numbers DEF Authenticate, Authentic, Exits, Linked, Agent
  <2>. QED
    BY <2>1, <2>2, <2>3
    DEF JoinStep, WriteConfig, WriteNodeId, DisableController, StartService, Interrupt
<1>5. Apart'
  <2>1. \A o \in Machine, i \in NodeId : Has(o, i)' => Has(o, i)
    <3>. USE DEF OInv, MachineTypes, Has, Files, Agent, Join
    <3>1. CASE JoinStep(m)
      BY <3>1
      DEF JoinStep, StopAgent, WriteConfig, WriteNodeId, DisableController, StartService, Joining, Next
    <3>2. CASE Interrupt(m) \/ Launch(m) \/ CallFails(m)
      BY <3>2 DEF Interrupt, Launch, CallFails, Exits
    <3>3. CASE KeepId(m)
      BY <3>3 DEF KeepId, AgentAt
    <3>4. CASE Authenticate(m)
      BY <3>4 DEF Authenticate, AgentAt, Exits
    <3>. QED  BY <3>1, <3>2, <3>3, <3>4
  <2>. QED  BY <2>1, MoveApart DEF OInv
<1>. QED  BY <1>2, <1>3, <1>4, <1>5 DEF OInv

\* What the controller does with its tables, while the machines keep what they have.
LEMMA ControllerOwn ==
  ASSUME OInv, UNCHANGED issued,
         \A n \in NodeId : creds'[n] \in {creds[n], saved.creds[n], None},
         \A n \in NodeId : saved.creds'[n] \in {creds[n], saved.creds[n], None},
         creds' \in [NodeId -> Cred \cup {None}], saved.creds' \in [NodeId -> Cred \cup {None}],
         UNCHANGED <<files, joins>>,
         \A m \in Machine : agents'[m] \in {agents[m], None},
         agents' \in [Machine -> Agent \cup {None}]
  PROVE  OInv'
<1>1. MachineTypes'
  BY EnrollmentAssumption DEF OInv, MachineTypes
<1>2. Linked'
  BY KeepLinked DEF OInv
<1>3. Acting'
  BY DEF OInv, Acting, AgentAt
<1>4. Apart'
  <2>1. \A o \in Machine, i \in NodeId : Has(o, i)' => Has(o, i)
    BY DEF Has
  <2>. QED  BY <2>1, MoveApart DEF OInv
<1>. QED  BY <1>1, <1>2, <1>3, <1>4 DEF OInv

\* save leaves one of the two tables of credentials in the database.
LEMMA SavedCreds ==
  ASSUME NEW ok \in BOOLEAN, Save(ok)
  PROVE  saved.creds' = creds' \/ saved.creds' = saved.creds
<1>1. CASE UNCHANGED saved
  BY <1>1
<1>2. CASE saved' = [tokens |-> tokens', creds |-> creds', nodes |-> nodes']
  BY <1>2
<1>. QED  BY <1>1, <1>2 DEF Save

\* create_join_token, the end of a token, and delete_node.
LEMMA TablesOwn ==
  ASSUME TInv, OInv,
         \/ \E t \in Token : CreateToken(t) \/ Expire(t)
         \/ \E n \in NodeId, ok \in BOOLEAN : DeleteNode(n, ok)
  PROVE  OInv'
<1>1. ASSUME NEW t \in Token, CreateToken(t) PROVE OInv'
  <2>1. saved.creds' = creds' \/ saved.creds' = saved.creds
    BY <1>1, SavedCreds DEF CreateToken
  <2>. QED
    BY <1>1, <2>1, ControllerOwn DEF CreateToken, OInv, MachineTypes, machines, history
<1>2. ASSUME NEW t \in Token, Expire(t) PROVE OInv'
  <2>1. saved.creds' = saved.creds
    BY <1>2 DEF Expire, TInv, TokenTypes
  <2>. QED
    BY <1>2, <2>1, ControllerOwn DEF Expire, OInv, MachineTypes, machines
<1>3. ASSUME NEW n \in NodeId, NEW ok \in BOOLEAN, DeleteNode(n, ok) PROVE OInv'
  <2>1. saved.creds' = creds' \/ saved.creds' = saved.creds
    BY <1>3, SavedCreds DEF DeleteNode
  <2>2. \A k \in NodeId : creds'[k] \in {creds[k], None}
    BY <1>3 DEF DeleteNode, OInv, MachineTypes
  <2>3. creds' \in [NodeId -> Cred \cup {None}]
    BY <1>3 DEF DeleteNode, OInv, MachineTypes
  <2>. QED
    BY <1>3, <2>1, <2>2, <2>3, ControllerOwn DEF DeleteNode, OInv, MachineTypes, machines
<1>. QED  BY <1>1, <1>2, <1>3

\* Machines and the controller start again.
LEMMA RestartOwn ==
  ASSUME OInv, RestartController \/ \E m \in Machine : Reboot(m)
  PROVE  OInv'
<1>1. CASE RestartController
  <2>1. creds' = saved.creds /\ saved.creds' = saved.creds /\ UNCHANGED <<issued, files, joins>>
    BY <1>1 DEF RestartController, Load, history
  <2>2. agents' = [m \in Machine |-> IF Calling(m) THEN None ELSE agents[m]]
    BY <1>1 DEF RestartController
  <2>. QED  BY <2>1, <2>2, ControllerOwn DEF OInv, MachineTypes
<1>2. ASSUME NEW m \in Machine, Reboot(m) PROVE OInv'
  <2>1. /\ creds' \in {creds, saved.creds} /\ saved.creds' = saved.creds
        /\ UNCHANGED <<issued, files>>
        /\ joins' = [joins EXCEPT ![m] = None]
    BY <1>2 DEF Reboot, Load, history, controller
  <2>2. agents' = [a \in Machine |-> IF a = m \/ (m = Host /\ Calling(a)) THEN None ELSE agents[a]]
    BY <1>2 DEF Reboot
  <2>3. /\ agents' \in [Machine -> Agent \cup {None}]
        /\ \A a \in Machine : agents'[a] \in {agents[a], None}
    BY <2>2 DEF OInv, MachineTypes
  <2>4. MachineTypes'
    BY <2>1, <2>3, EnrollmentAssumption DEF OInv, MachineTypes
  <2>5. Linked'
    BY <2>1, KeepLinked DEF OInv
  <2>6. Acting'
    BY <2>1, <2>3 DEF OInv, Acting, AgentAt
  <2>7. \A o \in Machine, i \in NodeId : Has(o, i)' => Has(o, i)
    BY <2>1, <2>3 DEF OInv, MachineTypes, Has
  <2>8. Apart'
    BY <2>7, MoveApart DEF OInv
  <2>. QED  BY <2>4, <2>5, <2>6, <2>8 DEF OInv
<1>. QED  BY <1>1, <1>2

\* The second half of register_node.
LEMMA RegisterOwn ==
  ASSUME OInv, NEW m \in Machine, NEW ok \in BOOLEAN, Register(m, ok)
  PROVE  OInv'
<1>1. saved.creds' = creds' \/ saved.creds' = saved.creds
  BY SavedCreds DEF Register
<1>2. UNCHANGED <<creds, issued, files, joins>>
  BY DEF Register, history
<1>3. CASE ok
  <2>. DEFINE a == [agents[m] EXCEPT !.at = "up"]
  <2>1. agents[m] \in Agent /\ agents[m] # None /\ AgentAt(m, "checked")
    BY DEF Register, AgentAt, OInv, MachineTypes
  <2>2. a \in Agent /\ a.id = agents[m].id /\ a.cred = agents[m].cred
    BY <2>1 DEF Agent
  <2>3. agents' = [agents EXCEPT ![m] = a]
    BY <1>3 DEF Register
  <2>. HIDE DEF a
  <2>4. /\ agents' \in [Machine -> Agent \cup {None}]
        /\ agents'[Host] # None => agents'[Host].id # Elsewhere
    BY <2>1, <2>2, <2>3, EnrollmentAssumption DEF OInv, MachineTypes
  <2>5. MachineTypes'
    BY <1>1, <1>2, <2>4 DEF OInv, MachineTypes
  <2>6. Linked'
    BY <1>1, <1>2, KeepLinked DEF OInv
  <2>7. Acting'
    BY <1>2, <2>1, <2>2, <2>3 DEF OInv, MachineTypes, Acting, AgentAt
  <2>8. \A o \in Machine, i \in NodeId : Has(o, i)' => Has(o, i)
    BY <1>2, <2>1, <2>2, <2>3 DEF OInv, MachineTypes, Has
  <2>. QED  BY <2>5, <2>6, <2>7, <2>8, MoveApart DEF OInv
<1>4. CASE ~ ok
  <2>1. agents' = [agents EXCEPT ![m] = None]
    BY <1>4 DEF Register, Exits
  <2>. QED  BY <1>1, <1>2, <2>1, ControllerOwn DEF OInv, MachineTypes
<1>. QED  BY <1>3, <1>4

\* The invariant is inductive.
LEMMA OwnStep == TInv /\ OInv /\ [EnrollNext]_vars => OInv'
<1>. SUFFICES ASSUME TInv, OInv, [EnrollNext]_vars PROVE OInv'
  OBVIOUS
<1>1. CASE UNCHANGED vars
  BY <1>1, ControllerOwn DEF OInv, MachineTypes, vars, controller, machines, history
<1>2. CASE EnrollNext
  <2>1. CASE \E m \in Machine, ok \in BOOLEAN : Register(m, ok)
    BY <2>1, RegisterOwn
  <2>2. CASE \E ok \in BOOLEAN : LocalJoin(ok)
    BY <2>2, LocalOwn
  <2>3. CASE \E m \in Machine, t \in Token, ok \in BOOLEAN : JoinCluster(m, t, ok)
    BY <2>3, JoinOwn
  <2>4. CASE RestartController \/ \E m \in Machine : Reboot(m)
    BY <2>4, RestartOwn
  <2>5. CASE \/ \E t \in Token : CreateToken(t) \/ Expire(t)
             \/ \E n \in NodeId, ok \in BOOLEAN : DeleteNode(n, ok)
    BY <2>5, TablesOwn
  <2>6. CASE \E m \in Machine : \/ JoinStep(m) \/ Interrupt(m) \/ Launch(m) \/ KeepId(m)
                                \/ Authenticate(m) \/ CallFails(m)
    BY <2>6, MachineOwn
  <2>. QED  BY <1>2, <2>1, <2>2, <2>3, <2>4, <2>5, <2>6 DEF EnrollNext, AgentStep
<1>. QED  BY <1>1, <1>2

\* register_node and join: an agent acts only as the node its credential was issued for,
\* and no two act as one, whatever was interrupted between the files of a join.
THEOREM NobodyElse == EnrollSpec => []OwnIdentity
<1>1. OInv => OwnIdentity
  BY DEF OInv, Acting, Apart, Has, OwnIdentity, AgentAt
<1>2. EnrollSpec => [](TInv /\ OInv)
  BY InitInv, OwnInit, StepInv, OwnStep, PTL DEF EnrollSpec
<1>. QED  BY <1>1, <1>2, PTL

\* The types of the rest.
OtherTypes ==
  /\ nodes \subseteq NodeId /\ saved.nodes \subseteq NodeId
  /\ disabled \in BOOLEAN
  /\ running \in [Machine -> BOOLEAN]
  /\ removed \subseteq NodeId
  /\ faults \in 0..MaxFaults

\* They hold at first.
LEMMA OtherInit == EnrollInit => OtherTypes
<1>. SUFFICES ASSUME EnrollInit PROVE OtherTypes
  OBVIOUS
<1>1. nodes = {} /\ saved.nodes = {} /\ removed = {}
  BY DEF EnrollInit
<1>2. disabled \in BOOLEAN /\ running = [m \in Machine |-> TRUE]
  BY DEF EnrollInit
<1>3. faults = 0 /\ MaxFaults \in Nat
  BY EnrollmentAssumption DEF EnrollInit
<1>. QED  BY <1>1, <1>2, <1>3 DEF OtherTypes

\* They last.
LEMMA OtherStep == TInv /\ OInv /\ OtherTypes /\ [EnrollNext]_vars => OtherTypes'
<1>. SUFFICES ASSUME TInv, OInv, OtherTypes, [EnrollNext]_vars PROVE OtherTypes'
  OBVIOUS
<1>0. ASSUME NEW ok \in BOOLEAN, Save(ok)
      PROVE  /\ saved.nodes' = nodes' \/ saved.nodes' = saved.nodes
             /\ faults' \in 0..MaxFaults
  <2>1. CASE UNCHANGED saved /\ Fault
    BY <2>1, EnrollmentAssumption DEF Fault, OtherTypes
  <2>2. CASE saved' = [tokens |-> tokens', creds |-> creds', nodes |-> nodes'] /\ UNCHANGED faults
    BY <2>2 DEF OtherTypes
  <2>. QED  BY <1>0, <2>1, <2>2 DEF Save
<1>1. ASSUME NEW t \in Token, CreateToken(t) PROVE OtherTypes'
  BY <1>1, <1>0 DEF CreateToken, OtherTypes, machines, history
<1>2. ASSUME NEW t \in Token, Expire(t) PROVE OtherTypes'
  <2>1. saved.nodes' = saved.nodes
    BY <1>2 DEF Expire, TInv, TokenTypes
  <2>. QED  BY <1>2, <2>1 DEF Expire, OtherTypes, machines
<1>3. ASSUME NEW m \in Machine, NEW t \in Token, NEW ok \in BOOLEAN, JoinCluster(m, t, ok)
      PROVE  OtherTypes'
  BY <1>3, <1>0 DEF JoinCluster, Issue, OtherTypes
<1>4. ASSUME NEW ok \in BOOLEAN, LocalJoin(ok) PROVE OtherTypes'
  BY <1>4, <1>0 DEF LocalJoin, Issue, OtherTypes
<1>5. ASSUME NEW n \in NodeId, NEW ok \in BOOLEAN, DeleteNode(n, ok) PROVE OtherTypes'
  BY <1>5, <1>0 DEF DeleteNode, OtherTypes, machines
<1>6. ASSUME NEW m \in Machine, NEW ok \in BOOLEAN, Register(m, ok) PROVE OtherTypes'
  <2>1. agents[m].id \in NodeId
    BY <1>6 DEF Register, OInv, Acting
  <2>. QED  BY <1>6, <1>0, <2>1 DEF Register, OtherTypes, history
<1>7. CASE RestartController \/ \E m \in Machine : Reboot(m)
  <2>1. nodes' \in {nodes, saved.nodes} /\ saved.nodes' = saved.nodes
    BY <1>7 DEF RestartController, Reboot, Load, controller
  <2>2. running' \in [Machine -> BOOLEAN]
    BY <1>7 DEF RestartController, Reboot, OtherTypes
  <2>3. faults' \in 0..MaxFaults
    BY <1>7, EnrollmentAssumption DEF RestartController, Reboot, Fault, OtherTypes
  <2>4. UNCHANGED <<disabled, removed>>
    BY <1>7 DEF RestartController, Reboot, history
  <2>. QED  BY <2>1, <2>2, <2>3, <2>4 DEF OtherTypes
<1>8. ASSUME NEW m \in Machine, Interrupt(m) \/ CallFails(m) PROVE OtherTypes'
  BY <1>8, EnrollmentAssumption
  DEF Interrupt, CallFails, Fault, OtherTypes, controller, history
<1>9. ASSUME NEW m \in Machine, JoinStep(m) \/ Launch(m) \/ KeepId(m) \/ Authenticate(m)
      PROVE  OtherTypes'
  BY <1>9
  DEF JoinStep, StopAgent, WriteConfig, WriteNodeId, DisableController, StartService, Launch, KeepId,
      Authenticate, OtherTypes, controller, history
<1>10. CASE UNCHANGED vars
  BY <1>10 DEF vars, OtherTypes, controller, machines, history
<1>. QED
  BY <1>1, <1>2, <1>3, <1>4, <1>5, <1>6, <1>7, <1>8, <1>9, <1>10 DEF EnrollNext, AgentStep

\* What the controller saves, and what machines and agents hold, is what their types say:
\* join_tokens, node_credentials, the files of a machine and the state of its agent.
THEOREM EnrollTypeCorrect == EnrollSpec => []EnrollTypeOK
<1>1. TInv /\ OInv /\ OtherTypes => EnrollTypeOK
  <2>. SUFFICES ASSUME TInv, OInv, OtherTypes PROVE EnrollTypeOK
    OBVIOUS
  <2>1. saved \in [tokens : [Token -> Status], creds : [NodeId -> Cred \cup {None}],
                   nodes : SUBSET NodeId]
    BY DEF TInv, TokenTypes, OInv, MachineTypes, OtherTypes
  <2>. QED
    BY <2>1 DEF TInv, TokenTypes, OInv, MachineTypes, OtherTypes, EnrollTypeOK, Status
<1>. QED  BY <1>1, InitInv, OwnInit, OtherInit, StepInv, OwnStep, OtherStep, PTL DEF EnrollSpec

-----------------------------------------------------------------------------
(* What the controller knows. *)

\* How far the join command of machine m has come, as its files and its agent show.
Stage(m) ==
  /\ issued[joins[m].cred] = joins[m].id
  /\ IF joins[m].at = "stop" THEN agents[m] # None => agents[m].id # joins[m].id
     ELSE ~ running[m] /\ agents[m] = None
  /\ joins[m].at \in {"stop", "config", "id"} => files[m].id # joins[m].id
  /\ joins[m].at = "id" => files[m].cred = joins[m].cred

\* An agent whose id is not written yet has no credential written either.
Stages ==
  /\ \A m \in Machine : joins[m] # None => Stage(m)
  /\ \A m \in Machine : AgentAt(m, "named") => files[m].cred = None

\* Machine m has credential c beside id n.
Holds(m, n, c) ==
  \/ files[m].id = n /\ files[m].cred = c
  \/ agents[m] # None /\ agents[m].id = n /\ agents[m].cred = c
  \/ joins[m] # None /\ joins[m].id = n /\ joins[m].cred = c

\* Where that goes with the id, the controller has it, in memory and in the database.
Known(n, c) ==
  n \notin removed /\ issued[c] = n => creds[n] = c /\ saved.creds[n] = c

AllKnown == \A m \in Machine, n \in NodeId, c \in Cred : Holds(m, n, c) => Known(n, c)

CInv == Stages /\ AllKnown

\* At first nobody has anything.
LEMMA CredsInit == EnrollInit => CInv
<1>. SUFFICES ASSUME EnrollInit PROVE CInv
  OBVIOUS
<1>1. Stages
  BY DEF EnrollInit, Stages, AgentAt
<1>2. \A m \in Machine, n \in NodeId, c \in Cred : ~ Holds(m, n, c)
  BY Numbers DEF EnrollInit, Holds
<1>. QED  BY <1>1, <1>2 DEF CInv, AllKnown

\* What a machine holds is held.
LEMMA HoldsIsHas ==
  ASSUME NEW m \in Machine, NEW n, NEW c, Holds(m, n, c)
  PROVE  Has(m, n) /\ c \in HeldCreds
  BY DEF Holds, Has, HeldCreds

\* Machines hold what they held, and the controller forgets nothing that is good.
LEMMA KnownMoves ==
  ASSUME AllKnown,
         \A n \in NodeId, c \in Cred : Known(n, c) => Known(n, c)',
         \A m \in Machine, n \in NodeId, c \in Cred :
           Holds(m, n, c)' => Holds(m, n, c) \/ Known(n, c)'
  PROVE  AllKnown'
  BY DEF AllKnown

\* A credential is issued for an id that no machine has a credential for.
LEMMA IssueKnown ==
  ASSUME OInv, AllKnown, NEW n \in NodeId, NEW c \in Cred, c \notin HeldCreds, Issue(n, c),
         saved.creds' = saved.creds \/ saved.creds' = creds',
         \A m \in Machine, i \in NodeId, x \in Cred :
           Holds(m, i, x)' => (Holds(m, i, x) /\ i # n) \/ (i = n /\ x = c /\ saved.creds' = creds')
  PROVE  AllKnown'
<1>1. /\ creds' = [creds EXCEPT ![n] = c]
      /\ \A x \in HeldCreds \cap Cred : x # c /\ issued'[x] = issued[x]
  BY IssueLinks DEF OInv
<1>2. removed' = removed \ {n}
  BY DEF Issue
<1>3. \A i \in NodeId : creds'[i] = IF i = n THEN c ELSE creds[i]
  BY <1>1 DEF OInv, MachineTypes
<1>4. ASSUME NEW m \in Machine, NEW i \in NodeId, NEW x \in Cred, Holds(m, i, x), i # n
      PROVE  Known(i, x)'
  <2>1. Known(i, x) /\ issued'[x] = issued[x]
    BY <1>1, <1>4, HoldsIsHas DEF AllKnown
  <2>2. SUFFICES ASSUME i \notin removed', issued'[x] = i
                 PROVE  creds'[i] = x /\ saved.creds'[i] = x
    BY DEF Known
  <2>3. creds[i] = x /\ saved.creds[i] = x
    BY <1>2, <1>4, <2>1, <2>2 DEF Known
  <2>. QED  BY <1>3, <1>4, <2>3
<1>5. saved.creds' = creds' => Known(n, c)'
  BY <1>3 DEF Known
<1>. QED  BY <1>4, <1>5 DEF AllKnown

\* join_cluster.
LEMMA JoinCreds ==
  ASSUME TInv, OInv, CInv, NEW m \in Machine, NEW t \in Token, NEW ok \in BOOLEAN,
         JoinCluster(m, t, ok)
  PROVE  CInv'
<1>. DEFINE n == Fresh(NodeId, HeldIds)
            c == Fresh(Cred, HeldCreds)
            j == [at |-> "stop", id |-> n, cred |-> c]
<1>1. n \in NodeId /\ n \notin HeldIds /\ c \in Cred /\ c \notin HeldCreds /\ Issue(n, c)
  BY FreshIsNew, Numbers DEF JoinCluster
<1>2. /\ joins[m] = None
      /\ UNCHANGED <<files, running, agents>>
      /\ IF ok THEN joins' = [joins EXCEPT ![m] = j] /\ saved.creds' = creds'
               ELSE UNCHANGED <<joins, saved>>
  BY DEF JoinCluster, Save
<1>3. j.at = "stop" /\ j.id = n /\ j.cred = c
  OBVIOUS
<1>. HIDE DEF n, c, j
<1>4. issued'[c] = n /\ \A x \in HeldCreds \cap Cred : x # c /\ issued'[x] = issued[x]
  BY <1>1, IssueLinks DEF OInv
<1>5. ASSUME NEW o \in Machine
      PROVE  joins'[o] = IF o = m /\ ok THEN j ELSE joins[o]
  BY <1>2 DEF OInv, MachineTypes
<1>6. ASSUME NEW o \in Machine, joins[o] # None
      PROVE  issued'[joins[o].cred] = issued[joins[o].cred]
  <2>1. joins[o].cred \in Cred \cap HeldCreds
    BY <1>6 DEF OInv, MachineTypes, Join, HeldCreds
  <2>. QED  BY <1>4, <2>1
<1>7. files[m].id # n /\ (agents[m] # None => agents[m].id # n)
  BY <1>1, HasIsHeld DEF Has
<1>8. Stages'
  <2>1. ASSUME NEW o \in Machine, joins'[o] # None PROVE Stage(o)'
    <3>1. CASE o = m /\ ok
      BY <1>2, <1>3, <1>4, <1>5, <1>7, <3>1 DEF Stage
    <3>2. CASE ~ (o = m /\ ok)
      BY <1>2, <1>5, <1>6, <2>1, <3>2 DEF Stage, CInv, Stages
    <3>. QED  BY <3>1, <3>2
  <2>. QED  BY <1>2, <2>1 DEF CInv, Stages, AgentAt
<1>9. AllKnown'
  <2>1. saved.creds' = saved.creds \/ saved.creds' = creds'
    BY <1>2
  <2>2. ASSUME NEW o \in Machine, NEW i \in NodeId, NEW x \in Cred, Holds(o, i, x)'
        PROVE  (Holds(o, i, x) /\ i # n) \/ (i = n /\ x = c /\ saved.creds' = creds')
    <3>1. Holds(o, i, x) \/ (i = n /\ x = c /\ ok)
      BY <1>2, <1>3, <1>5, <2>2 DEF Holds
    <3>2. Holds(o, i, x) => i # n
      BY <1>1, HoldsIsHas, HasIsHeld
    <3>. QED  BY <1>2, <3>1, <3>2
  <2>. QED  BY <1>1, <2>1, <2>2, IssueKnown DEF CInv
<1>. QED  BY <1>8, <1>9 DEF CInv

\* local_join.
LEMMA LocalCreds ==
  ASSUME TInv, OInv, CInv, NEW ok \in BOOLEAN, LocalJoin(ok)
  PROVE  CInv'
<1>. DEFINE id == files[Host].id
            n == IF id = None THEN Fresh(NodeId, HeldIds) ELSE id
            c == Fresh(Cred, HeldCreds)
            a == [id |-> n, cred |-> c, at |-> IF n = id THEN "enrolled" ELSE "named"]
<1>1. /\ n \in NodeId /\ c \in Cred /\ c \notin HeldCreds /\ Issue(n, c)
      /\ n = files[Host].id \/ n \notin HeldIds
  <2>1. id \in NodeId \cup {None}
    BY EnrollmentAssumption DEF OInv, MachineTypes, Files
  <2>2. CASE id = None
    BY <2>2, FreshIsNew, Numbers DEF LocalJoin
  <2>3. CASE id # None
    BY <2>1, <2>3, FreshIsNew, Numbers DEF LocalJoin
  <2>. QED  BY <2>2, <2>3
<1>2. /\ agents[Host] = None /\ running[Host] /\ files[Host].cred = None
      /\ UNCHANGED <<files, running, joins>>
      /\ IF ok THEN agents' = [agents EXCEPT ![Host] = a] /\ saved.creds' = creds'
               ELSE UNCHANGED <<agents, saved>>
  BY DEF LocalJoin, Save
<1>3. a.id = n /\ a.cred = c /\ Host \in Machine
  BY EnrollmentAssumption
<1>. HIDE DEF n, c, a, id
<1>4. \A x \in HeldCreds \cap Cred : x # c /\ issued'[x] = issued[x]
  BY <1>1, IssueLinks DEF OInv
<1>5. ASSUME NEW o \in Machine
      PROVE  agents'[o] = IF o = Host /\ ok THEN a ELSE agents[o]
  BY <1>2 DEF OInv, MachineTypes
<1>6. ASSUME NEW o \in Machine, joins[o] # None
      PROVE  issued'[joins[o].cred] = issued[joins[o].cred]
  <2>1. joins[o].cred \in Cred \cap HeldCreds
    BY <1>6 DEF OInv, MachineTypes, Join, HeldCreds
  <2>. QED  BY <1>4, <2>1
<1>7. ASSUME joins[Host] # None
      PROVE  joins[Host].at = "stop" /\ joins[Host].id # n
  <2>1. joins[Host].at = "stop" /\ files[Host].id # joins[Host].id
    BY <1>2, <1>3, <1>7 DEF CInv, Stages, Stage
  <2>2. joins[Host].id \in HeldIds
    BY <1>3, <1>7, HasIsHeld DEF Has
  <2>. QED  BY <1>1, <2>1, <2>2
<1>8. Stages'
  <2>1. ASSUME NEW o \in Machine, joins'[o] # None PROVE Stage(o)'
    <3>1. CASE o = Host /\ ok
      BY <1>2, <1>3, <1>5, <1>6, <1>7, <2>1, <3>1 DEF Stage, CInv, Stages
    <3>2. CASE ~ (o = Host /\ ok)
      BY <1>2, <1>5, <1>6, <2>1, <3>2 DEF Stage, CInv, Stages
    <3>. QED  BY <3>1, <3>2
  <2>2. ASSUME NEW o \in Machine, AgentAt(o, "named")' PROVE files'[o].cred = None
    BY <1>2, <1>5, <2>2 DEF CInv, Stages, AgentAt
  <2>. QED  BY <2>1, <2>2 DEF Stages
<1>9. AllKnown'
  <2>1. saved.creds' = saved.creds \/ saved.creds' = creds'
    BY <1>2
  <2>2. ASSUME NEW o \in Machine, NEW i \in NodeId, NEW x \in Cred, Holds(o, i, x)'
        PROVE  (Holds(o, i, x) /\ i # n) \/ (i = n /\ x = c /\ saved.creds' = creds')
    <3>1. Holds(o, i, x) \/ (i = n /\ x = c /\ ok)
      BY <1>2, <1>3, <1>5, <2>2 DEF Holds
    <3>2. ASSUME Holds(o, i, x), i = n PROVE FALSE
      <4>1. Has(o, n) /\ n \in HeldIds
        BY <3>2, HoldsIsHas, HasIsHeld
      <4>2. o = Host
        BY <1>1, <1>3, <4>1 DEF OInv, Apart, Has
      <4>3. x # None
        BY Numbers
      <4>. QED  BY <1>2, <1>7, <3>2, <4>2, <4>3 DEF Holds
    <3>. QED  BY <1>2, <3>1, <3>2
  <2>. QED  BY <1>1, <2>1, <2>2, IssueKnown DEF CInv
<1>. QED  BY <1>8, <1>9 DEF CInv

\* Only machine m does something, nothing is issued or taken back, and what it holds
\* it held before, or does not go together.
Moves(m) ==
  /\ UNCHANGED <<creds, saved, issued, removed>>
  /\ \A o \in Machine \ {m} : /\ files'[o] = files[o] /\ running'[o] = running[o]
                              /\ agents'[o] = agents[o] /\ joins'[o] = joins[o]
  /\ joins'[m] # None => Stage(m)'
  /\ AgentAt(m, "named")' => files'[m].cred = None
  /\ \A n \in NodeId, c \in Cred : Holds(m, n, c)' => Holds(m, n, c) \/ issued[c] # n

\* Such a step keeps the invariant.
LEMMA MovesCreds ==
  ASSUME CInv, NEW m \in Machine, Moves(m)
  PROVE  CInv'
<1>1. ASSUME NEW o \in Machine, joins'[o] # None PROVE Stage(o)'
  <2>1. CASE o = m
    BY <1>1, <2>1 DEF Moves
  <2>2. CASE o # m
    BY <1>1, <2>2 DEF Moves, Stage, CInv, Stages
  <2>. QED  BY <2>1, <2>2
<1>2. ASSUME NEW o \in Machine, AgentAt(o, "named")' PROVE files'[o].cred = None
  <2>1. CASE o = m
    BY <1>2, <2>1 DEF Moves
  <2>2. CASE o # m
    BY <1>2, <2>2 DEF Moves, AgentAt, CInv, Stages
  <2>. QED  BY <2>1, <2>2
<1>3. ASSUME NEW o \in Machine, NEW n \in NodeId, NEW c \in Cred, Holds(o, n, c)'
      PROVE  Known(n, c)'
  <2>1. Holds(o, n, c) \/ issued[c] # n
    <3>1. CASE o = m
      BY <1>3, <3>1 DEF Moves
    <3>2. CASE o # m
      BY <1>3, <3>2 DEF Moves, Holds
    <3>. QED  BY <3>1, <3>2
  <2>. QED  BY <2>1 DEF Moves, Known, CInv, AllKnown
<1>. QED  BY <1>1, <1>2, <1>3 DEF CInv, Stages, AllKnown

\* The steps of the join command.
LEMMA JoinStepCreds ==
  ASSUME OInv, OtherTypes, CInv, NEW m \in Machine, JoinStep(m) \/ Interrupt(m)
  PROVE  Moves(m)
<1>1. UNCHANGED <<creds, saved, issued, removed>>
  BY DEF JoinStep, StopAgent, WriteConfig, WriteNodeId, DisableController, StartService, Interrupt,
         controller, history
<1>2. joins[m] # None /\ joins[m] \in Join /\ Stage(m) /\ files[m] \in Files
  BY DEF JoinStep, StopAgent, WriteConfig, WriteNodeId, DisableController, StartService, Interrupt,
         Joining, OInv, MachineTypes, CInv, Stages
<1>3. CASE StopAgent(m)
  <2>. DEFINE j == [joins[m] EXCEPT !.at = "config"]
  <2>1. j.id = joins[m].id /\ j.cred = joins[m].cred /\ j.at = "config"
    BY <1>2 DEF Join
  <2>2. /\ joins' = [joins EXCEPT ![m] = j] /\ agents' = [agents EXCEPT ![m] = None]
        /\ running' = [running EXCEPT ![m] = FALSE] /\ UNCHANGED files
        /\ joins[m].at = "stop"
    BY <1>3 DEF StopAgent, Next, Joining
  <2>. HIDE DEF j
  <2>3. /\ joins'[m] = j /\ agents'[m] = None
        /\ \A o \in Machine \ {m} : /\ running'[o] = running[o] /\ joins'[o] = joins[o]
                                    /\ agents'[o] = agents[o]
    BY <2>2 DEF OInv, MachineTypes
  <2>4. ~ running'[m]
    BY <2>2 DEF OtherTypes
  <2>5. Stage(m)'
    BY <1>1, <1>2, <2>1, <2>2, <2>3, <2>4 DEF Stage
  <2>6. \A n \in NodeId, c \in Cred : Holds(m, n, c)' => Holds(m, n, c)
    BY <1>2, <2>1, <2>2, <2>3 DEF Holds
  <2>. QED  BY <1>1, <2>2, <2>3, <2>5, <2>6 DEF Moves, AgentAt
<1>4. CASE WriteConfig(m)
  <2>. DEFINE j == [joins[m] EXCEPT !.at = "id"]
              f == [files[m] EXCEPT !.cred = joins[m].cred]
  <2>1. /\ j.id = joins[m].id /\ j.cred = joins[m].cred /\ j.at = "id"
        /\ f.id = files[m].id /\ f.cred = joins[m].cred
    BY <1>2 DEF Join, Files
  <2>2. /\ joins' = [joins EXCEPT ![m] = j] /\ files' = [files EXCEPT ![m] = f]
        /\ UNCHANGED <<agents, running>> /\ joins[m].at = "config"
    BY <1>4 DEF WriteConfig, Next, Joining
  <2>. HIDE DEF j, f
  <2>3. /\ joins'[m] = j /\ files'[m] = f
        /\ \A o \in Machine \ {m} : files'[o] = files[o] /\ joins'[o] = joins[o]
    BY <2>2 DEF OInv, MachineTypes
  <2>4. agents[m] = None /\ ~ running[m]
    BY <1>2, <2>2 DEF Stage
  <2>5. Stage(m)'
    BY <1>1, <1>2, <2>1, <2>2, <2>3, <2>4 DEF Stage
  <2>6. \A n \in NodeId, c \in Cred : Holds(m, n, c)' => Holds(m, n, c) \/ issued[c] # n
    BY <1>2, <2>1, <2>2, <2>3, <2>4 DEF Holds, Stage
  <2>. QED  BY <1>1, <2>2, <2>3, <2>4, <2>5, <2>6 DEF Moves, AgentAt
<1>5. CASE WriteNodeId(m)
  <2>. DEFINE j == [joins[m] EXCEPT !.at = "controller"]
              f == [files[m] EXCEPT !.id = joins[m].id]
  <2>1. /\ j.id = joins[m].id /\ j.cred = joins[m].cred /\ j.at = "controller"
        /\ f.id = joins[m].id /\ f.cred = files[m].cred
    BY <1>2 DEF Join, Files
  <2>2. /\ joins' = [joins EXCEPT ![m] = j] /\ files' = [files EXCEPT ![m] = f]
        /\ UNCHANGED <<agents, running>> /\ joins[m].at = "id"
    BY <1>5 DEF WriteNodeId, Next, Joining
  <2>. HIDE DEF j, f
  <2>3. /\ joins'[m] = j /\ files'[m] = f
        /\ \A o \in Machine \ {m} : files'[o] = files[o] /\ joins'[o] = joins[o]
    BY <2>2 DEF OInv, MachineTypes
  <2>4. agents[m] = None /\ ~ running[m] /\ files[m].cred = joins[m].cred
    BY <1>2, <2>2 DEF Stage
  <2>5. Stage(m)'
    BY <1>1, <1>2, <2>1, <2>2, <2>3, <2>4 DEF Stage
  <2>6. \A n \in NodeId, c \in Cred : Holds(m, n, c)' => Holds(m, n, c) \/ issued[c] # n
    BY <1>2, <2>1, <2>2, <2>3, <2>4 DEF Holds
  <2>. QED  BY <1>1, <2>2, <2>3, <2>4, <2>5, <2>6 DEF Moves, AgentAt
<1>6. CASE DisableController(m)
  <2>. DEFINE j == [joins[m] EXCEPT !.at = "start"]
  <2>1. j.id = joins[m].id /\ j.cred = joins[m].cred /\ j.at = "start"
    BY <1>2 DEF Join
  <2>2. /\ joins' = [joins EXCEPT ![m] = j]
        /\ UNCHANGED <<files, agents, running>> /\ joins[m].at = "controller"
    BY <1>6 DEF DisableController, Next, Joining
  <2>. HIDE DEF j
  <2>3. joins'[m] = j /\ \A o \in Machine \ {m} : joins'[o] = joins[o]
    BY <2>2 DEF OInv, MachineTypes
  <2>4. agents[m] = None /\ ~ running[m]
    BY <1>2, <2>2 DEF Stage
  <2>5. Stage(m)'
    BY <1>1, <1>2, <2>1, <2>2, <2>3, <2>4 DEF Stage
  <2>6. \A n \in NodeId, c \in Cred : Holds(m, n, c)' => Holds(m, n, c)
    BY <1>2, <2>1, <2>2, <2>3, <2>4 DEF Holds
  <2>. QED  BY <1>1, <2>2, <2>3, <2>4, <2>5, <2>6 DEF Moves, AgentAt
<1>7. CASE StartService(m) \/ Interrupt(m)
  <2>1. /\ joins' = [joins EXCEPT ![m] = None] /\ UNCHANGED <<files, agents>>
        /\ running' = running \/ running' = [running EXCEPT ![m] = TRUE]
    BY <1>7 DEF StartService, Interrupt
  <2>2. /\ joins'[m] = None
        /\ \A o \in Machine \ {m} : joins'[o] = joins[o] /\ running'[o] = running[o]
    BY <2>1 DEF OtherTypes, OInv, MachineTypes
  <2>3. \A n \in NodeId, c \in Cred : Holds(m, n, c)' => Holds(m, n, c)
    BY <2>1, <2>2 DEF Holds
  <2>. QED  BY <1>1, <2>1, <2>2, <2>3 DEF Moves, AgentAt, CInv, Stages
<1>. QED  BY <1>3, <1>4, <1>5, <1>6, <1>7 DEF JoinStep

\* The agent's.
LEMMA AgentCreds ==
  ASSUME OInv, CInv, NEW m \in Machine,
         Launch(m) \/ KeepId(m) \/ Authenticate(m) \/ CallFails(m)
  PROVE  Moves(m)
<1>1. UNCHANGED <<creds, saved, issued, removed, joins, running>>
  BY DEF Launch, KeepId, Authenticate, CallFails, controller, history
<1>2. files[m] \in Files /\ (agents[m] # None => agents[m] \in Agent)
  BY DEF OInv, MachineTypes
<1>3. CASE Launch(m)
  <2>. DEFINE a == [id |-> files[m].id, cred |-> files[m].cred, at |-> "enrolled"]
  <2>1. a.id = files[m].id /\ a.cred = files[m].cred /\ a.at = "enrolled"
    OBVIOUS
  <2>2. agents' = [agents EXCEPT ![m] = a] /\ UNCHANGED files /\ running[m]
    BY <1>3 DEF Launch
  <2>. HIDE DEF a
  <2>3. agents'[m] = a /\ \A o \in Machine \ {m} : agents'[o] = agents[o]
    BY <2>2 DEF OInv, MachineTypes
  <2>4. joins'[m] # None => Stage(m)'
    BY <1>1, <2>1, <2>2, <2>3 DEF Stage, CInv, Stages
  <2>5. \A n \in NodeId, c \in Cred : Holds(m, n, c)' => Holds(m, n, c)
    BY <1>1, <2>1, <2>2, <2>3 DEF Holds
  <2>. QED  BY <1>1, <2>1, <2>2, <2>3, <2>4, <2>5 DEF Moves, AgentAt
<1>4. CASE KeepId(m)
  <2>. DEFINE a == [agents[m] EXCEPT !.at = "enrolled"]
              f == [files[m] EXCEPT !.id = agents[m].id]
  <2>1. /\ a.id = agents[m].id /\ a.cred = agents[m].cred /\ a.at = "enrolled"
        /\ f.id = agents[m].id /\ f.cred = files[m].cred
    BY <1>2, <1>4 DEF Agent, Files, KeepId, AgentAt
  <2>2. /\ agents' = [agents EXCEPT ![m] = a] /\ files' = [files EXCEPT ![m] = f]
        /\ agents[m] # None /\ agents[m].at = "named"
    BY <1>4 DEF KeepId, AgentAt
  <2>. HIDE DEF a, f
  <2>3. /\ agents'[m] = a /\ files'[m] = f
        /\ \A o \in Machine \ {m} : agents'[o] = agents[o] /\ files'[o] = files[o]
    BY <2>2 DEF OInv, MachineTypes
  <2>4. files[m].cred = None
    BY <2>2 DEF CInv, Stages, AgentAt
  <2>5. joins'[m] # None => Stage(m)'
    BY <1>1, <2>1, <2>2, <2>3 DEF Stage, CInv, Stages
  <2>6. \A n \in NodeId, c \in Cred : Holds(m, n, c)' => Holds(m, n, c)
    BY <1>1, <2>1, <2>2, <2>3, <2>4, Numbers DEF Holds
  <2>. QED  BY <1>1, <2>1, <2>2, <2>3, <2>5, <2>6 DEF Moves, AgentAt
<1>5. CASE Authenticate(m) \/ CallFails(m)
  <2>. DEFINE a == [agents[m] EXCEPT !.at = "checked"]
  <2>1. agents[m] # None /\ UNCHANGED files
    BY <1>5 DEF Authenticate, CallFails, AgentAt
  <2>2. a.id = agents[m].id /\ a.cred = agents[m].cred /\ a.at = "checked"
    BY <1>2, <2>1 DEF Agent
  <2>3. agents' = [agents EXCEPT ![m] = a] \/ agents' = [agents EXCEPT ![m] = None]
    BY <1>5 DEF Authenticate, CallFails, Exits
  <2>. HIDE DEF a
  <2>4. agents'[m] \in {a, None} /\ \A o \in Machine \ {m} : agents'[o] = agents[o]
    BY <2>3 DEF OInv, MachineTypes
  <2>5. joins'[m] # None => Stage(m)'
    BY <1>1, <2>1, <2>2, <2>4 DEF Stage, CInv, Stages
  <2>6. \A n \in NodeId, c \in Cred : Holds(m, n, c)' => Holds(m, n, c)
    BY <1>1, <2>1, <2>2, <2>4 DEF Holds
  <2>. QED  BY <1>1, <2>1, <2>2, <2>4, <2>5, <2>6 DEF Moves, AgentAt
<1>. QED  BY <1>3, <1>4, <1>5

\* The controller does something: nothing is issued, machines keep what they have or
\* lose it, and what is good stays known.
Remains ==
  /\ UNCHANGED <<files, issued>>
  /\ \A m \in Machine : /\ joins'[m] = None \/ (joins'[m] = joins[m] /\ running'[m] = running[m])
                        /\ agents'[m] \in {agents[m], None}
  /\ \A n \in NodeId, c \in Cred : Known(n, c) => Known(n, c)'

\* So does such a one.
LEMMA RemainsCreds ==
  ASSUME CInv, Remains
  PROVE  CInv'
<1>1. ASSUME NEW m \in Machine, joins'[m] # None PROVE Stage(m)'
  BY <1>1 DEF Remains, Stage, CInv, Stages
<1>2. ASSUME NEW m \in Machine, AgentAt(m, "named")' PROVE files'[m].cred = None
  BY <1>2 DEF Remains, AgentAt, CInv, Stages
<1>3. \A m \in Machine, n \in NodeId, c \in Cred : Holds(m, n, c)' => Holds(m, n, c)
  BY DEF Remains, Holds
<1>4. AllKnown'
  BY <1>3, KnownMoves DEF Remains, CInv
<1>. QED  BY <1>1, <1>2, <1>4 DEF CInv, Stages

\* create_join_token, the end of a token, and delete_node.
LEMMA TablesCreds ==
  ASSUME TInv, OInv, CInv,
         \/ \E t \in Token : CreateToken(t) \/ Expire(t)
         \/ \E n \in NodeId, ok \in BOOLEAN : DeleteNode(n, ok)
  PROVE  CInv'
<1>1. ASSUME NEW t \in Token, CreateToken(t) \/ Expire(t) PROVE CInv'
  <2>1. UNCHANGED <<creds, machines, issued, removed>>
    BY <1>1 DEF CreateToken, Expire, history
  <2>2. saved.creds' = creds' \/ saved.creds' = saved.creds
    BY <1>1, SavedCreds DEF CreateToken, Expire, TInv, TokenTypes
  <2>3. Remains
    BY <2>1, <2>2 DEF Remains, Known, machines
  <2>. QED  BY <2>3, RemainsCreds
<1>2. ASSUME NEW n \in NodeId, NEW ok \in BOOLEAN, DeleteNode(n, ok) PROVE CInv'
  <2>1. saved.creds' = creds' \/ saved.creds' = saved.creds
    BY <1>2, SavedCreds DEF DeleteNode
  <2>2. /\ \A k \in NodeId : creds'[k] = IF k = n THEN None ELSE creds[k]
        /\ removed' = removed \cup {n} /\ UNCHANGED <<machines, issued>>
    BY <1>2 DEF DeleteNode, OInv, MachineTypes
  <2>3. Remains
    BY <2>1, <2>2 DEF Remains, Known, machines
  <2>. QED  BY <2>3, RemainsCreds
<1>. QED  BY <1>1, <1>2

\* Machines and the controller start again.
LEMMA RestartCreds ==
  ASSUME OInv, OtherTypes, CInv, RestartController \/ \E m \in Machine : Reboot(m)
  PROVE  CInv'
<1>1. CASE RestartController
  <2>1. /\ creds' = saved.creds /\ saved.creds' = saved.creds
        /\ UNCHANGED <<issued, removed, files, running, joins>>
    BY <1>1 DEF RestartController, Load, history
  <2>2. agents' = [m \in Machine |-> IF Calling(m) THEN None ELSE agents[m]]
    BY <1>1 DEF RestartController
  <2>3. Remains
    BY <2>1, <2>2 DEF Remains, Known
  <2>. QED  BY <2>3, RemainsCreds
<1>2. ASSUME NEW m \in Machine, Reboot(m) PROVE CInv'
  <2>1. /\ creds' \in {creds, saved.creds} /\ saved.creds' = saved.creds
        /\ UNCHANGED <<issued, removed, files>>
        /\ joins' = [joins EXCEPT ![m] = None] /\ running' = [running EXCEPT ![m] = TRUE]
    BY <1>2 DEF Reboot, Load, history, controller
  <2>2. agents' = [a \in Machine |-> IF a = m \/ (m = Host /\ Calling(a)) THEN None ELSE agents[a]]
    BY <1>2 DEF Reboot
  <2>3. /\ joins'[m] = None
        /\ \A o \in Machine \ {m} : joins'[o] = joins[o] /\ running'[o] = running[o]
    BY <2>1 DEF OInv, MachineTypes, OtherTypes
  <2>4. \A n \in NodeId, c \in Cred : Known(n, c) => Known(n, c)'
    BY <2>1 DEF Known
  <2>5. \A o \in Machine : /\ joins'[o] = None \/ (joins'[o] = joins[o] /\ running'[o] = running[o])
                           /\ agents'[o] \in {agents[o], None}
    BY <2>2, <2>3
  <2>6. Remains
    BY <2>1, <2>4, <2>5 DEF Remains
  <2>. QED  BY <2>6, RemainsCreds
<1>. QED  BY <1>1, <1>2

\* The second half of register_node.
LEMMA RegisterCreds ==
  ASSUME OInv, CInv, NEW m \in Machine, NEW ok \in BOOLEAN, Register(m, ok)
  PROVE  CInv'
<1>1. saved.creds' = creds' \/ saved.creds' = saved.creds
  BY SavedCreds DEF Register
<1>2. UNCHANGED <<creds, issued, removed, files, running, joins>>
  BY DEF Register, history
<1>. DEFINE a == [agents[m] EXCEPT !.at = "up"]
<1>3. agents[m] \in Agent /\ agents[m] # None
  BY DEF Register, AgentAt, OInv, MachineTypes
<1>4. a.id = agents[m].id /\ a.cred = agents[m].cred /\ a.at = "up"
  BY <1>3 DEF Agent
<1>5. agents' = [agents EXCEPT ![m] = a] \/ agents' = [agents EXCEPT ![m] = None]
  BY DEF Register, Exits
<1>. HIDE DEF a
<1>6. agents'[m] \in {a, None} /\ \A o \in Machine \ {m} : agents'[o] = agents[o]
  BY <1>5 DEF OInv, MachineTypes
<1>7. ASSUME NEW o \in Machine, joins'[o] # None PROVE Stage(o)'
  BY <1>2, <1>3, <1>4, <1>6, <1>7 DEF Stage, CInv, Stages
<1>8. ASSUME NEW o \in Machine, AgentAt(o, "named")' PROVE files'[o].cred = None
  BY <1>2, <1>4, <1>6, <1>8 DEF AgentAt, CInv, Stages
<1>9. \A o \in Machine, n \in NodeId, c \in Cred : Holds(o, n, c)' => Holds(o, n, c)
  BY <1>2, <1>3, <1>4, <1>6 DEF Holds
<1>10. \A n \in NodeId, c \in Cred : Known(n, c) => Known(n, c)'
  BY <1>1, <1>2 DEF Known
<1>. QED  BY <1>7, <1>8, <1>9, <1>10, KnownMoves DEF CInv, Stages

\* The invariant is inductive.
LEMMA CredsStep == TInv /\ OInv /\ OtherTypes /\ CInv /\ [EnrollNext]_vars => CInv'
<1>. SUFFICES ASSUME TInv, OInv, OtherTypes, CInv, [EnrollNext]_vars PROVE CInv'
  OBVIOUS
<1>1. CASE UNCHANGED vars
  BY <1>1, RemainsCreds DEF Remains, Known, vars, controller, machines, history
<1>2. CASE EnrollNext
  <2>1. CASE \E m \in Machine, ok \in BOOLEAN : Register(m, ok)
    BY <2>1, RegisterCreds
  <2>2. CASE \E ok \in BOOLEAN : LocalJoin(ok)
    BY <2>2, LocalCreds
  <2>3. CASE \E m \in Machine, t \in Token, ok \in BOOLEAN : JoinCluster(m, t, ok)
    BY <2>3, JoinCreds
  <2>4. CASE RestartController \/ \E m \in Machine : Reboot(m)
    BY <2>4, RestartCreds
  <2>5. CASE \/ \E t \in Token : CreateToken(t) \/ Expire(t)
             \/ \E n \in NodeId, ok \in BOOLEAN : DeleteNode(n, ok)
    BY <2>5, TablesCreds
  <2>6. CASE \E m \in Machine : JoinStep(m) \/ Interrupt(m)
    BY <2>6, JoinStepCreds, MovesCreds
  <2>7. CASE \E m \in Machine : Launch(m) \/ KeepId(m) \/ Authenticate(m) \/ CallFails(m)
    BY <2>7, AgentCreds, MovesCreds
  <2>. QED  BY <1>2, <2>1, <2>2, <2>3, <2>4, <2>5, <2>6, <2>7 DEF EnrollNext, AgentStep
<1>. QED  BY <1>1, <1>2

\* node_credentials: the controller never forgets a credential that goes with the id its
\* agent or machine has, however its writes fail and whenever it starts again; only
\* delete_node takes it back.
THEOREM CredentialsKept == EnrollSpec => []CredentialsLast
<1>1. OInv /\ CInv => CredentialsLast
  <2>. SUFFICES ASSUME OInv, CInv, NEW m \in Machine
                PROVE  /\ agents[m] # None /\ Good(agents[m])
                            => saved.creds[agents[m].id] = agents[m].cred
                       /\ Good(files[m]) => saved.creds[files[m].id] = files[m].cred
    BY DEF CredentialsLast
  <2>1. ASSUME agents[m] # None, Good(agents[m])
        PROVE  saved.creds[agents[m].id] = agents[m].cred
    <3>1. agents[m].cred \in Cred /\ Holds(m, agents[m].id, agents[m].cred)
      BY <2>1 DEF OInv, MachineTypes, Agent, Holds
    <3>. QED  BY <2>1, <3>1 DEF CInv, AllKnown, Known, Good
  <2>2. ASSUME Good(files[m]) PROVE saved.creds[files[m].id] = files[m].cred
    <3>1. files[m].cred \in Cred /\ Holds(m, files[m].id, files[m].cred)
      BY <2>2 DEF OInv, MachineTypes, Files, Holds, Good
    <3>. QED  BY <2>2, <3>1 DEF CInv, AllKnown, Known, Good
  <2>. QED  BY <2>1, <2>2
<1>. QED
  BY <1>1, InitInv, OwnInit, OtherInit, CredsInit, StepInv, OwnStep, OtherStep, CredsStep, PTL
  DEF EnrollSpec

-----------------------------------------------------------------------------
(* Nodes nobody can act as. *)

\* An agent between the two halves of its registration is authentic still, unless its
\* node was removed.
ZInv ==
  \A m \in Machine :
    AgentAt(m, "checked") => creds[agents[m].id] # None \/ agents[m].id \in removed

ZombieStep ==
  \A n \in Zombies' \ Zombies :
       \/ \E m \in Machine : AgentAt(m, "checked") /\ agents[m].id = n /\ n \in removed
       \/ n \in saved.nodes /\ saved.creds[n] = None

\* A step after which controller and agents are as before, or fewer agents.
LEMMA CalmZombies ==
  ASSUME OInv, ZInv, UNCHANGED <<creds, nodes, removed>>,
         \A m \in Machine : AgentAt(m, "checked")' =>
           \/ AgentAt(m, "checked") /\ agents'[m].id = agents[m].id
           \/ creds[agents'[m].id] # None
  PROVE  ZInv' /\ ZombieStep
<1>1. Zombies' = Zombies
  BY DEF Zombies
<1>2. ZInv'
  BY DEF ZInv
<1>. QED  BY <1>1, <1>2 DEF ZombieStep

\* A credential is issued.
LEMMA IssueZombies ==
  ASSUME OInv, ZInv, NEW n \in NodeId, NEW c \in Cred, Issue(n, c), UNCHANGED nodes,
         \A m \in Machine : AgentAt(m, "checked")' =>
           AgentAt(m, "checked") /\ agents'[m].id = agents[m].id
  PROVE  ZInv' /\ ZombieStep
<1>1. /\ \A k \in NodeId : creds'[k] = IF k = n THEN c ELSE creds[k]
      /\ removed' = removed \ {n} /\ c # None
  BY Numbers DEF Issue, OInv, MachineTypes
<1>2. ASSUME NEW m \in Machine, AgentAt(m, "checked")'
      PROVE  creds'[agents'[m].id] # None \/ agents'[m].id \in removed'
  <2>1. agents'[m].id = agents[m].id /\ agents[m].id \in NodeId
    BY <1>2 DEF OInv, Acting
  <2>. QED  BY <1>1, <1>2, <2>1 DEF ZInv
<1>3. Zombies' \subseteq Zombies
  <2>. SUFFICES ASSUME NEW k \in nodes, creds'[k] = None PROVE creds[k] = None
    BY DEF Zombies
  <2>. QED  BY <1>1 DEF Issue, OInv, MachineTypes
<1>. QED  BY <1>2, <1>3 DEF ZInv, ZombieStep

\* The controller starts again, with no agent in between.
LEMMA LoadZombies ==
  ASSUME Load, \A m \in Machine : ~ AgentAt(m, "checked")'
  PROVE  ZInv' /\ ZombieStep
  BY DEF Load, Zombies, ZombieStep, ZInv

\* What each step leaves behind.
LEMMA ZombiesStep == OInv /\ ZInv /\ [EnrollNext]_vars => ZInv' /\ ZombieStep
<1>. SUFFICES ASSUME OInv, ZInv, [EnrollNext]_vars PROVE ZInv' /\ ZombieStep
  OBVIOUS
<1>0. \A m \in Machine : agents[m] \in Agent \cup {None}
  BY DEF OInv, MachineTypes
<1>1. CASE UNCHANGED vars
  <2>1. UNCHANGED <<creds, nodes, removed, agents>>
    BY <1>1 DEF vars, controller, machines, history
  <2>. QED  BY <2>1, CalmZombies DEF AgentAt
<1>2. ASSUME NEW t \in Token, CreateToken(t) \/ Expire(t) PROVE ZInv' /\ ZombieStep
  <2>1. UNCHANGED <<creds, nodes, removed, agents>>
    BY <1>2 DEF CreateToken, Expire, machines, history
  <2>. QED  BY <2>1, CalmZombies DEF AgentAt
<1>3. ASSUME NEW m \in Machine, NEW t \in Token, NEW ok \in BOOLEAN, JoinCluster(m, t, ok)
      PROVE  ZInv' /\ ZombieStep
  <2>. DEFINE n == Fresh(NodeId, HeldIds)
              c == Fresh(Cred, HeldCreds)
  <2>1. n \in NodeId /\ c \in Cred /\ Issue(n, c) /\ UNCHANGED <<nodes, agents>>
    BY <1>3, FreshIsNew, Numbers DEF JoinCluster
  <2>. HIDE DEF n, c
  <2>. QED  BY <2>1, IssueZombies DEF AgentAt
<1>4. ASSUME NEW ok \in BOOLEAN, LocalJoin(ok) PROVE ZInv' /\ ZombieStep
  <2>. DEFINE id == files[Host].id
              n == IF id = None THEN Fresh(NodeId, HeldIds) ELSE id
              c == Fresh(Cred, HeldCreds)
              a == [id |-> n, cred |-> c, at |-> IF n = id THEN "enrolled" ELSE "named"]
  <2>1. n \in NodeId /\ c \in Cred /\ Issue(n, c) /\ UNCHANGED nodes
    <3>1. id \in NodeId \cup {None}
      BY EnrollmentAssumption DEF OInv, MachineTypes, Files
    <3>2. CASE id = None
      BY <1>4, <3>2, FreshIsNew, Numbers DEF LocalJoin
    <3>3. CASE id # None
      BY <1>4, <3>1, <3>3, FreshIsNew, Numbers DEF LocalJoin
    <3>. QED  BY <3>2, <3>3
  <2>2. agents' = agents \/ agents' = [agents EXCEPT ![Host] = a]
    BY <1>4 DEF LocalJoin
  <2>3. a.at # "checked"
    OBVIOUS
  <2>. HIDE DEF id, n, c, a
  <2>4. \A m \in Machine : AgentAt(m, "checked")' => agents'[m] = agents[m]
    BY <2>2, <2>3 DEF AgentAt, OInv, MachineTypes
  <2>. QED  BY <2>1, <2>4, IssueZombies DEF AgentAt
<1>5. ASSUME NEW n \in NodeId, NEW ok \in BOOLEAN, DeleteNode(n, ok) PROVE ZInv' /\ ZombieStep
  <2>1. /\ \A k \in NodeId : creds'[k] = IF k = n THEN None ELSE creds[k]
        /\ removed' = removed \cup {n} /\ nodes' = nodes \ {n} /\ UNCHANGED agents
    BY <1>5 DEF DeleteNode, OInv, MachineTypes, machines
  <2>2. ZInv'
    <3>. SUFFICES ASSUME NEW m \in Machine, AgentAt(m, "checked")
                  PROVE  creds'[agents[m].id] # None \/ agents[m].id \in removed'
      BY <2>1 DEF ZInv, AgentAt
    <3>. QED  BY <2>1 DEF ZInv, OInv, Acting
  <2>3. Zombies' \subseteq Zombies
    BY <1>5 DEF DeleteNode, Zombies, OInv, MachineTypes
  <2>. QED  BY <2>2, <2>3 DEF ZombieStep
<1>6. CASE RestartController
  <2>1. agents' = [m \in Machine |-> IF Calling(m) THEN None ELSE agents[m]] /\ Load
    BY <1>6 DEF RestartController
  <2>. QED  BY <2>1, LoadZombies DEF AgentAt, Calling
<1>7. ASSUME NEW m \in Machine, Reboot(m) PROVE ZInv' /\ ZombieStep
  <2>1. agents' = [a \in Machine |-> IF a = m \/ (m = Host /\ Calling(a)) THEN None ELSE agents[a]]
    BY <1>7 DEF Reboot
  <2>2. CASE m = Host
    BY <1>7, <2>1, <2>2, LoadZombies DEF AgentAt, Calling, Reboot
  <2>3. CASE m # Host
    <3>1. UNCHANGED <<creds, nodes, removed>>
      BY <1>7, <2>3 DEF Reboot, controller, history
    <3>. QED  BY <2>1, <2>3, <3>1, CalmZombies DEF AgentAt
  <2>. QED  BY <2>2, <2>3
<1>8. ASSUME NEW m \in Machine, JoinStep(m) \/ Interrupt(m) \/ CallFails(m)
      PROVE  ZInv' /\ ZombieStep
  <2>1. UNCHANGED <<creds, nodes, removed>>
    BY <1>8
    DEF JoinStep, StopAgent, WriteConfig, WriteNodeId, DisableController, StartService, Interrupt,
        CallFails, controller, history
  <2>2. agents' = agents \/ agents' = [agents EXCEPT ![m] = None]
    BY <1>8
    DEF JoinStep, StopAgent, WriteConfig, WriteNodeId, DisableController, StartService, Interrupt,
        CallFails, Exits
  <2>3. \A o \in Machine : agents'[o] \in {agents[o], None}
    BY <2>2 DEF OInv, MachineTypes
  <2>. QED  BY <2>1, <2>3, CalmZombies DEF AgentAt
<1>9. ASSUME NEW m \in Machine, Launch(m) \/ KeepId(m) PROVE ZInv' /\ ZombieStep
  <2>1. UNCHANGED <<creds, nodes, removed>>
    BY <1>9 DEF Launch, KeepId, controller, history
  <2>. DEFINE a == IF Launch(m)
                   THEN [id |-> files[m].id, cred |-> files[m].cred, at |-> "enrolled"]
                   ELSE [agents[m] EXCEPT !.at = "enrolled"]
  <2>2. agents' = [agents EXCEPT ![m] = a]
    BY <1>9 DEF Launch, KeepId
  <2>3. a.at = "enrolled"
    BY <1>0, <1>9 DEF KeepId, AgentAt, Agent
  <2>. HIDE DEF a
  <2>4. \A o \in Machine : AgentAt(o, "checked")' => agents'[o] = agents[o]
    BY <2>2, <2>3 DEF AgentAt, OInv, MachineTypes
  <2>. QED  BY <2>1, <2>4, CalmZombies DEF AgentAt
<1>10. ASSUME NEW m \in Machine, Authenticate(m) PROVE ZInv' /\ ZombieStep
  <2>1. UNCHANGED <<creds, nodes, removed>>
    BY <1>10 DEF Authenticate, controller, history
  <2>. DEFINE a == [agents[m] EXCEPT !.at = "checked"]
  <2>2. agents[m] \in Agent
    BY <1>0, <1>10 DEF Authenticate, AgentAt
  <2>3. a.id = agents[m].id /\ agents[m].cred # None
    BY <2>2, Numbers DEF Agent
  <2>4. \/ agents' = [agents EXCEPT ![m] = a] /\ creds[agents[m].id] = agents[m].cred
        \/ agents' = [agents EXCEPT ![m] = None]
    BY <1>10 DEF Authenticate, Authentic, Exits
  <2>. HIDE DEF a
  <2>5. \A o \in Machine : AgentAt(o, "checked")' =>
          agents'[o] = agents[o] \/ creds[agents'[o].id] # None
    BY <2>3, <2>4 DEF AgentAt, OInv, MachineTypes
  <2>. QED  BY <2>1, <2>5, CalmZombies DEF AgentAt
<1>11. ASSUME NEW m \in Machine, NEW ok \in BOOLEAN, Register(m, ok) PROVE ZInv' /\ ZombieStep
  <2>. DEFINE a == [agents[m] EXCEPT !.at = "up"]
  <2>1. agents[m] \in Agent /\ AgentAt(m, "checked")
    BY <1>0, <1>11 DEF Register, AgentAt
  <2>2. a.at = "up"
    BY <2>1 DEF Agent
  <2>3. /\ agents' = [agents EXCEPT ![m] = a] \/ agents' = [agents EXCEPT ![m] = None]
        /\ nodes' = nodes \cup {agents[m].id} /\ UNCHANGED <<creds, removed>>
    BY <1>11 DEF Register, Exits, history
  <2>. HIDE DEF a
  <2>4. \A o \in Machine : AgentAt(o, "checked")' => agents'[o] = agents[o]
    BY <2>2, <2>3 DEF AgentAt, OInv, MachineTypes
  <2>5. ZInv'
    BY <2>3, <2>4 DEF ZInv, AgentAt
  <2>6. ASSUME NEW n \in Zombies' \ Zombies PROVE n = agents[m].id /\ n \in removed
    BY <2>1, <2>3, <2>6 DEF Zombies, ZInv
  <2>. QED  BY <2>1, <2>5, <2>6 DEF ZombieStep
<1>. QED
  BY <1>1, <1>2, <1>3, <1>4, <1>5, <1>6, <1>7, <1>8, <1>9, <1>10, <1>11 DEF EnrollNext, AgentStep

\* register_node and delete_node: a node comes to be without a credential only where it was
\* removed between the two halves of its registration, or where the controller starts
\* again with such a one.
THEOREM ZombiesAreExplained == EnrollSpec => ZombiesExplained
<1>1. EnrollInit => ZInv
  BY DEF EnrollInit, ZInv, AgentAt
<1>2. OInv /\ ZInv /\ [EnrollNext]_vars => ZombieStep
  BY ZombiesStep
<1>3. OInv /\ ZInv /\ [EnrollNext]_vars => ZInv'
  BY ZombiesStep
<1>4. (EnrollSpec => [][ZombieStep]_vars) => (EnrollSpec => ZombiesExplained)
  BY DEF ZombieStep, ZombiesExplained
<1>. HIDE DEF ZombieStep, ZombiesExplained
<1>. QED  BY <1>1, <1>2, <1>3, <1>4, InitInv, OwnInit, StepInv, OwnStep, PTL DEF EnrollSpec

=============================================================================
