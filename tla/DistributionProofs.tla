------------------------- MODULE DistributionProofs -------------------------
(***************************************************************************)
(* Proofs about Distribution, for any environments and numbers of builds.  *)
(*                                                                         *)
(* Two arguments.  A list the agent goes by is older than the cluster, but *)
(* one without environments was fetched when nothing was confirmed, or     *)
(* after an update had left it confirmed for nobody, and only the same     *)
(* agent, with its next list, confirms anything anew: nothing else is      *)
(* placed on the node while it takes files away.  And contents only grow:  *)
(* the controller's file is the last build, the node's at most that, and   *)
(* what a snapshot is taken of at most the node's.                         *)
(***************************************************************************)
EXTENDS Distribution, TLAPS

\* What is placed on the node.
Placed == confirmed \/ Needed

\* Without environments nothing is confirmed but what an update left so, and a start of its
\* environment's own pool is for an environment with the artifact.
PlacedForKnown ==
  /\ Known = {} => ~ confirmed \/ stale
  /\ Needed => envs[start.env] \in Content

\* Where the agent cleans up by a list without environments, nothing is placed on its node
\* but after an update that left it so.
EmptyListsAreSafe ==
  agent # None =>
    /\ agent.at = "check" /\ agent.todo # {} => agent.wanted
    /\ agent.at \in {"download", "mark", "ready"} => agent.wanted
    /\ agent.at = "check" /\ ~ agent.wanted => ~ Placed \/ stale

\* What the agent has found out about the file at its steps.
FileAtSteps ==
  agent # None =>
    /\ agent.at \in {"download", "mark", "ready"} => agent.cur # None
    /\ agent.at = "mark" => nodeFile = agent.cur.sha
    /\ agent.at = "ready" => nodeFile # None /\ (nodeFile = agent.cur.sha \/ torn)

\* A marker is of the file beside it, or the file came without one.
MarkerIsTrue == marker # None /\ nodeFile # None /\ marker # nodeFile => torn

\* The newest build is at the controller, no newer one at the node or in a snapshot
\* that is being taken, and that one is no newer than the node's file.
ContentsGrow ==
  /\ file # None => file = builds
  /\ nodeFile \in Content => nodeFile <= builds
  /\ start # None /\ start.at = "making" =>
       /\ start.of # None
       /\ start.of \in Content =>
            start.of <= builds /\ (nodeFile \in Content => start.of <= nodeFile)

\* A snapshot that is not of the controller's file has outlived something.
SnapshotIsCurrent ==
  /\ snapshot # None /\ file = None => outlived
  /\ snapshot # None /\ file # None /\ snapshot # file => outlived

DInv ==
  /\ DistTypeOK
  /\ PlacedForKnown /\ EmptyListsAreSafe /\ FileAtSteps /\ MarkerIsTrue
  /\ ContentsGrow /\ SnapshotIsCurrent
  /\ StartsKeepTheirFiles /\ StaleSnapshotsExplained

-----------------------------------------------------------------------------
(* Types. *)

\* What an agent is made of.
LEMMA AgentFields ==
  ASSUME DistTypeOK, agent # None
  PROVE  /\ agent = [at |-> agent.at, todo |-> agent.todo, cur |-> agent.cur,
                     wanted |-> agent.wanted]
         /\ agent.at \in {"list", "check", "download", "mark", "ready", "pools",
                          "snapshot", "sweep"}
         /\ agent.todo \in SUBSET Listed
         /\ agent.cur \in Listed \cup {None}
         /\ agent.wanted \in BOOLEAN
  BY DEF DistTypeOK, Agent

\* What a start is made of.
LEMMA StartFields ==
  ASSUME DistTypeOK, start # None
  PROVE  /\ start = [env |-> start.env, own |-> start.own, at |-> start.at, of |-> start.of]
         /\ start.env \in Env /\ start.own \in BOOLEAN
         /\ start.at \in {"ensure", "making", "load"}
         /\ start.of \in Content \cup {Other, None}
  BY DEF DistTypeOK, Start

\* What an environment of a list is made of.
LEMMA ListedFields ==
  ASSUME NEW x \in Listed
  PROVE  x.env \in Env /\ x.sha \in Content /\ x # None
  BY DistributionAssumption DEF Listed

\* What a request is made of.
LEMMA RequestFields ==
  ASSUME DistTypeOK, NEW r \in Req, requests[r] # None
  PROVE  /\ requests[r] = [at |-> requests[r].at, sha |-> requests[r].sha]
         /\ requests[r].at \in {"build", "hash", "commit"}
         /\ requests[r].at = "commit" => requests[r].sha \in Content
         /\ requests[r].at # "commit" => requests[r].sha = None
  BY DEF DistTypeOK, Request

\* The idle agent is one.
LEMMA IdleIsAgent == Idle \in Agent /\ Idle # None
<1>1. Idle \in Agent
  BY DEF Idle, Agent
<1>. QED  BY <1>1, DistributionAssumption

\* Contents are numbers, other than Other, and not None.
LEMMA ContentIsNat == Content \subseteq Nat /\ None \notin Content \cup {Other} /\ Other \notin Content
  BY DistributionAssumption DEF Content, Other

\* Types stay as environment i gets another record.
LEMMA RecordTypes ==
  ASSUME DistTypeOK, NEW i \in Env, NEW sha \in Content \cup {Other},
         requests' \in [Req -> Request \cup {None}], Record(i, sha)
  PROVE  DistTypeOK'
<1>1. start' \in Start \cup {None}
  <2>1. CASE start # None /\ start.env = i /\ sha = Other
    <3>. DEFINE s == [env |-> start.env, own |-> FALSE, at |-> start.at, of |-> start.of]
    <3>1. start' = s
      BY <2>1, StartFields DEF Record
    <3>2. s \in Start
      BY <2>1, StartFields DEF Start
    <3>. QED  BY <3>1, <3>2
  <2>2. CASE ~ (start # None /\ start.env = i /\ sha = Other)
    BY <2>2 DEF Record, DistTypeOK
  <2>. QED  BY <2>1, <2>2
<1>2. records' \in 0..MaxRecords
  BY DistributionAssumption DEF Record, DistTypeOK
<1>3. stale' \in BOOLEAN
  BY DEF Record, DistTypeOK, Unused
<1>. QED  BY <1>1, <1>2, <1>3 DEF DistTypeOK, Record, disk, snap

\* Types stay with the steps of requests.
LEMMA RequestTypes ==
  ASSUME DistTypeOK, NEW r \in Req, RequestStep(r)
  PROVE  DistTypeOK'
<1>. USE DEF DistTypeOK, cluster, disk, snap
<1>1. CASE Prepare(r)
  <2>. DEFINE q == [at |-> IF file = None THEN "build" ELSE "hash", sha |-> None]
  <2>1. q \in Request
    BY DEF Request
  <2>. QED  BY <1>1, <2>1 DEF Prepare
<1>2. CASE Keep(r)
  <2>. DEFINE q == [at |-> "commit", sha |-> envs[Target[r]]]
  <2>1. q \in Request
    BY <1>2 DEF Request, Keep
  <2>. QED  BY <1>2, <2>1 DEF Keep
<1>3. CASE Build(r)
  <2>1. requests[r] # None /\ requests[r].at = "build"
    BY <1>3 DEF Build, Requested
  <2>. DEFINE q == [at |-> "hash", sha |-> None]
  <2>2. [requests[r] EXCEPT !.at = "hash"] = q
    <3>1. requests[r] = [at |-> requests[r].at, sha |-> requests[r].sha]
      BY <2>1, RequestFields
    <3>2. requests[r].sha = None
      BY <2>1, RequestFields
    <3>. QED  BY <3>1, <3>2
  <2>3. q \in Request
    BY DEF Request
  <2>4. requests' = [requests EXCEPT ![r] = q]
    BY <1>3, <2>2 DEF Build
  <2>5. builds + 1 \in Content /\ builds + 1 \in 0..MaxBuilds
    BY <1>3, DistributionAssumption DEF Build, Content
  <2>6. outlived' \in BOOLEAN
    BY <1>3 DEF Build, Outlives
  <2>. QED  BY <1>3, <2>3, <2>4, <2>5, <2>6 DEF Build
<1>4. CASE Abandon(r)
  BY <1>4 DEF Abandon
<1>5. CASE HashFile(r)
  <2>. DEFINE q == [at |-> "commit", sha |-> file]
  <2>1. file # None => q \in Request
    BY DEF Request
  <2>. QED  BY <1>5, <2>1 DEF HashFile
<1>6. CASE Commit(r)
  <2>1. requests[r].sha \in Content
    BY <1>6, RequestFields DEF Commit, Requested
  <2>2. requests' \in [Req -> Request \cup {None}] /\ Target[r] \in Env
    BY <1>6, DistributionAssumption DEF Commit
  <2>. QED  BY <1>6, <2>1, <2>2, RecordTypes DEF Commit
<1>. QED  BY <1>1, <1>2, <1>3, <1>4, <1>5, <1>6 DEF RequestStep

\* Types stay with an update to other packages, and with a deletion.
LEMMA EnvTypes ==
  ASSUME DistTypeOK, NEW i \in Env, EnvStep(i)
  PROVE  DistTypeOK'
<1>1. CASE Leave(i)
  BY <1>1, RecordTypes DEF Leave, DistTypeOK
<1>2. CASE Delete(i)
  <2>1. outlived' \in BOOLEAN
    BY <1>2 DEF Delete, DistTypeOK, Outlives
  <2>. QED  BY <1>2, <2>1 DEF DistTypeOK, Delete, Forget, disk
<1>. QED  BY <1>1, <1>2 DEF EnvStep

\* An agent with other fields of their types is an agent.
LEMMA AgentMade ==
  ASSUME NEW a, NEW b \in SUBSET Listed, NEW c \in Listed \cup {None}, NEW d \in BOOLEAN,
         a \in {"list", "check", "download", "mark", "ready", "pools", "snapshot", "sweep"}
  PROVE  [at |-> a, todo |-> b, cur |-> c, wanted |-> d] \in Agent
  BY DEF Agent

\* An agent that does not end is one afterwards.
LEMMA AgentGoesOn ==
  ASSUME DistTypeOK,
         \/ ListEnvironments \/ Mark \/ Clean \/ ListPools \/ EnsureSnapshot \/ Sweep \/ Restart
         \/ Download /\ agent' # None
         \/ Ready /\ Known # {}
         \/ \E x \in Listed : Check(x)
  PROVE  agent' \in Agent /\ agent' # None
<1>. USE AgentFields, AgentMade
<1>. SUFFICES agent' \in Agent
  BY DistributionAssumption
<1>1. CASE ListEnvironments
  <2>. DEFINE t == {[env |-> i, sha |-> envs[i]] : i \in Known}
  <2>1. t \in SUBSET Listed
    BY DEF Known, Listed, DistTypeOK
  <2>2. agent' = [at |-> "check", todo |-> t, cur |-> agent.cur, wanted |-> Known # {}]
    BY <1>1 DEF ListEnvironments, At
  <2>3. agent.cur \in Listed \cup {None} /\ (Known # {}) \in BOOLEAN
    BY <1>1 DEF ListEnvironments, At
  <2>. HIDE DEF t
  <2>. QED  BY <2>1, <2>2, <2>3
<1>2. CASE Download /\ agent' # None
  <2>1. agent' = [at |-> "mark", todo |-> agent.todo, cur |-> agent.cur,
                  wanted |-> agent.wanted]
    BY <1>2 DEF Download, At, Exit
  <2>. QED  BY <1>2, <2>1 DEF Download, At
<1>3. CASE Mark
  <2>1. agent' = [at |-> "ready", todo |-> agent.todo, cur |-> agent.cur,
                  wanted |-> agent.wanted]
    BY <1>3 DEF Mark, At
  <2>. QED  BY <1>3, <2>1 DEF Mark, At
<1>4. CASE Ready /\ Known # {}
  <2>1. agent' = [at |-> "check", todo |-> agent.todo, cur |-> None, wanted |-> agent.wanted]
    BY <1>4 DEF Ready, At
  <2>. QED  BY <1>4, <2>1 DEF Ready, At
<1>5. CASE Clean
  <2>1. agent' = [at |-> "pools", todo |-> {}, cur |-> None, wanted |-> FALSE]
    BY <1>5 DEF Clean, Idle
  <2>. QED  BY <2>1
<1>6. ASSUME NEW x \in Listed, Check(x) PROVE agent' \in Agent
  <2>. DEFINE step == IF nodeFile # None /\ marker = x.sha THEN "ready"
                      ELSE IF nodeFile = x.sha THEN "mark" ELSE "download"
  <2>1. agent' = [at |-> step, todo |-> agent.todo \ {x}, cur |-> x, wanted |-> agent.wanted]
    BY <1>6 DEF Check, At
  <2>2. agent.todo \ {x} \in SUBSET Listed /\ agent.wanted \in BOOLEAN
    BY <1>6 DEF Check, At
  <2>3. step \in {"ready", "mark", "download"}
    OBVIOUS
  <2>. HIDE DEF step
  <2>. QED  BY <2>1, <2>2, <2>3
<1>7. CASE ListPools
  <2>1. PICK listed \in BOOLEAN :
          agent' = [at |-> "snapshot", todo |-> agent.todo, cur |-> agent.cur,
                    wanted |-> listed]
    BY <1>7 DEF ListPools, At
  <2>2. agent.todo \in SUBSET Listed /\ agent.cur \in Listed \cup {None}
    BY <1>7 DEF ListPools, At
  <2>. QED  BY <2>1, <2>2
<1>8. CASE EnsureSnapshot
  <2>1. agent' = [at |-> "sweep", todo |-> agent.todo, cur |-> agent.cur,
                  wanted |-> agent.wanted]
    BY <1>8 DEF EnsureSnapshot, At
  <2>. QED  BY <1>8, <2>1 DEF EnsureSnapshot, At
<1>9. CASE Sweep \/ Restart
  BY <1>9, IdleIsAgent DEF Sweep, Restart
<1>. QED  BY <1>1, <1>2, <1>3, <1>4, <1>5, <1>6, <1>7, <1>8, <1>9

\* What a download brings into place.
LEMMA Downloaded ==
  ASSUME DistTypeOK, FileAtSteps, Download
  PROVE  /\ agent.cur \in Listed
         /\ (nodeFile' = file /\ file # None) \/ nodeFile' = Other
<1>1. agent.cur \in Listed /\ agent.cur.env \in Env
  BY AgentFields, ListedFields DEF Download, At, FileAtSteps
<1>2. envs[agent.cur.env] \in Content \cup {Other, None}
  BY <1>1 DEF DistTypeOK
<1>. QED  BY <1>1, <1>2 DEF Download

\* Types stay with the agent's steps.
LEMMA AgentTypes ==
  ASSUME DistTypeOK, FileAtSteps, AgentStep \/ Crash
  PROVE  DistTypeOK'
<1>. USE DEF DistTypeOK, controller, cluster, disk, snap
<1>1. CASE ListEnvironments
  <2>1. agent' \in Agent
    BY <1>1, AgentGoesOn
  <2>. QED  BY <1>1, <2>1 DEF ListEnvironments
<1>2. CASE Download
  <2>1. nodeFile' \in Content \cup {Other, None}
    BY <1>2, Downloaded
  <2>2. agent' = None \/ agent' \in Agent
    BY <1>2, AgentGoesOn
  <2>3. start' \in Start \cup {None}
    BY <1>2 DEF Download, Exit
  <2>. QED  BY <1>2, <2>1, <2>2, <2>3 DEF Download
<1>3. CASE DownloadFails
  BY <1>3 DEF DownloadFails, Exit
<1>4. CASE Mark
  <2>1. agent.cur \in Listed
    BY <1>4, AgentFields DEF Mark, At, FileAtSteps
  <2>2. agent' \in Agent
    BY <1>4, AgentGoesOn
  <2>. QED  BY <1>4, <2>1, <2>2, ListedFields DEF Mark
<1>5. CASE Ready
  <2>1. agent' = None \/ agent' \in Agent
    <3>1. CASE Known # {}
      BY <1>5, <3>1, AgentGoesOn
    <3>2. CASE Known = {}
      BY <1>5, <3>2 DEF Ready, Exit
    <3>. QED  BY <3>1, <3>2
  <2>2. start' \in Start \cup {None}
    BY <1>5 DEF Ready, Exit
  <2>3. confirmed' \in BOOLEAN /\ stale' \in BOOLEAN
    BY <1>5 DEF Ready
  <2>. QED  BY <1>5, <2>1, <2>2, <2>3 DEF Ready
<1>6. CASE Clean
  <2>1. agent' \in Agent
    BY <1>6, AgentGoesOn
  <2>. QED  BY <1>6, <2>1 DEF Clean
<1>7. ASSUME NEW x \in Listed, Check(x) PROVE DistTypeOK'
  <2>1. agent' \in Agent
    BY <1>7, AgentGoesOn
  <2>. QED  BY <1>7, <2>1 DEF Check
<1>8. CASE ListPools
  <2>1. agent' \in Agent
    BY <1>8, AgentGoesOn
  <2>. QED  BY <1>8, <2>1 DEF ListPools
<1>9. CASE EnsureSnapshot
  <2>1. agent' \in Agent
    BY <1>9, AgentGoesOn
  <2>. QED  BY <1>9, <2>1 DEF EnsureSnapshot, Take
<1>10. CASE Sweep
  <2>1. agent' \in Agent
    BY <1>10, AgentGoesOn
  <2>. QED  BY <1>10, <2>1 DEF Sweep
<1>11. CASE Restart
  <2>1. agent' \in Agent
    BY <1>11, AgentGoesOn
  <2>. QED  BY <1>11, <2>1 DEF Restart
<1>12. CASE Crash
  BY <1>12 DEF Crash, Exit
<1>. QED  BY <1>1, <1>2, <1>3, <1>4, <1>5, <1>6, <1>7, <1>8, <1>9, <1>10, <1>11, <1>12
          DEF AgentStep

\* Types stay with the steps of a start.
LEMMA StartTypes ==
  ASSUME DistTypeOK, StartStep \/ \E i \in Env : Begin(i)
  PROVE  DistTypeOK'
<1>. USE StartFields
<1>1. ASSUME NEW i \in Env, Begin(i) PROVE DistTypeOK'
  <2>. DEFINE s == [env |-> i, own |-> TRUE, at |-> "ensure", of |-> None]
  <2>1. s \in Start
    BY DEF Start
  <2>. QED  BY <1>1, <2>1 DEF DistTypeOK, Begin, controller, cluster, disk, snap
<1>2. CASE Ensure
  <2>. DEFINE load == [env |-> start.env, own |-> start.own, at |-> "load", of |-> start.of]
              making == [env |-> start.env, own |-> start.own, at |-> "making",
                         of |-> nodeFile]
  <2>1. start' = IF snapshot # None THEN load ELSE IF nodeFile # None THEN making ELSE None
    <3>1. start # None /\ start = [env |-> start.env, own |-> start.own, at |-> start.at,
                                   of |-> start.of]
      BY <1>2 DEF Ensure, StartAt
    <3>2. [start EXCEPT !.at = "load"] = load
      BY <3>1
    <3>. QED  BY <1>2, <3>2 DEF Ensure
  <2>2. start.env \in Env /\ start.own \in BOOLEAN /\ start.of \in Content \cup {Other, None}
        /\ nodeFile \in Content \cup {Other, None}
    BY <1>2 DEF Ensure, StartAt, DistTypeOK
  <2>3. load \in Start /\ making \in Start
    BY <2>2 DEF Start
  <2>. QED  BY <1>2, <2>1, <2>3 DEF DistTypeOK, Ensure, controller, cluster, disk, snap
<1>3. CASE Publish
  <2>. DEFINE s == [env |-> start.env, own |-> start.own, at |-> "load", of |-> None]
  <2>1. start' = s
    BY <1>3 DEF Publish, StartAt
  <2>2. s \in Start
    BY <1>3 DEF Publish, StartAt, Start
  <2>3. snapshot' \in Content \cup {Other, None} /\ outlived' \in BOOLEAN
    BY <1>3 DEF Publish, StartAt, Take
  <2>. QED  BY <1>3, <2>1, <2>2, <2>3 DEF DistTypeOK, Publish, controller, cluster, disk
<1>4. CASE Load
  BY <1>4 DEF DistTypeOK, Load, controller, cluster, disk, snap
<1>. QED  BY <1>1, <1>2, <1>3, <1>4 DEF StartStep

\* Every step keeps the types.
LEMMA StepTypes ==
  ASSUME DistTypeOK, FileAtSteps, [DistNext]_vars
  PROVE  DistTypeOK'
<1>1. CASE UNCHANGED vars
  BY <1>1 DEF vars, DistTypeOK, controller, cluster, disk, snap
<1>. QED  BY <1>1, RequestTypes, EnvTypes, AgentTypes, StartTypes DEF DistNext

-----------------------------------------------------------------------------
(* The parts of the invariant. *)

\* Nothing is placed on the node while it goes by a list without environments, but after
\* an update that left it so.
LEMMA PlacedKept ==
  ASSUME DInv, DistTypeOK', [DistNext]_vars
  PROVE  PlacedForKnown' /\ EmptyListsAreSafe'
<1>. USE AgentFields, StartFields, ListedFields, ContentIsNat, DistributionAssumption
     DEF DInv, PlacedForKnown, EmptyListsAreSafe, Placed, Needed, Known,
         controller, cluster, disk, snap
<1>1. ASSUME NEW r \in Req, Prepare(r) PROVE PlacedForKnown' /\ EmptyListsAreSafe'
  BY <1>1 DEF Prepare
<1>2. ASSUME NEW r \in Req, Keep(r) PROVE PlacedForKnown' /\ EmptyListsAreSafe'
  BY <1>2 DEF Keep
<1>3. ASSUME NEW r \in Req, Build(r) PROVE PlacedForKnown' /\ EmptyListsAreSafe'
  BY <1>3 DEF Build, Requested, Outlives
<1>4. ASSUME NEW r \in Req, Abandon(r) PROVE PlacedForKnown' /\ EmptyListsAreSafe'
  BY <1>4 DEF Abandon
<1>5. ASSUME NEW r \in Req, HashFile(r) PROVE PlacedForKnown' /\ EmptyListsAreSafe'
  BY <1>5 DEF HashFile
<1>6. ASSUME NEW r \in Req, Commit(r) PROVE PlacedForKnown' /\ EmptyListsAreSafe'
  <2>1. requests[r].sha \in Content /\ Target[r] \in Env
    BY <1>6, RequestFields DEF Commit, Requested
  <2>2. start' = start /\ stale' = (stale \/ Unused) /\ UNCHANGED <<confirmed, agent>>
    BY <1>6, <2>1 DEF Commit, Record
  <2>3. envs' = [envs EXCEPT ![Target[r]] = requests[r].sha]
    BY <1>6 DEF Commit, Record
  <2>. QED  BY <2>1, <2>2, <2>3 DEF Unused, DistTypeOK
<1>7. ASSUME NEW i \in Env, Leave(i) PROVE PlacedForKnown' /\ EmptyListsAreSafe'
  <2>1. stale' = (stale \/ Unused) /\ UNCHANGED <<confirmed, agent>>
    BY <1>7 DEF Leave, Record
  <2>2. envs' = [envs EXCEPT ![i] = Other]
    BY <1>7 DEF Leave, Record
  <2>3. Needed' => Needed /\ start' = start /\ start.env # i
    BY <1>7 DEF Leave, Record
  <2>. QED  BY <2>1, <2>2, <2>3 DEF Unused, DistTypeOK
<1>8. ASSUME NEW i \in Env, Delete(i) PROVE PlacedForKnown' /\ EmptyListsAreSafe'
  BY <1>8 DEF Delete, Outlives, LastUser, Forget
<1>9. CASE ListEnvironments
  <2>1. agent.at = "list" /\ agent'.at = "check" /\ agent'.wanted = (Known # {})
        /\ (agent'.todo # {} => Known # {})
    BY <1>9 DEF ListEnvironments, At
  <2>2. Needed => Known # {}
    OBVIOUS
  <2>. QED  BY <1>9, <2>1, <2>2 DEF ListEnvironments
<1>10. CASE Download
  BY <1>10 DEF Download, At, Exit
<1>11. CASE DownloadFails
  BY <1>11 DEF DownloadFails, At, Exit
<1>12. CASE Mark
  BY <1>12 DEF Mark, At
<1>13. CASE Ready
  BY <1>13 DEF Ready, At, Exit
<1>14. CASE Clean
  BY <1>14 DEF Clean, At, Idle
<1>15. ASSUME NEW x \in Listed, Check(x) PROVE PlacedForKnown' /\ EmptyListsAreSafe'
  BY <1>15 DEF Check, At
<1>16. CASE ListPools
  BY <1>16 DEF ListPools, At
<1>17. CASE EnsureSnapshot
  BY <1>17 DEF EnsureSnapshot, At, Take
<1>18. CASE Sweep
  BY <1>18 DEF Sweep, At, Idle
<1>19. CASE Restart
  BY <1>19 DEF Restart, Idle
<1>20. CASE Crash
  BY <1>20 DEF Crash, Exit
<1>21. ASSUME NEW i \in Env, Begin(i) PROVE PlacedForKnown' /\ EmptyListsAreSafe'
  BY <1>21 DEF Begin
<1>22. CASE Ensure
  BY <1>22 DEF Ensure, StartAt
<1>23. CASE Publish
  BY <1>23 DEF Publish, StartAt, Take
<1>24. CASE Load
  BY <1>24 DEF Load
<1>25. CASE UNCHANGED vars
  BY <1>25 DEF vars
<1>. QED
  BY <1>1, <1>2, <1>3, <1>4, <1>5, <1>6, <1>7, <1>8, <1>9, <1>10, <1>11, <1>12,
     <1>13, <1>14, <1>15, <1>16, <1>17, <1>18, <1>19, <1>20, <1>21, <1>22, <1>23, <1>24, <1>25
  DEF DistNext, RequestStep, EnvStep, AgentStep, StartStep

\* What is placed on the node finds its file, but after such an update.
LEMMA FilesKept ==
  ASSUME DInv, DistTypeOK', [DistNext]_vars
  PROVE  StartsKeepTheirFiles'
<1>. USE AgentFields, StartFields, ListedFields, ContentIsNat, DistributionAssumption
     DEF DInv, StartsKeepTheirFiles, EmptyListsAreSafe, PlacedForKnown, FileAtSteps,
         Placed, Needed, Known,
         controller, cluster, disk, snap
<1>1. ASSUME NEW r \in Req, Prepare(r) PROVE StartsKeepTheirFiles'
  BY <1>1 DEF Prepare
<1>2. ASSUME NEW r \in Req, Keep(r) PROVE StartsKeepTheirFiles'
  BY <1>2 DEF Keep
<1>3. ASSUME NEW r \in Req, Build(r) PROVE StartsKeepTheirFiles'
  BY <1>3 DEF Build, Requested, Outlives
<1>4. ASSUME NEW r \in Req, Abandon(r) PROVE StartsKeepTheirFiles'
  BY <1>4 DEF Abandon
<1>5. ASSUME NEW r \in Req, HashFile(r) PROVE StartsKeepTheirFiles'
  BY <1>5 DEF HashFile
<1>6. ASSUME NEW r \in Req, Commit(r) PROVE StartsKeepTheirFiles'
  BY <1>6 DEF Commit, Requested, Record
<1>7. ASSUME NEW i \in Env, Leave(i) PROVE StartsKeepTheirFiles'
  BY <1>7 DEF Leave, Record
<1>8. ASSUME NEW i \in Env, Delete(i) PROVE StartsKeepTheirFiles'
  BY <1>8 DEF Delete, Outlives, LastUser, Forget
<1>9. CASE ListEnvironments
  BY <1>9 DEF ListEnvironments, At
<1>10. CASE Download
  BY <1>10 DEF Download, At, Exit
<1>11. CASE DownloadFails
  BY <1>11 DEF DownloadFails, At, Exit
<1>12. CASE Mark
  BY <1>12 DEF Mark, At
<1>13. CASE Ready
  BY <1>13 DEF Ready, At, Exit
<1>14. CASE Clean
  BY <1>14 DEF Clean, At, Idle
<1>15. ASSUME NEW x \in Listed, Check(x) PROVE StartsKeepTheirFiles'
  BY <1>15 DEF Check, At
<1>16. CASE ListPools
  BY <1>16 DEF ListPools, At
<1>17. CASE EnsureSnapshot
  BY <1>17 DEF EnsureSnapshot, At, Take
<1>18. CASE Sweep
  BY <1>18 DEF Sweep, At, Idle
<1>19. CASE Restart
  BY <1>19 DEF Restart, Idle
<1>20. CASE Crash
  BY <1>20 DEF Crash, Exit
<1>21. ASSUME NEW i \in Env, Begin(i) PROVE StartsKeepTheirFiles'
  BY <1>21 DEF Begin
<1>22. CASE Ensure
  BY <1>22 DEF Ensure, StartAt
<1>23. CASE Publish
  BY <1>23 DEF Publish, StartAt, Take
<1>24. CASE Load
  BY <1>24 DEF Load
<1>25. CASE UNCHANGED vars
  BY <1>25 DEF vars
<1>. QED
  BY <1>1, <1>2, <1>3, <1>4, <1>5, <1>6, <1>7, <1>8, <1>9, <1>10, <1>11, <1>12,
     <1>13, <1>14, <1>15, <1>16, <1>17, <1>18, <1>19, <1>20, <1>21, <1>22, <1>23, <1>24, <1>25
  DEF DistNext, RequestStep, EnvStep, AgentStep, StartStep

\* What the agent knows of its file, and what the marker says.
LEMMA MarkersKept ==
  ASSUME DInv, DistTypeOK', [DistNext]_vars
  PROVE  FileAtSteps' /\ MarkerIsTrue'
<1>. USE AgentFields, StartFields, ListedFields, ContentIsNat, DistributionAssumption
     DEF DInv, FileAtSteps, MarkerIsTrue,
         controller, cluster, disk, snap
<1>1. ASSUME NEW r \in Req, Prepare(r) PROVE FileAtSteps' /\ MarkerIsTrue'
  BY <1>1 DEF Prepare
<1>2. ASSUME NEW r \in Req, Keep(r) PROVE FileAtSteps' /\ MarkerIsTrue'
  BY <1>2 DEF Keep
<1>3. ASSUME NEW r \in Req, Build(r) PROVE FileAtSteps' /\ MarkerIsTrue'
  BY <1>3 DEF Build, Requested, Outlives
<1>4. ASSUME NEW r \in Req, Abandon(r) PROVE FileAtSteps' /\ MarkerIsTrue'
  BY <1>4 DEF Abandon
<1>5. ASSUME NEW r \in Req, HashFile(r) PROVE FileAtSteps' /\ MarkerIsTrue'
  BY <1>5 DEF HashFile
<1>6. ASSUME NEW r \in Req, Commit(r) PROVE FileAtSteps' /\ MarkerIsTrue'
  BY <1>6 DEF Commit, Requested, Record
<1>7. ASSUME NEW i \in Env, Leave(i) PROVE FileAtSteps' /\ MarkerIsTrue'
  BY <1>7 DEF Leave, Record
<1>8. ASSUME NEW i \in Env, Delete(i) PROVE FileAtSteps' /\ MarkerIsTrue'
  BY <1>8 DEF Delete, Outlives, LastUser, Forget
<1>9. CASE ListEnvironments
  BY <1>9 DEF ListEnvironments, At
<1>10. CASE Download
  BY <1>10 DEF Download, At, Exit
<1>11. CASE DownloadFails
  BY <1>11 DEF DownloadFails, At, Exit
<1>12. CASE Mark
  BY <1>12 DEF Mark, At
<1>13. CASE Ready
  BY <1>13 DEF Ready, At, Exit
<1>14. CASE Clean
  BY <1>14 DEF Clean, At, Idle
<1>15. ASSUME NEW x \in Listed, Check(x) PROVE FileAtSteps' /\ MarkerIsTrue'
  BY <1>15 DEF Check, At
<1>16. CASE ListPools
  BY <1>16 DEF ListPools, At
<1>17. CASE EnsureSnapshot
  BY <1>17 DEF EnsureSnapshot, At, Take
<1>18. CASE Sweep
  BY <1>18 DEF Sweep, At, Idle
<1>19. CASE Restart
  BY <1>19 DEF Restart, Idle
<1>20. CASE Crash
  BY <1>20 DEF Crash, Exit
<1>21. ASSUME NEW i \in Env, Begin(i) PROVE FileAtSteps' /\ MarkerIsTrue'
  BY <1>21 DEF Begin
<1>22. CASE Ensure
  BY <1>22 DEF Ensure, StartAt
<1>23. CASE Publish
  BY <1>23 DEF Publish, StartAt, Take
<1>24. CASE Load
  BY <1>24 DEF Load
<1>25. CASE UNCHANGED vars
  BY <1>25 DEF vars
<1>. QED
  BY <1>1, <1>2, <1>3, <1>4, <1>5, <1>6, <1>7, <1>8, <1>9, <1>10, <1>11, <1>12,
     <1>13, <1>14, <1>15, <1>16, <1>17, <1>18, <1>19, <1>20, <1>21, <1>22, <1>23, <1>24, <1>25
  DEF DistNext, RequestStep, EnvStep, AgentStep, StartStep

\* Contents grow.
LEMMA ContentsKept ==
  ASSUME DInv, DistTypeOK', [DistNext]_vars
  PROVE  ContentsGrow'
<1>. USE AgentFields, StartFields, ListedFields, ContentIsNat, DistributionAssumption
     DEF DInv, ContentsGrow, DistTypeOK, Content, Other,
         controller, cluster, disk, snap
<1>1. ASSUME NEW r \in Req, Prepare(r) PROVE ContentsGrow'
  BY <1>1 DEF Prepare
<1>2. ASSUME NEW r \in Req, Keep(r) PROVE ContentsGrow'
  BY <1>2 DEF Keep
<1>3. ASSUME NEW r \in Req, Build(r) PROVE ContentsGrow'
  BY <1>3 DEF Build, Requested, Outlives
<1>4. ASSUME NEW r \in Req, Abandon(r) PROVE ContentsGrow'
  BY <1>4 DEF Abandon
<1>5. ASSUME NEW r \in Req, HashFile(r) PROVE ContentsGrow'
  BY <1>5 DEF HashFile
<1>6. ASSUME NEW r \in Req, Commit(r) PROVE ContentsGrow'
  BY <1>6 DEF Commit, Requested, Record
<1>7. ASSUME NEW i \in Env, Leave(i) PROVE ContentsGrow'
  BY <1>7 DEF Leave, Record
<1>8. ASSUME NEW i \in Env, Delete(i) PROVE ContentsGrow'
  BY <1>8 DEF Delete, Outlives, LastUser, Forget
<1>9. CASE ListEnvironments
  BY <1>9 DEF ListEnvironments, At
<1>10. CASE Download
  <2>1. UNCHANGED <<file, builds>> /\ (start' = start \/ start' = None)
    BY <1>10 DEF Download, Exit
  <2>2. nodeFile' \in Content => nodeFile' = file /\ file # None
    BY <1>10, Downloaded
  <2>. QED  BY <2>1, <2>2
<1>11. CASE DownloadFails
  BY <1>11 DEF DownloadFails, At, Exit
<1>12. CASE Mark
  BY <1>12 DEF Mark, At
<1>13. CASE Ready
  BY <1>13 DEF Ready, At, Exit
<1>14. CASE Clean
  BY <1>14 DEF Clean, At, Idle
<1>15. ASSUME NEW x \in Listed, Check(x) PROVE ContentsGrow'
  BY <1>15 DEF Check, At
<1>16. CASE ListPools
  BY <1>16 DEF ListPools, At
<1>17. CASE EnsureSnapshot
  BY <1>17 DEF EnsureSnapshot, At, Take
<1>18. CASE Sweep
  BY <1>18 DEF Sweep, At, Idle
<1>19. CASE Restart
  BY <1>19 DEF Restart, Idle
<1>20. CASE Crash
  BY <1>20 DEF Crash, Exit
<1>21. ASSUME NEW i \in Env, Begin(i) PROVE ContentsGrow'
  BY <1>21 DEF Begin
<1>22. CASE Ensure
  BY <1>22 DEF Ensure, StartAt
<1>23. CASE Publish
  BY <1>23 DEF Publish, StartAt, Take
<1>24. CASE Load
  BY <1>24 DEF Load
<1>25. CASE UNCHANGED vars
  BY <1>25 DEF vars
<1>. QED
  BY <1>1, <1>2, <1>3, <1>4, <1>5, <1>6, <1>7, <1>8, <1>9, <1>10, <1>11, <1>12,
     <1>13, <1>14, <1>15, <1>16, <1>17, <1>18, <1>19, <1>20, <1>21, <1>22, <1>23, <1>24, <1>25
  DEF DistNext, RequestStep, EnvStep, AgentStep, StartStep

\* A snapshot that is out of date is known to be.
LEMMA SnapshotsKept ==
  ASSUME DInv, DistTypeOK', [DistNext]_vars
  PROVE  SnapshotIsCurrent' /\ StaleSnapshotsExplained'
<1>. USE AgentFields, StartFields, ListedFields, ContentIsNat, DistributionAssumption
     DEF DInv, SnapshotIsCurrent, StaleSnapshotsExplained, ContentsGrow,
         controller, cluster, disk, snap
<1>1. ASSUME NEW r \in Req, Prepare(r) PROVE SnapshotIsCurrent' /\ StaleSnapshotsExplained'
  BY <1>1 DEF Prepare
<1>2. ASSUME NEW r \in Req, Keep(r) PROVE SnapshotIsCurrent' /\ StaleSnapshotsExplained'
  BY <1>2 DEF Keep
<1>3. ASSUME NEW r \in Req, Build(r) PROVE SnapshotIsCurrent' /\ StaleSnapshotsExplained'
  BY <1>3 DEF Build, Requested, Outlives
<1>4. ASSUME NEW r \in Req, Abandon(r) PROVE SnapshotIsCurrent' /\ StaleSnapshotsExplained'
  BY <1>4 DEF Abandon
<1>5. ASSUME NEW r \in Req, HashFile(r) PROVE SnapshotIsCurrent' /\ StaleSnapshotsExplained'
  BY <1>5 DEF HashFile
<1>6. ASSUME NEW r \in Req, Commit(r) PROVE SnapshotIsCurrent' /\ StaleSnapshotsExplained'
  BY <1>6 DEF Commit, Requested, Record
<1>7. ASSUME NEW i \in Env, Leave(i) PROVE SnapshotIsCurrent' /\ StaleSnapshotsExplained'
  BY <1>7 DEF Leave, Record
<1>8. ASSUME NEW i \in Env, Delete(i) PROVE SnapshotIsCurrent' /\ StaleSnapshotsExplained'
  BY <1>8 DEF Delete, Outlives, LastUser, Forget
<1>9. CASE ListEnvironments
  BY <1>9 DEF ListEnvironments, At
<1>10. CASE Download
  <2>1. (nodeFile' = file /\ file # None) \/ nodeFile' = Other
    BY <1>10, Downloaded
  <2>. QED  BY <1>10, <2>1 DEF Download
<1>11. CASE DownloadFails
  BY <1>11 DEF DownloadFails, At, Exit
<1>12. CASE Mark
  BY <1>12 DEF Mark, At
<1>13. CASE Ready
  BY <1>13 DEF Ready, At, Exit
<1>14. CASE Clean
  BY <1>14 DEF Clean, At, Idle
<1>15. ASSUME NEW x \in Listed, Check(x) PROVE SnapshotIsCurrent' /\ StaleSnapshotsExplained'
  BY <1>15 DEF Check, At
<1>16. CASE ListPools
  BY <1>16 DEF ListPools, At
<1>17. CASE EnsureSnapshot
  BY <1>17 DEF EnsureSnapshot, At, Take
<1>18. CASE Sweep
  BY <1>18 DEF Sweep, At, Idle
<1>19. CASE Restart
  BY <1>19 DEF Restart, Idle
<1>20. CASE Crash
  BY <1>20 DEF Crash, Exit
<1>21. ASSUME NEW i \in Env, Begin(i) PROVE SnapshotIsCurrent' /\ StaleSnapshotsExplained'
  BY <1>21 DEF Begin
<1>22. CASE Ensure
  BY <1>22 DEF Ensure, StartAt
<1>23. CASE Publish
  <2>1. snapshot' = start.of /\ outlived' = (start.of # file) /\ UNCHANGED <<file, nodeFile>>
    BY <1>23 DEF Publish, Take
  <2>2. SUFFICES ASSUME start.of = file
                 PROVE  file # None /\ (nodeFile \in Content => nodeFile = file)
    BY <1>23, <2>1 DEF Publish, StartAt, DistTypeOK
  <2>3. start.of # None /\ start.of \in Content /\ file = builds /\ builds \in Nat
    BY <1>23, <2>2 DEF Publish, StartAt, DistTypeOK
  <2>4. nodeFile \in Content => start.of <= nodeFile /\ nodeFile <= builds /\ nodeFile \in Nat
    BY <1>23, <2>3 DEF Publish, StartAt
  <2>. QED  BY <2>2, <2>3, <2>4
<1>24. CASE Load
  BY <1>24 DEF Load
<1>25. CASE UNCHANGED vars
  BY <1>25 DEF vars
<1>. QED
  BY <1>1, <1>2, <1>3, <1>4, <1>5, <1>6, <1>7, <1>8, <1>9, <1>10, <1>11, <1>12,
     <1>13, <1>14, <1>15, <1>16, <1>17, <1>18, <1>19, <1>20, <1>21, <1>22, <1>23, <1>24, <1>25
  DEF DistNext, RequestStep, EnvStep, AgentStep, StartStep

-----------------------------------------------------------------------------
(* The theorems. *)

\* The initial state satisfies the invariant.
LEMMA InitInv == DistInit => DInv
<1>. SUFFICES ASSUME DistInit PROVE DInv
  OBVIOUS
<1>1. DistTypeOK
  <2>1. builds \in 0..MaxBuilds /\ records \in 0..MaxRecords
    BY DistributionAssumption DEF DistInit
  <2>. QED  BY <2>1, IdleIsAgent DEF DistInit, DistTypeOK
<1>2. EmptyListsAreSafe /\ FileAtSteps
  BY DEF DistInit, EmptyListsAreSafe, FileAtSteps, Idle
<1>3. PlacedForKnown /\ StartsKeepTheirFiles
  BY DEF DistInit, PlacedForKnown, StartsKeepTheirFiles, Needed
<1>. QED  BY <1>1, <1>2, <1>3, ContentIsNat
          DEF DistInit, DInv, PlacedForKnown, Needed, MarkerIsTrue, ContentsGrow,
              SnapshotIsCurrent, StartsKeepTheirFiles, StaleSnapshotsExplained

\* The invariant is inductive.
LEMMA StepInv == DInv /\ [DistNext]_vars => DInv'
<1>. SUFFICES ASSUME DInv, [DistNext]_vars PROVE DInv'
  OBVIOUS
<1>1. DistTypeOK'
  BY StepTypes DEF DInv
<1>. QED  BY <1>1, PlacedKept, FilesKept, MarkersKept, ContentsKept, SnapshotsKept DEF DInv

\* The invariant holds throughout.
LEMMA Invariance == DistSpec => []DInv
  BY InitInv, StepInv, PTL DEF DistSpec

\* Files, lists and starts keep their types.
THEOREM DistTypeCorrect == DistSpec => []DistTypeOK
<1>1. DInv => DistTypeOK
  BY DEF DInv
<1>. QED  BY <1>1, Invariance, PTL

\* sync_environments never takes away what an execution may be placed on or a start for an
\* environment with the artifact is about to use, unless update_environment had left the
\* node as prepared for an artifact of no environment and it has not reported it since.
THEOREM StartsFindTheirFiles == DistSpec => []StartsKeepTheirFiles
<1>1. DInv => StartsKeepTheirFiles
  BY DEF DInv
<1>. QED  BY <1>1, Invariance, PTL

\* A snapshot is of other packages than the drive beside it only where it has outlived
\* them at the controller, or where another artifact was downloaded as the drive.
THEOREM StaleSnapshotsOutlived == DistSpec => []StaleSnapshotsExplained
<1>1. DInv => StaleSnapshotsExplained
  BY DEF DInv
<1>. QED  BY <1>1, Invariance, PTL

\* The agent reports what it has, but for a file whose marker was not written.
THEOREM AgentsReportTheTruth == DistSpec => ReportsAreTrue
<1>1. DInv /\ [DistNext]_vars
        => [At("ready") /\ At("check")' => nodeFile = agent.cur.sha \/ torn]_vars
  BY DEF DInv, FileAtSteps, At
<1>. QED  BY <1>1, Invariance, PTL DEF DistSpec, ReportsAreTrue

\* The agent ends by itself only over an environment that was deleted or updated since it
\* was listed, or that records something else than the controller's file.
THEOREM AgentsEndForAReason == DistSpec => ExitsExplained
<1>. DEFINE Explained ==
       agent # None /\ agent' = None /\ ~ killed' =>
         agent.cur # None /\ (envs[agent.cur.env] # agent.cur.sha \/ Broken(agent.cur.env))
<1>1. ASSUME DInv, [DistNext]_vars PROVE [Explained]_vars
  <2>. SUFFICES ASSUME agent # None, agent' = None, ~ killed'
                PROVE  Explained
    OBVIOUS
  <2>. USE <1>1 DEF DInv
  <2>1. CASE Download
    <3>1. agent.cur \in Listed /\ agent.cur # None
      BY <2>1, AgentFields DEF Download, At, FileAtSteps
    <3>2. envs[agent.cur.env] \in Content => file # agent.cur.sha
      <4>1. SUFFICES ASSUME envs[agent.cur.env] \in Content, file = agent.cur.sha
                     PROVE  FALSE
        OBVIOUS
      <4>2. agent' = [agent EXCEPT !.at = "mark"]
        BY <2>1, <4>1 DEF Download
      <4>3. agent' = [at |-> "mark", todo |-> agent.todo, cur |-> agent.cur,
                      wanted |-> agent.wanted]
        BY <4>2, AgentFields
      <4>4. agent' \in Agent
        BY <4>3, AgentFields, AgentMade
      <4>. QED  BY <4>4, DistributionAssumption
    <3>. QED  BY <3>1, <3>2, ListedFields DEF Broken
  <2>2. CASE DownloadFails
    <3>1. agent.cur \in Listed /\ agent.cur # None
      BY <2>2, AgentFields DEF DownloadFails, At, FileAtSteps
    <3>2. envs[agent.cur.env] \notin Content \/ file = None
      BY <2>2 DEF DownloadFails
    <3>. QED  BY <3>1, <3>2, ListedFields, ContentIsNat DEF Broken
  <2>3. CASE Ready
    <3>1. agent.cur \in Listed /\ agent.cur # None /\ Known = {}
      BY <2>3, AgentFields, AgentGoesOn DEF Ready, At, FileAtSteps
    <3>. QED  BY <3>1, ListedFields DEF Known
  <2>4. ~ Crash
    BY DEF Crash
  <2>5. ~ \E r \in Req : RequestStep(r)
    BY DEF RequestStep, Prepare, Keep, Build, Abandon, HashFile, Commit, Record
  <2>6. ~ \E i \in Env : EnvStep(i) \/ Begin(i)
    BY DEF EnvStep, Leave, Record, Delete, Begin
  <2>7. ~ StartStep
    BY DEF StartStep, Ensure, Publish, Load
  <2>8. ~ UNCHANGED vars
    BY DEF vars
  <2>. QED
    BY <2>1, <2>2, <2>3, <2>4, <2>5, <2>6, <2>7, <2>8, AgentGoesOn DEF DistNext, AgentStep
<1>. QED  BY <1>1, Invariance, PTL DEF DistSpec, ExitsExplained

\* Environments break only by a second build, or by a checksum that create_environment or
\* update_environment held while the file was replaced or deleted.
THEOREM EnvironmentsBreakForAReason == DistSpec => BrokenExplained
<1>. DEFINE Reason(i) ==
       \/ \E r \in Req : Requested(r, "commit") /\ Target[r] = i /\ requests[r].sha # file
       \/ builds' # builds /\ file # None
<1>1. ASSUME DInv, [DistNext]_vars
      PROVE  [\A i \in Env : Broken(i)' /\ ~ Broken(i) => Reason(i)]_vars
  <2>. SUFFICES ASSUME NEW i \in Env, Broken(i)', ~ Broken(i) PROVE Reason(i)
    OBVIOUS
  <2>. USE <1>1 DEF DInv
  <2>1. file' # file \/ envs' # envs
    BY DEF Broken
  <2>2. ~ AgentStep /\ ~ Crash
    BY <2>1 DEF AgentStep, ListEnvironments, Download, DownloadFails, Mark, Ready, Clean,
                Check, ListPools, EnsureSnapshot, Sweep, Restart, Crash, controller, cluster
  <2>3. ~ StartStep /\ ~ \E j \in Env : Begin(j)
    BY <2>1 DEF StartStep, Ensure, Publish, Load, Begin, controller, cluster
  <2>4. ~ UNCHANGED vars
    BY <2>1 DEF vars, controller, cluster
  <2>5. ASSUME NEW r \in Req, Build(r) PROVE Reason(i)
    <3>1. file # None /\ builds' = builds + 1 /\ builds \in Nat
      BY <2>5, ContentIsNat DEF Build, Broken, cluster, DistTypeOK
    <3>. QED  BY <3>1
  <2>6. ASSUME NEW r \in Req, Commit(r) PROVE Reason(i)
    <3>1. Target[r] = i /\ requests[r].sha # file
      BY <2>6, DistributionAssumption DEF Commit, Record, Broken, DistTypeOK
    <3>. QED  BY <2>6, <3>1 DEF Commit
  <2>7. ASSUME NEW r \in Req PROVE ~ (Prepare(r) \/ Keep(r) \/ Abandon(r) \/ HashFile(r))
    BY <2>1 DEF Prepare, Keep, Abandon, HashFile, cluster
  <2>8. ASSUME NEW j \in Env PROVE ~ Leave(j)
    BY ContentIsNat DEF Leave, Record, Broken, DistTypeOK
  <2>9. ASSUME NEW j \in Env PROVE ~ Delete(j)
    BY ContentIsNat DEF Delete, Broken, LastUser, Known, DistTypeOK
  <2>. QED
    BY <2>2, <2>3, <2>4, <2>5, <2>6, <2>7, <2>8, <2>9 DEF DistNext, RequestStep, EnvStep
<1>. QED  BY <1>1, Invariance, PTL DEF DistSpec, BrokenExplained
=============================================================================
