------------------------- MODULE NetworkLeasesProofs -------------------------
(***************************************************************************)
(* For any numbers of MicroVMs, subnets and ports, and any port lists:     *)
(* leases are exclusive, and what is leaked or misrouted is explained.     *)
(***************************************************************************)
EXTENDS NetworkLeases, TLAPS, WellFoundedInduction

-----------------------------------------------------------------------------
(* Numbers. *)

\* A non-empty set of naturals has a least element.
LEMMA LeastElement ==
  ASSUME NEW S, S \subseteq Nat, S # {}
  PROVE  \E m \in S : \A n \in S : m <= n
<1>1. \E m \in S : \A n \in S : ~ (<<n, m>> \in OpToRel(<, Nat))
  BY NatLessThanWellFounded, WFMin
<1>2. ASSUME NEW m \in S, NEW n \in S, n < m PROVE <<n, m>> \in OpToRel(<, Nat)
  BY <1>2 DEF OpToRel
<1>3. \E m \in S : \A n \in S : ~ (n < m)
  BY <1>1, <1>2, Zenon
<1> QED BY <1>3

\* The least element is one.
LEMMA LowestInSet ==
  ASSUME NEW S, S \subseteq Nat, S # {}
  PROVE  Lowest(S) \in S
<1>1. \E m \in S : \A n \in S : m <= n
  BY LeastElement
<1> QED BY <1>1 DEF Lowest

\* The search finds one of those there are.
LEMMA FollowingInSet ==
  ASSUME NEW cursor, NEW S, S \subseteq Nat, S # {}
  PROVE  Following(cursor, S) \in S
<1> DEFINE ahead == {x \in S : x >= cursor}
<1>1. CASE ahead = {}
  BY <1>1, LowestInSet DEF Following
<1>2. CASE ahead # {}
  <2>1. Lowest(ahead) \in ahead
    BY <1>2, LowestInSet
  <2> QED BY <1>2, <2>1 DEF Following
<1> QED BY <1>1, <1>2

\* A cursor stays in its range.
LEMMA PastInRange ==
  ASSUME NEW first \in Nat, NEW last \in Nat, first <= last, NEW x \in first..last
  PROVE  Past(x, first, last) \in first..last
BY DEF Past

-----------------------------------------------------------------------------
(* Taking ports. *)

\* Ports taken so far, none of which was taken before.
FreshGrab(g) == g \in Grab /\ g.mine \cap ports = {}

\* A free port more.
LEMMA TakingFresh ==
  ASSUME NEW g, FreshGrab(g), NEW key \in Key, key \notin ports, NEW next \in DynamicPort
  PROVE  FreshGrab(Taking(g, key, next))
BY DEF FreshGrab, Taking, Grab

\* One entry of the list takes a free port, or none.
LEMMA GrabOneFresh ==
  ASSUME NEW g, FreshGrab(g), NEW spec \in PortSpec, NEW unavailable
  PROVE  FreshGrab(GrabOne(g, spec, unavailable))
<1>1. FreshGrab(Failing(g))
  BY DEF FreshGrab, Failing, Grab
<1>2. CASE g.ok /\ spec.host # None
  <2> DEFINE key == <<spec.proto, spec.host>>
  <2>1. key \in Key
    BY <1>2 DEF PortSpec, Key, Port
  <2>2. g.next \in DynamicPort
    BY DEF FreshGrab, Grab
  <2>3. key \notin ports => FreshGrab(Taking(g, key, g.next))
    BY <2>1, <2>2, TakingFresh
  <2> QED BY <1>1, <1>2, <2>3 DEF GrabOne, GrabFixed
<1>3. CASE g.ok /\ spec.host = None
  <2> DEFINE free == {p \in DynamicPort : <<spec.proto, p>> \notin ports \cup g.mine \cup unavailable}
             port == Following(g.next, free)
  <2>1. CASE free = {}
    BY <1>1, <1>3, <2>1 DEF GrabOne, GrabDynamic
  <2>2. CASE free # {}
    <3>1. free \subseteq Nat
      BY LeaseAssumption DEF DynamicPort
    <3>2. port \in free
      BY <3>1, <2>2, FollowingInSet
    <3>3. <<spec.proto, port>> \in Key /\ <<spec.proto, port>> \notin ports
      BY <3>2 DEF Key, Port, PortSpec
    <3>4. Past(port, FirstPort, LastPort) \in DynamicPort
      BY <3>2, PastInRange, LeaseAssumption DEF DynamicPort
    <3>5. FreshGrab(Taking(g, <<spec.proto, port>>, Past(port, FirstPort, LastPort)))
      BY <3>3, <3>4, TakingFresh
    <3> QED BY <1>3, <2>2, <3>5 DEF GrabOne, GrabDynamic
  <2> QED BY <2>1, <2>2
<1>4. CASE ~ g.ok
  BY <1>4 DEF GrabOne
<1> QED BY <1>2, <1>3, <1>4

\* What Grabs is for the first n of a list, as a function it is.
NoGrab == [ok |-> TRUE, mine |-> {}, next |-> nextPort]

IsGrabs(specs, unavailable, n, g) ==
  g = [k \in 0..n |-> IF k = 0 THEN NoGrab ELSE GrabOne(g[k-1], specs[k], unavailable)]

\* There is such a function, by the least n for which there were none.
LEMMA GrabsExist ==
  ASSUME NEW specs, NEW unavailable, NEW n \in Nat
  PROVE  \E g : IsGrabs(specs, unavailable, n, g)
<1> DEFINE Bad == {j \in Nat : ~ \E g : IsGrabs(specs, unavailable, j, g)}
<1> SUFFICES ASSUME Bad # {} PROVE FALSE
  OBVIOUS
<1>1. PICK m \in Bad : \A j \in Bad : m <= j
  <2>1. Bad \subseteq Nat
    OBVIOUS
  <2> HIDE DEF Bad
  <2> QED BY <2>1, LeastElement
<1>2. m # 0
  <2>1. IsGrabs(specs, unavailable, 0, [k \in 0..0 |-> NoGrab])
    BY DEF IsGrabs
  <2> QED BY <2>1, <1>1
<1>3. PICK g : IsGrabs(specs, unavailable, m-1, g)
  BY <1>1, <1>2
<1> DEFINE t == [k \in 0..m |-> IF k = m THEN GrabOne(g[m-1], specs[m], unavailable) ELSE g[k]]
<1>4. IsGrabs(specs, unavailable, m, t)
  <2>1. ASSUME NEW k \in 0..m
        PROVE  t[k] = IF k = 0 THEN NoGrab ELSE GrabOne(t[k-1], specs[k], unavailable)
    BY <1>2, <1>3 DEF IsGrabs
  <2> QED BY <2>1 DEF IsGrabs
<1> QED BY <1>4, <1>1

\* So Grabs is it.
LEMMA GrabsDef ==
  ASSUME NEW specs \in Seq(PortSpec), NEW unavailable
  PROVE  /\ Grabs(specs, unavailable)[0] = NoGrab
         /\ \A k \in 1..Len(specs) :
              Grabs(specs, unavailable)[k]
                = GrabOne(Grabs(specs, unavailable)[k-1], specs[k], unavailable)
<1> DEFINE G == Grabs(specs, unavailable)
<1>1. G = CHOOSE g : g = [k \in 0..Len(specs) |->
                            IF k = 0 THEN NoGrab ELSE GrabOne(g[k-1], specs[k], unavailable)]
  BY DEF Grabs, NoGrab
<1>2. \E g : g = [k \in 0..Len(specs) |->
                    IF k = 0 THEN NoGrab ELSE GrabOne(g[k-1], specs[k], unavailable)]
  <2>1. \E g : IsGrabs(specs, unavailable, Len(specs), g)
    BY GrabsExist
  <2> QED BY <2>1 DEF IsGrabs
<1>3. G = [k \in 0..Len(specs) |->
             IF k = 0 THEN NoGrab ELSE GrabOne(G[k-1], specs[k], unavailable)]
  BY <1>1, <1>2
<1> HIDE DEF G
<1>4. /\ G[0] = NoGrab
      /\ \A k \in 1..Len(specs) : G[k] = GrabOne(G[k-1], specs[k], unavailable)
  BY <1>3
<1> QED BY <1>4 DEF G

\* However far it gets, an allocation takes only ports that were free.
LEMMA GrabsFresh ==
  ASSUME NEW specs \in Seq(PortSpec), NEW unavailable, nextPort \in DynamicPort
  PROVE  FreshGrab(Grabs(specs, unavailable)[Len(specs)])
<1> DEFINE G == Grabs(specs, unavailable)
           Bad == {k \in 0..Len(specs) : ~ FreshGrab(G[k])}
<1>0. Len(specs) \in Nat
  OBVIOUS
<1> SUFFICES ASSUME Bad # {} PROVE FALSE
  BY <1>0
<1>1. PICK m \in Bad : \A k \in Bad : m <= k
  <2>1. Bad \subseteq Nat
    OBVIOUS
  <2> HIDE DEF Bad
  <2> QED BY <2>1, LeastElement
<1>2. FreshGrab(G[0])
  <2>1. FreshGrab(NoGrab)
    BY DEF FreshGrab, NoGrab, Grab
  <2>2. G[0] = NoGrab
    BY GrabsDef
  <2> QED BY <2>1, <2>2
<1>3. m - 1 \in 0..Len(specs) /\ m - 1 \notin Bad /\ m \in 1..Len(specs)
  BY <1>0, <1>1, <1>2
<1>4. G[m] = GrabOne(G[m-1], specs[m], unavailable)
  BY <1>3, GrabsDef
<1>5. FreshGrab(G[m-1]) /\ specs[m] \in PortSpec
  BY <1>3
<1> HIDE DEF G
<1>6. FreshGrab(G[m])
  BY <1>4, <1>5, GrabOneFresh
<1> QED BY <1>1, <1>6

-----------------------------------------------------------------------------
(* The invariant. *)

\* What is leased is taken.
Held ==
  \A v \in Vm : Leased(v) => /\ leases[v].subnet \in subnets
                             /\ leases[v].ports \subseteq ports

LInv == LeaseTypeOK /\ Held /\ Exclusive

\* What an allocation does.
LEMMA AllocateStep ==
  ASSUME LeaseTypeOK, NEW v \in Vm, NEW specs \in PoolPorts, Allocate(v, specs)
  PROVE  \E s \in Subnet \ subnets, mine \in SUBSET Key :
           /\ mine \cap ports = {}
           /\ nextSubnet' \in Subnet /\ nextPort' \in DynamicPort
           /\ ports' = ports \cup mine
           /\ \/ /\ subnets' = subnets \cup {s}
                 /\ leases' = [leases EXCEPT ![v] =
                                 [subnet |-> s, ports |-> mine, at |-> "setup"]]
              \/ UNCHANGED <<subnets, leases>>
<1> DEFINE s == Following(nextSubnet, FreeSubnets)
<1>1. PICK unavailable \in Others :
        LET grab == Grabs(specs, unavailable)[Len(specs)]
        IN  /\ nextSubnet' = Past(s, 0, LastSubnet)
            /\ nextPort' = grab.next
            /\ ports' = ports \cup grab.mine
            /\ IF grab.ok
               THEN /\ subnets' = subnets \cup {s}
                    /\ leases' = [leases EXCEPT ![v] =
                         [subnet |-> s, ports |-> grab.mine, at |-> "setup"]]
               ELSE UNCHANGED <<subnets, leases>>
  BY DEF Allocate
<1> DEFINE grab == Grabs(specs, unavailable)[Len(specs)]
<1>2. s \in Subnet \ subnets
  <2>1. FreeSubnets # {} /\ FreeSubnets \subseteq Nat
    BY LeaseAssumption DEF Allocate, FreeSubnets, Subnet
  <2> QED BY <2>1, FollowingInSet DEF FreeSubnets
<1>3. Past(s, 0, LastSubnet) \in Subnet
  BY <1>2, PastInRange, LeaseAssumption DEF Subnet
<1>4. FreshGrab(grab)
  <2>1. specs \in Seq(PortSpec) /\ nextPort \in DynamicPort
    BY LeaseAssumption DEF LeaseTypeOK
  <2> QED BY <2>1, GrabsFresh
<1> HIDE DEF s, grab
<1>5. grab.mine \in SUBSET Key /\ grab.mine \cap ports = {} /\ grab.next \in DynamicPort
  BY <1>4 DEF FreshGrab, Grab
<1>6. /\ nextSubnet' \in Subnet /\ nextPort' \in DynamicPort
      /\ ports' = ports \cup grab.mine
      /\ \/ /\ subnets' = subnets \cup {s}
            /\ leases' = [leases EXCEPT ![v] =
                            [subnet |-> s, ports |-> grab.mine, at |-> "setup"]]
         \/ UNCHANGED <<subnets, leases>>
  BY <1>1, <1>3, <1>5 DEF grab
<1> QED BY <1>2, <1>5, <1>6

\* allocate keeps the invariant.
LEMMA AllocateKeeps ==
  ASSUME LInv, NEW v \in Vm, NEW specs \in PoolPorts, Allocate(v, specs)
  PROVE  LInv'
<1>1. PICK s \in Subnet \ subnets, mine \in SUBSET Key :
           /\ mine \cap ports = {}
           /\ nextSubnet' \in Subnet /\ nextPort' \in DynamicPort
           /\ ports' = ports \cup mine
           /\ \/ /\ subnets' = subnets \cup {s}
                 /\ leases' = [leases EXCEPT ![v] =
                                 [subnet |-> s, ports |-> mine, at |-> "setup"]]
              \/ UNCHANGED <<subnets, leases>>
  BY AllocateStep DEF LInv
<1>0. rules' = rules /\ leases[v] = None
  BY DEF Allocate
<1>2. CASE UNCHANGED <<subnets, leases>>
  BY <1>0, <1>1, <1>2 DEF LInv, LeaseTypeOK, Held, Exclusive, Leased
<1>3. CASE /\ subnets' = subnets \cup {s}
           /\ leases' = [leases EXCEPT ![v] =
                           [subnet |-> s, ports |-> mine, at |-> "setup"]]
  <2> DEFINE new == [subnet |-> s, ports |-> mine, at |-> "setup"]
  <2>1. new \in Lease /\ new.subnet = s /\ new.ports = mine
    BY <1>1 DEF Lease
  <2>2. leases \in [Vm -> Lease \cup {None}]
    BY DEF LInv, LeaseTypeOK
  <2> HIDE DEF new
  <2>3. leases' = [leases EXCEPT ![v] = new]
    BY <1>3 DEF new
  <2>4. leases' \in [Vm -> Lease \cup {None}] /\ leases'[v] = new
        /\ \A w \in Vm : w # v => leases'[w] = leases[w]
    BY <2>1, <2>2, <2>3
  <2>5. LeaseTypeOK'
    BY <1>0, <1>1, <1>3, <2>4 DEF LInv, LeaseTypeOK
  <2>6. Held'
    BY <1>1, <1>3, <2>1, <2>4 DEF LInv, Held, Leased
  <2>7. \A w \in Vm : w # v /\ Leased(w) =>
          s # leases[w].subnet /\ mine \cap leases[w].ports = {}
    BY <1>1 DEF LInv, Held
  <2>8. Exclusive'
    BY <2>1, <2>4, <2>7 DEF LInv, Exclusive, Leased
  <2> QED BY <2>5, <2>6, <2>8 DEF LInv
<1> QED BY <1>1, <1>2, <1>3

\* A step that moves a lease on, and frees nothing.
LEMMA MoveKeeps ==
  ASSUME LInv, NEW v \in Vm, NEW at \in {"setup", "up", "ending", "clean"},
         leases[v] # None, Becomes(v, at), rules' \subseteq Key \X Subnet,
         UNCHANGED <<nextSubnet, nextPort, subnets, ports>>
  PROVE  LInv'
<1> DEFINE new == [leases[v] EXCEPT !.at = at]
<1>1. leases \in [Vm -> Lease \cup {None}] /\ leases[v] \in Lease
  BY DEF LInv, LeaseTypeOK
<1>2. new \in Lease /\ new.subnet = leases[v].subnet /\ new.ports = leases[v].ports
  BY <1>1 DEF Lease
<1>3. leases' = [leases EXCEPT ![v] = new]
  BY DEF Becomes
<1> HIDE DEF new
<1>4. leases' \in [Vm -> Lease \cup {None}] /\ leases'[v] = new
      /\ \A w \in Vm : w # v => leases'[w] = leases[w]
  BY <1>1, <1>2, <1>3
<1>5. new # None
  BY <1>2, LeaseNone
<1>6. LeaseTypeOK'
  BY <1>4 DEF LInv, LeaseTypeOK
<1>7. Held'
  BY <1>2, <1>4 DEF LInv, Held, Leased
<1>8. Exclusive'
  BY <1>2, <1>4 DEF LInv, Exclusive, Leased
<1> QED BY <1>6, <1>7, <1>8 DEF LInv

\* A step that ends a lease, and gives back at most what it held.
LEMMA DropKeeps ==
  ASSUME LInv, NEW v \in Vm, leases[v] # None,
         leases' = [leases EXCEPT ![v] = None],
         subnets' \in {subnets, subnets \ {leases[v].subnet}},
         ports' \in {ports, ports \ leases[v].ports},
         UNCHANGED <<nextSubnet, nextPort, rules>>
  PROVE  LInv'
<1>1. leases' \in [Vm -> Lease \cup {None}] /\ leases'[v] = None
      /\ \A w \in Vm : w # v => leases'[w] = leases[w]
  BY DEF LInv, LeaseTypeOK
<1>2. LeaseTypeOK'
  BY <1>1 DEF LInv, LeaseTypeOK
<1>3. \A w \in Vm : w # v /\ Leased(w) =>
        /\ leases[w].subnet \in subnets \ {leases[v].subnet}
        /\ leases[w].ports \subseteq ports \ leases[v].ports
  BY DEF LInv, Held, Exclusive, Leased
<1>4. Held'
  BY <1>1, <1>3 DEF Held, Leased
<1>5. Exclusive'
  BY <1>1 DEF LInv, Exclusive, Leased
<1> QED BY <1>2, <1>4, <1>5 DEF LInv

\* A MicroVM's rules are rules.
LEMMA OwnRulesType ==
  ASSUME LeaseTypeOK, NEW v \in Vm, leases[v] # None
  PROVE  OwnRules(v) \subseteq Key \X Subnet
<1>1. leases[v] \in Lease
  BY DEF LeaseTypeOK
<1> QED BY <1>1 DEF OwnRules, Lease

\* prepare leaves nothing taken.
LEMMA LInvInit == LeaseInit => LInv
<1> SUFFICES ASSUME LeaseInit PROVE LInv
  OBVIOUS
<1>1. 0 \in Subnet /\ FirstPort \in DynamicPort
  BY LeaseAssumption DEF Subnet, DynamicPort
<1> QED BY <1>1 DEF LeaseInit, LInv, LeaseTypeOK, Held, Exclusive, Leased

\* The invariant is inductive.
LEMMA LInvStep == LInv /\ [LeaseNext]_leaseVars => LInv'
<1> SUFFICES ASSUME LInv, [LeaseNext]_leaseVars PROVE LInv'
  OBVIOUS
<1>0. LeaseTypeOK
  BY DEF LInv
<1>1. ASSUME NEW v \in Vm, NEW specs \in PoolPorts, Allocate(v, specs) PROVE LInv'
  BY <1>1, AllocateKeeps
<1>2. ASSUME NEW v \in Vm, Attach(v) PROVE LInv'
  <2>1. rules' \subseteq Key \X Subnet
    BY <1>0, <1>2, OwnRulesType DEF Attach, Is, LeaseTypeOK
  <2> QED BY <1>2, <2>1, MoveKeeps DEF Attach, Is
<1>3. ASSUME NEW v \in Vm, AttachFails(v) PROVE LInv'
  <2>1. rules' \subseteq Key \X Subnet
    BY <1>0, <1>3, OwnRulesType DEF AttachFails, Is, LeaseTypeOK
  <2> QED BY <1>3, <2>1, MoveKeeps DEF AttachFails, Is
<1>4. ASSUME NEW v \in Vm, Lose(v) PROVE LInv'
  BY <1>4, DropKeeps DEF Lose, Is
<1>5. ASSUME NEW v \in Vm, End(v) PROVE LInv'
  <2>1. rules' \subseteq Key \X Subnet
    BY <1>0, <1>5 DEF End, LeaseTypeOK
  <2> QED BY <1>5, <2>1, MoveKeeps DEF End, Is
<1>6. ASSUME NEW v \in Vm, Detach(v) PROVE LInv'
  <2>1. rules' \subseteq Key \X Subnet
    BY <1>0, <1>6 DEF Detach, LeaseTypeOK
  <2> QED BY <1>6, <2>1, MoveKeeps DEF Detach, Is
<1>7. ASSUME NEW v \in Vm, Free(v) PROVE LInv'
  BY <1>7, DropKeeps DEF Free, Is
<1>8. CASE RestartAgent
  <2>1. 0 \in Subnet /\ FirstPort \in DynamicPort
    BY LeaseAssumption DEF Subnet, DynamicPort
  <2> QED BY <1>8, <2>1 DEF RestartAgent, LInv, LeaseTypeOK, Held, Exclusive, Leased
<1>9. CASE UNCHANGED leaseVars
  BY <1>9 DEF leaseVars, LInv, LeaseTypeOK, Held, Exclusive, Leased
<1> QED BY <1>1, <1>2, <1>3, <1>4, <1>5, <1>6, <1>7, <1>8, <1>9 DEF LeaseNext

\* So it holds.
LEMMA LInvHolds == LeaseSpec => []LInv
BY LInvInit, LInvStep, PTL DEF LeaseSpec

\* The state of the leases is what LeaseTypeOK says.
THEOREM LeaseTypeCorrect == LeaseSpec => []LeaseTypeOK
<1>1. LInv => LeaseTypeOK
  BY DEF LInv
<1> QED BY <1>1, LInvHolds, PTL

\* No two MicroVMs ever have a subnet or a host port in common: what allocate hands
\* out is taken until the end of release, whatever fails in between.
THEOREM LeasesAreExclusive == LeaseSpec => []Exclusive
<1>1. LInv => Exclusive
  BY DEF LInv
<1> QED BY <1>1, LInvHolds, PTL

-----------------------------------------------------------------------------
(* Rules that lead elsewhere. *)

\* A rule comes to misroute only where it was there before the lease was set up.
MisrouteStep ==
  /\ \A r \in Misrouting' \ Misrouting :
          \E v \in Vm : Is(v, "setup") /\ r[1] \in leases[v].ports /\ r \in rules
  /\ \A r \in FreeRules' \ FreeRules :
          \E v \in Vm : Is(v, "clean") /\ r[1] \in leases[v].ports

\* A MicroVM's own rules are for its ports, which are taken, and lead to it.
LEMMA OwnRulesLead ==
  ASSUME LInv, NEW v \in Vm, leases[v] # None, NEW r \in OwnRules(v)
  PROVE  r[1] \in leases[v].ports /\ r[2] = leases[v].subnet /\ r[1] \in ports
BY DEF OwnRules, LInv, Held, Leased

\* A step that sets up no MicroVM and makes no rule.
LEMMA NoNewMisroutes ==
  ASSUME \A w \in Vm : Is(w, "up")' =>
           /\ Is(w, "up")
           /\ leases'[w].ports = leases[w].ports /\ leases'[w].subnet = leases[w].subnet,
         rules' \subseteq rules
  PROVE  \A r \in Misrouting' : r \in Misrouting
BY DEF Misrouting

\* A lease that moves on has what it had, and the others are as they were.
LEMMA BecomesKeeps ==
  ASSUME LeaseTypeOK, NEW v \in Vm, leases[v] # None, NEW at, Becomes(v, at)
  PROVE  /\ leases'[v] # None => leases'[v].at = at
         /\ leases'[v].subnet = leases[v].subnet /\ leases'[v].ports = leases[v].ports
         /\ \A w \in Vm \ {v} : leases'[w] = leases[w]
<1> DEFINE new == [leases[v] EXCEPT !.at = at]
<1>1. leases[v] \in Lease
  BY DEF LeaseTypeOK
<1>2. new.at = at /\ new.subnet = leases[v].subnet /\ new.ports = leases[v].ports
  BY <1>1 DEF Lease
<1>3. leases' = [leases EXCEPT ![v] = new]
  BY DEF Becomes
<1> HIDE DEF new
<1> QED BY <1>2, <1>3 DEF LeaseTypeOK

\* A lease that is not set up yet leads nobody anywhere.
LEMMA AllocateMisroutes ==
  ASSUME LInv, NEW v \in Vm, NEW specs \in PoolPorts, Allocate(v, specs)
  PROVE  MisrouteStep
<1>1. PICK s \in Subnet \ subnets, mine \in SUBSET Key :
           /\ mine \cap ports = {}
           /\ nextSubnet' \in Subnet /\ nextPort' \in DynamicPort
           /\ ports' = ports \cup mine
           /\ \/ /\ subnets' = subnets \cup {s}
                 /\ leases' = [leases EXCEPT ![v] =
                                 [subnet |-> s, ports |-> mine, at |-> "setup"]]
              \/ UNCHANGED <<subnets, leases>>
  BY AllocateStep DEF LInv
<1> DEFINE new == [subnet |-> s, ports |-> mine, at |-> "setup"]
<1>2. leases' = [leases EXCEPT ![v] = new] \/ leases' = leases
  BY <1>1
<1>3. new.at = "setup"
  OBVIOUS
<1> HIDE DEF new
<1>4. \A w \in Vm : Is(w, "up")' => leases'[w] = leases[w]
  BY <1>2, <1>3 DEF Is, LInv, LeaseTypeOK
<1>5. rules' = rules /\ ports \subseteq ports'
  BY <1>1 DEF Allocate
<1>6. \A r \in Misrouting' : r \in Misrouting
  BY <1>4, <1>5, NoNewMisroutes DEF Is
<1>7. \A r \in FreeRules' : r \in FreeRules
  BY <1>5 DEF FreeRules
<1> QED BY <1>6, <1>7 DEF MisrouteStep

\* What each step adds to the misrouting rules.
LEMMA MisroutesStep == LInv /\ [LeaseNext]_leaseVars => MisrouteStep
<1> SUFFICES ASSUME LInv, [LeaseNext]_leaseVars PROVE MisrouteStep
  OBVIOUS
<1>0. LeaseTypeOK
  BY DEF LInv
<1>1. ASSUME NEW v \in Vm, NEW specs \in PoolPorts, Allocate(v, specs) PROVE MisrouteStep
  BY <1>1, AllocateMisroutes
<1>2. ASSUME NEW v \in Vm, Attach(v) \/ AttachFails(v) PROVE MisrouteStep
  <2>1. /\ Is(v, "setup") /\ leases[v] # None /\ ports' = ports
        /\ \A r \in rules' : r \in rules \/ r \in OwnRules(v)
    BY <1>2 DEF Attach, AttachFails, Is
  <2>2. /\ leases'[v].subnet = leases[v].subnet /\ leases'[v].ports = leases[v].ports
        /\ \A w \in Vm \ {v} : leases'[w] = leases[w]
    BY <1>0, <1>2, <2>1, BecomesKeeps DEF Attach, AttachFails
  <2>3. ASSUME NEW r \in Misrouting' \ Misrouting
        PROVE  r[1] \in leases[v].ports /\ r \in rules
    <3>1. PICK w \in Vm : Is(w, "up")' /\ r[1] \in leases'[w].ports /\ r[2] # leases'[w].subnet
      BY <2>3 DEF Misrouting
    <3>2. r \in rules'
      BY <2>3 DEF Misrouting
    <3>3. CASE w = v
      BY <2>1, <2>2, <3>1, <3>2, <3>3, OwnRulesLead
    <3>4. CASE w # v
      <4>1. Is(w, "up") /\ r[1] \in leases[w].ports /\ r[2] # leases[w].subnet
        BY <2>2, <3>1, <3>4 DEF Is
      <4>2. r \notin rules
        BY <2>3, <4>1 DEF Misrouting
      <4>3. r[1] \in leases[v].ports
        BY <2>1, <3>2, <4>2, OwnRulesLead
      <4> QED BY <2>1, <3>4, <4>1, <4>3 DEF LInv, Exclusive, Leased, Is
    <3> QED BY <3>3, <3>4
  <2>4. \A r \in FreeRules' : r \in FreeRules
    BY <2>1, OwnRulesLead DEF FreeRules
  <2> QED BY <2>1, <2>3, <2>4 DEF MisrouteStep
<1>3. ASSUME NEW v \in Vm, Lose(v) PROVE MisrouteStep
  <2>1. /\ leases'[v] = None /\ UNCHANGED <<rules, ports>>
        /\ \A w \in Vm \ {v} : leases'[w] = leases[w]
    BY <1>0, <1>3 DEF Lose, LeaseTypeOK
  <2>2. \A r \in Misrouting' : r \in Misrouting
    BY <2>1, NoNewMisroutes DEF Is
  <2>3. \A r \in FreeRules' : r \in FreeRules
    BY <2>1 DEF FreeRules
  <2> QED BY <2>2, <2>3 DEF MisrouteStep
<1>4. ASSUME NEW v \in Vm, End(v) \/ Detach(v) PROVE MisrouteStep
  <2>1. leases[v] # None /\ ports' = ports /\ rules' \subseteq rules
    BY <1>4 DEF End, Detach, Is
  <2>2. ~ Is(v, "up")' /\ \A w \in Vm \ {v} : leases'[w] = leases[w]
    BY <1>0, <1>4, <2>1, BecomesKeeps DEF End, Detach, Is
  <2>3. \A r \in Misrouting' : r \in Misrouting
    BY <2>1, <2>2, NoNewMisroutes DEF Is
  <2>4. \A r \in FreeRules' : r \in FreeRules
    BY <2>1 DEF FreeRules
  <2> QED BY <2>3, <2>4 DEF MisrouteStep
<1>5. ASSUME NEW v \in Vm, Free(v) PROVE MisrouteStep
  <2>1. /\ leases'[v] = None /\ UNCHANGED rules /\ ports' = ports \ leases[v].ports
        /\ \A w \in Vm \ {v} : leases'[w] = leases[w]
    BY <1>0, <1>5 DEF Free, LeaseTypeOK
  <2>2. \A r \in Misrouting' : r \in Misrouting
    BY <2>1, NoNewMisroutes DEF Is
  <2>3. \A r \in FreeRules' \ FreeRules : r[1] \in leases[v].ports
    BY <2>1 DEF FreeRules
  <2> QED BY <1>5, <2>2, <2>3 DEF MisrouteStep, Free
<1>6. CASE RestartAgent
  BY <1>6 DEF RestartAgent, MisrouteStep, Misrouting, FreeRules
<1>7. CASE UNCHANGED leaseVars
  BY <1>7 DEF leaseVars, MisrouteStep, Misrouting, FreeRules, Is
<1> QED BY <1>1, <1>2, <1>3, <1>4, <1>5, <1>6, <1>7 DEF LeaseNext

\* setup and release: a host port leads to another address only by a rule whose deletion
\* was tried and failed before the port was free for others.
THEOREM MisroutesAreExplained == LeaseSpec => MisroutesExplained
<1>1. LInv /\ [LeaseNext]_leaseVars => MisrouteStep
  BY MisroutesStep
<1>2. (LeaseSpec => [][MisrouteStep]_leaseVars) => (LeaseSpec => MisroutesExplained)
  BY DEF MisrouteStep, MisroutesExplained
<1> HIDE DEF MisrouteStep, MisroutesExplained
<1> QED BY <1>1, <1>2, LInvHolds, PTL DEF LeaseSpec

-----------------------------------------------------------------------------
(* Leaks. *)

\* What start_vm lets go of, or allocate leaves behind.
LeakStep ==
  /\ \/ Leaked'.subnets \subseteq Leaked.subnets
     \/ \E v \in Vm : Is(v, "up") /\ leases'[v] = None
  /\ \/ Leaked'.ports \subseteq Leaked.ports
     \/ \E v \in Vm : Is(v, "up") /\ leases'[v] = None
     \/ leases' = leases

\* Nothing leaks where what is taken is had by somebody afterwards, or was leaked.
LEMMA NothingLeaks ==
  ASSUME \A s \in subnets' :
           \/ s \in subnets /\ \A w \in Vm : Leased(w) => s # leases[w].subnet
           \/ \E w \in Vm : Leased(w)' /\ s = leases'[w].subnet,
         \A k \in ports' :
           \/ k \in ports /\ \A w \in Vm : Leased(w) => k \notin leases[w].ports
           \/ \E w \in Vm : Leased(w)' /\ k \in leases'[w].ports
  PROVE  LeakStep
<1>1. /\ Leaked'.subnets = {s \in subnets' : \A w \in Vm : Leased(w)' => s # leases'[w].subnet}
      /\ Leaked'.ports = {k \in ports' : \A w \in Vm : Leased(w)' => k \notin leases'[w].ports}
  BY DEF Leaked
<1>2. /\ Leaked.subnets = {s \in subnets : \A w \in Vm : Leased(w) => s # leases[w].subnet}
      /\ Leaked.ports = {k \in ports : \A w \in Vm : Leased(w) => k \notin leases[w].ports}
  BY DEF Leaked
<1> QED BY <1>1, <1>2 DEF LeakStep

\* Nothing leaks where nothing is taken, and who had something has it, or gives it back.
LEMMA LeasesKept ==
  ASSUME subnets' \subseteq subnets, ports' \subseteq ports,
         \A w \in Vm : Leased(w) =>
           \/ /\ Leased(w)'
              /\ leases'[w].subnet = leases[w].subnet /\ leases'[w].ports = leases[w].ports
           \/ leases[w].subnet \notin subnets' /\ leases[w].ports \cap ports' = {}
  PROVE  LeakStep
<1>1. ASSUME NEW s \in subnets'
      PROVE  \/ s \in subnets /\ \A w \in Vm : Leased(w) => s # leases[w].subnet
             \/ \E w \in Vm : Leased(w)' /\ s = leases'[w].subnet
  OBVIOUS
<1>2. ASSUME NEW k \in ports'
      PROVE  \/ k \in ports /\ \A w \in Vm : Leased(w) => k \notin leases[w].ports
             \/ \E w \in Vm : Leased(w)' /\ k \in leases'[w].ports
  OBVIOUS
<1> QED BY <1>1, <1>2, NothingLeaks

\* What allocate takes is the lease's, unless it fails.
LEMMA AllocateLeaks ==
  ASSUME LInv, NEW v \in Vm, NEW specs \in PoolPorts, Allocate(v, specs)
  PROVE  LeakStep
<1>1. PICK s \in Subnet \ subnets, mine \in SUBSET Key :
           /\ mine \cap ports = {}
           /\ nextSubnet' \in Subnet /\ nextPort' \in DynamicPort
           /\ ports' = ports \cup mine
           /\ \/ /\ subnets' = subnets \cup {s}
                 /\ leases' = [leases EXCEPT ![v] =
                                 [subnet |-> s, ports |-> mine, at |-> "setup"]]
              \/ UNCHANGED <<subnets, leases>>
  BY AllocateStep DEF LInv
<1>2. CASE UNCHANGED <<subnets, leases>>
  <2>1. Leaked'.subnets = Leaked.subnets
    BY <1>2 DEF Leaked, Leased
  <2> QED BY <1>2, <2>1 DEF LeakStep
<1>3. CASE /\ subnets' = subnets \cup {s}
           /\ leases' = [leases EXCEPT ![v] =
                           [subnet |-> s, ports |-> mine, at |-> "setup"]]
  <2> DEFINE new == [subnet |-> s, ports |-> mine, at |-> "setup"]
  <2>1. new \in Lease /\ new.subnet = s /\ new.ports = mine
    BY <1>1 DEF Lease
  <2>2. leases' = [leases EXCEPT ![v] = new]
    BY <1>3
  <2> HIDE DEF new
  <2>3. leases'[v] = new /\ Leased(v)' /\ \A w \in Vm \ {v} : leases'[w] = leases[w]
    BY <2>1, <2>2, LeaseNone DEF LInv, LeaseTypeOK, Leased
  <2>4. ~ Leased(v)
    BY DEF Allocate, Leased
  <2>5. ASSUME NEW x \in subnets'
        PROVE  \/ x \in subnets /\ \A w \in Vm : Leased(w) => x # leases[w].subnet
               \/ \E w \in Vm : Leased(w)' /\ x = leases'[w].subnet
    BY <1>3, <2>1, <2>3, <2>4 DEF Leased
  <2>6. ASSUME NEW k \in ports'
        PROVE  \/ k \in ports /\ \A w \in Vm : Leased(w) => k \notin leases[w].ports
               \/ \E w \in Vm : Leased(w)' /\ k \in leases'[w].ports
    BY <1>1, <2>1, <2>3, <2>4 DEF Leased
  <2> QED BY <2>5, <2>6, NothingLeaks
<1> QED BY <1>1, <1>2, <1>3

\* What each step loses.
LEMMA LeaksStep == LInv /\ [LeaseNext]_leaseVars => LeakStep
<1> SUFFICES ASSUME LInv, [LeaseNext]_leaseVars PROVE LeakStep
  OBVIOUS
<1>0. LeaseTypeOK
  BY DEF LInv
<1>1. ASSUME NEW v \in Vm, NEW specs \in PoolPorts, Allocate(v, specs) PROVE LeakStep
  BY <1>1, AllocateLeaks
<1>2. ASSUME NEW v \in Vm, NEW at \in {"setup", "up", "ending", "clean"},
             leases[v] # None, Becomes(v, at), UNCHANGED <<subnets, ports>>
      PROVE  LeakStep
  <2>1. leases'[v].subnet = leases[v].subnet /\ leases'[v].ports = leases[v].ports
        /\ \A w \in Vm \ {v} : leases'[w] = leases[w]
    BY <1>0, <1>2, BecomesKeeps
  <2>2. leases'[v] # None
    <3>1. [leases[v] EXCEPT !.at = at] \in Lease
      BY <1>0, <1>2 DEF LeaseTypeOK, Lease
    <3> QED BY <1>0, <1>2, <3>1, LeaseNone DEF Becomes, LeaseTypeOK
  <2> QED BY <1>2, <2>1, <2>2, LeasesKept DEF Leased
<1>3. ASSUME NEW v \in Vm, Attach(v) \/ AttachFails(v) \/ End(v) \/ Detach(v) PROVE LeakStep
  BY <1>2, <1>3 DEF Attach, AttachFails, End, Detach, Is
<1>4. ASSUME NEW v \in Vm, Lose(v) PROVE LeakStep
  <2>1. Is(v, "up") /\ leases'[v] = None
    BY <1>0, <1>4 DEF Lose, LeaseTypeOK
  <2> QED BY <2>1 DEF LeakStep
<1>5. ASSUME NEW v \in Vm, Free(v) PROVE LeakStep
  <2>1. /\ subnets' = subnets \ {leases[v].subnet} /\ ports' = ports \ leases[v].ports
        /\ \A w \in Vm \ {v} : leases'[w] = leases[w]
    BY <1>0, <1>5 DEF Free, LeaseTypeOK
  <2> QED BY <2>1, LeasesKept DEF Leased
<1>6. CASE RestartAgent
  BY <1>6, NothingLeaks DEF RestartAgent
<1>7. CASE UNCHANGED leaseVars
  BY <1>7, LeasesKept DEF leaseVars, Leased
<1> QED BY <1>1, <1>3, <1>4, <1>5, <1>6, <1>7 DEF LeaseNext

\* allocate and start_vm: a subnet or a port is lost to the agent only where start_vm
\* gives up before it has started Firecracker, and a port also where a later one of its
\* list is not to be had.
THEOREM LeaksAreExplained == LeaseSpec => LeaksExplained
<1>1. LInv /\ [LeaseNext]_leaseVars => LeakStep
  BY LeaksStep
<1>2. (LeaseSpec => [][LeakStep]_leaseVars) => (LeaseSpec => LeaksExplained)
  BY DEF LeakStep, LeaksExplained
<1> HIDE DEF LeakStep, LeaksExplained
<1> QED BY <1>1, <1>2, LInvHolds, PTL DEF LeaseSpec

=============================================================================
