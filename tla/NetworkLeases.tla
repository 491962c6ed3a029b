---------------------------- MODULE NetworkLeases ----------------------------
(***************************************************************************)
(* Network of platform/src/node.rs: the /30 subnets and the host ports an  *)
(* agent leases to its MicroVMs, and the DNAT rules that lead the ports to *)
(* them.  allocate takes what it needs under a mutex and sets it up on the *)
(* host afterwards; release does the opposite in the opposite order.       *)
(* start_vm holds a lease while it goes through steps that may each fail,  *)
(* and some of them let go of the lease without releasing it.              *)
(***************************************************************************)
EXTENDS Integers, Sequences, FiniteSets

CONSTANTS
  Vm,          \* bound: the MicroVMs being started, alive or being destroyed
  LastSubnet,  \* subnets are numbered from 0
  FirstPort, LastPort,  \* PORT_START and PORT_END
  FixedPort,   \* the host ports pools name themselves
  Proto,
  PoolPorts,   \* the port lists of pools
  Others,      \* what other programs on the host may have bound at a time
  None

Subnet == 0..LastSubnet
DynamicPort == FirstPort..LastPort
Port == DynamicPort \cup FixedPort
Key == Proto \X Port
PortSpec == [proto : Proto, host : FixedPort \cup {None}]

ASSUME LeaseAssumption ==
  /\ LastSubnet \in Nat
  /\ FirstPort \in Nat /\ LastPort \in Nat /\ FirstPort <= LastPort
  /\ FixedPort \subseteq Nat /\ None \notin FixedPort
  /\ PoolPorts \subseteq Seq(PortSpec)
  /\ Others \subseteq SUBSET Key

VARIABLES
  nextSubnet, nextPort, subnets, ports,  \* NetworkState
  leases,   \* the NetworkLease of a MicroVM
  rules     \* the SCRAPERACK chain: a port, and the subnet it leads to

leaseVars == <<nextSubnet, nextPort, subnets, ports, leases, rules>>

\* "setup": not set up yet; "up": to be used, or used; "ending": in release;
\* "clean": the commands of release are through.
Lease == [subnet : Subnet, ports : SUBSET Key, at : {"setup", "up", "ending", "clean"}]

ASSUME LeaseNone == None \notin Lease

LeaseTypeOK ==
  /\ nextSubnet \in Subnet
  /\ nextPort \in DynamicPort
  /\ subnets \subseteq Subnet
  /\ ports \subseteq Key
  /\ leases \in [Vm -> Lease \cup {None}]
  /\ rules \subseteq Key \X Subnet

\* Network::prepare: the taps of an earlier agent are removed, the chain is flushed.
LeaseInit ==
  /\ nextSubnet = 0
  /\ nextPort = FirstPort
  /\ subnets = {}
  /\ ports = {}
  /\ leases = [v \in Vm |-> None]
  /\ rules = {}

-----------------------------------------------------------------------------
(* allocate, up to the release of the mutex. *)

Lowest(S) == CHOOSE x \in S : \A y \in S : x <= y

\* The first element of S the search comes to, from a cursor upwards and around.
Following(cursor, S) ==
  LET ahead == {x \in S : x >= cursor}
  IN  IF ahead = {} THEN Lowest(S) ELSE Lowest(ahead)

\* Where the next search starts.
Past(x, first, last) == IF x = last THEN first ELSE x + 1

FreeSubnets == Subnet \ subnets

\* Taking ports: those taken for this MicroVM so far, and the cursor.
Grab == [ok : BOOLEAN, mine : SUBSET Key, next : DynamicPort]

Taking(g, key, next) == [ok |-> TRUE, mine |-> g.mine \cup {key}, next |-> next]

Failing(g) == [g EXCEPT !.ok = FALSE]

\* Mutant: a port the pool names is not looked up.
GrabFixed_Unchecked(g, spec, unavailable) == Taking(g, <<spec.proto, spec.host>>, g.next)

\* The port the pool asks for.
GrabFixed(g, spec, unavailable) ==
  LET key == <<spec.proto, spec.host>>
  IN  IF key \in ports \cup g.mine \cup unavailable THEN Failing(g)
      ELSE Taking(g, key, g.next)

\* The next dynamic one.
GrabDynamic(g, spec, unavailable) ==
  LET free == {p \in DynamicPort : <<spec.proto, p>> \notin ports \cup g.mine \cup unavailable}
      port == Following(g.next, free)
  IN  IF free = {} THEN Failing(g)
      ELSE Taking(g, <<spec.proto, port>>, Past(port, FirstPort, LastPort))

GrabOne(g, spec, unavailable) ==
  IF ~ g.ok THEN g
  ELSE IF spec.host # None THEN GrabFixed(g, spec, unavailable)
  ELSE GrabDynamic(g, spec, unavailable)

\* Grabs(specs, unavailable)[k]: after the first k of the list.
Grabs(specs, unavailable) ==
  LET g[k \in 0..Len(specs)] ==
        IF k = 0 THEN [ok |-> TRUE, mine |-> {}, next |-> nextPort]
        ELSE GrabOne(g[k-1], specs[k], unavailable)
  IN  g

\* Ports are taken at once, the subnet last: an allocation that fails in between
\* leaves the ports it has taken behind.
Allocate(v, specs) ==
  /\ leases[v] = None
  /\ FreeSubnets # {}
  /\ \E unavailable \in Others :
       LET subnet == Following(nextSubnet, FreeSubnets)
           grab == Grabs(specs, unavailable)[Len(specs)]
       IN  /\ nextSubnet' = Past(subnet, 0, LastSubnet)
           /\ nextPort' = grab.next
           /\ ports' = ports \cup grab.mine
           /\ IF grab.ok
              THEN /\ subnets' = subnets \cup {subnet}
                   /\ leases' = [leases EXCEPT ![v] =
                        [subnet |-> subnet, ports |-> grab.mine, at |-> "setup"]]
              ELSE UNCHANGED <<subnets, leases>>
  /\ UNCHANGED rules

-----------------------------------------------------------------------------
(* The rest of a lease's life. *)

Is(v, at) == leases[v] # None /\ leases[v].at = at

Becomes(v, at) == leases' = [leases EXCEPT ![v].at = at]

OwnRules(v) == leases[v].ports \X {leases[v].subnet}

\* setup, with a rule for each port.
Attach(v) ==
  /\ Is(v, "setup")
  /\ rules' = rules \cup OwnRules(v)
  /\ Becomes(v, "up")
  /\ UNCHANGED <<nextSubnet, nextPort, subnets, ports>>

\* It fails with some of the rules in place.
AttachFails(v) ==
  /\ Is(v, "setup")
  /\ \E some \in SUBSET OwnRules(v) : rules' = rules \cup some
  /\ Becomes(v, "ending")
  /\ UNCHANGED <<nextSubnet, nextPort, subnets, ports>>

\* start_vm returns before it has started Firecracker: the lease is dropped, and
\* nothing is released.
Lose(v) ==
  /\ Is(v, "up")
  /\ leases' = [leases EXCEPT ![v] = None]
  /\ UNCHANGED <<nextSubnet, nextPort, subnets, ports, rules>>

\* start_vm fails later on, or destroy_vm.
End(v) ==
  /\ Is(v, "up")
  /\ Becomes(v, "ending")
  /\ UNCHANGED <<nextSubnet, nextPort, subnets, ports, rules>>

\* The commands of release.  Nobody looks whether they succeed.
Detach(v) ==
  /\ Is(v, "ending")
  /\ \E left \in SUBSET (rules \cap OwnRules(v)) : rules' = (rules \ OwnRules(v)) \cup left
  /\ Becomes(v, "clean")
  /\ UNCHANGED <<nextSubnet, nextPort, subnets, ports>>

\* Mutants: what was leased is free before the rules are gone; a port is forgotten.
Free_First(v) ==
  /\ Is(v, "ending")
  /\ subnets' = subnets \ {leases[v].subnet}
  /\ ports' = ports \ leases[v].ports
  /\ leases' = [leases EXCEPT ![v] = None]
  /\ UNCHANGED <<nextSubnet, nextPort, rules>>

Free_SubnetOnly(v) ==
  /\ Is(v, "clean")
  /\ subnets' = subnets \ {leases[v].subnet}
  /\ leases' = [leases EXCEPT ![v] = None]
  /\ UNCHANGED <<nextSubnet, nextPort, ports, rules>>

\* The end of release, under the mutex.
Free(v) ==
  /\ Is(v, "clean")
  /\ subnets' = subnets \ {leases[v].subnet}
  /\ ports' = ports \ leases[v].ports
  /\ leases' = [leases EXCEPT ![v] = None]
  /\ UNCHANGED <<nextSubnet, nextPort, rules>>

\* The agent is stopped, its MicroVMs with it, and starts again.
RestartAgent ==
  /\ nextSubnet' = 0
  /\ nextPort' = FirstPort
  /\ subnets' = {}
  /\ ports' = {}
  /\ leases' = [v \in Vm |-> None]
  /\ rules' = {}

LeaseNext ==
  \/ \E v \in Vm, specs \in PoolPorts : Allocate(v, specs)
  \/ \E v \in Vm : Attach(v) \/ AttachFails(v) \/ Lose(v) \/ End(v) \/ Detach(v) \/ Free(v)
  \/ RestartAgent

LeaseSpec == LeaseInit /\ [][LeaseNext]_leaseVars
-----------------------------------------------------------------------------
(* Safety. *)

Leased(v) == leases[v] # None

\* No two MicroVMs have a subnet or a port in common, whatever was leaked before and
\* however starts and ends overlap: the state only says what is taken, and a lease
\* is set up and torn down on the host with the mutex free.
Exclusive ==
  \A v, w \in Vm : v # w /\ Leased(v) /\ Leased(w) =>
    /\ leases[v].subnet # leases[w].subnet
    /\ leases[v].ports \cap leases[w].ports = {}

\* Rules that lead the port of a MicroVM in use to another address.
Misrouting ==
  {r \in rules : \E v \in Vm : /\ Is(v, "up")
                               /\ r[1] \in leases[v].ports
                               /\ r[2] # leases[v].subnet}

\* Rules of ports that are free.
FreeRules == {r \in rules : r[1] \notin ports}

\* Traffic to a MicroVM's port ends up at another address only by a rule that stayed
\* when its deletion, which was tried before the port was free, failed: a lost lease
\* or a failed start never leads to that.
MisroutesExplained ==
  [][/\ \A r \in Misrouting' \ Misrouting :
          \E v \in Vm : Is(v, "setup") /\ r[1] \in leases[v].ports /\ r \in rules
     /\ \A r \in FreeRules' \ FreeRules :
          \E v \in Vm : Is(v, "clean") /\ r[1] \in leases[v].ports]_leaseVars

\* What is taken and nobody has.
Leaked ==
  [subnets |-> subnets \ {leases[v].subnet : v \in {w \in Vm : Leased(w)}},
   ports   |-> ports \ UNION {leases[v].ports : v \in {w \in Vm : Leased(w)}}]

\* Subnets and ports are lost to the agent only where start_vm gives up before it has
\* started Firecracker, and ports where a later port of the list is not to be had.
LeaksExplained ==
  [][/\ \/ Leaked'.subnets \subseteq Leaked.subnets
        \/ \E v \in Vm : Is(v, "up") /\ leases'[v] = None
     /\ \/ Leaked'.ports \subseteq Leaked.ports
        \/ \E v \in Vm : Is(v, "up") /\ leases'[v] = None
        \/ leases' = leases]_leaseVars
=============================================================================
