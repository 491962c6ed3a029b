-------------------------- MODULE ControllerProofs --------------------------
(***************************************************************************)
(* What holds of the controller for every number of nodes, executions,     *)
(* pools, images, environments and requests.                               *)
(*                                                                         *)
(* The invariant is Sound: the type, and how executions, pools, nodes and  *)
(* the runs at nodes hang together.  It is a predicate of a cluster, the   *)
(* requests and the runs, since most handlers change the cluster and then  *)
(* call schedule_queued: the first part has a lemma per kind of change,    *)
(* the second is SoundSweep.                                               *)
(*                                                                         *)
(* The same split serves what follows: the queue (Blocked, InOrder), the   *)
(* books of the nodes (Accounts, Sizes), the instance limit (Limited), and *)
(* what goes by the name of a pool, an image or an artifact (SameNames).   *)
(*                                                                         *)
(* First come the lemmas about the operators of module Scheduler.  What    *)
(* they say of schedule_queued is by induction over its loop, by smallest  *)
(* counterexample: the library's induction rules take an operator as a     *)
(* parameter, the well-foundedness of Nat does not.                        *)
(***************************************************************************)
EXTENDS Controller, TLAPS, FiniteSetTheorems, WellFoundedInduction

-----------------------------------------------------------------------------
(* Numbers. *)

\* A non-empty set of naturals has a least element.
LEMMA LeastElement ==
  ASSUME NEW S, S \subseteq Nat, S # {}
  PROVE  \E m \in S : \A n \in S : m <= n
<1>1. \E m \in S : \A n \in S : ~ (<<n, m>> \in OpToRel(<, Nat))
  BY NatLessThanWellFounded, WFMin
<1>2. ASSUME NEW m \in S, NEW n \in S, n < m PROVE <<n, m>> \in OpToRel(<, Nat)
  BY <1>2 DEF OpToRel
<1>3. \E m \in S : \A n \in S : ~ (n < m)
  BY <1>1, <1>2, Zenon
<1> QED BY <1>3

\* Sets of nodes, executions and pools are finite.
LEMMA FiniteParts ==
  /\ IsFiniteSet(Node) /\ IsFiniteSet(Exec) /\ IsFiniteSet(Pool)
  /\ \A S : S \subseteq Node \/ S \subseteq Exec \/ S \subseteq Pool
            => IsFiniteSet(S) /\ Cardinality(S) \in Nat
<1>1. /\ IsFiniteSet(Node) /\ IsFiniteSet(Exec) /\ IsFiniteSet(Pool)
  BY SchedulerAssumption, FS_Interval DEF Node, Exec, Pool
<1>2. ASSUME NEW S, S \subseteq Node \/ S \subseteq Exec \/ S \subseteq Pool
      PROVE  IsFiniteSet(S) /\ Cardinality(S) \in Nat
  <2>1. IsFiniteSet(S)
    BY <1>1, <1>2, FS_Subset
  <2> QED BY <2>1, FS_CardinalityType
<1> QED BY <1>1, <1>2

\* The elements of S below x.
Under(S, x) == {y \in S : y < x}

\* A finite set of numbers has an element with no element below it, and one
\* with one more element below it than any that is not the largest.
LEMMA FirstPosition ==
  ASSUME NEW S \in SUBSET Nat, S # {}
  PROVE  \E x \in S : Cardinality(Under(S, x)) = 0
<1>1. PICK x \in S : \A y \in S : x <= y
  BY LeastElement
<1>2. Under(S, x) = {}
  <2>1. ASSUME NEW y \in S, y < x PROVE FALSE
    <3>1. x \in Nat /\ y \in Nat /\ x <= y
      BY <1>1
    <3> QED BY <2>1, <3>1
  <2> QED BY <2>1 DEF Under
<1> QED BY <1>2, FS_EmptySet

LEMMA NextPosition ==
  ASSUME NEW S \in SUBSET Nat, IsFiniteSet(S), NEW x \in S,
         Cardinality(Under(S, x)) + 1 # Cardinality(S)
  PROVE  \E z \in S : Cardinality(Under(S, z)) = Cardinality(Under(S, x)) + 1
<1> DEFINE upto == Under(S, x) \cup {x}
           above == {y \in S : y > x}
<1>1. IsFiniteSet(Under(S, x)) /\ x \notin Under(S, x)
  <2>1. Under(S, x) \subseteq S
    BY DEF Under
  <2>2. x \notin Under(S, x)
    BY DEF Under
  <2> QED BY <2>1, <2>2, FS_Subset
<1>2. Cardinality(upto) = Cardinality(Under(S, x)) + 1
  BY <1>1, FS_AddElement
<1>3. above # {}
  <2> SUFFICES ASSUME above = {} PROVE FALSE
    OBVIOUS
  <2>1. ASSUME NEW y \in S PROVE y \in upto
    <3>1. y \in Nat /\ x \in Nat /\ ~ (y > x)
      OBVIOUS
    <3> QED BY <3>1 DEF Under
  <2>2. S = upto
    BY <2>1 DEF Under
  <2> QED BY <2>2, <1>2
<1>4. PICK z \in above : \A y \in above : z <= y
  <2>1. above \subseteq Nat
    OBVIOUS
  <2> HIDE DEF above
  <2> QED BY <2>1, <1>3, LeastElement
<1>5. Under(S, z) = upto
  <2>1. ASSUME NEW y \in Under(S, z) PROVE y \in upto
    BY <2>1, <1>4 DEF Under
  <2>2. ASSUME NEW y \in upto PROVE y \in Under(S, z)
    BY <2>2, <1>4 DEF Under
  <2> QED BY <2>1, <2>2
<1> QED BY <1>2, <1>4, <1>5

\* A finite set of numbers has an element at every position.
LEMMA NthInSet ==
  ASSUME NEW S \in SUBSET Nat, IsFiniteSet(S), NEW k \in Nat, k < Cardinality(S)
  PROVE  Nth(S, k) \in S
<1> DEFINE Bad == {j \in Nat : j < Cardinality(S)
                               /\ ~ \E x \in S : Cardinality(Under(S, x)) = j}
<1>1. Cardinality(S) \in Nat
  BY FS_CardinalityType
<1>2. Bad = {}
  <2> SUFFICES ASSUME Bad # {} PROVE FALSE
    OBVIOUS
  <2>1. PICK j \in Bad : \A i \in Bad : j <= i
    <3>1. Bad \subseteq Nat
      OBVIOUS
    <3> HIDE DEF Bad
    <3> QED BY <3>1, LeastElement
  <2>2. S # {}
    BY <2>1, FS_EmptySet
  <2>3. j # 0
    BY <2>1, <2>2, FirstPosition
  <2>4. j - 1 \in Nat /\ j - 1 < Cardinality(S) /\ j - 1 \notin Bad
    BY <1>1, <2>1, <2>3
  <2>5. PICK x \in S : Cardinality(Under(S, x)) = j - 1
    BY <2>4
  <2>6. Cardinality(Under(S, x)) + 1 = j
    BY <2>5, <2>1
  <2>7. \E z \in S : Cardinality(Under(S, z)) = j
    <3>1. j # Cardinality(S)
      BY <2>1
    <3> HIDE DEF Bad
    <3> QED BY <2>6, <3>1, NextPosition
  <2> QED BY <2>7, <2>1
<1>3. \E x \in S : Cardinality(Under(S, x)) = k
  BY <1>2
<1>4. Nth(S, k) = CHOOSE x \in S : Cardinality(Under(S, x)) = k
  BY DEF Nth, Under
<1> QED BY <1>3, <1>4

-----------------------------------------------------------------------------
(* Sums. *)

\* What PartialSums is for the first n elements, as a function it is.
IsSums(f, n, s) == s = [k \in 0..n |-> IF k = 0 THEN 0 ELSE s[k-1] + f[k]]

LEMMA SumsExist ==
  ASSUME NEW f, NEW n \in Nat
  PROVE  \E s : IsSums(f, n, s)
<1> DEFINE Bad == {j \in Nat : ~ \E s : IsSums(f, j, s)}
<1> SUFFICES ASSUME Bad # {} PROVE FALSE
  OBVIOUS
<1>1. PICK m \in Bad : \A j \in Bad : m <= j
  <2>1. Bad \subseteq Nat
    OBVIOUS
  <2> HIDE DEF Bad
  <2> QED BY <2>1, LeastElement
<1>2. m # 0
  <2>1. IsSums(f, 0, [k \in 0..0 |-> 0])
    BY DEF IsSums
  <2> QED BY <2>1, <1>1
<1>3. PICK s : IsSums(f, m-1, s)
  BY <1>1, <1>2
<1> DEFINE t == [k \in 0..m |-> IF k = m THEN s[m-1] + f[m] ELSE s[k]]
<1>4. IsSums(f, m, t)
  <2>1. ASSUME NEW k \in 0..m
        PROVE  t[k] = IF k = 0 THEN 0 ELSE t[k-1] + f[k]
    BY <1>2, <1>3 DEF IsSums
  <2> QED BY <2>1 DEF IsSums
<1> QED BY <1>4, <1>1

LEMMA PartialSumsDef ==
  ASSUME NEW f, NEW n \in Nat
  PROVE  /\ PartialSums(f, n)[0] = 0
         /\ \A k \in 1..n : PartialSums(f, n)[k] = PartialSums(f, n)[k-1] + f[k]
<1>1. PartialSums(f, n) = CHOOSE s : s = [k \in 0..n |-> IF k = 0 THEN 0 ELSE s[k-1] + f[k]]
  BY DEF PartialSums
<1>2. \E s : s = [k \in 0..n |-> IF k = 0 THEN 0 ELSE s[k-1] + f[k]]
  <2>1. \E s : IsSums(f, n, s)
    BY SumsExist
  <2> QED BY <2>1 DEF IsSums
<1>3. PartialSums(f, n)
        = [k \in 0..n |-> IF k = 0 THEN 0 ELSE PartialSums(f, n)[k-1] + f[k]]
  BY <1>1, <1>2
<1> QED BY <1>3

\* Sums of naturals are naturals.
LEMMA PartialSumsNat ==
  ASSUME NEW n \in Nat, NEW f \in [1..n -> Nat], NEW k \in 0..n
  PROVE  PartialSums(f, n)[k] \in Nat
<1> DEFINE Bad == {j \in 0..n : PartialSums(f, n)[j] \notin Nat}
<1> SUFFICES ASSUME Bad # {} PROVE FALSE
  OBVIOUS
<1>1. PICK m \in Bad : \A j \in Bad : m <= j
  <2>1. Bad \subseteq Nat
    OBVIOUS
  <2> HIDE DEF Bad
  <2> QED BY <2>1, LeastElement
<1>2. m # 0
  BY <1>1, PartialSumsDef
<1>3. m - 1 \in 0..n /\ m - 1 \notin Bad /\ m \in 1..n
  BY <1>1, <1>2
<1>4. PartialSums(f, n)[m] = PartialSums(f, n)[m-1] + f[m]
  BY <1>3, PartialSumsDef
<1> QED BY <1>1, <1>3, <1>4

LEMMA TotalNat ==
  ASSUME NEW n \in Nat, NEW f \in [1..n -> Nat]
  PROVE  Total(f, n) \in Nat
<1>1. n \in 0..n
  OBVIOUS
<1> QED BY <1>1, PartialSumsNat DEF Total

\* The sum of entrywise sums.
LEMMA TotalPlus ==
  ASSUME NEW n \in Nat, NEW f \in [1..n -> Nat], NEW g \in [1..n -> Nat],
         NEW h \in [1..n -> Nat], \A k \in 1..n : h[k] = f[k] + g[k]
  PROVE  Total(h, n) = Total(f, n) + Total(g, n)
<1> DEFINE F == PartialSums(f, n)
           G == PartialSums(g, n)
           H == PartialSums(h, n)
           Bad == {k \in 0..n : H[k] # F[k] + G[k]}
<1>1. /\ F[0] = 0 /\ \A k \in 1..n : F[k] = F[k-1] + f[k]
      /\ G[0] = 0 /\ \A k \in 1..n : G[k] = G[k-1] + g[k]
      /\ H[0] = 0 /\ \A k \in 1..n : H[k] = H[k-1] + h[k]
  BY PartialSumsDef
<1>2. \A k \in 0..n : F[k] \in Nat /\ G[k] \in Nat /\ H[k] \in Nat
  BY PartialSumsNat
<1>3. Total(h, n) = H[n] /\ Total(f, n) = F[n] /\ Total(g, n) = G[n]
  BY DEF Total
<1> HIDE DEF F, G, H
<1>4. Bad = {}
  <2> SUFFICES ASSUME Bad # {} PROVE FALSE
    OBVIOUS
  <2>1. PICK m \in Bad : \A k \in Bad : m <= k
    <3>1. Bad \subseteq Nat
      OBVIOUS
    <3> HIDE DEF Bad
    <3> QED BY <3>1, LeastElement
  <2>2. m # 0
    BY <1>1, <2>1
  <2>3. m - 1 \in 0..n /\ m - 1 \notin Bad /\ m \in 1..n
    BY <2>1, <2>2
  <2>4. H[m-1] = F[m-1] + G[m-1]
    BY <2>3
  <2>5. /\ H[m] = H[m-1] + h[m] /\ F[m] = F[m-1] + f[m] /\ G[m] = G[m-1] + g[m]
        /\ F[m-1] \in Nat /\ G[m-1] \in Nat /\ f[m] \in Nat /\ g[m] \in Nat
        /\ h[m] = f[m] + g[m]
    BY <1>1, <1>2, <2>3
  <2>6. PICK x \in Nat, y \in Nat, u \in Nat, v \in Nat :
               x = F[m-1] /\ y = G[m-1] /\ u = f[m] /\ v = g[m]
    BY ONLY <2>5
  <2>7. H[m] = (x + y) + (u + v) /\ F[m] = x + u /\ G[m] = y + v
    BY ONLY <2>4, <2>5, <2>6
  <2>8. (x + y) + (u + v) = (x + u) + (y + v)
    OBVIOUS
  <2>9. H[m] = F[m] + G[m]
    BY ONLY <2>7, <2>8
  <2> QED BY <2>1, <2>9
<1>5. n \in 0..n
  OBVIOUS
<1>6. H[n] = F[n] + G[n]
  BY <1>4, <1>5
<1> QED BY <1>3, <1>6

\* Two sums whose terms differ at j only.
LEMMA TotalChanged ==
  ASSUME NEW n \in Nat, NEW f \in [1..n -> Nat], NEW g \in [1..n -> Nat],
         NEW j \in 1..n, \A k \in 1..n : k # j => g[k] = f[k]
  PROVE  Total(g, n) + f[j] = Total(f, n) + g[j]
<1> DEFINE F == PartialSums(f, n)
           G == PartialSums(g, n)
           Bad == {k \in 0..n : IF k < j THEN G[k] # F[k] ELSE G[k] + f[j] # F[k] + g[j]}
<1>1. /\ F[0] = 0 /\ \A k \in 1..n : F[k] = F[k-1] + f[k]
      /\ G[0] = 0 /\ \A k \in 1..n : G[k] = G[k-1] + g[k]
  BY PartialSumsDef
<1>2. \A k \in 0..n : F[k] \in Nat /\ G[k] \in Nat
  BY PartialSumsNat
<1>3. Total(f, n) = F[n] /\ Total(g, n) = G[n]
  BY DEF Total
<1> HIDE DEF F, G
<1>4. Bad = {}
  <2> SUFFICES ASSUME Bad # {} PROVE FALSE
    OBVIOUS
  <2>1. PICK m \in Bad : \A k \in Bad : m <= k
    <3>1. Bad \subseteq Nat
      OBVIOUS
    <3> HIDE DEF Bad
    <3> QED BY <3>1, LeastElement
  <2>2. m # 0
    BY <1>1, <2>1
  <2>3. m - 1 \in 0..n /\ m - 1 \notin Bad /\ m \in 1..n
    BY <2>1, <2>2
  <2>4. /\ F[m] = F[m-1] + f[m] /\ G[m] = G[m-1] + g[m]
        /\ F[m-1] \in Nat /\ G[m-1] \in Nat /\ f[m] \in Nat /\ g[m] \in Nat
        /\ f[j] \in Nat /\ g[j] \in Nat
    BY <1>1, <1>2, <2>3
  <2>5. IF m - 1 < j THEN G[m-1] = F[m-1] ELSE G[m-1] + f[j] = F[m-1] + g[j]
    BY <2>3
  <2>6. CASE m < j
    BY <2>1, <2>3, <2>4, <2>5, <2>6
  <2>7. CASE m = j
    BY <2>1, <2>3, <2>4, <2>5, <2>7
  <2>8. CASE m > j
    <3>1. ~ (m - 1 < j) /\ ~ (m < j) /\ m # j /\ m \in 1..n
      BY <2>3, <2>8
    <3>2. G[m-1] + f[j] = F[m-1] + g[j]
      BY <2>5, <3>1
    <3>3. g[m] = f[m]
      BY <3>1
    <3>4. PICK x \in Nat, y \in Nat, u \in Nat, v \in Nat, w \in Nat :
                 /\ x = G[m-1] /\ y = F[m-1] /\ u = f[j] /\ v = g[j] /\ w = f[m]
      BY ONLY <2>4
    <3>5. G[m] = x + w /\ F[m] = y + w /\ x + u = y + v
      BY ONLY <2>4, <3>2, <3>3, <3>4
    <3>6. (x + w) + u = (y + w) + v
      BY <3>5
    <3>7. G[m] + f[j] = F[m] + g[j]
      BY ONLY <3>4, <3>5, <3>6
    <3> QED BY <2>1, <3>1, <3>7
  <2> QED BY <2>3, <2>6, <2>7, <2>8
<1>5. n \in 0..n /\ ~ (n < j)
  OBVIOUS
<1>6. G[n] + f[j] = F[n] + g[j]
  BY <1>4, <1>5
<1> QED BY <1>3, <1>6

\* Each term is at most the sum, a sum of zeros is zero, and sums are monotonic.
LEMMA TotalEntry ==
  ASSUME NEW n \in Nat, NEW f \in [1..n -> Nat], NEW j \in 1..n
  PROVE  f[j] <= Total(f, n)
<1> DEFINE g == [f EXCEPT ![j] = 0]
<1>1. g \in [1..n -> Nat] /\ g[j] = 0 /\ \A k \in 1..n : k # j => g[k] = f[k]
  OBVIOUS
<1> HIDE DEF g
<1>2. Total(g, n) + f[j] = Total(f, n) + g[j]
  BY <1>1, TotalChanged
<1>3. Total(g, n) \in Nat /\ Total(f, n) \in Nat
  BY <1>1, TotalNat
<1> QED BY <1>1, <1>2, <1>3

LEMMA TotalZero ==
  ASSUME NEW n \in Nat, NEW f \in [1..n -> Nat], \A k \in 1..n : f[k] = 0
  PROVE  Total(f, n) = 0
<1>1. Total(f, n) = Total(f, n) + Total(f, n)
  BY TotalPlus
<1>2. Total(f, n) \in Nat
  BY TotalNat
<1> QED BY <1>1, <1>2

LEMMA TotalMonotonic ==
  ASSUME NEW n \in Nat, NEW f \in [1..n -> Nat], NEW g \in [1..n -> Nat],
         \A k \in 1..n : f[k] <= g[k]
  PROVE  Total(f, n) <= Total(g, n)
<1> DEFINE h == [k \in 1..n |-> g[k] - f[k]]
<1>1. h \in [1..n -> Nat] /\ \A k \in 1..n : g[k] = f[k] + h[k]
  OBVIOUS
<1> HIDE DEF h
<1>2. Total(g, n) = Total(f, n) + Total(h, n)
  BY <1>1, TotalPlus
<1>3. Total(f, n) \in Nat /\ Total(h, n) \in Nat
  BY <1>1, TotalNat
<1> QED BY <1>2, <1>3

-----------------------------------------------------------------------------
(* The sweep of schedule_queued. *)

\* One turn of its loop.
TurnOf(c, k) == IF IsQueued(c, k) THEN Schedule(c, k) ELSE c

IsSweep(c, n, s) == s = [k \in 0..n |-> IF k = 0 THEN c ELSE TurnOf(s[k-1], k)]

LEMMA SweepsExist ==
  ASSUME NEW c, NEW n \in Nat
  PROVE  \E s : IsSweep(c, n, s)
<1> DEFINE Bad == {j \in Nat : ~ \E s : IsSweep(c, j, s)}
<1> SUFFICES ASSUME Bad # {} PROVE FALSE
  OBVIOUS
<1>1. PICK m \in Bad : \A j \in Bad : m <= j
  <2>1. Bad \subseteq Nat
    OBVIOUS
  <2> HIDE DEF Bad
  <2> QED BY <2>1, LeastElement
<1>2. m # 0
  <2>1. IsSweep(c, 0, [k \in 0..0 |-> c])
    BY DEF IsSweep
  <2> QED BY <2>1, <1>1
<1>3. PICK s : IsSweep(c, m-1, s)
  BY <1>1, <1>2
<1> DEFINE t == [k \in 0..m |-> IF k = m THEN TurnOf(s[m-1], m) ELSE s[k]]
<1>4. IsSweep(c, m, t)
  <2>1. ASSUME NEW k \in 0..m
        PROVE  t[k] = IF k = 0 THEN c ELSE TurnOf(t[k-1], k)
    BY <1>2, <1>3 DEF IsSweep
  <2> QED BY <2>1 DEF IsSweep
<1> QED BY <1>4, <1>1

\* The sweep gives each execution its turn, oldest first.
LEMMA SweepDef ==
  ASSUME NEW c
  PROVE  /\ Sweep(c)[0] = c
         /\ \A k \in Exec : Sweep(c)[k] = TurnOf(Sweep(c)[k-1], k)
<1>1. Sweep(c) = CHOOSE s : s = [k \in 0..MaxExec |-> IF k = 0 THEN c ELSE TurnOf(s[k-1], k)]
  BY DEF Sweep, TurnOf
<1>2. \E s : s = [k \in 0..MaxExec |-> IF k = 0 THEN c ELSE TurnOf(s[k-1], k)]
  <2>1. \E s : IsSweep(c, MaxExec, s)
    BY SweepsExist, SchedulerAssumption
  <2> QED BY <2>1 DEF IsSweep
<1>3. Sweep(c) = [k \in 0..MaxExec |-> IF k = 0 THEN c ELSE TurnOf(Sweep(c)[k-1], k)]
  BY <1>1, <1>2
<1> QED BY <1>3, SchedulerAssumption DEF Exec

-----------------------------------------------------------------------------
(* Placing an execution. *)

\* What schedule and schedule_queued may do to a cluster: nothing but the
\* resources of nodes and the placement of executions that were queued.
Placed(c, d) ==
  /\ d.images = c.images /\ d.pools = c.pools /\ d.envs = c.envs
  /\ \A n \in Node : d.nodes[n] = None <=> c.nodes[n] = None
  /\ \A e \in Exec :
       \/ d.execs[e] = c.execs[e]
       \/ /\ IsQueued(c, e)
          /\ d.execs[e] # None
          /\ d.execs[e].pool = c.execs[e].pool
          /\ d.execs[e].env = c.execs[e].env
          /\ d.execs[e].status = "assigned"
          /\ d.execs[e].node \in Node
          /\ c.nodes[d.execs[e].node] # None

\* The parts of a cluster have the types they should.
LEMMA ClusterParts ==
  ASSUME NEW c \in Cluster
  PROVE  /\ \A n \in Node : c.nodes[n] # None => c.nodes[n] \in NodeRec
         /\ \A p \in Pool : c.pools[p] # None => c.pools[p] \in PoolRec
         /\ \A i \in Env : c.envs[i] # None => c.envs[i] \in EnvRec
         /\ \A e \in Exec : c.execs[e] # None => c.execs[e] \in ExecRec
         /\ c.rr \in Nat
BY DEF Cluster

LEMMA TakeInstanceType ==
  ASSUME NEW node \in NodeRec, NEW p \in Pool, NEW size \in Nat
  PROVE  TakeInstance(node, p, size) \in NodeRec
BY DEF TakeInstance, NodeRec

LEMMA PlaceLemma ==
  ASSUME NEW c \in Cluster, NEW e \in Exec, NEW n \in Node, IsQueued(c, e),
         c.pools[c.execs[e].pool] # None, c.nodes[n] # None
  PROVE  Place(c, e, n) \in Cluster /\ Placed(c, Place(c, e, n))
<1> DEFINE p == c.execs[e].pool
           node == TakeInstance(c.nodes[n], p, c.pools[p].cfg.size)
           exec == [c.execs[e] EXCEPT !.node = n, !.status = "assigned"]
           d == Place(c, e, n)
<1>1. c.execs[e] \in ExecRec /\ p \in Pool
  BY ClusterParts DEF IsQueued, ExecRec
<1>2. c.pools[p] \in PoolRec /\ c.pools[p].cfg.size \in Nat
  BY <1>1, ClusterParts DEF PoolRec, Config
<1>3. node \in NodeRec
  BY <1>1, <1>2, ClusterParts, TakeInstanceType
<1>4. exec \in ExecRec
  BY <1>1 DEF ExecRec
<1>5. d = [c EXCEPT !.rr = (c.rr + 1) % RRModulus,
                    !.nodes = [c.nodes EXCEPT ![n] = node],
                    !.execs = [c.execs EXCEPT ![e] = exec]]
  BY DEF Place, Cluster
<1>6. (c.rr + 1) % RRModulus \in Nat
  BY ClusterParts, SchedulerAssumption
<1> HIDE DEF node, exec, d
<1>7. d \in Cluster
  BY <1>3, <1>4, <1>5, <1>6 DEF Cluster
<1>8. /\ d.images = c.images /\ d.pools = c.pools /\ d.envs = c.envs
      /\ d.nodes = [c.nodes EXCEPT ![n] = node]
      /\ d.execs = [c.execs EXCEPT ![e] = exec]
  BY <1>5 DEF Cluster
<1>9. node # None /\ exec # None
  BY <1>3, <1>4, NoneAssumption
<1>10. \A m \in Node : d.nodes[m] = None <=> c.nodes[m] = None
  BY <1>8, <1>9 DEF Cluster
<1>11. /\ exec.pool = c.execs[e].pool /\ exec.env = c.execs[e].env
       /\ exec.status = "assigned" /\ exec.node = n
  BY <1>1 DEF exec, ExecRec
<1>12. \A f \in Exec : d.execs[f] = IF f = e THEN exec ELSE c.execs[f]
  BY <1>8 DEF Cluster
<1>13. Placed(c, d)
  BY <1>8, <1>9, <1>10, <1>11, <1>12 DEF Placed
<1> QED BY <1>7, <1>13 DEF d

LEMMA CandidatesAreNodes ==
  ASSUME NEW c, NEW p
  PROVE  /\ Preferred(c, p) \subseteq Candidates(c, p)
         /\ Candidates(c, p) \subseteq Node
         /\ \A n \in Candidates(c, p) : c.nodes[n] # None
         /\ Candidates(c, p) # {} => Preferred(c, p) # {}
BY DEF Preferred, Candidates

\* The node schedule picks is one of the preferred ones.
LEMMA PickLemma ==
  ASSUME NEW c, c.rr \in Nat, NEW p, Candidates(c, p) # {}
  PROVE  LET nodes == Preferred(c, p)
         IN  Nth(nodes, c.rr % Cardinality(nodes)) \in nodes
<1> DEFINE nodes == Preferred(c, p)
<1>1. nodes \subseteq Node /\ nodes # {}
  BY CandidatesAreNodes
<1>2. nodes \in SUBSET Nat
  <2>1. Node \subseteq Nat
    BY SchedulerAssumption DEF Node
  <2> QED BY <1>1, <2>1
<1>3. IsFiniteSet(nodes) /\ Cardinality(nodes) \in Nat
  BY <1>1, FiniteParts
<1>4. Cardinality(nodes) # 0
  BY <1>1, <1>3, FS_EmptySet
<1>5. /\ c.rr % Cardinality(nodes) \in Nat
      /\ c.rr % Cardinality(nodes) < Cardinality(nodes)
  BY <1>3, <1>4
<1> HIDE DEF nodes
<1>6. Nth(nodes, c.rr % Cardinality(nodes)) \in nodes
  BY <1>2, <1>3, <1>5, NthInSet
<1> QED BY <1>6 DEF nodes

LEMMA ScheduleLemma ==
  ASSUME NEW c \in Cluster, NEW e \in Exec, IsQueued(c, e)
  PROVE  Schedule(c, e) \in Cluster /\ Placed(c, Schedule(c, e))
<1>1. CASE c.execs[e] # None /\ Schedulable(c, c.execs[e].pool)
  <2> DEFINE nodes == Preferred(c, c.execs[e].pool)
             n == Nth(nodes, c.rr % Cardinality(nodes))
  <2>1. n \in nodes
    BY <1>1, PickLemma, ClusterParts DEF Schedulable
  <2>2. n \in Node /\ c.nodes[n] # None
    BY <2>1, CandidatesAreNodes
  <2>3. c.pools[c.execs[e].pool] # None
    BY <1>1 DEF Schedulable
  <2>4. Schedule(c, e) = Place(c, e, n)
    BY <1>1 DEF Schedule
  <2> HIDE DEF n
  <2> QED BY <2>2, <2>3, <2>4, PlaceLemma
<1>2. CASE ~ (c.execs[e] # None /\ Schedulable(c, c.execs[e].pool))
  <2>1. Schedule(c, e) = c
    BY <1>2 DEF Schedule
  <2> QED BY <2>1 DEF Placed
<1> QED BY <1>1, <1>2

LEMMA PlacedTransitive ==
  ASSUME NEW b, NEW c, NEW d, Placed(b, c), Placed(c, d)
  PROVE  Placed(b, d)
BY DEF Placed, IsQueued

\* schedule_queued keeps the type and only places queued executions.
THEOREM SweepLemma ==
  ASSUME NEW c \in Cluster
  PROVE  ScheduleQueued(c) \in Cluster /\ Placed(c, ScheduleQueued(c))
<1> DEFINE s == Sweep(c)
           Bad == {k \in 0..MaxExec : ~ (s[k] \in Cluster /\ Placed(c, s[k]))}
<1>1. Bad = {}
  <2> SUFFICES ASSUME Bad # {} PROVE FALSE
    OBVIOUS
  <2>1. PICK m \in Bad : \A k \in Bad : m <= k
    <3>1. Bad \subseteq Nat
      BY SchedulerAssumption
    <3> HIDE DEF Bad
    <3> QED BY <3>1, LeastElement
  <2>2. m # 0
    <3>1. s[0] = c
      BY SweepDef
    <3>2. Placed(c, c)
      BY DEF Placed
    <3> QED BY <2>1, <3>1, <3>2
  <2>3. m \in Exec /\ m - 1 \in 0..MaxExec /\ m - 1 \notin Bad
    BY <2>1, <2>2, SchedulerAssumption DEF Exec
  <2>4. s[m-1] \in Cluster /\ Placed(c, s[m-1])
    BY <2>3
  <2>5. s[m] = TurnOf(s[m-1], m)
    BY <2>3, SweepDef
  <2>6. TurnOf(s[m-1], m) \in Cluster /\ Placed(s[m-1], TurnOf(s[m-1], m))
    <3> HIDE DEF s
    <3>1. CASE IsQueued(s[m-1], m)
      BY <2>3, <2>4, <3>1, ScheduleLemma DEF TurnOf
    <3>2. CASE ~ IsQueued(s[m-1], m)
      BY <2>4, <3>2 DEF TurnOf, Placed
    <3> QED BY <3>1, <3>2
  <2>7. Placed(c, s[m])
    <3> HIDE DEF s
    <3> QED BY <2>4, <2>5, <2>6, PlacedTransitive
  <2> QED BY <2>1, <2>5, <2>6, <2>7
<1>2. MaxExec \in 0..MaxExec
  BY SchedulerAssumption
<1> QED BY <1>1, <1>2 DEF ScheduleQueued

-----------------------------------------------------------------------------
(* What a sweep leaves behind. *)

\* Induction along the sweep: S[k] holds the clusters it may be at after k turns.
LEMMA SweepInduction ==
  ASSUME NEW c, NEW S, c \in S[0],
         \A k \in Exec : \A d \in S[k-1] : TurnOf(d, k) \in S[k]
  PROVE  ScheduleQueued(c) \in S[MaxExec]
<1> DEFINE s == Sweep(c)
           Bad == {k \in 0..MaxExec : s[k] \notin S[k]}
<1>1. Bad = {}
  <2> SUFFICES ASSUME Bad # {} PROVE FALSE
    OBVIOUS
  <2>1. PICK m \in Bad : \A k \in Bad : m <= k
    <3>1. Bad \subseteq Nat
      BY SchedulerAssumption
    <3> HIDE DEF Bad
    <3> QED BY <3>1, LeastElement
  <2>2. m # 0
    BY <2>1, SweepDef
  <2>3. m \in Exec /\ m - 1 \in 0..MaxExec /\ m - 1 \notin Bad
    BY <2>1, <2>2, SchedulerAssumption DEF Exec
  <2>4. s[m] = TurnOf(s[m-1], m) /\ s[m-1] \in S[m-1]
    BY <2>3, SweepDef
  <2> HIDE DEF s
  <2>5. s[m] \in S[m]
    BY <2>3, <2>4
  <2> QED BY <2>1, <2>5
<1>2. MaxExec \in 0..MaxExec
  BY SchedulerAssumption
<1> QED BY <1>1, <1>2 DEF ScheduleQueued

\* The parts of a cluster after Place.
LEMMA PlaceParts ==
  ASSUME NEW c \in Cluster, NEW e \in Exec, NEW n \in Node, IsQueued(c, e),
         c.nodes[n] # None,
         NEW d, d = Place(c, e, n), NEW p, p = c.execs[e].pool
  PROVE  /\ d.images = c.images /\ d.pools = c.pools /\ d.envs = c.envs
         /\ \A m \in Node : m # n => d.nodes[m] = c.nodes[m]
         /\ d.nodes[n] = TakeInstance(c.nodes[n], p, c.pools[p].cfg.size)
         /\ \A f \in Exec : f # e => d.execs[f] = c.execs[f]
         /\ p \in Pool
         /\ d.execs[e] \in ExecRec /\ d.execs[e].status = "assigned"
         /\ d.execs[e].pool = p /\ d.execs[e].node = n /\ d.execs[e].env = c.execs[e].env
<1> DEFINE node == TakeInstance(c.nodes[n], p, c.pools[p].cfg.size)
           exec == [c.execs[e] EXCEPT !.node = n, !.status = "assigned"]
<1>1. c.execs[e] \in ExecRec /\ p \in Pool
  BY ClusterParts DEF IsQueued, ExecRec
<1>2. d = [c EXCEPT !.rr = (c.rr + 1) % RRModulus,
                    !.nodes = [c.nodes EXCEPT ![n] = node],
                    !.execs = [c.execs EXCEPT ![e] = exec]]
  BY DEF Place, Cluster
<1>3. /\ exec \in ExecRec /\ exec.status = "assigned"
      /\ exec.pool = p /\ exec.node = n /\ exec.env = c.execs[e].env
  BY <1>1 DEF ExecRec
<1> HIDE DEF node, exec
<1>4. /\ d.images = c.images /\ d.pools = c.pools /\ d.envs = c.envs
      /\ d.nodes = [c.nodes EXCEPT ![n] = node]
      /\ d.execs = [c.execs EXCEPT ![e] = exec]
  BY <1>2 DEF Cluster
<1>5. /\ \A m \in Node : d.nodes[m] = IF m = n THEN node ELSE c.nodes[m]
      /\ \A f \in Exec : d.execs[f] = IF f = e THEN exec ELSE c.execs[f]
  BY <1>4 DEF Cluster
<1> QED BY <1>1, <1>3, <1>4, <1>5 DEF node

\* A node that gave an instance of pool p away is otherwise the node it was.
LEMMA TakeInstanceParts ==
  ASSUME NEW node \in NodeRec, NEW p \in Pool, NEW size \in Nat,
         NEW x, x = TakeInstance(node, p, size)
  PROVE  /\ x \in NodeRec /\ x # None
         /\ x.cap = node.cap /\ x.images = node.images
         /\ x.artifacts = node.artifacts /\ x.ready = node.ready
         /\ \A y \in Pool : y # p => x.idle[y] = node.idle[y]
BY TakeInstanceType, NoneAssumption DEF TakeInstance, NodeRec

LEMMA TakeInstanceCounts ==
  ASSUME NEW node \in NodeRec, NEW p \in Pool, NEW size \in Nat,
         NEW x, x = TakeInstance(node, p, size)
  PROVE  /\ node.idle[p] \in Nat /\ node.used \in Nat
         /\ node.idle[p] > 0 => x.idle[p] = node.idle[p] - 1 /\ x.used = node.used
         /\ ~ (node.idle[p] > 0) => x.idle[p] = node.idle[p] /\ x.used = node.used + size
BY DEF TakeInstance, NodeRec

\* Pool p can be placed on no more nodes in d than in c.
NoBetter(c, d, p) ==
  /\ d.pools[p] = c.pools[p]
  /\ ActiveOn(d, p) = ActiveOn(c, p)
  /\ \A n \in Node :
       /\ IdleAt(d, n, p) = IdleAt(c, n, p)
       /\ d.nodes[n] # None =>
            /\ c.nodes[n] # None
            /\ d.nodes[n].ready => c.nodes[n].ready
            /\ d.nodes[n].cap = c.nodes[n].cap
            /\ HasRuntime(d.nodes[n], d.pools[p].cfg) => HasRuntime(c.nodes[n], c.pools[p].cfg)

LEMMA StaysBlocked ==
  ASSUME NEW c, NEW d, NEW p \in Pool, NoBetter(c, d, p), ~ Schedulable(c, p)
  PROVE  ~ Schedulable(d, p)
<1>1. Idle(d, p) = Idle(c, p)
  <2>1. [n \in Node |-> IdleAt(d, n, p)] = [n \in Node |-> IdleAt(c, n, p)]
    BY DEF NoBetter
  <2> QED BY <2>1 DEF Idle
<1>2. Active(d, p) = Active(c, p)
  BY DEF NoBetter, Active
<1>3. CanStart(d, p) <=> CanStart(c, p)
  BY <1>1, <1>2 DEF CanStart, NoBetter
<1>4. Candidates(d, p) \subseteq Candidates(c, p)
  BY <1>3 DEF Candidates, NoBetter
<1> QED BY <1>2, <1>4 DEF Schedulable, NoBetter

\* Placing an execution changes nothing for the other pools.
LEMMA PlaceNoBetter ==
  ASSUME NEW c \in Cluster, NEW e \in Exec, NEW n \in Node, IsQueued(c, e),
         c.pools[c.execs[e].pool] # None, c.nodes[n] # None,
         NEW x \in Pool, x # c.execs[e].pool
  PROVE  NoBetter(c, Place(c, e, n), x)
<1> DEFINE p == c.execs[e].pool
           d == Place(c, e, n)
<1> HIDE DEF p, d
<1>1. /\ d.pools = c.pools
      /\ \A m \in Node : m # n => d.nodes[m] = c.nodes[m]
      /\ d.nodes[n] = TakeInstance(c.nodes[n], p, c.pools[p].cfg.size)
      /\ \A f \in Exec : f # e => d.execs[f] = c.execs[f]
      /\ p \in Pool
      /\ d.execs[e].pool = p
  <2>1. d = Place(c, e, n) /\ p = c.execs[e].pool
    BY DEF d, p
  <2> QED BY <2>1, PlaceParts
<1>2. c.nodes[n] \in NodeRec /\ c.pools[p].cfg.size \in Nat
  BY <1>1, ClusterParts DEF PoolRec, Config, p
<1>3. /\ d.nodes[n].cap = c.nodes[n].cap /\ d.nodes[n].images = c.nodes[n].images
      /\ d.nodes[n].artifacts = c.nodes[n].artifacts
      /\ d.nodes[n].ready = c.nodes[n].ready
      /\ d.nodes[n] # None
      /\ d.nodes[n].idle[x] = c.nodes[n].idle[x]
  <2> DEFINE size == c.pools[p].cfg.size
  <2>1. /\ d.nodes[n] = TakeInstance(c.nodes[n], p, size)
        /\ c.nodes[n] \in NodeRec /\ p \in Pool /\ size \in Nat
    BY <1>1, <1>2
  <2> HIDE DEF size
  <2>2. \A y \in Pool : y # p => d.nodes[n].idle[y] = c.nodes[n].idle[y]
    BY ONLY <2>1, TakeInstanceParts
  <2>3. d.nodes[n].idle[x] = c.nodes[n].idle[x]
    BY <2>2 DEF p
  <2>4. /\ d.nodes[n].cap = c.nodes[n].cap /\ d.nodes[n].images = c.nodes[n].images
        /\ d.nodes[n].artifacts = c.nodes[n].artifacts
        /\ d.nodes[n].ready = c.nodes[n].ready
        /\ d.nodes[n] # None
    BY ONLY <2>1, TakeInstanceParts
  <2> QED BY <2>3, <2>4
<1>4. ActiveOn(d, x) = ActiveOn(c, x)
  BY <1>1 DEF ActiveOn, Holds, p
<1>5. NoBetter(c, d, x)
  BY <1>1, <1>3, <1>4 DEF NoBetter, IdleAt, HasRuntime
<1> QED BY <1>5 DEF d

\* The queued executions up to the k-th are those no node is found for.
Blocked(c, k) ==
  \A e \in Exec : e <= k /\ IsQueued(c, e) => ~ Schedulable(c, c.execs[e].pool)

\* From c to d, no execution is placed past an older one of its pool.
InOrder(c, d) ==
  \A e, f \in Exec :
    /\ e < f
    /\ IsQueued(d, e)
    /\ d.execs[f] # None /\ d.execs[f].status = "assigned"
    /\ d.execs[f].pool = d.execs[e].pool
    => d.execs[f] = c.execs[f]

\* What Schedule does: it places e on a preferred node, or nothing.
LEMMA ScheduleCases ==
  ASSUME NEW c \in Cluster, NEW e \in Exec, IsQueued(c, e)
  PROVE  \/ /\ ~ Schedulable(c, c.execs[e].pool)
            /\ Schedule(c, e) = c
         \/ /\ Schedulable(c, c.execs[e].pool)
            /\ \E n \in Preferred(c, c.execs[e].pool) :
                 /\ n \in Node /\ c.nodes[n] # None
                 /\ Schedule(c, e) = Place(c, e, n)
<1>1. CASE Schedulable(c, c.execs[e].pool)
  <2> DEFINE nodes == Preferred(c, c.execs[e].pool)
             n == Nth(nodes, c.rr % Cardinality(nodes))
  <2>1. n \in nodes
    BY <1>1, PickLemma, ClusterParts DEF Schedulable
  <2>2. n \in Node /\ c.nodes[n] # None
    BY <2>1, CandidatesAreNodes
  <2>3. Schedule(c, e) = Place(c, e, n)
    BY <1>1 DEF Schedule, IsQueued
  <2> HIDE DEF n, nodes
  <2> QED BY <1>1, <2>1, <2>2, <2>3 DEF nodes
<1>2. CASE ~ Schedulable(c, c.execs[e].pool)
  BY <1>2 DEF Schedule
<1> QED BY <1>1, <1>2

LEMMA TurnOrder ==
  ASSUME NEW c \in Cluster, NEW k \in Exec, NEW d \in Cluster,
         Placed(c, d), Blocked(d, k - 1), InOrder(c, d),
         \A f \in Exec : f >= k => d.execs[f] = c.execs[f]
  PROVE  LET t == TurnOf(d, k)
         IN  /\ t \in Cluster /\ Placed(c, t) /\ Blocked(t, k) /\ InOrder(c, t)
             /\ \A f \in Exec : f >= k + 1 => t.execs[f] = c.execs[f]
<1> DEFINE t == TurnOf(d, k)
           p == d.execs[k].pool
<1>1. k \in Nat /\ \A f \in Exec : f \in Nat
  BY DEF Exec
<1>5. \A e \in Exec : e <= k /\ e # k => e <= k - 1
  BY <1>1
<1>2. CASE ~ IsQueued(d, k)
  <2>1. t = d
    BY <1>2 DEF TurnOf
  <2>2. Blocked(d, k)
    BY <1>2, <1>5 DEF Blocked
  <2>3. \A f \in Exec : f >= k + 1 => d.execs[f] = c.execs[f]
    BY <1>1
  <2> QED BY <2>1, <2>2, <2>3
<1>3. CASE IsQueued(d, k) /\ ~ Schedulable(d, p)
  <2>1. t = d
    BY <1>3, ScheduleCases DEF TurnOf
  <2>2. Blocked(d, k)
    BY <1>3, <1>5 DEF Blocked
  <2>3. \A f \in Exec : f >= k + 1 => d.execs[f] = c.execs[f]
    BY <1>1
  <2> QED BY <2>1, <2>2, <2>3
<1>4. CASE IsQueued(d, k) /\ Schedulable(d, p)
  <2>1. PICK n \in Node : d.nodes[n] # None /\ t = Place(d, k, n)
    BY <1>4, ScheduleCases DEF TurnOf
  <2>2. d.pools[p] # None
    BY <1>4 DEF Schedulable
  <2>3. t \in Cluster /\ Placed(d, t)
    BY <1>4, <2>1, <2>2, PlaceLemma
  <2>4. /\ \A f \in Exec : f # k => t.execs[f] = d.execs[f]
        /\ p \in Pool
        /\ t.execs[k].status = "assigned" /\ t.execs[k].pool = p
    <3> DEFINE y == t
    <3>1. y = Place(d, k, n)
      BY <2>1
    <3> HIDE DEF y
    <3> DEFINE z == p
    <3>2. z = d.execs[k].pool
      OBVIOUS
    <3> HIDE DEF z
    <3>3. /\ \A f \in Exec : f # k => y.execs[f] = d.execs[f]
          /\ z \in Pool
          /\ y.execs[k].status = "assigned" /\ y.execs[k].pool = z
      BY <1>4, <2>1, <3>1, <3>2, PlaceParts
    <3> QED BY <3>3 DEF y, z
  <2> HIDE DEF t
  <2>5. Placed(c, t)
    BY <2>3, PlacedTransitive
  \* Nothing older is still queued on the pool.
  <2>6. ASSUME NEW e \in Exec, e <= k, IsQueued(t, e)
        PROVE  /\ e # k /\ e <= k - 1
               /\ IsQueued(d, e) /\ t.execs[e] = d.execs[e]
               /\ d.execs[e].pool # p /\ ~ Schedulable(d, d.execs[e].pool)
    <3>1. e # k
      BY <2>4, <2>6 DEF IsQueued
    <3>2. e <= k - 1
      BY ONLY e \in Exec, e <= k, <1>5, <3>1
    <3>3. IsQueued(d, e) /\ t.execs[e] = d.execs[e]
      BY <2>4, <2>6, <3>1 DEF IsQueued
    <3> QED BY <1>4, <3>1, <3>2, <3>3 DEF Blocked
  <2>7. Blocked(t, k)
    <3> SUFFICES ASSUME NEW e \in Exec, e <= k, IsQueued(t, e)
                 PROVE  ~ Schedulable(t, t.execs[e].pool)
      BY DEF Blocked
    <3> DEFINE x == d.execs[e].pool
    <3>1. t.execs[e].pool = x /\ x # p /\ ~ Schedulable(d, x) /\ IsQueued(d, e)
      BY <2>6
    <3>2. x \in Pool
      BY <3>1, ClusterParts DEF IsQueued, ExecRec
    <3>3. NoBetter(d, t, x)
      BY <1>4, <2>1, <2>2, <3>1, <3>2, PlaceNoBetter
    <3> QED BY <3>1, <3>2, <3>3, StaysBlocked
  <2>8. InOrder(c, t)
    <3> SUFFICES ASSUME NEW e \in Exec, NEW f \in Exec, e < f, IsQueued(t, e),
                        t.execs[f] # None, t.execs[f].status = "assigned",
                        t.execs[f].pool = t.execs[e].pool
                 PROVE  t.execs[f] = c.execs[f]
      BY DEF InOrder
    <3>1. CASE f = k
      <4>1. e <= k
        BY <1>1, <3>1
      <4> QED BY <2>4, <2>6, <3>1, <4>1
    <3>2. CASE f # k
      <4>1. e # k
        BY <2>4 DEF IsQueued
      <4>2. t.execs[e] = d.execs[e] /\ t.execs[f] = d.execs[f]
        BY <2>4, <3>2, <4>1
      <4> QED BY <4>2 DEF InOrder, IsQueued
    <3> QED BY <3>1, <3>2
  <2>9. \A f \in Exec : f >= k + 1 => t.execs[f] = c.execs[f]
    <3>1. \A f \in Exec : f >= k + 1 => f >= k /\ f # k
      BY <1>1
    <3> QED BY <2>4, <3>1
  <2>10. /\ t \in Cluster /\ Placed(c, t) /\ Blocked(t, k) /\ InOrder(c, t)
         /\ \A f \in Exec : f >= k + 1 => t.execs[f] = c.execs[f]
    BY <2>3, <2>5, <2>7, <2>8, <2>9
  <2> QED BY <2>10 DEF t
<1> QED BY <1>2, <1>3, <1>4

\* schedule_queued leaves nothing in the queue that a node could take, and serves
\* the queue of each pool in order.
THEOREM SweepOrder ==
  ASSUME NEW c \in Cluster
  PROVE  Blocked(ScheduleQueued(c), MaxExec) /\ InOrder(c, ScheduleQueued(c))
<1> DEFINE S == [k \in 0..MaxExec |->
                   {d \in Cluster : /\ Placed(c, d) /\ Blocked(d, k) /\ InOrder(c, d)
                                    /\ \A f \in Exec : f >= k + 1 => d.execs[f] = c.execs[f]}]
<1>1. c \in S[0]
  <2>1. Blocked(c, 0)
    BY DEF Blocked, Exec
  <2>2. Placed(c, c) /\ InOrder(c, c)
    BY DEF Placed, InOrder
  <2> QED BY <2>1, <2>2, SchedulerAssumption
<1>2. ASSUME NEW k \in Exec, NEW d \in S[k-1] PROVE TurnOf(d, k) \in S[k]
  <2>1. k \in 0..MaxExec /\ k - 1 \in 0..MaxExec /\ (k - 1) + 1 = k
    BY SchedulerAssumption DEF Exec
  <2>2. /\ d \in Cluster /\ Placed(c, d) /\ Blocked(d, k - 1) /\ InOrder(c, d)
        /\ \A f \in Exec : f >= k => d.execs[f] = c.execs[f]
    BY <1>2, <2>1
  <2>3. /\ TurnOf(d, k) \in Cluster /\ Placed(c, TurnOf(d, k)) /\ Blocked(TurnOf(d, k), k)
        /\ InOrder(c, TurnOf(d, k))
        /\ \A f \in Exec : f >= k + 1 => TurnOf(d, k).execs[f] = c.execs[f]
    BY <2>2, TurnOrder
  <2> QED BY <2>1, <2>3
<1> HIDE DEF S
<1>3. ScheduleQueued(c) \in S[MaxExec]
  BY <1>1, <1>2, SweepInduction
<1>4. MaxExec \in 0..MaxExec
  BY SchedulerAssumption
<1> QED BY <1>3, <1>4 DEF S

-----------------------------------------------------------------------------
(* The invariant. *)

\* The cluster c, the requests q and the runs rs have the types they should,
\* and a request still to be built asks for an artifact.
Typed(c, q, rs) ==
  /\ c \in Cluster
  /\ q \in [Req -> CreateReq \cup UpdateReq \cup {None}]
  /\ rs \subseteq Node \X Exec
  /\ \A r \in Req : q[r] # None /\ ~ q[r].built => q[r].cfg.artifact # None

PoolsExist(c) ==
  \A e \in Exec : c.execs[e] # None => c.pools[c.execs[e].pool] # None

NodesKnown(c) ==
  \A e \in Exec : c.execs[e] # None =>
    IF IsQueued(c, e) THEN c.execs[e].node = None
    ELSE c.execs[e].node # None /\ c.nodes[c.execs[e].node] # None

Expected(c, rs) ==
  \A run \in rs : /\ c.execs[run[2]] # None
                  /\ c.execs[run[2]].node = run[1]
                  /\ c.execs[run[2]].status = "running"

\* No two environments go by the same pool.
UniqueClaims(c, q) ==
  \A i, j \in Env, p \in Pool : Claims(c, q, i, p) /\ Claims(c, q, j, p) => i = j

Sound(c, q, rs) ==
  /\ Typed(c, q, rs) /\ PoolsExist(c) /\ NodesKnown(c)
  /\ Expected(c, rs) /\ UniqueClaims(c, q)

IInv == Sound(cluster, requests, runs) /\ files \subseteq Artifact

-----------------------------------------------------------------------------
(* Types. *)

LEMMA MonusType ==
  ASSUME NEW a \in Nat, NEW b \in Nat
  PROVE  Monus(a, b) \in Nat
BY DEF Monus

LEMMA ProductType ==
  ASSUME NEW a \in Nat, NEW b \in Nat
  PROVE  a * b \in Nat
OBVIOUS

\* None is told apart from every record.
LEMMA Apart ==
  /\ None \notin Nat /\ None \notin Env /\ None \notin Node /\ None \notin Pool
  /\ \A x \in PoolRec : x # None
  /\ \A x \in EnvRec : x # None
  /\ \A x \in NodeRec : x # None
  /\ \A x \in ExecRec : x # None
  /\ \A x \in CreateReq \cup UpdateReq : x # None
<1>1. Node \subseteq Nat /\ Pool \subseteq Nat /\ Env \subseteq Nat
  BY SchedulerAssumption DEF Node, Pool
<1> QED BY <1>1, NoneAssumption, ControllerAssumption

\* A node's resources may take any values.
LEMMA NodeUpdates ==
  ASSUME NEW node \in NodeRec
  PROVE  /\ \A u \in Nat : [node EXCEPT !.used = u] \in NodeRec
         /\ \A s \in SUBSET Image : [node EXCEPT !.images = s] \in NodeRec
         /\ \A s \in SUBSET Artifact : [node EXCEPT !.artifacts = s] \in NodeRec
         /\ \A b \in BOOLEAN : [node EXCEPT !.ready = b] \in NodeRec
         /\ \A p \in Pool, k \in Nat : [node EXCEPT !.idle[p] = k] \in NodeRec
         /\ \A f \in [Pool -> Nat], u \in Nat : [node EXCEPT !.used = u, !.idle = f] \in NodeRec
         /\ \A p \in Pool, k \in Nat, u \in Nat :
              [node EXCEPT !.used = u, !.idle[p] = k] \in NodeRec
BY DEF NodeRec

\* A cluster with one component replaced.
LEMMA ClusterUpdates ==
  ASSUME NEW c \in Cluster
  PROVE  /\ \A x \in [Image -> {"absent", "vm", "runtime"}] : [c EXCEPT !.images = x] \in Cluster
         /\ \A x \in [Pool -> PoolRec \cup {None}] : [c EXCEPT !.pools = x] \in Cluster
         /\ \A x \in [Env -> EnvRec \cup {None}] : [c EXCEPT !.envs = x] \in Cluster
         /\ \A x \in [Node -> NodeRec \cup {None}] : [c EXCEPT !.nodes = x] \in Cluster
         /\ \A x \in [Exec -> ExecRec \cup {None}] : [c EXCEPT !.execs = x] \in Cluster
BY DEF Cluster

-----------------------------------------------------------------------------
(* Steps that leave the executions, pools and environments in place. *)

\* Fewer claims keep the claims unique.
LEMMA FewerClaims ==
  ASSUME NEW c, NEW q, NEW d, NEW qq, UniqueClaims(c, q),
         \A i \in Env, p \in Pool : Claims(d, qq, i, p) => Claims(c, q, i, p)
  PROVE  UniqueClaims(d, qq)
BY DEF UniqueClaims

\* Sound does not depend on images, on what nodes hold, or on the counter.
LEMMA SoundKept ==
  ASSUME NEW c, NEW q, NEW rs, Sound(c, q, rs), NEW d \in Cluster,
         d.pools = c.pools, d.envs = c.envs, d.execs = c.execs,
         \A n \in Node : c.nodes[n] # None => d.nodes[n] # None
  PROVE  Sound(d, q, rs)
<1>1. Typed(d, q, rs)
  BY DEF Sound, Typed
<1>2. PoolsExist(d)
  BY DEF Sound, PoolsExist
<1>3. NodesKnown(d)
  <2>1. \A e \in Exec : c.execs[e] # None => c.execs[e].node \in Node \cup {None}
    BY ClusterParts DEF Sound, Typed, ExecRec
  <2> QED BY <2>1 DEF Sound, NodesKnown, IsQueued
<1>4. Expected(d, rs)
  BY DEF Sound, Expected
<1>5. UniqueClaims(d, q)
  <2>1. \A i \in Env, p \in Pool : Claims(d, q, i, p) => Claims(c, q, i, p)
    BY DEF Claims
  <2> QED BY <2>1, FewerClaims DEF Sound
<1> QED BY <1>1, <1>2, <1>3, <1>4, <1>5 DEF Sound

\* Placing queued executions keeps Sound.
LEMMA SoundPlaced ==
  ASSUME NEW c, NEW q, NEW rs, Sound(c, q, rs), NEW d \in Cluster, Placed(c, d)
  PROVE  Sound(d, q, rs)
<1>1. Typed(d, q, rs)
  BY DEF Sound, Typed
<1>2. \A e \in Exec : d.execs[e] # None =>
        /\ c.execs[e] # None
        /\ d.execs[e].pool = c.execs[e].pool
        /\ d.execs[e].env = c.execs[e].env
  BY DEF Placed, IsQueued
<1>3. PoolsExist(d)
  BY <1>2 DEF Sound, PoolsExist, Placed
<1>4. NodesKnown(d)
  <2> SUFFICES ASSUME NEW e \in Exec, d.execs[e] # None
               PROVE  IF IsQueued(d, e) THEN d.execs[e].node = None
                      ELSE d.execs[e].node # None /\ d.nodes[d.execs[e].node] # None
    BY DEF NodesKnown
  <2>1. CASE d.execs[e] = c.execs[e]
    <3>1. c.execs[e].node \in Node \cup {None}
      BY <1>2, ClusterParts DEF Sound, Typed, ExecRec
    <3> QED BY <2>1, <3>1, <1>2 DEF Sound, NodesKnown, IsQueued, Placed
  <2>2. CASE d.execs[e] # c.execs[e]
    <3>1. /\ d.execs[e].status = "assigned"
          /\ d.execs[e].node \in Node
          /\ c.nodes[d.execs[e].node] # None
      BY <2>2 DEF Placed
    <3> QED BY <3>1, Apart DEF IsQueued, Placed
  <2> QED BY <2>1, <2>2
<1>5. Expected(d, rs)
  <2> SUFFICES ASSUME NEW run \in rs
               PROVE  d.execs[run[2]] = c.execs[run[2]]
    BY DEF Sound, Expected
  <2>1. run[2] \in Exec
    BY DEF Sound, Typed
  <2>2. ~ IsQueued(c, run[2])
    BY DEF Sound, Expected, IsQueued
  <2> QED BY <2>1, <2>2 DEF Placed
<1>6. UniqueClaims(d, q)
  <2>1. \A i \in Env, p \in Pool : Claims(d, q, i, p) => Claims(c, q, i, p)
    BY <1>2 DEF Claims, Placed
  <2> QED BY <2>1, FewerClaims DEF Sound
<1> QED BY <1>1, <1>3, <1>4, <1>5, <1>6 DEF Sound

\* So does schedule_queued.
LEMMA SoundSweep ==
  ASSUME NEW c, NEW q, NEW rs, Sound(c, q, rs)
  PROVE  Sound(ScheduleQueued(c), q, rs)
<1>1. c \in Cluster
  BY DEF Sound, Typed
<1> QED BY <1>1, SweepLemma, SoundPlaced

-----------------------------------------------------------------------------
(* Steps that change nodes only. *)

SameWork(c, d) ==
  /\ d.images = c.images /\ d.pools = c.pools /\ d.envs = c.envs /\ d.execs = c.execs
  /\ \A n \in Node : c.nodes[n] # None => d.nodes[n] # None

LEMMA NodeChanged ==
  ASSUME NEW c \in Cluster, NEW n \in Node, NEW x \in NodeRec
  PROVE  LET d == [c EXCEPT !.nodes = [c.nodes EXCEPT ![n] = x]]
         IN  d \in Cluster /\ SameWork(c, d)
<1> DEFINE d == [c EXCEPT !.nodes = [c.nodes EXCEPT ![n] = x]]
<1>1. [c.nodes EXCEPT ![n] = x] \in [Node -> NodeRec \cup {None}]
  BY DEF Cluster
<1>2. d \in Cluster
  BY <1>1, ClusterUpdates
<1>3. /\ d.pools = c.pools /\ d.envs = c.envs /\ d.execs = c.execs
      /\ d.nodes = [c.nodes EXCEPT ![n] = x]
  BY DEF Cluster
<1>4. \A m \in Node : c.nodes[m] # None => d.nodes[m] # None
  BY <1>3, Apart DEF Cluster
<1> QED BY <1>2, <1>3, <1>4 DEF SameWork

LEMMA AllNodesChanged ==
  ASSUME NEW c \in Cluster, NEW f, \A n \in Node : c.nodes[n] # None => f[n] \in NodeRec
  PROVE  LET d == [c EXCEPT !.nodes = [n \in Node |-> IF c.nodes[n] = None THEN None
                                                      ELSE f[n]]]
         IN  /\ d \in Cluster
             /\ d.images = c.images /\ d.pools = c.pools /\ d.envs = c.envs
             /\ d.execs = c.execs
             /\ \A n \in Node : d.nodes[n] = None <=> c.nodes[n] = None
<1> DEFINE nodes == [n \in Node |-> IF c.nodes[n] = None THEN None ELSE f[n]]
           d == [c EXCEPT !.nodes = nodes]
<1>1. nodes \in [Node -> NodeRec \cup {None}]
  OBVIOUS
<1>2. \A n \in Node : nodes[n] = None <=> c.nodes[n] = None
  BY Apart
<1> HIDE DEF nodes
<1>3. d \in Cluster
  BY <1>1, ClusterUpdates
<1>4. /\ d.images = c.images /\ d.pools = c.pools /\ d.envs = c.envs
      /\ d.execs = c.execs /\ d.nodes = nodes
  BY DEF Cluster
<1>5. /\ d \in Cluster
      /\ d.images = c.images /\ d.pools = c.pools /\ d.envs = c.envs
      /\ d.execs = c.execs
      /\ \A n \in Node : d.nodes[n] = None <=> c.nodes[n] = None
  BY <1>2, <1>3, <1>4
<1> QED BY <1>5 DEF nodes

LEMMA RefreshLemma ==
  ASSUME NEW c \in Cluster, NEW n \in Node, c.nodes[n] # None
  PROVE  Refresh(c, n) \in Cluster /\ SameWork(c, Refresh(c, n))
<1> DEFINE b == {i \in Image : c.images[i] # "absent"} \subseteq c.nodes[n].images
           x == [c.nodes[n] EXCEPT !.ready = b]
<1>1. x \in NodeRec
  <2>1. c.nodes[n] \in NodeRec /\ b \in BOOLEAN
    BY ClusterParts
  <2> HIDE DEF b
  <2> QED BY <2>1, NodeUpdates
<1>2. Refresh(c, n) = [c EXCEPT !.nodes = [c.nodes EXCEPT ![n] = x]]
  BY DEF Refresh, Cluster
<1> HIDE DEF x
<1> QED BY <1>1, <1>2, NodeChanged

LEMMA AddWarmLemma ==
  ASSUME NEW c \in Cluster, NEW n \in Node, NEW p \in Pool,
         c.nodes[n] # None, c.pools[p] # None
  PROVE  AddWarm(c, n, p) \in Cluster /\ SameWork(c, AddWarm(c, n, p))
<1> DEFINE node == c.nodes[n]
           x == [node EXCEPT !.used = node.used + c.pools[p].cfg.size,
                             !.idle[p] = node.idle[p] + 1]
<1>1. node \in NodeRec /\ c.pools[p].cfg.size \in Nat
  BY ClusterParts DEF PoolRec, Config
<1>2. node.used + c.pools[p].cfg.size \in Nat /\ node.idle[p] + 1 \in Nat
  BY <1>1 DEF NodeRec
<1>3. x \in NodeRec
  BY <1>1, <1>2, NodeUpdates
<1>4. AddWarm(c, n, p) = [c EXCEPT !.nodes = [c.nodes EXCEPT ![n] = x]]
  BY <1>1 DEF AddWarm, Cluster, NodeRec
<1> HIDE DEF x
<1> QED BY <1>3, <1>4, NodeChanged

LEMMA RemoveIdleLemma ==
  ASSUME NEW c \in Cluster, NEW n \in Node, NEW p \in Pool, IdleSurplus(c, n, p)
  PROVE  RemoveIdle(c, n, p) \in Cluster /\ SameWork(c, RemoveIdle(c, n, p))
<1> DEFINE node == c.nodes[n]
           x == [node EXCEPT !.used = Monus(node.used, c.pools[p].cfg.size),
                             !.idle[p] = node.idle[p] - 1]
<1>1. node # None /\ node.idle[p] > 0 /\ c.pools[p] # None
  BY DEF IdleSurplus, IdleAt
<1>2. node \in NodeRec /\ c.pools[p].cfg.size \in Nat
  BY <1>1, ClusterParts DEF PoolRec, Config
<1>3. Monus(node.used, c.pools[p].cfg.size) \in Nat /\ node.idle[p] - 1 \in Nat
  <2>1. node.used \in Nat /\ node.idle[p] \in Nat
    BY <1>2 DEF NodeRec
  <2>2. Monus(node.used, c.pools[p].cfg.size) \in Nat
    BY <1>2, <2>1, MonusType
  <2> QED BY <1>1, <2>1, <2>2
<1>4. x \in NodeRec
  BY <1>2, <1>3, NodeUpdates
<1>5. RemoveIdle(c, n, p) = [c EXCEPT !.nodes = [c.nodes EXCEPT ![n] = x]]
  BY <1>2 DEF RemoveIdle, Cluster, NodeRec
<1> HIDE DEF x
<1> QED BY <1>4, <1>5, NodeChanged

LEMMA ResetIdleLemma ==
  ASSUME NEW c \in Cluster, NEW n \in Node, c.nodes[n] # None
  PROVE  ResetIdle(c, n) \in Cluster /\ SameWork(c, ResetIdle(c, n))
<1> DEFINE node == c.nodes[n]
           held == [p \in Pool |-> IF c.pools[p] = None THEN 0
                                   ELSE c.pools[p].cfg.size * node.idle[p]]
           x == [node EXCEPT !.used = Monus(node.used, Total(held, NumPools)),
                             !.idle = [p \in Pool |-> 0]]
<1>1. node \in NodeRec
  BY ClusterParts
<1>2. held \in [Pool -> Nat]
  <2>1. ASSUME NEW p \in Pool, c.pools[p] # None
        PROVE  c.pools[p].cfg.size * node.idle[p] \in Nat
    <3>1. c.pools[p].cfg.size \in Nat /\ node.idle[p] \in Nat
      BY <1>1, <2>1, ClusterParts DEF PoolRec, Config, NodeRec
    <3> QED BY <3>1, ProductType
  <2> QED BY <2>1
<1>3. Total(held, NumPools) \in Nat
  <2> HIDE DEF held
  <2> QED BY <1>2, TotalNat, SchedulerAssumption DEF Pool
<1>4. x \in NodeRec
  <2> HIDE DEF held
  <2>1. Monus(node.used, Total(held, NumPools)) \in Nat
    BY <1>1, <1>3, MonusType DEF NodeRec
  <2> QED BY <1>1, <2>1, NodeUpdates
<1>5. ResetIdle(c, n) = [c EXCEPT !.nodes = [c.nodes EXCEPT ![n] = x]]
  BY <1>1 DEF ResetIdle, Cluster, NodeRec
<1> HIDE DEF x
<1> QED BY <1>4, <1>5, NodeChanged

-----------------------------------------------------------------------------
(* Steps that change pools and environments, not executions. *)

LEMMA SoundSameExecs ==
  ASSUME NEW c, NEW q, NEW rs, Sound(c, q, rs),
         NEW d, NEW qq, Typed(d, qq, rs), d.execs = c.execs,
         \A n \in Node : c.nodes[n] # None => d.nodes[n] # None,
         PoolsExist(d), UniqueClaims(d, qq)
  PROVE  Sound(d, qq, rs)
<1>1. NodesKnown(d)
  <2>1. \A e \in Exec : c.execs[e] # None => c.execs[e].node \in Node \cup {None}
    BY ClusterParts DEF Sound, Typed, ExecRec
  <2> QED BY <2>1 DEF Sound, NodesKnown, IsQueued
<1>2. Expected(d, rs)
  BY DEF Sound, Expected
<1> QED BY <1>1, <1>2 DEF Sound

LEMMA DropPoolLemma ==
  ASSUME NEW c \in Cluster, NEW p \in Pool, NEW d, d = DropPool(c, p)
  PROVE  /\ d \in Cluster
         /\ d.images = c.images /\ d.envs = c.envs /\ d.execs = c.execs
         /\ d.pools = [c.pools EXCEPT ![p] = None]
         /\ \A n \in Node : d.nodes[n] = None <=> c.nodes[n] = None
<1>1. CASE c.pools[p] = None
  BY <1>1 DEF DropPool, Cluster
<1>2. CASE c.pools[p] # None
  <2> DEFINE size == c.pools[p].cfg.size
             f == [n \in Node |-> [c.nodes[n] EXCEPT
                     !.used = Monus(c.nodes[n].used, size * c.nodes[n].idle[p]),
                     !.idle[p] = 0]]
             b == [c EXCEPT !.nodes = [n \in Node |-> IF c.nodes[n] = None THEN None
                                                      ELSE f[n]]]
  <2>1. size \in Nat
    BY <1>2, ClusterParts DEF PoolRec, Config
  <2>2. ASSUME NEW n \in Node, c.nodes[n] # None PROVE f[n] \in NodeRec
    <3> DEFINE node == c.nodes[n]
    <3>1. node \in NodeRec
      BY <2>2, ClusterParts
    <3>2. node.used \in Nat /\ node.idle[p] \in Nat
      BY <3>1 DEF NodeRec
    <3>3. Monus(node.used, size * node.idle[p]) \in Nat
      BY <2>1, <3>2, ProductType, MonusType
    <3>4. [node EXCEPT !.used = Monus(node.used, size * node.idle[p]), !.idle[p] = 0]
            \in NodeRec
      BY <3>1, <3>3, NodeUpdates
    <3> QED BY <3>4
  <2> HIDE DEF f
  <2>3. /\ b \in Cluster
        /\ b.images = c.images /\ b.pools = c.pools /\ b.envs = c.envs
        /\ b.execs = c.execs
        /\ \A n \in Node : b.nodes[n] = None <=> c.nodes[n] = None
    BY <2>2, AllNodesChanged
  <2>4. d = [b EXCEPT !.pools = [b.pools EXCEPT ![p] = None]]
    <3>1. d = [c EXCEPT !.pools = [c.pools EXCEPT ![p] = None], !.nodes = b.nodes]
      <4>1. b.nodes = [n \in Node |-> IF c.nodes[n] = None THEN None
                         ELSE [c.nodes[n] EXCEPT
                                 !.used = Monus(c.nodes[n].used, size * c.nodes[n].idle[p]),
                                 !.idle[p] = 0]]
        BY DEF f, Cluster
      <4>2. d = [c EXCEPT !.pools = [c.pools EXCEPT ![p] = None],
                          !.nodes = [n \in Node |-> IF c.nodes[n] = None THEN None
                             ELSE [c.nodes[n] EXCEPT
                                     !.used = Monus(c.nodes[n].used, size * c.nodes[n].idle[p]),
                                     !.idle[p] = 0]]]
        BY <1>2 DEF DropPool, Cluster
      <4> HIDE DEF b
      <4> QED BY <4>1, <4>2
    <3> QED BY <3>1 DEF Cluster
  <2> HIDE DEF b
  <2>5. [b.pools EXCEPT ![p] = None] \in [Pool -> PoolRec \cup {None}]
    BY <2>3 DEF Cluster
  <2>6. d \in Cluster
    BY <2>3, <2>4, <2>5, ClusterUpdates
  <2>7. /\ d.images = b.images /\ d.envs = b.envs /\ d.execs = b.execs
        /\ d.nodes = b.nodes /\ d.pools = [b.pools EXCEPT ![p] = None]
    BY <2>3, <2>4 DEF Cluster
  <2> QED BY <2>3, <2>6, <2>7
<1> QED BY <1>1, <1>2

\* A pool no execution is on may go.
LEMMA SoundDropPool ==
  ASSUME NEW c, NEW q, NEW rs, Sound(c, q, rs), NEW p \in Pool,
         \A e \in Exec : c.execs[e] # None => c.execs[e].pool # p
  PROVE  Sound(DropPool(c, p), q, rs)
<1> DEFINE d == DropPool(c, p)
<1>1. /\ d \in Cluster
      /\ d.images = c.images /\ d.envs = c.envs /\ d.execs = c.execs
      /\ d.pools = [c.pools EXCEPT ![p] = None]
      /\ \A n \in Node : d.nodes[n] = None <=> c.nodes[n] = None
  BY DropPoolLemma DEF Sound, Typed
<1> HIDE DEF d
<1>2. Typed(d, q, rs)
  BY <1>1 DEF Sound, Typed
<1>3. \A x \in Pool : d.pools[x] = IF x = p THEN None ELSE c.pools[x]
  BY <1>1 DEF Sound, Typed, Cluster
<1>4. PoolsExist(d)
  <2>1. \A e \in Exec : c.execs[e] # None => c.execs[e].pool \in Pool
    BY ClusterParts DEF Sound, Typed, ExecRec
  <2> QED BY <1>1, <1>3, <2>1 DEF Sound, PoolsExist
<1>5. UniqueClaims(d, q)
  <2>1. \A i \in Env, x \in Pool : Claims(d, q, i, x) => Claims(c, q, i, x)
    BY <1>1, <1>3 DEF Claims
  <2> QED BY <2>1, FewerClaims DEF Sound
<1>6. Sound(d, q, rs)
  BY <1>1, <1>2, <1>4, <1>5, SoundSameExecs
<1> QED BY <1>6 DEF d

LEMMA SoundUserPool ==
  ASSUME NEW c, NEW q, NEW rs, Sound(c, q, rs), NEW p \in Pool, NEW cfg \in Config,
         c.pools[p] = None
  PROVE  Sound([c EXCEPT !.pools[p] = [env |-> None, cfg |-> cfg]], q, rs)
<1> DEFINE x == [env |-> None, cfg |-> cfg]
           pools == [c.pools EXCEPT ![p] = x]
           d == [c EXCEPT !.pools = pools]
<1>1. x \in PoolRec
  BY DEF PoolRec
<1>2. c \in Cluster /\ pools \in [Pool -> PoolRec \cup {None}]
  BY <1>1 DEF Sound, Typed, Cluster
<1>3. /\ d \in Cluster /\ d.envs = c.envs /\ d.execs = c.execs /\ d.nodes = c.nodes
      /\ \A y \in Pool : d.pools[y] = IF y = p THEN x ELSE c.pools[y]
  <2>1. d \in Cluster
    BY <1>2, ClusterUpdates
  <2> QED BY <1>2, <2>1 DEF Cluster
<1>4. x # None /\ x.env = None
  BY <1>1, Apart
<1> HIDE DEF d, x
<1>5. Typed(d, q, rs)
  BY <1>3 DEF Sound, Typed
<1>6. PoolsExist(d)
  <2>1. \A e \in Exec : c.execs[e] # None => c.execs[e].pool \in Pool
    BY <1>2, ClusterParts DEF ExecRec
  <2> QED BY <1>3, <1>4, <2>1 DEF Sound, PoolsExist
<1>7. UniqueClaims(d, q)
  <2>1. \A i \in Env, y \in Pool : Claims(d, q, i, y) => Claims(c, q, i, y)
    BY <1>3, <1>4, Apart DEF Claims
  <2> QED BY <2>1, FewerClaims DEF Sound
<1>8. Sound(d, q, rs)
  BY <1>3, <1>5, <1>6, <1>7, SoundSameExecs
<1> QED BY <1>8 DEF d, x

\* The claims environment i gains on pool p are nobody else's.
LEMMA OneMoreClaim ==
  ASSUME NEW c, NEW q, NEW d, NEW qq, UniqueClaims(c, q),
         NEW i \in Env, NEW p \in Pool,
         \A j \in Env : Claims(c, q, j, p) => j = i,
         \A j \in Env, x \in Pool :
           Claims(d, qq, j, x) => Claims(c, q, j, x) \/ (j = i /\ x = p)
  PROVE  UniqueClaims(d, qq)
BY DEF UniqueClaims

\* An environment and its pool may be inserted if no other goes by that pool.
LEMMA SoundManagedPool ==
  ASSUME NEW c, NEW q, NEW rs, Sound(c, q, rs),
         NEW i \in Env, NEW p \in Pool, NEW cfg \in Config,
         \A j \in Env : Claims(c, q, j, p) => j = i
  PROVE  Sound([c EXCEPT !.pools[p] = [env |-> i, cfg |-> cfg],
                         !.envs[i] = [pool |-> p, cfg |-> cfg]], q, rs)
<1> DEFINE x == [env |-> i, cfg |-> cfg]
           v == [pool |-> p, cfg |-> cfg]
           b == [c EXCEPT !.pools = [c.pools EXCEPT ![p] = x]]
           d == [b EXCEPT !.envs = [c.envs EXCEPT ![i] = v]]
<1>1. x \in PoolRec /\ v \in EnvRec /\ x # None /\ v # None
  <2>1. x \in PoolRec /\ v \in EnvRec
    BY DEF PoolRec, EnvRec
  <2> QED BY <2>1, Apart
<1>2. x.env = i /\ v.pool = p
  OBVIOUS
<1> HIDE DEF x, v
<1>3. /\ [c.pools EXCEPT ![p] = x] \in [Pool -> PoolRec \cup {None}]
      /\ [c.envs EXCEPT ![i] = v] \in [Env -> EnvRec \cup {None}]
      /\ c \in Cluster
  BY <1>1 DEF Sound, Typed, Cluster
<1>4. d \in Cluster
  BY <1>3, ClusterUpdates
<1>5. /\ d.execs = c.execs /\ d.nodes = c.nodes
      /\ \A y \in Pool : d.pools[y] = IF y = p THEN x ELSE c.pools[y]
      /\ \A j \in Env : d.envs[j] = IF j = i THEN v ELSE c.envs[j]
  BY <1>3 DEF Cluster
<1>6. d = [c EXCEPT !.pools[p] = x, !.envs[i] = v]
  BY <1>3 DEF Cluster
<1> HIDE DEF b, d
<1>7. Typed(d, q, rs)
  BY <1>4 DEF Sound, Typed
<1>8. PoolsExist(d)
  <2>1. \A e \in Exec : c.execs[e] # None => c.execs[e].pool \in Pool
    BY <1>3, ClusterParts DEF ExecRec
  <2> QED BY <1>1, <1>5, <2>1 DEF Sound, PoolsExist
<1>9. UniqueClaims(d, q)
  <2>1. \A j \in Env, y \in Pool :
          Claims(d, q, j, y) => Claims(c, q, j, y) \/ (j = i /\ y = p)
    BY <1>1, <1>2, <1>5 DEF Claims
  <2> QED BY <2>1, OneMoreClaim DEF Sound
<1>10. Sound(d, q, rs)
  BY <1>5, <1>7, <1>8, <1>9, SoundSameExecs
<1> QED BY <1>6, <1>10 DEF x, v

\* The entry of an environment may go at any time.
LEMMA SoundDropEnvironment ==
  ASSUME NEW c, NEW q, NEW rs, Sound(c, q, rs), NEW i \in Env
  PROVE  Sound([c EXCEPT !.envs[i] = None], q, rs)
<1> DEFINE d == [c EXCEPT !.envs = [c.envs EXCEPT ![i] = None]]
<1>1. c \in Cluster /\ [c.envs EXCEPT ![i] = None] \in [Env -> EnvRec \cup {None}]
  BY DEF Sound, Typed, Cluster
<1>2. /\ d \in Cluster /\ d.execs = c.execs /\ d.nodes = c.nodes /\ d.pools = c.pools
      /\ \A j \in Env : d.envs[j] = IF j = i THEN None ELSE c.envs[j]
  <2>1. d \in Cluster
    BY <1>1, ClusterUpdates
  <2> QED BY <1>1, <2>1 DEF Cluster
<1> HIDE DEF d
<1>3. Typed(d, q, rs) /\ PoolsExist(d)
  BY <1>2 DEF Sound, Typed, PoolsExist
<1>4. UniqueClaims(d, q)
  <2>1. \A j \in Env, y \in Pool : Claims(d, q, j, y) => Claims(c, q, j, y)
    BY <1>2 DEF Claims
  <2> QED BY <2>1, FewerClaims DEF Sound
<1>5. Sound(d, q, rs)
  BY <1>2, <1>3, <1>4, SoundSameExecs
<1> QED BY <1>5 DEF d

-----------------------------------------------------------------------------
(* Requests. *)

\* A request may come, change or go if what it claims was claimed before.
LEMMA SoundRequest ==
  ASSUME NEW c, NEW q, NEW rs, Sound(c, q, rs), NEW qq, Typed(c, qq, rs),
         \A r \in Req, i \in Env :
           qq[r] # None /\ qq[r].env = i => Claims(c, q, i, qq[r].old.pool)
  PROVE  Sound(c, qq, rs)
<1>1. \A i \in Env, p \in Pool : Claims(c, qq, i, p) => Claims(c, q, i, p)
  BY DEF Claims
<1>2. UniqueClaims(c, qq)
  BY <1>1, FewerClaims DEF Sound
<1> QED BY <1>2 DEF Sound

\* A request may be forgotten.
LEMMA SoundForget ==
  ASSUME NEW c, NEW q, NEW rs, Sound(c, q, rs), NEW r \in Req
  PROVE  Sound(c, [q EXCEPT ![r] = None], rs)
<1> DEFINE qq == [q EXCEPT ![r] = None]
<1>1. q \in [Req -> CreateReq \cup UpdateReq \cup {None}]
  BY DEF Sound, Typed
<1>2. \A x \in Req : qq[x] = IF x = r THEN None ELSE q[x]
  BY <1>1
<1>3. qq \in [Req -> CreateReq \cup UpdateReq \cup {None}]
  BY <1>1
<1> HIDE DEF qq
<1>4. Typed(c, qq, rs)
  BY <1>2, <1>3 DEF Sound, Typed
<1>5. ASSUME NEW x \in Req, NEW i \in Env, qq[x] # None, qq[x].env = i
      PROVE  Claims(c, q, i, qq[x].old.pool)
  BY <1>2, <1>5 DEF Claims
<1>6. Sound(c, qq, rs)
  BY <1>4, <1>5, SoundRequest
<1> QED BY <1>6 DEF qq

-----------------------------------------------------------------------------
(* Replacing the pool of an environment. *)

LEMMA RequeueLemma ==
  ASSUME NEW c \in Cluster, NEW old \in Pool, NEW new \in Pool,
         NEW d, d = Requeue(c, old, new)
  PROVE  /\ d \in Cluster
         /\ d.images = c.images /\ d.pools = c.pools /\ d.envs = c.envs
         /\ \A n \in Node : d.nodes[n] = None <=> c.nodes[n] = None
         /\ \A e \in Exec :
              IF e \in Movable(c, old)
              THEN /\ d.execs[e] # None /\ d.execs[e].status = "queued"
                   /\ d.execs[e].pool = new /\ d.execs[e].node = None
                   /\ d.execs[e].env = c.execs[e].env
              ELSE d.execs[e] = c.execs[e]
<1> DEFINE moved == Movable(c, old)
           freed(n) == Cardinality({e \in moved : c.execs[e].status = "assigned"
                                                  /\ c.execs[e].node = n})
           size == IF c.pools[old] = None THEN 0 ELSE c.pools[old].cfg.size
           f == [n \in Node |-> [c.nodes[n] EXCEPT !.used = Monus(c.nodes[n].used, size * freed(n))]]
           b == [c EXCEPT !.nodes = [n \in Node |-> IF c.nodes[n] = None THEN None ELSE f[n]]]
           execs == [e \in Exec |->
              IF e \in moved
              THEN [c.execs[e] EXCEPT !.pool = new, !.node = None, !.status = "queued"]
              ELSE c.execs[e]]
<1>1. size \in Nat
  BY ClusterParts DEF PoolRec, Config
<1>2. ASSUME NEW n \in Node, c.nodes[n] # None PROVE f[n] \in NodeRec
  <2>1. c.nodes[n] \in NodeRec /\ c.nodes[n].used \in Nat
    BY <1>2, ClusterParts DEF NodeRec
  <2>2. freed(n) \in Nat
    BY FiniteParts DEF Movable
  <2> HIDE DEF size, freed
  <2>3. Monus(c.nodes[n].used, size * freed(n)) \in Nat
    BY <1>1, <2>1, <2>2, ProductType, MonusType
  <2> QED BY <2>1, <2>3, NodeUpdates
<1>3. ASSUME NEW e \in moved
      PROVE  LET x == [c.execs[e] EXCEPT !.pool = new, !.node = None, !.status = "queued"]
             IN  /\ x \in ExecRec /\ x # None /\ x.status = "queued" /\ x.pool = new
                 /\ x.node = None /\ x.env = c.execs[e].env
  <2>1. e \in Exec /\ c.execs[e] \in ExecRec
    BY ClusterParts DEF Movable
  <2> DEFINE x == [c.execs[e] EXCEPT !.pool = new, !.node = None, !.status = "queued"]
  <2>2. /\ x \in ExecRec /\ x.status = "queued" /\ x.pool = new
        /\ x.node = None /\ x.env = c.execs[e].env
    BY <2>1 DEF ExecRec
  <2> QED BY <2>2, Apart
<1>4. execs \in [Exec -> ExecRec \cup {None}]
  BY <1>3 DEF Cluster
<1>5. d = [b EXCEPT !.execs = execs]
  BY DEF Requeue, Cluster
<1> HIDE DEF f, execs
<1>6. /\ b \in Cluster
      /\ b.images = c.images /\ b.pools = c.pools /\ b.envs = c.envs
      /\ b.execs = c.execs
      /\ \A n \in Node : b.nodes[n] = None <=> c.nodes[n] = None
  BY <1>2, AllNodesChanged
<1> HIDE DEF b
<1>7. d \in Cluster
  BY <1>4, <1>5, <1>6, ClusterUpdates
<1>8. /\ d.images = b.images /\ d.pools = b.pools /\ d.envs = b.envs
      /\ d.nodes = b.nodes /\ d.execs = execs
  BY <1>5, <1>6 DEF Cluster
<1>9. \A e \in Exec :
        IF e \in moved
        THEN /\ d.execs[e] # None /\ d.execs[e].status = "queued"
             /\ d.execs[e].pool = new /\ d.execs[e].node = None
             /\ d.execs[e].env = c.execs[e].env
        ELSE d.execs[e] = c.execs[e]
  BY <1>3, <1>8 DEF execs
<1> QED BY <1>6, <1>7, <1>8, <1>9

Running(c, p) == \E e \in Exec : /\ c.execs[e] # None
                                 /\ c.execs[e].pool = p
                                 /\ c.execs[e].status = "running"

LEMMA RetireLemma ==
  ASSUME NEW c \in Cluster, NEW p \in Pool, Running(c, p) => c.pools[p] # None,
         NEW d, d = RetirePool(c, p)
  PROVE  /\ d \in Cluster
         /\ d.images = c.images /\ d.envs = c.envs /\ d.execs = c.execs
         /\ \A n \in Node : d.nodes[n] = None <=> c.nodes[n] = None
         /\ \A x \in Pool \ {p} : d.pools[x] = c.pools[x]
         /\ d.pools[p] # None <=> Running(c, p)
         /\ d.pools[p] # None =>
              /\ c.pools[p] # None /\ d.pools[p].env = c.pools[p].env
              /\ d.pools[p].cfg = [c.pools[p].cfg EXCEPT !.warm = 0]
<1>1. CASE Running(c, p)
  <2> DEFINE x == [c.pools[p] EXCEPT !.cfg = [c.pools[p].cfg EXCEPT !.warm = 0]]
  <2>1. c.pools[p] \in PoolRec
    BY <1>1, ClusterParts
  <2>2. /\ x \in PoolRec /\ x.env = c.pools[p].env
        /\ x.cfg = [c.pools[p].cfg EXCEPT !.warm = 0]
    BY <2>1 DEF PoolRec, Config
  <2>3. d = [c EXCEPT !.pools = [c.pools EXCEPT ![p] = x]]
    BY <1>1, <2>1 DEF RetirePool, Running, PoolRec, Cluster
  <2> HIDE DEF x
  <2>4. [c.pools EXCEPT ![p] = x] \in [Pool -> PoolRec \cup {None}]
    BY <2>2 DEF Cluster
  <2>5. d \in Cluster
    BY <2>3, <2>4, ClusterUpdates
  <2>6. /\ d.images = c.images /\ d.envs = c.envs /\ d.execs = c.execs
        /\ d.nodes = c.nodes /\ d.pools = [c.pools EXCEPT ![p] = x]
    BY <2>3 DEF Cluster
  <2>7. \A y \in Pool : d.pools[y] = IF y = p THEN x ELSE c.pools[y]
    BY <2>6 DEF Cluster
  <2> QED BY <1>1, <2>2, <2>5, <2>6, <2>7, Apart
<1>2. CASE ~ Running(c, p)
  <2>1. d = DropPool(c, p)
    BY <1>2 DEF RetirePool, Running
  <2>2. /\ d \in Cluster
        /\ d.images = c.images /\ d.envs = c.envs /\ d.execs = c.execs
        /\ d.pools = [c.pools EXCEPT ![p] = None]
        /\ \A n \in Node : d.nodes[n] = None <=> c.nodes[n] = None
    BY <2>1, DropPoolLemma
  <2>3. \A y \in Pool : d.pools[y] = IF y = p THEN None ELSE c.pools[y]
    BY <2>2 DEF Cluster
  <2> QED BY <1>2, <2>2, <2>3
<1> QED BY <1>1, <1>2

\* What restart_environment_pool leaves: the old pool stays while something runs
\* on it, what was not handed out is queued on the new one.
Restarted(c, i, old, new, cfg, d) ==
  /\ d \in Cluster /\ d.images = c.images
  /\ \A n \in Node : d.nodes[n] = None <=> c.nodes[n] = None
  /\ \A e \in Exec :
       IF e \in Movable(c, old)
       THEN /\ d.execs[e] # None /\ d.execs[e].status = "queued"
            /\ d.execs[e].pool = new /\ d.execs[e].node = None
            /\ d.execs[e].env = c.execs[e].env
       ELSE d.execs[e] = c.execs[e]
  /\ \A y \in Pool \ {old, new} : d.pools[y] = c.pools[y]
  /\ d.pools[new] = [env |-> i, cfg |-> cfg] /\ d.pools[new] # None
  /\ d.pools[old] # None <=> Running(c, old)
  /\ d.pools[old] # None =>
       /\ c.pools[old] # None /\ d.pools[old].env = c.pools[old].env
       /\ d.pools[old].cfg = [c.pools[old].cfg EXCEPT !.warm = 0]
  /\ \A j \in Env : d.envs[j] = IF j = i THEN [pool |-> new, cfg |-> cfg] ELSE c.envs[j]
  /\ d.envs[i] # None

LEMMA PoolReplaced ==
  ASSUME NEW c \in Cluster, NEW i \in Env, NEW old \in Pool, NEW new \in Pool,
         NEW cfg \in Config, old # new, Running(c, old) => c.pools[old] # None,
         NEW d, d = RestartPool(c, i, old, new, cfg)
  PROVE  Restarted(c, i, old, new, cfg, d)
<1> DEFINE a == Requeue(c, old, new)
           b == RetirePool(a, old)
           x == [env |-> i, cfg |-> cfg]
           v == [pool |-> new, cfg |-> cfg]
           moved == Movable(c, old)
<1>1. /\ a \in Cluster
      /\ a.images = c.images /\ a.pools = c.pools /\ a.envs = c.envs
      /\ \A n \in Node : a.nodes[n] = None <=> c.nodes[n] = None
      /\ \A e \in Exec :
           IF e \in moved
           THEN /\ a.execs[e] # None /\ a.execs[e].status = "queued"
                /\ a.execs[e].pool = new /\ a.execs[e].node = None
                /\ a.execs[e].env = c.execs[e].env
           ELSE a.execs[e] = c.execs[e]
  BY RequeueLemma
<1>2. \A e \in Exec : e \in moved => c.execs[e].status # "running"
  BY DEF Movable
<1>3. Running(a, old) <=> Running(c, old)
  <2> HIDE DEF a, moved
  <2> QED BY <1>1, <1>2 DEF Running
<1>4. Running(a, old) => a.pools[old] # None
  <2> HIDE DEF a, moved
  <2> QED BY <1>1, <1>3
<1>5. /\ b \in Cluster
      /\ b.images = a.images /\ b.envs = a.envs /\ b.execs = a.execs
      /\ \A n \in Node : b.nodes[n] = None <=> a.nodes[n] = None
      /\ \A y \in Pool \ {old} : b.pools[y] = a.pools[y]
      /\ b.pools[old] # None <=> Running(a, old)
      /\ b.pools[old] # None =>
           /\ a.pools[old] # None /\ b.pools[old].env = a.pools[old].env
           /\ b.pools[old].cfg = [a.pools[old].cfg EXCEPT !.warm = 0]
  BY <1>1, <1>4, RetireLemma
<1>6. x \in PoolRec /\ v \in EnvRec /\ x # None /\ v # None
  <2>1. x \in PoolRec /\ v \in EnvRec
    BY DEF PoolRec, EnvRec
  <2> QED BY <2>1, Apart
<1>7. d = [b EXCEPT !.pools[new] = x, !.envs[i] = v]
  BY DEF RestartPool
<1> HIDE DEF a, b, x, v, moved
<1>8. /\ d \in Cluster /\ d.execs = a.execs /\ d.nodes = b.nodes /\ d.images = a.images
      /\ \A y \in Pool : d.pools[y] = IF y = new THEN x ELSE b.pools[y]
      /\ \A j \in Env : d.envs[j] = IF j = i THEN v ELSE c.envs[j]
  <2> DEFINE g == [b EXCEPT !.pools = [b.pools EXCEPT ![new] = x]]
  <2>1. /\ [b.pools EXCEPT ![new] = x] \in [Pool -> PoolRec \cup {None}]
        /\ [b.envs EXCEPT ![i] = v] \in [Env -> EnvRec \cup {None}]
    BY <1>5, <1>6 DEF Cluster
  <2>2. g \in Cluster
    BY <1>5, <2>1, ClusterUpdates
  <2>3. d = [g EXCEPT !.envs = [b.envs EXCEPT ![i] = v]]
    BY <1>5, <1>7 DEF Cluster
  <2>4. d \in Cluster
    <3> HIDE DEF g
    <3> QED BY ONLY <2>1, <2>2, <2>3, ClusterUpdates
  <2>5. /\ d.execs = b.execs /\ d.nodes = b.nodes /\ d.images = b.images
        /\ d.pools = [b.pools EXCEPT ![new] = x]
        /\ d.envs = [b.envs EXCEPT ![i] = v]
    BY <1>5, <2>3 DEF Cluster
  <2> HIDE DEF g
  <2> QED BY <1>1, <1>5, <2>4, <2>5 DEF Cluster
<1>9. /\ d \in Cluster /\ d.images = c.images
      /\ \A n \in Node : d.nodes[n] = None <=> c.nodes[n] = None
      /\ \A e \in Exec :
           IF e \in moved
           THEN /\ d.execs[e] # None /\ d.execs[e].status = "queued"
                /\ d.execs[e].pool = new /\ d.execs[e].node = None
                /\ d.execs[e].env = c.execs[e].env
           ELSE d.execs[e] = c.execs[e]
  BY <1>1, <1>5, <1>8
<1>10. /\ \A y \in Pool \ {old, new} : d.pools[y] = c.pools[y]
       /\ d.pools[new] = x /\ d.pools[new] # None
       /\ d.pools[old] # None <=> Running(c, old)
       /\ d.pools[old] # None =>
            /\ c.pools[old] # None /\ d.pools[old].env = c.pools[old].env
            /\ d.pools[old].cfg = [c.pools[old].cfg EXCEPT !.warm = 0]
  BY <1>1, <1>3, <1>5, <1>6, <1>8
<1>11. /\ \A j \in Env : d.envs[j] = IF j = i THEN v ELSE c.envs[j]
       /\ d.envs[i] # None
  BY <1>6, <1>8
<1> QED BY <1>9, <1>10, <1>11 DEF x, v, moved, Restarted

LEMMA RestartParts ==
  ASSUME NEW c \in Cluster, PoolsExist(c),
         NEW i \in Env, NEW old \in Pool, NEW new \in Pool, NEW cfg \in Config, old # new,
         NEW d, d = RestartPool(c, i, old, new, cfg)
  PROVE  Restarted(c, i, old, new, cfg, d)
<1>1. Running(c, old) => c.pools[old] # None
  BY DEF Running, PoolsExist
<1> QED BY <1>1, PoolReplaced

\* restart_environment_pool keeps Sound: environment i goes by the old pool, and
\* nobody by the new one.
LEMMA SoundRestart ==
  ASSUME NEW c, NEW q, NEW rs, Sound(c, q, rs),
         NEW i \in Env, NEW old \in Pool, NEW new \in Pool, NEW cfg \in Config,
         Claims(c, q, i, old), \A j \in Env : ~ Claims(c, q, j, new),
         NEW d, d = RestartPool(c, i, old, new, cfg)
  PROVE  Sound(d, q, rs)
<1> DEFINE x == [env |-> i, cfg |-> cfg]
           v == [pool |-> new, cfg |-> cfg]
           moved == Movable(c, old)
<1>1. c \in Cluster /\ PoolsExist(c) /\ old # new
  BY DEF Sound, Typed
<1>2. /\ d \in Cluster /\ d.images = c.images
      /\ \A n \in Node : d.nodes[n] = None <=> c.nodes[n] = None
      /\ \A e \in Exec :
           IF e \in moved
           THEN /\ d.execs[e] # None /\ d.execs[e].status = "queued"
                /\ d.execs[e].pool = new /\ d.execs[e].node = None
                /\ d.execs[e].env = c.execs[e].env
           ELSE d.execs[e] = c.execs[e]
      /\ \A y \in Pool \ {old, new} : d.pools[y] = c.pools[y]
      /\ d.pools[new] = x /\ d.pools[new] # None
      /\ d.pools[old] # None <=> Running(c, old)
      /\ d.pools[old] # None => c.pools[old] # None /\ d.pools[old].env = c.pools[old].env
      /\ \A j \in Env : d.envs[j] = IF j = i THEN v ELSE c.envs[j]
      /\ d.envs[i] # None
  <2>1. Restarted(c, i, old, new, cfg, d)
    BY <1>1, RestartParts
  <2> QED BY <2>1 DEF Restarted
<1>3. \A e \in Exec : e \in moved => /\ c.execs[e] # None /\ c.execs[e].pool = old
                                     /\ c.execs[e].status # "running"
  BY DEF Movable
<1>4. x.env = i /\ v.pool = new
  OBVIOUS
<1> HIDE DEF x, v, moved
<1>5. \A e \in Exec : c.execs[e] # None =>
         /\ c.execs[e].pool \in Pool
         /\ c.execs[e].node \in Node \cup {None}
         /\ c.execs[e].status \in {"queued", "assigned", "running"}
  BY <1>1, ClusterParts DEF ExecRec
<1>6. Typed(d, q, rs)
  BY <1>2 DEF Sound, Typed
<1>7. PoolsExist(d)
  <2> SUFFICES ASSUME NEW e \in Exec, d.execs[e] # None
               PROVE  d.pools[d.execs[e].pool] # None
    BY DEF PoolsExist
  <2>1. CASE e \in moved
    BY <1>2, <2>1
  <2>2. CASE e \notin moved
    <3>1. d.execs[e] = c.execs[e] /\ c.execs[e] # None
      BY <1>2, <2>2
    <3>2. c.execs[e].pool \in Pool /\ c.pools[c.execs[e].pool] # None
      BY <1>5, <3>1 DEF Sound, PoolsExist
    <3>3. CASE c.execs[e].pool = old
      <4>1. c.execs[e].status = "running"
        BY <1>5, <2>2, <3>1, <3>3 DEF moved, Movable
      <4>2. Running(c, old)
        BY <3>1, <3>3, <4>1 DEF Running
      <4> QED BY <1>2, <3>1, <3>3, <4>2
    <3>4. CASE c.execs[e].pool # old
      BY <1>2, <3>1, <3>2, <3>4
    <3> QED BY <3>3, <3>4
  <2> QED BY <2>1, <2>2
<1>8. NodesKnown(d)
  <2> SUFFICES ASSUME NEW e \in Exec, d.execs[e] # None
               PROVE  IF IsQueued(d, e) THEN d.execs[e].node = None
                      ELSE d.execs[e].node # None /\ d.nodes[d.execs[e].node] # None
    BY DEF NodesKnown
  <2>1. CASE e \in moved
    BY <1>2, <2>1 DEF IsQueued
  <2>2. CASE e \notin moved
    <3>1. d.execs[e] = c.execs[e] /\ c.execs[e] # None
      BY <1>2, <2>2
    <3> QED BY <1>2, <1>5, <3>1 DEF Sound, NodesKnown, IsQueued
  <2> QED BY <2>1, <2>2
<1>9. Expected(d, rs)
  <2> SUFFICES ASSUME NEW run \in rs PROVE d.execs[run[2]] = c.execs[run[2]]
    BY DEF Sound, Expected
  <2>1. run[2] \in Exec /\ c.execs[run[2]].status = "running"
    BY DEF Sound, Typed, Expected
  <2>2. run[2] \notin moved
    BY <1>3, <2>1
  <2> QED BY <1>2, <2>1, <2>2
<1>10. UniqueClaims(d, q)
  <2>1. ASSUME NEW j \in Env, NEW y \in Pool, Claims(d, q, j, y)
        PROVE  Claims(c, q, j, y) \/ (j = i /\ y = new)
    <3>1. CASE d.envs[j] # None /\ d.envs[j].pool = y
      BY <1>2, <1>4, <3>1 DEF Claims
    <3>2. CASE d.pools[y] # None /\ d.pools[y].env = j
      <4>1. CASE y = new
        BY <1>2, <1>4, <3>2, <4>1
      <4>2. CASE y # new
        <5>1. c.pools[y] # None /\ c.pools[y].env = j
          BY <1>2, <3>2, <4>2
        <5> QED BY <5>1 DEF Claims
      <4> QED BY <4>1, <4>2
    <3>3. CASE \E e \in Exec : d.execs[e] # None /\ d.execs[e].pool = y /\ d.execs[e].env = j
      <4>1. PICK e \in Exec : d.execs[e] # None /\ d.execs[e].pool = y /\ d.execs[e].env = j
        BY <3>3
      <4>2. CASE e \in moved
        <5>1. y = new /\ c.execs[e] # None /\ c.execs[e].pool = old /\ c.execs[e].env = j
          BY <1>2, <1>3, <4>1, <4>2
        <5>2. Claims(c, q, j, old)
          BY <5>1 DEF Claims
        <5>3. j = i
          BY <5>2 DEF Sound, UniqueClaims
        <5> QED BY <5>1, <5>3
      <4>3. CASE e \notin moved
        BY <1>2, <4>1, <4>3 DEF Claims
      <4> QED BY <4>2, <4>3
    <3>4. CASE \E r \in Req : q[r] # None /\ q[r].env = j /\ q[r].old.pool = y
      BY <3>4 DEF Claims
    <3> QED BY <2>1, <3>1, <3>2, <3>3, <3>4 DEF Claims
  <2>2. UniqueClaims(c, q)
    BY DEF Sound
  <2>3. \A j \in Env : Claims(c, q, j, new) => j = i
    OBVIOUS
  <2> QED BY <2>1, <2>2, <2>3, OneMoreClaim
<1> QED BY <1>6, <1>7, <1>8, <1>9, <1>10 DEF Sound

-----------------------------------------------------------------------------
(* Executions. *)

\* A cluster with one execution replaced.
LEMMA ExecChanged ==
  ASSUME NEW c \in Cluster, NEW e \in Exec, NEW x \in ExecRec \cup {None}
  PROVE  LET d == [c EXCEPT !.execs = [c.execs EXCEPT ![e] = x]]
         IN  /\ d \in Cluster
             /\ d.pools = c.pools /\ d.envs = c.envs /\ d.nodes = c.nodes
             /\ \A f \in Exec : d.execs[f] = IF f = e THEN x ELSE c.execs[f]
<1> DEFINE d == [c EXCEPT !.execs = [c.execs EXCEPT ![e] = x]]
<1>1. [c.execs EXCEPT ![e] = x] \in [Exec -> ExecRec \cup {None}]
  BY DEF Cluster
<1>2. d \in Cluster
  BY <1>1, ClusterUpdates
<1>3. /\ d.pools = c.pools /\ d.envs = c.envs /\ d.nodes = c.nodes
      /\ d.execs = [c.execs EXCEPT ![e] = x]
  BY DEF Cluster
<1>4. \A f \in Exec : d.execs[f] = IF f = e THEN x ELSE c.execs[f]
  BY <1>3 DEF Cluster
<1> QED BY <1>2, <1>3, <1>4

\* A submission to a pool its environment goes by.
LEMMA SoundSubmit ==
  ASSUME NEW c, NEW q, NEW rs, Sound(c, q, rs),
         NEW e \in Exec, NEW i \in Env, NEW p \in Pool,
         c.execs[e] = None, c.pools[p] # None, Claims(c, q, i, p),
         \A n \in Node : <<n, e>> \notin rs,
         NEW d, d = [c EXCEPT !.execs[e] =
                       [status |-> "queued", pool |-> p, node |-> None, env |-> i]]
  PROVE  Sound(d, q, rs) /\ IsQueued(d, e)
<1> DEFINE x == [status |-> "queued", pool |-> p, node |-> None, env |-> i]
<1>1. x \in ExecRec
  BY DEF ExecRec
<1>2. /\ x # None /\ x.status = "queued" /\ x.pool = p
      /\ x.node = None /\ x.env = i
  BY <1>1, Apart
<1>3. c \in Cluster /\ d = [c EXCEPT !.execs = [c.execs EXCEPT ![e] = x]]
  BY DEF Sound, Typed
<1> HIDE DEF x
<1>4. /\ d \in Cluster
      /\ d.pools = c.pools /\ d.envs = c.envs /\ d.nodes = c.nodes
      /\ \A f \in Exec : d.execs[f] = IF f = e THEN x ELSE c.execs[f]
  <2> DEFINE g == [c EXCEPT !.execs = [c.execs EXCEPT ![e] = x]]
  <2>1. /\ g \in Cluster
        /\ g.pools = c.pools /\ g.envs = c.envs /\ g.nodes = c.nodes
        /\ \A f \in Exec : g.execs[f] = IF f = e THEN x ELSE c.execs[f]
    BY <1>1, <1>3, ExecChanged
  <2> QED BY <1>3, <2>1
<1>5. Typed(d, q, rs)
  BY <1>4 DEF Sound, Typed
<1>6. PoolsExist(d)
  BY <1>2, <1>4 DEF Sound, PoolsExist
<1>7. NodesKnown(d)
  BY <1>2, <1>4 DEF Sound, NodesKnown, IsQueued
<1>8. Expected(d, rs)
  <2> SUFFICES ASSUME NEW run \in rs PROVE d.execs[run[2]] = c.execs[run[2]]
    BY DEF Sound, Expected
  <2>1. run[1] \in Node /\ run[2] \in Exec /\ run = <<run[1], run[2]>>
    BY DEF Sound, Typed
  <2> QED BY <1>4, <2>1
<1>9. UniqueClaims(d, q)
  <2>1. \A j \in Env, y \in Pool : Claims(d, q, j, y) => Claims(c, q, j, y)
    BY <1>2, <1>4 DEF Claims
  <2> QED BY <2>1, FewerClaims DEF Sound
<1> QED BY <1>2, <1>4, <1>5, <1>6, <1>7, <1>8, <1>9 DEF Sound, IsQueued

\* Handing an assigned execution to its node.
LEMMA SoundHandOut ==
  ASSUME NEW c, NEW q, NEW rs, Sound(c, q, rs), NEW e \in Exec, NEW n \in Node,
         c.execs[e] # None, c.execs[e].node = n, c.execs[e].status = "assigned"
  PROVE  Sound([c EXCEPT !.execs[e].status = "running"], q, rs \cup {<<n, e>>})
<1> DEFINE x == [c.execs[e] EXCEPT !.status = "running"]
           d == [c EXCEPT !.execs = [c.execs EXCEPT ![e] = x]]
           rr == rs \cup {<<n, e>>}
<1>1. c \in Cluster /\ c.execs[e] \in ExecRec
  BY ClusterParts DEF Sound, Typed
<1>2. /\ x \in ExecRec /\ x.status = "running" /\ x.node = n
      /\ x.pool = c.execs[e].pool /\ x.env = c.execs[e].env
  BY <1>1 DEF ExecRec
<1>3. x # None
  BY <1>2, Apart
<1>4. d = [c EXCEPT !.execs[e].status = "running"]
  BY <1>1 DEF Cluster
<1> HIDE DEF x
<1>5. /\ d \in Cluster
      /\ d.pools = c.pools /\ d.envs = c.envs /\ d.nodes = c.nodes
      /\ \A f \in Exec : d.execs[f] = IF f = e THEN x ELSE c.execs[f]
  BY <1>1, <1>2, ExecChanged
<1> HIDE DEF d
<1>6. Typed(d, q, rr)
  BY <1>5 DEF Sound, Typed
<1>7. PoolsExist(d)
  BY <1>2, <1>5 DEF Sound, PoolsExist
<1>8. NodesKnown(d)
  BY <1>2, <1>5 DEF Sound, NodesKnown, IsQueued
<1>9. Expected(d, rr)
  <2> SUFFICES ASSUME NEW run \in rr
               PROVE  /\ d.execs[run[2]] # None
                      /\ d.execs[run[2]].node = run[1]
                      /\ d.execs[run[2]].status = "running"
    BY DEF Expected
  <2>1. CASE run = <<n, e>>
    BY <1>2, <1>3, <1>5, <2>1
  <2>2. CASE run \in rs
    <3>1. /\ run[2] \in Exec /\ c.execs[run[2]] # None
          /\ c.execs[run[2]].node = run[1] /\ c.execs[run[2]].status = "running"
      BY <2>2 DEF Sound, Typed, Expected
    <3> QED BY <1>5, <3>1
  <2> QED BY <2>1, <2>2
<1>10. UniqueClaims(d, q)
  <2>1. \A j \in Env, y \in Pool : Claims(d, q, j, y) => Claims(c, q, j, y)
    BY <1>2, <1>5 DEF Claims
  <2> QED BY <2>1, FewerClaims DEF Sound
<1>11. Sound(d, q, rr)
  BY <1>6, <1>7, <1>8, <1>9, <1>10 DEF Sound
<1> QED BY <1>4, <1>11

\* Forgetting an execution together with the run of its node.
LEMMA SoundForgetExec ==
  ASSUME NEW c, NEW q, NEW rs, Sound(c, q, rs), NEW e \in Exec, NEW n \in Node,
         <<n, e>> \in rs
  PROVE  Sound([c EXCEPT !.execs[e] = None], q, rs \ {<<n, e>>})
<1> DEFINE d == [c EXCEPT !.execs = [c.execs EXCEPT ![e] = None]]
           rr == rs \ {<<n, e>>}
<1>1. c \in Cluster
  BY DEF Sound, Typed
<1>2. /\ d \in Cluster
      /\ d.pools = c.pools /\ d.envs = c.envs /\ d.nodes = c.nodes
      /\ \A f \in Exec : d.execs[f] = IF f = e THEN None ELSE c.execs[f]
  BY <1>1, ExecChanged
<1> HIDE DEF d
<1>3. Typed(d, q, rr) /\ PoolsExist(d) /\ NodesKnown(d)
  BY <1>2 DEF Sound, Typed, PoolsExist, NodesKnown, IsQueued
<1>4. Expected(d, rr)
  <2> SUFFICES ASSUME NEW run \in rr PROVE d.execs[run[2]] = c.execs[run[2]]
    BY DEF Sound, Expected
  <2>1. run \in rs /\ run[2] \in Exec /\ run = <<run[1], run[2]>>
    BY DEF Sound, Typed
  <2>2. run[2] = e => run[1] = n
    <3>1. \A r \in rs : c.execs[r[2]].node = r[1]
      BY DEF Sound, Expected
    <3>2. c.execs[e].node = n
      BY <3>1
    <3> QED BY <2>1, <3>1, <3>2
  <2> QED BY <1>2, <2>1, <2>2
<1>5. UniqueClaims(d, q)
  <2>1. \A j \in Env, y \in Pool : Claims(d, q, j, y) => Claims(c, q, j, y)
    BY <1>2 DEF Claims
  <2> QED BY <2>1, FewerClaims DEF Sound
<1>6. Sound(d, q, rr)
  BY <1>3, <1>4, <1>5 DEF Sound
<1> QED BY <1>6 DEF d

LEMMA ReleaseLemma ==
  ASSUME NEW c \in Cluster, NEW e \in Exec, NEW keepIdle, c.execs[e] # None
  PROVE  Release(c, e, keepIdle) \in Cluster /\ SameWork(c, Release(c, e, keepIdle))
<1> DEFINE p == c.execs[e].pool
           n == c.execs[e].node
           node == c.nodes[n]
<1>1. CASE n = None \/ c.pools[p] = None
  BY <1>1 DEF Release, SameWork
<1>2. CASE n # None /\ c.pools[p] # None /\ node = None
  BY <1>2 DEF Release, SameWork
<1>3. CASE n # None /\ c.pools[p] # None /\ node # None
  <2>1. n \in Node /\ p \in Pool
    BY <1>3, ClusterParts DEF ExecRec
  <2>2. node \in NodeRec /\ c.pools[p].cfg.size \in Nat
    BY <1>3, <2>1, ClusterParts DEF PoolRec, Config
  <2>3. node.used \in Nat /\ node.idle[p] \in Nat
    BY <2>1, <2>2 DEF NodeRec
  <2>4. CASE keepIdle
    <3> DEFINE x == [node EXCEPT !.idle[p] = node.idle[p] + 1]
    <3>1. node.idle[p] + 1 \in Nat
      BY <2>3
    <3>2. x \in NodeRec
      BY <2>1, <2>2, <3>1, NodeUpdates
    <3>3. Release(c, e, keepIdle) = [c EXCEPT !.nodes = [c.nodes EXCEPT ![n] = x]]
      BY <1>3, <2>1, <2>2, <2>4 DEF Release, Cluster, NodeRec
    <3> HIDE DEF x
    <3> QED BY <2>1, <3>2, <3>3, NodeChanged
  <2>5. CASE ~ keepIdle
    <3> DEFINE x == [node EXCEPT !.used = Monus(node.used, c.pools[p].cfg.size)]
    <3>1. x \in NodeRec
      <4>1. Monus(node.used, c.pools[p].cfg.size) \in Nat
        BY <2>2, <2>3, MonusType
      <4> QED BY <2>2, <4>1, NodeUpdates
    <3>2. Release(c, e, keepIdle) = [c EXCEPT !.nodes = [c.nodes EXCEPT ![n] = x]]
      BY <1>3, <2>1, <2>2, <2>5 DEF Release, Cluster, NodeRec
    <3> HIDE DEF x
    <3> QED BY <2>1, <3>1, <3>2, NodeChanged
  <2> QED BY <2>4, <2>5
<1> QED BY <1>1, <1>2, <1>3

-----------------------------------------------------------------------------
(* The handlers of images and VM pools keep the invariant. *)

\* What a step must establish: the invariant in its next state.
Kept == Sound(cluster', requests', runs') /\ files' \subseteq Artifact

\* From c to d, before the queue is looked at, executions end, go back to the
\* queue, or stay as they are.
Requeues(c, d) ==
  \A e \in Exec : d.execs[e] = c.execs[e] \/ d.execs[e] = None \/ IsQueued(d, e)

\* The step ends with schedule_queued.
Swept == \E d \in Cluster : cluster' = ScheduleQueued(d) /\ Requeues(cluster, d)

\* Only images and nodes change, and no node goes.
KeepsWork(c, d) ==
  /\ d.pools = c.pools /\ d.envs = c.envs /\ d.execs = c.execs
  /\ \A n \in Node : c.nodes[n] # None => d.nodes[n] # None

LEMMA KeptWork ==
  ASSUME IInv, cluster' \in Cluster, KeepsWork(cluster, cluster'),
         UNCHANGED <<requests, files>>, runs' \subseteq runs
  PROVE  Kept
<1>1. Sound(cluster', requests, runs)
  BY SoundKept DEF IInv, KeepsWork
<1>2. Sound(cluster', requests, runs')
  BY <1>1 DEF Sound, Typed, Expected
<1> QED BY <1>2 DEF Kept, IInv

LEMMA KindChanged ==
  ASSUME NEW c \in Cluster, NEW i \in Image, NEW kind \in {"absent", "vm", "runtime"}
  PROVE  LET d == [c EXCEPT !.images = [c.images EXCEPT ![i] = kind]]
         IN  /\ d \in Cluster /\ KeepsWork(c, d) /\ d.nodes = c.nodes
<1> DEFINE d == [c EXCEPT !.images = [c.images EXCEPT ![i] = kind]]
<1>1. [c.images EXCEPT ![i] = kind] \in [Image -> {"absent", "vm", "runtime"}]
  BY DEF Cluster
<1>2. d \in Cluster
  BY <1>1, ClusterUpdates
<1>3. d.pools = c.pools /\ d.envs = c.envs /\ d.execs = c.execs /\ d.nodes = c.nodes
  BY DEF Cluster
<1> QED BY <1>2, <1>3 DEF KeepsWork

LEMMA ImportImageWork ==
  ASSUME cluster \in Cluster, NEW i \in Image, NEW kind \in {"vm", "runtime"}, ImportImage(i, kind)
  PROVE  cluster' \in Cluster /\ KeepsWork(cluster, cluster')
<1> DEFINE c == [cluster EXCEPT !.images = [cluster.images EXCEPT ![i] = kind]]
           f == [n \in Node |-> [c.nodes[n] EXCEPT !.ready = FALSE]]
           d == [c EXCEPT !.nodes = [n \in Node |-> IF c.nodes[n] = None THEN None ELSE f[n]]]
<1>1. c \in Cluster /\ KeepsWork(cluster, c) /\ c.nodes = cluster.nodes
  BY KindChanged
<1>2. cluster' = d
  BY <1>1 DEF ImportImage, Cluster
<1> HIDE DEF c
<1>3. ASSUME NEW n \in Node, c.nodes[n] # None PROVE f[n] \in NodeRec
  <2>1. c.nodes[n] \in NodeRec
    BY <1>1, <1>3, ClusterParts
  <2> QED BY ONLY <1>3, <2>1, NodeUpdates
<1> HIDE DEF f
<1>4. /\ d \in Cluster
      /\ d.pools = c.pools /\ d.envs = c.envs /\ d.execs = c.execs
      /\ \A n \in Node : d.nodes[n] = None <=> c.nodes[n] = None
  BY <1>1, <1>3, AllNodesChanged
<1> HIDE DEF d
<1> QED BY <1>1, <1>2, <1>4 DEF KeepsWork

LEMMA ImportImageKept ==
  ASSUME IInv, NEW i \in Image, NEW kind \in {"vm", "runtime"}, ImportImage(i, kind)
  PROVE  Kept
<1>1. cluster' \in Cluster /\ KeepsWork(cluster, cluster')
  BY ImportImageWork DEF IInv, Sound, Typed
<1> QED BY <1>1, KeptWork DEF ImportImage

LEMMA UpdateImageWork ==
  ASSUME cluster \in Cluster, NEW i \in Image, NEW kind \in {"vm", "runtime"}, UpdateImage(i, kind)
  PROVE  cluster' \in Cluster /\ KeepsWork(cluster, cluster')
<1>1. cluster' = [cluster EXCEPT !.images = [cluster.images EXCEPT ![i] = kind]]
  BY DEF UpdateImage, Cluster
<1> QED BY <1>1, KindChanged

LEMMA UpdateImageKept ==
  ASSUME IInv, NEW i \in Image, NEW kind \in {"vm", "runtime"}, UpdateImage(i, kind)
  PROVE  Kept
<1>1. cluster' \in Cluster /\ KeepsWork(cluster, cluster')
  BY UpdateImageWork DEF IInv, Sound, Typed
<1> QED BY <1>1, KeptWork DEF UpdateImage

LEMMA DeleteImageWork ==
  ASSUME cluster \in Cluster, NEW i \in Image, DeleteImage(i)
  PROVE  cluster' \in Cluster /\ KeepsWork(cluster, cluster')
<1> DEFINE c == [cluster EXCEPT !.images = [cluster.images EXCEPT ![i] = "absent"]]
           f == [n \in Node |-> [c.nodes[n] EXCEPT !.images = c.nodes[n].images \ {i}]]
           d == [c EXCEPT !.nodes = [n \in Node |-> IF c.nodes[n] = None THEN None ELSE f[n]]]
<1>1. c \in Cluster /\ KeepsWork(cluster, c) /\ c.nodes = cluster.nodes
  BY KindChanged
<1>2. cluster' = d
  BY <1>1 DEF DeleteImage, Cluster
<1> HIDE DEF c
<1>3. ASSUME NEW n \in Node, c.nodes[n] # None PROVE f[n] \in NodeRec
  <2>1. c.nodes[n] \in NodeRec
    BY ONLY <1>1, <1>3, ClusterParts
  <2>2. c.nodes[n].images \ {i} \in SUBSET Image
    BY <2>1 DEF NodeRec
  <2> QED BY ONLY <1>3, <2>1, <2>2, NodeUpdates
<1> HIDE DEF f
<1>4. /\ d \in Cluster
      /\ d.pools = c.pools /\ d.envs = c.envs /\ d.execs = c.execs
      /\ \A n \in Node : d.nodes[n] = None <=> c.nodes[n] = None
  BY <1>1, <1>3, AllNodesChanged
<1> HIDE DEF d
<1> QED BY <1>1, <1>2, <1>4 DEF KeepsWork

LEMMA DeleteImageKept ==
  ASSUME IInv, NEW i \in Image, DeleteImage(i)
  PROVE  Kept
<1>1. cluster' \in Cluster /\ KeepsWork(cluster, cluster')
  BY DeleteImageWork DEF IInv, Sound, Typed
<1> QED BY <1>1, KeptWork DEF DeleteImage

LEMMA CreatePoolKept ==
  ASSUME IInv, NEW p \in UserPool, NEW cfg \in PoolConfig, CreatePool(p, cfg)
  PROVE  Kept
<1>1. p \in Pool /\ cfg \in Config
  BY ControllerAssumption
<1>2. Sound([cluster EXCEPT !.pools[p] = [env |-> None, cfg |-> cfg]], requests, runs)
  BY <1>1, SoundUserPool DEF IInv, CreatePool
<1> QED BY <1>2 DEF Kept, IInv, CreatePool

LEMMA DeletePoolKept ==
  ASSUME IInv, NEW p \in Pool, DeletePool(p)
  PROVE  Kept
<1>1. Sound(DropPool(cluster, p), requests, runs)
  BY SoundDropPool DEF IInv, DeletePool
<1> QED BY <1>1 DEF Kept, IInv, DeletePool

-----------------------------------------------------------------------------
(* The handlers of environments keep the invariant. *)

LEMMA AbandonRequestKept ==
  ASSUME IInv, NEW r \in Req, AbandonRequest(r)
  PROVE  Kept
<1>1. Sound(cluster, [requests EXCEPT ![r] = None], runs)
  BY SoundForget DEF IInv
<1> QED BY <1>1 DEF Kept, IInv, AbandonRequest

\* Request r becomes x, which claims nothing new.
LEMMA RequestChanged ==
  ASSUME IInv, NEW r \in Req, NEW x \in CreateReq \cup UpdateReq,
         ~ x.built => x.cfg.artifact # None,
         \A i \in Env : x.env = i => Claims(cluster, requests, i, x.old.pool)
  PROVE  Sound(cluster, [requests EXCEPT ![r] = x], runs)
<1> DEFINE q == requests
           qq == [requests EXCEPT ![r] = x]
<1>1. q \in [Req -> CreateReq \cup UpdateReq \cup {None}]
  BY DEF IInv, Sound, Typed
<1>2. qq \in [Req -> CreateReq \cup UpdateReq \cup {None}]
  BY <1>1
<1>3. \A y \in Req : qq[y] = IF y = r THEN x ELSE q[y]
  BY <1>1
<1> HIDE DEF qq
<1>4. Typed(cluster, qq, runs)
  BY <1>2, <1>3 DEF IInv, Sound, Typed
<1>5. ASSUME NEW y \in Req, NEW i \in Env, qq[y] # None, qq[y].env = i
      PROVE  Claims(cluster, requests, i, qq[y].old.pool)
  <2>1. CASE y = r
    BY <1>3, <1>5, <2>1
  <2>2. CASE y # r
    BY <1>3, <1>5, <2>2 DEF Claims
  <2> QED BY <2>1, <2>2
<1>6. Sound(cluster, requests, runs)
  BY DEF IInv
<1>7. Sound(cluster, qq, runs)
  BY <1>4, <1>5, <1>6, SoundRequest
<1> QED BY <1>7 DEF qq

LEMMA BeginCreateKept ==
  ASSUME IInv, NEW r \in Req, NEW cfg \in EnvConfig, BeginCreate(r, cfg)
  PROVE  Kept
<1> DEFINE x == [env |-> None, old |-> None, cfg |-> cfg, built |-> cfg.artifact = None]
<1>1. x \in CreateReq \cup UpdateReq
  BY ControllerAssumption DEF CreateReq
<1>2. ~ x.built => x.cfg.artifact # None
  OBVIOUS
<1>3. \A i \in Env : x.env # i
  BY Apart
<1> HIDE DEF x
<1>4. Sound(cluster, [requests EXCEPT ![r] = x], runs)
  BY <1>1, <1>2, <1>3, RequestChanged
<1> QED BY <1>4 DEF Kept, IInv, BeginCreate, x

LEMMA BeginUpdateKept ==
  ASSUME IInv, NEW r \in Req, NEW i \in Env, NEW cfg \in EnvConfig, BeginUpdate(r, i, cfg)
  PROVE  Kept
<1> DEFINE x == [env |-> i, old |-> cluster.envs[i], cfg |-> cfg,
                 built |-> cfg.artifact = None \/ SamePackages(cluster.envs[i].cfg, cfg)]
<1>1. cluster.envs[i] \in EnvRec /\ cluster.envs[i] # None
  BY ClusterParts DEF IInv, Sound, Typed, BeginUpdate
<1>2. x \in CreateReq \cup UpdateReq
  BY <1>1, ControllerAssumption DEF UpdateReq
<1>3. ~ x.built => x.cfg.artifact # None
  OBVIOUS
<1>4. \A j \in Env : x.env = j => Claims(cluster, requests, j, x.old.pool)
  BY <1>1 DEF Claims
<1> HIDE DEF x
<1>5. Sound(cluster, [requests EXCEPT ![r] = x], runs)
  BY <1>2, <1>3, <1>4, RequestChanged
<1> QED BY <1>5 DEF Kept, IInv, BeginUpdate, x

LEMMA PrepareArtifactKept ==
  ASSUME IInv, NEW r \in Req, PrepareArtifact(r)
  PROVE  Kept
<1> DEFINE x == [requests[r] EXCEPT !.built = TRUE]
<1>1. requests[r] \in CreateReq \cup UpdateReq
  BY DEF IInv, Sound, Typed, PrepareArtifact
<1>2. /\ x \in CreateReq \cup UpdateReq /\ x.built
      /\ x.env = requests[r].env /\ x.old = requests[r].old
  BY <1>1 DEF CreateReq, UpdateReq
<1>3. \A j \in Env : x.env = j => Claims(cluster, requests, j, x.old.pool)
  BY <1>2 DEF Claims, PrepareArtifact
<1>4. requests' = [requests EXCEPT ![r] = x]
  BY DEF PrepareArtifact, IInv, Sound, Typed
<1> HIDE DEF x
<1>5. Sound(cluster, [requests EXCEPT ![r] = x], runs)
  BY <1>2, <1>3, RequestChanged
<1>6. requests[r].cfg.artifact \in Artifact
  <2>1. requests[r].cfg \in Config
    BY <1>1 DEF CreateReq, UpdateReq
  <2>2. requests[r].cfg.artifact # None
    BY DEF IInv, Sound, Typed, PrepareArtifact
  <2> QED BY <2>1, <2>2 DEF Config
<1> QED BY <1>4, <1>5, <1>6 DEF Kept, IInv, PrepareArtifact

\* The id a step takes is one of those free.
LEMMA NewIdLemma ==
  ASSUME NEW S, S \subseteq Nat, S # {}
  PROVE  NewId(S) \in S
BY LeastElement DEF NewId

LEMMA Fresh ==
  /\ FreshEnvs # {} => NewId(FreshEnvs) \in FreshEnvs /\ NewId(FreshEnvs) \in Env
  /\ FreshPools # {} =>
       /\ NewId(FreshPools) \in Pool
       /\ \A i \in Env : ~ Claims(cluster, requests, i, NewId(FreshPools))
<1>1. FreshEnvs \subseteq Env /\ FreshEnvs \subseteq Nat
  BY SchedulerAssumption DEF FreshEnvs
<1>2. FreshPools \subseteq Pool /\ FreshPools \subseteq Nat
  BY SchedulerAssumption DEF FreshPools, Pool
<1>3. FreshPools # {} => NewId(FreshPools) \in FreshPools
  BY <1>2, NewIdLemma
<1>4. FreshEnvs # {} => NewId(FreshEnvs) \in FreshEnvs
  BY <1>1, NewIdLemma
<1> QED BY <1>1, <1>2, <1>3, <1>4 DEF FreshPools

LEMMA CommitCreateKept ==
  ASSUME IInv, NEW r \in Req, CommitCreate(r)
  PROVE  Kept
<1> DEFINE i == NewId(FreshEnvs)
           p == NewId(FreshPools)
           cfg == requests[r].cfg
           d == [cluster EXCEPT !.pools[p] = [env |-> i, cfg |-> cfg],
                                !.envs[i] = [pool |-> p, cfg |-> cfg]]
<1>1. i \in Env /\ p \in Pool /\ \A j \in Env : ~ Claims(cluster, requests, j, p)
  BY Fresh DEF CommitCreate
<1>2. cfg \in Config
  <2>1. requests[r] \in CreateReq \cup UpdateReq
    BY DEF IInv, Sound, Typed, CommitCreate
  <2> QED BY <2>1 DEF CreateReq, UpdateReq
<1>3. cluster' = d
  BY DEF CommitCreate
<1> HIDE DEF i, p, cfg
<1>4. Sound(d, requests, runs)
  BY <1>1, <1>2, SoundManagedPool DEF IInv
<1> HIDE DEF d
<1>5. Sound(d, [requests EXCEPT ![r] = None], runs)
  BY <1>4, SoundForget
<1> QED BY <1>3, <1>5 DEF Kept, IInv, CommitCreate

LEMMA CommitUpdateKept ==
  ASSUME IInv, NEW r \in Req, CommitUpdate(r)
  PROVE  Kept /\ Swept
<1> DEFINE i == requests[r].env
           old == requests[r].old
           cfg == requests[r].cfg
           p == NewId(FreshPools)
           kept == [cluster EXCEPT !.pools[old.pool] = [env |-> i, cfg |-> cfg],
                                   !.envs[i] = [pool |-> old.pool, cfg |-> cfg]]
<1>1. i \in Env /\ old \in EnvRec /\ old.pool \in Pool /\ cfg \in Config
  <2>1. requests[r] \in CreateReq \cup UpdateReq
    BY DEF IInv, Sound, Typed, CommitUpdate
  <2>2. requests[r] \in UpdateReq
    BY <2>1 DEF CreateReq, CommitUpdate
  <2> QED BY <2>2 DEF UpdateReq, EnvRec
<1>2. Claims(cluster, requests, i, old.pool)
  BY DEF Claims, CommitUpdate
<1>3. Sound(cluster, requests, runs)
  BY DEF IInv
<1>4. Sound(cluster', requests, runs) /\ Swept
  <2>1. CASE Rebuilds(old.cfg, cfg)
    <3>1. p \in Pool /\ \A j \in Env : ~ Claims(cluster, requests, j, p)
      BY <2>1, Fresh DEF CommitUpdate
    <3>2. cluster' = ScheduleQueued(RestartPool(cluster, i, old.pool, p, cfg))
      BY <2>1 DEF CommitUpdate
    <3> HIDE DEF i, old, cfg, p
    <3> DEFINE d == RestartPool(cluster, i, old.pool, p, cfg)
    <3>3. Sound(d, requests, runs)
      BY <1>1, <1>2, <1>3, <3>1, SoundRestart
    <3>4. Requeues(cluster, d) /\ d \in Cluster
      <4>1. cluster \in Cluster /\ PoolsExist(cluster) /\ old.pool # p
        BY <1>1, <1>2, <1>3, <3>1 DEF Sound, Typed
      <4>2. Restarted(cluster, i, old.pool, p, cfg, d)
        BY <1>1, <3>1, <4>1, RestartParts
      <4> HIDE DEF d
      <4> QED BY <4>2 DEF Restarted, Requeues, IsQueued
    <3> HIDE DEF d
    <3> QED BY <3>2, <3>3, <3>4, SoundSweep DEF Swept, d
  <2>2. CASE ~ Rebuilds(old.cfg, cfg)
    <3>1. cluster' = ScheduleQueued(kept)
      BY <2>2 DEF CommitUpdate
    <3> HIDE DEF i, old, cfg
    <3>2. \A j \in Env : Claims(cluster, requests, j, old.pool) => j = i
      BY <1>1, <1>2, <1>3 DEF Sound, UniqueClaims
    <3>3. Sound(kept, requests, runs)
      BY <1>1, <1>3, <3>2, SoundManagedPool
    <3>4. Requeues(cluster, kept) /\ kept \in Cluster
      BY <1>3, <3>3 DEF Sound, Typed, Cluster, Requeues
    <3> HIDE DEF kept
    <3> QED BY <3>1, <3>3, <3>4, SoundSweep DEF Swept
  <2> QED BY <2>1, <2>2
<1>5. Sound(cluster', [requests EXCEPT ![r] = None], runs)
  BY <1>4, SoundForget
<1> QED BY <1>4, <1>5 DEF Kept, IInv, CommitUpdate

LEMMA RestartEnvironmentKept ==
  ASSUME IInv, NEW i \in Env, RestartEnvironment(i)
  PROVE  Kept /\ Swept
<1> DEFINE env == cluster.envs[i]
           p == NewId(FreshPools)
<1>1. env \in EnvRec /\ env # None
  BY ClusterParts DEF IInv, Sound, Typed, RestartEnvironment
<1>2. env.pool \in Pool /\ env.cfg \in Config /\ Claims(cluster, requests, i, env.pool)
  BY <1>1 DEF EnvRec, Claims
<1>3. p \in Pool /\ \A j \in Env : ~ Claims(cluster, requests, j, p)
  BY Fresh DEF RestartEnvironment
<1>4. cluster' = ScheduleQueued(RestartPool(cluster, i, env.pool, p, env.cfg))
  BY DEF RestartEnvironment
<1> HIDE DEF env, p
<1> DEFINE d == RestartPool(cluster, i, env.pool, p, env.cfg)
<1>5. Sound(d, requests, runs)
  BY <1>2, <1>3, SoundRestart DEF IInv
<1>6. Requeues(cluster, d) /\ d \in Cluster
  <2>1. cluster \in Cluster /\ PoolsExist(cluster) /\ env.pool # p
    BY <1>2, <1>3 DEF IInv, Sound, Typed
  <2>2. Restarted(cluster, i, env.pool, p, env.cfg, d)
    BY <1>2, <1>3, <2>1, RestartParts
  <2> HIDE DEF d
  <2> QED BY <2>2 DEF Restarted, Requeues, IsQueued
<1> HIDE DEF d
<1>7. Sound(cluster', requests, runs) /\ Swept
  BY <1>4, <1>5, <1>6, SoundSweep DEF Swept, d
<1> QED BY <1>7 DEF Kept, IInv, RestartEnvironment

\* The pool of an environment that goes has no execution: one on it would be the
\* environment's own, and it has none.
LEMMA DeleteEnvironmentKept ==
  ASSUME IInv, NEW i \in Env, DeleteEnvironment(i)
  PROVE  Kept
<1> DEFINE env == cluster.envs[i]
           gone == IF env.cfg.artifact # None /\ LastUser(i) THEN {env.cfg.artifact} ELSE {}
           b == DropPool(cluster, env.pool)
           left == [b EXCEPT !.envs[i] = None]
           f == [n \in Node |-> [left.nodes[n] EXCEPT !.artifacts = left.nodes[n].artifacts \ gone]]
           d == [left EXCEPT !.nodes = [n \in Node |-> IF left.nodes[n] = None THEN None
                                                       ELSE f[n]]]
<1>1. env \in EnvRec /\ env # None
  BY ClusterParts DEF IInv, Sound, Typed, DeleteEnvironment
<1>2. env.pool \in Pool /\ Claims(cluster, requests, i, env.pool)
  BY <1>1 DEF EnvRec, Claims
<1>3. cluster' = d /\ files' = files \ gone
  BY DEF DeleteEnvironment
<1> HIDE DEF env, gone, d
<1>4. ASSUME NEW e \in Exec, cluster.execs[e] # None
      PROVE  cluster.execs[e].pool # env.pool
  <2> SUFFICES ASSUME cluster.execs[e].pool = env.pool PROVE FALSE
    OBVIOUS
  <2>1. cluster.execs[e].env \in Env
    BY <1>4, ClusterParts DEF IInv, Sound, Typed, ExecRec
  <2>2. Claims(cluster, requests, cluster.execs[e].env, env.pool)
    BY <1>4 DEF Claims
  <2>3. cluster.execs[e].env = i
    BY <1>2, <2>1, <2>2 DEF IInv, Sound, UniqueClaims
  <2> QED BY <1>4, <2>3 DEF DeleteEnvironment
<1>5. Sound(b, requests, runs)
  BY <1>2, <1>4, SoundDropPool DEF IInv
<1> HIDE DEF b
<1>6. Sound(left, requests, runs)
  BY <1>5, SoundDropEnvironment
<1> HIDE DEF left
<1>7. left \in Cluster
  BY <1>6 DEF Sound, Typed
<1>8. ASSUME NEW n \in Node, left.nodes[n] # None PROVE f[n] \in NodeRec
  <2>1. left.nodes[n] \in NodeRec
    BY <1>7, <1>8, ClusterParts
  <2>2. left.nodes[n].artifacts \ gone \in SUBSET Artifact
    BY <2>1 DEF NodeRec
  <2> QED BY <2>1, <2>2, NodeUpdates
<1> HIDE DEF f
<1>9. /\ d \in Cluster
      /\ d.pools = left.pools /\ d.envs = left.envs /\ d.execs = left.execs
      /\ \A n \in Node : d.nodes[n] = None <=> left.nodes[n] = None
  BY <1>7, <1>8, AllNodesChanged DEF d
<1>10. Sound(d, requests, runs)
  BY <1>6, <1>9, SoundKept
<1> QED BY <1>3, <1>10 DEF Kept, IInv, DeleteEnvironment

-----------------------------------------------------------------------------
(* The handlers of executions and nodes keep the invariant. *)

LEMMA CreateExecutionKept ==
  ASSUME IInv, NEW e \in Exec, NEW i \in Env, NEW p \in Pool, NEW queue \in BOOLEAN,
         CreateExecution(e, i, p, queue)
  PROVE  Kept
<1> DEFINE d == [cluster EXCEPT !.execs[e] =
                   [status |-> "queued", pool |-> p, node |-> None, env |-> i]]
<1>1. cluster' = Schedule(d, e)
  BY DEF CreateExecution
<1>2. Claims(cluster, requests, i, p)
  BY DEF Claims, CreateExecution, Target
<1>3. Sound(d, requests, runs) /\ IsQueued(d, e)
  BY <1>2, SoundSubmit DEF IInv, CreateExecution, Target
<1> HIDE DEF d
<1>4. d \in Cluster
  BY <1>3 DEF Sound, Typed
<1>5. Schedule(d, e) \in Cluster /\ Placed(d, Schedule(d, e))
  BY <1>3, <1>4, ScheduleLemma
<1>6. Sound(Schedule(d, e), requests, runs)
  BY <1>3, <1>5, SoundPlaced
<1> QED BY <1>1, <1>6 DEF Kept, IInv, CreateExecution

\* From c to d, the images and everything that goes by a pool or an image by name
\* stay: pools, environments, and the pools of executions.
SameNames(c, d) ==
  /\ d.images = c.images /\ d.pools = c.pools /\ d.envs = c.envs
  /\ \A e \in Exec : /\ d.execs[e] = None <=> c.execs[e] = None
                     /\ d.execs[e] # None => d.execs[e].pool = c.execs[e].pool

NamesKept == SameNames(cluster, cluster')

LEMMA PlacedNames ==
  ASSUME NEW c, NEW d, Placed(c, d)
  PROVE  SameNames(c, d)
BY DEF Placed, SameNames, IsQueued

\* A handler that changes nodes only, and then looks at the queue.
LEMMA SweptNames ==
  ASSUME NEW d \in Cluster, cluster' = ScheduleQueued(d),
         d.images = cluster.images, d.pools = cluster.pools,
         d.envs = cluster.envs, d.execs = cluster.execs
  PROVE  NamesKept
<1>1. SameNames(d, cluster')
  BY SweepLemma, PlacedNames
<1> QED BY <1>1 DEF NamesKept, SameNames

LEMMA KeptSwept ==
  ASSUME IInv, NEW d, d \in Cluster, SameWork(cluster, d),
         cluster' = ScheduleQueued(d), UNCHANGED <<requests, files>>, runs' \subseteq runs
  PROVE  Kept /\ Swept /\ NamesKept
<1>1. Sound(d, requests, runs)
  BY SoundKept DEF IInv, SameWork
<1>2. Sound(cluster', requests, runs)
  BY <1>1, SoundSweep
<1>3. Sound(cluster', requests, runs')
  BY <1>2 DEF Sound, Typed, Expected
<1>4. Swept
  BY DEF Swept, Requeues, SameWork
<1>5. NamesKept
  BY SweptNames DEF SameWork
<1> QED BY <1>3, <1>4, <1>5 DEF Kept, IInv

\* The step ends with schedule_queued, before which it changed nodes only.
NodesSwept == \E d \in Cluster : SameWork(cluster, d) /\ cluster' = ScheduleQueued(d)

LEMMA KeptNodes ==
  ASSUME IInv, NodesSwept, UNCHANGED <<requests, files>>, runs' \subseteq runs
  PROVE  Kept /\ Swept /\ NamesKept
BY KeptSwept DEF NodesSwept

LEMMA HeartbeatSweeps ==
  ASSUME cluster \in Cluster, NEW n \in Node, Heartbeat(n)
  PROVE  NodesSwept
<1>1. Refresh(cluster, n) \in Cluster /\ SameWork(cluster, Refresh(cluster, n))
  BY RefreshLemma DEF Heartbeat
<1> QED BY <1>1 DEF NodesSwept, Heartbeat

LEMMA HeartbeatKept ==
  ASSUME IInv, NEW n \in Node, Heartbeat(n)
  PROVE  Kept /\ Swept /\ NamesKept
<1>1. NodesSwept
  BY HeartbeatSweeps DEF IInv, Sound, Typed
<1> QED BY <1>1, KeptNodes DEF Heartbeat

LEMMA StartAgentSweeps ==
  ASSUME cluster \in Cluster, NEW n \in Node, StartAgent(n)
  PROVE  NodesSwept
<1> DEFINE x == NewNode(n)
           known == IF cluster.nodes[n] # None THEN cluster
                    ELSE [cluster EXCEPT !.nodes = [cluster.nodes EXCEPT ![n] = x]]
           reset == ResetIdle(known, n)
           d == Refresh(reset, n)
<1>1. x \in NodeRec /\ x # None
  <2>1. x \in NodeRec
    BY ControllerAssumption DEF NewNode, NodeRec
  <2> QED BY <2>1, Apart
<1>2. cluster' = ScheduleQueued(d)
  BY DEF StartAgent, Cluster
<1> HIDE DEF x
<1>3. known \in Cluster /\ SameWork(cluster, known) /\ known.nodes[n] # None
  <2>1. CASE cluster.nodes[n] # None
    BY <2>1 DEF SameWork
  <2>2. CASE cluster.nodes[n] = None
    <3> DEFINE g == [cluster EXCEPT !.nodes = [cluster.nodes EXCEPT ![n] = x]]
    <3>1. g \in Cluster /\ SameWork(cluster, g)
      BY <1>1, NodeChanged
    <3>2. g.nodes[n] = x
      BY DEF Cluster
    <3>3. known = g
      BY <2>2
    <3> QED BY <1>1, <3>1, <3>2, <3>3
  <2> QED BY <2>1, <2>2
<1> HIDE DEF known
<1>4. reset \in Cluster /\ SameWork(known, reset)
  BY <1>3, ResetIdleLemma
<1> HIDE DEF reset
<1>5. d \in Cluster /\ SameWork(reset, d)
  BY <1>3, <1>4, RefreshLemma DEF SameWork
<1> HIDE DEF d
<1>6. SameWork(cluster, d)
  BY <1>3, <1>4, <1>5 DEF SameWork
<1> QED BY <1>2, <1>5, <1>6 DEF NodesSwept

LEMMA StartAgentKept ==
  ASSUME IInv, NEW n \in Node, StartAgent(n)
  PROVE  Kept /\ Swept /\ NamesKept
<1>1. NodesSwept
  BY StartAgentSweeps DEF IInv, Sound, Typed
<1> QED BY <1>1, KeptNodes DEF StartAgent

LEMMA ImageArrivedSweeps ==
  ASSUME cluster \in Cluster, NEW n \in Node, NEW i \in Image, ImageArrived(n, i)
  PROVE  NodesSwept
<1> DEFINE x == [cluster.nodes[n] EXCEPT !.images = cluster.nodes[n].images \cup {i}]
           b == [cluster EXCEPT !.nodes = [cluster.nodes EXCEPT ![n] = x]]
           d == Refresh(b, n)
<1>1. cluster \in Cluster /\ cluster.nodes[n] \in NodeRec
  BY ClusterParts DEF ImageArrived
<1>2. cluster' = ScheduleQueued(d)
  BY <1>1 DEF ImageArrived, Cluster
<1>3. x \in NodeRec
  <2>1. cluster.nodes[n].images \cup {i} \in SUBSET Image
    BY <1>1 DEF NodeRec
  <2> QED BY <1>1, <2>1, NodeUpdates
<1> HIDE DEF x
<1>4. b \in Cluster /\ SameWork(cluster, b)
  BY <1>1, <1>3, NodeChanged
<1>5. b.nodes[n] # None
  BY <1>1, <1>4, Apart DEF SameWork
<1> HIDE DEF b
<1>6. d \in Cluster /\ SameWork(b, d)
  BY <1>4, <1>5, RefreshLemma
<1> HIDE DEF d
<1>7. SameWork(cluster, d)
  BY <1>4, <1>6 DEF SameWork
<1> QED BY <1>2, <1>6, <1>7 DEF NodesSwept

LEMMA ImageArrivedKept ==
  ASSUME IInv, NEW n \in Node, NEW i \in Image, ImageArrived(n, i)
  PROVE  Kept /\ Swept /\ NamesKept
<1>1. NodesSwept
  BY ImageArrivedSweeps DEF IInv, Sound, Typed
<1> QED BY <1>1, KeptNodes DEF ImageArrived

LEMMA ArtifactArrivedSweeps ==
  ASSUME cluster \in Cluster, NEW n \in Node, NEW a \in Artifact, ArtifactArrived(n, a)
  PROVE  NodesSwept
<1> DEFINE x == [cluster.nodes[n] EXCEPT !.artifacts = cluster.nodes[n].artifacts \cup {a}]
           d == [cluster EXCEPT !.nodes = [cluster.nodes EXCEPT ![n] = x]]
<1>1. cluster \in Cluster /\ cluster.nodes[n] \in NodeRec
  BY ClusterParts DEF ArtifactArrived
<1>2. cluster' = ScheduleQueued(d)
  BY <1>1 DEF ArtifactArrived, Cluster
<1>3. x \in NodeRec
  <2>1. cluster.nodes[n].artifacts \cup {a} \in SUBSET Artifact
    BY <1>1 DEF NodeRec
  <2> QED BY <1>1, <2>1, NodeUpdates
<1> HIDE DEF x
<1>4. d \in Cluster /\ SameWork(cluster, d)
  BY <1>1, <1>3, NodeChanged
<1> HIDE DEF d
<1> QED BY <1>2, <1>4 DEF NodesSwept

LEMMA ArtifactArrivedKept ==
  ASSUME IInv, NEW n \in Node, NEW a \in Artifact, ArtifactArrived(n, a)
  PROVE  Kept /\ Swept /\ NamesKept
<1>1. NodesSwept
  BY ArtifactArrivedSweeps DEF IInv, Sound, Typed
<1> QED BY <1>1, KeptNodes DEF ArtifactArrived

LEMMA WarmSweeps ==
  ASSUME cluster \in Cluster, NEW n \in Node, NEW p \in Pool,
         AddWarmInstance(n, p) \/ RemoveIdleInstance(n, p)
  PROVE  NodesSwept
<1>1. CASE AddWarmInstance(n, p)
  <2>1. cluster.nodes[n] # None /\ cluster.pools[p] # None
    BY <1>1 DEF AddWarmInstance, WarmNeeded, WarmNodes
  <2>2. AddWarm(cluster, n, p) \in Cluster /\ SameWork(cluster, AddWarm(cluster, n, p))
    BY <2>1, AddWarmLemma
  <2> QED BY <1>1, <2>2 DEF NodesSwept, AddWarmInstance
<1>2. CASE RemoveIdleInstance(n, p)
  <2>1. RemoveIdle(cluster, n, p) \in Cluster /\ SameWork(cluster, RemoveIdle(cluster, n, p))
    BY <1>2, RemoveIdleLemma DEF RemoveIdleInstance
  <2> QED BY <1>2, <2>1 DEF NodesSwept, RemoveIdleInstance
<1> QED BY <1>1, <1>2

LEMMA WarmKept ==
  ASSUME IInv, NEW n \in Node, NEW p \in Pool,
         AddWarmInstance(n, p) \/ RemoveIdleInstance(n, p)
  PROVE  Kept /\ Swept /\ NamesKept
<1>1. NodesSwept
  BY WarmSweeps DEF IInv, Sound, Typed
<1> QED BY <1>1, KeptNodes DEF AddWarmInstance, RemoveIdleInstance

\* A node that goes has no execution: delete_node refuses otherwise.
LEMMA DeleteNodeKept ==
  ASSUME IInv, NEW n \in Node, DeleteNode(n)
  PROVE  Kept /\ Swept /\ NamesKept
<1> DEFINE d == [cluster EXCEPT !.nodes = [cluster.nodes EXCEPT ![n] = None]]
<1>1. cluster \in Cluster /\ [cluster.nodes EXCEPT ![n] = None] \in [Node -> NodeRec \cup {None}]
  BY DEF IInv, Sound, Typed, Cluster
<1>2. d \in Cluster
  BY <1>1, ClusterUpdates
<1>3. /\ d.images = cluster.images
      /\ d.pools = cluster.pools /\ d.envs = cluster.envs /\ d.execs = cluster.execs
      /\ \A m \in Node : d.nodes[m] = IF m = n THEN None ELSE cluster.nodes[m]
  BY <1>1 DEF Cluster
<1>4. cluster' = ScheduleQueued(d)
  BY <1>1 DEF DeleteNode, Cluster
<1> HIDE DEF d
<1>5. NodesKnown(d)
  <2> SUFFICES ASSUME NEW e \in Exec, cluster.execs[e] # None, ~ IsQueued(cluster, e)
               PROVE  cluster.execs[e].node # n
    <3>1. \A e \in Exec : cluster.execs[e] # None => cluster.execs[e].node \in Node \cup {None}
      BY <1>1, ClusterParts DEF ExecRec
    <3> QED BY <1>3, <3>1 DEF IInv, Sound, NodesKnown, IsQueued
  <2>1. cluster.execs[e] \in ExecRec
    BY <1>1, ClusterParts
  <2>2. e \in ActiveOn(cluster, cluster.execs[e].pool) /\ cluster.execs[e].pool \in Pool
    BY <2>1 DEF ActiveOn, Holds, IsQueued, ExecRec
  <2> QED BY <2>2 DEF DeleteNode
<1>6. Typed(d, requests, runs) /\ PoolsExist(d) /\ Expected(d, runs)
  BY <1>2, <1>3 DEF IInv, Sound, Typed, PoolsExist, Expected
<1>7. UniqueClaims(d, requests)
  <2>1. \A j \in Env, y \in Pool : Claims(d, requests, j, y) => Claims(cluster, requests, j, y)
    BY <1>3 DEF Claims
  <2> QED BY <2>1, FewerClaims DEF IInv, Sound
<1>8. Sound(d, requests, runs)
  BY <1>5, <1>6, <1>7 DEF Sound
<1>9. Sound(cluster', requests, runs)
  BY <1>4, <1>8, SoundSweep
<1>10. Sound(cluster', requests, runs')
  BY <1>9 DEF Sound, Typed, Expected, DeleteNode
<1>11. Swept
  BY <1>2, <1>3, <1>4 DEF Swept, Requeues
<1>12. NamesKept
  BY <1>2, <1>3, <1>4, SweptNames
<1> QED BY <1>10, <1>11, <1>12 DEF Kept, IInv, DeleteNode

LEMMA NextWorkKept ==
  ASSUME IInv, NEW n \in Node, NEW e \in Exec, NextWork(n, e)
  PROVE  Kept
<1>1. Sound([cluster EXCEPT !.execs[e].status = "running"], requests, runs \cup {<<n, e>>})
  BY SoundHandOut DEF IInv, NextWork
<1> QED BY <1>1 DEF Kept, IInv, NextWork

\* A report finds its execution where it was handed out.
LEMMA CompleteExecutionKept ==
  ASSUME IInv, NEW n \in Node, NEW e \in Exec, NEW keepIdle \in BOOLEAN,
         CompleteExecution(n, e, keepIdle)
  PROVE  Kept /\ Swept
<1> DEFINE p == cluster.execs[e].pool
           b == Release(cluster, e, keepIdle)
           freed == [b EXCEPT !.execs[e] = None]
           rr == runs \ {<<n, e>>}
<1>1. cluster \in Cluster /\ <<n, e>> \in runs
  BY DEF IInv, Sound, Typed, CompleteExecution
<1>2. cluster.execs[e] # None /\ cluster.execs[e].node = n
  BY <1>1 DEF IInv, Sound, Expected
<1>3. cluster' = ScheduleQueued(IF Stale(freed, p) THEN DropPool(freed, p) ELSE freed)
  BY <1>2 DEF CompleteExecution, Finish
<1>4. p \in Pool
  BY <1>1, <1>2, ClusterParts DEF ExecRec
<1>5. b \in Cluster /\ SameWork(cluster, b)
  BY <1>1, <1>2, ReleaseLemma
<1> HIDE DEF b, p
<1>6. Sound(b, requests, runs)
  BY <1>5, SoundKept DEF IInv, SameWork
<1>7. Sound(freed, requests, rr)
  BY <1>1, <1>6, SoundForgetExec
<1> HIDE DEF freed, rr
<1>8. Sound(IF Stale(freed, p) THEN DropPool(freed, p) ELSE freed, requests, rr)
  <2>1. CASE Stale(freed, p)
    BY <1>4, <1>7, <2>1, SoundDropPool DEF Stale
  <2>2. CASE ~ Stale(freed, p)
    BY <1>7, <2>2
  <2> QED BY <2>1, <2>2
<1>9. Sound(cluster', requests, rr)
  BY <1>3, <1>8, SoundSweep
<1>10. Swept
  <2> DEFINE d == IF Stale(freed, p) THEN DropPool(freed, p) ELSE freed
  <2>1. freed \in Cluster /\ \A f \in Exec : freed.execs[f] = IF f = e THEN None ELSE b.execs[f]
    BY <1>5, <1>7 DEF Sound, Typed, Cluster, freed
  <2>2. d \in Cluster /\ d.execs = freed.execs
    BY <1>4, <2>1, DropPoolLemma
  <2>3. Requeues(cluster, d)
    BY <1>5, <2>1, <2>2 DEF Requeues, SameWork
  <2> QED BY <1>3, <2>2, <2>3 DEF Swept
<1> QED BY <1>9, <1>10 DEF Kept, IInv, CompleteExecution, rr

-----------------------------------------------------------------------------
(* The queue. *)

\* What a handler that does not look at the queue may do: every execution still
\* queued has no more nodes than before.
LEMMA BlockedKept ==
  ASSUME NEW c, NEW d, Blocked(c, MaxExec),
         \A e \in Exec : IsQueued(d, e) =>
           /\ IsQueued(c, e)
           /\ d.execs[e].pool = c.execs[e].pool /\ c.execs[e].pool \in Pool
           /\ NoBetter(c, d, c.execs[e].pool)
  PROVE  Blocked(d, MaxExec)
BY StaysBlocked DEF Blocked

\* Nodes that keep what NoBetter looks at, or lose some of it.
NodesNoBetter(c, d, p) ==
  \A n \in Node :
    /\ d.nodes[n] = None <=> c.nodes[n] = None
    /\ c.nodes[n] # None =>
         /\ d.nodes[n].cap = c.nodes[n].cap
         /\ d.nodes[n].idle[p] = c.nodes[n].idle[p]
         /\ d.nodes[n].ready => c.nodes[n].ready
         /\ HasRuntime(d.nodes[n], c.pools[p].cfg) => HasRuntime(c.nodes[n], c.pools[p].cfg)

\* A handler that leaves the executions alone, and the pools they are on.
LEMMA BlockedSameExecs ==
  ASSUME NEW c \in Cluster, NEW d, PoolsExist(c), Blocked(c, MaxExec),
         d.execs = c.execs,
         \A e \in Exec : c.execs[e] # None =>
           /\ d.pools[c.execs[e].pool] = c.pools[c.execs[e].pool]
           /\ NodesNoBetter(c, d, c.execs[e].pool)
  PROVE  Blocked(d, MaxExec)
<1> SUFFICES ASSUME NEW e \in Exec, IsQueued(d, e)
             PROVE  /\ IsQueued(c, e)
                    /\ d.execs[e].pool = c.execs[e].pool /\ c.execs[e].pool \in Pool
                    /\ NoBetter(c, d, c.execs[e].pool)
  BY BlockedKept
<1> DEFINE p == c.execs[e].pool
<1>1. IsQueued(c, e) /\ d.execs[e].pool = p /\ c.execs[e] # None
  BY DEF IsQueued
<1>2. p \in Pool
  BY <1>1, ClusterParts DEF ExecRec
<1>3. d.pools[p] = c.pools[p] /\ NodesNoBetter(c, d, p)
  BY <1>1
<1>4. ActiveOn(d, p) = ActiveOn(c, p)
  BY DEF ActiveOn, Holds
<1> HIDE DEF p
<1>5. NoBetter(c, d, p)
  BY <1>3, <1>4 DEF NoBetter, NodesNoBetter, IdleAt
<1> QED BY <1>1, <1>2, <1>5 DEF p

\* What DropPool does to the nodes.
LEMMA DropPoolNodes ==
  ASSUME NEW c \in Cluster, NEW p \in Pool, c.pools[p] # None,
         NEW d, d = DropPool(c, p), NEW n \in Node, c.nodes[n] # None
  PROVE  /\ d.nodes[n].cap = c.nodes[n].cap /\ d.nodes[n].ready = c.nodes[n].ready
         /\ d.nodes[n].images = c.nodes[n].images
         /\ d.nodes[n].artifacts = c.nodes[n].artifacts
         /\ d.nodes[n].idle = [c.nodes[n].idle EXCEPT ![p] = 0]
         /\ d.nodes[n].used = Monus(c.nodes[n].used, c.pools[p].cfg.size * c.nodes[n].idle[p])
<1>1. d.nodes[n] = [c.nodes[n] EXCEPT
                      !.used = Monus(@, c.pools[p].cfg.size * c.nodes[n].idle[p]),
                      !.idle[p] = 0]
  BY DEF DropPool, Cluster
<1>2. c.nodes[n] \in NodeRec
  BY ClusterParts
<1> QED BY <1>1, <1>2 DEF NodeRec

LEMMA BlockedDropPool ==
  ASSUME NEW c \in Cluster, PoolsExist(c), Blocked(c, MaxExec), NEW p \in Pool,
         \A e \in Exec : c.execs[e] # None => c.execs[e].pool # p,
         NEW d, d = DropPool(c, p)
  PROVE  Blocked(d, MaxExec)
<1>1. CASE c.pools[p] = None
  BY <1>1 DEF DropPool
<1>2. CASE c.pools[p] # None
  <2>1. /\ d.execs = c.execs /\ d.pools = [c.pools EXCEPT ![p] = None]
        /\ \A n \in Node : d.nodes[n] = None <=> c.nodes[n] = None
    BY DropPoolLemma
  <2>2. ASSUME NEW n \in Node, c.nodes[n] # None, NEW x \in Pool, x # p
        PROVE  /\ d.nodes[n].cap = c.nodes[n].cap /\ d.nodes[n].ready = c.nodes[n].ready
               /\ d.nodes[n].images = c.nodes[n].images
               /\ d.nodes[n].artifacts = c.nodes[n].artifacts
               /\ d.nodes[n].idle[x] = c.nodes[n].idle[x]
    <3>1. /\ d.nodes[n].cap = c.nodes[n].cap /\ d.nodes[n].ready = c.nodes[n].ready
          /\ d.nodes[n].images = c.nodes[n].images
          /\ d.nodes[n].artifacts = c.nodes[n].artifacts
          /\ d.nodes[n].idle = [c.nodes[n].idle EXCEPT ![p] = 0]
      BY <1>2, <2>2, DropPoolNodes
    <3>2. c.nodes[n].idle \in [Pool -> Nat]
      BY <2>2, ClusterParts DEF NodeRec
    <3> QED BY <2>2, <3>1, <3>2
  <2>3. ASSUME NEW e \in Exec, c.execs[e] # None
        PROVE  /\ d.pools[c.execs[e].pool] = c.pools[c.execs[e].pool]
               /\ NodesNoBetter(c, d, c.execs[e].pool)
    <3>1. c.execs[e].pool \in Pool /\ c.execs[e].pool # p
      BY <2>3, ClusterParts DEF ExecRec
    <3>2. d.pools[c.execs[e].pool] = c.pools[c.execs[e].pool]
      BY <2>1, <3>1 DEF Cluster
    <3> QED BY <2>1, <2>2, <3>1, <3>2 DEF NodesNoBetter, HasRuntime
  <2> QED BY <2>1, <2>3, BlockedSameExecs
<1> QED BY <1>1, <1>2

\* A new pool is one no execution is on.
LEMMA BlockedNewPool ==
  ASSUME NEW c \in Cluster, PoolsExist(c), Blocked(c, MaxExec), NEW p \in Pool,
         c.pools[p] = None, NEW d, d.execs = c.execs, d.nodes = c.nodes,
         \A y \in Pool : y # p => d.pools[y] = c.pools[y]
  PROVE  Blocked(d, MaxExec)
<1>1. ASSUME NEW e \in Exec, c.execs[e] # None
      PROVE  /\ d.pools[c.execs[e].pool] = c.pools[c.execs[e].pool]
             /\ NodesNoBetter(c, d, c.execs[e].pool)
  <2>1. c.execs[e].pool \in Pool /\ c.execs[e].pool # p
    BY <1>1, ClusterParts DEF ExecRec, PoolsExist
  <2> QED BY <2>1 DEF NodesNoBetter
<1> QED BY <1>1, BlockedSameExecs

\* What a step must establish: the queue is blocked, and in order since the state
\* before.
Queue == Blocked(cluster', MaxExec) /\ InOrder(cluster, cluster')

LEMMA SweptQueue ==
  ASSUME Swept
  PROVE  Queue
<1>1. PICK d \in Cluster : cluster' = ScheduleQueued(d) /\ Requeues(cluster, d)
  BY DEF Swept
<1>2. Blocked(cluster', MaxExec) /\ InOrder(d, cluster')
  BY <1>1, SweepOrder
<1>3. InOrder(cluster, cluster')
  BY <1>1, <1>2 DEF InOrder, Requeues, IsQueued
<1> QED BY <1>2, <1>3 DEF Queue

\* Where no execution changes but by starting to run, none is overtaken.
LEMMA SameInOrder ==
  ASSUME \A e \in Exec : \/ cluster'.execs[e] = cluster.execs[e]
                         \/ cluster'.execs[e].status # "assigned"
  PROVE  InOrder(cluster, cluster')
BY DEF InOrder

\* The executions are handed a cluster whose images, or node contents, changed.
LEMMA ImagesQueue ==
  ASSUME IInv, Blocked(cluster, MaxExec), NEW i \in Image, NEW kind \in {"vm", "runtime"},
         ImportImage(i, kind) \/ UpdateImage(i, kind) \/ DeleteImage(i)
  PROVE  Queue
<1>1. cluster \in Cluster /\ PoolsExist(cluster)
  BY DEF IInv, Sound, Typed
<1>2. cluster'.execs = cluster.execs /\ cluster'.pools = cluster.pools
  BY <1>1 DEF ImportImage, UpdateImage, DeleteImage, Cluster
<1>3. ASSUME NEW p \in Pool, cluster.pools[p] # None
      PROVE  NodesNoBetter(cluster, cluster', p)
  <2>1. \A n \in Node : cluster.nodes[n] # None => cluster.nodes[n] \in NodeRec
    BY <1>1, ClusterParts
  <2>2. CASE ImportImage(i, kind)
    <3>1. cluster'.nodes = [n \in Node |-> IF cluster.nodes[n] = None THEN None
                                           ELSE [cluster.nodes[n] EXCEPT !.ready = FALSE]]
      BY <1>1, <2>2 DEF ImportImage, Cluster
    <3>2. ASSUME NEW n \in Node, cluster.nodes[n] # None
          PROVE  LET x == [cluster.nodes[n] EXCEPT !.ready = FALSE]
                 IN  /\ x # None /\ x.cap = cluster.nodes[n].cap /\ x.idle = cluster.nodes[n].idle
                     /\ ~ x.ready /\ x.images = cluster.nodes[n].images
                     /\ x.artifacts = cluster.nodes[n].artifacts
      <4>1. [cluster.nodes[n] EXCEPT !.ready = FALSE] \in NodeRec
        BY <2>1, <3>2, NodeUpdates
      <4> QED BY <2>1, <3>2, <4>1, Apart DEF NodeRec
    <3> QED BY <3>1, <3>2 DEF NodesNoBetter, HasRuntime
  <2>3. CASE UpdateImage(i, kind)
    <3>1. cluster'.nodes = cluster.nodes
      BY <1>1, <2>3 DEF UpdateImage, Cluster
    <3> QED BY <3>1 DEF NodesNoBetter
  <2>4. CASE DeleteImage(i)
    <3>1. cluster'.nodes = [n \in Node |-> IF cluster.nodes[n] = None THEN None
                              ELSE [cluster.nodes[n] EXCEPT !.images = cluster.nodes[n].images \ {i}]]
      BY <1>1, <2>4 DEF DeleteImage, Cluster
    <3>2. ASSUME NEW n \in Node, cluster.nodes[n] # None
          PROVE  LET x == [cluster.nodes[n] EXCEPT !.images = cluster.nodes[n].images \ {i}]
                 IN  /\ x # None /\ x.cap = cluster.nodes[n].cap /\ x.idle = cluster.nodes[n].idle
                     /\ x.ready = cluster.nodes[n].ready
                     /\ x.images \subseteq cluster.nodes[n].images
                     /\ x.artifacts = cluster.nodes[n].artifacts
      <4>1. cluster.nodes[n].images \ {i} \in SUBSET Image
        BY <2>1, <3>2 DEF NodeRec
      <4>2. [cluster.nodes[n] EXCEPT !.images = cluster.nodes[n].images \ {i}] \in NodeRec
        BY <2>1, <3>2, <4>1, NodeUpdates
      <4> QED BY <2>1, <3>2, <4>2, Apart DEF NodeRec
    <3> QED BY <3>1, <3>2 DEF NodesNoBetter, HasRuntime
  <2> QED BY <2>2, <2>3, <2>4
<1>4. ASSUME NEW e \in Exec, cluster.execs[e] # None
      PROVE  /\ cluster'.pools[cluster.execs[e].pool] = cluster.pools[cluster.execs[e].pool]
             /\ NodesNoBetter(cluster, cluster', cluster.execs[e].pool)
  <2>1. cluster.execs[e].pool \in Pool /\ cluster.pools[cluster.execs[e].pool] # None
    BY <1>1, <1>4, ClusterParts DEF ExecRec, PoolsExist
  <2> QED BY <1>2, <1>3, <2>1
<1>5. Blocked(cluster', MaxExec)
  BY <1>1, <1>2, <1>4, BlockedSameExecs
<1> QED BY <1>2, <1>5, SameInOrder DEF Queue

LEMMA DeletePoolQueue ==
  ASSUME IInv, Blocked(cluster, MaxExec), NEW p \in Pool, DeletePool(p)
  PROVE  Queue
<1>1. cluster \in Cluster /\ PoolsExist(cluster)
  BY DEF IInv, Sound, Typed
<1>2. Blocked(cluster', MaxExec)
  BY <1>1, BlockedDropPool DEF DeletePool
<1>3. cluster'.execs = cluster.execs
  <2>1. cluster' = DropPool(cluster, p)
    BY DEF DeletePool
  <2> QED BY <1>1, <2>1, DropPoolLemma
<1> QED BY <1>2, <1>3, SameInOrder DEF Queue

LEMMA CreatePoolQueue ==
  ASSUME IInv, Blocked(cluster, MaxExec), NEW p \in Pool, NEW cfg, CreatePool(p, cfg)
  PROVE  Queue
<1>1. cluster \in Cluster /\ PoolsExist(cluster)
  BY DEF IInv, Sound, Typed
<1>2. /\ cluster'.execs = cluster.execs /\ cluster'.nodes = cluster.nodes
      /\ \A y \in Pool : y # p => cluster'.pools[y] = cluster.pools[y]
      /\ cluster.pools[p] = None
  BY <1>1 DEF CreatePool, Cluster
<1> QED BY <1>1, <1>2, BlockedNewPool, SameInOrder DEF Queue

LEMMA CommitCreateQueue ==
  ASSUME IInv, Blocked(cluster, MaxExec), NEW r \in Req, CommitCreate(r)
  PROVE  Queue
<1> DEFINE p == NewId(FreshPools)
<1>1. cluster \in Cluster /\ PoolsExist(cluster)
  BY DEF IInv, Sound, Typed
<1>2. p \in Pool /\ cluster.pools[p] = None
  <2>1. FreshPools # {} /\ FreshPools \subseteq Nat
    BY SchedulerAssumption DEF CommitCreate, FreshPools, Pool
  <2>2. p \in FreshPools
    BY <2>1, NewIdLemma
  <2> QED BY <2>2 DEF FreshPools
<1>3. /\ cluster'.execs = cluster.execs /\ cluster'.nodes = cluster.nodes
      /\ \A y \in Pool : y # p => cluster'.pools[y] = cluster.pools[y]
  BY <1>1 DEF CommitCreate, Cluster
<1> HIDE DEF p
<1> QED BY <1>1, <1>2, <1>3, BlockedNewPool, SameInOrder DEF Queue

\* The pool of an environment that goes has no execution: one on it would be the
\* environment's own, and it has none.
LEMMA EmptiedPool ==
  ASSUME IInv, NEW i \in Env, DeleteEnvironment(i)
  PROVE  /\ cluster.envs[i] \in EnvRec /\ cluster.envs[i].pool \in Pool
         /\ \A e \in Exec : cluster.execs[e] # None =>
              cluster.execs[e].pool # cluster.envs[i].pool
<1>1. cluster.envs[i] \in EnvRec /\ cluster.envs[i] # None /\ cluster.envs[i].pool \in Pool
  BY ClusterParts DEF IInv, Sound, Typed, DeleteEnvironment, EnvRec
<1>2. ASSUME NEW e \in Exec, cluster.execs[e] # None,
             cluster.execs[e].pool = cluster.envs[i].pool
      PROVE  FALSE
  <2>1. cluster.execs[e].env \in Env
    BY <1>2, ClusterParts DEF IInv, Sound, Typed, ExecRec
  <2>2. /\ Claims(cluster, requests, cluster.execs[e].env, cluster.envs[i].pool)
        /\ Claims(cluster, requests, i, cluster.envs[i].pool)
    BY <1>1, <1>2 DEF Claims
  <2>3. cluster.execs[e].env = i
    BY <1>1, <2>1, <2>2 DEF IInv, Sound, UniqueClaims
  <2> QED BY <1>2, <2>3 DEF DeleteEnvironment
<1> QED BY <1>1, <1>2

LEMMA DeleteEnvironmentQueue ==
  ASSUME IInv, Blocked(cluster, MaxExec), NEW i \in Env, DeleteEnvironment(i)
  PROVE  Queue
<1> DEFINE env == cluster.envs[i]
           gone == IF env.cfg.artifact # None /\ LastUser(i) THEN {env.cfg.artifact} ELSE {}
           b == DropPool(cluster, env.pool)
<1>1. cluster \in Cluster /\ PoolsExist(cluster)
  BY DEF IInv, Sound, Typed
<1>2. /\ env.pool \in Pool
      /\ \A e \in Exec : cluster.execs[e] # None => cluster.execs[e].pool # env.pool
  BY EmptiedPool
<1>3. /\ b \in Cluster /\ b.execs = cluster.execs
      /\ b.pools = [cluster.pools EXCEPT ![env.pool] = None]
  <2>1. b = DropPool(cluster, env.pool)
    OBVIOUS
  <2> HIDE DEF b, env
  <2> QED BY <1>1, <1>2, <2>1, DropPoolLemma
<1>4. Blocked(b, MaxExec)
  BY <1>1, <1>2, BlockedDropPool
<1>5. PoolsExist(b)
  <2>1. \A e \in Exec : cluster.execs[e] # None => cluster.execs[e].pool \in Pool
    BY <1>1, ClusterParts DEF ExecRec
  <2> QED BY <1>1, <1>2, <1>3, <2>1 DEF PoolsExist, Cluster
<1>6. /\ cluster'.execs = b.execs /\ cluster'.pools = b.pools
      /\ cluster'.nodes = [n \in Node |-> IF b.nodes[n] = None THEN None
                             ELSE [b.nodes[n] EXCEPT !.artifacts = b.nodes[n].artifacts \ gone]]
  BY <1>3 DEF DeleteEnvironment, Cluster
<1> HIDE DEF b, env, gone
<1>7. ASSUME NEW n \in Node, b.nodes[n] # None
      PROVE  LET x == [b.nodes[n] EXCEPT !.artifacts = b.nodes[n].artifacts \ gone]
             IN  /\ x # None /\ x.cap = b.nodes[n].cap /\ x.idle = b.nodes[n].idle
                 /\ x.ready = b.nodes[n].ready /\ x.images = b.nodes[n].images
                 /\ x.artifacts \subseteq b.nodes[n].artifacts
  <2>1. b.nodes[n] \in NodeRec
    BY <1>3, <1>7, ClusterParts
  <2>2. b.nodes[n].artifacts \ gone \in SUBSET Artifact
    BY <2>1 DEF NodeRec
  <2>3. [b.nodes[n] EXCEPT !.artifacts = b.nodes[n].artifacts \ gone] \in NodeRec
    BY <2>1, <2>2, NodeUpdates
  <2> QED BY <2>1, <2>3, Apart DEF NodeRec
<1>8. \A p \in Pool : NodesNoBetter(b, cluster', p)
  BY <1>6, <1>7 DEF NodesNoBetter, HasRuntime
<1>9. \A e \in Exec : b.execs[e] # None => b.execs[e].pool \in Pool
  BY <1>3, ClusterParts DEF ExecRec
<1>10. Blocked(cluster', MaxExec)
  BY <1>3, <1>4, <1>5, <1>6, <1>8, <1>9, BlockedSameExecs
<1> QED BY <1>3, <1>6, <1>10, SameInOrder DEF Queue

\* A new submission is placed only if its pool has room: then nothing waits there.
LEMMA CreateExecutionQueue ==
  ASSUME IInv, Blocked(cluster, MaxExec),
         NEW e \in Exec, NEW i \in Env, NEW p \in Pool, NEW queue \in BOOLEAN,
         CreateExecution(e, i, p, queue)
  PROVE  Queue
<1> DEFINE c == cluster
           x == [status |-> "queued", pool |-> p, node |-> None, env |-> i]
           d == [c EXCEPT !.execs[e] = x]
<1>1. c \in Cluster /\ cluster' = Schedule(d, e) /\ c.execs[e] = None
  BY DEF IInv, Sound, Typed, CreateExecution
<1>2. x \in ExecRec /\ x # None /\ x.status = "queued" /\ x.pool = p
  <2>1. x \in ExecRec
    BY DEF ExecRec
  <2> QED BY <2>1, Apart
<1>3. d = [c EXCEPT !.execs = [c.execs EXCEPT ![e] = x]]
  BY <1>1 DEF Cluster
<1> HIDE DEF x
<1>4. /\ d \in Cluster
      /\ d.pools = c.pools /\ d.envs = c.envs /\ d.nodes = c.nodes
      /\ \A f \in Exec : d.execs[f] = IF f = e THEN x ELSE c.execs[f]
  <2> DEFINE g == [c EXCEPT !.execs = [c.execs EXCEPT ![e] = x]]
  <2>1. /\ g \in Cluster
        /\ g.pools = c.pools /\ g.envs = c.envs /\ g.nodes = c.nodes
        /\ \A f \in Exec : g.execs[f] = IF f = e THEN x ELSE c.execs[f]
    BY <1>1, <1>2, ExecChanged
  <2> QED BY <1>3, <2>1
<1> HIDE DEF c, d
<1>5. IsQueued(d, e) /\ d.execs[e].pool = p
  BY <1>2, <1>4 DEF IsQueued
<1>6. \A y \in Pool : NoBetter(c, d, y) /\ NoBetter(d, c, y)
  <2>1. \A y \in Pool : ActiveOn(d, y) = ActiveOn(c, y)
    BY <1>1, <1>2, <1>4 DEF ActiveOn, Holds
  <2> QED BY <1>4, <2>1 DEF NoBetter, IdleAt
<1>7. \A y \in Pool : Schedulable(d, y) <=> Schedulable(c, y)
  BY <1>6, StaysBlocked
<1>8. ASSUME NEW f \in Exec, f # e, IsQueued(c, f)
      PROVE  c.execs[f].pool \in Pool /\ ~ Schedulable(d, c.execs[f].pool)
  <2>1. c.execs[f].pool \in Pool
    BY <1>1, <1>8, ClusterParts DEF IsQueued, ExecRec
  <2>2. ~ Schedulable(c, c.execs[f].pool)
    BY <1>8 DEF Blocked, Exec, c
  <2> QED BY <1>7, <2>1, <2>2
<1>9. CASE ~ Schedulable(d, p)
  <2>1. cluster' = d
    BY <1>1, <1>4, <1>5, <1>9, ScheduleCases
  <2>2. Blocked(d, MaxExec)
    BY <1>4, <1>5, <1>8, <1>9 DEF Blocked, IsQueued
  <2>3. InOrder(c, d)
    BY <1>4, <1>5 DEF InOrder, IsQueued
  <2> QED BY <2>1, <2>2, <2>3 DEF Queue, c
<1>10. CASE Schedulable(d, p)
  <2>1. PICK n \in Node : d.nodes[n] # None /\ cluster' = Place(d, e, n)
    BY <1>1, <1>4, <1>5, <1>10, ScheduleCases
  <2>2. d.pools[p] # None
    BY <1>10 DEF Schedulable
  <2> DEFINE t == Place(d, e, n)
  <2> HIDE DEF t
  <2>3. /\ \A f \in Exec : f # e => t.execs[f] = d.execs[f]
        /\ t.execs[e].status = "assigned" /\ t.execs[e].pool = p
    <3>1. t = Place(d, e, n) /\ p = d.execs[e].pool
      BY <1>5 DEF t
    <3> QED BY <1>4, <1>5, <2>1, <3>1, PlaceParts
  <2>4. ASSUME NEW f \in Exec, IsQueued(t, f)
        PROVE  /\ f # e /\ t.execs[f] = c.execs[f] /\ IsQueued(c, f)
               /\ d.execs[f] = c.execs[f] /\ IsQueued(d, f)
               /\ c.execs[f].pool \in Pool /\ c.execs[f].pool # p
               /\ ~ Schedulable(d, c.execs[f].pool)
    <3>1. f # e
      BY <2>3, <2>4 DEF IsQueued
    <3>2. t.execs[f] = c.execs[f] /\ IsQueued(c, f) /\ d.execs[f] = c.execs[f] /\ IsQueued(d, f)
      BY <1>4, <2>3, <2>4, <3>1 DEF IsQueued
    <3> QED BY <1>8, <1>10, <3>1, <3>2
  <2>5. Blocked(t, MaxExec)
    <3> SUFFICES ASSUME NEW f \in Exec, IsQueued(t, f)
                 PROVE  ~ Schedulable(t, t.execs[f].pool)
      BY DEF Blocked
    <3> DEFINE y == c.execs[f].pool
    <3>1. /\ y \in Pool /\ y # p /\ ~ Schedulable(d, y)
          /\ t.execs[f].pool = y
      BY <2>4
    <3>2. NoBetter(d, t, y)
      BY <1>4, <1>5, <2>1, <2>2, <3>1, PlaceNoBetter DEF t
    <3> QED BY <3>1, <3>2, StaysBlocked
  <2>6. InOrder(c, t)
    <3> SUFFICES ASSUME NEW f \in Exec, NEW g \in Exec, IsQueued(t, f),
                        t.execs[g].pool = t.execs[f].pool
                 PROVE  t.execs[g] = c.execs[g]
      BY DEF InOrder
    <3>1. g # e
      BY <2>3, <2>4
    <3> QED BY <1>4, <2>3, <3>1
  <2>7. cluster' = t
    BY <2>1 DEF t
  <2> QED BY <2>5, <2>6, <2>7 DEF Queue, c
<1> QED BY <1>9, <1>10

LEMMA NextWorkQueue ==
  ASSUME IInv, Blocked(cluster, MaxExec), NEW n \in Node, NEW e \in Exec, NextWork(n, e)
  PROVE  Queue
<1> DEFINE x == [cluster.execs[e] EXCEPT !.status = "running"]
<1>1. cluster \in Cluster /\ PoolsExist(cluster) /\ cluster.execs[e] \in ExecRec
  BY ClusterParts DEF IInv, Sound, Typed, NextWork
<1>2. x \in ExecRec /\ x # None /\ x.status = "running" /\ x.pool = cluster.execs[e].pool
  <2>1. x \in ExecRec /\ x.status = "running" /\ x.pool = cluster.execs[e].pool
    BY <1>1 DEF ExecRec
  <2> QED BY <2>1, Apart
<1>3. cluster' = [cluster EXCEPT !.execs = [cluster.execs EXCEPT ![e] = x]]
  BY <1>1 DEF NextWork, Cluster
<1> HIDE DEF x
<1>4. /\ cluster'.pools = cluster.pools /\ cluster'.nodes = cluster.nodes
      /\ \A f \in Exec : cluster'.execs[f] = IF f = e THEN x ELSE cluster.execs[f]
  BY <1>1, <1>3 DEF Cluster
<1>5. \A p \in Pool : ActiveOn(cluster', p) = ActiveOn(cluster, p)
  <2>1. cluster.execs[e] # None /\ cluster.execs[e].status = "assigned"
    BY DEF NextWork
  <2> QED BY <1>2, <1>4, <2>1 DEF ActiveOn, Holds
<1>6. \A p \in Pool : NoBetter(cluster, cluster', p)
  BY <1>4, <1>5 DEF NoBetter, IdleAt
<1>7. ASSUME NEW f \in Exec, IsQueued(cluster', f)
      PROVE  /\ IsQueued(cluster, f)
             /\ cluster'.execs[f].pool = cluster.execs[f].pool
             /\ cluster.execs[f].pool \in Pool
  <2>1. f # e /\ cluster'.execs[f] = cluster.execs[f]
    BY <1>2, <1>4, <1>7 DEF IsQueued
  <2> QED BY <1>1, <1>7, <2>1, ClusterParts DEF IsQueued, ExecRec
<1>8. Blocked(cluster', MaxExec)
  BY <1>6, <1>7, BlockedKept
<1> QED BY <1>2, <1>4, <1>8, SameInOrder DEF Queue

\* Every step leaves the queue blocked and in order.
LEMMA NextQueue ==
  ASSUME IInv, Blocked(cluster, MaxExec), [Next]_vars
  PROVE  Queue
<1>1. ASSUME UNCHANGED cluster PROVE Queue
  BY <1>1 DEF Queue, InOrder
<1>2. CASE Administer
  <2>1. ASSUME NEW i \in Image, NEW kind \in {"vm", "runtime"},
               ImportImage(i, kind) \/ UpdateImage(i, kind) \/ DeleteImage(i)
        PROVE  Queue
    BY <2>1, ImagesQueue
  <2>2. ASSUME NEW p \in UserPool, NEW cfg \in PoolConfig, CreatePool(p, cfg) PROVE Queue
    BY <2>2, CreatePoolQueue, ControllerAssumption
  <2>3. ASSUME NEW p \in Pool, DeletePool(p) PROVE Queue
    BY <2>3, DeletePoolQueue
  <2>4. ASSUME NEW r \in Req, NEW cfg \in EnvConfig, BeginCreate(r, cfg) PROVE Queue
    BY <1>1, <2>4 DEF BeginCreate
  <2>5. ASSUME NEW r \in Req, NEW i \in Env, NEW cfg \in EnvConfig, BeginUpdate(r, i, cfg)
        PROVE  Queue
    BY <1>1, <2>5 DEF BeginUpdate
  <2>6. ASSUME NEW r \in Req, PrepareArtifact(r) \/ AbandonRequest(r) PROVE Queue
    BY <1>1, <2>6 DEF PrepareArtifact, AbandonRequest
  <2>7. ASSUME NEW r \in Req, CommitCreate(r) \/ CommitUpdate(r) PROVE Queue
    BY <2>7, CommitCreateQueue, CommitUpdateKept, SweptQueue
  <2>8. ASSUME NEW i \in Env, RestartEnvironment(i) \/ DeleteEnvironment(i) PROVE Queue
    BY <2>8, RestartEnvironmentKept, SweptQueue, DeleteEnvironmentQueue
  <2>9. ASSUME NEW n \in Node, DeleteNode(n) PROVE Queue
    BY <2>9, DeleteNodeKept, SweptQueue
  <2> QED BY <1>2, <2>1, <2>2, <2>3, <2>4, <2>5, <2>6, <2>7, <2>8, <2>9 DEF Administer
<1>3. CASE Submit
  BY <1>3, CreateExecutionQueue DEF Submit
<1>4. CASE Serve
  <2>1. ASSUME NEW n \in Node, Heartbeat(n) \/ StartAgent(n) PROVE Queue
    BY <2>1, HeartbeatKept, StartAgentKept, SweptQueue
  <2>2. ASSUME NEW n \in Node, NEW i \in Image, ImageArrived(n, i) PROVE Queue
    BY <2>2, ImageArrivedKept, SweptQueue
  <2>3. ASSUME NEW n \in Node, NEW a \in Artifact, ArtifactArrived(n, a) PROVE Queue
    BY <2>3, ArtifactArrivedKept, SweptQueue
  <2>4. ASSUME NEW n \in Node, NEW p \in Pool,
               AddWarmInstance(n, p) \/ RemoveIdleInstance(n, p)
        PROVE  Queue
    BY <2>4, WarmKept, SweptQueue
  <2>5. ASSUME NEW n \in Node, NEW e \in Exec, NextWork(n, e) PROVE Queue
    BY <2>5, NextWorkQueue
  <2>6. ASSUME NEW n \in Node, NEW e \in Exec, NEW keepIdle \in BOOLEAN,
               CompleteExecution(n, e, keepIdle)
        PROVE  Queue
    BY <2>6, CompleteExecutionKept, SweptQueue
  <2> QED BY <1>4, <2>1, <2>2, <2>3, <2>4, <2>5, <2>6 DEF Serve
<1>5. CASE UNCHANGED vars
  BY <1>1, <1>5 DEF vars
<1> QED BY <1>2, <1>3, <1>4, <1>5 DEF Next

-----------------------------------------------------------------------------
(* The books of the nodes: what is shown as used is what is reserved. *)

InUse(c, n, p) == {e \in ActiveOn(c, p) : c.execs[e].node = n}

\* The MicroVMs of pool p on node n, idle and in use.
Held(c, n, p) == IdleAt(c, n, p) + Cardinality(InUse(c, n, p))

Booked(c, n) == Total([p \in Pool |-> Reserved(c, n, p)], NumPools)

Balanced(c, n) == c.nodes[n] # None => c.nodes[n].used = Booked(c, n)

\* A pool that is gone has left no idle MicroVM behind: pools come back, under a
\* stale update, and would find it.
NoGhosts(c) ==
  \A p \in Pool, n \in Node : c.pools[p] = None => IdleAt(c, n, p) = 0

Accounts(c) == NoGhosts(c) /\ \A n \in Node : Balanced(c, n)

LEMMA Arithmetic ==
  /\ \A a, b, k \in Nat : a * (b + k) = a * b + a * k
  /\ \A a \in Nat : a * 0 = 0 /\ a * 1 = a
OBVIOUS

LEMMA OneMore ==
  ASSUME NEW a \in Nat, NEW b \in Nat
  PROVE  a * (b + 1) = a * b + a
OBVIOUS

LEMMA HeldType ==
  ASSUME NEW c \in Cluster, NEW n \in Node, NEW p \in Pool
  PROVE  /\ IdleAt(c, n, p) \in Nat /\ Cardinality(InUse(c, n, p)) \in Nat
         /\ IsFiniteSet(InUse(c, n, p)) /\ Held(c, n, p) \in Nat
         /\ c.pools[p] # None => /\ c.pools[p].cfg.size \in Nat
                                 /\ Reserved(c, n, p) = c.pools[p].cfg.size * Held(c, n, p)
         /\ c.pools[p] = None => Reserved(c, n, p) = 0
         /\ Reserved(c, n, p) \in Nat
<1>1. IdleAt(c, n, p) \in Nat
  BY ClusterParts DEF IdleAt, NodeRec
<1>2. IsFiniteSet(InUse(c, n, p)) /\ Cardinality(InUse(c, n, p)) \in Nat
  BY FiniteParts DEF InUse, ActiveOn
<1>3. Held(c, n, p) \in Nat
  BY <1>1, <1>2 DEF Held
<1>4. c.pools[p] # None => c.pools[p].cfg.size \in Nat
  BY ClusterParts DEF PoolRec, Config
<1>5. /\ c.pools[p] # None => Reserved(c, n, p) = c.pools[p].cfg.size * Held(c, n, p)
      /\ c.pools[p] = None => Reserved(c, n, p) = 0
  BY DEF Reserved, Held, InUse
<1>6. Reserved(c, n, p) \in Nat
  BY <1>3, <1>4, <1>5, ProductType
<1> QED BY <1>1, <1>2, <1>3, <1>4, <1>5, <1>6

LEMMA BookedType ==
  ASSUME NEW c \in Cluster, NEW n \in Node
  PROVE  /\ NumPools \in Nat
         /\ [p \in Pool |-> Reserved(c, n, p)] \in [1..NumPools -> Nat]
         /\ Booked(c, n) \in Nat
<1>1. NumPools \in Nat
  BY SchedulerAssumption
<1>2. [p \in Pool |-> Reserved(c, n, p)] \in [1..NumPools -> Nat]
  BY HeldType DEF Pool
<1> QED BY <1>1, <1>2, TotalNat DEF Booked

\* What is booked changes with the one pool that changes.
LEMMA OnePool ==
  ASSUME NEW c \in Cluster, NEW d \in Cluster, NEW n \in Node, NEW p \in Pool,
         \A y \in Pool : y # p => Reserved(d, n, y) = Reserved(c, n, y)
  PROVE  Booked(d, n) + Reserved(c, n, p) = Booked(c, n) + Reserved(d, n, p)
<1> DEFINE f == [y \in Pool |-> Reserved(c, n, y)]
           g == [y \in Pool |-> Reserved(d, n, y)]
<1>1. /\ f \in [1..NumPools -> Nat] /\ g \in [1..NumPools -> Nat]
      /\ NumPools \in Nat /\ p \in 1..NumPools
  BY BookedType DEF Pool
<1>2. /\ f[p] = Reserved(c, n, p) /\ g[p] = Reserved(d, n, p)
      /\ \A y \in 1..NumPools : y # p => g[y] = f[y]
  BY DEF Pool
<1>3. Booked(c, n) = Total(f, NumPools) /\ Booked(d, n) = Total(g, NumPools)
  BY DEF Booked
<1> HIDE DEF f, g
<1>4. Total(g, NumPools) + f[p] = Total(f, NumPools) + g[p]
  BY <1>1, <1>2, TotalChanged
<1> QED BY <1>2, <1>3, <1>4

\* A node that takes `more` for pool p, or gives `less` back.
LEMMA Taken ==
  ASSUME NEW c \in Cluster, NEW d \in Cluster, NEW n \in Node, NEW p \in Pool,
         c.nodes[n] # None, Balanced(c, n),
         \A y \in Pool : y # p => Reserved(d, n, y) = Reserved(c, n, y),
         NEW more \in Nat, Reserved(d, n, p) = Reserved(c, n, p) + more,
         d.nodes[n].used = c.nodes[n].used + more
  PROVE  Balanced(d, n)
<1>1. Booked(d, n) + Reserved(c, n, p) = Booked(c, n) + Reserved(d, n, p)
  BY OnePool
<1>2. /\ Booked(d, n) \in Nat /\ Booked(c, n) \in Nat /\ Reserved(c, n, p) \in Nat
  BY BookedType, HeldType
<1>3. c.nodes[n].used = Booked(c, n)
  BY DEF Balanced
<1>4. d.nodes[n].used = Booked(d, n)
  BY <1>1, <1>2, <1>3
<1> QED BY <1>4 DEF Balanced

LEMMA GivenBack ==
  ASSUME NEW c \in Cluster, NEW d \in Cluster, NEW n \in Node, NEW p \in Pool,
         c.nodes[n] # None, Balanced(c, n),
         \A y \in Pool : y # p => Reserved(d, n, y) = Reserved(c, n, y),
         NEW less \in Nat, Reserved(c, n, p) = Reserved(d, n, p) + less,
         d.nodes[n].used = Monus(c.nodes[n].used, less)
  PROVE  Balanced(d, n)
<1>1. Booked(d, n) + Reserved(c, n, p) = Booked(c, n) + Reserved(d, n, p)
  BY OnePool
<1>2. /\ Booked(d, n) \in Nat /\ Booked(c, n) \in Nat /\ Reserved(d, n, p) \in Nat
  BY BookedType, HeldType
<1>3. c.nodes[n].used = Booked(c, n)
  BY DEF Balanced
<1>4. d.nodes[n].used = Booked(d, n)
  BY <1>1, <1>2, <1>3 DEF Monus
<1> QED BY <1>4 DEF Balanced

\* Nothing is reserved differently where pool and MicroVMs are the same.
LEMMA SameReserved ==
  ASSUME NEW c, NEW d, NEW n, NEW p,
         d.pools[p] = None <=> c.pools[p] = None,
         d.pools[p] # None => d.pools[p].cfg.size = c.pools[p].cfg.size,
         Held(d, n, p) = Held(c, n, p)
  PROVE  Reserved(d, n, p) = Reserved(c, n, p)
BY DEF Reserved, Held, InUse

LEMMA SameBalance ==
  ASSUME NEW c, NEW d, NEW n \in Node, Balanced(c, n), c.nodes[n] # None,
         d.nodes[n].used = c.nodes[n].used,
         \A p \in Pool : Reserved(d, n, p) = Reserved(c, n, p)
  PROVE  Balanced(d, n)
BY DEF Balanced, Booked

Works(c, e) == c.execs[e] # None /\ c.execs[e].status \in {"assigned", "running"}

WorkHasPool(c) == \A e \in Exec : Works(c, e) => c.pools[c.execs[e].pool] # None

\* Steps that leave the MicroVMs where they are; pools may come and nodes may go.
LEMMA AccountsQuiet ==
  ASSUME NEW c \in Cluster, NEW d \in Cluster, Accounts(c), WorkHasPool(c),
         \A n \in Node : d.nodes[n] # None =>
           /\ c.nodes[n] # None
           /\ d.nodes[n].used = c.nodes[n].used /\ d.nodes[n].idle = c.nodes[n].idle,
         \A n \in Node, p \in Pool : InUse(d, n, p) = InUse(c, n, p),
         \A p \in Pool : c.pools[p] # None =>
           d.pools[p] # None /\ d.pools[p].cfg.size = c.pools[p].cfg.size
  PROVE  Accounts(d)
<1>1. ASSUME NEW n \in Node, d.nodes[n] # None, NEW p \in Pool
      PROVE  Held(d, n, p) = Held(c, n, p) /\ IdleAt(d, n, p) = IdleAt(c, n, p)
  BY <1>1 DEF Held, IdleAt
<1>2. NoGhosts(d)
  <2> SUFFICES ASSUME NEW p \in Pool, NEW n \in Node, d.pools[p] = None
               PROVE  IdleAt(d, n, p) = 0
    BY DEF NoGhosts
  <2>1. CASE d.nodes[n] = None
    BY <2>1 DEF IdleAt
  <2>2. CASE d.nodes[n] # None
    BY <1>1, <2>2 DEF Accounts, NoGhosts
  <2> QED BY <2>1, <2>2
<1>3. ASSUME NEW n \in Node, d.nodes[n] # None PROVE Balanced(d, n)
  <2>1. ASSUME NEW p \in Pool PROVE Reserved(d, n, p) = Reserved(c, n, p)
    <3>1. CASE c.pools[p] # None
      BY <1>1, <1>3, <3>1, SameReserved
    <3>2. CASE c.pools[p] = None
      <4>1. InUse(c, n, p) = {}
        BY <3>2 DEF InUse, ActiveOn, Holds, WorkHasPool, Works
      <4>2. IdleAt(c, n, p) = 0
        BY <3>2 DEF Accounts, NoGhosts
      <4>3. Held(d, n, p) = 0
        <5>1. Cardinality({}) = 0
          BY FS_EmptySet
        <5>2. Held(c, n, p) = 0 + 0
          BY <4>1, <4>2, <5>1 DEF Held
        <5> QED BY <1>1, <1>3, <5>2
      <4>4. Reserved(d, n, p) = 0
        BY <4>3, HeldType, Arithmetic
      <4>5. Reserved(c, n, p) = 0
        BY <3>2, HeldType
      <4> QED BY <4>4, <4>5
    <3> QED BY <3>1, <3>2
  <2>2. Balanced(c, n)
    BY DEF Accounts
  <2> QED BY <1>3, <2>1, <2>2, SameBalance
<1>4. \A n \in Node : Balanced(d, n)
  BY <1>3 DEF Balanced
<1> QED BY <1>2, <1>4 DEF Accounts

\* From c to d, execution e starts to hold a MicroVM of pool p on node n.
LEMMA InUseAdded ==
  ASSUME NEW c, NEW d, NEW e \in Exec, ~ Works(c, e), Works(d, e),
         \A f \in Exec : f # e => d.execs[f] = c.execs[f],
         NEW n, NEW p, d.execs[e].pool = p, d.execs[e].node = n
  PROVE  /\ \A m \in Node, y \in Pool :
              m # n \/ y # p => InUse(d, m, y) = InUse(c, m, y)
         /\ InUse(d, n, p) = InUse(c, n, p) \cup {e}
         /\ e \notin InUse(c, n, p)
BY DEF InUse, ActiveOn, Holds, Works

\* The other way round.
LEMMA InUseRemoved ==
  ASSUME NEW c, NEW d, NEW e \in Exec, Works(c, e), ~ Works(d, e),
         \A f \in Exec : f # e => d.execs[f] = c.execs[f],
         NEW n, NEW p, c.execs[e].pool = p, c.execs[e].node = n
  PROVE  /\ \A m \in Node, y \in Pool :
              m # n \/ y # p => InUse(d, m, y) = InUse(c, m, y)
         /\ InUse(c, n, p) = InUse(d, n, p) \cup {e}
         /\ e \notin InUse(d, n, p)
BY DEF InUse, ActiveOn, Holds, Works

LEMMA CardinalityAdded ==
  ASSUME NEW c \in Cluster, NEW d, NEW n \in Node, NEW p \in Pool, NEW e,
         InUse(d, n, p) = InUse(c, n, p) \cup {e}, e \notin InUse(c, n, p)
  PROVE  Cardinality(InUse(d, n, p)) = Cardinality(InUse(c, n, p)) + 1
BY HeldType, FS_AddElement

\* A node that takes or gives back one MicroVM of pool p, or moves one between
\* idle and in use.
LEMMA AccountsOne ==
  ASSUME NEW c \in Cluster, NEW d \in Cluster, Accounts(c),
         NEW n \in Node, NEW p \in Pool, c.nodes[n] # None, c.pools[p] # None,
         d.pools = c.pools, \A m \in Node : m # n => d.nodes[m] = c.nodes[m],
         \A m \in Node, y \in Pool :
           m # n \/ y # p => IdleAt(d, m, y) = IdleAt(c, m, y) /\ InUse(d, m, y) = InUse(c, m, y),
         NEW size, size = c.pools[p].cfg.size,
         \/ /\ Held(d, n, p) = Held(c, n, p) /\ d.nodes[n].used = c.nodes[n].used
         \/ /\ Held(d, n, p) = Held(c, n, p) + 1 /\ d.nodes[n].used = c.nodes[n].used + size
         \/ /\ Held(c, n, p) = Held(d, n, p) + 1
            /\ d.nodes[n].used = Monus(c.nodes[n].used, size)
  PROVE  Accounts(d)
<1>1. \A m \in Node, y \in Pool : m # n \/ y # p => Reserved(d, m, y) = Reserved(c, m, y)
  <2> SUFFICES ASSUME NEW m \in Node, NEW y \in Pool, m # n \/ y # p
               PROVE  Reserved(d, m, y) = Reserved(c, m, y)
    OBVIOUS
  <2>1. Held(d, m, y) = Held(c, m, y)
    BY DEF Held
  <2> QED BY <2>1, SameReserved
<1>2. NoGhosts(d)
  BY DEF Accounts, NoGhosts
<1>3. Balanced(d, n)
  <2>1. /\ Held(c, n, p) \in Nat /\ Held(d, n, p) \in Nat /\ size \in Nat
        /\ Reserved(c, n, p) = size * Held(c, n, p)
        /\ Reserved(d, n, p) = size * Held(d, n, p)
    BY HeldType
  <2>2. Balanced(c, n)
    BY DEF Accounts
  <2>3. CASE Held(d, n, p) = Held(c, n, p) /\ d.nodes[n].used = c.nodes[n].used
    <3>1. \A y \in Pool : Reserved(d, n, y) = Reserved(c, n, y)
      BY <1>1, <2>1, <2>3
    <3> QED BY <2>2, <2>3, <3>1, SameBalance
  <2>4. CASE Held(d, n, p) = Held(c, n, p) + 1 /\ d.nodes[n].used = c.nodes[n].used + size
    <3>1. Reserved(d, n, p) = Reserved(c, n, p) + size
      <4>1. size * (Held(c, n, p) + 1) = size * Held(c, n, p) + size
        BY <2>1, OneMore
      <4> QED BY <2>1, <2>4, <4>1
    <3> QED BY <1>1, <2>1, <2>2, <2>4, <3>1, Taken
  <2>5. CASE /\ Held(c, n, p) = Held(d, n, p) + 1
             /\ d.nodes[n].used = Monus(c.nodes[n].used, size)
    <3>1. Reserved(c, n, p) = Reserved(d, n, p) + size
      <4>1. size * (Held(d, n, p) + 1) = size * Held(d, n, p) + size
        BY <2>1, OneMore
      <4> QED BY <2>1, <2>5, <4>1
    <3> QED BY <1>1, <2>1, <2>2, <2>5, <3>1, GivenBack
  <2> QED BY <2>3, <2>4, <2>5
<1>4. ASSUME NEW m \in Node, m # n, d.nodes[m] # None PROVE Balanced(d, m)
  <2>1. Balanced(c, m) /\ d.nodes[m] = c.nodes[m]
    BY <1>4 DEF Accounts
  <2> QED BY <1>1, <1>4, <2>1, SameBalance
<1>5. \A m \in Node : Balanced(d, m)
  BY <1>3, <1>4 DEF Balanced
<1> QED BY <1>2, <1>5 DEF Accounts

\* Placing execution e on n: an idle MicroVM of the pool is taken, or room for one.
LEMMA PlaceCounts ==
  ASSUME NEW c \in Cluster, NEW e \in Exec, NEW n \in Node, IsQueued(c, e),
         c.nodes[n] # None, NEW p, p = c.execs[e].pool, c.pools[p] # None,
         NEW d, d = Place(c, e, n), NEW size, size = c.pools[p].cfg.size
  PROVE  /\ d \in Cluster /\ p \in Pool /\ size \in Nat
         /\ d.pools = c.pools /\ d.nodes[n] # None
         /\ \A m \in Node : m # n => d.nodes[m] = c.nodes[m]
         /\ \A f \in Exec : f # e => d.execs[f] = c.execs[f]
         /\ ~ Works(c, e) /\ Works(d, e) /\ d.execs[e].pool = p /\ d.execs[e].node = n
         /\ \A m \in Node, y \in Pool : m # n \/ y # p => IdleAt(d, m, y) = IdleAt(c, m, y)
         /\ IdleAt(c, n, p) \in Nat
         /\ IdleAt(c, n, p) > 0 =>
              IdleAt(d, n, p) = IdleAt(c, n, p) - 1 /\ d.nodes[n].used = c.nodes[n].used
         /\ ~ (IdleAt(c, n, p) > 0) =>
              IdleAt(d, n, p) = IdleAt(c, n, p) /\ d.nodes[n].used = c.nodes[n].used + size
<1>1. d \in Cluster /\ Placed(c, d)
  BY PlaceLemma
<1>2. /\ d.pools = c.pools
      /\ \A m \in Node : m # n => d.nodes[m] = c.nodes[m]
      /\ d.nodes[n] = TakeInstance(c.nodes[n], p, size)
      /\ \A f \in Exec : f # e => d.execs[f] = c.execs[f]
      /\ p \in Pool
      /\ d.execs[e] \in ExecRec /\ d.execs[e].status = "assigned"
      /\ d.execs[e].pool = p /\ d.execs[e].node = n
  BY PlaceParts
<1>3. c.nodes[n] \in NodeRec /\ size \in Nat
  BY <1>2, ClusterParts DEF PoolRec, Config
<1>4. ~ Works(c, e) /\ Works(d, e)
  <2>1. d.execs[e] # None
    BY <1>2, Apart
  <2> QED BY <1>2, <2>1 DEF Works, IsQueued
<1>5. /\ \A y \in Pool : y # p => d.nodes[n].idle[y] = c.nodes[n].idle[y]
      /\ d.nodes[n] # None
  BY ONLY <1>2, <1>3, TakeInstanceParts
<1>6. /\ c.nodes[n].idle[p] \in Nat /\ c.nodes[n].used \in Nat
      /\ c.nodes[n].idle[p] > 0 =>
           d.nodes[n].idle[p] = c.nodes[n].idle[p] - 1 /\ d.nodes[n].used = c.nodes[n].used
      /\ ~ (c.nodes[n].idle[p] > 0) =>
           d.nodes[n].idle[p] = c.nodes[n].idle[p] /\ d.nodes[n].used = c.nodes[n].used + size
  BY ONLY <1>2, <1>3, TakeInstanceCounts
<1>7. IdleAt(c, n, p) = c.nodes[n].idle[p] /\ IdleAt(d, n, p) = d.nodes[n].idle[p]
  BY <1>5 DEF IdleAt
<1>8. \A m \in Node, y \in Pool : m # n \/ y # p => IdleAt(d, m, y) = IdleAt(c, m, y)
  BY <1>2, <1>5 DEF IdleAt
<1> QED BY <1>1, <1>2, <1>3, <1>4, <1>5, <1>6, <1>7, <1>8

\* Placing an execution keeps the accounts.
LEMMA PlaceAccounts ==
  ASSUME NEW c \in Cluster, Accounts(c), NEW e \in Exec, NEW n \in Node, IsQueued(c, e),
         c.nodes[n] # None, c.pools[c.execs[e].pool] # None
  PROVE  Accounts(Place(c, e, n))
<1> DEFINE p == c.execs[e].pool
           d == Place(c, e, n)
           size == c.pools[p].cfg.size
<1>1. /\ p = c.execs[e].pool /\ d = Place(c, e, n) /\ size = c.pools[p].cfg.size
      /\ c.pools[p] # None
  OBVIOUS
<1> HIDE DEF p, d, size
<1>2. /\ d \in Cluster /\ p \in Pool
      /\ d.pools = c.pools
      /\ \A m \in Node : m # n => d.nodes[m] = c.nodes[m]
      /\ \A f \in Exec : f # e => d.execs[f] = c.execs[f]
      /\ ~ Works(c, e) /\ Works(d, e) /\ d.execs[e].pool = p /\ d.execs[e].node = n
      /\ \A m \in Node, y \in Pool : m # n \/ y # p => IdleAt(d, m, y) = IdleAt(c, m, y)
  BY <1>1, PlaceCounts
<1>3. /\ IdleAt(c, n, p) \in Nat
      /\ IdleAt(c, n, p) > 0 =>
           IdleAt(d, n, p) = IdleAt(c, n, p) - 1 /\ d.nodes[n].used = c.nodes[n].used
      /\ ~ (IdleAt(c, n, p) > 0) =>
           IdleAt(d, n, p) = IdleAt(c, n, p) /\ d.nodes[n].used = c.nodes[n].used + size
  BY <1>1, PlaceCounts
<1>4. /\ \A m \in Node, y \in Pool :
           m # n \/ y # p => InUse(d, m, y) = InUse(c, m, y)
      /\ InUse(d, n, p) = InUse(c, n, p) \cup {e}
      /\ e \notin InUse(c, n, p)
  BY <1>2, InUseAdded
<1>5. Cardinality(InUse(d, n, p)) = Cardinality(InUse(c, n, p)) + 1
  <2>1. p \in Pool
    BY <1>2
  <2> QED BY <1>4, <2>1, CardinalityAdded
<1>6. \/ Held(d, n, p) = Held(c, n, p) /\ d.nodes[n].used = c.nodes[n].used
      \/ Held(d, n, p) = Held(c, n, p) + 1 /\ d.nodes[n].used = c.nodes[n].used + size
  <2>1. Cardinality(InUse(c, n, p)) \in Nat
    BY <1>2, HeldType
  <2> QED BY <1>3, <1>5, <2>1 DEF Held
<1>7. \A m \in Node, y \in Pool :
        m # n \/ y # p => IdleAt(d, m, y) = IdleAt(c, m, y) /\ InUse(d, m, y) = InUse(c, m, y)
  BY <1>2, <1>4
<1>8. Accounts(d)
  BY <1>1, <1>2, <1>6, <1>7, AccountsOne
<1> QED BY <1>8 DEF d

\* So does schedule_queued.
LEMMA SweepAccounts ==
  ASSUME NEW c \in Cluster, Accounts(c)
  PROVE  Accounts(ScheduleQueued(c))
<1> DEFINE good == {d \in Cluster : Accounts(d)}
           S == [k \in 0..MaxExec |-> good]
<1>1. \A k \in Exec : k \in 0..MaxExec /\ k - 1 \in 0..MaxExec
  BY SchedulerAssumption DEF Exec
<1>2. 0 \in 0..MaxExec /\ MaxExec \in 0..MaxExec
  BY SchedulerAssumption
<1>3. ASSUME NEW k \in Exec, NEW d \in good PROVE TurnOf(d, k) \in good
  <2>1. CASE ~ IsQueued(d, k)
    BY <1>3, <2>1 DEF TurnOf
  <2>2. CASE IsQueued(d, k) /\ Schedule(d, k) = d
    BY <1>3, <2>2 DEF TurnOf
  <2>3. CASE IsQueued(d, k) /\ Schedule(d, k) # d
    <3>1. PICK n \in Node : /\ d.nodes[n] # None /\ Schedule(d, k) = Place(d, k, n)
                            /\ Schedulable(d, d.execs[k].pool)
      BY <2>3, ScheduleCases
    <3>2. d.pools[d.execs[k].pool] # None
      BY <3>1 DEF Schedulable
    <3>3. Accounts(Place(d, k, n)) /\ Place(d, k, n) \in Cluster
      BY <2>3, <3>1, <3>2, PlaceAccounts, PlaceLemma
    <3> QED BY <2>3, <3>1, <3>3 DEF TurnOf
  <2> QED BY <2>1, <2>2, <2>3
<1>4. c \in good
  OBVIOUS
<1> HIDE DEF good
<1>5. c \in S[0] /\ \A k \in Exec : \A d \in S[k-1] : TurnOf(d, k) \in S[k]
  BY <1>1, <1>2, <1>3, <1>4
<1>6. ScheduleQueued(c) \in S[MaxExec]
  <2> HIDE DEF S
  <2> QED BY <1>5, SweepInduction
<1> QED BY <1>2, <1>6 DEF good

\* Warming a node, and draining it: one node record changes, in what it uses and in
\* its idle MicroVMs of one pool.
NodeIdle(c, n, p, x, d) ==
  /\ d.pools = c.pools /\ d.execs = c.execs
  /\ \A m \in Node : m # n => d.nodes[m] = c.nodes[m]
  /\ d.nodes[n] = x /\ IdleAt(d, n, p) = x.idle[p]
  /\ \A m \in Node, y \in Pool : m # n \/ y # p => IdleAt(d, m, y) = IdleAt(c, m, y)

LEMMA NodeIdleChanged ==
  ASSUME NEW c \in Cluster, NEW n \in Node, NEW p \in Pool, c.nodes[n] # None,
         NEW x \in NodeRec, \A y \in Pool : y # p => x.idle[y] = c.nodes[n].idle[y],
         NEW d, d = [c EXCEPT !.nodes = [c.nodes EXCEPT ![n] = x]]
  PROVE  NodeIdle(c, n, p, x, d)
<1>1. /\ d.pools = c.pools /\ d.execs = c.execs
      /\ \A m \in Node : d.nodes[m] = IF m = n THEN x ELSE c.nodes[m]
  BY DEF Cluster
<1>2. d.nodes[n] # None
  BY <1>1, Apart
<1>3. (\A m \in Node : m # n => d.nodes[m] = c.nodes[m]) /\ d.nodes[n] = x
  BY <1>1
<1>4. ASSUME NEW m \in Node, NEW y \in Pool, m # n \/ y # p
      PROVE  IdleAt(d, m, y) = IdleAt(c, m, y)
  <2>1. CASE m # n
    BY <1>3, <2>1 DEF IdleAt
  <2>2. CASE m = n
    BY <1>2, <1>3, <1>4, <2>2 DEF IdleAt
  <2> QED BY <2>1, <2>2
<1>5. IdleAt(d, n, p) = x.idle[p]
  BY <1>2, <1>3 DEF IdleAt
<1> QED BY <1>1, <1>3, <1>4, <1>5 DEF NodeIdle

LEMMA WarmAdded ==
  ASSUME NEW c \in Cluster, NEW n \in Node, NEW p \in Pool,
         c.nodes[n] # None, c.pools[p] # None,
         NEW size, size = c.pools[p].cfg.size, NEW d, d = AddWarm(c, n, p)
  PROVE  /\ d.pools = c.pools /\ d.execs = c.execs
         /\ \A m \in Node : m # n => d.nodes[m] = c.nodes[m]
         /\ \A m \in Node, y \in Pool : m # n \/ y # p => IdleAt(d, m, y) = IdleAt(c, m, y)
         /\ IdleAt(c, n, p) \in Nat
         /\ IdleAt(d, n, p) = IdleAt(c, n, p) + 1
         /\ d.nodes[n].used = c.nodes[n].used + size
<1>1. /\ c.nodes[n] \in NodeRec /\ size \in Nat
      /\ c.nodes[n].used \in Nat /\ c.nodes[n].idle[p] \in Nat
      /\ IdleAt(c, n, p) = c.nodes[n].idle[p]
  BY ClusterParts DEF PoolRec, Config, NodeRec, IdleAt
<1> DEFINE u == c.nodes[n].used + size
           k == c.nodes[n].idle[p] + 1
           x == [c.nodes[n] EXCEPT !.used = u, !.idle[p] = k]
<1>2. d = [c EXCEPT !.nodes = [c.nodes EXCEPT ![n] = x]]
  BY <1>1 DEF AddWarm, Cluster, NodeRec
<1>3. u \in Nat /\ u = c.nodes[n].used + size
  BY <1>1
<1>4. k \in Nat /\ k = IdleAt(c, n, p) + 1
  BY <1>1
<1> HIDE DEF u, k
<1>5. /\ x \in NodeRec /\ x.used = u /\ x.idle[p] = k
      /\ \A y \in Pool : y # p => x.idle[y] = c.nodes[n].idle[y]
  BY ONLY <1>1, <1>3, <1>4, p \in Pool DEF NodeRec
<1> HIDE DEF x
<1>6. NodeIdle(c, n, p, x, d)
  BY <1>2, <1>5, NodeIdleChanged
<1> QED BY <1>1, <1>3, <1>4, <1>5, <1>6 DEF NodeIdle

LEMMA WarmRemoved ==
  ASSUME NEW c \in Cluster, NEW n \in Node, NEW p \in Pool,
         c.nodes[n] # None, c.pools[p] # None, IdleAt(c, n, p) > 0,
         NEW size, size = c.pools[p].cfg.size, NEW d, d = RemoveIdle(c, n, p)
  PROVE  /\ d.pools = c.pools /\ d.execs = c.execs
         /\ \A m \in Node : m # n => d.nodes[m] = c.nodes[m]
         /\ \A m \in Node, y \in Pool : m # n \/ y # p => IdleAt(d, m, y) = IdleAt(c, m, y)
         /\ IdleAt(c, n, p) \in Nat
         /\ IdleAt(c, n, p) = IdleAt(d, n, p) + 1
         /\ d.nodes[n].used = Monus(c.nodes[n].used, size)
<1>1. /\ c.nodes[n] \in NodeRec /\ size \in Nat
      /\ c.nodes[n].used \in Nat /\ c.nodes[n].idle[p] \in Nat
      /\ IdleAt(c, n, p) = c.nodes[n].idle[p]
  BY ClusterParts DEF PoolRec, Config, NodeRec, IdleAt
<1> DEFINE u == Monus(c.nodes[n].used, size)
           k == c.nodes[n].idle[p] - 1
           x == [c.nodes[n] EXCEPT !.used = u, !.idle[p] = k]
<1>2. d = [c EXCEPT !.nodes = [c.nodes EXCEPT ![n] = x]]
  BY <1>1 DEF RemoveIdle, Cluster, NodeRec
<1>3. u \in Nat /\ u = Monus(c.nodes[n].used, size)
  BY <1>1, MonusType
<1>4. k \in Nat /\ IdleAt(c, n, p) = k + 1
  <2>1. IdleAt(c, n, p) > 0
    OBVIOUS
  <2> QED BY ONLY <1>1, <2>1
<1> HIDE DEF u, k
<1>5. /\ x \in NodeRec /\ x.used = u /\ x.idle[p] = k
      /\ \A y \in Pool : y # p => x.idle[y] = c.nodes[n].idle[y]
  BY ONLY <1>1, <1>3, <1>4, p \in Pool DEF NodeRec
<1> HIDE DEF x
<1>6. NodeIdle(c, n, p, x, d)
  BY <1>2, <1>5, NodeIdleChanged
<1> QED BY <1>1, <1>3, <1>4, <1>5, <1>6 DEF NodeIdle

LEMMA WarmAccounts ==
  ASSUME NEW c \in Cluster, Accounts(c), NEW n \in Node, NEW p \in Pool,
         c.nodes[n] # None, c.pools[p] # None, NEW d \in Cluster,
         \/ d = AddWarm(c, n, p)
         \/ d = RemoveIdle(c, n, p) /\ IdleAt(c, n, p) > 0
  PROVE  Accounts(d)
<1> DEFINE size == c.pools[p].cfg.size
<1>1. size = c.pools[p].cfg.size
  OBVIOUS
<1> HIDE DEF size
<1>2. /\ d.pools = c.pools /\ d.execs = c.execs
      /\ \A m \in Node : m # n => d.nodes[m] = c.nodes[m]
      /\ \A m \in Node, y \in Pool : m # n \/ y # p => IdleAt(d, m, y) = IdleAt(c, m, y)
      /\ \/ /\ IdleAt(d, n, p) = IdleAt(c, n, p) + 1
            /\ d.nodes[n].used = c.nodes[n].used + size
         \/ /\ IdleAt(c, n, p) = IdleAt(d, n, p) + 1
            /\ d.nodes[n].used = Monus(c.nodes[n].used, size)
  <2>1. CASE d = AddWarm(c, n, p)
    BY <1>1, <2>1, WarmAdded
  <2>2. CASE d = RemoveIdle(c, n, p) /\ IdleAt(c, n, p) > 0
    BY <1>1, <2>2, WarmRemoved
  <2> QED BY <2>1, <2>2
<1>3. \A m \in Node, y \in Pool : InUse(d, m, y) = InUse(c, m, y)
  BY <1>2 DEF InUse, ActiveOn, Holds
<1>4. \/ Held(d, n, p) = Held(c, n, p) + 1 /\ d.nodes[n].used = c.nodes[n].used + size
      \/ /\ Held(c, n, p) = Held(d, n, p) + 1
         /\ d.nodes[n].used = Monus(c.nodes[n].used, size)
  <2>1. /\ IdleAt(c, n, p) \in Nat /\ IdleAt(d, n, p) \in Nat
        /\ Cardinality(InUse(c, n, p)) \in Nat /\ InUse(d, n, p) = InUse(c, n, p)
    BY <1>3, HeldType
  <2> QED BY <1>2, <2>1 DEF Held
<1> QED BY <1>1, <1>2, <1>3, <1>4, AccountsOne

\* Removing a pool nothing works on.
LEMMA DropPoolAccounts ==
  ASSUME NEW c \in Cluster, Accounts(c), NEW p \in Pool,
         \A e \in Exec : Works(c, e) => c.execs[e].pool # p,
         NEW d, d = DropPool(c, p)
  PROVE  Accounts(d)
<1>1. CASE c.pools[p] = None
  BY <1>1 DEF DropPool
<1>2. CASE c.pools[p] # None
  <2> DEFINE size == c.pools[p].cfg.size
  <2>1. /\ d \in Cluster /\ d.execs = c.execs
        /\ d.pools = [c.pools EXCEPT ![p] = None]
        /\ \A n \in Node : d.nodes[n] = None <=> c.nodes[n] = None
    BY DropPoolLemma
  <2>2. \A y \in Pool : d.pools[y] = IF y = p THEN None ELSE c.pools[y]
    BY <2>1 DEF Cluster
  <2>3. \A n \in Node, y \in Pool : InUse(d, n, y) = InUse(c, n, y)
    BY <2>1 DEF InUse, ActiveOn, Holds
  <2>4. \A n \in Node : InUse(c, n, p) = {}
    BY DEF InUse, ActiveOn, Holds, Works
  <2>5. ASSUME NEW n \in Node, c.nodes[n] # None
        PROVE  /\ d.nodes[n].idle = [c.nodes[n].idle EXCEPT ![p] = 0]
               /\ d.nodes[n].used = Monus(c.nodes[n].used, size * c.nodes[n].idle[p])
               /\ c.nodes[n].idle \in [Pool -> Nat]
    BY <1>2, <2>5, DropPoolNodes, ClusterParts DEF NodeRec
  <2>6. ASSUME NEW n \in Node, NEW y \in Pool
        PROVE  IdleAt(d, n, y) = IF y = p THEN 0 ELSE IdleAt(c, n, y)
    <3>1. CASE c.nodes[n] = None
      BY <2>1, <3>1 DEF IdleAt
    <3>2. CASE c.nodes[n] # None
      <4>1. d.nodes[n].idle[y] = IF y = p THEN 0 ELSE c.nodes[n].idle[y]
        BY <2>5, <3>2
      <4> QED BY <2>1, <3>2, <4>1 DEF IdleAt
    <3> QED BY <3>1, <3>2
  <2>7. NoGhosts(d)
    BY <2>2, <2>6 DEF Accounts, NoGhosts
  <2>8. ASSUME NEW n \in Node, c.nodes[n] # None PROVE Balanced(d, n)
    <3>1. \A y \in Pool : y # p => Reserved(d, n, y) = Reserved(c, n, y)
      <4> SUFFICES ASSUME NEW y \in Pool, y # p PROVE Reserved(d, n, y) = Reserved(c, n, y)
        OBVIOUS
      <4>1. Held(d, n, y) = Held(c, n, y)
        BY <2>3, <2>6 DEF Held
      <4> QED BY <2>2, <4>1, SameReserved
    <3>2. IdleAt(c, n, p) = c.nodes[n].idle[p] /\ IdleAt(c, n, p) \in Nat
      BY <2>8, HeldType DEF IdleAt
    <3>3. Held(c, n, p) = c.nodes[n].idle[p]
      <4>1. Cardinality({}) = 0
        BY FS_EmptySet
      <4>2. Held(c, n, p) = IdleAt(c, n, p) + 0
        BY <2>4, <4>1 DEF Held
      <4> QED BY <3>2, <4>2
    <3>4. Reserved(c, n, p) = size * c.nodes[n].idle[p] /\ Reserved(c, n, p) \in Nat
      BY <1>2, <3>3, HeldType
    <3>5. Reserved(d, n, p) = 0
      BY <2>1, <2>2, HeldType
    <3>6. Balanced(c, n)
      BY DEF Accounts
    <3> DEFINE less == Reserved(c, n, p)
    <3>7. /\ less \in Nat /\ Reserved(c, n, p) = Reserved(d, n, p) + less
          /\ d.nodes[n].used = Monus(c.nodes[n].used, less)
      <4>1. d.nodes[n].used = Monus(c.nodes[n].used, size * c.nodes[n].idle[p])
        BY <2>5, <2>8
      <4>2. d.nodes[n].used = Monus(c.nodes[n].used, less)
        BY ONLY <3>4, <4>1
      <4>3. less \in Nat /\ Reserved(c, n, p) = Reserved(d, n, p) + less
        BY <3>4, <3>5
      <4> QED BY ONLY <4>2, <4>3
    <3> HIDE DEF less
    <3> QED BY <2>1, <2>8, <3>1, <3>6, <3>7, GivenBack
  <2>9. \A n \in Node : Balanced(d, n)
    BY <2>1, <2>8 DEF Balanced
  <2> QED BY <2>7, <2>9 DEF Accounts
<1> QED BY <1>1, <1>2

\* The nodes after Requeue: those that get the room of assigned executions back.
LEMMA RequeueNodes ==
  ASSUME NEW c \in Cluster, NEW old \in Pool, NEW new \in Pool,
         NEW d, d = Requeue(c, old, new), NEW n \in Node, c.nodes[n] # None,
         NEW size, size = IF c.pools[old] = None THEN 0 ELSE c.pools[old].cfg.size
  PROVE  /\ d.nodes[n].idle = c.nodes[n].idle
         /\ d.nodes[n].used
              = Monus(c.nodes[n].used,
                      size * Cardinality({e \in Movable(c, old) :
                                            c.execs[e].status = "assigned" /\ c.execs[e].node = n}))
<1> DEFINE k == Cardinality({e \in Movable(c, old) :
                               c.execs[e].status = "assigned" /\ c.execs[e].node = n})
<1>1. d.nodes[n] = [c.nodes[n] EXCEPT !.used = Monus(@, size * k)]
  BY DEF Requeue, Cluster
<1>2. c.nodes[n] \in NodeRec
  BY ClusterParts
<1> HIDE DEF k
<1>3. /\ d.nodes[n].idle = c.nodes[n].idle
      /\ d.nodes[n].used = Monus(c.nodes[n].used, size * k)
  BY <1>1, <1>2 DEF NodeRec
<1> QED BY <1>3 DEF k

LEMMA RequeueAccounts ==
  ASSUME NEW c \in Cluster, Accounts(c), NEW old \in Pool, NEW new \in Pool,
         NEW d, d = Requeue(c, old, new)
  PROVE  Accounts(d)
<1> DEFINE moved == Movable(c, old)
           size == IF c.pools[old] = None THEN 0 ELSE c.pools[old].cfg.size
           freed(n) == {e \in moved : c.execs[e].status = "assigned" /\ c.execs[e].node = n}
<1>1. /\ d \in Cluster /\ d.pools = c.pools
      /\ \A n \in Node : d.nodes[n] = None <=> c.nodes[n] = None
      /\ \A e \in Exec :
           IF e \in moved THEN d.execs[e] # None /\ d.execs[e].status = "queued"
                          ELSE d.execs[e] = c.execs[e]
  BY RequeueLemma
<1>2. ASSUME NEW n \in Node, c.nodes[n] # None
      PROVE  /\ d.nodes[n].idle = c.nodes[n].idle
             /\ d.nodes[n].used = Monus(c.nodes[n].used, size * Cardinality(freed(n)))
  BY <1>2, RequeueNodes
<1>3. \A e \in moved : e \in Exec /\ c.execs[e] # None /\ c.execs[e].pool = old
  BY DEF Movable
<1>4. ASSUME NEW n \in Node, NEW y \in Pool, y # old PROVE InUse(d, n, y) = InUse(c, n, y)
  <2> HIDE DEF moved
  <2> QED BY <1>1, <1>3, <1>4 DEF InUse, ActiveOn, Holds
<1>5. ASSUME NEW n \in Node
      PROVE  /\ InUse(c, n, old) = InUse(d, n, old) \cup freed(n)
             /\ InUse(d, n, old) \cap freed(n) = {}
  <2>1. \A e \in moved : e \notin InUse(d, n, old)
    BY <1>1, <1>3 DEF InUse, ActiveOn, Holds
  <2>2. \A e \in Exec : e \in InUse(c, n, old) => e \in freed(n) \/ e \notin moved
    BY DEF InUse, ActiveOn, Holds, Movable
  <2>3. \A e \in Exec : e \notin moved => (e \in InUse(c, n, old) <=> e \in InUse(d, n, old))
    BY <1>1 DEF InUse, ActiveOn, Holds
  <2>4. \A e \in freed(n) : e \in moved /\ e \in Exec /\ e \in InUse(c, n, old)
    BY DEF InUse, ActiveOn, Holds, Movable
  <2>5. InUse(c, n, old) \subseteq Exec /\ InUse(d, n, old) \subseteq Exec
    BY DEF InUse, ActiveOn
  <2> HIDE DEF moved, freed
  <2> QED BY <2>1, <2>2, <2>3, <2>4, <2>5
<1>6. ASSUME NEW n \in Node
      PROVE  /\ Cardinality(freed(n)) \in Nat
             /\ Cardinality(InUse(c, n, old)) = Cardinality(InUse(d, n, old)) + Cardinality(freed(n))
  <2>1. freed(n) \subseteq Exec /\ InUse(d, n, old) \subseteq Exec
    BY <1>3 DEF InUse, ActiveOn
  <2> HIDE DEF freed
  <2>2. IsFiniteSet(freed(n)) /\ IsFiniteSet(InUse(d, n, old))
    BY <2>1, FiniteParts
  <2>3. Cardinality(freed(n)) \in Nat /\ Cardinality(InUse(d, n, old)) \in Nat
    BY <2>1, FiniteParts
  <2>4. Cardinality({}) = 0
    BY FS_EmptySet
  <2>5. Cardinality(InUse(d, n, old) \cup freed(n))
          = Cardinality(InUse(d, n, old)) + Cardinality(freed(n))
              - Cardinality(InUse(d, n, old) \cap freed(n))
    BY <2>2, FS_Union
  <2>6. Cardinality(InUse(d, n, old) \cap freed(n)) = 0
    BY <1>5, <2>4 DEF freed
  <2>7. InUse(c, n, old) = InUse(d, n, old) \cup freed(n)
    BY <1>5 DEF freed
  <2>8. Cardinality(InUse(c, n, old)) = Cardinality(InUse(d, n, old)) + Cardinality(freed(n)) - 0
    BY ONLY <2>5, <2>6, <2>7
  <2> QED BY ONLY <2>3, <2>8
<1>7. \A n \in Node, y \in Pool : IdleAt(d, n, y) = IdleAt(c, n, y)
  BY <1>1, <1>2 DEF IdleAt
<1> HIDE DEF moved, freed, size
<1>8. NoGhosts(d)
  BY <1>1, <1>7 DEF Accounts, NoGhosts
<1>9. ASSUME NEW n \in Node, c.nodes[n] # None PROVE Balanced(d, n)
  <2> DEFINE k == Cardinality(freed(n))
  <2>1. k \in Nat /\ Held(c, n, old) = Held(d, n, old) + k
    <3>1. /\ IdleAt(c, n, old) \in Nat /\ Cardinality(InUse(d, n, old)) \in Nat
      BY <1>1, HeldType
    <3> QED BY <1>6, <1>7, <3>1 DEF Held
  <2> HIDE DEF k
  <2>2. d.nodes[n].used = Monus(c.nodes[n].used, size * k)
    BY <1>2, <1>9 DEF k
  <2>3. ASSUME NEW y \in Pool, y # old PROVE Reserved(d, n, y) = Reserved(c, n, y)
    <3>1. Held(d, n, y) = Held(c, n, y)
      BY <1>4, <1>7, <2>3 DEF Held
    <3> QED BY <1>1, <3>1, SameReserved
  <2>4. size \in Nat /\ size * k \in Nat
    <3>1. size \in Nat
      BY HeldType DEF size
    <3> QED BY <2>1, <3>1, ProductType
  <2>5. Reserved(c, n, old) = Reserved(d, n, old) + size * k
    <3>1. CASE c.pools[old] = None
      <4>1. size = 0 /\ Reserved(c, n, old) = 0 /\ Reserved(d, n, old) = 0
        BY <1>1, <3>1, HeldType DEF size
      <4>2. 0 * k = 0
        BY <2>1
      <4> QED BY <4>1, <4>2
    <3>2. CASE c.pools[old] # None
      <4>1. /\ Reserved(c, n, old) = size * Held(c, n, old)
            /\ Reserved(d, n, old) = size * Held(d, n, old)
            /\ Held(d, n, old) \in Nat
        BY <1>1, <3>2, HeldType DEF size
      <4>2. size * (Held(d, n, old) + k) = size * Held(d, n, old) + size * k
        BY <2>1, <2>4, <4>1, Arithmetic
      <4> QED BY <2>1, <4>1, <4>2
    <3> QED BY <3>1, <3>2
  <2> DEFINE less == size * k
  <2>6. /\ less \in Nat /\ Reserved(c, n, old) = Reserved(d, n, old) + less
        /\ d.nodes[n].used = Monus(c.nodes[n].used, less)
    BY <2>2, <2>4, <2>5
  <2>7. Balanced(c, n)
    BY DEF Accounts
  <2> HIDE DEF less
  <2> QED BY <1>1, <1>9, <2>3, <2>6, <2>7, GivenBack
<1>10. \A n \in Node : Balanced(d, n)
  BY <1>1, <1>9 DEF Balanced
<1> QED BY <1>8, <1>10 DEF Accounts

\* Pools of the same sizes, nodes and executions left alone.
LEMMA AccountsPools ==
  ASSUME NEW c \in Cluster, NEW d \in Cluster, Accounts(c), WorkHasPool(c),
         d.nodes = c.nodes, d.execs = c.execs,
         \A p \in Pool : c.pools[p] # None =>
           d.pools[p] # None /\ d.pools[p].cfg.size = c.pools[p].cfg.size
  PROVE  Accounts(d)
<1>1. \A n \in Node, p \in Pool : InUse(d, n, p) = InUse(c, n, p)
  BY DEF InUse, ActiveOn, Holds
<1> QED BY <1>1, AccountsQuiet

\* restart_environment_pool: the room of what it requeues is given back, the idle
\* MicroVMs of the old pool go with it, and the new pool has none.
LEMMA RestartAccounts ==
  ASSUME NEW c \in Cluster, Accounts(c), PoolsExist(c),
         NEW i \in Env, NEW old \in Pool, NEW new \in Pool, NEW cfg \in Config,
         old # new, c.pools[new] = None,
         NEW d, d = RestartPool(c, i, old, new, cfg)
  PROVE  Accounts(d)
<1> DEFINE a == Requeue(c, old, new)
           b == RetirePool(a, old)
           x == [env |-> i, cfg |-> cfg]
           v == [pool |-> new, cfg |-> cfg]
<1>1. a = Requeue(c, old, new) /\ b = RetirePool(a, old)
  OBVIOUS
<1>2. d = [b EXCEPT !.pools[new] = x, !.envs[i] = v]
  BY DEF RestartPool
<1>3. d \in Cluster
  <2>1. Restarted(c, i, old, new, cfg, d)
    BY RestartParts
  <2> QED BY <2>1 DEF Restarted
<1>4. x # None /\ x \in PoolRec
  BY Apart DEF PoolRec
<1> HIDE DEF a, b, x, v
<1>5. /\ a \in Cluster /\ a.pools = c.pools
      /\ \A e \in Exec :
           IF e \in Movable(c, old) THEN a.execs[e] # None /\ a.execs[e].status = "queued"
                                    ELSE a.execs[e] = c.execs[e]
  BY <1>1, RequeueLemma
<1>6. Accounts(a)
  BY <1>1, RequeueAccounts
<1>7. ASSUME NEW e \in Exec, Works(a, e)
      PROVE  /\ a.execs[e] = c.execs[e] /\ c.execs[e] # None
             /\ c.execs[e].pool \in Pool /\ c.pools[c.execs[e].pool] # None
             /\ c.execs[e].pool = old => c.execs[e].status = "running"
  <2>1. a.execs[e] = c.execs[e] /\ c.execs[e] # None /\ e \notin Movable(c, old)
    BY <1>5, <1>7 DEF Works
  <2> QED BY <1>7, <2>1, ClusterParts DEF Works, ExecRec, PoolsExist, Movable
<1>8. Running(a, old) => a.pools[old] # None
  <2>1. \A e \in Exec : a.execs[e] # None /\ a.execs[e].status = "running" => Works(a, e)
    BY DEF Works
  <2> QED BY <1>5, <1>7, <2>1 DEF Running
<1>9. /\ b \in Cluster /\ b.execs = a.execs
      /\ \A y \in Pool \ {old} : b.pools[y] = a.pools[y]
      /\ b.pools[old] # None <=> Running(a, old)
      /\ b.pools[old] # None => b.pools[old].cfg = [a.pools[old].cfg EXCEPT !.warm = 0]
  BY <1>1, <1>5, <1>8, RetireLemma
<1>10. Accounts(b)
  <2>1. CASE Running(a, old)
    <3>1. /\ WorkHasPool(a)
          /\ b.nodes = a.nodes
      <4>1. b = [a EXCEPT !.pools[old].cfg.warm = 0]
        BY <1>1, <2>1 DEF RetirePool, Running
      <4> QED BY <1>5, <1>7, <4>1 DEF WorkHasPool, Cluster
    <3>2. b.pools[old].cfg.size = a.pools[old].cfg.size
      BY <1>5, <1>8, <1>9, <2>1, ClusterParts DEF PoolRec, Config
    <3> QED BY <1>5, <1>6, <1>9, <2>1, <3>1, <3>2, AccountsPools
  <2>2. CASE ~ Running(a, old)
    <3>1. b = DropPool(a, old)
      BY <1>1, <2>2 DEF RetirePool, Running
    <3>2. \A e \in Exec : Works(a, e) => a.execs[e].pool # old
      BY <1>7, <2>2 DEF Running
    <3> QED BY <1>5, <1>6, <3>1, <3>2, DropPoolAccounts
  <2> QED BY <2>1, <2>2
<1>11. WorkHasPool(b)
  <2> SUFFICES ASSUME NEW e \in Exec, Works(a, e)
               PROVE  b.pools[a.execs[e].pool] # None
    BY <1>9 DEF WorkHasPool, Works
  <2>1. CASE c.execs[e].pool = old
    <3>1. Running(a, old)
      BY <1>7, <2>1 DEF Running
    <3> QED BY <1>7, <1>9, <2>1, <3>1
  <2>2. CASE c.execs[e].pool # old
    BY <1>5, <1>7, <1>9, <2>2
  <2> QED BY <2>1, <2>2
<1>12. /\ d.nodes = b.nodes /\ d.execs = b.execs
       /\ \A y \in Pool : d.pools[y] = IF y = new THEN x ELSE b.pools[y]
  BY <1>2, <1>9 DEF Cluster
<1>13. b.pools[new] = None
  BY <1>5, <1>9
<1> QED BY <1>3, <1>9, <1>10, <1>11, <1>12, <1>13, AccountsPools

\* reset_idle_instances: what its idle MicroVMs had reserved is given back.
LEMMA ResetAccounts ==
  ASSUME NEW c \in Cluster, Accounts(c), NEW n \in Node, c.nodes[n] # None,
         NEW d, d = ResetIdle(c, n)
  PROVE  Accounts(d)
<1> DEFINE held == [p \in Pool |-> IF c.pools[p] = None THEN 0
                                   ELSE c.pools[p].cfg.size * c.nodes[n].idle[p]]
           x == [c.nodes[n] EXCEPT !.used = Monus(c.nodes[n].used, Total(held, NumPools)),
                                   !.idle = [p \in Pool |-> 0]]
<1>1. c.nodes[n] \in NodeRec
  BY ClusterParts
<1>2. d \in Cluster /\ SameWork(c, d)
  BY ResetIdleLemma
<1>3. d = [c EXCEPT !.nodes = [c.nodes EXCEPT ![n] = x]]
  BY <1>1 DEF ResetIdle, Cluster, NodeRec
<1>4. x.used = Monus(c.nodes[n].used, Total(held, NumPools)) /\ x.idle = [p \in Pool |-> 0]
  BY <1>1 DEF NodeRec
<1> HIDE DEF x
<1>5. \A m \in Node : d.nodes[m] = IF m = n THEN x ELSE c.nodes[m]
  BY <1>3 DEF Cluster
<1>6. d.nodes[n] # None
  BY <1>2 DEF SameWork
<1>7. \A m \in Node, p \in Pool : InUse(d, m, p) = InUse(c, m, p)
  BY <1>2 DEF InUse, ActiveOn, Holds, SameWork
<1>8. \A m \in Node, p \in Pool : IdleAt(d, m, p) = IF m = n THEN 0 ELSE IdleAt(c, m, p)
  BY <1>4, <1>5, <1>6 DEF IdleAt
<1>9. NoGhosts(d)
  BY <1>2, <1>8 DEF Accounts, NoGhosts, SameWork
<1>10. ASSUME NEW p \in Pool PROVE held[p] \in Nat /\ Reserved(c, n, p) = Reserved(d, n, p) + held[p]
  <2>1. CASE c.pools[p] = None
    BY <1>2, <2>1, HeldType DEF SameWork
  <2>2. CASE c.pools[p] # None
    <3> DEFINE size == c.pools[p].cfg.size
               k == Cardinality(InUse(c, n, p))
               idle == c.nodes[n].idle[p]
    <3>1. size \in Nat /\ k \in Nat /\ idle \in Nat /\ IdleAt(c, n, p) = idle
      BY <1>1, <2>2, HeldType DEF IdleAt, NodeRec
    <3>2. Held(c, n, p) = k + idle /\ Held(d, n, p) = k
      BY <1>7, <1>8, <3>1 DEF Held
    <3>3. Reserved(c, n, p) = size * Held(c, n, p) /\ Reserved(d, n, p) = size * Held(d, n, p)
      BY <1>2, <2>2, HeldType DEF SameWork
    <3>4. held[p] = size * idle
      BY <2>2
    <3> HIDE DEF size, k, idle, held
    <3>5. size * (k + idle) = size * k + size * idle /\ size * idle \in Nat
      BY <3>1, Arithmetic, ProductType
    <3> QED BY <3>2, <3>3, <3>4, <3>5
  <2> QED BY <2>1, <2>2
<1>11. Balanced(d, n)
  <2> DEFINE f == [p \in Pool |-> Reserved(d, n, p)]
             h == [p \in Pool |-> Reserved(c, n, p)]
  <2>1. /\ f \in [1..NumPools -> Nat] /\ h \in [1..NumPools -> Nat] /\ NumPools \in Nat
    BY <1>2, BookedType
  <2>2. held \in [1..NumPools -> Nat]
    <3>1. held \in [Pool -> Nat]
      BY <1>10
    <3> QED BY <3>1 DEF Pool
  <2>3. \A k \in 1..NumPools : h[k] = f[k] + held[k]
    BY <1>10 DEF Pool
  <2>4. Booked(c, n) = Total(h, NumPools) /\ Booked(d, n) = Total(f, NumPools)
    BY DEF Booked
  <2> HIDE DEF f, h, held
  <2>5. Total(h, NumPools) = Total(f, NumPools) + Total(held, NumPools)
    BY <2>1, <2>2, <2>3, TotalPlus
  <2>6. Total(f, NumPools) \in Nat /\ Total(held, NumPools) \in Nat
    BY <2>1, <2>2, TotalNat
  <2>7. c.nodes[n].used = Booked(c, n)
    BY DEF Accounts, Balanced
  <2>8. d.nodes[n].used = Monus(c.nodes[n].used, Total(held, NumPools))
    BY <1>4, <1>5
  <2>9. d.nodes[n].used = Booked(d, n)
    BY <2>4, <2>5, <2>6, <2>7, <2>8 DEF Monus
  <2> QED BY <2>9 DEF Balanced
<1>12. ASSUME NEW m \in Node, m # n, d.nodes[m] # None PROVE Balanced(d, m)
  <2>1. \A p \in Pool : Reserved(d, m, p) = Reserved(c, m, p)
    <3> SUFFICES ASSUME NEW p \in Pool PROVE Reserved(d, m, p) = Reserved(c, m, p)
      OBVIOUS
    <3>1. Held(d, m, p) = Held(c, m, p)
      BY <1>7, <1>8, <1>12 DEF Held
    <3> QED BY <1>2, <3>1, SameReserved DEF SameWork
  <2>2. d.nodes[m] = c.nodes[m] /\ Balanced(c, m)
    BY <1>5, <1>12 DEF Accounts
  <2> QED BY <1>12, <2>1, <2>2, SameBalance
<1>13. \A m \in Node : Balanced(d, m)
  BY <1>11, <1>12 DEF Balanced
<1> QED BY <1>9, <1>13 DEF Accounts

LEMMA ExistingWork ==
  ASSUME NEW c, PoolsExist(c)
  PROVE  WorkHasPool(c)
BY DEF PoolsExist, WorkHasPool, Works

\* Nodes that go, or keep their MicroVMs.
LEMMA AccountsNodes ==
  ASSUME NEW c \in Cluster, NEW d \in Cluster, Accounts(c), PoolsExist(c),
         d.pools = c.pools, d.execs = c.execs,
         \A n \in Node : d.nodes[n] # None =>
           /\ c.nodes[n] # None
           /\ d.nodes[n].used = c.nodes[n].used /\ d.nodes[n].idle = c.nodes[n].idle
  PROVE  Accounts(d)
<1>1. \A n \in Node, p \in Pool : InUse(d, n, p) = InUse(c, n, p)
  BY DEF InUse, ActiveOn, Holds
<1> QED BY <1>1, ExistingWork, AccountsQuiet

\* A node that comes has no MicroVM, and no execution was on it.
LEMMA NewNodeAccounts ==
  ASSUME NEW c \in Cluster, NEW d \in Cluster, Accounts(c), PoolsExist(c), NodesKnown(c),
         NEW n \in Node, c.nodes[n] = None, d.pools = c.pools, d.execs = c.execs,
         \A m \in Node : m # n => d.nodes[m] = c.nodes[m],
         d.nodes[n] # None, d.nodes[n].used = 0, d.nodes[n].idle = [p \in Pool |-> 0]
  PROVE  Accounts(d)
<1>1. \A m \in Node, p \in Pool : InUse(d, m, p) = InUse(c, m, p)
  BY DEF InUse, ActiveOn, Holds
<1>2. \A p \in Pool : InUse(c, n, p) = {}
  BY DEF InUse, ActiveOn, Holds, NodesKnown, IsQueued
<1>3. \A m \in Node, p \in Pool : IdleAt(d, m, p) = IF m = n THEN 0 ELSE IdleAt(c, m, p)
  BY DEF IdleAt
<1>4. NoGhosts(d)
  BY <1>3 DEF Accounts, NoGhosts
<1>5. Balanced(d, n)
  <2>1. ASSUME NEW p \in Pool PROVE Reserved(d, n, p) = 0
    <3>1. Cardinality({}) = 0
      BY FS_EmptySet
    <3>2. Held(d, n, p) = 0 + 0
      BY <1>1, <1>2, <1>3, <3>1 DEF Held
    <3>3. Held(d, n, p) = 0
      BY <3>2
    <3> QED BY <3>3, HeldType, Arithmetic
  <2> DEFINE f == [p \in Pool |-> Reserved(d, n, p)]
  <2>2. f \in [1..NumPools -> Nat] /\ NumPools \in Nat
    BY BookedType
  <2>3. \A k \in 1..NumPools : f[k] = 0
    BY <2>1 DEF Pool
  <2>4. Booked(d, n) = Total(f, NumPools)
    BY DEF Booked
  <2> HIDE DEF f
  <2> QED BY <2>2, <2>3, <2>4, TotalZero DEF Balanced
<1>6. ASSUME NEW m \in Node, m # n, d.nodes[m] # None PROVE Balanced(d, m)
  <2>1. \A p \in Pool : Reserved(d, m, p) = Reserved(c, m, p)
    <3> SUFFICES ASSUME NEW p \in Pool PROVE Reserved(d, m, p) = Reserved(c, m, p)
      OBVIOUS
    <3>1. Held(d, m, p) = Held(c, m, p)
      BY <1>1, <1>3, <1>6 DEF Held
    <3> QED BY <3>1, SameReserved
  <2> QED BY <1>6, <2>1, SameBalance DEF Accounts
<1>7. \A m \in Node : Balanced(d, m)
  BY <1>5, <1>6 DEF Balanced
<1> QED BY <1>4, <1>7 DEF Accounts

\* From c to d, execution e is forgotten and its MicroVM of pool p on node n is
\* kept idle or given back.
Freed(c, d, e, n, p, keepIdle, size) ==
  /\ d.pools = c.pools
  /\ \A m \in Node : m # n => d.nodes[m] = c.nodes[m]
  /\ \A f \in Exec : d.execs[f] = IF f = e THEN None ELSE c.execs[f]
  /\ \A m \in Node, y \in Pool : m # n \/ y # p => IdleAt(d, m, y) = IdleAt(c, m, y)
  /\ IdleAt(c, n, p) \in Nat
  /\ \/ /\ keepIdle /\ IdleAt(d, n, p) = IdleAt(c, n, p) + 1
        /\ d.nodes[n].used = c.nodes[n].used
     \/ /\ ~ keepIdle /\ IdleAt(d, n, p) = IdleAt(c, n, p)
        /\ d.nodes[n].used = Monus(c.nodes[n].used, size)

\* Releasing the MicroVM of an execution and forgetting the execution.
LEMMA ReleaseCounts ==
  ASSUME NEW c \in Cluster, NEW e \in Exec, Works(c, e),
         NEW n \in Node, n = c.execs[e].node, c.nodes[n] # None,
         NEW p \in Pool, p = c.execs[e].pool, c.pools[p] # None, NEW keepIdle \in BOOLEAN,
         NEW d, d = [Release(c, e, keepIdle) EXCEPT !.execs[e] = None],
         NEW size, size = c.pools[p].cfg.size
  PROVE  Freed(c, d, e, n, p, keepIdle, size)
<1> DEFINE x == IF keepIdle
                THEN [c.nodes[n] EXCEPT !.idle[p] = c.nodes[n].idle[p] + 1]
                ELSE [c.nodes[n] EXCEPT !.used = Monus(c.nodes[n].used, size)]
           b == Release(c, e, keepIdle)
<1>1. c.nodes[n] \in NodeRec /\ size \in Nat /\ n # None
  BY Apart, ClusterParts DEF PoolRec, Config
<1>2. b \in Cluster /\ SameWork(c, b)
  BY ReleaseLemma DEF Works
<1>3. b.nodes = [c.nodes EXCEPT ![n] = x]
  <2>1. CASE keepIdle
    <3>1. b = [c EXCEPT !.nodes = [c.nodes EXCEPT ![n] =
                 [c.nodes[n] EXCEPT !.idle[p] = c.nodes[n].idle[p] + 1]]]
      BY <1>1, <2>1 DEF Release, Cluster, NodeRec
    <3> QED BY <2>1, <3>1 DEF Cluster
  <2>2. CASE ~ keepIdle
    <3>1. b = [c EXCEPT !.nodes = [c.nodes EXCEPT ![n] =
                 [c.nodes[n] EXCEPT !.used = Monus(c.nodes[n].used, size)]]]
      BY <1>1, <2>2 DEF Release, Cluster, NodeRec
    <3> QED BY <2>2, <3>1 DEF Cluster
  <2> QED BY <2>1, <2>2
<1>4. /\ c.nodes[n].idle \in [Pool -> Nat]
      /\ keepIdle => /\ x.idle = [c.nodes[n].idle EXCEPT ![p] = c.nodes[n].idle[p] + 1]
                     /\ x.used = c.nodes[n].used
      /\ ~ keepIdle => /\ x.idle = c.nodes[n].idle
                       /\ x.used = Monus(c.nodes[n].used, size)
  BY <1>1 DEF NodeRec
<1> HIDE DEF x, b
<1>5. /\ \A m \in Node : d.nodes[m] = IF m = n THEN x ELSE c.nodes[m]
      /\ d.pools = c.pools
      /\ \A f \in Exec : d.execs[f] = IF f = e THEN None ELSE c.execs[f]
  <2>1. d = [b EXCEPT !.execs[e] = None]
    BY DEF b
  <2> QED BY <1>2, <1>3, <2>1 DEF Cluster, SameWork
<1>6. d.nodes[n] # None
  <2>1. b.nodes[n] # None /\ b.nodes[n] = x
    BY <1>2, <1>3 DEF SameWork, Cluster
  <2> QED BY <1>5, <2>1
<1>7. \A y \in Pool : y # p => x.idle[y] = c.nodes[n].idle[y]
  BY <1>4
<1>8. \A m \in Node, y \in Pool : m # n \/ y # p => IdleAt(d, m, y) = IdleAt(c, m, y)
  BY <1>5, <1>6, <1>7 DEF IdleAt
<1>9. /\ IdleAt(c, n, p) = c.nodes[n].idle[p] /\ IdleAt(d, n, p) = x.idle[p]
      /\ c.nodes[n].idle[p] \in Nat /\ d.nodes[n] = x
  BY <1>4, <1>5, <1>6 DEF IdleAt
<1>10. \/ /\ keepIdle /\ IdleAt(d, n, p) = IdleAt(c, n, p) + 1
          /\ d.nodes[n].used = c.nodes[n].used
       \/ /\ ~ keepIdle /\ IdleAt(d, n, p) = IdleAt(c, n, p)
          /\ d.nodes[n].used = Monus(c.nodes[n].used, size)
  <2>1. CASE keepIdle
    <3>1. x.idle[p] = c.nodes[n].idle[p] + 1 /\ x.used = c.nodes[n].used
      BY <1>4, <2>1
    <3> QED BY ONLY <1>9, <2>1, <3>1
  <2>2. CASE ~ keepIdle
    <3>1. x.idle[p] = c.nodes[n].idle[p] /\ x.used = Monus(c.nodes[n].used, size)
      BY <1>4, <2>2
    <3> QED BY ONLY <1>9, <2>2, <3>1
  <2> QED BY <2>1, <2>2
<1>11. \A m \in Node : m # n => d.nodes[m] = c.nodes[m]
  BY <1>5
<1> QED BY <1>5, <1>8, <1>9, <1>10, <1>11 DEF Freed

LEMMA ReleaseAccounts ==
  ASSUME NEW c \in Cluster, Accounts(c), NEW e \in Exec, Works(c, e),
         NEW n \in Node, n = c.execs[e].node, c.nodes[n] # None,
         NEW p \in Pool, p = c.execs[e].pool, c.pools[p] # None, NEW keepIdle \in BOOLEAN,
         NEW d \in Cluster, d = [Release(c, e, keepIdle) EXCEPT !.execs[e] = None]
  PROVE  Accounts(d)
<1> DEFINE size == c.pools[p].cfg.size
<1>1. size = c.pools[p].cfg.size
  OBVIOUS
<1> HIDE DEF size
<1>0. Freed(c, d, e, n, p, keepIdle, size)
  BY <1>1, ReleaseCounts
<1>2. /\ d.pools = c.pools
      /\ \A m \in Node : m # n => d.nodes[m] = c.nodes[m]
      /\ \A f \in Exec : d.execs[f] = IF f = e THEN None ELSE c.execs[f]
      /\ \A m \in Node, y \in Pool : m # n \/ y # p => IdleAt(d, m, y) = IdleAt(c, m, y)
      /\ \/ IdleAt(d, n, p) = IdleAt(c, n, p) + 1 /\ d.nodes[n].used = c.nodes[n].used
         \/ /\ IdleAt(d, n, p) = IdleAt(c, n, p)
            /\ d.nodes[n].used = Monus(c.nodes[n].used, size)
  BY <1>0 DEF Freed
<1>3. ~ Works(d, e)
  BY <1>2 DEF Works
<1>4. /\ \A m \in Node, y \in Pool :
           m # n \/ y # p => InUse(d, m, y) = InUse(c, m, y)
      /\ InUse(c, n, p) = InUse(d, n, p) \cup {e}
      /\ e \notin InUse(d, n, p)
  <2>1. \A f \in Exec : f # e => d.execs[f] = c.execs[f]
    BY <1>2
  <2> QED BY ONLY e \in Exec, Works(c, e), n = c.execs[e].node, p = c.execs[e].pool,
                  <1>3, <2>1, InUseRemoved
<1>5. Cardinality(InUse(c, n, p)) = Cardinality(InUse(d, n, p)) + 1
  BY ONLY d \in Cluster, n \in Node, p \in Pool, <1>4, CardinalityAdded
<1>6. \/ Held(d, n, p) = Held(c, n, p) /\ d.nodes[n].used = c.nodes[n].used
      \/ /\ Held(c, n, p) = Held(d, n, p) + 1
         /\ d.nodes[n].used = Monus(c.nodes[n].used, size)
  <2>1. IdleAt(c, n, p) \in Nat /\ Cardinality(InUse(d, n, p)) \in Nat
    BY HeldType
  <2> QED BY ONLY <1>2, <1>5, <2>1 DEF Held
<1>7. \A m \in Node, y \in Pool :
        m # n \/ y # p => IdleAt(d, m, y) = IdleAt(c, m, y) /\ InUse(d, m, y) = InUse(c, m, y)
  BY <1>2, <1>4
<1>8. d.pools = c.pools /\ \A m \in Node : m # n => d.nodes[m] = c.nodes[m]
  BY <1>2
<1> QED BY ONLY c \in Cluster, d \in Cluster, Accounts(c), n \in Node, p \in Pool,
                c.nodes[n] # None, c.pools[p] # None,
                <1>1, <1>6, <1>7, <1>8, AccountsOne

\* The records an environment goes by: its own, and those updates have read.
Recorded(c, q) ==
  {c.envs[i] : i \in {j \in Env : c.envs[j] # None}}
  \cup {q[r].old : r \in {s \in Req : q[s] # None /\ q[s].env # None}}

\* Records of the same pool agree on the size of its MicroVMs, with the pool if it
\* is there: so an update that does not rebuild gives the pool the size it had.
Sizes(c, q) ==
  \A v \in Recorded(c, q) :
    /\ v.pool \notin UserPool
    /\ c.pools[v.pool] # None => c.pools[v.pool].cfg.size = v.cfg.size
    /\ \A w \in Recorded(c, q) : w.pool = v.pool => w.cfg.size = v.cfg.size

LEMMA RecordedType ==
  ASSUME NEW c, NEW q, NEW rs, Typed(c, q, rs), NEW v \in Recorded(c, q)
  PROVE  v \in EnvRec /\ v.pool \in Pool
<1>1. v \in EnvRec
  <2>1. CASE \E i \in Env : c.envs[i] # None /\ v = c.envs[i]
    BY <2>1, ClusterParts DEF Typed
  <2>2. CASE \E r \in Req : q[r] # None /\ q[r].env # None /\ v = q[r].old
    <3>1. PICK r \in Req : q[r] # None /\ q[r].env # None /\ v = q[r].old
      BY <2>2
    <3>2. q[r] \in CreateReq \cup UpdateReq
      BY <3>1 DEF Typed
    <3> QED BY <3>1, <3>2 DEF CreateReq, UpdateReq
  <2> QED BY <2>1, <2>2 DEF Recorded
<1> QED BY <1>1 DEF EnvRec

\* No new records, and no pool but those users create.
LEMMA SizesKept ==
  ASSUME NEW c, NEW q, NEW rs, Typed(c, q, rs), Sizes(c, q), NEW d, NEW qq,
         Recorded(d, qq) \subseteq Recorded(c, q),
         \A p \in Pool \ UserPool : d.pools[p] # None =>
           c.pools[p] # None /\ d.pools[p].cfg.size = c.pools[p].cfg.size
  PROVE  Sizes(d, qq)
BY RecordedType DEF Sizes

\* One new record, v: of a new pool, or of the size records of its pool have.
LEMMA SizesAdded ==
  ASSUME NEW c, NEW q, NEW rs, Typed(c, q, rs), Sizes(c, q), NEW d, NEW qq,
         NEW v, v.pool \in Pool \ UserPool,
         Recorded(d, qq) \subseteq Recorded(c, q) \cup {v},
         \A w \in Recorded(c, q) : w.pool = v.pool => w.cfg.size = v.cfg.size,
         d.pools[v.pool] # None => d.pools[v.pool].cfg.size = v.cfg.size,
         \A p \in Pool : p # v.pool /\ d.pools[p] # None =>
           c.pools[p] # None /\ d.pools[p].cfg.size = c.pools[p].cfg.size
  PROVE  Sizes(d, qq)
<1> SUFFICES ASSUME NEW w \in Recorded(d, qq)
             PROVE  /\ w.pool \notin UserPool
                    /\ d.pools[w.pool] # None => d.pools[w.pool].cfg.size = w.cfg.size
                    /\ \A u \in Recorded(d, qq) : u.pool = w.pool => u.cfg.size = w.cfg.size
  BY DEF Sizes
<1>1. CASE w.pool = v.pool
  <2>1. \A u \in Recorded(d, qq) : u.pool = v.pool => u.cfg.size = v.cfg.size
    OBVIOUS
  <2> QED BY <1>1, <2>1
<1>2. CASE w.pool # v.pool
  <2>1. w \in Recorded(c, q) /\ w.pool \in Pool
    BY <1>2, RecordedType
  <2> QED BY <1>2, <2>1 DEF Sizes
<1> QED BY <1>1, <1>2

-----------------------------------------------------------------------------
(* The handlers that leave the MicroVMs alone. *)

\* The MicroVMs and what they run stay as they are; nodes may go.
Untouched(c, d) ==
  /\ d.pools = c.pools /\ d.envs = c.envs /\ d.execs = c.execs
  /\ \A n \in Node : d.nodes[n] # None =>
       /\ c.nodes[n] # None
       /\ d.nodes[n].used = c.nodes[n].used /\ d.nodes[n].idle = c.nodes[n].idle

\* A handler that changes no more than that, and may call schedule_queued.
Quiet ==
  /\ requests' = requests
  /\ \E d \in Cluster : Untouched(cluster, d) /\ (cluster' = d \/ cluster' = ScheduleQueued(d))

LEMMA ImagesQuiet ==
  ASSUME IInv, NEW i \in Image, NEW kind \in {"vm", "runtime"},
         ImportImage(i, kind) \/ UpdateImage(i, kind) \/ DeleteImage(i)
  PROVE  Quiet
<1>1. cluster \in Cluster /\ cluster' \in Cluster
  BY ImportImageKept, UpdateImageKept, DeleteImageKept DEF IInv, Sound, Typed, Kept
<1>2. /\ cluster'.execs = cluster.execs /\ cluster'.pools = cluster.pools
      /\ cluster'.envs = cluster.envs /\ requests' = requests
  BY <1>1 DEF ImportImage, UpdateImage, DeleteImage, Cluster
<1>3. ASSUME NEW n \in Node, cluster'.nodes[n] # None
      PROVE  /\ cluster.nodes[n] # None
             /\ cluster'.nodes[n].used = cluster.nodes[n].used
             /\ cluster'.nodes[n].idle = cluster.nodes[n].idle
  <2>1. CASE ImportImage(i, kind)
    <3>1. cluster'.nodes[n] = IF cluster.nodes[n] = None THEN None
                              ELSE [cluster.nodes[n] EXCEPT !.ready = FALSE]
      BY <1>1, <2>1 DEF ImportImage, Cluster
    <3> QED BY <1>1, <1>3, <3>1, ClusterParts DEF NodeRec
  <2>2. CASE UpdateImage(i, kind)
    BY <1>1, <1>3, <2>2 DEF UpdateImage, Cluster
  <2>3. CASE DeleteImage(i)
    <3>1. cluster'.nodes[n] = IF cluster.nodes[n] = None THEN None
                              ELSE [cluster.nodes[n] EXCEPT !.images = @ \ {i}]
      BY <1>1, <2>3 DEF DeleteImage, Cluster
    <3> QED BY <1>1, <1>3, <3>1, ClusterParts DEF NodeRec
  <2> QED BY <2>1, <2>2, <2>3
<1> QED BY <1>1, <1>2, <1>3 DEF Quiet, Untouched

LEMMA RefreshUntouched ==
  ASSUME NEW c \in Cluster, NEW n \in Node, c.nodes[n] # None
  PROVE  Untouched(c, Refresh(c, n))
<1> DEFINE b == {i \in Image : c.images[i] # "absent"} \subseteq c.nodes[n].images
           x == [c.nodes[n] EXCEPT !.ready = b]
<1>1. Refresh(c, n) = [c EXCEPT !.nodes = [c.nodes EXCEPT ![n] = x]]
  BY DEF Refresh, Cluster
<1>2. c.nodes[n] \in NodeRec
  BY ClusterParts
<1>3. x.used = c.nodes[n].used /\ x.idle = c.nodes[n].idle
  BY <1>2 DEF NodeRec
<1> HIDE DEF x
<1>4. \A m \in Node : Refresh(c, n).nodes[m] = IF m = n THEN x ELSE c.nodes[m]
  BY <1>1 DEF Cluster
<1>5. /\ Refresh(c, n).pools = c.pools /\ Refresh(c, n).envs = c.envs
      /\ Refresh(c, n).execs = c.execs
  BY <1>1 DEF Cluster
<1> QED BY <1>3, <1>4, <1>5 DEF Untouched

LEMMA HeartbeatQuiet ==
  ASSUME IInv, NEW n \in Node, Heartbeat(n)
  PROVE  Quiet
<1>1. cluster \in Cluster /\ cluster.nodes[n] # None
  BY DEF IInv, Sound, Typed, Heartbeat
<1>2. Refresh(cluster, n) \in Cluster /\ Untouched(cluster, Refresh(cluster, n))
  BY <1>1, RefreshLemma, RefreshUntouched
<1> QED BY <1>2 DEF Heartbeat, Quiet

\* Files arriving at a node.
LEMMA ArrivalQuiet ==
  ASSUME IInv, NEW n \in Node,
         \/ \E i \in Image : ImageArrived(n, i)
         \/ \E a \in Artifact : ArtifactArrived(n, a)
  PROVE  Quiet
<1>1. cluster \in Cluster /\ cluster.nodes[n] \in NodeRec /\ cluster.nodes[n] # None
  BY ClusterParts DEF IInv, Sound, Typed, ImageArrived, ArtifactArrived
<1>2. ASSUME NEW x \in NodeRec,
             x.used = cluster.nodes[n].used, x.idle = cluster.nodes[n].idle,
             NEW d, d = [cluster EXCEPT !.nodes = [cluster.nodes EXCEPT ![n] = x]]
      PROVE  d \in Cluster /\ Untouched(cluster, d) /\ d.nodes[n] # None
  <2>1. d \in Cluster /\ SameWork(cluster, d)
    BY <1>1, <1>2, NodeChanged
  <2>2. \A m \in Node : d.nodes[m] = IF m = n THEN x ELSE cluster.nodes[m]
    BY <1>1, <1>2 DEF Cluster
  <2> QED BY <1>1, <1>2, <2>1, <2>2 DEF Untouched, SameWork
<1>3. CASE \E i \in Image : ImageArrived(n, i)
  <2>1. PICK i \in Image : ImageArrived(n, i)
    BY <1>3
  <2> DEFINE x == [cluster.nodes[n] EXCEPT !.images = cluster.nodes[n].images \cup {i}]
             b == [cluster EXCEPT !.nodes = [cluster.nodes EXCEPT ![n] = x]]
             d == Refresh(b, n)
  <2>2. cluster' = ScheduleQueued(d) /\ requests' = requests
    BY <1>1, <2>1 DEF ImageArrived, Cluster
  <2>3. x \in NodeRec /\ x.used = cluster.nodes[n].used /\ x.idle = cluster.nodes[n].idle
    BY <1>1 DEF NodeRec
  <2> HIDE DEF x
  <2>4. b \in Cluster /\ Untouched(cluster, b) /\ b.nodes[n] # None
    BY <1>2, <2>3
  <2> HIDE DEF b
  <2>5. d \in Cluster /\ Untouched(b, d)
    BY <2>4, RefreshLemma, RefreshUntouched
  <2> HIDE DEF d
  <2>6. Untouched(cluster, d)
    BY <2>4, <2>5 DEF Untouched
  <2> QED BY <2>2, <2>5, <2>6 DEF Quiet
<1>4. CASE \E a \in Artifact : ArtifactArrived(n, a)
  <2>1. PICK a \in Artifact : ArtifactArrived(n, a)
    BY <1>4
  <2> DEFINE x == [cluster.nodes[n] EXCEPT !.artifacts = cluster.nodes[n].artifacts \cup {a}]
             d == [cluster EXCEPT !.nodes = [cluster.nodes EXCEPT ![n] = x]]
  <2>2. cluster' = ScheduleQueued(d) /\ requests' = requests
    BY <1>1, <2>1 DEF ArtifactArrived, Cluster
  <2>3. x \in NodeRec /\ x.used = cluster.nodes[n].used /\ x.idle = cluster.nodes[n].idle
    BY <1>1 DEF NodeRec
  <2> HIDE DEF x
  <2>4. d \in Cluster /\ Untouched(cluster, d)
    BY <1>2, <2>3
  <2> HIDE DEF d
  <2> QED BY <2>2, <2>4 DEF Quiet
<1> QED BY <1>3, <1>4

LEMMA DeleteNodeQuiet ==
  ASSUME IInv, NEW n \in Node, DeleteNode(n)
  PROVE  Quiet
<1> DEFINE d == [cluster EXCEPT !.nodes = [cluster.nodes EXCEPT ![n] = None]]
<1>1. cluster \in Cluster /\ [cluster.nodes EXCEPT ![n] = None] \in [Node -> NodeRec \cup {None}]
  BY DEF IInv, Sound, Typed, Cluster
<1>2. d \in Cluster
  BY <1>1, ClusterUpdates
<1>3. Untouched(cluster, d)
  BY <1>1 DEF Cluster, Untouched
<1>4. cluster' = ScheduleQueued(d) /\ requests' = requests
  BY <1>1 DEF DeleteNode, Cluster
<1> HIDE DEF d
<1> QED BY <1>2, <1>3, <1>4 DEF Quiet

-----------------------------------------------------------------------------
(* The handlers keep the books. *)

Books(c, q) == Accounts(c) /\ Sizes(c, q)

BooksKept == Books(cluster', requests')

\* A handler brings the cluster to d, and may then call schedule_queued.
Reaches(d) ==
  d \in Cluster /\ Accounts(d) /\ (cluster' = d \/ cluster' = ScheduleQueued(d))

LEMMA Reached ==
  ASSUME NEW d, Reaches(d)
  PROVE  /\ Accounts(cluster')
         /\ cluster'.pools = d.pools /\ cluster'.envs = d.envs
<1>1. CASE cluster' = d
  BY <1>1 DEF Reaches
<1>2. CASE cluster' = ScheduleQueued(d)
  <2>1. Accounts(ScheduleQueued(d))
    BY SweepAccounts DEF Reaches
  <2>2. Placed(d, ScheduleQueued(d))
    BY SweepLemma DEF Reaches
  <2> QED BY <1>2, <2>1, <2>2 DEF Placed
<1> QED BY <1>1, <1>2 DEF Reaches

\* Handlers that leave pools, environments and requests alone.
LEMMA BooksOfNodes ==
  ASSUME IInv, Books(cluster, requests), NEW d, Reaches(d),
         d.pools = cluster.pools, d.envs = cluster.envs, requests' = requests
  PROVE  BooksKept
<1>1. /\ Accounts(cluster')
      /\ cluster'.pools = cluster.pools /\ cluster'.envs = cluster.envs
  BY Reached
<1>2. Recorded(cluster', requests') = Recorded(cluster, requests)
  BY <1>1 DEF Recorded
<1>3. Sizes(cluster', requests')
  BY <1>1, <1>2 DEF Books, Sizes
<1> QED BY <1>1, <1>3 DEF BooksKept, Books

LEMMA QuietBooks ==
  ASSUME IInv, Books(cluster, requests), Quiet
  PROVE  BooksKept
<1>1. cluster \in Cluster /\ PoolsExist(cluster) /\ requests' = requests
  BY DEF IInv, Sound, Typed, Quiet
<1>2. PICK d \in Cluster :
        Untouched(cluster, d) /\ (cluster' = d \/ cluster' = ScheduleQueued(d))
  BY DEF Quiet
<1>3. Accounts(d)
  BY <1>1, <1>2, AccountsNodes DEF Untouched, Books
<1>4. Reaches(d)
  BY <1>2, <1>3 DEF Reaches
<1> QED BY <1>1, <1>2, <1>4, BooksOfNodes DEF Untouched

LEMMA CreatePoolBooks ==
  ASSUME IInv, Books(cluster, requests), NEW p \in UserPool, NEW cfg \in PoolConfig,
         CreatePool(p, cfg)
  PROVE  BooksKept
<1>1. cluster \in Cluster /\ PoolsExist(cluster) /\ cluster' \in Cluster
  BY CreatePoolKept, ControllerAssumption DEF IInv, Sound, Typed, Kept
<1>2. p \in Pool /\ cluster.pools[p] = None /\ requests' = requests
  BY ControllerAssumption DEF CreatePool
<1>3. /\ cluster'.execs = cluster.execs /\ cluster'.nodes = cluster.nodes
      /\ cluster'.envs = cluster.envs
      /\ \A y \in Pool : y # p => cluster'.pools[y] = cluster.pools[y]
  BY <1>1, <1>2 DEF CreatePool, Cluster
<1>4. Accounts(cluster')
  BY <1>1, <1>2, <1>3, ExistingWork, AccountsPools DEF Books
<1>5. Recorded(cluster', requests') \subseteq Recorded(cluster, requests)
  BY <1>2, <1>3 DEF Recorded
<1>6. Typed(cluster, requests, runs)
  BY DEF IInv, Sound
<1>7. Sizes(cluster', requests')
  BY <1>3, <1>5, <1>6, SizesKept DEF Books
<1> QED BY <1>4, <1>7 DEF BooksKept, Books

LEMMA DropPoolSizes ==
  ASSUME NEW c, NEW q, NEW rs, Typed(c, q, rs), Sizes(c, q), NEW p \in Pool,
         NEW d, d = DropPool(c, p)
  PROVE  Sizes(d, q)
<1>1. d.envs = c.envs /\ d.pools = [c.pools EXCEPT ![p] = None]
  BY DropPoolLemma DEF Typed
<1>2. \A y \in Pool : d.pools[y] # None => d.pools[y] = c.pools[y]
  BY <1>1 DEF Typed, Cluster
<1>3. Recorded(d, q) \subseteq Recorded(c, q)
  BY <1>1 DEF Recorded
<1> QED BY <1>2, <1>3, SizesKept

LEMMA DeletePoolBooks ==
  ASSUME IInv, Books(cluster, requests), NEW p \in Pool, DeletePool(p)
  PROVE  BooksKept
<1>1. cluster \in Cluster /\ Typed(cluster, requests, runs)
  BY DEF IInv, Sound, Typed
<1>2. /\ cluster' = DropPool(cluster, p) /\ requests' = requests
      /\ \A e \in Exec : Works(cluster, e) => cluster.execs[e].pool # p
  BY DEF DeletePool, Works
<1> QED BY <1>1, <1>2, DropPoolAccounts, DropPoolSizes DEF BooksKept, Books

\* Requests come and go; an update goes by the record of its environment.
LEMMA RequestBooks ==
  ASSUME IInv, Books(cluster, requests), NEW r \in Req,
         \/ \E cfg \in EnvConfig : BeginCreate(r, cfg)
         \/ \E i \in Env, cfg \in EnvConfig : BeginUpdate(r, i, cfg)
         \/ PrepareArtifact(r) \/ AbandonRequest(r)
  PROVE  BooksKept
<1>1. Typed(cluster, requests, runs) /\ Typed(cluster', requests', runs')
  BY BeginCreateKept, BeginUpdateKept, PrepareArtifactKept, AbandonRequestKept
     DEF IInv, Sound, Kept
<1>2. cluster' = cluster
  BY DEF BeginCreate, BeginUpdate, PrepareArtifact, AbandonRequest
<1>3. requests' = [requests EXCEPT ![r] = requests'[r]]
  BY <1>1 DEF BeginCreate, BeginUpdate, PrepareArtifact, AbandonRequest, Typed
<1>4. requests'[r] # None /\ requests'[r].env # None =>
        requests'[r].old \in Recorded(cluster, requests)
  <2>1. CASE \E cfg \in EnvConfig : BeginCreate(r, cfg)
    BY <1>1, <2>1 DEF BeginCreate, Typed
  <2>2. CASE \E i \in Env, cfg \in EnvConfig : BeginUpdate(r, i, cfg)
    <3>1. PICK i \in Env, cfg \in EnvConfig : BeginUpdate(r, i, cfg)
      BY <2>2
    <3>2. requests'[r].old = cluster.envs[i] /\ cluster.envs[i] # None
      BY <1>1, <3>1 DEF BeginUpdate, Typed
    <3> QED BY <3>2 DEF Recorded
  <2>3. CASE PrepareArtifact(r)
    <3>1. requests[r] \in CreateReq \cup UpdateReq
      BY <1>1, <2>3 DEF PrepareArtifact, Typed
    <3>2. requests'[r].old = requests[r].old /\ requests'[r].env = requests[r].env
      BY <1>1, <2>3, <3>1 DEF PrepareArtifact, Typed, CreateReq, UpdateReq
    <3> QED BY <2>3, <3>2 DEF PrepareArtifact, Recorded
  <2>4. CASE AbandonRequest(r)
    BY <1>1, <2>4 DEF AbandonRequest, Typed
  <2> QED BY <2>1, <2>2, <2>3, <2>4
<1>5. Recorded(cluster', requests') \subseteq Recorded(cluster, requests)
  BY <1>1, <1>2, <1>3, <1>4 DEF Recorded, Typed
<1>6. Sizes(cluster', requests')
  BY <1>1, <1>2, <1>5, SizesKept DEF Books
<1> QED BY <1>2, <1>6 DEF BooksKept, Books

\* No record goes by a fresh pool.
LEMMA UnusedPool ==
  ASSUME IInv, NEW p \in Pool, \A j \in Env : ~ Claims(cluster, requests, j, p),
         NEW w \in Recorded(cluster, requests)
  PROVE  w.pool # p
<1>1. CASE \E i \in Env : cluster.envs[i] # None /\ w = cluster.envs[i]
  BY <1>1 DEF Claims
<1>2. CASE \E r \in Req : requests[r] # None /\ requests[r].env # None /\ w = requests[r].old
  <2>1. PICK r \in Req : requests[r] # None /\ requests[r].env # None /\ w = requests[r].old
    BY <1>2
  <2>2. requests[r] \in CreateReq \cup UpdateReq
    BY <2>1 DEF IInv, Sound, Typed
  <2>3. requests[r].env \in Env
    BY <2>1, <2>2 DEF CreateReq, UpdateReq
  <2> QED BY <2>1, <2>3 DEF Claims
<1> QED BY <1>1, <1>2 DEF Recorded

LEMMA CommitCreateBooks ==
  ASSUME IInv, Books(cluster, requests), NEW r \in Req, CommitCreate(r)
  PROVE  BooksKept
<1> DEFINE i == NewId(FreshEnvs)
           p == NewId(FreshPools)
           cfg == requests[r].cfg
           v == [pool |-> p, cfg |-> cfg]
           x == [env |-> i, cfg |-> cfg]
<1>1. cluster \in Cluster /\ PoolsExist(cluster) /\ Typed(cluster, requests, runs)
  BY DEF IInv, Sound, Typed
<1>2. cluster' \in Cluster
  BY CommitCreateKept DEF Kept, Sound, Typed
<1>3. i \in Env /\ p \in Pool /\ \A j \in Env : ~ Claims(cluster, requests, j, p)
  BY Fresh DEF CommitCreate
<1>4. p \notin UserPool /\ cluster.pools[p] = None
  <2>1. FreshPools # {} /\ FreshPools \subseteq Nat
    BY SchedulerAssumption DEF CommitCreate, FreshPools, Pool
  <2>2. p \in FreshPools
    BY <2>1, NewIdLemma
  <2> QED BY <2>2 DEF FreshPools
<1>5. /\ cluster' = [cluster EXCEPT !.pools[p] = x, !.envs[i] = v]
      /\ requests' = [requests EXCEPT ![r] = None]
  BY DEF CommitCreate
<1>6. v.pool = p /\ v.cfg = cfg /\ x.cfg = cfg
  OBVIOUS
<1> HIDE DEF i, p, cfg, v, x
<1>7. /\ cluster'.execs = cluster.execs /\ cluster'.nodes = cluster.nodes
      /\ \A y \in Pool : cluster'.pools[y] = IF y = p THEN x ELSE cluster.pools[y]
      /\ \A j \in Env : cluster'.envs[j] = IF j = i THEN v ELSE cluster.envs[j]
      /\ \A s \in Req : requests'[s] = IF s = r THEN None ELSE requests[s]
  BY <1>1, <1>5 DEF Cluster, Typed
<1>8. Accounts(cluster')
  BY <1>1, <1>2, <1>4, <1>7, ExistingWork, AccountsPools DEF Books
<1>9. Recorded(cluster', requests') \subseteq Recorded(cluster, requests) \cup {v}
  BY <1>7 DEF Recorded
<1>10. \A w \in Recorded(cluster, requests) : w.pool # p
  BY <1>3, UnusedPool
<1>11. cluster'.pools[p].cfg = cfg
  BY <1>3, <1>6, <1>7
<1>12. Sizes(cluster', requests')
  BY <1>1, <1>3, <1>4, <1>6, <1>7, <1>9, <1>10, <1>11, SizesAdded DEF Books
<1> QED BY <1>8, <1>12 DEF BooksKept, Books

\* restart_environment_pool keeps the books, whichever pool it is told to retire.
LEMMA RestartBooks ==
  ASSUME IInv, Books(cluster, requests), NEW i \in Env, NEW old \in Pool, NEW cfg \in Config,
         Claims(cluster, requests, i, old), FreshPools # {},
         NEW new, new = NewId(FreshPools),
         cluster' = ScheduleQueued(RestartPool(cluster, i, old, new, cfg)),
         NEW qq, \A s \in Req : qq[s] = None \/ qq[s] = requests[s]
  PROVE  Books(cluster', qq)
<1> DEFINE d == RestartPool(cluster, i, old, new, cfg)
           v == [pool |-> new, cfg |-> cfg]
<1>1. cluster \in Cluster /\ PoolsExist(cluster) /\ Typed(cluster, requests, runs)
  BY DEF IInv, Sound, Typed
<1>2. /\ new \in Pool /\ new \notin UserPool /\ cluster.pools[new] = None
      /\ \A j \in Env : ~ Claims(cluster, requests, j, new)
  <2>1. FreshPools \subseteq Nat
    BY SchedulerAssumption DEF FreshPools, Pool
  <2>2. new \in FreshPools
    BY <2>1, NewIdLemma
  <2> QED BY <2>2 DEF FreshPools
<1>3. old # new
  BY <1>2
<1>4. d = RestartPool(cluster, i, old, new, cfg) /\ v.pool = new /\ v.cfg = cfg
  OBVIOUS
<1> HIDE DEF d
<1>5. Restarted(cluster, i, old, new, cfg, d)
  BY <1>1, <1>2, <1>3, <1>4, RestartParts
<1>6. Accounts(d)
  BY <1>1, <1>2, <1>3, <1>4, RestartAccounts DEF Books
<1>7. Reaches(d)
  BY <1>4, <1>5, <1>6 DEF Reaches, Restarted
<1>8. Accounts(cluster') /\ cluster'.pools = d.pools /\ cluster'.envs = d.envs
  BY <1>7, Reached
<1> HIDE DEF v
<1>9. \A j \in Env : cluster'.envs[j] = IF j = i THEN v ELSE cluster.envs[j]
  BY <1>5, <1>8 DEF Restarted, v
<1>10. Recorded(cluster', qq) \subseteq Recorded(cluster, requests) \cup {v}
  BY <1>9 DEF Recorded
<1>11. cluster'.pools[new].cfg = cfg
  BY <1>5, <1>8 DEF Restarted
<1>12. ASSUME NEW y \in Pool, y # new, cluster'.pools[y] # None
       PROVE  cluster.pools[y] # None /\ cluster'.pools[y].cfg.size = cluster.pools[y].cfg.size
  <2>1. CASE y = old
    <3>1. /\ cluster.pools[old] # None
          /\ cluster'.pools[old].cfg = [cluster.pools[old].cfg EXCEPT !.warm = 0]
      BY <1>5, <1>8, <1>12, <2>1 DEF Restarted
    <3>2. cluster.pools[old].cfg \in Config
      BY <1>1, <3>1, ClusterParts DEF PoolRec
    <3> QED BY <2>1, <3>1, <3>2 DEF Config
  <2>2. CASE y # old
    BY <1>5, <1>8, <1>12, <2>2 DEF Restarted
  <2> QED BY <2>1, <2>2
<1>13. \A w \in Recorded(cluster, requests) : w.pool # new
  BY <1>2, UnusedPool
<1>14. Sizes(cluster', qq)
  <2>1. /\ v.pool \in Pool \ UserPool
        /\ \A w \in Recorded(cluster, requests) : w.pool = v.pool => w.cfg.size = v.cfg.size
        /\ cluster'.pools[v.pool] # None => cluster'.pools[v.pool].cfg.size = v.cfg.size
        /\ \A y \in Pool : y # v.pool /\ cluster'.pools[y] # None =>
             cluster.pools[y] # None /\ cluster'.pools[y].cfg.size = cluster.pools[y].cfg.size
        /\ Sizes(cluster, requests)
    BY <1>2, <1>4, <1>11, <1>12, <1>13 DEF Books
  <2> QED BY ONLY <1>1, <1>10, <2>1, SizesAdded
<1> QED BY <1>8, <1>14 DEF Books

LEMMA RestartEnvironmentBooks ==
  ASSUME IInv, Books(cluster, requests), NEW i \in Env, RestartEnvironment(i)
  PROVE  BooksKept
<1> DEFINE env == cluster.envs[i]
<1>1. env \in EnvRec /\ env # None
  BY ClusterParts DEF IInv, Sound, Typed, RestartEnvironment
<1>2. env.pool \in Pool /\ env.cfg \in Config /\ Claims(cluster, requests, i, env.pool)
  BY <1>1 DEF EnvRec, Claims
<1>3. /\ cluster' = ScheduleQueued(RestartPool(cluster, i, env.pool, NewId(FreshPools), env.cfg))
      /\ FreshPools # {} /\ requests' = requests
  BY DEF RestartEnvironment
<1> HIDE DEF env
<1> QED BY <1>2, <1>3, RestartBooks DEF BooksKept

LEMMA CommitUpdateBooks ==
  ASSUME IInv, Books(cluster, requests), NEW r \in Req, CommitUpdate(r)
  PROVE  BooksKept
<1> DEFINE i == requests[r].env
           old == requests[r].old
           cfg == requests[r].cfg
           v == [pool |-> old.pool, cfg |-> cfg]
           x == [env |-> i, cfg |-> cfg]
           d == [cluster EXCEPT !.pools[old.pool] = x, !.envs[i] = v]
<1>1. cluster \in Cluster /\ PoolsExist(cluster) /\ Typed(cluster, requests, runs)
  BY DEF IInv, Sound, Typed
<1>2. /\ i \in Env /\ old \in EnvRec /\ old.pool \in Pool /\ cfg \in Config
      /\ Claims(cluster, requests, i, old.pool) /\ old \in Recorded(cluster, requests)
  <2>1. requests[r] \in CreateReq \cup UpdateReq
    BY DEF IInv, Sound, Typed, CommitUpdate
  <2>2. requests[r] \in UpdateReq
    BY <2>1 DEF CreateReq, CommitUpdate
  <2>3. i \in Env /\ old \in EnvRec /\ old.pool \in Pool /\ cfg \in Config
    BY <2>2 DEF UpdateReq, EnvRec
  <2> QED BY <2>3 DEF Claims, Recorded, CommitUpdate
<1>3. \A s \in Req : requests'[s] = IF s = r THEN None ELSE requests[s]
  BY <1>1 DEF CommitUpdate, Typed
<1>4. CASE Rebuilds(old.cfg, cfg)
  <2>1. /\ cluster' = ScheduleQueued(RestartPool(cluster, i, old.pool, NewId(FreshPools), cfg))
        /\ FreshPools # {}
    BY <1>4 DEF CommitUpdate
  <2> HIDE DEF i, old, cfg
  <2>2. Books(cluster', requests')
    BY <1>2, <1>3, <2>1, RestartBooks
  <2> QED BY <2>2 DEF BooksKept
<1>5. CASE ~ Rebuilds(old.cfg, cfg)
  <2>1. cluster' = ScheduleQueued(d)
    BY <1>5 DEF CommitUpdate
  <2>2. old.cfg.size = cfg.size
    BY <1>5 DEF Rebuilds
  <2>3. x \in PoolRec /\ v \in EnvRec /\ x # None /\ v # None
    <3>1. x \in PoolRec /\ v \in EnvRec
      BY <1>2 DEF PoolRec, EnvRec
    <3> QED BY <3>1, Apart
  <2>4. v.pool = old.pool /\ v.cfg = cfg /\ x.cfg = cfg
    OBVIOUS
  <2> HIDE DEF i, old, cfg, v, x
  <2>5. /\ d.nodes = cluster.nodes /\ d.execs = cluster.execs
        /\ \A y \in Pool : d.pools[y] = IF y = old.pool THEN x ELSE cluster.pools[y]
        /\ \A j \in Env : d.envs[j] = IF j = i THEN v ELSE cluster.envs[j]
    BY <1>1 DEF Cluster
  <2>6. d \in Cluster
    <3>1. [cluster.pools EXCEPT ![old.pool] = x] \in [Pool -> PoolRec \cup {None}]
      BY <1>1, <2>3 DEF Cluster
    <3>2. [cluster.envs EXCEPT ![i] = v] \in [Env -> EnvRec \cup {None}]
      BY <1>1, <2>3 DEF Cluster
    <3> DEFINE g == [cluster EXCEPT !.pools = [cluster.pools EXCEPT ![old.pool] = x]]
    <3>3. g \in Cluster
      BY <1>1, <3>1, ClusterUpdates
    <3>4. d = [g EXCEPT !.envs = [cluster.envs EXCEPT ![i] = v]]
      BY <1>1 DEF Cluster
    <3> HIDE DEF g, d
    <3> QED BY <3>2, <3>3, <3>4, ClusterUpdates
  <2> HIDE DEF d
  <2>7. cluster.pools[old.pool] # None => cluster.pools[old.pool].cfg.size = cfg.size
    BY <1>2, <2>2 DEF Books, Sizes
  <2>8. \A y \in Pool : cluster.pools[y] # None =>
          d.pools[y] # None /\ d.pools[y].cfg.size = cluster.pools[y].cfg.size
    BY <2>3, <2>4, <2>5, <2>7
  <2>9. Accounts(d)
    BY <1>1, <2>5, <2>6, <2>8, ExistingWork, AccountsPools DEF Books
  <2>10. Accounts(cluster') /\ cluster'.pools = d.pools /\ cluster'.envs = d.envs
    BY <2>1, <2>6, <2>9, Reached DEF Reaches
  <2>11. Recorded(cluster', requests') \subseteq Recorded(cluster, requests) \cup {v}
    BY <1>3, <2>5, <2>10 DEF Recorded
  <2>12. Sizes(cluster', requests')
    <3>1. \A w \in Recorded(cluster, requests) : w.pool = v.pool => w.cfg.size = v.cfg.size
      BY <1>2, <2>2, <2>4 DEF Books, Sizes
    <3>2. v.pool \in Pool \ UserPool
      BY <1>2, <2>4 DEF Books, Sizes
    <3>3. cluster'.pools[v.pool].cfg.size = v.cfg.size
      BY <1>2, <2>4, <2>5, <2>10
    <3>4. \A y \in Pool : y # v.pool /\ cluster'.pools[y] # None =>
            cluster.pools[y] # None /\ cluster'.pools[y].cfg.size = cluster.pools[y].cfg.size
      BY <2>4, <2>5, <2>10
    <3>5. Sizes(cluster, requests)
      BY DEF Books
    <3> QED BY ONLY <1>1, <2>11, <3>1, <3>2, <3>3, <3>4, <3>5, SizesAdded
  <2> QED BY <2>10, <2>12 DEF BooksKept, Books
<1> QED BY <1>4, <1>5

LEMMA DeleteEnvironmentBooks ==
  ASSUME IInv, Books(cluster, requests), NEW i \in Env, DeleteEnvironment(i)
  PROVE  BooksKept
<1> DEFINE env == cluster.envs[i]
           gone == IF env.cfg.artifact # None /\ LastUser(i) THEN {env.cfg.artifact} ELSE {}
           b == DropPool(cluster, env.pool)
<1>1. cluster \in Cluster /\ PoolsExist(cluster) /\ Typed(cluster, requests, runs)
  BY DEF IInv, Sound, Typed
<1>2. /\ env.pool \in Pool
      /\ \A e \in Exec : cluster.execs[e] # None => cluster.execs[e].pool # env.pool
  BY EmptiedPool
<1>3. b = DropPool(cluster, env.pool)
  OBVIOUS
<1>4. requests' = requests
  BY DEF DeleteEnvironment
<1>5. cluster' = [[b EXCEPT !.envs[i] = None] EXCEPT !.nodes = [n \in Node |->
                    IF [b EXCEPT !.envs[i] = None].nodes[n] = None THEN None
                    ELSE [[b EXCEPT !.envs[i] = None].nodes[n] EXCEPT !.artifacts = @ \ gone]]]
  BY DEF DeleteEnvironment
<1> HIDE DEF b, env, gone
<1>6. /\ b \in Cluster /\ b.execs = cluster.execs /\ b.envs = cluster.envs
      /\ b.pools = [cluster.pools EXCEPT ![env.pool] = None]
  BY <1>1, <1>2, <1>3, DropPoolLemma
<1>7. Accounts(b)
  <2>1. \A e \in Exec : Works(cluster, e) => cluster.execs[e].pool # env.pool
    BY <1>2 DEF Works
  <2> QED BY <1>1, <1>2, <1>3, <2>1, DropPoolAccounts DEF Books
<1>8. Sizes(b, requests)
  BY <1>1, <1>2, <1>3, DropPoolSizes DEF Books
<1>9. PoolsExist(b)
  <2>1. \A e \in Exec : cluster.execs[e] # None => cluster.execs[e].pool \in Pool
    BY <1>1, ClusterParts DEF ExecRec
  <2> QED BY <1>1, <1>2, <1>6, <2>1 DEF PoolsExist, Cluster
<1>10. /\ cluster'.execs = b.execs /\ cluster'.pools = b.pools
       /\ cluster'.envs = [b.envs EXCEPT ![i] = None]
       /\ \A n \in Node : cluster'.nodes[n] =
            IF b.nodes[n] = None THEN None
            ELSE [b.nodes[n] EXCEPT !.artifacts = b.nodes[n].artifacts \ gone]
  BY <1>5, <1>6 DEF Cluster
<1>11. ASSUME NEW n \in Node, cluster'.nodes[n] # None
       PROVE  /\ b.nodes[n] # None /\ cluster'.nodes[n].used = b.nodes[n].used
              /\ cluster'.nodes[n].idle = b.nodes[n].idle
  BY <1>6, <1>10, <1>11, ClusterParts DEF NodeRec
<1>12. cluster' \in Cluster
  BY DeleteEnvironmentKept DEF Kept, Sound, Typed
<1>13. Accounts(cluster')
  BY <1>6, <1>7, <1>9, <1>10, <1>11, <1>12, AccountsNodes
<1>14. Typed(b, requests, runs)
  BY <1>1, <1>6 DEF Typed
<1>15. Recorded(cluster', requests') \subseteq Recorded(b, requests)
  BY <1>4, <1>6, <1>10 DEF Recorded, Cluster
<1>16. Sizes(cluster', requests')
  BY <1>8, <1>10, <1>14, <1>15, SizesKept
<1> QED BY <1>13, <1>16 DEF BooksKept, Books

\* An agent that starts: its node is new, or has lost its idle MicroVMs.
LEMMA StartAgentBooks ==
  ASSUME IInv, Books(cluster, requests), NEW n \in Node, StartAgent(n)
  PROVE  BooksKept
<1> DEFINE x == NewNode(n)
           known == IF cluster.nodes[n] # None THEN cluster
                    ELSE [cluster EXCEPT !.nodes = [cluster.nodes EXCEPT ![n] = x]]
           reset == ResetIdle(known, n)
           d == Refresh(reset, n)
<1>1. cluster \in Cluster /\ PoolsExist(cluster) /\ NodesKnown(cluster)
  BY DEF IInv, Sound, Typed
<1>2. x \in NodeRec /\ x # None /\ x.used = 0 /\ x.idle = [p \in Pool |-> 0]
  <2>1. x \in NodeRec
    BY ControllerAssumption DEF NewNode, NodeRec
  <2> QED BY <2>1, Apart DEF NewNode
<1>3. cluster' = ScheduleQueued(d) /\ requests' = requests
  BY <1>1 DEF StartAgent, Cluster
<1> HIDE DEF x
<1>4. known \in Cluster /\ SameWork(cluster, known) /\ known.nodes[n] # None /\ Accounts(known)
  <2>1. CASE cluster.nodes[n] # None
    BY <1>1, <2>1 DEF SameWork, Books
  <2>2. CASE cluster.nodes[n] = None
    <3> DEFINE g == [cluster EXCEPT !.nodes = [cluster.nodes EXCEPT ![n] = x]]
    <3>1. g \in Cluster /\ SameWork(cluster, g)
      BY <1>1, <1>2, NodeChanged
    <3>2. \A m \in Node : g.nodes[m] = IF m = n THEN x ELSE cluster.nodes[m]
      BY <1>1 DEF Cluster
    <3>3. known = g
      BY <2>2
    <3> HIDE DEF g, known
    <3>4. Accounts(g)
      BY <1>1, <1>2, <2>2, <3>1, <3>2, NewNodeAccounts DEF SameWork, Books
    <3> QED BY <1>2, <3>1, <3>2, <3>3, <3>4
  <2> QED BY <2>1, <2>2
<1> HIDE DEF known
<1>5. reset \in Cluster /\ SameWork(known, reset) /\ Accounts(reset)
  BY <1>4, ResetIdleLemma, ResetAccounts
<1> HIDE DEF reset
<1>6. reset.nodes[n] # None /\ PoolsExist(reset)
  BY <1>1, <1>4, <1>5 DEF SameWork, PoolsExist
<1>7. d \in Cluster /\ Untouched(reset, d)
  BY <1>5, <1>6, RefreshLemma, RefreshUntouched
<1> HIDE DEF d
<1>8. Accounts(d)
  BY <1>5, <1>6, <1>7, AccountsNodes DEF Untouched
<1>9. Reaches(d)
  BY <1>3, <1>7, <1>8 DEF Reaches
<1>10. d.pools = cluster.pools /\ d.envs = cluster.envs
  BY <1>4, <1>5, <1>7 DEF SameWork, Untouched
<1> QED BY <1>3, <1>9, <1>10, BooksOfNodes

\* Warming and draining.
LEMMA WarmBooks ==
  ASSUME IInv, Books(cluster, requests), NEW n \in Node, NEW p \in Pool,
         AddWarmInstance(n, p) \/ RemoveIdleInstance(n, p)
  PROVE  BooksKept
<1>1. cluster \in Cluster /\ Accounts(cluster)
  BY DEF IInv, Sound, Typed, Books
<1>2. CASE AddWarmInstance(n, p)
  <2> DEFINE d == AddWarm(cluster, n, p)
  <2>1. cluster.nodes[n] # None /\ cluster.pools[p] # None
    BY <1>2 DEF AddWarmInstance, WarmNeeded, WarmNodes
  <2>2. d \in Cluster /\ SameWork(cluster, d)
    BY <1>1, <2>1, AddWarmLemma
  <2>3. d = AddWarm(cluster, n, p)
    OBVIOUS
  <2>4. cluster' = ScheduleQueued(d) /\ requests' = requests
    BY <1>2 DEF AddWarmInstance
  <2> HIDE DEF d
  <2>5. Accounts(d)
    BY <1>1, <2>1, <2>2, <2>3, WarmAccounts
  <2> QED BY <2>2, <2>4, <2>5, BooksOfNodes DEF Reaches, SameWork
<1>3. CASE RemoveIdleInstance(n, p)
  <2> DEFINE d == RemoveIdle(cluster, n, p)
  <2>1. cluster.nodes[n] # None /\ cluster.pools[p] # None /\ IdleAt(cluster, n, p) > 0
    BY <1>3 DEF RemoveIdleInstance, IdleSurplus, IdleAt
  <2>2. d \in Cluster /\ SameWork(cluster, d)
    BY <1>1, <1>3, RemoveIdleLemma DEF RemoveIdleInstance
  <2>3. d = RemoveIdle(cluster, n, p) /\ IdleAt(cluster, n, p) > 0
    BY <2>1
  <2>4. cluster' = ScheduleQueued(d) /\ requests' = requests
    BY <1>3 DEF RemoveIdleInstance
  <2> HIDE DEF d
  <2>5. Accounts(d)
    BY <1>1, <2>1, <2>2, <2>3, WarmAccounts
  <2> QED BY <2>2, <2>4, <2>5, BooksOfNodes DEF Reaches, SameWork
<1> QED BY <1>2, <1>3

\* A submission holds no MicroVM until it is placed.
LEMMA CreateExecutionBooks ==
  ASSUME IInv, Books(cluster, requests),
         NEW e \in Exec, NEW i \in Env, NEW p \in Pool, NEW queue \in BOOLEAN,
         CreateExecution(e, i, p, queue)
  PROVE  BooksKept
<1> DEFINE x == [status |-> "queued", pool |-> p, node |-> None, env |-> i]
           d == [cluster EXCEPT !.execs[e] = x]
<1>1. /\ cluster \in Cluster /\ PoolsExist(cluster) /\ cluster.execs[e] = None
      /\ cluster' = Schedule(d, e) /\ requests' = requests
  BY DEF IInv, Sound, Typed, CreateExecution
<1>2. x \in ExecRec /\ x # None /\ x.status = "queued" /\ x.pool = p
  <2>1. x \in ExecRec
    BY DEF ExecRec
  <2> QED BY <2>1, Apart
<1>3. d = [cluster EXCEPT !.execs = [cluster.execs EXCEPT ![e] = x]]
  BY <1>1 DEF Cluster
<1> HIDE DEF x
<1>4. /\ d \in Cluster
      /\ d.pools = cluster.pools /\ d.envs = cluster.envs /\ d.nodes = cluster.nodes
      /\ \A f \in Exec : d.execs[f] = IF f = e THEN x ELSE cluster.execs[f]
  <2> DEFINE g == [cluster EXCEPT !.execs = [cluster.execs EXCEPT ![e] = x]]
  <2>1. /\ g \in Cluster
        /\ g.pools = cluster.pools /\ g.envs = cluster.envs /\ g.nodes = cluster.nodes
        /\ \A f \in Exec : g.execs[f] = IF f = e THEN x ELSE cluster.execs[f]
    BY <1>1, <1>2, ExecChanged
  <2> QED BY <1>3, <2>1
<1> HIDE DEF d
<1>5. IsQueued(d, e) /\ d.execs[e].pool = p
  BY <1>2, <1>4 DEF IsQueued
<1>6. \A n \in Node, y \in Pool : InUse(d, n, y) = InUse(cluster, n, y)
  BY <1>1, <1>2, <1>4 DEF InUse, ActiveOn, Holds
<1>7. Accounts(d)
  BY <1>1, <1>4, <1>6, ExistingWork, AccountsQuiet DEF Books
<1>8. cluster' \in Cluster /\ Accounts(cluster') /\ Placed(d, cluster')
  <2>1. CASE ~ Schedulable(d, p)
    BY <1>1, <1>4, <1>5, <1>7, <2>1, ScheduleCases, ScheduleLemma
  <2>2. CASE Schedulable(d, p)
    <3>1. PICK n \in Node : d.nodes[n] # None /\ cluster' = Place(d, e, n)
      BY <1>1, <1>4, <1>5, <2>2, ScheduleCases
    <3>2. d.pools[d.execs[e].pool] # None
      BY <1>5, <2>2 DEF Schedulable
    <3> QED BY <1>4, <1>5, <1>7, <3>1, <3>2, PlaceAccounts, PlaceLemma
  <2> QED BY <2>1, <2>2
<1>9. Reaches(cluster') /\ cluster'.pools = cluster.pools /\ cluster'.envs = cluster.envs
  BY <1>4, <1>8 DEF Reaches, Placed
<1> QED BY <1>1, <1>9, BooksOfNodes

\* Work that is handed out keeps its MicroVM.
LEMMA NextWorkBooks ==
  ASSUME IInv, Books(cluster, requests), NEW n \in Node, NEW e \in Exec, NextWork(n, e)
  PROVE  BooksKept
<1> DEFINE x == [cluster.execs[e] EXCEPT !.status = "running"]
<1>1. cluster \in Cluster /\ PoolsExist(cluster) /\ cluster.execs[e] \in ExecRec
  BY ClusterParts DEF IInv, Sound, Typed, NextWork
<1>2. /\ x \in ExecRec /\ x # None /\ x.status = "running"
      /\ x.pool = cluster.execs[e].pool /\ x.node = cluster.execs[e].node
  <2>1. /\ x \in ExecRec /\ x.status = "running"
        /\ x.pool = cluster.execs[e].pool /\ x.node = cluster.execs[e].node
    BY <1>1 DEF ExecRec
  <2> QED BY <2>1, Apart
<1>3. cluster' = [cluster EXCEPT !.execs = [cluster.execs EXCEPT ![e] = x]]
  BY <1>1 DEF NextWork, Cluster
<1> HIDE DEF x
<1>4. /\ cluster' \in Cluster
      /\ cluster'.pools = cluster.pools /\ cluster'.envs = cluster.envs
      /\ cluster'.nodes = cluster.nodes
      /\ \A f \in Exec : cluster'.execs[f] = IF f = e THEN x ELSE cluster.execs[f]
  BY <1>1, <1>2, <1>3, ExecChanged
<1>5. \A m \in Node, p \in Pool : InUse(cluster', m, p) = InUse(cluster, m, p)
  <2>1. cluster.execs[e] # None /\ cluster.execs[e].status = "assigned"
    BY DEF NextWork
  <2> QED BY <1>2, <1>4, <2>1 DEF InUse, ActiveOn, Holds
<1>6. Accounts(cluster')
  BY <1>1, <1>4, <1>5, ExistingWork, AccountsQuiet DEF Books
<1> QED BY <1>4, <1>6, BooksOfNodes DEF Reaches, NextWork

\* A report gives the MicroVM back; a stale pool goes with its idle ones.
LEMMA CompleteExecutionBooks ==
  ASSUME IInv, Books(cluster, requests),
         NEW n \in Node, NEW e \in Exec, NEW keepIdle \in BOOLEAN,
         CompleteExecution(n, e, keepIdle)
  PROVE  BooksKept
<1> DEFINE p == cluster.execs[e].pool
           b == Release(cluster, e, keepIdle)
           freed == [b EXCEPT !.execs[e] = None]
           d == IF Stale(freed, p) THEN DropPool(freed, p) ELSE freed
<1>1. /\ cluster \in Cluster /\ PoolsExist(cluster) /\ NodesKnown(cluster)
      /\ Typed(cluster, requests, runs) /\ <<n, e>> \in runs
  BY DEF IInv, Sound, Typed, CompleteExecution
<1>2. /\ cluster.execs[e] # None /\ cluster.execs[e].node = n
      /\ cluster.execs[e].status = "running"
  BY <1>1 DEF IInv, Sound, Expected
<1>3. cluster' = ScheduleQueued(d) /\ requests' = requests
  BY <1>2 DEF CompleteExecution, Finish
<1>4. /\ p \in Pool /\ p = cluster.execs[e].pool /\ cluster.pools[p] # None
      /\ cluster.nodes[n] # None /\ Works(cluster, e)
  <2>1. p \in Pool
    BY <1>1, <1>2, ClusterParts DEF ExecRec
  <2> QED BY <1>1, <1>2, <2>1 DEF PoolsExist, NodesKnown, Works, IsQueued
<1>5. b \in Cluster /\ SameWork(cluster, b)
  BY <1>1, <1>2, ReleaseLemma
<1>6. /\ freed \in Cluster
      /\ freed.pools = cluster.pools /\ freed.envs = cluster.envs
      /\ \A f \in Exec : freed.execs[f] = IF f = e THEN None ELSE cluster.execs[f]
  <2> HIDE DEF b
  <2> DEFINE g == [b EXCEPT !.execs = [b.execs EXCEPT ![e] = None]]
  <2>1. /\ g \in Cluster /\ g.pools = b.pools /\ g.envs = b.envs
        /\ \A f \in Exec : g.execs[f] = IF f = e THEN None ELSE b.execs[f]
    BY <1>5, ExecChanged
  <2>2. freed = g
    BY <1>5 DEF Cluster
  <2> QED BY <1>5, <2>1, <2>2 DEF SameWork
<1>7. freed = [Release(cluster, e, keepIdle) EXCEPT !.execs[e] = None]
  OBVIOUS
<1>8. d = IF Stale(freed, p) THEN DropPool(freed, p) ELSE freed
  OBVIOUS
<1> HIDE DEF p, b, freed, d
<1>9. Accounts(freed)
  BY <1>1, <1>2, <1>4, <1>6, <1>7, ReleaseAccounts DEF Books
<1>10. Typed(freed, requests, runs) /\ Sizes(freed, requests)
  <2>1. Recorded(freed, requests) = Recorded(cluster, requests)
    BY <1>6 DEF Recorded
  <2> QED BY <1>1, <1>6, <2>1 DEF Typed, Books, Sizes
<1>11. d \in Cluster /\ Accounts(d) /\ Sizes(d, requests)
  <2>1. CASE Stale(freed, p)
    <3>1. d = DropPool(freed, p)
      BY <1>8, <2>1
    <3>2. \A f \in Exec : Works(freed, f) => freed.execs[f].pool # p
      BY <2>1 DEF Stale, Works
    <3> QED BY <1>4, <1>6, <1>9, <1>10, <3>1, <3>2,
               DropPoolLemma, DropPoolAccounts, DropPoolSizes
  <2>2. CASE ~ Stale(freed, p)
    BY <1>6, <1>8, <1>9, <1>10, <2>2
  <2> QED BY <2>1, <2>2
<1>12. Accounts(cluster') /\ cluster'.pools = d.pools /\ cluster'.envs = d.envs
  BY <1>3, <1>11, Reached DEF Reaches
<1>13. Recorded(cluster', requests') = Recorded(d, requests)
  BY <1>3, <1>12 DEF Recorded
<1>14. Sizes(cluster', requests')
  BY <1>11, <1>12, <1>13 DEF Sizes
<1> QED BY <1>12, <1>14 DEF BooksKept, Books

\* Every step keeps the books.
LEMMA NextBooks ==
  ASSUME IInv, Books(cluster, requests), [Next]_vars
  PROVE  BooksKept
<1>1. CASE Administer
  <2>1. ASSUME NEW i \in Image, NEW kind \in {"vm", "runtime"},
               ImportImage(i, kind) \/ UpdateImage(i, kind)
        PROVE  BooksKept
    BY <2>1, ImagesQuiet, QuietBooks
  <2>2. ASSUME NEW i \in Image, DeleteImage(i) PROVE BooksKept
    BY <2>2, ImagesQuiet, QuietBooks
  <2>3. ASSUME NEW p \in UserPool, NEW cfg \in PoolConfig, CreatePool(p, cfg)
        PROVE  BooksKept
    BY <2>3, CreatePoolBooks
  <2>4. ASSUME NEW p \in Pool, DeletePool(p) PROVE BooksKept
    BY <2>4, DeletePoolBooks
  <2>5. ASSUME NEW r \in Req, NEW cfg \in EnvConfig, BeginCreate(r, cfg) PROVE BooksKept
    BY <2>5, RequestBooks
  <2>6. ASSUME NEW r \in Req, NEW i \in Env, NEW cfg \in EnvConfig, BeginUpdate(r, i, cfg)
        PROVE  BooksKept
    BY <2>6, RequestBooks
  <2>7. ASSUME NEW r \in Req, PrepareArtifact(r) \/ AbandonRequest(r) PROVE BooksKept
    BY <2>7, RequestBooks
  <2>8. ASSUME NEW r \in Req, CommitCreate(r) \/ CommitUpdate(r) PROVE BooksKept
    BY <2>8, CommitCreateBooks, CommitUpdateBooks
  <2>9. ASSUME NEW i \in Env, RestartEnvironment(i) \/ DeleteEnvironment(i) PROVE BooksKept
    BY <2>9, RestartEnvironmentBooks, DeleteEnvironmentBooks
  <2>10. ASSUME NEW n \in Node, DeleteNode(n) PROVE BooksKept
    BY <2>10, DeleteNodeQuiet, QuietBooks
  <2> QED BY <1>1, <2>1, <2>2, <2>3, <2>4, <2>5, <2>6, <2>7, <2>8, <2>9, <2>10 DEF Administer
<1>2. CASE Submit
  BY <1>2, CreateExecutionBooks DEF Submit
<1>3. CASE Serve
  <2>1. ASSUME NEW n \in Node, Heartbeat(n) \/ StartAgent(n) PROVE BooksKept
    BY <2>1, HeartbeatQuiet, QuietBooks, StartAgentBooks
  <2>2. ASSUME NEW n \in Node, NEW i \in Image, ImageArrived(n, i) PROVE BooksKept
    BY <2>2, ArrivalQuiet, QuietBooks
  <2>3. ASSUME NEW n \in Node, NEW a \in Artifact, ArtifactArrived(n, a) PROVE BooksKept
    BY <2>3, ArrivalQuiet, QuietBooks
  <2>4. ASSUME NEW n \in Node, NEW p \in Pool,
               AddWarmInstance(n, p) \/ RemoveIdleInstance(n, p)
        PROVE  BooksKept
    BY <2>4, WarmBooks
  <2>5. ASSUME NEW n \in Node, NEW e \in Exec, NextWork(n, e) PROVE BooksKept
    BY <2>5, NextWorkBooks
  <2>6. ASSUME NEW n \in Node, NEW e \in Exec, NEW keepIdle \in BOOLEAN,
               CompleteExecution(n, e, keepIdle)
        PROVE  BooksKept
    BY <2>6, CompleteExecutionBooks
  <2> QED BY <1>3, <2>1, <2>2, <2>3, <2>4, <2>5, <2>6 DEF Serve
<1>4. CASE UNCHANGED vars
  BY <1>4 DEF vars, BooksKept
<1> QED BY <1>1, <1>2, <1>3, <1>4 DEF Next

-----------------------------------------------------------------------------
(* The instance limit. *)

Instances(c, p) == Active(c, p) + Idle(c, p)

\* From c to d, no pool goes past the limit it has in d, or further past it.
Limited(c, d) ==
  \A p \in Pool : d.pools[p] # None /\ d.pools[p].cfg.max # None =>
    Instances(d, p) <= Instances(c, p) \/ Instances(d, p) <= d.pools[p].cfg.max

\* No pool has more instances anywhere.
Shrinks(c, d) ==
  \A p \in Pool : /\ ActiveOn(d, p) \subseteq ActiveOn(c, p)
                  /\ \A n \in Node : IdleAt(d, n, p) <= IdleAt(c, n, p)

LEMMA InstancesType ==
  ASSUME NEW c \in Cluster, NEW p \in Pool
  PROVE  /\ [n \in Node |-> IdleAt(c, n, p)] \in [1..NumNodes -> Nat]
         /\ NumNodes \in Nat
         /\ Idle(c, p) \in Nat /\ Active(c, p) \in Nat /\ Instances(c, p) \in Nat
<1>1. NumNodes \in Nat
  BY SchedulerAssumption
<1>2. [n \in Node |-> IdleAt(c, n, p)] \in [1..NumNodes -> Nat]
  BY HeldType DEF Node
<1>3. Idle(c, p) \in Nat
  BY <1>1, <1>2, TotalNat DEF Idle
<1>4. Active(c, p) \in Nat
  BY FiniteParts DEF Active, ActiveOn
<1> QED BY <1>1, <1>2, <1>3, <1>4 DEF Instances

LEMMA PoolShrinks ==
  ASSUME NEW c \in Cluster, NEW d \in Cluster, NEW p \in Pool,
         ActiveOn(d, p) \subseteq ActiveOn(c, p),
         \A n \in Node : IdleAt(d, n, p) <= IdleAt(c, n, p)
  PROVE  Instances(d, p) <= Instances(c, p)
<1> DEFINE f == [n \in Node |-> IdleAt(d, n, p)]
           g == [n \in Node |-> IdleAt(c, n, p)]
<1>1. f \in [1..NumNodes -> Nat] /\ g \in [1..NumNodes -> Nat] /\ NumNodes \in Nat
  BY InstancesType
<1>2. \A k \in 1..NumNodes : f[k] <= g[k]
  BY DEF Node
<1>3. Idle(d, p) = Total(f, NumNodes) /\ Idle(c, p) = Total(g, NumNodes)
  BY DEF Idle
<1> HIDE DEF f, g
<1>4. Idle(d, p) <= Idle(c, p)
  BY <1>1, <1>2, <1>3, TotalMonotonic
<1>5. Active(d, p) <= Active(c, p)
  <2>1. IsFiniteSet(ActiveOn(c, p))
    BY FiniteParts DEF ActiveOn
  <2> QED BY <2>1, FS_Subset DEF Active
<1>6. /\ Idle(d, p) \in Nat /\ Idle(c, p) \in Nat
      /\ Active(d, p) \in Nat /\ Active(c, p) \in Nat
  BY InstancesType
<1> QED BY <1>4, <1>5, <1>6 DEF Instances

LEMMA ShrinksLimited ==
  ASSUME NEW c \in Cluster, NEW d \in Cluster, Shrinks(c, d)
  PROVE  Limited(c, d)
BY PoolShrinks DEF Shrinks, Limited

LEMMA ShrinksTransitive ==
  ASSUME NEW b \in Cluster, NEW c \in Cluster, NEW d \in Cluster, Shrinks(b, c), Shrinks(c, d)
  PROVE  Shrinks(b, d)
<1>1. \A n \in Node, p \in Pool :
        IdleAt(b, n, p) \in Nat /\ IdleAt(c, n, p) \in Nat /\ IdleAt(d, n, p) \in Nat
  BY HeldType
<1> QED BY <1>1 DEF Shrinks

LEMMA LimitedTransitive ==
  ASSUME NEW b \in Cluster, NEW c \in Cluster, NEW d \in Cluster,
         Limited(b, c), Limited(c, d), d.pools = c.pools
  PROVE  Limited(b, d)
<1> SUFFICES ASSUME NEW p \in Pool, d.pools[p] # None, d.pools[p].cfg.max # None
             PROVE  \/ Instances(d, p) <= Instances(b, p)
                    \/ Instances(d, p) <= d.pools[p].cfg.max
  BY DEF Limited
<1>1. d.pools[p].cfg.max \in Nat
  BY ClusterParts DEF PoolRec, Config
<1>2. Instances(b, p) \in Nat /\ Instances(c, p) \in Nat /\ Instances(d, p) \in Nat
  BY InstancesType
<1>3. \/ Instances(d, p) <= Instances(c, p) \/ Instances(d, p) <= d.pools[p].cfg.max
  BY DEF Limited
<1>4. \/ Instances(c, p) <= Instances(b, p) \/ Instances(c, p) <= d.pools[p].cfg.max
  BY DEF Limited
<1> QED BY <1>1, <1>2, <1>3, <1>4

\* One pool changes: in how many executions it has, and in its idle MicroVMs on
\* one node.
LEMMA IdleChanged ==
  ASSUME NEW c \in Cluster, NEW d \in Cluster, NEW n \in Node, NEW p \in Pool,
         \A m \in Node : m # n => IdleAt(d, m, p) = IdleAt(c, m, p)
  PROVE  Idle(d, p) + IdleAt(c, n, p) = Idle(c, p) + IdleAt(d, n, p)
<1> DEFINE f == [m \in Node |-> IdleAt(c, m, p)]
           g == [m \in Node |-> IdleAt(d, m, p)]
<1>1. /\ f \in [1..NumNodes -> Nat] /\ g \in [1..NumNodes -> Nat] /\ NumNodes \in Nat
      /\ n \in 1..NumNodes
  BY InstancesType DEF Node
<1>2. /\ \A k \in 1..NumNodes : k # n => g[k] = f[k]
      /\ f[n] = IdleAt(c, n, p) /\ g[n] = IdleAt(d, n, p)
  BY DEF Node
<1>3. Idle(c, p) = Total(f, NumNodes) /\ Idle(d, p) = Total(g, NumNodes)
  BY DEF Idle
<1> HIDE DEF f, g
<1>4. Total(g, NumNodes) + f[n] = Total(f, NumNodes) + g[n]
  BY <1>1, <1>2, TotalChanged
<1> QED BY <1>2, <1>3, <1>4

\* Another execution on a pool, or one fewer.
LEMMA ActiveAdded ==
  ASSUME NEW c \in Cluster, NEW d, NEW e \in Exec, ~ Works(c, e), Works(d, e),
         \A f \in Exec : f # e => d.execs[f] = c.execs[f],
         NEW p \in Pool, d.execs[e].pool = p
  PROVE  /\ Active(d, p) = Active(c, p) + 1
         /\ \A y \in Pool : y # p => ActiveOn(d, y) = ActiveOn(c, y)
<1>1. /\ ActiveOn(d, p) = ActiveOn(c, p) \cup {e} /\ e \notin ActiveOn(c, p)
      /\ \A y \in Pool : y # p => ActiveOn(d, y) = ActiveOn(c, y)
  BY DEF ActiveOn, Holds, Works
<1>2. IsFiniteSet(ActiveOn(c, p))
  BY FiniteParts DEF ActiveOn
<1>3. Cardinality(ActiveOn(c, p) \cup {e}) = Cardinality(ActiveOn(c, p)) + 1
  BY <1>1, <1>2, FS_AddElement
<1> QED BY <1>1, <1>3 DEF Active

\* schedule keeps to the limit: it takes an idle MicroVM, or one more may start.
LEMMA PlaceLimited ==
  ASSUME NEW c \in Cluster, NEW e \in Exec, IsQueued(c, e),
         NEW p, p = c.execs[e].pool, Schedulable(c, p),
         NEW n \in Preferred(c, p), n \in Node, c.nodes[n] # None,
         NEW d, d = Place(c, e, n)
  PROVE  Limited(c, d)
<1> DEFINE size == c.pools[p].cfg.size
<1>1. size = c.pools[p].cfg.size /\ c.pools[p] # None
  BY DEF Schedulable
<1> HIDE DEF size
<1>2. /\ d \in Cluster /\ p \in Pool /\ d.pools = c.pools
      /\ \A f \in Exec : f # e => d.execs[f] = c.execs[f]
      /\ ~ Works(c, e) /\ Works(d, e) /\ d.execs[e].pool = p
      /\ \A m \in Node, y \in Pool : m # n \/ y # p => IdleAt(d, m, y) = IdleAt(c, m, y)
      /\ IdleAt(c, n, p) \in Nat
      /\ IdleAt(c, n, p) > 0 => IdleAt(d, n, p) = IdleAt(c, n, p) - 1
      /\ ~ (IdleAt(c, n, p) > 0) => IdleAt(d, n, p) = IdleAt(c, n, p)
  BY <1>1, PlaceCounts
<1>3. /\ Active(d, p) = Active(c, p) + 1
      /\ \A y \in Pool : y # p => ActiveOn(d, y) = ActiveOn(c, y)
  BY <1>2, ActiveAdded
<1>4. Idle(d, p) + IdleAt(c, n, p) = Idle(c, p) + IdleAt(d, n, p)
  BY <1>2, IdleChanged
<1>5. /\ Idle(c, p) \in Nat /\ Active(c, p) \in Nat /\ Idle(d, p) \in Nat
  BY <1>2, InstancesType
<1>6. ASSUME NEW y \in Pool, y # p PROVE Instances(d, y) <= Instances(c, y)
  <2>1. \A m \in Node : IdleAt(d, m, y) = IdleAt(c, m, y) /\ IdleAt(c, m, y) \in Nat
    BY <1>2, <1>6, HeldType
  <2>2. \A m \in Node : IdleAt(d, m, y) <= IdleAt(c, m, y)
    BY <2>1
  <2> QED BY <1>2, <1>3, <1>6, <2>2, PoolShrinks
<1>7. ASSUME d.pools[p].cfg.max # None
      PROVE  Instances(d, p) <= Instances(c, p) \/ Instances(d, p) <= d.pools[p].cfg.max
  <2>1. CASE IdleAt(c, n, p) > 0
    BY <1>2, <1>3, <1>4, <1>5, <2>1 DEF Instances
  <2>2. CASE ~ (IdleAt(c, n, p) > 0)
    <3>1. CanStart(c, p)
      BY <2>2 DEF Preferred, Candidates
    <3>2. Active(c, p) + Idle(c, p) < c.pools[p].cfg.max /\ c.pools[p].cfg.max \in Nat
      BY <1>1, <1>2, <1>7, <3>1, ClusterParts DEF CanStart, Below, PoolRec, Config
    <3>3. Idle(d, p) = Idle(c, p)
      BY ONLY <1>2, <1>4, <1>5, <2>2
    <3>4. Instances(d, p) <= c.pools[p].cfg.max
      BY ONLY <1>3, <1>5, <3>2, <3>3 DEF Instances
    <3> QED BY <1>2, <3>4
  <2> QED BY <2>1, <2>2
<1> QED BY <1>6, <1>7 DEF Limited

\* So does schedule_queued.
LEMMA SweepLimited ==
  ASSUME NEW c \in Cluster
  PROVE  Limited(c, ScheduleQueued(c))
<1> DEFINE good == {d \in Cluster : Limited(c, d)}
           S == [k \in 0..MaxExec |-> good]
<1>1. \A k \in Exec : k \in 0..MaxExec /\ k - 1 \in 0..MaxExec
  BY SchedulerAssumption DEF Exec
<1>2. 0 \in 0..MaxExec /\ MaxExec \in 0..MaxExec
  BY SchedulerAssumption
<1>3. ASSUME NEW k \in Exec, NEW d \in good PROVE TurnOf(d, k) \in good
  <2>1. CASE ~ IsQueued(d, k)
    BY <1>3, <2>1 DEF TurnOf
  <2>2. CASE IsQueued(d, k) /\ Schedule(d, k) = d
    BY <1>3, <2>2 DEF TurnOf
  <2>3. CASE IsQueued(d, k) /\ Schedule(d, k) # d
    <3> DEFINE p == d.execs[k].pool
    <3>1. PICK n \in Preferred(d, p) :
            /\ n \in Node /\ d.nodes[n] # None /\ Schedule(d, k) = Place(d, k, n)
            /\ Schedulable(d, p)
      BY <2>3, ScheduleCases
    <3>2. d.pools[p] # None
      BY <3>1 DEF Schedulable
    <3> DEFINE t == Place(d, k, n)
    <3>3. t = Place(d, k, n) /\ p = d.execs[k].pool
      OBVIOUS
    <3> HIDE DEF t
    <3>4. t \in Cluster /\ t.pools = d.pools
      BY <2>3, <3>1, <3>2, <3>3, PlaceLemma, PlaceParts
    <3> HIDE DEF p
    <3>5. Limited(d, t)
      BY <2>3, <3>1, <3>3, PlaceLimited
    <3>6. Limited(c, t)
      BY <3>4, <3>5, LimitedTransitive
    <3> QED BY <2>3, <3>1, <3>3, <3>4, <3>6 DEF TurnOf
  <2> QED BY <2>1, <2>2, <2>3
<1>4. c \in good
  <2>1. Limited(c, c)
    <3>1. \A n \in Node, p \in Pool : IdleAt(c, n, p) \in Nat
      BY HeldType
    <3>2. Shrinks(c, c)
      BY <3>1 DEF Shrinks
    <3> QED BY <3>2, ShrinksLimited
  <2> QED BY <2>1
<1> HIDE DEF good
<1>5. c \in S[0] /\ \A k \in Exec : \A d \in S[k-1] : TurnOf(d, k) \in S[k]
  BY <1>1, <1>2, <1>3, <1>4
<1>6. ScheduleQueued(c) \in S[MaxExec]
  <2> HIDE DEF S
  <2> QED BY <1>5, SweepInduction
<1> QED BY <1>2, <1>6 DEF good

\* A handler that takes no pool past its limit and may call schedule_queued.
Within == \E d \in Cluster :
            Limited(cluster, d) /\ (cluster' = d \/ cluster' = ScheduleQueued(d))

LEMMA WithinLimited ==
  ASSUME cluster \in Cluster, Within
  PROVE  Limited(cluster, cluster')
<1>1. PICK d \in Cluster :
        Limited(cluster, d) /\ (cluster' = d \/ cluster' = ScheduleQueued(d))
  BY DEF Within
<1>2. /\ Limited(d, ScheduleQueued(d)) /\ ScheduleQueued(d) \in Cluster
      /\ ScheduleQueued(d).pools = d.pools
  BY SweepLimited, SweepLemma DEF Placed
<1>3. Limited(cluster, ScheduleQueued(d))
  BY <1>1, <1>2, LimitedTransitive
<1> QED BY <1>1, <1>3

LEMMA ShrinksWithin ==
  ASSUME cluster \in Cluster, NEW d \in Cluster, Shrinks(cluster, d),
         cluster' = d \/ cluster' = ScheduleQueued(d)
  PROVE  Within
BY ShrinksLimited DEF Within

LEMMA UntouchedShrinks ==
  ASSUME NEW c \in Cluster, NEW d \in Cluster, Untouched(c, d)
  PROVE  Shrinks(c, d)
<1>1. \A p \in Pool : ActiveOn(d, p) = ActiveOn(c, p)
  BY DEF Untouched, ActiveOn, Holds
<1>2. \A n \in Node, p \in Pool : IdleAt(c, n, p) \in Nat
  BY HeldType
<1>3. \A n \in Node, p \in Pool : IdleAt(d, n, p) = 0 \/ IdleAt(d, n, p) = IdleAt(c, n, p)
  BY DEF Untouched, IdleAt
<1> QED BY <1>1, <1>2, <1>3 DEF Shrinks

LEMMA QuietWithin ==
  ASSUME cluster \in Cluster, Quiet
  PROVE  Within
BY UntouchedShrinks, ShrinksWithin DEF Quiet

LEMMA SameMicroVMs ==
  ASSUME NEW c \in Cluster, NEW d \in Cluster,
         d.nodes = c.nodes, \A p \in Pool : ActiveOn(d, p) \subseteq ActiveOn(c, p)
  PROVE  Shrinks(c, d)
<1>1. \A n \in Node, p \in Pool : IdleAt(c, n, p) \in Nat
  BY HeldType
<1>2. \A n \in Node, p \in Pool : IdleAt(d, n, p) = IdleAt(c, n, p)
  BY DEF IdleAt
<1> QED BY <1>1, <1>2 DEF Shrinks

LEMMA DropPoolShrinks ==
  ASSUME NEW c \in Cluster, NEW p \in Pool, NEW d, d = DropPool(c, p)
  PROVE  d \in Cluster /\ Shrinks(c, d)
<1>1. /\ d \in Cluster /\ d.execs = c.execs
      /\ d.pools = [c.pools EXCEPT ![p] = None]
      /\ \A n \in Node : d.nodes[n] = None <=> c.nodes[n] = None
  BY DropPoolLemma
<1>2. \A y \in Pool : ActiveOn(d, y) = ActiveOn(c, y)
  BY <1>1 DEF ActiveOn, Holds
<1>3. \A n \in Node, y \in Pool : IdleAt(c, n, y) \in Nat
  BY HeldType
<1>4. CASE c.pools[p] = None
  BY <1>1, <1>2, <1>3, <1>4 DEF DropPool, Shrinks
<1>5. CASE c.pools[p] # None
  <2> SUFFICES ASSUME NEW n \in Node, NEW y \in Pool PROVE IdleAt(d, n, y) <= IdleAt(c, n, y)
    BY <1>1, <1>2 DEF Shrinks
  <2>1. CASE c.nodes[n] = None
    BY <1>1, <1>3, <2>1 DEF IdleAt
  <2>2. CASE c.nodes[n] # None
    <3>1. d.nodes[n].idle = [c.nodes[n].idle EXCEPT ![p] = 0] /\ c.nodes[n].idle \in [Pool -> Nat]
      BY <1>5, <2>2, DropPoolNodes, ClusterParts DEF NodeRec
    <3>2. d.nodes[n].idle[y] <= c.nodes[n].idle[y]
      BY <3>1
    <3> QED BY <1>1, <2>2, <3>2 DEF IdleAt
  <2> QED BY <2>1, <2>2
<1> QED BY <1>4, <1>5

LEMMA RestartShrinks ==
  ASSUME NEW c \in Cluster, PoolsExist(c),
         NEW i \in Env, NEW old \in Pool, NEW new \in Pool, NEW cfg \in Config, old # new,
         NEW d, d = RestartPool(c, i, old, new, cfg)
  PROVE  d \in Cluster /\ Shrinks(c, d)
<1> DEFINE a == Requeue(c, old, new)
           b == RetirePool(a, old)
<1>1. a = Requeue(c, old, new) /\ b = RetirePool(a, old)
  OBVIOUS
<1>2. d = [b EXCEPT !.pools[new] = [env |-> i, cfg |-> cfg], !.envs[i] = [pool |-> new, cfg |-> cfg]]
  BY DEF RestartPool
<1> HIDE DEF a, b
<1>3. /\ a \in Cluster /\ a.pools = c.pools
      /\ \A n \in Node : a.nodes[n] = None <=> c.nodes[n] = None
      /\ \A e \in Exec :
           IF e \in Movable(c, old) THEN a.execs[e] # None /\ a.execs[e].status = "queued"
                                    ELSE a.execs[e] = c.execs[e]
  BY <1>1, RequeueLemma
<1>4. Shrinks(c, a)
  <2>1. \A y \in Pool : ActiveOn(a, y) \subseteq ActiveOn(c, y)
    BY <1>3 DEF ActiveOn, Holds
  <2>2. \A n \in Node, y \in Pool : IdleAt(a, n, y) = IdleAt(c, n, y) /\ IdleAt(c, n, y) \in Nat
    <3> DEFINE size == IF c.pools[old] = None THEN 0 ELSE c.pools[old].cfg.size
    <3>0. size = IF c.pools[old] = None THEN 0 ELSE c.pools[old].cfg.size
      OBVIOUS
    <3> HIDE DEF size
    <3> DEFINE freed(n) == {e \in Movable(c, old) :
                              c.execs[e].status = "assigned" /\ c.execs[e].node = n}
    <3>1. ASSUME NEW n \in Node, c.nodes[n] # None
          PROVE  /\ a.nodes[n].idle = c.nodes[n].idle
                 /\ a.nodes[n].used = Monus(c.nodes[n].used, size * Cardinality(freed(n)))
      BY <1>1, <3>0, <3>1, RequeueNodes
    <3> QED BY <1>3, <3>1, HeldType DEF IdleAt
  <2>3. \A n \in Node, y \in Pool : IdleAt(a, n, y) <= IdleAt(c, n, y)
    BY <2>2
  <2> QED BY <2>1, <2>3 DEF Shrinks
<1>5. b \in Cluster /\ Shrinks(a, b)
  <2>1. CASE Running(a, old)
    <3>1. a.pools[old] # None
      <4>1. PICK e \in Exec : a.execs[e] # None /\ a.execs[e].pool = old /\ a.execs[e].status = "running"
        BY <2>1 DEF Running
      <4>2. a.execs[e] = c.execs[e]
        BY <1>3, <4>1
      <4> QED BY <1>3, <4>1, <4>2 DEF PoolsExist
    <3>2. /\ b \in Cluster /\ b.execs = a.execs
          /\ \A y \in Pool \ {old} : b.pools[y] = a.pools[y]
          /\ b.pools[old] # None <=> Running(a, old)
          /\ b.pools[old] # None => b.pools[old].cfg = [a.pools[old].cfg EXCEPT !.warm = 0]
      <4>1. Running(a, old) => a.pools[old] # None
        BY <3>1
      <4> QED BY <1>1, <1>3, <4>1, RetireLemma
    <3>3. b = [a EXCEPT !.pools[old].cfg.warm = 0]
      BY <1>1, <2>1 DEF RetirePool, Running
    <3>4. b.nodes = a.nodes
      BY <1>3, <3>3 DEF Cluster
    <3>5. \A y \in Pool : ActiveOn(b, y) \subseteq ActiveOn(a, y)
      BY <3>2 DEF ActiveOn, Holds
    <3> QED BY <1>3, <3>2, <3>4, <3>5, SameMicroVMs
  <2>2. CASE ~ Running(a, old)
    <3>1. b = DropPool(a, old)
      BY <1>1, <2>2 DEF RetirePool, Running
    <3> QED BY <1>3, <3>1, DropPoolShrinks
  <2> QED BY <2>1, <2>2
<1>6. d \in Cluster
  <2>1. Restarted(c, i, old, new, cfg, d)
    BY RestartParts
  <2> QED BY <2>1 DEF Restarted
<1>7. d.nodes = b.nodes /\ d.execs = b.execs
  BY <1>2, <1>5 DEF Cluster
<1>8. Shrinks(b, d)
  <2>1. \A y \in Pool : ActiveOn(d, y) \subseteq ActiveOn(b, y)
    BY <1>7 DEF ActiveOn, Holds
  <2> QED BY <1>5, <1>6, <1>7, <2>1, SameMicroVMs
<1>9. Shrinks(c, b)
  BY <1>3, <1>4, <1>5, ShrinksTransitive
<1> QED BY <1>5, <1>6, <1>8, <1>9, ShrinksTransitive

\* Handlers that change pools, environments and requests only, or nothing.
LEMMA PoolsWithin ==
  ASSUME IInv, NEW d \in Cluster, d.nodes = cluster.nodes, d.execs = cluster.execs,
         cluster' = d \/ cluster' = ScheduleQueued(d)
  PROVE  Within
<1>1. \A p \in Pool : ActiveOn(d, p) \subseteq ActiveOn(cluster, p)
  BY DEF ActiveOn, Holds
<1>2. cluster \in Cluster
  BY DEF IInv, Sound, Typed
<1> QED BY <1>1, <1>2, SameMicroVMs, ShrinksWithin

LEMMA CreatePoolWithin ==
  ASSUME IInv, NEW p \in UserPool, NEW cfg \in PoolConfig, CreatePool(p, cfg)
  PROVE  Within
<1>1. cluster \in Cluster /\ cluster' \in Cluster
  BY CreatePoolKept, ControllerAssumption DEF IInv, Sound, Typed, Kept
<1>2. cluster'.execs = cluster.execs /\ cluster'.nodes = cluster.nodes
  BY <1>1 DEF CreatePool, Cluster
<1> QED BY <1>1, <1>2, PoolsWithin

LEMMA DeletePoolWithin ==
  ASSUME IInv, NEW p \in Pool, DeletePool(p)
  PROVE  Within
<1>1. cluster \in Cluster /\ cluster' = DropPool(cluster, p)
  BY DEF IInv, Sound, Typed, DeletePool
<1>2. cluster' \in Cluster /\ Shrinks(cluster, cluster')
  BY <1>1, DropPoolShrinks
<1> QED BY <1>1, <1>2, ShrinksWithin

LEMMA CommitCreateWithin ==
  ASSUME IInv, NEW r \in Req, CommitCreate(r)
  PROVE  Within
<1>1. cluster \in Cluster /\ cluster' \in Cluster
  BY CommitCreateKept DEF IInv, Sound, Typed, Kept
<1>2. cluster'.execs = cluster.execs /\ cluster'.nodes = cluster.nodes
  BY <1>1 DEF CommitCreate, Cluster
<1> QED BY <1>1, <1>2, PoolsWithin

LEMMA RestartWithin ==
  ASSUME IInv, NEW i \in Env, NEW old \in Pool, NEW cfg \in Config,
         Claims(cluster, requests, i, old), FreshPools # {},
         NEW new, new = NewId(FreshPools),
         cluster' = ScheduleQueued(RestartPool(cluster, i, old, new, cfg))
  PROVE  Within
<1> DEFINE d == RestartPool(cluster, i, old, new, cfg)
<1>1. cluster \in Cluster /\ PoolsExist(cluster)
  BY DEF IInv, Sound, Typed
<1>2. new \in Pool /\ \A j \in Env : ~ Claims(cluster, requests, j, new)
  <2>1. FreshPools \subseteq Nat
    BY SchedulerAssumption DEF FreshPools, Pool
  <2>2. new \in FreshPools
    BY <2>1, NewIdLemma
  <2> QED BY <2>2 DEF FreshPools
<1>3. old # new
  BY <1>2
<1>4. d = RestartPool(cluster, i, old, new, cfg)
  OBVIOUS
<1> HIDE DEF d
<1>5. d \in Cluster /\ Shrinks(cluster, d)
  BY <1>1, <1>2, <1>3, <1>4, RestartShrinks
<1> QED BY <1>1, <1>4, <1>5, ShrinksWithin

LEMMA RestartEnvironmentWithin ==
  ASSUME IInv, NEW i \in Env, RestartEnvironment(i)
  PROVE  Within
<1> DEFINE env == cluster.envs[i]
<1>1. env \in EnvRec /\ env # None
  BY ClusterParts DEF IInv, Sound, Typed, RestartEnvironment
<1>2. env.pool \in Pool /\ env.cfg \in Config /\ Claims(cluster, requests, i, env.pool)
  BY <1>1 DEF EnvRec, Claims
<1>3. /\ cluster' = ScheduleQueued(RestartPool(cluster, i, env.pool, NewId(FreshPools), env.cfg))
      /\ FreshPools # {}
  BY DEF RestartEnvironment
<1> HIDE DEF env
<1> QED BY <1>2, <1>3, RestartWithin

LEMMA CommitUpdateWithin ==
  ASSUME IInv, NEW r \in Req, CommitUpdate(r)
  PROVE  Within
<1> DEFINE i == requests[r].env
           old == requests[r].old
           cfg == requests[r].cfg
           v == [pool |-> old.pool, cfg |-> cfg]
           x == [env |-> i, cfg |-> cfg]
           d == [cluster EXCEPT !.pools[old.pool] = x, !.envs[i] = v]
<1>1. cluster \in Cluster
  BY DEF IInv, Sound, Typed
<1>2. /\ i \in Env /\ old \in EnvRec /\ old.pool \in Pool /\ cfg \in Config
      /\ Claims(cluster, requests, i, old.pool)
  <2>1. requests[r] \in CreateReq \cup UpdateReq
    BY DEF IInv, Sound, Typed, CommitUpdate
  <2>2. requests[r] \in UpdateReq
    BY <2>1 DEF CreateReq, CommitUpdate
  <2>3. i \in Env /\ old \in EnvRec /\ old.pool \in Pool /\ cfg \in Config
    BY <2>2 DEF UpdateReq, EnvRec
  <2> QED BY <2>3 DEF Claims, CommitUpdate
<1>3. CASE Rebuilds(old.cfg, cfg)
  <2>1. /\ cluster' = ScheduleQueued(RestartPool(cluster, i, old.pool, NewId(FreshPools), cfg))
        /\ FreshPools # {}
    BY <1>3 DEF CommitUpdate
  <2> HIDE DEF i, old, cfg
  <2> QED BY <1>2, <2>1, RestartWithin
<1>4. CASE ~ Rebuilds(old.cfg, cfg)
  <2>1. cluster' = ScheduleQueued(d)
    BY <1>4 DEF CommitUpdate
  <2>2. x \in PoolRec /\ v \in EnvRec
    BY <1>2 DEF PoolRec, EnvRec
  <2> HIDE DEF i, old, cfg, v, x
  <2>3. /\ [cluster.pools EXCEPT ![old.pool] = x] \in [Pool -> PoolRec \cup {None}]
        /\ [cluster.envs EXCEPT ![i] = v] \in [Env -> EnvRec \cup {None}]
    BY <1>1, <2>2 DEF Cluster
  <2> DEFINE g == [cluster EXCEPT !.pools = [cluster.pools EXCEPT ![old.pool] = x]]
  <2>4. g \in Cluster
    BY <1>1, <2>3, ClusterUpdates
  <2>5. /\ d = [g EXCEPT !.envs = [cluster.envs EXCEPT ![i] = v]]
        /\ d.nodes = cluster.nodes /\ d.execs = cluster.execs
    BY <1>1 DEF Cluster
  <2> HIDE DEF g, d
  <2>6. d \in Cluster
    BY <2>3, <2>4, <2>5, ClusterUpdates
  <2> QED BY <2>1, <2>5, <2>6, PoolsWithin
<1> QED BY <1>3, <1>4

LEMMA DeleteEnvironmentWithin ==
  ASSUME IInv, NEW i \in Env, DeleteEnvironment(i)
  PROVE  Within
<1> DEFINE env == cluster.envs[i]
           gone == IF env.cfg.artifact # None /\ LastUser(i) THEN {env.cfg.artifact} ELSE {}
           b == DropPool(cluster, env.pool)
           e == [b EXCEPT !.envs[i] = None]
<1>1. cluster \in Cluster /\ cluster' \in Cluster
  BY DeleteEnvironmentKept DEF IInv, Sound, Typed, Kept
<1>2. env.pool \in Pool /\ b = DropPool(cluster, env.pool)
  BY EmptiedPool
<1>3. cluster' = [e EXCEPT !.nodes = [n \in Node |->
                    IF e.nodes[n] = None THEN None
                    ELSE [e.nodes[n] EXCEPT !.artifacts = @ \ gone]]]
  BY DEF DeleteEnvironment
<1> HIDE DEF b, env, gone
<1>4. b \in Cluster /\ Shrinks(cluster, b)
  BY <1>1, <1>2, DropPoolShrinks
<1>5. /\ cluster'.execs = b.execs
      /\ \A n \in Node : cluster'.nodes[n] =
           IF b.nodes[n] = None THEN None
           ELSE [b.nodes[n] EXCEPT !.artifacts = b.nodes[n].artifacts \ gone]
  BY <1>3, <1>4 DEF Cluster
<1>6. Shrinks(b, cluster')
  <2>1. \A p \in Pool : ActiveOn(cluster', p) = ActiveOn(b, p)
    BY <1>5 DEF ActiveOn, Holds
  <2>2. ASSUME NEW n \in Node, NEW p \in Pool
        PROVE  IdleAt(cluster', n, p) = IdleAt(b, n, p) \/ IdleAt(cluster', n, p) = 0
    <3>1. CASE b.nodes[n] = None
      BY <1>5, <3>1 DEF IdleAt
    <3>2. CASE b.nodes[n] # None
      <4>1. cluster'.nodes[n].idle = b.nodes[n].idle
        <5>1. b.nodes[n] \in NodeRec
          BY <1>4, <3>2, ClusterParts
        <5>2. cluster'.nodes[n] = [b.nodes[n] EXCEPT !.artifacts = b.nodes[n].artifacts \ gone]
          BY <1>5, <3>2
        <5> QED BY ONLY <5>1, <5>2 DEF NodeRec
      <4> QED BY <3>2, <4>1 DEF IdleAt
    <3> QED BY <3>1, <3>2
  <2>3. \A n \in Node, p \in Pool : IdleAt(b, n, p) \in Nat
    BY <1>4, HeldType
  <2> QED BY <2>1, <2>2, <2>3 DEF Shrinks
<1>7. Shrinks(cluster, cluster')
  BY <1>1, <1>4, <1>6, ShrinksTransitive
<1> QED BY <1>1, <1>7, ShrinksWithin

\* An agent that starts has no idle MicroVM.
LEMMA StartAgentWithin ==
  ASSUME IInv, NEW n \in Node, StartAgent(n)
  PROVE  Within
<1> DEFINE x == NewNode(n)
           known == IF cluster.nodes[n] # None THEN cluster
                    ELSE [cluster EXCEPT !.nodes = [cluster.nodes EXCEPT ![n] = x]]
           reset == ResetIdle(known, n)
           d == Refresh(reset, n)
<1>1. cluster \in Cluster
  BY DEF IInv, Sound, Typed
<1>2. x \in NodeRec /\ x # None
  <2>1. x \in NodeRec
    BY ControllerAssumption DEF NewNode, NodeRec
  <2> QED BY <2>1, Apart
<1>3. cluster' = ScheduleQueued(d)
  BY <1>1 DEF StartAgent, Cluster
<1> HIDE DEF x
<1>4. /\ known \in Cluster /\ SameWork(cluster, known) /\ known.nodes[n] # None
      /\ \A m \in Node : m # n => known.nodes[m] = cluster.nodes[m]
  <2>1. CASE cluster.nodes[n] # None
    BY <1>1, <2>1 DEF SameWork
  <2>2. CASE cluster.nodes[n] = None
    <3> DEFINE g == [cluster EXCEPT !.nodes = [cluster.nodes EXCEPT ![n] = x]]
    <3>1. g \in Cluster /\ SameWork(cluster, g)
      BY <1>1, <1>2, NodeChanged
    <3>2. \A m \in Node : g.nodes[m] = IF m = n THEN x ELSE cluster.nodes[m]
      BY <1>1 DEF Cluster
    <3>3. known = g
      BY <2>2
    <3> HIDE DEF g, known
    <3> QED BY <1>2, <3>1, <3>2, <3>3
  <2> QED BY <2>1, <2>2
<1> HIDE DEF known
<1>5. /\ reset \in Cluster /\ SameWork(known, reset)
      /\ reset.nodes[n].idle = [p \in Pool |-> 0]
      /\ \A m \in Node : m # n => reset.nodes[m] = known.nodes[m]
  <2>1. reset \in Cluster /\ SameWork(known, reset)
    BY <1>4, ResetIdleLemma
  <2> DEFINE held == [p \in Pool |-> IF known.pools[p] = None THEN 0
                                     ELSE known.pools[p].cfg.size * known.nodes[n].idle[p]]
             y == [known.nodes[n] EXCEPT !.used = Monus(known.nodes[n].used, Total(held, NumPools)),
                                         !.idle = [p \in Pool |-> 0]]
  <2>2. known.nodes[n] \in NodeRec
    BY <1>4, ClusterParts
  <2>3. reset = [known EXCEPT !.nodes = [known.nodes EXCEPT ![n] = y]]
    BY <1>4, <2>2 DEF ResetIdle, Cluster, NodeRec
  <2>4. y.idle = [p \in Pool |-> 0]
    <3> HIDE DEF held
    <3> QED BY <2>2 DEF NodeRec
  <2> HIDE DEF y, reset
  <2>5. \A m \in Node : reset.nodes[m] = IF m = n THEN y ELSE known.nodes[m]
    BY <1>4, <2>3 DEF Cluster
  <2> QED BY <2>1, <2>4, <2>5
<1> HIDE DEF reset
<1>6. reset.nodes[n] # None
  BY <1>4, <1>5 DEF SameWork
<1>7. Shrinks(cluster, reset)
  <2>1. \A p \in Pool : ActiveOn(reset, p) = ActiveOn(cluster, p)
    BY <1>4, <1>5 DEF SameWork, ActiveOn, Holds
  <2>2. \A m \in Node, p \in Pool :
          IdleAt(reset, m, p) = IdleAt(cluster, m, p) \/ IdleAt(reset, m, p) = 0
    BY <1>4, <1>5 DEF IdleAt
  <2>3. \A m \in Node, p \in Pool : IdleAt(cluster, m, p) \in Nat
    BY <1>1, HeldType
  <2> QED BY <2>1, <2>2, <2>3 DEF Shrinks
<1>8. d \in Cluster /\ Untouched(reset, d)
  BY <1>5, <1>6, RefreshLemma, RefreshUntouched
<1> HIDE DEF d
<1>9. Shrinks(cluster, d)
  <2>1. Shrinks(reset, d)
    BY <1>5, <1>8, UntouchedShrinks
  <2> QED BY <1>1, <1>5, <1>7, <1>8, <2>1, ShrinksTransitive
<1> QED BY <1>1, <1>3, <1>8, <1>9, ShrinksWithin

\* add_warm_instance keeps to the limit, remove_idle_instance shrinks the pool.
LEMMA WarmWithin ==
  ASSUME IInv, NEW n \in Node, NEW p \in Pool,
         AddWarmInstance(n, p) \/ RemoveIdleInstance(n, p)
  PROVE  Within
<1>1. cluster \in Cluster /\ cluster.nodes[n] # None /\ cluster.pools[p] # None
  BY DEF IInv, Sound, Typed, AddWarmInstance, RemoveIdleInstance, WarmNeeded, WarmNodes,
         IdleSurplus, IdleAt
<1> DEFINE size == cluster.pools[p].cfg.size
<1>2. size = cluster.pools[p].cfg.size
  OBVIOUS
<1> HIDE DEF size
<1>3. ASSUME NEW d \in Cluster, d.execs = cluster.execs,
             \A m \in Node, y \in Pool :
               m # n \/ y # p => IdleAt(d, m, y) = IdleAt(cluster, m, y)
      PROVE  /\ \A y \in Pool : y # p => Instances(d, y) <= Instances(cluster, y)
             /\ Active(d, p) = Active(cluster, p)
             /\ Idle(d, p) + IdleAt(cluster, n, p) = Idle(cluster, p) + IdleAt(d, n, p)
  <2>1. \A y \in Pool : ActiveOn(d, y) = ActiveOn(cluster, y)
    BY <1>3 DEF ActiveOn, Holds
  <2>2. ASSUME NEW y \in Pool, y # p PROVE Instances(d, y) <= Instances(cluster, y)
    <3>1. \A m \in Node : IdleAt(d, m, y) <= IdleAt(cluster, m, y)
      <4>1. \A m \in Node :
              IdleAt(d, m, y) = IdleAt(cluster, m, y) /\ IdleAt(cluster, m, y) \in Nat
        BY <1>1, <1>3, <2>2, HeldType
      <4> QED BY <4>1
    <3> QED BY <1>1, <1>3, <2>1, <3>1, PoolShrinks
  <2>3. Idle(d, p) + IdleAt(cluster, n, p) = Idle(cluster, p) + IdleAt(d, n, p)
    BY <1>1, <1>3, IdleChanged
  <2> QED BY <2>1, <2>2, <2>3 DEF Active
<1>4. Active(cluster, p) \in Nat /\ Idle(cluster, p) \in Nat /\ IdleAt(cluster, n, p) \in Nat
  BY <1>1, InstancesType, HeldType
<1>5. CASE AddWarmInstance(n, p)
  <2> DEFINE d == AddWarm(cluster, n, p)
  <2>1. d = AddWarm(cluster, n, p) /\ cluster' = ScheduleQueued(d) /\ CanStart(cluster, p)
    BY <1>5 DEF AddWarmInstance, WarmNeeded
  <2> HIDE DEF d
  <2>2. d \in Cluster /\ SameWork(cluster, d)
    BY <1>1, <2>1, AddWarmLemma
  <2>4. /\ d.pools = cluster.pools /\ d.execs = cluster.execs
        /\ \A m \in Node, y \in Pool :
             m # n \/ y # p => IdleAt(d, m, y) = IdleAt(cluster, m, y)
        /\ IdleAt(d, n, p) = IdleAt(cluster, n, p) + 1
    BY <1>1, <1>2, <2>1, WarmAdded
  <2>5. /\ \A y \in Pool : y # p => Instances(d, y) <= Instances(cluster, y)
        /\ Active(d, p) = Active(cluster, p)
        /\ Idle(d, p) + IdleAt(cluster, n, p) = Idle(cluster, p) + IdleAt(d, n, p)
    BY <1>3, <2>2, <2>4
  <2>6. Instances(d, p) = Active(cluster, p) + Idle(cluster, p) + 1
    <3>1. Idle(d, p) \in Nat
      BY <2>2, InstancesType
    <3> QED BY <1>4, <2>4, <2>5, <3>1 DEF Instances
  <2>7. d.pools[p].cfg.max # None => Instances(d, p) <= d.pools[p].cfg.max
    <3>1. cluster.pools[p].cfg.max # None => cluster.pools[p].cfg.max \in Nat
      BY <1>1, ClusterParts DEF PoolRec, Config
    <3> QED BY <1>4, <2>1, <2>4, <2>6, <3>1 DEF CanStart, Below
  <2>8. Limited(cluster, d)
    BY <2>5, <2>7 DEF Limited
  <2> QED BY <2>1, <2>2, <2>8 DEF Within
<1>6. CASE RemoveIdleInstance(n, p)
  <2> DEFINE d == RemoveIdle(cluster, n, p)
  <2>1. /\ d = RemoveIdle(cluster, n, p) /\ cluster' = ScheduleQueued(d)
        /\ IdleAt(cluster, n, p) > 0
    BY <1>6 DEF RemoveIdleInstance, IdleSurplus
  <2>2. d \in Cluster /\ SameWork(cluster, d)
    BY <1>1, <1>6, RemoveIdleLemma DEF RemoveIdleInstance
  <2> HIDE DEF d
  <2>3. /\ d.execs = cluster.execs
        /\ \A m \in Node, y \in Pool :
             m # n \/ y # p => IdleAt(d, m, y) = IdleAt(cluster, m, y)
        /\ IdleAt(cluster, n, p) = IdleAt(d, n, p) + 1
    BY <1>1, <1>2, <2>1, WarmRemoved
  <2>4. /\ \A y \in Pool : y # p => Instances(d, y) <= Instances(cluster, y)
        /\ Active(d, p) = Active(cluster, p)
        /\ Idle(d, p) + IdleAt(cluster, n, p) = Idle(cluster, p) + IdleAt(d, n, p)
    BY <1>3, <2>2, <2>3
  <2>5. Instances(d, p) <= Instances(cluster, p)
    <3>1. Idle(d, p) \in Nat /\ IdleAt(d, n, p) \in Nat
      BY <2>2, InstancesType, HeldType
    <3> QED BY <1>4, <2>3, <2>4, <3>1 DEF Instances
  <2>6. Limited(cluster, d)
    BY <2>4, <2>5 DEF Limited
  <2> QED BY <2>1, <2>2, <2>6 DEF Within
<1> QED BY <1>5, <1>6

LEMMA CreateExecutionWithin ==
  ASSUME IInv, NEW e \in Exec, NEW i \in Env, NEW p \in Pool, NEW queue \in BOOLEAN,
         CreateExecution(e, i, p, queue)
  PROVE  Within
<1> DEFINE x == [status |-> "queued", pool |-> p, node |-> None, env |-> i]
           d == [cluster EXCEPT !.execs[e] = x]
<1>1. /\ cluster \in Cluster /\ cluster.execs[e] = None /\ cluster' = Schedule(d, e)
  BY DEF IInv, Sound, Typed, CreateExecution
<1>2. x \in ExecRec /\ x # None /\ x.status = "queued" /\ x.pool = p
  <2>1. x \in ExecRec
    BY DEF ExecRec
  <2> QED BY <2>1, Apart
<1>3. d = [cluster EXCEPT !.execs = [cluster.execs EXCEPT ![e] = x]]
  BY <1>1 DEF Cluster
<1> HIDE DEF x
<1>4. /\ d \in Cluster /\ d.nodes = cluster.nodes
      /\ \A f \in Exec : d.execs[f] = IF f = e THEN x ELSE cluster.execs[f]
  <2> DEFINE g == [cluster EXCEPT !.execs = [cluster.execs EXCEPT ![e] = x]]
  <2>1. /\ g \in Cluster
        /\ g.pools = cluster.pools /\ g.envs = cluster.envs /\ g.nodes = cluster.nodes
        /\ \A f \in Exec : g.execs[f] = IF f = e THEN x ELSE cluster.execs[f]
    BY <1>1, <1>2, ExecChanged
  <2> QED BY <1>3, <2>1
<1> HIDE DEF d
<1>5. IsQueued(d, e) /\ d.execs[e].pool = p
  BY <1>2, <1>4 DEF IsQueued
<1>6. Limited(cluster, d)
  <2>1. \A y \in Pool : ActiveOn(d, y) \subseteq ActiveOn(cluster, y)
    BY <1>1, <1>2, <1>4 DEF ActiveOn, Holds
  <2> QED BY <1>1, <1>4, <2>1, SameMicroVMs, ShrinksLimited
<1>7. CASE ~ Schedulable(d, p)
  <2>1. cluster' = d
    BY <1>1, <1>4, <1>5, <1>7, ScheduleCases
  <2> QED BY <1>4, <1>6, <2>1 DEF Within
<1>8. CASE Schedulable(d, p)
  <2>1. PICK n \in Preferred(d, p) :
          n \in Node /\ d.nodes[n] # None /\ cluster' = Place(d, e, n)
    BY <1>1, <1>4, <1>5, <1>8, ScheduleCases
  <2>2. d.pools[d.execs[e].pool] # None
    BY <1>5, <1>8 DEF Schedulable
  <2> DEFINE t == Place(d, e, n)
  <2>3. t = Place(d, e, n) /\ p = d.execs[e].pool
    BY <1>5
  <2> HIDE DEF t
  <2>4. t \in Cluster /\ t.pools = d.pools
    BY <1>4, <1>5, <2>1, <2>2, <2>3, PlaceLemma, PlaceParts
  <2>5. Limited(d, t)
    BY <1>4, <1>5, <1>8, <2>1, <2>3, PlaceLimited
  <2>6. Limited(cluster, t)
    BY <1>1, <1>4, <1>6, <2>4, <2>5, LimitedTransitive
  <2> QED BY <2>1, <2>3, <2>4, <2>6 DEF Within
<1> QED BY <1>7, <1>8

LEMMA NextWorkWithin ==
  ASSUME IInv, NEW n \in Node, NEW e \in Exec, NextWork(n, e)
  PROVE  Within
<1> DEFINE x == [cluster.execs[e] EXCEPT !.status = "running"]
<1>1. cluster \in Cluster /\ cluster.execs[e] \in ExecRec
  BY ClusterParts DEF IInv, Sound, Typed, NextWork
<1>2. x \in ExecRec /\ x.status = "running" /\ x.pool = cluster.execs[e].pool
  BY <1>1 DEF ExecRec
<1>3. cluster' = [cluster EXCEPT !.execs = [cluster.execs EXCEPT ![e] = x]]
  BY <1>1 DEF NextWork, Cluster
<1> HIDE DEF x
<1>4. /\ cluster' \in Cluster /\ cluster'.nodes = cluster.nodes
      /\ \A f \in Exec : cluster'.execs[f] = IF f = e THEN x ELSE cluster.execs[f]
  BY <1>1, <1>2, <1>3, ExecChanged
<1>5. \A y \in Pool : ActiveOn(cluster', y) \subseteq ActiveOn(cluster, y)
  <2>1. cluster.execs[e] # None /\ cluster.execs[e].status = "assigned"
    BY DEF NextWork
  <2> QED BY <1>2, <1>4, <2>1 DEF ActiveOn, Holds
<1> QED BY <1>1, <1>4, <1>5, SameMicroVMs, ShrinksWithin

\* The MicroVM of a finished execution becomes idle or goes: no pool gains one.
LEMMA FreedInstances ==
  ASSUME NEW c \in Cluster, NEW d \in Cluster, NEW e \in Exec, Works(c, e),
         NEW n \in Node, NEW p \in Pool, p = c.execs[e].pool,
         NEW keepIdle, NEW size, Freed(c, d, e, n, p, keepIdle, size)
  PROVE  \A y \in Pool : Instances(d, y) <= Instances(c, y)
<1>1. /\ \A f \in Exec : f # e => c.execs[f] = d.execs[f]
      /\ d.execs[e] = None
      /\ \A m \in Node, y \in Pool : m # n \/ y # p => IdleAt(d, m, y) = IdleAt(c, m, y)
      /\ IdleAt(d, n, p) = IdleAt(c, n, p) + 1 \/ IdleAt(d, n, p) = IdleAt(c, n, p)
  BY DEF Freed
<1>2. /\ Active(c, p) = Active(d, p) + 1
      /\ \A y \in Pool : y # p => ActiveOn(c, y) = ActiveOn(d, y)
  <2>1. ~ Works(d, e)
    BY <1>1 DEF Works
  <2> QED BY <1>1, <2>1, ActiveAdded
<1>3. Idle(d, p) + IdleAt(c, n, p) = Idle(c, p) + IdleAt(d, n, p)
  BY <1>1, IdleChanged
<1>4. /\ Idle(c, p) \in Nat /\ Idle(d, p) \in Nat /\ Active(d, p) \in Nat
      /\ IdleAt(c, n, p) \in Nat
  BY InstancesType, HeldType
<1>5. Instances(d, p) <= Instances(c, p)
  BY <1>1, <1>2, <1>3, <1>4 DEF Instances
<1>6. ASSUME NEW y \in Pool, y # p PROVE Instances(d, y) <= Instances(c, y)
  <2>1. \A m \in Node : IdleAt(d, m, y) = IdleAt(c, m, y) /\ IdleAt(c, m, y) \in Nat
    BY <1>1, <1>6, HeldType
  <2>2. \A m \in Node : IdleAt(d, m, y) <= IdleAt(c, m, y)
    BY <2>1
  <2> QED BY <1>2, <1>6, <2>2, PoolShrinks
<1> QED BY <1>5, <1>6

LEMMA CompleteExecutionWithin ==
  ASSUME IInv, NEW n \in Node, NEW e \in Exec, NEW keepIdle \in BOOLEAN,
         CompleteExecution(n, e, keepIdle)
  PROVE  Within
<1> DEFINE p == cluster.execs[e].pool
           size == cluster.pools[p].cfg.size
           b == Release(cluster, e, keepIdle)
           freed == [b EXCEPT !.execs[e] = None]
           d == IF Stale(freed, p) THEN DropPool(freed, p) ELSE freed
<1>1. /\ cluster \in Cluster /\ PoolsExist(cluster) /\ NodesKnown(cluster)
      /\ <<n, e>> \in runs
  BY DEF IInv, Sound, Typed, CompleteExecution
<1>2. /\ cluster.execs[e] # None /\ cluster.execs[e].node = n
      /\ cluster.execs[e].status = "running"
  BY <1>1 DEF IInv, Sound, Expected
<1>3. cluster' = ScheduleQueued(d)
  BY <1>2 DEF CompleteExecution, Finish
<1>4. /\ p \in Pool /\ p = cluster.execs[e].pool /\ cluster.pools[p] # None
      /\ cluster.nodes[n] # None /\ Works(cluster, e)
  <2>1. p \in Pool
    BY <1>1, <1>2, ClusterParts DEF ExecRec
  <2> QED BY <1>1, <1>2, <2>1 DEF PoolsExist, NodesKnown, Works, IsQueued
<1>5. b \in Cluster
  BY <1>1, <1>2, ReleaseLemma
<1>6. freed \in Cluster
  <2> HIDE DEF b
  <2> DEFINE g == [b EXCEPT !.execs = [b.execs EXCEPT ![e] = None]]
  <2>1. g \in Cluster
    BY <1>5, ExecChanged
  <2>2. freed = g
    BY <1>5 DEF Cluster
  <2> QED BY <2>1, <2>2
<1>7. /\ freed = [Release(cluster, e, keepIdle) EXCEPT !.execs[e] = None]
      /\ size = cluster.pools[p].cfg.size
  OBVIOUS
<1>8. d = IF Stale(freed, p) THEN DropPool(freed, p) ELSE freed
  OBVIOUS
<1> HIDE DEF p, b, freed, d, size
<1>9. Freed(cluster, freed, e, n, p, keepIdle, size)
  BY <1>1, <1>2, <1>4, <1>7, ReleaseCounts
<1>10. \A y \in Pool : Instances(freed, y) <= Instances(cluster, y)
  BY <1>1, <1>4, <1>6, <1>9, FreedInstances
<1>11. d \in Cluster /\ Limited(cluster, d)
  <2>1. CASE Stale(freed, p)
    <3>1. d = DropPool(freed, p)
      BY <1>8, <2>1
    <3>2. d \in Cluster /\ Shrinks(freed, d)
      BY <1>4, <1>6, <3>1, DropPoolShrinks
    <3>3. \A y \in Pool : Instances(d, y) <= Instances(freed, y)
      BY <1>6, <3>2, PoolShrinks DEF Shrinks
    <3>4. \A y \in Pool : /\ Instances(d, y) \in Nat
                          /\ Instances(freed, y) \in Nat /\ Instances(cluster, y) \in Nat
      BY <1>1, <1>6, <3>2, InstancesType
    <3>5. \A y \in Pool : Instances(d, y) <= Instances(cluster, y)
      BY <1>10, <3>3, <3>4
    <3> QED BY <3>2, <3>5 DEF Limited
  <2>2. CASE ~ Stale(freed, p)
    BY <1>6, <1>8, <1>10, <2>2 DEF Limited
  <2> QED BY <2>1, <2>2
<1> QED BY <1>3, <1>11 DEF Within

LEMMA NextWithin ==
  ASSUME IInv, [Next]_vars
  PROVE  Within
<1>0. cluster \in Cluster
  BY DEF IInv, Sound, Typed
<1>1. ASSUME cluster' = cluster PROVE Within
  BY <1>0, <1>1, PoolsWithin
<1>2. CASE Administer
  <2>1. ASSUME NEW i \in Image, NEW kind \in {"vm", "runtime"},
               ImportImage(i, kind) \/ UpdateImage(i, kind)
        PROVE  Within
    BY <1>0, <2>1, ImagesQuiet, QuietWithin
  <2>2. ASSUME NEW i \in Image, DeleteImage(i) PROVE Within
    BY <1>0, <2>2, ImagesQuiet, QuietWithin
  <2>3. ASSUME NEW p \in UserPool, NEW cfg \in PoolConfig, CreatePool(p, cfg)
        PROVE  Within
    BY <2>3, CreatePoolWithin
  <2>4. ASSUME NEW p \in Pool, DeletePool(p) PROVE Within
    BY <2>4, DeletePoolWithin
  <2>5. ASSUME NEW r \in Req, NEW cfg \in EnvConfig, BeginCreate(r, cfg) PROVE Within
    BY <1>1, <2>5 DEF BeginCreate
  <2>6. ASSUME NEW r \in Req, NEW i \in Env, NEW cfg \in EnvConfig, BeginUpdate(r, i, cfg)
        PROVE  Within
    BY <1>1, <2>6 DEF BeginUpdate
  <2>7. ASSUME NEW r \in Req, PrepareArtifact(r) \/ AbandonRequest(r) PROVE Within
    BY <1>1, <2>7 DEF PrepareArtifact, AbandonRequest
  <2>8. ASSUME NEW r \in Req, CommitCreate(r) \/ CommitUpdate(r) PROVE Within
    BY <2>8, CommitCreateWithin, CommitUpdateWithin
  <2>9. ASSUME NEW i \in Env, RestartEnvironment(i) \/ DeleteEnvironment(i) PROVE Within
    BY <2>9, RestartEnvironmentWithin, DeleteEnvironmentWithin
  <2>10. ASSUME NEW n \in Node, DeleteNode(n) PROVE Within
    BY <1>0, <2>10, DeleteNodeQuiet, QuietWithin
  <2> QED BY <1>2, <2>1, <2>2, <2>3, <2>4, <2>5, <2>6, <2>7, <2>8, <2>9, <2>10 DEF Administer
<1>3. CASE Submit
  BY <1>3, CreateExecutionWithin DEF Submit
<1>4. CASE Serve
  <2>1. ASSUME NEW n \in Node, Heartbeat(n) \/ StartAgent(n) PROVE Within
    BY <1>0, <2>1, HeartbeatQuiet, QuietWithin, StartAgentWithin
  <2>2. ASSUME NEW n \in Node, NEW i \in Image, ImageArrived(n, i) PROVE Within
    BY <1>0, <2>2, ArrivalQuiet, QuietWithin
  <2>3. ASSUME NEW n \in Node, NEW a \in Artifact, ArtifactArrived(n, a) PROVE Within
    BY <1>0, <2>3, ArrivalQuiet, QuietWithin
  <2>4. ASSUME NEW n \in Node, NEW p \in Pool,
               AddWarmInstance(n, p) \/ RemoveIdleInstance(n, p)
        PROVE  Within
    BY <2>4, WarmWithin
  <2>5. ASSUME NEW n \in Node, NEW e \in Exec, NextWork(n, e) PROVE Within
    BY <2>5, NextWorkWithin
  <2>6. ASSUME NEW n \in Node, NEW e \in Exec, NEW keepIdle \in BOOLEAN,
               CompleteExecution(n, e, keepIdle)
        PROVE  Within
    BY <2>6, CompleteExecutionWithin
  <2> QED BY <1>4, <2>1, <2>2, <2>3, <2>4, <2>5, <2>6 DEF Serve
<1>5. CASE UNCHANGED vars
  BY <1>1, <1>5 DEF vars
<1> QED BY <1>2, <1>3, <1>4, <1>5 DEF Next

-----------------------------------------------------------------------------
(* What goes by name: pools no environment goes by, and missing files. *)

NoLosses == /\ GoneImages(cluster') \subseteq GoneImages(cluster)
            /\ GoneArtifacts(cluster', files') \subseteq GoneArtifacts(cluster, files)

Tidy == Orphans(cluster') \subseteq Orphans(cluster) /\ NoLosses

LEMMA NamesTidy ==
  ASSUME NamesKept, files \subseteq files'
  PROVE  Tidy
<1>1. Orphans(cluster') = Orphans(cluster)
  BY DEF NamesKept, SameNames, Orphans, Stale
<1>2. GoneImages(cluster') = GoneImages(cluster)
  BY DEF NamesKept, SameNames, GoneImages
<1>3. GoneArtifacts(cluster', files') \subseteq GoneArtifacts(cluster, files)
  BY DEF NamesKept, SameNames, GoneArtifacts
<1> QED BY <1>1, <1>2, <1>3 DEF Tidy, NoLosses

\* What schedule_queued does at the end of a handler does not matter here.
LEMMA SweptTidy ==
  ASSUME NEW d \in Cluster, cluster' = ScheduleQueued(d)
  PROVE  /\ Orphans(cluster') = Orphans(d)
         /\ GoneImages(cluster') = GoneImages(d)
         /\ \A fs : GoneArtifacts(cluster', fs) = GoneArtifacts(d, fs)
<1>1. SameNames(d, cluster')
  BY SweepLemma, PlacedNames
<1>2. Orphans(cluster') = Orphans(d)
  BY <1>1 DEF SameNames, Orphans, Stale
<1>3. GoneImages(cluster') = GoneImages(d)
  BY <1>1 DEF SameNames, GoneImages
<1>4. \A fs : GoneArtifacts(cluster', fs) = GoneArtifacts(d, fs)
  BY <1>1 DEF SameNames, GoneArtifacts
<1> QED BY <1>2, <1>3, <1>4

\* An image that is there, or was missed before.
Excused(c, i) == c.images[i] # "absent" \/ i \in GoneImages(c)

LEMMA NoImageLost ==
  ASSUME NEW c, NEW d, d.images = c.images,
         \A p \in Pool : d.pools[p] # None => Excused(c, d.pools[p].cfg.image),
         \A v \in Env : d.envs[v] # None => Excused(c, d.envs[v].cfg.image)
  PROVE  GoneImages(d) \subseteq GoneImages(c)
BY DEF GoneImages, Excused

LEMMA UsedExcused ==
  ASSUME NEW c \in Cluster
  PROVE  /\ \A p \in Pool : c.pools[p] # None => Excused(c, c.pools[p].cfg.image)
         /\ \A v \in Env : c.envs[v] # None => Excused(c, c.envs[v].cfg.image)
<1>1. ASSUME NEW p \in Pool, c.pools[p] # None PROVE Excused(c, c.pools[p].cfg.image)
  <2>1. c.pools[p].cfg.image \in Image
    BY <1>1, ClusterParts DEF PoolRec, Config
  <2> QED BY <1>1, <2>1 DEF Excused, GoneImages
<1>2. ASSUME NEW v \in Env, c.envs[v] # None PROVE Excused(c, c.envs[v].cfg.image)
  <2>1. c.envs[v].cfg.image \in Image
    BY <1>2, ClusterParts DEF EnvRec, Config
  <2> QED BY <1>2, <2>1 DEF Excused, GoneImages
<1> QED BY <1>1, <1>2

\* An artifact that is there, or was missed before.
Present(c, fs, a) == a \in fs \cup {None} \/ a \in GoneArtifacts(c, fs)

LEMMA NoArtifactLost ==
  ASSUME NEW c, NEW d, NEW fs,
         \A i \in Env : d.envs[i] # None => Present(c, fs, d.envs[i].cfg.artifact)
  PROVE  GoneArtifacts(d, fs) \subseteq GoneArtifacts(c, fs)
BY DEF GoneArtifacts, Present

LEMMA UsedPresent ==
  ASSUME NEW c, NEW fs
  PROVE  \A i \in Env : c.envs[i] # None => Present(c, fs, c.envs[i].cfg.artifact)
BY DEF GoneArtifacts, Present

LEMMA ImagesTidy ==
  ASSUME IInv, NEW i \in Image, NEW kind \in {"vm", "runtime"},
         ImportImage(i, kind) \/ UpdateImage(i, kind) \/ DeleteImage(i)
  PROVE  Tidy
<1>1. cluster \in Cluster /\ cluster' \in Cluster /\ files' = files
  BY ImportImageKept, UpdateImageKept, DeleteImageKept
     DEF IInv, Sound, Typed, Kept, ImportImage, UpdateImage, DeleteImage
<1>2. /\ cluster'.execs = cluster.execs /\ cluster'.pools = cluster.pools
      /\ cluster'.envs = cluster.envs
  BY <1>1 DEF ImportImage, UpdateImage, DeleteImage, Cluster
<1>3. Orphans(cluster') = Orphans(cluster)
  BY <1>2 DEF Orphans, Stale
<1>4. GoneArtifacts(cluster', files') = GoneArtifacts(cluster, files)
  BY <1>1, <1>2 DEF GoneArtifacts
<1>5. GoneImages(cluster') \subseteq GoneImages(cluster)
  <2>1. CASE ImportImage(i, kind) \/ UpdateImage(i, kind)
    <3>1. cluster'.images = [cluster.images EXCEPT ![i] = kind]
      BY <1>1, <2>1 DEF ImportImage, UpdateImage, Cluster
    <3>2. \A j \in Image : cluster'.images[j] = IF j = i THEN kind ELSE cluster.images[j]
      BY <1>1, <3>1 DEF Cluster
    <3> QED BY <1>2, <3>2 DEF GoneImages
  <2>2. CASE DeleteImage(i)
    <3>1. \A j \in Image : j # i => cluster'.images[j] = cluster.images[j]
      BY <1>1, <2>2 DEF DeleteImage, Cluster
    <3>2. ~ ImageInUse(i)
      BY <2>2 DEF DeleteImage
    <3> QED BY <1>2, <3>1, <3>2 DEF GoneImages, ImageInUse
  <2> QED BY <2>1, <2>2
<1> QED BY <1>3, <1>4, <1>5 DEF Tidy, NoLosses

LEMMA CreatePoolTidy ==
  ASSUME IInv, NEW p \in UserPool, NEW cfg \in PoolConfig, CreatePool(p, cfg)
  PROVE  Tidy
<1>1. cluster \in Cluster /\ p \in Pool
  BY ControllerAssumption DEF IInv, Sound, Typed
<1>2. /\ cluster'.images = cluster.images /\ cluster'.envs = cluster.envs
      /\ cluster'.execs = cluster.execs
      /\ \A y \in Pool : cluster'.pools[y] =
           IF y = p THEN [env |-> None, cfg |-> cfg] ELSE cluster.pools[y]
      /\ files' = files
  BY <1>1 DEF CreatePool, Cluster
<1>3. Orphans(cluster') \subseteq Orphans(cluster)
  BY <1>2 DEF Orphans, Stale
<1>4. GoneImages(cluster') \subseteq GoneImages(cluster)
  <2>1. Excused(cluster, cfg.image)
    BY DEF CreatePool, Excused
  <2>2. \A y \in Pool : cluster'.pools[y] # None => Excused(cluster, cluster'.pools[y].cfg.image)
    BY <1>1, <1>2, <2>1, UsedExcused
  <2>3. \A v \in Env : cluster'.envs[v] # None => Excused(cluster, cluster'.envs[v].cfg.image)
    BY <1>1, <1>2, UsedExcused
  <2> QED BY <1>2, <2>2, <2>3, NoImageLost
<1>5. GoneArtifacts(cluster', files') = GoneArtifacts(cluster, files)
  BY <1>2 DEF GoneArtifacts
<1> QED BY <1>3, <1>4, <1>5 DEF Tidy, NoLosses

\* A pool that goes.
LEMMA DropPoolTidy ==
  ASSUME NEW c \in Cluster, NEW p \in Pool, NEW d, d = DropPool(c, p)
  PROVE  /\ d \in Cluster
         /\ Orphans(d) \subseteq Orphans(c) /\ GoneImages(d) \subseteq GoneImages(c)
         /\ \A fs : GoneArtifacts(d, fs) = GoneArtifacts(c, fs)
<1>1. /\ d \in Cluster
      /\ d.images = c.images /\ d.envs = c.envs /\ d.execs = c.execs
      /\ d.pools = [c.pools EXCEPT ![p] = None]
  BY DropPoolLemma
<1>2. \A y \in Pool : d.pools[y] = IF y = p THEN None ELSE c.pools[y]
  BY <1>1 DEF Cluster
<1>3. Orphans(d) \subseteq Orphans(c)
  BY <1>1, <1>2 DEF Orphans, Stale
<1>4. GoneImages(d) \subseteq GoneImages(c)
  BY <1>1, <1>2 DEF GoneImages
<1>5. \A fs : GoneArtifacts(d, fs) = GoneArtifacts(c, fs)
  BY <1>1 DEF GoneArtifacts
<1> QED BY <1>1, <1>3, <1>4, <1>5

LEMMA DeletePoolTidy ==
  ASSUME IInv, NEW p \in Pool, DeletePool(p)
  PROVE  Tidy
<1>1. cluster \in Cluster /\ cluster' = DropPool(cluster, p) /\ files' = files
  BY DEF IInv, Sound, Typed, DeletePool
<1>2. /\ Orphans(cluster') \subseteq Orphans(cluster)
      /\ GoneImages(cluster') \subseteq GoneImages(cluster)
      /\ \A fs : GoneArtifacts(cluster', fs) = GoneArtifacts(cluster, fs)
  BY <1>1, DropPoolTidy
<1> QED BY <1>1, <1>2 DEF Tidy, NoLosses

\* The environment loses the name of its pool, but the pool goes as well; the
\* artifact goes only with its last user.
LEMMA DeleteEnvironmentTidy ==
  ASSUME IInv, NEW i \in Env, DeleteEnvironment(i)
  PROVE  Tidy
<1> DEFINE env == cluster.envs[i]
           gone == IF env.cfg.artifact # None /\ LastUser(i) THEN {env.cfg.artifact} ELSE {}
           b == DropPool(cluster, env.pool)
           e == [b EXCEPT !.envs[i] = None]
<1>1. cluster \in Cluster /\ env.pool \in Pool /\ b = DropPool(cluster, env.pool)
  BY EmptiedPool DEF IInv, Sound, Typed
<1>2. /\ cluster' = [e EXCEPT !.nodes = [n \in Node |->
                       IF e.nodes[n] = None THEN None
                       ELSE [e.nodes[n] EXCEPT !.artifacts = @ \ gone]]]
      /\ files' = files \ gone
  BY DEF DeleteEnvironment
<1>3. gone = IF env.cfg.artifact # None /\ LastUser(i) THEN {env.cfg.artifact} ELSE {}
  OBVIOUS
<1>4. LastUser(i) => \A j \in Env \ {i} : cluster.envs[j] # None =>
                       cluster.envs[j].cfg.artifact # env.cfg.artifact
  BY DEF LastUser
<1>5. env = cluster.envs[i]
  OBVIOUS
<1> HIDE DEF b, env, gone
<1>6. /\ b \in Cluster
      /\ b.images = cluster.images /\ b.envs = cluster.envs /\ b.execs = cluster.execs
      /\ b.pools = [cluster.pools EXCEPT ![env.pool] = None]
  BY <1>1, DropPoolLemma
<1>7. /\ cluster'.images = cluster.images /\ cluster'.execs = cluster.execs
      /\ \A y \in Pool : cluster'.pools[y] = IF y = env.pool THEN None ELSE cluster.pools[y]
      /\ \A j \in Env : cluster'.envs[j] = IF j = i THEN None ELSE cluster.envs[j]
  BY <1>1, <1>2, <1>6 DEF Cluster
<1>8. Orphans(cluster') \subseteq Orphans(cluster)
  <2> SUFFICES ASSUME NEW p \in Orphans(cluster') PROVE p \in Orphans(cluster)
    OBVIOUS
  <2>1. p \in Pool /\ p # env.pool /\ cluster'.pools[p] = cluster.pools[p]
    BY <1>7 DEF Orphans
  <2>2. \A j \in Env : cluster.envs[j] # None => cluster.envs[j].pool # p
    BY <1>5, <1>7, <2>1 DEF Orphans, Stale
  <2> QED BY <1>7, <2>1, <2>2 DEF Orphans, Stale
<1>9. GoneImages(cluster') \subseteq GoneImages(cluster)
  BY <1>7 DEF GoneImages
<1>10. GoneArtifacts(cluster', files') \subseteq GoneArtifacts(cluster, files)
  <2> SUFFICES ASSUME NEW j \in Env, cluster'.envs[j] # None,
                      cluster'.envs[j].cfg.artifact \notin files' \cup {None}
               PROVE  cluster'.envs[j].cfg.artifact \notin files \cup {None}
                      /\ cluster'.envs[j] = cluster.envs[j]
    BY DEF GoneArtifacts
  <2>1. j # i /\ cluster'.envs[j] = cluster.envs[j]
    BY <1>7
  <2>2. cluster.envs[j].cfg.artifact \notin gone
    BY <1>3, <1>4, <2>1
  <2> QED BY <1>2, <2>1, <2>2
<1> QED BY <1>8, <1>9, <1>10 DEF Tidy, NoLosses

LEMMA CreateExecutionTidy ==
  ASSUME IInv, NEW e \in Exec, NEW i \in Env, NEW p \in Pool, NEW queue \in BOOLEAN,
         CreateExecution(e, i, p, queue)
  PROVE  Tidy
<1> DEFINE x == [status |-> "queued", pool |-> p, node |-> None, env |-> i]
           d == [cluster EXCEPT !.execs[e] = x]
<1>1. /\ cluster \in Cluster /\ cluster.execs[e] = None
      /\ cluster' = Schedule(d, e) /\ files' = files
  BY DEF IInv, Sound, Typed, CreateExecution
<1>2. x \in ExecRec /\ x # None /\ x.status = "queued"
  <2>1. x \in ExecRec
    BY DEF ExecRec
  <2> QED BY <2>1, Apart
<1>3. d = [cluster EXCEPT !.execs = [cluster.execs EXCEPT ![e] = x]]
  BY <1>1 DEF Cluster
<1> HIDE DEF x
<1>4. /\ d \in Cluster
      /\ d.images = cluster.images /\ d.pools = cluster.pools /\ d.envs = cluster.envs
      /\ \A f \in Exec : d.execs[f] = IF f = e THEN x ELSE cluster.execs[f]
  <2> DEFINE g == [cluster EXCEPT !.execs = [cluster.execs EXCEPT ![e] = x]]
  <2>1. /\ g \in Cluster
        /\ \A f \in Exec : g.execs[f] = IF f = e THEN x ELSE cluster.execs[f]
    BY <1>1, <1>2, ExecChanged
  <2>2. g.images = cluster.images /\ g.pools = cluster.pools /\ g.envs = cluster.envs
    BY <1>1 DEF Cluster
  <2> QED BY <1>3, <2>1, <2>2
<1> HIDE DEF d
<1>5. SameNames(d, cluster')
  <2>1. IsQueued(d, e)
    BY <1>2, <1>4 DEF IsQueued
  <2> QED BY <1>1, <1>4, <2>1, ScheduleLemma, PlacedNames
<1>6. /\ cluster'.images = cluster.images /\ cluster'.pools = cluster.pools
      /\ cluster'.envs = cluster.envs
      /\ \A f \in Exec : cluster.execs[f] # None =>
           cluster'.execs[f] # None /\ cluster'.execs[f].pool = cluster.execs[f].pool
  BY <1>1, <1>4, <1>5 DEF SameNames
<1>7. Orphans(cluster') \subseteq Orphans(cluster)
  BY <1>6 DEF Orphans, Stale
<1>8. GoneImages(cluster') = GoneImages(cluster)
  BY <1>6 DEF GoneImages
<1>9. GoneArtifacts(cluster', files') = GoneArtifacts(cluster, files)
  BY <1>1, <1>6 DEF GoneArtifacts
<1> QED BY <1>7, <1>8, <1>9 DEF Tidy, NoLosses

LEMMA NextWorkTidy ==
  ASSUME IInv, NEW n \in Node, NEW e \in Exec, NextWork(n, e)
  PROVE  Tidy
<1> DEFINE x == [cluster.execs[e] EXCEPT !.status = "running"]
<1>1. cluster \in Cluster /\ cluster.execs[e] \in ExecRec /\ cluster.execs[e] # None
  BY ClusterParts DEF IInv, Sound, Typed, NextWork
<1>2. x # None /\ x.pool = cluster.execs[e].pool
  <2>1. x \in ExecRec /\ x.pool = cluster.execs[e].pool
    BY <1>1 DEF ExecRec
  <2> QED BY <2>1, Apart
<1>3. cluster' = [cluster EXCEPT !.execs = [cluster.execs EXCEPT ![e] = x]]
  BY <1>1 DEF NextWork, Cluster
<1> HIDE DEF x
<1>4. /\ cluster'.images = cluster.images /\ cluster'.pools = cluster.pools
      /\ cluster'.envs = cluster.envs
      /\ \A f \in Exec : cluster'.execs[f] = IF f = e THEN x ELSE cluster.execs[f]
  BY <1>1, <1>3 DEF Cluster
<1>5. NamesKept
  BY <1>1, <1>2, <1>4 DEF NamesKept, SameNames
<1>6. files \subseteq files'
  BY DEF NextWork
<1> QED BY <1>5, <1>6, NamesTidy

\* The last execution of a pool no environment goes by takes the pool with it.
LEMMA CompleteExecutionTidy ==
  ASSUME IInv, NEW n \in Node, NEW e \in Exec, NEW keepIdle \in BOOLEAN,
         CompleteExecution(n, e, keepIdle)
  PROVE  Tidy
<1> DEFINE p == cluster.execs[e].pool
           b == Release(cluster, e, keepIdle)
           freed == [b EXCEPT !.execs[e] = None]
           d == IF Stale(freed, p) THEN DropPool(freed, p) ELSE freed
<1>1. cluster \in Cluster /\ <<n, e>> \in runs
  BY DEF IInv, Sound, Typed, CompleteExecution
<1>2. cluster.execs[e] # None /\ cluster.execs[e].node = n
  BY <1>1 DEF IInv, Sound, Expected
<1>3. cluster' = ScheduleQueued(d) /\ files' = files
  BY <1>2 DEF CompleteExecution, Finish
<1>4. p \in Pool /\ p = cluster.execs[e].pool
  BY <1>1, <1>2, ClusterParts DEF ExecRec
<1>5. b \in Cluster /\ SameWork(cluster, b)
  BY <1>1, <1>2, ReleaseLemma
<1>6. /\ freed \in Cluster
      /\ freed.images = cluster.images /\ freed.pools = cluster.pools
      /\ freed.envs = cluster.envs
      /\ \A f \in Exec : freed.execs[f] = IF f = e THEN None ELSE cluster.execs[f]
  <2> HIDE DEF b
  <2> DEFINE g == [b EXCEPT !.execs = [b.execs EXCEPT ![e] = None]]
  <2>1. /\ g \in Cluster /\ g.pools = b.pools /\ g.envs = b.envs
        /\ \A f \in Exec : g.execs[f] = IF f = e THEN None ELSE b.execs[f]
    BY <1>5, ExecChanged
  <2>2. freed = g /\ g.images = b.images
    BY <1>5 DEF Cluster
  <2> QED BY <1>5, <2>1, <2>2 DEF SameWork
<1>7. d = IF Stale(freed, p) THEN DropPool(freed, p) ELSE freed
  OBVIOUS
<1> HIDE DEF p, b, freed, d
<1>8. /\ Orphans(freed) \ {p} \subseteq Orphans(cluster)
      /\ ~ Stale(freed, p) => p \notin Orphans(freed)
  BY <1>4, <1>6 DEF Orphans, Stale
<1>9. GoneImages(freed) = GoneImages(cluster)
  BY <1>6 DEF GoneImages
<1>10. \A fs : GoneArtifacts(freed, fs) = GoneArtifacts(cluster, fs)
  BY <1>6 DEF GoneArtifacts
<1>11. /\ d \in Cluster
       /\ Orphans(d) \subseteq Orphans(cluster)
       /\ GoneImages(d) \subseteq GoneImages(cluster)
       /\ \A fs : GoneArtifacts(d, fs) = GoneArtifacts(cluster, fs)
  <2>1. CASE Stale(freed, p)
    <3>1. d = DropPool(freed, p)
      BY <1>7, <2>1
    <3>2. /\ d \in Cluster
          /\ Orphans(d) \subseteq Orphans(freed) /\ GoneImages(d) \subseteq GoneImages(freed)
          /\ \A fs : GoneArtifacts(d, fs) = GoneArtifacts(freed, fs)
      BY <1>4, <1>6, <3>1, DropPoolTidy
    <3>3. p \notin Orphans(d)
      <4>1. /\ d.images = freed.images /\ d.envs = freed.envs
            /\ d.pools = [freed.pools EXCEPT ![p] = None]
        BY <1>4, <1>6, <3>1, DropPoolLemma
      <4>2. d.pools[p] = None
        BY <1>4, <1>6, <4>1 DEF Cluster
      <4> QED BY <4>2 DEF Orphans
    <3> QED BY <1>8, <1>9, <1>10, <3>2, <3>3
  <2>2. CASE ~ Stale(freed, p)
    BY <1>6, <1>7, <1>8, <1>9, <1>10, <2>2
  <2> QED BY <2>1, <2>2
<1> QED BY <1>3, <1>11, SweptTidy DEF Tidy, NoLosses

\* The new pool has a name, and what it needs was there or the request is excused.
LEMMA CommitCreateTidy ==
  ASSUME IInv, NEW r \in Req, CommitCreate(r)
  PROVE  /\ Orphans(cluster') \subseteq Orphans(cluster)
         /\ \/ NoLosses
            \/ cluster.images[requests[r].cfg.image] = "absent"
            \/ requests[r].cfg.artifact \notin files \cup {None}
<1> DEFINE cfg == requests[r].cfg
           i == NewId(FreshEnvs)
           p == NewId(FreshPools)
<1>1. cluster \in Cluster /\ files' = files
  BY DEF IInv, Sound, Typed, CommitCreate
<1>2. /\ i \in Env /\ p \in Pool
      /\ cluster.envs[i] = None /\ cluster.pools[p] = None
  <2>1. FreshEnvs \subseteq Nat /\ FreshPools \subseteq Nat
    <3>1. Env \subseteq Nat /\ Pool \subseteq Nat
      BY SchedulerAssumption DEF Pool
    <3> QED BY <3>1 DEF FreshEnvs, FreshPools
  <2>2. i \in FreshEnvs /\ p \in FreshPools
    BY <2>1, NewIdLemma DEF CommitCreate
  <2> QED BY <2>2 DEF FreshEnvs, FreshPools
<1>3. /\ cluster'.images = cluster.images /\ cluster'.execs = cluster.execs
      /\ \A y \in Pool : cluster'.pools[y] =
           IF y = p THEN [env |-> i, cfg |-> cfg] ELSE cluster.pools[y]
      /\ \A j \in Env : cluster'.envs[j] =
           IF j = i THEN [pool |-> p, cfg |-> cfg] ELSE cluster.envs[j]
  BY <1>1, <1>2 DEF CommitCreate, Cluster
<1> HIDE DEF i, p, cfg
<1>4. Orphans(cluster') \subseteq Orphans(cluster)
  <2> SUFFICES ASSUME NEW y \in Orphans(cluster') PROVE y \in Orphans(cluster)
    OBVIOUS
  <2>1. y \in Pool /\ Stale(cluster', y)
    BY DEF Orphans
  <2>2. y # p
    <3>1. cluster'.envs[i].pool = p /\ cluster'.envs[i] = [pool |-> p, cfg |-> cfg]
      BY <1>2, <1>3
    <3>2. cluster'.envs[i] # None
      <4>1. cfg \in Config
        BY DEF IInv, Sound, Typed, CreateReq, UpdateReq, CommitCreate, cfg
      <4>2. [pool |-> p, cfg |-> cfg] \in EnvRec
        BY <1>2, <4>1 DEF EnvRec
      <4> QED BY <3>1, <4>2, Apart
    <3> QED BY <1>2, <2>1, <3>1, <3>2 DEF Stale
  <2>3. cluster'.pools[y] = cluster.pools[y]
    BY <1>3, <2>1, <2>2
  <2>4. Stale(cluster, y)
    BY <1>2, <1>3, <2>1 DEF Stale
  <2> QED BY <2>1, <2>3, <2>4 DEF Orphans
<1>5. ASSUME cluster.images[cfg.image] # "absent", cfg.artifact \in files \cup {None}
      PROVE  NoLosses
  <2>1. Excused(cluster, cfg.image) /\ Present(cluster, files, cfg.artifact)
    BY <1>5 DEF Excused, Present
  <2>2. \A y \in Pool : cluster'.pools[y] # None => Excused(cluster, cluster'.pools[y].cfg.image)
    BY <1>1, <1>3, <2>1, UsedExcused
  <2>3. \A j \in Env : cluster'.envs[j] # None => Excused(cluster, cluster'.envs[j].cfg.image)
    BY <1>1, <1>3, <2>1, UsedExcused
  <2>4. \A j \in Env : cluster'.envs[j] # None =>
          Present(cluster, files, cluster'.envs[j].cfg.artifact)
    BY <1>3, <2>1, UsedPresent
  <2>5. GoneImages(cluster') \subseteq GoneImages(cluster)
    BY <1>3, <2>2, <2>3, NoImageLost
  <2>6. GoneArtifacts(cluster', files) \subseteq GoneArtifacts(cluster, files)
    BY <2>4, NoArtifactLost
  <2> QED BY <1>1, <2>5, <2>6 DEF NoLosses
<1> QED BY <1>4, <1>5 DEF cfg

\* Replacing the pool an environment goes by leaves no orphan: the old pool stays
\* only while something runs on it.
LEMMA RestartedTidy ==
  ASSUME NEW c \in Cluster, NEW i \in Env, NEW old \in Pool, NEW new \in Pool,
         NEW cfg \in Config, old # new, NEW d, Restarted(c, i, old, new, cfg, d),
         \A e \in Exec : c.execs[e] # None => c.execs[e].pool # new
  PROVE  /\ c.envs[i] # None /\ c.envs[i].pool = old => Orphans(d) \subseteq Orphans(c)
         /\ Excused(c, cfg.image) => GoneImages(d) \subseteq GoneImages(c)
         /\ \A fs : Present(c, fs, cfg.artifact) => GoneArtifacts(d, fs) \subseteq GoneArtifacts(c, fs)
<1>1. /\ d \in Cluster /\ d.images = c.images
      /\ \A y \in Pool \ {old, new} : d.pools[y] = c.pools[y]
      /\ d.pools[new] = [env |-> i, cfg |-> cfg]
      /\ d.pools[old] # None <=> Running(c, old)
      /\ d.pools[old] # None => /\ c.pools[old] # None
                                /\ d.pools[old].cfg = [c.pools[old].cfg EXCEPT !.warm = 0]
      /\ \A j \in Env : d.envs[j] = IF j = i THEN [pool |-> new, cfg |-> cfg] ELSE c.envs[j]
      /\ d.envs[i] # None
      /\ \A e \in Exec : e \notin Movable(c, old) => d.execs[e] = c.execs[e]
  BY DEF Restarted
<1>2. ASSUME c.envs[i] # None, c.envs[i].pool = old
      PROVE  Orphans(d) \subseteq Orphans(c)
  <2> SUFFICES ASSUME NEW y \in Orphans(d) PROVE y \in Orphans(c)
    OBVIOUS
  <2>1. y \in Pool /\ d.pools[y] # None /\ d.pools[y].env # None /\ Stale(d, y)
    BY DEF Orphans
  <2>2. y # new
    BY <1>1, <2>1 DEF Stale
  <2>3. y # old
    <3> SUFFICES ASSUME y = old PROVE FALSE
      OBVIOUS
    <3>1. PICK e \in Exec : c.execs[e] # None /\ c.execs[e].pool = old
                            /\ c.execs[e].status = "running"
      BY <1>1, <2>1 DEF Running
    <3>2. d.execs[e] = c.execs[e]
      BY <1>1, <3>1 DEF Movable
    <3> QED BY <2>1, <3>1, <3>2 DEF Stale
  <2>4. d.pools[y] = c.pools[y]
    BY <1>1, <2>1, <2>2, <2>3
  <2>5. \A j \in Env : c.envs[j] # None => c.envs[j].pool # y
    BY <1>1, <1>2, <2>1, <2>3 DEF Stale
  <2>6. \A e \in Exec : c.execs[e] # None => c.execs[e].pool # y
    <3>1. \A e \in Movable(c, old) : c.execs[e].pool = old
      BY DEF Movable
    <3> QED BY <1>1, <2>1, <2>3, <3>1 DEF Stale
  <2> QED BY <2>1, <2>4, <2>5, <2>6 DEF Orphans, Stale
<1>3. ASSUME Excused(c, cfg.image) PROVE GoneImages(d) \subseteq GoneImages(c)
  <2>1. ASSUME NEW y \in Pool, d.pools[y] # None PROVE Excused(c, d.pools[y].cfg.image)
    <3>1. CASE y = new
      BY <1>1, <1>3, <3>1
    <3>2. CASE y = old
      <4>1. c.pools[old] # None /\ c.pools[old].cfg \in Config
        BY <1>1, <2>1, <3>2, ClusterParts DEF PoolRec
      <4>2. d.pools[old].cfg.image = c.pools[old].cfg.image
        BY <1>1, <2>1, <3>2, <4>1 DEF Config
      <4> QED BY <3>2, <4>1, <4>2, UsedExcused
    <3>3. CASE y # new /\ y # old
      BY <1>1, <2>1, <3>3, UsedExcused
    <3> QED BY <3>1, <3>2, <3>3
  <2>2. ASSUME NEW v \in Env, d.envs[v] # None PROVE Excused(c, d.envs[v].cfg.image)
    BY <1>1, <1>3, <2>2, UsedExcused
  <2> QED BY <1>1, <2>1, <2>2, NoImageLost
<1>4. ASSUME NEW fs, Present(c, fs, cfg.artifact)
      PROVE  GoneArtifacts(d, fs) \subseteq GoneArtifacts(c, fs)
  <2>1. \A j \in Env : d.envs[j] # None => Present(c, fs, d.envs[j].cfg.artifact)
    BY <1>1, <1>4, UsedPresent
  <2> QED BY <2>1, NoArtifactLost
<1> QED BY <1>2, <1>3, <1>4

\* What both handlers that replace a pool do.
LEMMA RestartTidy ==
  ASSUME IInv, NEW i \in Env, NEW old \in Pool, NEW cfg \in Config,
         Claims(cluster, requests, i, old), FreshPools # {},
         NEW new, new = NewId(FreshPools),
         cluster' = ScheduleQueued(RestartPool(cluster, i, old, new, cfg)), files' = files
  PROVE  /\ \/ Orphans(cluster') \subseteq Orphans(cluster)
            \/ cluster.envs[i] = None \/ cluster.envs[i].pool # old
         /\ \/ NoLosses
            \/ ~ Excused(cluster, cfg.image) \/ ~ Present(cluster, files, cfg.artifact)
<1> DEFINE d == RestartPool(cluster, i, old, new, cfg)
<1>1. cluster \in Cluster /\ PoolsExist(cluster)
  BY DEF IInv, Sound, Typed
<1>2. new \in Pool /\ cluster.pools[new] = None /\ \A j \in Env : ~ Claims(cluster, requests, j, new)
  <2>1. FreshPools \subseteq Nat
    BY SchedulerAssumption DEF FreshPools, Pool
  <2>2. new \in FreshPools
    BY <2>1, NewIdLemma
  <2> QED BY <2>2 DEF FreshPools
<1>3. old # new
  BY <1>2
<1>4. d = RestartPool(cluster, i, old, new, cfg)
  OBVIOUS
<1> HIDE DEF d
<1>5. Restarted(cluster, i, old, new, cfg, d)
  BY <1>1, <1>2, <1>3, <1>4, RestartParts
<1>6. \A e \in Exec : cluster.execs[e] # None => cluster.execs[e].pool # new
  BY <1>1, <1>2 DEF PoolsExist
<1>7. /\ cluster.envs[i] # None /\ cluster.envs[i].pool = old
           => Orphans(d) \subseteq Orphans(cluster)
      /\ Excused(cluster, cfg.image) => GoneImages(d) \subseteq GoneImages(cluster)
      /\ \A fs : Present(cluster, fs, cfg.artifact)
                   => GoneArtifacts(d, fs) \subseteq GoneArtifacts(cluster, fs)
  BY <1>1, <1>2, <1>3, <1>5, <1>6, RestartedTidy
<1>8. /\ Orphans(cluster') = Orphans(d) /\ GoneImages(cluster') = GoneImages(d)
      /\ \A fs : GoneArtifacts(cluster', fs) = GoneArtifacts(d, fs)
  <2>1. d \in Cluster
    BY <1>5 DEF Restarted
  <2> QED BY <1>4, <2>1, SweptTidy
<1> QED BY <1>7, <1>8 DEF NoLosses

LEMMA RestartEnvironmentTidy ==
  ASSUME IInv, NEW i \in Env, RestartEnvironment(i)
  PROVE  Tidy
<1> DEFINE env == cluster.envs[i]
<1>1. env \in EnvRec /\ env # None /\ cluster \in Cluster
  BY ClusterParts DEF IInv, Sound, Typed, RestartEnvironment
<1>2. env.pool \in Pool /\ env.cfg \in Config /\ Claims(cluster, requests, i, env.pool)
  BY <1>1 DEF EnvRec, Claims
<1>3. /\ cluster' = ScheduleQueued(RestartPool(cluster, i, env.pool, NewId(FreshPools), env.cfg))
      /\ FreshPools # {} /\ files' = files
  BY DEF RestartEnvironment
<1>4. Excused(cluster, env.cfg.image) /\ Present(cluster, files, env.cfg.artifact)
  BY <1>1, UsedExcused, UsedPresent
<1>5. env = cluster.envs[i]
  OBVIOUS
<1> HIDE DEF env
<1>6. /\ \/ Orphans(cluster') \subseteq Orphans(cluster)
         \/ cluster.envs[i] = None \/ cluster.envs[i].pool # env.pool
      /\ \/ NoLosses
         \/ ~ Excused(cluster, env.cfg.image) \/ ~ Present(cluster, files, env.cfg.artifact)
  BY <1>2, <1>3, RestartTidy
<1> QED BY <1>1, <1>4, <1>5, <1>6 DEF Tidy

\* An update goes by what it read: it may orphan a pool only if that is no longer
\* the pool of the environment, and lose a file only if that went meanwhile.
LEMMA CommitUpdateTidy ==
  ASSUME IInv, NEW r \in Req, CommitUpdate(r)
  PROVE  /\ Orphans(cluster') \subseteq Orphans(cluster) \/ StaleUpdate(r)
         /\ \/ NoLosses
            \/ cluster.images[requests[r].cfg.image] = "absent"
            \/ requests[r].cfg.artifact \notin files \cup {None}
<1> DEFINE i == requests[r].env
           old == requests[r].old
           cfg == requests[r].cfg
           v == [pool |-> old.pool, cfg |-> cfg]
           x == [env |-> i, cfg |-> cfg]
           d == [cluster EXCEPT !.pools[old.pool] = x, !.envs[i] = v]
<1>1. cluster \in Cluster /\ files' = files
  BY DEF IInv, Sound, Typed, CommitUpdate
<1>2. /\ i \in Env /\ old \in EnvRec /\ old.pool \in Pool /\ cfg \in Config
      /\ Claims(cluster, requests, i, old.pool)
  <2>1. requests[r] \in CreateReq \cup UpdateReq
    BY DEF IInv, Sound, Typed, CommitUpdate
  <2>2. requests[r] \in UpdateReq
    BY <2>1 DEF CreateReq, CommitUpdate
  <2>3. i \in Env /\ old \in EnvRec /\ old.pool \in Pool /\ cfg \in Config
    BY <2>2 DEF UpdateReq, EnvRec
  <2> QED BY <2>3 DEF Claims, CommitUpdate
<1>3. StaleUpdate(r) <=> cluster.envs[i] = None \/ cluster.envs[i].pool # old.pool
  BY DEF StaleUpdate, CommitUpdate
<1>4. /\ cluster.images[cfg.image] # "absent" => Excused(cluster, cfg.image)
      /\ cfg.artifact \in files \cup {None} => Present(cluster, files, cfg.artifact)
  BY DEF Excused, Present
<1>5. CASE Rebuilds(old.cfg, cfg)
  <2>1. /\ cluster' = ScheduleQueued(RestartPool(cluster, i, old.pool, NewId(FreshPools), cfg))
        /\ FreshPools # {}
    BY <1>5 DEF CommitUpdate
  <2>2. i = requests[r].env /\ old = requests[r].old /\ cfg = requests[r].cfg
    OBVIOUS
  <2> HIDE DEF i, old, cfg
  <2>3. /\ \/ Orphans(cluster') \subseteq Orphans(cluster)
           \/ cluster.envs[i] = None \/ cluster.envs[i].pool # old.pool
        /\ \/ NoLosses
           \/ ~ Excused(cluster, cfg.image) \/ ~ Present(cluster, files, cfg.artifact)
    BY <1>1, <1>2, <2>1, RestartTidy
  <2> QED BY <1>3, <1>4, <2>2, <2>3
<1>6. CASE ~ Rebuilds(old.cfg, cfg)
  <2>1. cluster' = ScheduleQueued(d)
    BY <1>6 DEF CommitUpdate
  <2>2. x \in PoolRec /\ v \in EnvRec /\ x # None /\ v # None
    <3>1. x \in PoolRec /\ v \in EnvRec
      BY <1>2 DEF PoolRec, EnvRec
    <3> QED BY <3>1, Apart
  <2>3. x.cfg = cfg /\ v.cfg = cfg /\ v.pool = old.pool
    OBVIOUS
  <2>4. i = requests[r].env /\ old = requests[r].old /\ cfg = requests[r].cfg
    OBVIOUS
  <2> HIDE DEF i, old, cfg, v, x
  <2>5. /\ d \in Cluster /\ d.images = cluster.images /\ d.execs = cluster.execs
        /\ \A y \in Pool : d.pools[y] = IF y = old.pool THEN x ELSE cluster.pools[y]
        /\ \A j \in Env : d.envs[j] = IF j = i THEN v ELSE cluster.envs[j]
    <3>1. /\ [cluster.pools EXCEPT ![old.pool] = x] \in [Pool -> PoolRec \cup {None}]
          /\ [cluster.envs EXCEPT ![i] = v] \in [Env -> EnvRec \cup {None}]
      BY <1>1, <2>2 DEF Cluster
    <3> DEFINE g == [cluster EXCEPT !.pools = [cluster.pools EXCEPT ![old.pool] = x]]
    <3>2. g \in Cluster
      BY <1>1, <3>1, ClusterUpdates
    <3>3. /\ d = [g EXCEPT !.envs = [cluster.envs EXCEPT ![i] = v]]
          /\ d.images = cluster.images /\ d.execs = cluster.execs
          /\ d.pools = [cluster.pools EXCEPT ![old.pool] = x]
          /\ d.envs = [cluster.envs EXCEPT ![i] = v]
      BY <1>1 DEF Cluster
    <3> HIDE DEF g, d
    <3>4. d \in Cluster
      BY <3>1, <3>2, <3>3, ClusterUpdates
    <3> QED BY <1>1, <3>3, <3>4 DEF Cluster
  <2> HIDE DEF d
  <2>6. ASSUME cluster.envs[i] # None, cluster.envs[i].pool = old.pool
        PROVE  Orphans(d) \subseteq Orphans(cluster)
    <3> SUFFICES ASSUME NEW y \in Orphans(d) PROVE y \in Orphans(cluster)
      OBVIOUS
    <3>1. y \in Pool /\ y # old.pool
      BY <1>2, <2>2, <2>3, <2>5 DEF Orphans, Stale
    <3>2. d.pools[y] = cluster.pools[y]
      BY <2>5, <3>1
    <3>3. Stale(cluster, y)
      BY <2>5, <2>6, <3>1 DEF Orphans, Stale
    <3> QED BY <3>1, <3>2, <3>3 DEF Orphans
  <2>7. ASSUME Excused(cluster, cfg.image)
        PROVE  GoneImages(d) \subseteq GoneImages(cluster)
    <3>1. \A y \in Pool : d.pools[y] # None => Excused(cluster, d.pools[y].cfg.image)
      BY <1>1, <2>3, <2>5, <2>7, UsedExcused
    <3>2. \A j \in Env : d.envs[j] # None => Excused(cluster, d.envs[j].cfg.image)
      BY <1>1, <2>3, <2>5, <2>7, UsedExcused
    <3> QED BY <2>5, <3>1, <3>2, NoImageLost
  <2>8. ASSUME Present(cluster, files, cfg.artifact)
        PROVE  GoneArtifacts(d, files) \subseteq GoneArtifacts(cluster, files)
    <3>1. \A j \in Env : d.envs[j] # None => Present(cluster, files, d.envs[j].cfg.artifact)
      BY <2>3, <2>5, <2>8, UsedPresent
    <3> QED BY <3>1, NoArtifactLost
  <2>9. /\ Orphans(cluster') = Orphans(d) /\ GoneImages(cluster') = GoneImages(d)
        /\ \A fs : GoneArtifacts(cluster', fs) = GoneArtifacts(d, fs)
    BY <2>1, <2>5, SweptTidy
  <2> QED BY <1>1, <1>3, <1>4, <2>4, <2>6, <2>7, <2>8, <2>9 DEF NoLosses
<1> QED BY <1>5, <1>6

\* The request r that is done with its handler.
Committed(r) == requests[r] # None /\ requests'[r] = None

\* What a step may do to names: orphan pools by a stale update, and lose files to a
\* request that was checked before they went.
Named ==
  /\ \/ Orphans(cluster') \subseteq Orphans(cluster)
     \/ \E r \in Req : StaleUpdate(r) /\ requests'[r] = None
  /\ \/ NoLosses
     \/ \E r \in Req : /\ Committed(r)
                       /\ \/ cluster.images[requests[r].cfg.image] = "absent"
                          \/ requests[r].cfg.artifact \notin files \cup {None}

LEMMA CommitNamed ==
  ASSUME IInv, NEW r \in Req, CommitCreate(r) \/ CommitUpdate(r)
  PROVE  Named
<1>1. Committed(r)
  BY DEF IInv, Sound, Typed, CommitCreate, CommitUpdate, Committed
<1>2. /\ Orphans(cluster') \subseteq Orphans(cluster) \/ StaleUpdate(r)
      /\ \/ NoLosses
         \/ cluster.images[requests[r].cfg.image] = "absent"
         \/ requests[r].cfg.artifact \notin files \cup {None}
  BY CommitCreateTidy, CommitUpdateTidy
<1> QED BY <1>1, <1>2 DEF Named, Committed

LEMMA NextNamed ==
  ASSUME IInv, [Next]_vars
  PROVE  Named
<1>1. ASSUME Tidy PROVE Named
  BY <1>1 DEF Tidy, Named
<1>2. ASSUME cluster' = cluster, files \subseteq files' PROVE Tidy
  BY <1>2, NamesTidy DEF NamesKept, SameNames
<1>3. ASSUME NamesKept, files' = files PROVE Tidy
  BY <1>3, NamesTidy
<1>4. CASE Administer
  <2>1. ASSUME NEW i \in Image, NEW kind \in {"vm", "runtime"},
               ImportImage(i, kind) \/ UpdateImage(i, kind)
        PROVE  Named
    BY <1>1, <2>1, ImagesTidy
  <2>2. ASSUME NEW i \in Image, DeleteImage(i) PROVE Named
    BY <1>1, <2>2, ImagesTidy
  <2>3. ASSUME NEW p \in UserPool, NEW cfg \in PoolConfig, CreatePool(p, cfg)
        PROVE  Named
    BY <1>1, <2>3, CreatePoolTidy
  <2>4. ASSUME NEW p \in Pool, DeletePool(p) PROVE Named
    BY <1>1, <2>4, DeletePoolTidy
  <2>5. ASSUME NEW r \in Req, NEW cfg \in EnvConfig, BeginCreate(r, cfg) PROVE Named
    BY <1>1, <1>2, <2>5 DEF BeginCreate
  <2>6. ASSUME NEW r \in Req, NEW i \in Env, NEW cfg \in EnvConfig, BeginUpdate(r, i, cfg)
        PROVE  Named
    BY <1>1, <1>2, <2>6 DEF BeginUpdate
  <2>7. ASSUME NEW r \in Req, PrepareArtifact(r) \/ AbandonRequest(r) PROVE Named
    BY <1>1, <1>2, <2>7 DEF PrepareArtifact, AbandonRequest
  <2>8. ASSUME NEW r \in Req, CommitCreate(r) \/ CommitUpdate(r) PROVE Named
    BY <2>8, CommitNamed
  <2>9. ASSUME NEW i \in Env, RestartEnvironment(i) \/ DeleteEnvironment(i) PROVE Named
    BY <1>1, <2>9, RestartEnvironmentTidy, DeleteEnvironmentTidy
  <2>10. ASSUME NEW n \in Node, DeleteNode(n) PROVE Named
    BY <1>1, <1>3, <2>10, DeleteNodeKept DEF DeleteNode
  <2> QED BY <1>4, <2>1, <2>2, <2>3, <2>4, <2>5, <2>6, <2>7, <2>8, <2>9, <2>10 DEF Administer
<1>5. CASE Submit
  BY <1>1, <1>5, CreateExecutionTidy DEF Submit
<1>6. CASE Serve
  <2>1. ASSUME NEW n \in Node, Heartbeat(n) \/ StartAgent(n) PROVE Named
    BY <1>1, <1>3, <2>1, HeartbeatKept, StartAgentKept DEF Heartbeat, StartAgent
  <2>2. ASSUME NEW n \in Node, NEW i \in Image, ImageArrived(n, i) PROVE Named
    BY <1>1, <1>3, <2>2, ImageArrivedKept DEF ImageArrived
  <2>3. ASSUME NEW n \in Node, NEW a \in Artifact, ArtifactArrived(n, a) PROVE Named
    BY <1>1, <1>3, <2>3, ArtifactArrivedKept DEF ArtifactArrived
  <2>4. ASSUME NEW n \in Node, NEW p \in Pool,
               AddWarmInstance(n, p) \/ RemoveIdleInstance(n, p)
        PROVE  Named
    BY <1>1, <1>3, <2>4, WarmKept DEF AddWarmInstance, RemoveIdleInstance
  <2>5. ASSUME NEW n \in Node, NEW e \in Exec, NextWork(n, e) PROVE Named
    BY <1>1, <2>5, NextWorkTidy
  <2>6. ASSUME NEW n \in Node, NEW e \in Exec, NEW keepIdle \in BOOLEAN,
               CompleteExecution(n, e, keepIdle)
        PROVE  Named
    BY <1>1, <2>6, CompleteExecutionTidy
  <2> QED BY <1>6, <2>1, <2>2, <2>3, <2>4, <2>5, <2>6 DEF Serve
<1>7. CASE UNCHANGED vars
  BY <1>1, <1>2, <1>7 DEF vars
<1> QED BY <1>4, <1>5, <1>6, <1>7 DEF Next

-----------------------------------------------------------------------------
(* The theorems. *)

\* The controller starts in a state of the invariant.
LEMMA InitIInv == Init => IInv
<1> SUFFICES ASSUME Init PROVE IInv
  OBVIOUS
<1>1. /\ \A e \in Exec : cluster.execs[e] = None
      /\ \A p \in Pool : cluster.pools[p] = None
      /\ \A i \in Env : cluster.envs[i] = None
      /\ \A r \in Req : requests[r] = None
      /\ runs = {} /\ files = {}
  BY DEF Init
<1>2. cluster \in Cluster
  BY DEF Init, Cluster
<1>3. requests \in [Req -> CreateReq \cup UpdateReq \cup {None}]
  BY DEF Init
<1>4. Typed(cluster, requests, runs)
  BY <1>1, <1>2, <1>3 DEF Typed
<1>5. PoolsExist(cluster) /\ NodesKnown(cluster) /\ Expected(cluster, runs)
  BY <1>1 DEF PoolsExist, NodesKnown, Expected
<1>6. UniqueClaims(cluster, requests)
  BY <1>1 DEF UniqueClaims, Claims
<1> QED BY <1>1, <1>4, <1>5, <1>6 DEF IInv, Sound

\* Every step keeps the invariant.
LEMMA NextIInv == IInv /\ [Next]_vars => IInv'
<1> SUFFICES ASSUME IInv, [Next]_vars PROVE IInv'
  OBVIOUS
<1>1. CASE Administer
  <2>1. ASSUME NEW i \in Image, NEW kind \in {"vm", "runtime"},
               ImportImage(i, kind) \/ UpdateImage(i, kind)
        PROVE  Kept
    BY <2>1, ImportImageKept, UpdateImageKept
  <2>2. ASSUME NEW i \in Image, DeleteImage(i) PROVE Kept
    BY <2>2, DeleteImageKept
  <2>3. ASSUME NEW p \in UserPool, NEW cfg \in PoolConfig, CreatePool(p, cfg) PROVE Kept
    BY <2>3, CreatePoolKept
  <2>4. ASSUME NEW p \in Pool, DeletePool(p) PROVE Kept
    BY <2>4, DeletePoolKept
  <2>5. ASSUME NEW r \in Req, NEW cfg \in EnvConfig, BeginCreate(r, cfg) PROVE Kept
    BY <2>5, BeginCreateKept
  <2>6. ASSUME NEW r \in Req, NEW i \in Env, NEW cfg \in EnvConfig, BeginUpdate(r, i, cfg)
        PROVE  Kept
    BY <2>6, BeginUpdateKept
  <2>7. ASSUME NEW r \in Req, PrepareArtifact(r) \/ AbandonRequest(r) PROVE Kept
    BY <2>7, PrepareArtifactKept, AbandonRequestKept
  <2>8. ASSUME NEW r \in Req, CommitCreate(r) \/ CommitUpdate(r) PROVE Kept
    BY <2>8, CommitCreateKept, CommitUpdateKept
  <2>9. ASSUME NEW i \in Env, RestartEnvironment(i) \/ DeleteEnvironment(i) PROVE Kept
    BY <2>9, RestartEnvironmentKept, DeleteEnvironmentKept
  <2>10. ASSUME NEW n \in Node, DeleteNode(n) PROVE Kept
    BY <2>10, DeleteNodeKept
  <2>11. Kept
    BY <1>1, <2>1, <2>2, <2>3, <2>4, <2>5, <2>6, <2>7, <2>8, <2>9, <2>10 DEF Administer
  <2> QED BY <2>11 DEF Kept, IInv
<1>2. CASE Submit
  <2>1. Kept
    BY <1>2, CreateExecutionKept DEF Submit
  <2> QED BY <2>1 DEF Kept, IInv
<1>3. CASE Serve
  <2>1. ASSUME NEW n \in Node, Heartbeat(n) \/ StartAgent(n) PROVE Kept
    BY <2>1, HeartbeatKept, StartAgentKept
  <2>2. ASSUME NEW n \in Node, NEW i \in Image, ImageArrived(n, i) PROVE Kept
    BY <2>2, ImageArrivedKept
  <2>3. ASSUME NEW n \in Node, NEW a \in Artifact, ArtifactArrived(n, a) PROVE Kept
    BY <2>3, ArtifactArrivedKept
  <2>4. ASSUME NEW n \in Node, NEW p \in Pool,
               AddWarmInstance(n, p) \/ RemoveIdleInstance(n, p)
        PROVE  Kept
    BY <2>4, WarmKept
  <2>5. ASSUME NEW n \in Node, NEW e \in Exec, NextWork(n, e) PROVE Kept
    BY <2>5, NextWorkKept
  <2>6. ASSUME NEW n \in Node, NEW e \in Exec, NEW keepIdle \in BOOLEAN,
               CompleteExecution(n, e, keepIdle)
        PROVE  Kept
    BY <2>6, CompleteExecutionKept
  <2>7. Kept
    BY <1>3, <2>1, <2>2, <2>3, <2>4, <2>5, <2>6 DEF Serve
  <2> QED BY <2>7 DEF Kept, IInv
<1>4. CASE UNCHANGED vars
  BY <1>4 DEF vars, IInv
<1> QED BY <1>1, <1>2, <1>3, <1>4 DEF Next

\* The invariant holds in every reachable state of the controller.
THEOREM Invariance == Spec => []IInv
BY InitIInv, NextIInv, PTL DEF Spec

\* Every state has the type TypeOK says, whatever the handlers do.
THEOREM TypeCorrect == Spec => []TypeOK
<1>1. IInv => TypeOK
  BY DEF IInv, Sound, Typed, TypeOK
<1> QED BY <1>1, Invariance, PTL

\* No handler indexes the map of pools with a pool that is gone.
THEOREM PoolsOutliveExecutions == Spec => []ActivePoolExists
<1>1. IInv => ActivePoolExists
  BY DEF IInv, Sound, PoolsExist, ActivePoolExists
<1> QED BY <1>1, Invariance, PTL

\* No execution waits for a node the controller has forgotten.
THEOREM NodesOutlivePlacements == Spec => []PlacedOnKnownNode
<1>1. IInv => PlacedOnKnownNode
  BY DEF IInv, Sound, NodesKnown, PlacedOnKnownNode
<1> QED BY <1>1, Invariance, PTL

\* complete_execution accepts every report of a run that was handed out.
THEOREM ReportsAccepted == Spec => []ReportsAreExpected
<1>1. IInv => ReportsAreExpected
  BY DEF IInv, Sound, Expected, ReportsAreExpected
<1> QED BY <1>1, Invariance, PTL

\* Executions that share a pool are of one environment, so no MicroVM ever
\* serves two.
THEOREM Isolation == Spec => []IsolatedEnvironments
<1>1. IInv => IsolatedEnvironments
  <2> SUFFICES ASSUME IInv, NEW e \in Exec, NEW f \in Exec,
                      cluster.execs[e] # None, cluster.execs[f] # None,
                      cluster.execs[e].pool = cluster.execs[f].pool
               PROVE  cluster.execs[e].env = cluster.execs[f].env
    BY DEF IsolatedEnvironments
  <2> DEFINE p == cluster.execs[e].pool
             i == cluster.execs[e].env
             j == cluster.execs[f].env
  <2>1. p \in Pool /\ i \in Env /\ j \in Env
    BY ClusterParts DEF IInv, Sound, Typed, ExecRec
  <2>2. Claims(cluster, requests, i, p) /\ Claims(cluster, requests, j, p)
    BY DEF Claims
  <2> QED BY <2>1, <2>2 DEF IInv, Sound, UniqueClaims
<1> QED BY <1>1, Invariance, PTL

\* No queued execution could be placed whenever the lock is free: every handler
\* that frees room or readies a node runs schedule_queued, and the others make no
\* room.
THEOREM WorkConserved == Spec => []QueuedIsBlocked
<1> DEFINE B == Blocked(cluster, MaxExec)
<1>1. B => QueuedIsBlocked
  BY DEF Blocked, QueuedIsBlocked, Exec
<1>2. Init => B
  BY DEF Init, Blocked, IsQueued
<1>3. IInv /\ B /\ [Next]_vars => B'
  BY NextQueue DEF Queue
<1> HIDE DEF B
<1> QED BY <1>1, <1>2, <1>3, Invariance, PTL DEF Spec

\* The queue of a pool is served oldest first, the new submission included.
THEOREM QueueServedInOrder == Spec => NoOvertaking
<1> DEFINE B == Blocked(cluster, MaxExec)
           InTurn ==
             \A e, f \in Exec :
               /\ e < f
               /\ IsQueued(cluster, e) /\ IsQueued(cluster', e)
               /\ cluster'.execs[f] # None /\ cluster'.execs[f].status = "assigned"
               /\ cluster'.execs[f].pool = cluster'.execs[e].pool
               => cluster.execs[f] = cluster'.execs[f]
<1>1. Init => B
  BY DEF Init, Blocked, IsQueued
<1>2. IInv /\ B /\ [Next]_vars => B' /\ InTurn
  BY NextQueue DEF Queue, InOrder
<1>3. (Spec => [][InTurn]_vars) => (Spec => NoOvertaking)
  BY DEF NoOvertaking
<1> HIDE DEF B, InTurn
<1>4. Spec => [][InTurn]_vars
  BY <1>1, <1>2, Invariance, PTL DEF Spec
<1> QED BY <1>3, <1>4

\* The controller starts with empty books.
LEMMA InitBooks == Init => Books(cluster, requests)
<1> SUFFICES ASSUME Init PROVE Books(cluster, requests)
  OBVIOUS
<1>1. /\ \A n \in Node : cluster.nodes[n] = None
      /\ \A i \in Env : cluster.envs[i] = None
      /\ \A r \in Req : requests[r] = None
  BY DEF Init
<1>2. Accounts(cluster)
  BY <1>1 DEF Accounts, NoGhosts, Balanced, IdleAt
<1>3. Recorded(cluster, requests) = {}
  BY <1>1 DEF Recorded
<1> QED BY <1>2, <1>3 DEF Books, Sizes

\* What a node is shown to use is what its MicroVMs take, whatever is reused,
\* warmed, requeued or removed.
THEOREM BooksBalance == Spec => []UsedIsReserved
<1> DEFINE B == Books(cluster, requests)
<1>1. B => UsedIsReserved
  BY DEF Books, Accounts, Balanced, Booked, UsedIsReserved
<1>2. Init => B
  BY InitBooks
<1>3. IInv /\ B /\ [Next]_vars => B'
  BY NextBooks DEF BooksKept
<1> HIDE DEF B
<1> QED BY <1>1, <1>2, <1>3, Invariance, PTL DEF Spec

\* No step takes a pool past its max_instances, or further past it: an execution
\* that takes an idle MicroVM, a MicroVM kept idle, warmed, drained or reset are all
\* counted once, and schedule_queued counts what its own earlier turns placed.
THEOREM LimitKept == Spec => ScaleOutLimit
<1> DEFINE InLimit ==
      \A p \in Pool :
        /\ cluster.pools[p] # None /\ cluster'.pools[p] # None
        /\ cluster.pools[p].cfg.max = cluster'.pools[p].cfg.max
        /\ cluster.pools[p].cfg.max # None
        => LET before == Active(cluster, p) + Idle(cluster, p)
               after  == Active(cluster', p) + Idle(cluster', p)
           IN  after <= before \/ after <= cluster.pools[p].cfg.max
<1>1. IInv /\ [Next]_vars => InLimit
  <2>1. IInv => cluster \in Cluster
    BY DEF IInv, Sound, Typed
  <2>2. Limited(cluster, cluster') => InLimit
    BY DEF Limited, Instances
  <2> QED BY <2>1, <2>2, NextWithin, WithinLimited
<1>2. (Spec => [][InLimit]_vars) => (Spec => ScaleOutLimit)
  BY DEF ScaleOutLimit
<1> HIDE DEF InLimit
<1>3. Spec => [][InLimit]_vars
  BY <1>1, Invariance, PTL DEF Spec
<1> QED BY <1>2, <1>3

\* Only an update that read its environment before the pool was replaced leaves a
\* managed pool that no environment goes by and no execution will remove: every
\* other handler removes the pool with its last name, or keeps what runs on it.
THEOREM OrphansExplained == Spec => OrphansFromStaleUpdates
<1> DEFINE Explained ==
      Orphans(cluster') \subseteq Orphans(cluster)
      \/ \E r \in Req : StaleUpdate(r) /\ requests'[r] = None
<1>1. IInv /\ [Next]_vars => Explained
  BY NextNamed DEF Named
<1>2. (Spec => [][Explained]_vars) => (Spec => OrphansFromStaleUpdates)
  BY DEF OrphansFromStaleUpdates
<1> HIDE DEF Explained
<1>3. Spec => [][Explained]_vars
  BY <1>1, Invariance, PTL DEF Spec
<1> QED BY <1>2, <1>3

\* Only a request that was checked, or whose artifact was built, before a deletion
\* makes something go by an image or an artifact that is not there: delete_image
\* and delete_environment never take what is in use.
THEOREM LossesExplained == Spec => LossesFromStaleChecks
<1> DEFINE Explained ==
      \/ /\ GoneImages(cluster') \subseteq GoneImages(cluster)
         /\ GoneArtifacts(cluster', files') \subseteq GoneArtifacts(cluster, files)
      \/ \E r \in Req :
           /\ requests[r] # None /\ requests'[r] = None
           /\ \/ cluster.images[requests[r].cfg.image] = "absent"
              \/ requests[r].cfg.artifact \notin files \cup {None}
<1>1. IInv /\ [Next]_vars => Explained
  BY NextNamed DEF Named, NoLosses, Committed
<1>2. (Spec => [][Explained]_vars) => (Spec => LossesFromStaleChecks)
  BY DEF LossesFromStaleChecks
<1> HIDE DEF Explained
<1>3. Spec => [][Explained]_vars
  BY <1>1, Invariance, PTL DEF Spec
<1> QED BY <1>2, <1>3
=============================================================================
