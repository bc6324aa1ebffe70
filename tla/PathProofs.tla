----------------------------- MODULE PathProofs -----------------------------
(***************************************************************************)
(* Proofs about FlowPaths: the class Dijkstra finds, for every flow that   *)
(* the reachability check accepts, a chain of links that no other chain is *)
(* cheaper than.                                                           *)
(***************************************************************************)
EXTENDS FlowPaths, ProofFacts

(* The inductive invariant.                                                *)

(* Reachability check.  Whatever contains the source and is left by no     *)
(* link contains all that has been reached.                                *)
Closed(C) == start \in C /\ \A l \in ToSet(links) : l.src \in C => l.dst \in C

FlowTyped ==
    /\ links \in Topologies /\ start \in Host /\ end \in Host \ {start}
    /\ pending \in Seq(Node) /\ reached \subseteq Node
    /\ pc \in {"check", "loop", "road", "done", "rejected", "raised"}
    /\ pc \in {"check", "rejected"} => s = {} /\ turn = 0 /\ posMin = Unset
    /\ pc \in {"check", "rejected", "loop", "raised"} => path = <<>>

OnlyReachable ==
    \A C \in SUBSET Node : Closed(C) => reached \subseteq C /\ ToSet(pending) \subseteq C

EndReachable == \A C \in SUBSET Node : Closed(C) => end \in C

(* Search.                                                                 *)
Searching == pc \in {"loop", "road", "done", "raised"}
Vertices  == ToSet(nodes)
Open      == {n \in Vertices \ s : r[n] < Inf}

SearchTyped ==
    /\ nodes = number_of_vertices(links) /\ road = read_and_init(links)
    /\ start \in s /\ s \subseteq Vertices
    /\ r \in [Vertices -> 0 .. Inf] /\ r[start] = 0
    /\ f \in [Vertices -> Vertices \cup {None}]
    /\ posMin \in s \cup {Unset}
    /\ turn \in 0 .. Len(nodes) - 1

(* No settled node improves on what is known, none is further away than a  *)
(* node that is still to be settled.                                       *)
Relaxed       == \A k \in s : \A j \in Vertices : r[j] <= r[k] + road[<<k, j>>]
NearestFirst  == \A k \in s : r[k] < Inf /\ \A j \in Vertices \ s : r[k] <= r[j]

(* The predecessors account for the costs.                                 *)
Fathers ==
    /\ f[start] = None
    /\ \A i \in Vertices \ {start} :
          IF r[i] < Inf THEN f[i] \in s \ {i} /\ r[i] = r[f[i]] + road[<<f[i], i>>] ELSE f[i] = None

LargestWeight ==
    CHOOSE largest \in 0 .. Inf :
        /\ largest * Cardinality(Node) < Inf
        /\ \A t \in Topologies : \A l \in ToSet(t) : l.weight <= largest

(* A way through settled nodes that costs what has been found.             *)
IsFound(p, i) ==
    /\ p[1] = start /\ Last(p) = i
    /\ CostOf(p) = r[i] /\ r[i] <= (Len(p) - 1) * LargestWeight
    /\ \A k \in 1 .. Len(p) - 1 : p[k] \in s
WaysFound == \A i \in Vertices : r[i] < Inf => \E p \in Ways : IsFound(p, i)

(* Every turn settles a node, as long as there is one to settle.           *)
Progress == Cardinality(s) = turn + 1 \/ Open = {}

SearchInv == SearchTyped /\ Relaxed /\ NearestFirst /\ Fathers /\ WaysFound /\ Progress /\ EndReachable

(* The path is a chain of predecessors that ends at the destination.       *)
PathInv ==
    /\ end \in s /\ Open = {}
    /\ path \in Seq(s)
    /\ pc = "road" =>
          /\ node \in s
          /\ node = IF path = <<>> THEN end ELSE f[path[1]]
    /\ path # <<>> => path[Len(path)] = end
    /\ \A k \in 1 .. Len(path) - 1 : path[k + 1] # start /\ path[k] = f[path[k + 1]]
    /\ pc = "done" => path # <<>> /\ path[1] = start

PathIInv ==
    /\ FlowTyped
    /\ pc = "check" => OnlyReachable
    /\ Searching => SearchInv
    /\ pc \in {"road", "done"} => PathInv

-----------------------------------------------------------------------------
(* Facts about the data.                                                   *)
LEMMA WeightFacts ==
  /\ LargestWeight \in Nat /\ LargestWeight * Cardinality(Node) < Inf
  /\ \A t \in Topologies : \A l \in ToSet(t) : l.weight <= LargestWeight
  <1> DEFINE P(x) == /\ x * Cardinality(Node) < Inf
                     /\ \A t \in Topologies : \A l \in ToSet(t) : l.weight <= x
  <1>1. \E x \in 0 .. Inf : P(x)
    BY PathAssumption
  <1>2. LargestWeight = CHOOSE x \in 0 .. Inf : P(x)
    BY DEF LargestWeight
  <1> HIDE DEF P
  <1>3. LargestWeight \in 0 .. Inf /\ P(LargestWeight)
    BY <1>1, <1>2
  <1>4. LargestWeight \in Nat
    BY <1>3, PathAssumption
  <1> QED
    BY <1>3, <1>4 DEF P

LEMMA LinkFacts ==
  ASSUME NEW t \in Topologies
  PROVE  /\ t \in Seq(Link) /\ Len(t) \in Nat /\ DOMAIN t = 1 .. Len(t)
         /\ \A l \in ToSet(t) : /\ l \in Link /\ l.src \in Node /\ l.dst \in Node /\ l.src # l.dst
                                /\ l.weight \in Nat \ {0} /\ l.weight <= LargestWeight
         /\ \A k \in 1 .. Len(t) : t[k] \in ToSet(t)
  <1>1. t \in Seq(Link)
    BY PathAssumption
  <1>2. Len(t) \in Nat /\ DOMAIN t = 1 .. Len(t) /\ \A k \in 1 .. Len(t) : t[k] \in Link
    BY <1>1
  <1>3. \A l \in ToSet(t) : l \in Link
    BY <1>2 DEF ToSet
  <1>4. \A l \in Link : l.src \in Node /\ l.dst \in Node /\ l.weight \in Nat \ {0}
    BY DEF Link
  <1>5. \A k \in 1 .. Len(t) : t[k] \in ToSet(t)
    BY <1>2 DEF ToSet
  <1>6. \A l \in ToSet(t) : l.src # l.dst
    BY PathAssumption
  <1> QED
    BY <1>1, <1>2, <1>3, <1>4, <1>5, <1>6, WeightFacts

LEMMA GreatestExists ==
  ASSUME NEW n \in Nat, NEW S, S \subseteq 0 .. n, S # {}
  PROVE  Max(S) \in S
  <1> DEFINE T == {n - x : x \in S}
  <1>1. \A x \in S : n - x \in Nat
    OBVIOUS
  <1>1a. T \subseteq Nat /\ T # {}
    BY <1>1
  <1>2. PICK y \in T : \A z \in T : y <= z
    BY <1>1a, LeastExists
  <1>3. PICK x \in S : y = n - x
    BY <1>2
  <1>4. ASSUME NEW z \in S
        PROVE  x >= z
    <2>1. n - z \in T
      OBVIOUS
    <2> QED
      BY <1>2, <1>3, <2>1
  <1> QED
    BY <1>3, <1>4 DEF Max

LEMMA SmallestExists ==
  ASSUME NEW S, S \subseteq Nat, S # {}
  PROVE  Min(S) \in S
  BY LeastExists DEF Min

(* The matrix that read_and_init builds.                                   *)
LEMMA RoadFacts ==
  ASSUME links \in Topologies, NEW R, R = read_and_init(links)
  PROVE  /\ \A i, j \in Node : R[<<i, j>>] \in 0 .. Inf
         /\ \A i \in Node : R[<<i, i>>] = 0
         /\ \A i, j \in Node : i # j /\ R[<<i, j>>] < Inf =>
                \E l \in ToSet(links) : l.src = i /\ l.dst = j
         /\ \A l \in ToSet(links) : R[<<l.src, l.dst>>] <= LargestWeight
  <1> DEFINE Rows(p) == {i \in DOMAIN links : <<links[i].src, links[i].dst>> = p}
  <1>1. ASSUME NEW i \in Node, NEW j \in Node
        PROVE  R[<<i, j>>] = IF Rows(<<i, j>>) # {} THEN links[Max(Rows(<<i, j>>))].weight
                                ELSE IF i = j THEN 0 ELSE Inf
    BY DEF read_and_init
  <1>2. ASSUME NEW i \in Node, NEW j \in Node, Rows(<<i, j>>) # {}
        PROVE  \E l \in ToSet(links) : l.src = i /\ l.dst = j /\ R[<<i, j>>] = l.weight
    <2>1. Rows(<<i, j>>) \subseteq 0 .. Len(links)
      BY LinkFacts
    <2>2. Max(Rows(<<i, j>>)) \in Rows(<<i, j>>)
      BY <1>2, <2>1, LinkFacts, GreatestExists
    <2> DEFINE k == Max(Rows(<<i, j>>))
    <2>3. k \in DOMAIN links /\ links[k].src = i /\ links[k].dst = j
      BY <2>2
    <2>4. links[k] \in ToSet(links)
      BY <2>3, LinkFacts
    <2> QED
      BY <1>1, <1>2, <2>3, <2>4
  <1>3. \A l \in ToSet(links) : Rows(<<l.src, l.dst>>) # {}
    BY DEF ToSet
  <1> HIDE DEF Rows
  <1>4. ASSUME NEW i \in Node, NEW j \in Node
        PROVE  R[<<i, j>>] \in 0 .. Inf
    <2>1. CASE Rows(<<i, j>>) # {}
      <3>1. PICK l \in ToSet(links) : l.src = i /\ l.dst = j /\ R[<<i, j>>] = l.weight
        BY <1>2, <2>1
      <3>2. l.weight \in Nat /\ l.weight <= LargestWeight
        BY LinkFacts
      <3>3. LargestWeight < Inf
        <4>1. Cardinality(Node) \in Nat \ {0}
          BY PathAssumption, FS_CardinalityType, FS_EmptySet
        <4>2. LargestWeight <= LargestWeight * Cardinality(Node)
          BY <4>1, WeightFacts
        <4>3. LargestWeight * Cardinality(Node) \in Int
          BY <4>1, WeightFacts
        <4> QED
          BY <4>2, <4>3, WeightFacts, PathAssumption
      <3> QED
        BY <3>1, <3>2, <3>3, WeightFacts, PathAssumption
    <2>2. CASE Rows(<<i, j>>) = {}
      BY <2>2, <1>1, PathAssumption
    <2> QED
      BY <2>1, <2>2
  <1>5. ASSUME NEW i \in Node
        PROVE  R[<<i, i>>] = 0
    BY <1>1, <1>2, LinkFacts
  <1>6. ASSUME NEW i \in Node, NEW j \in Node, i # j, R[<<i, j>>] < Inf
        PROVE  \E l \in ToSet(links) : l.src = i /\ l.dst = j
    <2>1. ~(Inf < Inf)
      BY PathAssumption
    <2> QED
      BY <1>1, <1>2, <1>6, <2>1
  <1>7. ASSUME NEW l \in ToSet(links)
        PROVE  R[<<l.src, l.dst>>] <= LargestWeight
    BY <1>2, <1>3, LinkFacts
  <1> QED
    BY <1>4, <1>5, <1>6, <1>7
-----------------------------------------------------------------------------
(* The elements of a set of natural numbers are ranked 1, 2, ...           *)
LEMMA RankFacts ==
  ASSUME NEW n \in Nat, NEW S, S \subseteq 1 .. n
  PROVE  /\ IsFiniteSet(S) /\ Cardinality(S) \in Nat
         /\ \A i, j \in S : Rank(S, i) = Rank(S, j) => i = j
         /\ \A k \in 1 .. Cardinality(S) : \E i \in S : Rank(S, i) = k
         /\ \A i \in S : Rank(S, i) \in 1 .. Cardinality(S)
  <1> DEFINE Below(i) == {j \in S : j <= i}
  <1>1. IsFiniteSet(1 .. n)
    BY FS_Interval
  <1>2. IsFiniteSet(S)
    BY <1>1, FS_Subset
  <1>3. Cardinality(S) \in Nat
    BY <1>2, FS_CardinalityType
  <1>4. ASSUME NEW i \in S
        PROVE  IsFiniteSet(Below(i)) /\ Rank(S, i) \in 1 .. Cardinality(S)
    <2>1. Below(i) \in SUBSET S
      OBVIOUS
    <2>2. IsFiniteSet(Below(i)) /\ Cardinality(Below(i)) <= Cardinality(S)
      BY <1>2, <2>1, FS_Subset
    <2>3. i \in Below(i)
      OBVIOUS
    <2>4. Cardinality(Below(i)) \in Nat /\ Cardinality(Below(i)) # 0
      BY <2>2, <2>3, FS_CardinalityType, FS_EmptySet
    <2> QED
      BY <1>3, <2>2, <2>4 DEF Rank
  <1>5. ASSUME NEW i \in S, NEW j \in S, i < j
        PROVE  Rank(S, i) # Rank(S, j)
    <2>1. Below(i) \in SUBSET Below(j)
      <3>1. ASSUME NEW k \in S, k <= i
            PROVE  k <= j
        <4>1. k \in Int /\ i \in Int /\ j \in Int
          OBVIOUS
        <4> QED
          BY <1>5, <3>1, <4>1
      <3> QED
        BY <3>1
    <2>2. j \in Below(j) /\ j \notin Below(i)
      BY <1>5
    <2>3. IsFiniteSet(Below(j))
      BY <1>4
    <2>4. Cardinality(Below(j)) # Cardinality(Below(i))
      BY <2>1, <2>2, <2>3, FS_Subset
    <2> QED
      BY <2>4 DEF Rank
  <1>6. \A i, j \in S : Rank(S, i) = Rank(S, j) => i = j
    <2> SUFFICES ASSUME NEW i \in S, NEW j \in S, i # j
                 PROVE  Rank(S, i) # Rank(S, j)
      OBVIOUS
    <2>1. i < j \/ j < i
      OBVIOUS
    <2> QED
      BY <2>1, <1>5
  <1> DEFINE rank == [i \in S |-> Rank(S, i)]
             K == 1 .. Cardinality(S)
  <1>7. rank \in Injection(S, K)
    <2>1. rank \in [S -> K]
      BY <1>4
    <2>2. \A i, j \in S : rank[i] = rank[j] => i = j
      BY <1>6
    <2> QED
      BY <2>1, <2>2 DEF Injection, IsInjective
  <1>8. IsFiniteSet(K) /\ Cardinality(K) = Cardinality(S)
    BY <1>3, FS_Interval
  <1>9. rank \in Surjection(S, K)
    BY <1>7, <1>8, FS_Injection
  <1>10. \A k \in K : \E i \in S : rank[i] = k
    BY <1>9 DEF Surjection
  <1> QED
    BY <1>2, <1>3, <1>4, <1>6, <1>10

(* Every end of a row is among the nodes of the search.                    *)
LEMMA VertexFacts ==
  ASSUME NEW t \in Topologies, NEW V, V = number_of_vertices(t)
  PROVE  /\ V \in Seq(Node) /\ ToSet(V) \subseteq Node
         /\ \A l \in ToSet(t) : l.src \in ToSet(V) /\ l.dst \in ToSet(V)
         /\ IsFiniteSet(ToSet(V)) /\ Len(V) \in Nat /\ Cardinality(ToSet(V)) <= Len(V)
         /\ DOMAIN V = 1 .. Len(V)
  <1> DEFINE ends  == RowEnds(t)
             first == Firsts(ends)
             n     == 2 * Len(t)
             at(k) == CHOOSE i \in first : Rank(first, i) = k
  <1>1. n \in Nat /\ DOMAIN ends = 1 .. n
    BY LinkFacts DEF RowEnds
  <1>2. ASSUME NEW i \in 1 .. n
        PROVE  ends[i] \in Node
    <2>1. i % 2 = 1 => (i + 1) \div 2 \in 1 .. Len(t)
      BY LinkFacts
    <2>2. i % 2 # 1 => i \div 2 \in 1 .. Len(t)
      BY LinkFacts
    <2>3. ends[i] = IF i % 2 = 1 THEN t[(i + 1) \div 2].src ELSE t[i \div 2].dst
      BY DEF RowEnds
    <2> QED
      BY <2>1, <2>2, <2>3, LinkFacts
  <1>3. ASSUME NEW k \in 1 .. Len(t)
        PROVE  /\ 2 * k - 1 \in 1 .. n /\ ends[2 * k - 1] = t[k].src
               /\ 2 * k \in 1 .. n /\ ends[2 * k] = t[k].dst
    <2>1. 2 * k - 1 \in 1 .. n /\ 2 * k \in 1 .. n
      BY LinkFacts
    <2>2. (2 * k - 1) % 2 = 1 /\ ((2 * k - 1) + 1) \div 2 = k
      OBVIOUS
    <2>3. (2 * k) % 2 = 0 /\ (2 * k) \div 2 = k
      OBVIOUS
    <2> QED
      BY <2>1, <2>2, <2>3 DEF RowEnds
  <1> HIDE DEF ends, n
  <1>4. first \subseteq 1 .. n
    BY <1>1 DEF Firsts
  <1>5. ASSUME NEW i \in 1 .. n
        PROVE  \E j \in first : ends[j] = ends[i]
    <2> DEFINE Same == {j \in 1 .. n : ends[j] = ends[i]}
    <2>1. Same \subseteq Nat /\ Same # {}
      BY <1>1
    <2>2. PICK j \in Same : \A k \in Same : j <= k
      BY <2>1, LeastExists
    <2>3. \A k \in 1 .. j - 1 : ends[k] # ends[j]
      BY <2>2, <1>1
    <2> QED
      BY <2>2, <2>3, <1>1 DEF Firsts
  <1> DEFINE C == Cardinality(first)
  <1>6. C \in Nat
    BY <1>1, <1>4, RankFacts
  <1>7. V = [k \in 1 .. C |-> ends[at(k)]]
    BY DEF number_of_vertices, ends
  <1> HIDE DEF first
  <1>8. ASSUME NEW k \in 1 .. C
        PROVE  at(k) \in first /\ Rank(first, at(k)) = k
    <2>1. \E i \in first : Rank(first, i) = k
      BY <1>1, <1>4, RankFacts
    <2> QED
      BY <2>1
  <1>9. \A i \in first : Rank(first, i) \in 1 .. C /\ at(Rank(first, i)) = i
    <2> SUFFICES ASSUME NEW i \in first
                 PROVE  Rank(first, i) \in 1 .. C /\ at(Rank(first, i)) = i
      OBVIOUS
    <2>1. Rank(first, i) \in 1 .. C
      BY <1>1, <1>4, RankFacts
    <2>2. at(Rank(first, i)) \in first /\ Rank(first, at(Rank(first, i))) = Rank(first, i)
      BY <1>8, <2>1
    <2> QED
      BY <1>1, <1>4, <2>1, <2>2, RankFacts
  <1> HIDE DEF at, C
  <1>10. V \in Seq(Node) /\ Len(V) = C /\ DOMAIN V = 1 .. C /\ \A k \in 1 .. C : V[k] = ends[at(k)] /\ V[k] \in Node
    <2>1. \A k \in 1 .. C : ends[at(k)] \in Node
      BY <1>8, <1>4, <1>2
    <2> QED
      BY <1>6, <1>7, <2>1
  <1>11. ASSUME NEW i \in 1 .. n
         PROVE  ends[i] \in ToSet(V)
    <2>1. PICK j \in first : ends[j] = ends[i]
      BY <1>5
    <2>2. V[Rank(first, j)] = ends[i] /\ Rank(first, j) \in DOMAIN V
      BY <1>9, <1>10, <2>1
    <2> QED
      BY <2>2 DEF ToSet
  <1>12. \A l \in ToSet(t) : l.src \in ToSet(V) /\ l.dst \in ToSet(V)
    <2> SUFFICES ASSUME NEW l \in ToSet(t)
                 PROVE  l.src \in ToSet(V) /\ l.dst \in ToSet(V)
      OBVIOUS
    <2>1. PICK k \in 1 .. Len(t) : l = t[k]
      BY LinkFacts DEF ToSet
    <2> QED
      BY <2>1, <1>3, <1>11
  <1>13. ToSet(V) \subseteq Node
    BY <1>10 DEF ToSet
  <1>14. IsFiniteSet(ToSet(V)) /\ Cardinality(ToSet(V)) <= C
    <2>1. V \in Surjection(1 .. C, ToSet(V))
      <3>1. V \in [1 .. C -> ToSet(V)]
        BY <1>7, <1>10 DEF ToSet
      <3>2. \A x \in ToSet(V) : \E k \in 1 .. C : V[k] = x
        BY <1>10 DEF ToSet
      <3> QED
        BY <3>1, <3>2 DEF Surjection
    <2>2. IsFiniteSet(1 .. C) /\ Cardinality(1 .. C) = C
      BY <1>6, FS_Interval
    <2> QED
      BY <2>1, <2>2, FS_Surjection
  <1> QED
    BY <1>6, <1>10, <1>12, <1>13, <1>14
-----------------------------------------------------------------------------
(* The reference: ways and what they cost.                                 *)
LEMMA WayIsSequence ==
  ASSUME NEW p \in Ways
  PROVE  /\ p \in Seq(Node) /\ Len(p) \in Nat \ {0} /\ Len(p) <= Cardinality(Node) /\ DOMAIN p = 1 .. Len(p)
         /\ \A a, b \in 1 .. Len(p) : p[a] = p[b] => a = b
  <1>1. Cardinality(Node) \in Nat
    BY PathAssumption, FS_CardinalityType
  <1>2. PICK n \in 1 .. Cardinality(Node) : p \in [1 .. n -> Node] /\ IsInjective(p)
    BY DEF Ways
  <1>3. n \in Nat \ {0} /\ n <= Cardinality(Node)
    BY <1>1, <1>2
  <1>4. p \in Seq(Node) /\ Len(p) = n /\ DOMAIN p = 1 .. n
    BY <1>2, <1>3
  <1> QED
    BY <1>2, <1>3, <1>4 DEF IsInjective

LEMMA SequenceIsWay ==
  ASSUME NEW p \in Seq(Node), Len(p) # 0, \A a, b \in 1 .. Len(p) : p[a] = p[b] => a = b
  PROVE  p \in Ways /\ Len(p) <= Cardinality(Node)
  <1> DEFINE n == Len(p)
  <1>1. n \in Nat \ {0} /\ p \in [1 .. n -> Node]
    OBVIOUS
  <1>2. IsInjective(p)
    BY <1>1 DEF IsInjective
  <1>3. p \in Injection(1 .. n, Node)
    BY <1>1 DEF Injection, IsInjective
  <1>4. Cardinality(1 .. n) <= Cardinality(Node) /\ Cardinality(1 .. n) = n /\ Cardinality(Node) \in Nat
    BY <1>1, <1>3, PathAssumption, FS_Injection, FS_Interval, FS_CardinalityType
  <1>5. n \in 1 .. Cardinality(Node)
    BY <1>1, <1>4
  <1> QED
    BY <1>1, <1>2, <1>4, <1>5 DEF Ways

(* The partial sums of the costs of a way's links.                         *)
Sums(R, p) ==
  CHOOSE sum : sum = [i \in 0 .. Len(p) - 1 |-> IF i = 0 THEN 0 ELSE sum[i - 1] + R[<<p[i], p[i + 1]>>]]

CostIn(R, p) == Sums(R, p)[Len(p) - 1]

IsRoad(R) == \A i, j \in Node : R[<<i, j>>] \in Nat

LEMMA CostFacts ==
  ASSUME NEW R, IsRoad(R), NEW p \in Seq(Node), Len(p) # 0
  PROVE  /\ Sums(R, p)[0] = 0
         /\ \A i \in 0 .. Len(p) - 1 : Sums(R, p)[i] \in Nat
         /\ \A i \in 1 .. Len(p) - 1 : Sums(R, p)[i] = Sums(R, p)[i - 1] + R[<<p[i], p[i + 1]>>]
         /\ CostIn(R, p) = Sums(R, p)[Len(p) - 1]
  <1> DEFINE n == Len(p) - 1
             step == [x \in (0 .. n - 1) \X Nat |-> x[2] + R[<<p[x[1] + 1], p[x[1] + 2]>>]]
             G == Sums(R, p)
  <1>1. n \in Nat /\ \A i \in 0 .. n - 1 : R[<<p[i + 1], p[i + 2]>>] \in Nat
    <2>1. Len(p) \in Nat /\ \A i \in 1 .. Len(p) : p[i] \in Node
      OBVIOUS
    <2>2. \A i \in 0 .. n - 1 : p[i + 1] \in Node /\ p[i + 2] \in Node
      BY <2>1
    <2> QED
      BY <2>1, <2>2 DEF IsRoad
  <1>2. /\ step \in [(0 .. n - 1) \X Nat -> Nat]
        /\ \A i \in 0 .. n - 1, c \in Nat : step[<<i, c>>] = c + R[<<p[i + 1], p[i + 2]>>]
    <2> HIDE DEF n
    <2>1. \A x \in (0 .. n - 1) \X Nat : x[2] + R[<<p[x[1] + 1], p[x[1] + 2]>>] \in Nat
      BY <1>1
    <2> QED
      BY <2>1
  <1> HIDE DEF step
  <1>3. PICK F : IsLoop(Nat, 0, step, n, F)
    <2> HIDE DEF n
    <2> QED
      BY <1>1, <1>2, LoopExists
  <1>4. ASSUME NEW i \in 0 .. n
        PROVE  F[i] = IF i = 0 THEN 0 ELSE F[i - 1] + R[<<p[i], p[i + 1]>>]
    <2>1. \A k \in 0 .. n : /\ F[k] \in Nat
                            /\ F[k] = IF k = 0 THEN 0 ELSE step[<<k - 1, F[k - 1]>>]
                            /\ k # 0 => k - 1 \in 0 .. n - 1 /\ F[k - 1] \in Nat
      <3> HIDE DEF n
      <3> QED
        BY <1>1, <1>3, LoopEquation, Zenon
    <2>2. CASE i = 0
      BY <2>1, <2>2
    <2>3. CASE i # 0
      <3>1. i - 1 \in 0 .. n - 1 /\ F[i - 1] \in Nat /\ F[i] = step[<<i - 1, F[i - 1]>>]
        BY <2>1, <2>3
      <3>2. (i - 1) + 1 = i /\ (i - 1) + 2 = i + 1
        BY <1>1
      <3> QED
        BY <1>2, <2>3, <3>1, <3>2
    <2> QED
      BY <2>2, <2>3
  <1>5. F = [i \in 0 .. n |-> IF i = 0 THEN 0 ELSE F[i - 1] + R[<<p[i], p[i + 1]>>]]
    BY <1>3, <1>4 DEF IsLoop
  <1>6. G = [i \in 0 .. n |-> IF i = 0 THEN 0 ELSE G[i - 1] + R[<<p[i], p[i + 1]>>]]
    BY <1>5, Zenon DEF Sums
  <1>7. CostIn(R, p) = G[n]
    BY DEF CostIn
  <1> HIDE DEF G, n
  <1>8. \A i \in 0 .. n : G[i] = IF i = 0 THEN 0 ELSE G[i - 1] + R[<<p[i], p[i + 1]>>]
    BY <1>6, Zenon
  <1>9. G[0] = 0 /\ \A i \in 1 .. n : G[i] = G[i - 1] + R[<<p[i], p[i + 1]>>]
    <2>1. 0 \in 0 .. n /\ \A i \in 1 .. n : i \in 0 .. n /\ i # 0
      BY <1>1
    <2> QED
      BY <1>8, <2>1, Zenon
  <1>10. 0 .. n \subseteq {i \in 0 .. n : G[i] \in Nat}
    <2> DEFINE S == {i \in 0 .. n : G[i] \in Nat}
    <2>1. 0 \in S
      BY <1>1, <1>9
    <2>2. ASSUME NEW i \in 0 .. n - 1, i \in S
          PROVE  i + 1 \in S
      <3>1. i + 1 \in 1 .. n /\ (i + 1) - 1 = i /\ (i + 1) + 1 = i + 2
        BY <1>1
      <3>2. G[i + 1] = G[i] + R[<<p[i + 1], p[i + 2]>>]
        BY <1>9, <3>1
      <3> QED
        BY <1>1, <2>2, <3>1, <3>2
    <2> HIDE DEF S
    <2>3. 0 .. n \subseteq S
      BY <1>1, <2>1, <2>2, IntervalInduction
    <2> QED
      BY <2>3 DEF S
  <1> QED
    BY <1>7, <1>9, <1>10 DEF G, n

(* One link more.                                                          *)
LEMMA CostOfLonger ==
  ASSUME NEW R, IsRoad(R), NEW p \in Seq(Node), Len(p) # 0, NEW j \in Node
  PROVE  CostIn(R, Append(p, j)) = CostIn(R, p) + R[<<p[Len(p)], j>>]
  <1> DEFINE n == Len(p)
             q == Append(p, j)
  <1>1. n \in Nat \ {0} /\ q \in Seq(Node) /\ Len(q) = n + 1 /\ q[n + 1] = j /\ \A i \in 1 .. n : q[i] = p[i]
    OBVIOUS
  <1> DEFINE G == Sums(R, p)
             H == Sums(R, q)
             S == {i \in 0 .. n - 1 : H[i] = G[i]}
  <1>2. /\ G[0] = 0 /\ \A i \in 1 .. n - 1 : G[i] = G[i - 1] + R[<<p[i], p[i + 1]>>]
        /\ CostIn(R, p) = G[n - 1]
    BY CostFacts
  <1>3. Len(q) # 0
    BY <1>1
  <1>4. /\ H[0] = 0 /\ \A i \in 1 .. Len(q) - 1 : H[i] = H[i - 1] + R[<<q[i], q[i + 1]>>]
        /\ CostIn(R, q) = H[Len(q) - 1]
    <2> HIDE DEF q
    <2> QED
      BY <1>1, <1>3, CostFacts
  <1> HIDE DEF G, H, q, n
  <1>5. 0 \in S
    BY <1>1, <1>2, <1>4
  <1>6. ASSUME NEW i \in 0 .. (n - 1) - 1, i \in S
        PROVE  i + 1 \in S
    <2>1. i + 1 \in 1 .. n - 1 /\ i + 1 \in 1 .. Len(q) - 1 /\ (i + 1) - 1 = i /\ (i + 1) + 1 = i + 2
      BY <1>1
    <2>2. q[i + 1] = p[i + 1] /\ q[i + 2] = p[i + 2]
      BY <1>1
    <2>3. H[i + 1] = H[i] + R[<<q[i + 1], q[i + 2]>>]
      BY <1>4, <2>1
    <2>4. G[i + 1] = G[i] + R[<<p[i + 1], p[i + 2]>>]
      BY <1>2, <2>1
    <2>5. H[i] = G[i]
      BY <1>6
    <2>6. i + 1 \in 0 .. n - 1
      BY <1>1
    <2> QED
      BY <2>2, <2>3, <2>4, <2>5, <2>6
  <1>7. 0 .. n - 1 \subseteq S
    <2> HIDE DEF S
    <2>1. n - 1 \in Nat
      BY <1>1
    <2> QED
      BY <1>5, <1>6, <2>1, IntervalInduction
  <1>8. H[n - 1] = G[n - 1]
    BY <1>1, <1>7
  <1>9. n \in 1 .. Len(q) - 1 /\ Len(q) - 1 = n /\ q[n] = p[n] /\ q[n + 1] = j
    BY <1>1
  <1>10. H[n] = H[n - 1] + R[<<q[n], q[n + 1]>>]
    BY <1>4, <1>9
  <1> QED
    BY <1>2, <1>4, <1>8, <1>9, <1>10 DEF q, n

LEMMA CostIsCost ==
  ASSUME NEW p
  PROVE  CostOf(p) = CostIn(road, p) /\ CostOf(p)' = CostIn(road', p)
  BY Zenon DEF CostOf, CostIn, Sums
-----------------------------------------------------------------------------
(* No way is cheaper than what has been found for a settled node: as long  *)
(* as the way stays among settled nodes, each link is Relaxed, and where it *)
(* leaves them, the node it comes to is further away (NearestFirst).       *)
LEMMA NoWayIsCheaper ==
  ASSUME IsRoad(road), SearchTyped, Vertices \subseteq Node, Inf \in Nat,
         \A k \in s : \A j \in Node \ Vertices : road[<<k, j>>] >= Inf,
         Relaxed, NearestFirst,
         NEW i \in s, NEW p \in Ways, p[1] = start, Last(p) = i
  PROVE  r[i] <= CostIn(road, p)
  <1> DEFINE n == Len(p) - 1
             G == Sums(road, p)
             S == {k \in 0 .. n : r[i] <= G[k] \/ (p[k + 1] \in s /\ r[p[k + 1]] <= G[k])}
  <1>1. p \in Seq(Node) /\ Len(p) # 0 /\ n \in Nat /\ \A k \in 0 .. n : p[k + 1] \in Node
    BY WayIsSequence
  <1>2. /\ G[0] = 0 /\ \A k \in 0 .. n : G[k] \in Nat
        /\ \A k \in 1 .. n : G[k] = G[k - 1] + road[<<p[k], p[k + 1]>>]
        /\ CostIn(road, p) = G[n]
    BY <1>1, CostFacts
  <1>3. \A k \in Vertices : r[k] \in Nat /\ r[k] <= Inf
    BY DEF SearchTyped
  <1>4. s \subseteq Vertices /\ start \in s /\ r[start] = 0 /\ r[i] < Inf
    BY DEF SearchTyped, NearestFirst
  <1>5. Last(p) = p[n + 1]
    BY <1>1 DEF Last
  <1> HIDE DEF n, G
  <1>6. 0 \in S
    BY <1>1, <1>2, <1>4
  <1>7. ASSUME NEW k \in 0 .. n - 1, k \in S
        PROVE  k + 1 \in S
    <2>1. k + 1 \in 1 .. n /\ k + 1 \in 0 .. n /\ k \in 0 .. n /\ (k + 1) - 1 = k
      BY <1>1
    <2>2. p[k + 1] \in Node /\ p[(k + 1) + 1] \in Node
      BY <1>1, <2>1
    <2> DEFINE a == p[k + 1]
               b == p[(k + 1) + 1]
    <2>3. G[k + 1] = G[k] + road[<<a, b>>] /\ road[<<a, b>>] \in Nat /\ G[k] \in Nat /\ G[k + 1] \in Nat
      BY <1>2, <2>1, <2>2 DEF IsRoad
    <2> HIDE DEF a, b
    <2>4. r[i] \in Nat
      BY <1>3, <1>4
    <2>5. CASE r[i] <= G[k]
      <3>1. r[i] <= G[k + 1]
        BY <2>3, <2>4, <2>5
      <3> QED
        BY <2>1, <3>1
    <2>6. CASE a \in s /\ r[a] <= G[k]
      <3>1. r[a] \in Nat
        BY <1>3, <1>4, <2>6
      <3>2. CASE b \notin Vertices
        <4>1. road[<<a, b>>] >= Inf
          BY <2>2, <2>6, <3>2 DEF b
        <4>2. r[i] <= G[k + 1]
          BY <1>4, <2>3, <2>4, <4>1
        <4> QED
          BY <2>1, <4>2
      <3>3. CASE b \in Vertices
        <4>1. r[b] <= r[a] + road[<<a, b>>] /\ r[b] \in Nat
          BY <1>3, <2>6, <3>3 DEF Relaxed
        <4>2. r[b] <= G[k + 1]
          BY <2>3, <2>6, <3>1, <4>1
        <4>3. CASE b \in s
          BY <2>1, <4>2, <4>3 DEF b
        <4>4. CASE b \notin s
          <5>1. r[i] <= r[b]
            BY <3>3, <4>4 DEF NearestFirst
          <5>2. r[i] <= G[k + 1]
            BY <2>3, <2>4, <4>1, <4>2, <5>1
          <5> QED
            BY <2>1, <5>2
        <4> QED
          BY <4>3, <4>4
      <3> QED
        BY <3>2, <3>3
    <2> QED
      BY <1>7, <2>5, <2>6 DEF a
  <1>8. n \in S
    <2> HIDE DEF S
    <2>1. 0 .. n \subseteq S
      BY <1>1, <1>6, <1>7, IntervalInduction
    <2> QED
      BY <1>1, <2>1
  <1> QED
    BY <1>2, <1>5, <1>8

(* The cost of a chain of predecessors.                                    *)
LEMMA CostOfChain ==
  ASSUME IsRoad(road), NEW p \in Seq(Node), Len(p) # 0, \A k \in 1 .. Len(p) : r[p[k]] \in Nat,
         \A k \in 1 .. Len(p) - 1 : r[p[k + 1]] = r[p[k]] + road[<<p[k], p[k + 1]>>]
  PROVE  r[p[Len(p)]] = r[p[1]] + CostIn(road, p)
  <1> DEFINE n == Len(p) - 1
             G == Sums(road, p)
             S == {k \in 0 .. n : r[p[k + 1]] = r[p[1]] + G[k]}
  <1>1. n \in Nat /\ n + 1 = Len(p)
    OBVIOUS
  <1>2. /\ G[0] = 0 /\ \A k \in 0 .. n : G[k] \in Nat
        /\ \A k \in 1 .. n : G[k] = G[k - 1] + road[<<p[k], p[k + 1]>>]
        /\ CostIn(road, p) = G[n]
    BY CostFacts
  <1>3. \A k \in 1 .. n : r[p[k + 1]] = r[p[k]] + road[<<p[k], p[k + 1]>>] /\ road[<<p[k], p[k + 1]>>] \in Nat
    <2>1. \A k \in 1 .. n : p[k] \in Node /\ p[k + 1] \in Node
      OBVIOUS
    <2> QED
      BY <2>1 DEF IsRoad
  <1>4. \A k \in 1 .. n + 1 : r[p[k]] \in Nat
    OBVIOUS
  <1> HIDE DEF n, G
  <1>5. 0 \in S
    BY <1>1, <1>2, <1>4
  <1>6. ASSUME NEW k \in 0 .. n - 1, k \in S
        PROVE  k + 1 \in S
    <2>1. k + 1 \in 1 .. n /\ k + 1 \in 0 .. n /\ k \in 0 .. n /\ (k + 1) - 1 = k
      BY <1>1
    <2> DEFINE w == road[<<p[k + 1], p[(k + 1) + 1]>>]
    <2>2. G[k + 1] = G[k] + w /\ G[k] \in Nat
      BY <1>2, <2>1
    <2>3. r[p[(k + 1) + 1]] = r[p[k + 1]] + w /\ w \in Nat
      BY <1>3, <2>1
    <2>4. r[p[1]] \in Nat
      BY <1>1, <1>4
    <2>5. r[p[k + 1]] = r[p[1]] + G[k]
      BY <1>6
    <2> HIDE DEF w
    <2>6. r[p[(k + 1) + 1]] = r[p[1]] + G[k + 1]
      BY <2>2, <2>3, <2>4, <2>5
    <2> QED
      BY <2>1, <2>6
  <1>7. n \in S
    <2> HIDE DEF S
    <2>1. 0 .. n \subseteq S
      BY <1>1, <1>5, <1>6, IntervalInduction
    <2> QED
      BY <1>1, <2>1
  <1> QED
    BY <1>1, <1>2, <1>7
-----------------------------------------------------------------------------
LEMMA GraphFacts ==
  ASSUME links \in Topologies, NEW N, N = number_of_vertices(links), NEW R, R = read_and_init(links)
  PROVE  /\ IsRoad(R) /\ Inf \in Nat
         /\ ToSet(N) \subseteq Node /\ IsFiniteSet(ToSet(N)) /\ Len(N) \in Nat
         /\ Cardinality(ToSet(N)) <= Len(N)
         /\ \A i, j \in Node : R[<<i, j>>] \in 0 .. Inf /\ (R[<<i, i>>] = 0)
         /\ \A i \in Node : \A j \in Node : R[<<i, j>>] < Inf /\ i # j =>
                /\ i \in ToSet(N) /\ j \in ToSet(N)
                /\ R[<<i, j>>] <= LargestWeight
                /\ \E l \in ToSet(links) : l.src = i /\ l.dst = j
         /\ \A l \in ToSet(links) : R[<<l.src, l.dst>>] < Inf /\ R[<<l.src, l.dst>>] <= LargestWeight
  <1>1. Inf \in Nat
    BY PathAssumption
  <1>2. /\ ToSet(N) \subseteq Node /\ IsFiniteSet(ToSet(N)) /\ Len(N) \in Nat
        /\ Cardinality(ToSet(N)) <= Len(N)
        /\ \A l \in ToSet(links) : l.src \in ToSet(N) /\ l.dst \in ToSet(N)
    BY VertexFacts
  <1>3. /\ \A i, j \in Node : R[<<i, j>>] \in 0 .. Inf
        /\ \A i \in Node : R[<<i, i>>] = 0
        /\ \A i, j \in Node : i # j /\ R[<<i, j>>] < Inf => \E l \in ToSet(links) : l.src = i /\ l.dst = j
        /\ \A l \in ToSet(links) : R[<<l.src, l.dst>>] <= LargestWeight
    BY RoadFacts
  <1>4. IsRoad(R)
    <2>1. \A x \in 0 .. Inf : x \in Nat
      BY <1>1
    <2> QED
      BY <1>3, <2>1 DEF IsRoad
  <1>5. ASSUME NEW i \in Node, NEW j \in Node, R[<<i, j>>] < Inf, i # j
        PROVE  /\ i \in ToSet(N) /\ j \in ToSet(N)
               /\ R[<<i, j>>] <= LargestWeight
               /\ \E l \in ToSet(links) : l.src = i /\ l.dst = j
    <2>1. PICK l \in ToSet(links) : l.src = i /\ l.dst = j
      BY <1>3, <1>5
    <2> QED
      BY <1>2, <1>3, <2>1
  <1>6. ASSUME NEW l \in ToSet(links)
        PROVE  R[<<l.src, l.dst>>] < Inf
    <2>1. LargestWeight < Inf
      <3>1. Cardinality(Node) \in Nat \ {0}
        <4>1. l.src \in Node
          BY LinkFacts
        <4> QED
          BY <4>1, PathAssumption, FS_CardinalityType, FS_EmptySet
      <3>2. LargestWeight <= LargestWeight * Cardinality(Node) /\ LargestWeight * Cardinality(Node) \in Nat
        BY <3>1, WeightFacts
      <3> QED
        BY <1>1, <3>2, WeightFacts
    <2>2. R[<<l.src, l.dst>>] \in Nat /\ R[<<l.src, l.dst>>] <= LargestWeight
      BY <1>1, <1>3, LinkFacts
    <2> QED
      BY <1>1, <2>1, <2>2, WeightFacts
  <1> QED
    BY <1>1, <1>2, <1>3, <1>4, <1>5, <1>6

(* What of it holds during the search.                                     *)
LEMMA SearchFacts ==
  ASSUME links \in Topologies, SearchTyped
  PROVE  /\ IsRoad(road) /\ Inf \in Nat
         /\ Vertices \subseteq Node /\ s \subseteq Node /\ start \in Vertices
         /\ \A k \in s : \A j \in Node \ Vertices : road[<<k, j>>] >= Inf
         /\ \A i, j \in Node : road[<<i, j>>] \in 0 .. Inf /\ (road[<<i, i>>] = 0)
         /\ \A i \in Vertices : r[i] \in Nat /\ r[i] <= Inf
  <1>1. nodes = number_of_vertices(links) /\ road = read_and_init(links)
    BY DEF SearchTyped
  <1>2. /\ IsRoad(road) /\ Inf \in Nat /\ Vertices \subseteq Node
        /\ \A i, j \in Node : road[<<i, j>>] \in 0 .. Inf /\ (road[<<i, i>>] = 0)
        /\ \A i \in Node : \A j \in Node : road[<<i, j>>] < Inf /\ i # j =>
                i \in Vertices /\ j \in Vertices
    BY <1>1, GraphFacts DEF Vertices
  <1>3. s \subseteq Vertices /\ start \in s
    BY DEF SearchTyped
  <1>4. \A k \in s : \A j \in Node \ Vertices : road[<<k, j>>] >= Inf
    <2>1. TAKE k \in s
    <2>2. TAKE j \in Node \ Vertices
    <2>3. k \in Node /\ j \in Node /\ k # j /\ j \notin Vertices
      BY <1>2, <1>3
    <2>4. ~(road[<<k, j>>] < Inf)
      BY <1>2, <2>3
    <2>5. road[<<k, j>>] \in 0 .. Inf
      BY <1>2, <2>3
    <2> QED
      BY <1>2, <2>4, <2>5
  <1>5. \A i \in Vertices : r[i] \in Nat /\ r[i] <= Inf
    BY <1>2 DEF SearchTyped
  <1> QED
    BY <1>2, <1>3, <1>4, <1>5

LEMMA SettledIsExact ==
  ASSUME FlowTyped, SearchInv
  PROVE  \A i \in s : IsDistance(i, r[i])
  <1> SUFFICES ASSUME NEW i \in s
               PROVE  IsDistance(i, r[i])
    OBVIOUS
  <1>1. links \in Topologies /\ SearchTyped /\ Relaxed /\ NearestFirst /\ WaysFound
    BY DEF FlowTyped, SearchInv
  <1>2. i \in Vertices /\ r[i] < Inf
    BY <1>1 DEF SearchTyped, NearestFirst
  <1>3. ASSUME NEW p \in Ways, p[1] = start, Last(p) = i
        PROVE  r[i] <= CostOf(p)
    <2>1. r[i] <= CostIn(road, p)
      BY <1>1, <1>3, SearchFacts, NoWayIsCheaper
    <2> QED
      BY <2>1, CostIsCost
  <1>4. \E p \in Ways : p[1] = start /\ Last(p) = i /\ r[i] = CostOf(p)
    BY <1>1, <1>2 DEF WaysFound, IsFound
  <1> QED
    BY <1>3, <1>4, Zenon DEF IsDistance

-----------------------------------------------------------------------------
(* The reachability check.                                                 *)
LEMMA OutFacts ==
  ASSUME links \in Topologies, NEW element \in Node
  PROVE  /\ out_elements(element) \in Seq(Node)
         /\ \A k \in DOMAIN out_elements(element) :
               \E l \in ToSet(links) : l.src = element /\ l.dst = out_elements(element)[k]
  <1> DEFINE n == Len(links)
             Good(q) == \A k \in DOMAIN q : \E l \in ToSet(links) : l.src = element /\ l.dst = q[k]
             V == {q \in Seq(Node) : Good(q)}
             next(i, q) == IF links[i + 1].src = element THEN Append(q, links[i + 1].dst) ELSE q
             step == [x \in (0 .. n - 1) \X V |-> next(x[1], x[2])]
             G == CHOOSE out : out = [i \in 0 .. n |->
                     IF i = 0 THEN <<>>
                     ELSE IF links[i].src = element THEN Append(out[i - 1], links[i].dst) ELSE out[i - 1]]
  <1>1. n \in Nat /\ \A i \in 0 .. n - 1 : links[i + 1] \in ToSet(links) /\ links[i + 1].dst \in Node
    BY LinkFacts
  <1>2. ASSUME NEW i \in 0 .. n - 1, NEW q \in V
        PROVE  next(i, q) \in V
    <2>1. q \in Seq(Node) /\ Good(q)
      OBVIOUS
    <2>2. CASE links[i + 1].src = element
      <3> DEFINE x == links[i + 1].dst
                 q2 == Append(q, x)
      <3>1. x \in Node /\ \E l \in ToSet(links) : l.src = element /\ l.dst = x
        BY <1>1, <2>2
      <3> HIDE DEF x, n
      <3>2. q2 \in Seq(Node) /\ \A k \in DOMAIN q2 : (k \in DOMAIN q /\ q2[k] = q[k]) \/ q2[k] = x
        BY <2>1, <3>1
      <3>3. Good(q2)
        BY <2>1, <3>1, <3>2
      <3> QED
        BY <2>2, <3>2, <3>3 DEF x
    <2>3. CASE links[i + 1].src # element
      BY <2>3
    <2> QED
      BY <2>2, <2>3
  <1>3. <<>> \in V
    OBVIOUS
  <1> HIDE DEF V
  <1>4. step \in [(0 .. n - 1) \X V -> V] /\ \A i \in 0 .. n - 1, q \in V : step[<<i, q>>] = next(i, q)
    <2> HIDE DEF n, next
    <2>1. \A x \in (0 .. n - 1) \X V : next(x[1], x[2]) \in V
      BY <1>2
    <2> QED
      BY <2>1
  <1> HIDE DEF step
  <1>5. PICK F : IsLoop(V, <<>>, step, n, F)
    <2> HIDE DEF n
    <2> QED
      BY <1>1, <1>3, <1>4, LoopExists
  <1>6. \A k \in 0 .. n : /\ F[k] \in V
                          /\ F[k] = IF k = 0 THEN <<>> ELSE step[<<k - 1, F[k - 1]>>]
                          /\ k # 0 => k - 1 \in 0 .. n - 1 /\ F[k - 1] \in V
    <2> HIDE DEF n
    <2> QED
      BY <1>1, <1>5, LoopEquation, Zenon
  <1>7. ASSUME NEW i \in 0 .. n
        PROVE  F[i] = IF i = 0 THEN <<>>
                      ELSE IF links[i].src = element THEN Append(F[i - 1], links[i].dst) ELSE F[i - 1]
    <2>1. CASE i = 0
      BY <1>6, <2>1
    <2>2. CASE i # 0
      <3>1. i - 1 \in 0 .. n - 1 /\ F[i - 1] \in V /\ F[i] = step[<<i - 1, F[i - 1]>>]
        BY <1>6, <2>2
      <3>2. (i - 1) + 1 = i
        BY <1>1
      <3>3. F[i] = next(i - 1, F[i - 1])
        BY <1>4, <3>1
      <3> QED
        BY <2>2, <3>2, <3>3
    <2> QED
      BY <2>1, <2>2
  <1>8. F = [i \in 0 .. n |-> IF i = 0 THEN <<>>
                ELSE IF links[i].src = element THEN Append(F[i - 1], links[i].dst) ELSE F[i - 1]]
    BY <1>5, <1>7 DEF IsLoop
  <1>9. G = [i \in 0 .. n |-> IF i = 0 THEN <<>>
                ELSE IF links[i].src = element THEN Append(G[i - 1], links[i].dst) ELSE G[i - 1]]
    BY <1>8, Zenon
  <1>10. out_elements(element) = G[n]
    BY Zenon DEF out_elements
  <1> HIDE DEF G, n
  <1>11. \A i \in 0 .. n : G[i] = IF i = 0 THEN <<>>
                ELSE IF links[i].src = element THEN Append(G[i - 1], links[i].dst) ELSE G[i - 1]
    BY <1>9, Zenon
  <1> DEFINE S == {i \in 0 .. n : G[i] \in V}
  <1>12. 0 \in S
    BY <1>1, <1>3, <1>11
  <1>13. ASSUME NEW i \in 0 .. n - 1, i \in S
         PROVE  i + 1 \in S
    <2>1. i + 1 \in 0 .. n /\ i + 1 # 0 /\ (i + 1) - 1 = i
      BY <1>1
    <2>2. G[i + 1] = next(i, G[i])
      BY <1>11, <2>1
    <2> QED
      BY <1>2, <1>13, <2>1, <2>2
  <1>14. n \in S
    <2> HIDE DEF S
    <2>1. 0 .. n \subseteq S
      BY <1>1, <1>12, <1>13, IntervalInduction
    <2> QED
      BY <1>1, <2>1
  <1> QED
    BY <1>10, <1>14 DEF V

LEMMA HostIsNode ==
  ASSUME FlowTyped
  PROVE  links \in Topologies /\ start \in Node /\ end \in Node /\ start # end
  BY PathAssumption DEF FlowTyped

LEMMA InitHolds ==
  ASSUME Init
  PROVE  PathIInv
  <1>1. start \in Node
    BY PathAssumption DEF Init
  <1>2. pending = <<start>> /\ pending \in Seq(Node) /\ reached = {} /\ path = <<>> /\ pc = "check"
    BY <1>1 DEF Init
  <1>3. FlowTyped
    BY <1>2 DEF Init, FlowTyped
  <1>4. OnlyReachable
    BY <1>2 DEF OnlyReachable, Closed, ToSet
  <1> QED
    BY <1>2, <1>3, <1>4 DEF PathIInv, Searching

LEMMA VisitKeeps ==
  ASSUME PathIInv, VisitElement
  PROVE  PathIInv'
  <1> USE DEF VisitElement
  <1>1. FlowTyped /\ OnlyReachable /\ links \in Topologies /\ start \in Node
    BY HostIsNode DEF PathIInv
  <1> DEFINE e == Head(pending)
             new == out_elements(e)
             rest == Tail(pending)
  <1>2. pending \in Seq(Node) /\ pending # <<>> /\ e \in Node /\ rest \in Seq(Node) /\ reached \subseteq Node
    BY <1>1 DEF FlowTyped
  <1>3. /\ new \in Seq(Node)
        /\ \A k \in DOMAIN new : \E l \in ToSet(links) : l.src = e /\ l.dst = new[k]
    BY <1>1, <1>2, OutFacts
  <1>4. pending' \in Seq(Node) /\ reached' \subseteq Node
    <2> HIDE DEF new, rest, e
    <2>1. new \o rest \in Seq(Node)
      BY <1>2, <1>3
    <2> QED
      BY <1>2, <2>1 DEF new, rest, e
  <1>5. FlowTyped'
    BY <1>1, <1>4 DEF FlowTyped, searchVars, roadVars
  <1>6. OnlyReachable'
    <2> SUFFICES ASSUME NEW C \in SUBSET Node, Closed(C)'
                 PROVE  reached' \subseteq C /\ ToSet(pending') \subseteq C
      BY DEF OnlyReachable, Closed
    <2>1. Closed(C)
      BY DEF Closed
    <2>2. reached \subseteq C /\ ToSet(pending) \subseteq C
      BY <1>1, <2>1 DEF OnlyReachable
    <2>3. e \in C /\ \A k \in 1 .. Len(rest) : rest[k] \in C
      <3>1. \A k \in 1 .. Len(pending) : pending[k] \in C
        BY <1>2, <2>2 DEF ToSet
      <3> QED
        BY <1>2, <3>1
    <2>4. \A k \in 1 .. Len(new) : new[k] \in C
      BY <1>3, <2>1, <2>3 DEF Closed
    <2> HIDE DEF new, rest, e
    <2>5. ToSet(rest) \subseteq C
      BY <1>2, <2>3 DEF ToSet
    <2>6. ToSet(new \o rest) \subseteq C
      <3>1. \A k \in DOMAIN (new \o rest) : (new \o rest)[k] \in C
        BY <1>2, <1>3, <2>3, <2>4
      <3> QED
        BY <3>1 DEF ToSet
    <2> QED
      BY <2>2, <2>3, <2>5, <2>6 DEF new, rest, e
  <1> QED
    BY <1>5, <1>6 DEF PathIInv, Searching
LEMMA RejectKeeps ==
  ASSUME PathIInv, RejectFlow
  PROVE  PathIInv'
  BY DEF RejectFlow, PathIInv, FlowTyped, Searching, checkVars, graphVars, searchVars, roadVars

-----------------------------------------------------------------------------
(* The search begins.                                                      *)
LEMMA StartHasWays ==
  ASSUME NEW R, IsRoad(R), NEW i \in Node, NEW j \in Node, i # j
  PROVE  /\ <<i>> \in Ways /\ CostIn(R, <<i>>) = 0 /\ Last(<<i>>) = i
         /\ <<i, j>> \in Ways /\ CostIn(R, <<i, j>>) = R[<<i, j>>] /\ Last(<<i, j>>) = j
  <1> DEFINE p == <<i>>
             q == <<i, j>>
  <1>1. p \in Seq(Node) /\ Len(p) = 1 /\ p[1] = i /\ q = Append(p, j) /\ q \in Seq(Node) /\ Len(q) = 2
        /\ q[1] = i /\ q[2] = j
    OBVIOUS
  <1> HIDE DEF p, q
  <1>2. p \in Ways
    <2>1. \A a, b \in 1 .. Len(p) : p[a] = p[b] => a = b
      BY <1>1
    <2> QED
      BY <1>1, <2>1, SequenceIsWay
  <1>3. q \in Ways
    <2>1. \A a, b \in 1 .. Len(q) : q[a] = q[b] => a = b
      <3>1. \A a \in 1 .. Len(q) : a = 1 \/ a = 2
        BY <1>1
      <3> QED
        BY <1>1, <3>1
    <2>2. Len(q) # 0
      BY <1>1
    <2> QED
      BY <1>1, <2>1, <2>2, SequenceIsWay
  <1>4. CostIn(R, p) = 0
    <2>1. Len(p) # 0 /\ Len(p) - 1 = 0
      BY <1>1
    <2>2. Sums(R, p)[0] = 0
      BY <1>1, <2>1, CostFacts
    <2> QED
      BY <2>1, <2>2 DEF CostIn
  <1>5. CostIn(R, q) = CostIn(R, p) + R[<<p[Len(p)], j>>]
    BY <1>1, CostOfLonger
  <1>6. R[<<i, j>>] \in Nat
    BY DEF IsRoad
  <1>7. CostIn(R, q) = R[<<i, j>>]
    BY <1>1, <1>4, <1>5, <1>6
  <1>8. Last(p) = i /\ Last(q) = j
    BY <1>1 DEF Last
  <1> QED
    BY <1>2, <1>3, <1>4, <1>7, <1>8 DEF p, q

LEMMA StartKeeps ==
  ASSUME PathIInv, StartSearch
  PROVE  PathIInv'
  <1> USE DEF StartSearch
  <1>1. FlowTyped /\ OnlyReachable /\ links \in Topologies /\ start \in Node /\ end \in Node /\ start # end
    BY HostIsNode DEF PathIInv
  <1> DEFINE N == number_of_vertices(links)
             R == read_and_init(links)
             V == ToSet(N)
  <1>2. nodes' = N /\ road' = R /\ Vertices' = V /\ s' = {start} /\ UNCHANGED <<links, start, end, path, turn, posMin>>
        /\ pc' = "loop"
    BY DEF Vertices, roadVars
  <1>3. /\ IsRoad(R) /\ Inf \in Nat
        /\ V \subseteq Node /\ IsFiniteSet(V) /\ Len(N) \in Nat /\ Cardinality(V) <= Len(N)
        /\ \A i, j \in Node : R[<<i, j>>] \in 0 .. Inf /\ (R[<<i, i>>] = 0)
        /\ \A i \in Node : \A j \in Node : R[<<i, j>>] < Inf /\ i # j =>
               i \in V /\ j \in V /\ R[<<i, j>>] <= LargestWeight
        /\ \A l \in ToSet(links) : R[<<l.src, l.dst>>] < Inf
    BY <1>1, GraphFacts
  <1>4. turn = 0 /\ posMin = Unset /\ path = <<>>
    BY <1>1 DEF FlowTyped
  <1>5. \A C \in SUBSET Node : Closed(C) => end \in C
    BY <1>1 DEF OnlyReachable
  <1>6. start \in V
    <2>1. ~Closed({start})
      BY <1>1, <1>5
    <2>2. PICK l \in ToSet(links) : l.src = start
      BY <2>1 DEF Closed
    <2>3. l.dst \in Node /\ l.src # l.dst /\ R[<<l.src, l.dst>>] < Inf
      BY <1>1, <1>3, LinkFacts
    <2> QED
      BY <1>1, <1>3, <2>2, <2>3
  <1>7. r' = [i \in V |-> R[<<start, i>>]] /\ f' = [i \in V |-> IF i # start /\ r'[i] < Inf THEN start ELSE None]
    BY <1>2
  <1> HIDE DEF N, R, V
  <1>8. /\ r' \in [V -> 0 .. Inf] /\ r'[start] = 0
        /\ \A i \in V : r'[i] = R[<<start, i>>]
        /\ \A i \in V : f'[i] = IF i # start /\ r'[i] < Inf THEN start ELSE None
    BY <1>1, <1>3, <1>6, <1>7
  <1>9. SearchTyped'
    <2>1. f' \in [V -> V \cup {None}]
      BY <1>6, <1>7
    <2>2. Len(N) - 1 \in Nat
      <3>1. Cardinality(V) # 0 /\ Cardinality(V) \in Nat
        BY <1>3, <1>6, FS_EmptySet, FS_CardinalityType
      <3> QED
        BY <1>3, <3>1
    <2>3. turn' \in 0 .. Len(nodes') - 1
      BY <1>2, <1>4, <2>2
    <2>4. posMin' \in s' \cup {Unset}
      BY <1>2, <1>4
    <2>5. nodes' = number_of_vertices(links') /\ road' = read_and_init(links')
      BY <1>2 DEF N, R
    <2>6. start' \in s' /\ s' \subseteq Vertices'
      BY <1>2, <1>6
    <2> QED
      BY <1>2, <1>8, <2>1, <2>3, <2>4, <2>5, <2>6 DEF SearchTyped
  <1>10. Relaxed'
    <2>1. ASSUME NEW j \in V
          PROVE  r'[j] <= r'[start] + R[<<start, j>>]
      <3>1. R[<<start, j>>] \in 0 .. Inf
        BY <1>1, <1>3
      <3> QED
        BY <1>3, <1>8, <3>1
    <2> QED
      BY <1>2, <2>1 DEF Relaxed
  <1>11. NearestFirst'
    <2>1. \A j \in V : r'[j] \in 0 .. Inf
      BY <1>8
    <2>2. 0 < Inf
      <3>1. \E l \in ToSet(links) : l.src = start
        BY <1>1, <1>5 DEF Closed
      <3>2. PICK l \in ToSet(links) : l.src = start
        BY <3>1
      <3>3. R[<<l.src, l.dst>>] < Inf /\ R[<<l.src, l.dst>>] \in 0 .. Inf
        BY <1>1, <1>3, <3>2, LinkFacts
      <3> QED
        BY <1>3, <3>3
    <2>3. ASSUME NEW j \in V
          PROVE  r'[start] <= r'[j]
      BY <1>3, <1>8, <2>1
    <2>4. r'[start] < Inf
      BY <1>8, <2>2
    <2> QED
      BY <1>2, <2>3, <2>4 DEF NearestFirst
  <1>12. Fathers'
    <2>1. f'[start] = None
      BY <1>6, <1>8
    <2>2. ASSUME NEW i \in V \ {start}, r'[i] < Inf
          PROVE  f'[i] \in {start} \ {i} /\ r'[i] = r'[f'[i]] + R[<<f'[i], i>>]
      <3>1. f'[i] = start /\ r'[i] = R[<<start, i>>] /\ r'[start] = 0
        BY <1>8, <2>2
      <3>2. R[<<start, i>>] \in Nat
        BY <1>1, <1>3 DEF IsRoad
      <3>3. r'[i] = r'[start] + R[<<start, i>>]
        BY <3>1, <3>2
      <3>4. start \in {start} \ {i}
        OBVIOUS
      <3> QED
        BY <3>1, <3>3, <3>4
    <2>3. ASSUME NEW i \in V \ {start}, ~(r'[i] < Inf)
          PROVE  f'[i] = None
      BY <1>8, <2>3
    <2>4. ASSUME NEW i \in V \ {start}
          PROVE  IF r'[i] < Inf THEN f'[i] \in {start} \ {i} /\ r'[i] = r'[f'[i]] + R[<<f'[i], i>>] ELSE f'[i] = None
      BY <2>2, <2>3
    <2>5. Vertices' = V /\ s' = {start} /\ start' = start /\ road' = R
      BY <1>2
    <2> QED
      BY <2>1, <2>4, <2>5 DEF Fathers
  <1>13. WaysFound'
    <2> SUFFICES ASSUME NEW i \in V, r'[i] < Inf
                 PROVE  \E p \in Ways : IsFound(p, i)'
      BY <1>2 DEF WaysFound
    <2>1. CASE i = start
      <3>0. start \in Node /\ IsRoad(R) /\ \E j \in Node : start # j
        BY <1>1, <1>3
      <3>1. PICK p \in Ways : p = <<start>> /\ CostIn(R, p) = 0 /\ Last(p) = start
        <4>1. PICK j \in Node : start # j
          BY <3>0
        <4> DEFINE q == <<start>>
        <4>2. q \in Ways /\ CostIn(R, q) = 0 /\ Last(q) = start
          BY <3>0, <4>1, StartHasWays
        <4> QED
          BY <4>2
      <3>2. CostOf(p)' = 0
        BY <1>2, <3>1, CostIsCost
      <3>3. Len(p) = 1 /\ p[1] = start
        BY <3>1
      <3>4. (Len(p) - 1) * LargestWeight = 0
        BY <3>3, WeightFacts
      <3>5. IsFound(p, i)'
        BY <1>2, <1>8, <2>1, <3>1, <3>2, <3>3, <3>4 DEF IsFound
      <3> QED
        BY <3>1, <3>5
    <2>2. CASE i # start
      <3>0. i \in Node
        BY <1>3
      <3>1. PICK p \in Ways : p = <<start, i>> /\ CostIn(R, p) = R[<<start, i>>] /\ Last(p) = i
        <4> DEFINE q == <<start, i>>
        <4>1. start \in Node /\ IsRoad(R) /\ start # i
          BY <1>1, <1>3, <2>2
        <4>2. q \in Ways /\ CostIn(R, q) = R[<<start, i>>] /\ Last(q) = i
          BY <3>0, <4>1, StartHasWays, ZenonT(60)
        <4> QED
          BY <4>2
      <3>2. CostOf(p)' = R[<<start, i>>]
        BY <1>2, <3>1, CostIsCost
      <3>3. Len(p) = 2 /\ p[1] = start
        BY <3>1
      <3>4. (Len(p) - 1) * LargestWeight = LargestWeight
        BY <3>3, WeightFacts
      <3>5. R[<<start, i>>] <= LargestWeight
        BY <1>1, <1>3, <1>8, <2>2, <3>0
      <3>6. \A k \in 1 .. Len(p) - 1 : p[k] \in s'
        BY <1>2, <3>3
      <3>7. IsFound(p, i)'
        BY <1>2, <1>8, <3>1, <3>2, <3>3, <3>4, <3>5, <3>6 DEF IsFound
      <3> QED
        BY <3>1, <3>7
    <2> QED
      BY <2>1, <2>2
  <1>14. Progress'
    <2>1. Cardinality({start}) = 1
      BY FS_Singleton
    <2>2. Cardinality(s') = turn' + 1
      BY <1>2, <1>4, <2>1
    <2> QED
      BY <2>2 DEF Progress
  <1>15. EndReachable'
    BY <1>2, <1>5 DEF EndReachable, Closed
  <1>16. FlowTyped'
    BY <1>1, <1>2, <1>4 DEF FlowTyped, checkVars
  <1>17. SearchInv'
    BY <1>9, <1>10, <1>11, <1>12, <1>13, <1>14, <1>15 DEF SearchInv
  <1> QED
    BY <1>2, <1>16, <1>17 DEF PathIInv
-----------------------------------------------------------------------------
(* One turn of the loop.                                                   *)
LEMMA PickedFacts ==
  ASSUME links \in Topologies, SearchTyped
  PROVE  /\ Open = {} => Picked = posMin
         /\ Open # {} => Picked \in Open /\ \A o \in Open : r[Picked] <= r[o]
  <1> DEFINE cheapest == {k \in DOMAIN nodes : nodes[k] \in Open /\ IsMinimum(nodes[k], Open)}
  <1>1. Picked = IF Open = {} THEN posMin ELSE nodes[Min(cheapest)]
    BY DEF Picked, Open, Vertices
  <1>2. ASSUME Open # {}
        PROVE  nodes[Min(cheapest)] \in Open /\ \A o \in Open : r[nodes[Min(cheapest)]] <= r[o]
    <2> DEFINE C == {r[o] : o \in Open}
    <2>1. \A o \in Open : o \in Vertices /\ r[o] \in Nat
      BY SearchFacts DEF Open
    <2>2. C \subseteq Nat /\ C # {}
      BY <1>2, <2>1
    <2>3. PICK c \in C : \A d \in C : c <= d
      BY <2>2, LeastExists
    <2>4. PICK o \in Open : c = r[o]
      BY <2>3
    <2>5. IsMinimum(o, Open)
      BY <2>3, <2>4 DEF IsMinimum
    <2>6. PICK k \in DOMAIN nodes : nodes[k] = o
      BY <2>1, <2>4 DEF Vertices, ToSet
    <2>7. k \in cheapest
      BY <2>4, <2>5, <2>6
    <2>8. cheapest \subseteq Nat
      <3>1. nodes = number_of_vertices(links)
        BY DEF SearchTyped
      <3>2. DOMAIN nodes = 1 .. Len(nodes) /\ Len(nodes) \in Nat
        BY <3>1, VertexFacts
      <3> QED
        BY <3>2
    <2>9. Min(cheapest) \in cheapest
      BY <2>7, <2>8, SmallestExists
    <2> QED
      BY <2>9 DEF IsMinimum
  <1> QED
    BY <1>1, <1>2

(* The loop has nothing left to settle.                                    *)
LEMMA IdleTurnKeeps ==
  ASSUME PathIInv, LoopTurn, Picked # Unset, Open = {}
  PROVE  PathIInv'
  <1> USE DEF LoopTurn
  <1>1. FlowTyped /\ SearchInv /\ links \in Topologies /\ SearchTyped /\ Relaxed
    BY HostIsNode DEF PathIInv, Searching, SearchInv
  <1>2. Picked = posMin /\ posMin \in s
    BY <1>1, PickedFacts DEF SearchTyped
  <1> DEFINE m == Picked
             better == {j \in Vertices \ (s \cup {m}) : road[<<m, j>>] < Inf /\ r[j] > r[m] + road[<<m, j>>]}
  <1>3. better = {}
    <2> SUFFICES ASSUME NEW j \in Vertices \ s
                 PROVE  ~(r[j] > r[m] + road[<<m, j>>])
      OBVIOUS
    <2>1. r[j] <= r[m] + road[<<m, j>>]
      BY <1>1, <1>2 DEF Relaxed
    <2>2. m \in Node /\ j \in Node /\ r[j] \in Nat /\ r[m] \in Nat /\ road[<<m, j>>] \in Nat
      <3>1. s \subseteq Vertices /\ Vertices \subseteq Node
        BY <1>1, SearchFacts DEF SearchTyped
      <3> QED
        BY <1>1, <1>2, <3>1, SearchFacts DEF IsRoad
    <2> QED
      BY <2>1, <2>2
  <1>4. r' = [j \in DOMAIN r |-> IF j \in better THEN r[m] + road[<<m, j>>] ELSE r[j]]
    BY DEF Vertices
  <1>5. f' = [j \in DOMAIN f |-> IF j \in better THEN RelaxedFather(j, m) ELSE f[j]]
    BY DEF Vertices
  <1>6. r' = r /\ f' = f
    <2>1. r \in [Vertices -> 0 .. Inf] /\ f \in [Vertices -> Vertices \cup {None}]
      BY <1>1 DEF SearchTyped
    <2> HIDE DEF better, m
    <2> QED
      BY <1>3, <1>4, <1>5, <2>1
  <1>7. s' = s /\ posMin' = posMin /\ turn' = turn + 1 /\ pc' = "loop" /\ pc = "loop"
        /\ UNCHANGED <<links, start, end, pending, reached, nodes, road, node, path>>
    BY <1>2 DEF checkVars, graphVars, roadVars
  <1>8. FlowTyped'
    BY <1>1, <1>7 DEF FlowTyped
  <1>9. SearchTyped'
    <2>1. turn + 1 \in 0 .. Len(nodes) - 1
      <3>1. Len(nodes) \in Nat /\ turn \in 0 .. Len(nodes) - 1
        BY <1>1, GraphFacts DEF SearchTyped
      <3> QED
        BY <3>1
    <2> QED
      BY <1>1, <1>6, <1>7, <2>1 DEF SearchTyped, Vertices
  <1>10. Open' = {}
    BY <1>6, <1>7 DEF Open, Vertices
  <1>11. WaysFound'
    BY <1>1, <1>6, <1>7, CostIsCost DEF SearchInv, WaysFound, IsFound, Vertices
  <1>12. Relaxed' /\ NearestFirst' /\ Fathers' /\ EndReachable'
    BY <1>1, <1>6, <1>7
       DEF SearchInv, Relaxed, NearestFirst, Fathers, EndReachable, Closed, Vertices
  <1> QED
    BY <1>7, <1>8, <1>9, <1>10, <1>11, <1>12 DEF PathIInv, SearchInv, Progress

(* A node is settled and its neighbours are relaxed.                       *)
LEMMA RelaxingTurnKeeps ==
  ASSUME PathIInv, LoopTurn, Picked # Unset, Open # {}
  PROVE  PathIInv'
  <1> USE DEF LoopTurn
  <1>1. FlowTyped /\ SearchInv /\ links \in Topologies /\ start \in Node
    BY HostIsNode DEF PathIInv, Searching
  <1>2. SearchTyped /\ Relaxed /\ NearestFirst /\ Fathers /\ WaysFound /\ Progress /\ EndReachable
    BY <1>1 DEF SearchInv
  <1> DEFINE m == Picked
             V == Vertices
             D(j) == road[<<m, j>>]
             better == {j \in V \ (s \cup {m}) : D(j) < Inf /\ r[j] > r[m] + D(j)}
  <1>3. m \in Open /\ \A o \in Open : r[m] <= r[o]
    BY <1>1, <1>2, PickedFacts
  <1>4. r' = [j \in DOMAIN r |-> IF j \in better THEN r[m] + D(j) ELSE r[j]]
    BY DEF Vertices
  <1>5. f' = [j \in DOMAIN f |-> IF j \in better THEN m ELSE f[j]]
    BY DEF Vertices, RelaxedFather
  <1>6. s' = s \cup {m} /\ posMin' = m /\ turn' = turn + 1 /\ pc' = "loop" /\ pc = "loop"
        /\ UNCHANGED <<links, start, end, pending, reached, nodes, road, node, path>>
    BY DEF checkVars, graphVars, roadVars
  <1>7. V' = V
    BY <1>6 DEF Vertices
  <1>8. m \in V /\ m \notin s /\ r[m] < Inf
    BY <1>3 DEF Open
  <1>9. /\ IsRoad(road) /\ Inf \in Nat /\ V \subseteq Node /\ s \subseteq V /\ start \in s
        /\ \A i \in V : r[i] \in Nat /\ r[i] <= Inf
        /\ \A i, j \in V : road[<<i, j>>] \in Nat /\ road[<<i, i>>] = 0
    <2>1. /\ IsRoad(road) /\ Inf \in Nat /\ V \subseteq Node
          /\ \A i, j \in Node : road[<<i, j>>] \in 0 .. Inf /\ (road[<<i, i>>] = 0)
          /\ \A i \in V : r[i] \in Nat /\ r[i] <= Inf
      BY <1>1, <1>2, SearchFacts
    <2>2. \A i, j \in V : road[<<i, j>>] \in Nat
      BY <2>1 DEF IsRoad
    <2>3. s \subseteq V /\ start \in s
      BY <1>2 DEF SearchTyped
    <2> QED
      BY <2>1, <2>2, <2>3
  <1>10. DOMAIN r = V /\ DOMAIN f = V /\ f \in [V -> V \cup {None}] /\ r \in [V -> 0 .. Inf] /\ r[start] = 0
    BY <1>2 DEF SearchTyped
  <1>11. \A j \in V : D(j) \in Nat
    BY <1>8, <1>9
  <1>12. better \subseteq V \ (s \cup {m}) /\ \A j \in better : D(j) < Inf /\ r[j] > r[m] + D(j)
    OBVIOUS
  <1>13. \A j \in V \ (s \cup {m}) : j \notin better => D(j) >= Inf \/ r[j] <= r[m] + D(j)
    <2>1. TAKE j \in V \ (s \cup {m})
    <2>2. D(j) \in Nat /\ r[j] \in Nat /\ r[m] \in Nat /\ Inf \in Nat
      BY <1>8, <1>9, <1>11
    <2> QED
      BY <2>2
  <1> HIDE DEF m, V, better
  <1>14. /\ DOMAIN r' = V /\ DOMAIN f' = V
         /\ \A j \in better : r'[j] = r[m] + D(j) /\ f'[j] = m
         /\ \A j \in V \ better : r'[j] = r[j] /\ f'[j] = f[j]
         /\ \A j \in s \cup {m} : j \in V \ better
    BY <1>4, <1>5, <1>8, <1>9, <1>10, <1>12
  <1> HIDE DEF D
  <1>15. ASSUME NEW j \in V
         PROVE  r'[j] \in Nat /\ r'[j] <= r[j] /\ r'[j] <= Inf /\ (r'[j] = r[j] \/ r'[j] >= r[m])
    <2>1. D(j) \in Nat /\ r[j] \in Nat /\ r[m] \in Nat /\ r[j] <= Inf /\ Inf \in Nat
      BY <1>8, <1>9, <1>11
    <2>2. CASE j \in better
      BY <1>12, <1>14, <2>1, <2>2
    <2>3. CASE j \notin better
      BY <1>14, <2>1, <2>3
    <2> QED
      BY <2>2, <2>3
  <1>16. r'[m] = r[m] /\ r'[start] = 0 /\ \A k \in s : r'[k] = r[k]
    BY <1>9, <1>10, <1>14
  <1>17. SearchTyped'
    <2>1. turn + 1 \in 0 .. Len(nodes) - 1
      <3>1. Len(nodes) \in Nat /\ turn \in 0 .. Len(nodes) - 1
        BY <1>1, <1>2, GraphFacts DEF SearchTyped
      <3> QED
        BY <3>1
    <2>2. r' \in [V -> 0 .. Inf]
      <3>1. \A j \in V : r'[j] \in 0 .. Inf
        BY <1>9, <1>15
      <3>2. r' = [j \in V |-> r'[j]]
        BY <1>4, <1>10
      <3> QED
        BY <3>1, <3>2
    <2>3. f' \in [V -> V \cup {None}]
      BY <1>5, <1>8, <1>10
    <2>4. s' \subseteq V' /\ start' \in s' /\ posMin' \in s' \cup {Unset}
      BY <1>6, <1>7, <1>8, <1>9
    <2>5. nodes' = number_of_vertices(links') /\ road' = read_and_init(links')
      BY <1>2, <1>6 DEF SearchTyped
    <2> QED
      BY <1>6, <1>7, <1>16, <2>1, <2>2, <2>3, <2>4, <2>5 DEF SearchTyped, V
  <1>18. Relaxed'
    <2>1. ASSUME NEW k \in s, NEW j \in V
          PROVE  r'[j] <= r'[k] + road[<<k, j>>]
      <3>1. r[j] <= r[k] + road[<<k, j>>]
        BY <1>2, <2>1 DEF Relaxed, V
      <3>2. r'[j] \in Nat /\ r'[j] <= r[j] /\ r'[k] = r[k] /\ r[k] \in Nat /\ road[<<k, j>>] \in Nat /\ r[j] \in Nat
        BY <1>9, <1>15, <1>16
      <3> QED
        BY <3>1, <3>2
    <2>2. ASSUME NEW j \in V
          PROVE  r'[j] <= r'[m] + D(j)
      <3>1. r'[j] \in Nat /\ r'[j] <= r[j] /\ r[j] <= Inf /\ D(j) \in Nat /\ r[m] \in Nat /\ r[j] \in Nat /\ Inf \in Nat
        BY <1>8, <1>9, <1>11, <1>15
      <3>2. CASE j \in better
        BY <1>14, <1>16, <3>1, <3>2
      <3>3. CASE j \in s
        <4>1. r[j] <= r[m]
          BY <1>2, <1>8, <3>3 DEF NearestFirst, V
        <4> QED
          BY <1>16, <3>1, <4>1
      <3>4. CASE j = m
        BY <1>16, <3>1, <3>4
      <3>5. CASE j \notin s /\ j # m /\ j \notin better
        <4>1. D(j) >= Inf \/ r[j] <= r[m] + D(j)
          BY <1>13, <3>5
        <4> QED
          BY <1>16, <3>1, <4>1
      <3> QED
        BY <3>2, <3>3, <3>4, <3>5
    <2> QED
      BY <1>6, <1>7, <2>1, <2>2 DEF Relaxed, V, D
  <1>19. NearestFirst'
    <2>1. ASSUME NEW j \in V, j \notin s, j # m
          PROVE  r'[m] <= r'[j]
      <3>1. r[m] <= r[j]
        <4>1. CASE r[j] < Inf
          BY <1>3, <2>1, <4>1 DEF Open, V
        <4>2. CASE ~(r[j] < Inf)
          BY <1>8, <1>9, <4>2
        <4> QED
          BY <4>1, <4>2
      <3> QED
        BY <1>15, <1>16, <3>1
    <2>2. ASSUME NEW k \in s, NEW j \in V, j \notin s, j # m
          PROVE  r'[k] <= r'[j]
      <3>1. r[k] <= r[m]
        BY <1>2, <1>8 DEF NearestFirst, V
      <3>2. r'[m] <= r'[j]
        BY <2>1, <2>2
      <3>3. r'[k] = r[k] /\ r'[m] = r[m] /\ r[k] \in Nat /\ r[m] \in Nat /\ r'[j] \in Nat
        BY <1>8, <1>9, <1>15, <1>16
      <3> QED
        BY <3>1, <3>2, <3>3
    <2>3. \A k \in s \cup {m} : r'[k] < Inf
      BY <1>2, <1>8, <1>16 DEF NearestFirst
    <2> QED
      BY <1>6, <1>7, <2>1, <2>2, <2>3 DEF NearestFirst, V
  <1>20. Fathers'
    <2>1. f'[start] = None
      <3>1. start \in V \ better
        BY <1>9, <1>14
      <3> QED
        BY <1>2, <1>14, <3>1 DEF Fathers
    <2>2. ASSUME NEW i \in V \ {start}
          PROVE  IF r'[i] < Inf THEN f'[i] \in (s \cup {m}) \ {i} /\ r'[i] = r'[f'[i]] + road[<<f'[i], i>>]
                 ELSE f'[i] = None
      <3>1. CASE i \in better
        <4>1. f'[i] = m /\ i # m /\ r'[i] = r'[m] + D(i)
          BY <1>12, <1>14, <1>16, <3>1
        <4>2. r'[i] < Inf
          BY <1>8, <1>9, <1>11, <1>12, <1>14, <3>1
        <4> QED
          BY <4>1, <4>2 DEF D
      <3>2. CASE i \notin better
        <4>1. f'[i] = f[i] /\ r'[i] = r[i]
          BY <1>14, <3>2
        <4>2. CASE r[i] < Inf
          <5>1. f[i] \in s \ {i} /\ r[i] = r[f[i]] + road[<<f[i], i>>]
            BY <1>2, <4>2 DEF Fathers, V
          <5>2. r'[f[i]] = r[f[i]]
            BY <1>16, <5>1
          <5> QED
            BY <4>1, <4>2, <5>1, <5>2
        <4>3. CASE ~(r[i] < Inf)
          <5>1. f[i] = None
            BY <1>2, <4>3 DEF Fathers, V
          <5> QED
            BY <4>1, <4>3, <5>1
        <4> QED
          BY <4>2, <4>3
      <3> QED
        BY <3>1, <3>2
    <2> QED
      BY <1>6, <1>7, <2>1, <2>2 DEF Fathers, V
  <1>21. WaysFound'
    <2> SUFFICES ASSUME NEW i \in V, r'[i] < Inf
                 PROVE  \E p \in Ways : IsFound(p, i)'
      BY <1>7 DEF WaysFound, V
    <2>1. CASE i \in better
      <3>1. PICK p \in Ways : IsFound(p, m)
        BY <1>2, <1>8 DEF WaysFound, V
      <3>2. /\ p[1] = start /\ Last(p) = m /\ CostOf(p) = r[m] /\ r[m] <= (Len(p) - 1) * LargestWeight
            /\ \A k \in 1 .. Len(p) - 1 : p[k] \in s
        BY <3>1 DEF IsFound
      <3>3. /\ p \in Seq(Node) /\ Len(p) \in Nat \ {0}
            /\ \A a, b \in 1 .. Len(p) : p[a] = p[b] => a = b
        BY WayIsSequence
      <3>4. p[Len(p)] = m
        BY <3>2, <3>3 DEF Last
      <3>5. i \in Node /\ i \notin s /\ i # m /\ m \in Node
        BY <1>8, <1>9, <1>12, <2>1
      <3>6. PICK q \in Seq(Node) : q = Append(p, i)
        <4>1. Append(p, i) \in Seq(Node)
          BY <3>3, <3>5
        <4> QED
          BY <4>1, Zenon
      <3>7. Len(q) = Len(p) + 1 /\ q[Len(p) + 1] = i /\ \A k \in 1 .. Len(p) : q[k] = p[k]
        BY <3>3, <3>5, <3>6
      <3>8. \A k \in 1 .. Len(p) : p[k] \in s \cup {m} /\ q[k] # i
        BY <3>2, <3>3, <3>4, <3>5, <3>7
      <3>9. \A a, b \in 1 .. Len(q) : q[a] = q[b] => a = b
        <4>1. \A a \in 1 .. Len(q) : a \in 1 .. Len(p) \/ a = Len(p) + 1
          BY <3>3, <3>7
        <4> QED
          BY <3>3, <3>7, <3>8, <4>1
      <3>10. Len(q) # 0
        BY <3>3, <3>7
      <3>11. q \in Ways
        BY <3>9, <3>10, SequenceIsWay
      <3>12. CostOf(q)' = r'[i]
        <4>1. Len(p) # 0
          BY <3>3
        <4>2. CostIn(road, q) = CostIn(road, p) + D(i)
          BY <1>9, <3>3, <3>4, <3>5, <3>6, <4>1, CostOfLonger DEF D
        <4>3. CostIn(road, p) = r[m]
          BY <3>2, CostIsCost
        <4>4. CostOf(q)' = CostIn(road, q)
          BY <1>6, CostIsCost
        <4> QED
          BY <1>14, <2>1, <4>2, <4>3, <4>4
      <3>13. r'[i] <= (Len(q) - 1) * LargestWeight
        <4>1. D(i) <= LargestWeight
          <5>1. nodes = number_of_vertices(links) /\ road = read_and_init(links)
            BY <1>2 DEF SearchTyped
          <5>2. road[<<m, i>>] < Inf
            BY <1>12, <2>1 DEF D
          <5> QED
            BY <1>1, <3>5, <5>1, <5>2, GraphFacts DEF D
        <4>2. r'[i] = r[m] + D(i) /\ r[m] \in Nat /\ D(i) \in Nat
          BY <1>8, <1>9, <1>11, <1>14, <2>1
        <4> DEFINE n == Len(p)
        <4>3. n \in Nat \ {0} /\ Len(q) - 1 = n
          BY <3>3, <3>7
        <4>4. r[m] <= (n - 1) * LargestWeight
          BY <3>2
        <4> HIDE DEF n
        <4>5. n * LargestWeight = (n - 1) * LargestWeight + LargestWeight
          BY <4>3, WeightFacts
        <4> DEFINE x == (n - 1) * LargestWeight
        <4>6. x \in Int /\ LargestWeight \in Nat
          BY <4>3, WeightFacts
        <4>7. r[m] <= x
          BY <4>4
        <4> HIDE DEF x
        <4>8. r[m] + D(i) <= x + LargestWeight
          BY <4>1, <4>2, <4>6, <4>7
        <4> QED
          BY <4>2, <4>3, <4>5, <4>8 DEF x
      <3>14. q[1] = start /\ Last(q) = i /\ \A k \in 1 .. Len(q) - 1 : q[k] \in s \cup {m}
        <4>1. 1 \in 1 .. Len(p) /\ Len(q) - 1 = Len(p)
          BY <3>3, <3>7
        <4> QED
          BY <3>2, <3>7, <3>8, <4>1 DEF Last
      <3>15. IsFound(q, i)'
        BY <1>6, <3>12, <3>13, <3>14 DEF IsFound
      <3> QED
        BY <3>11, <3>15
    <2>2. CASE i \notin better
      <3>1. r'[i] = r[i] /\ r[i] < Inf
        BY <1>14, <2>2
      <3>2. PICK p \in Ways : IsFound(p, i)
        BY <1>2, <3>1 DEF WaysFound, V
      <3>3. CostOf(p)' = CostOf(p)
        BY <1>6, CostIsCost
      <3>4. IsFound(p, i)'
        BY <1>6, <3>1, <3>2, <3>3 DEF IsFound
      <3> QED
        BY <3>4
    <2> QED
      BY <2>1, <2>2
  <1>22. Progress'
    <2>1. Cardinality(s) = turn + 1
      BY <1>2 DEF Progress
    <2>2. IsFiniteSet(s)
      <3>1. nodes = number_of_vertices(links)
        BY <1>2 DEF SearchTyped
      <3>2. IsFiniteSet(V)
        BY <1>1, <3>1, VertexFacts DEF V, Vertices
      <3> QED
        BY <1>9, <3>2, FS_Subset
    <2>3. Cardinality(s \cup {m}) = Cardinality(s) + 1
      BY <1>8, <2>2, FS_AddElement
    <2> QED
      BY <1>6, <2>1, <2>3 DEF Progress
  <1>23. EndReachable'
    BY <1>2, <1>6 DEF EndReachable, Closed
  <1>24. FlowTyped'
    BY <1>1, <1>6 DEF FlowTyped
  <1> QED
    BY <1>6, <1>17, <1>18, <1>19, <1>20, <1>21, <1>22, <1>23, <1>24 DEF PathIInv, SearchInv
LEMMA TurnKeeps ==
  ASSUME PathIInv, LoopTurn
  PROVE  PathIInv'
  <1>1. CASE Picked = Unset
    <2>1. /\ pc = "loop" /\ pc' = "raised"
          /\ UNCHANGED <<links, start, end, pending, reached, nodes, road, r, f, s, posMin, turn, node, path>>
      BY <1>1 DEF LoopTurn, checkVars, graphVars, searchVars, roadVars
    <2>2. FlowTyped /\ SearchInv
      BY <2>1 DEF PathIInv, Searching
    <2>3. FlowTyped'
      BY <2>1, <2>2 DEF FlowTyped
    <2>4. SearchTyped' /\ Relaxed' /\ NearestFirst' /\ Fathers' /\ Progress' /\ EndReachable'
      BY <2>1, <2>2 DEF SearchInv, SearchTyped, Relaxed, NearestFirst, Fathers, Progress, EndReachable,
                        Closed, Vertices, Open
    <2>5. WaysFound'
      BY <2>1, <2>2, CostIsCost DEF SearchInv, WaysFound, IsFound, Vertices
    <2> QED
      BY <2>1, <2>3, <2>4, <2>5 DEF PathIInv, SearchInv
  <1>2. CASE Picked # Unset
    BY <1>2, IdleTurnKeeps, RelaxingTurnKeeps
  <1> QED
    BY <1>1, <1>2

-----------------------------------------------------------------------------
(* After the loop nothing is left to settle, so that no link leaves the    *)
(* settled nodes, and the destination is one of them.                      *)
LEMMA AllSettled ==
  ASSUME FlowTyped, SearchInv, turn = Len(nodes) - 1
  PROVE  Open = {}
  <1>1. links \in Topologies /\ nodes = number_of_vertices(links) /\ s \subseteq Vertices /\ Progress
    BY DEF FlowTyped, SearchInv, SearchTyped
  <1>2. IsFiniteSet(Vertices) /\ Len(nodes) \in Nat /\ Cardinality(Vertices) <= Len(nodes)
    BY <1>1, VertexFacts DEF Vertices
  <1>3. CASE Cardinality(s) = turn + 1
    <2>1. Cardinality(s) = Len(nodes)
      BY <1>2, <1>3
    <2>2. Cardinality(s) <= Cardinality(Vertices) /\ Cardinality(Vertices) \in Nat
          /\ (Cardinality(Vertices) = Cardinality(s) => Vertices = s)
      BY <1>1, <1>2, FS_Subset, FS_CardinalityType
    <2>3. Vertices = s
      BY <1>2, <2>1, <2>2
    <2> QED
      BY <2>3 DEF Open
  <1> QED
    BY <1>1, <1>3 DEF Progress

LEMMA SettledIsClosed ==
  ASSUME FlowTyped, SearchInv, Open = {}
  PROVE  Closed(s)
  <1>1. links \in Topologies /\ SearchTyped /\ Relaxed /\ NearestFirst /\ WaysFound
    BY DEF FlowTyped, SearchInv
  <1>2. nodes = number_of_vertices(links) /\ road = read_and_init(links) /\ start \in s /\ s \subseteq Vertices
    BY <1>1 DEF SearchTyped
  <1> SUFFICES ASSUME NEW l \in ToSet(links), l.src \in s, l.dst \notin s
               PROVE  FALSE
    BY <1>2 DEF Closed
  <1> DEFINE i == l.src
             j == l.dst
             d == road[<<i, j>>]
  <1>3. j \in Vertices /\ i \in Vertices /\ i \in Node /\ j \in Node
    BY <1>1, <1>2, VertexFacts, LinkFacts DEF Vertices
  <1>4. d <= LargestWeight
    BY <1>1, <1>2, GraphFacts
  <1>5. d \in Nat /\ r[i] \in Nat /\ r[j] \in Nat /\ Inf \in Nat
    BY <1>1, <1>3, SearchFacts DEF IsRoad
  <1>6. r[j] <= r[i] + d /\ r[i] < Inf
    BY <1>1, <1>3 DEF Relaxed, NearestFirst
  <1>7. ~(r[j] < Inf)
    BY <1>3 DEF Open
  <1>8. PICK p \in Ways : IsFound(p, i)
    BY <1>1, <1>3, <1>6 DEF WaysFound
  <1> DEFINE n == Len(p)
  <1>9. n \in Nat \ {0} /\ n <= Cardinality(Node) /\ r[i] <= (n - 1) * LargestWeight
    BY <1>8, WayIsSequence DEF IsFound
  <1> HIDE DEF n, d, i, j
  <1> DEFINE x == (n - 1) * LargestWeight
             y == n * LargestWeight
             z == Cardinality(Node) * LargestWeight
  <1>10. x \in Int /\ y \in Int /\ y = x + LargestWeight
    BY <1>9, WeightFacts
  <1>11. y <= z /\ z < Inf /\ z \in Int
    <2>1. Cardinality(Node) \in Nat
      BY PathAssumption, FS_CardinalityType
    <2>2. Cardinality(Node) - n \in Nat /\ n \in Nat /\ LargestWeight \in Nat
      BY <1>9, <2>1, WeightFacts
    <2>3. (Cardinality(Node) - n) * LargestWeight \in Nat
      BY <2>2
    <2>4. z = y + (Cardinality(Node) - n) * LargestWeight
      BY <2>1, <2>2
    <2>5. z = LargestWeight * Cardinality(Node)
      BY <2>1, <2>2
    <2>6. z < Inf
      BY <2>5, WeightFacts
    <2> HIDE DEF z, y
    <2>7. y <= z /\ z \in Int
      BY <1>10, <2>3, <2>4
    <2> QED
      BY <2>6, <2>7
  <1>12. r[i] <= x
    BY <1>9
  <1> HIDE DEF x, y, z
  <1>13. r[i] + d < Inf
    BY <1>4, <1>5, <1>10, <1>11, <1>12, WeightFacts
  <1> QED
    BY <1>5, <1>6, <1>7, <1>13

LEMMA LoopEndKeeps ==
  ASSUME PathIInv, LoopEnds
  PROVE  PathIInv'
  <1>1. /\ pc = "loop" /\ pc' = "road" /\ turn = Len(nodes) - 1 /\ node' = end
        /\ UNCHANGED <<links, start, end, pending, reached, nodes, road, r, f, s, posMin, turn, path>>
    BY DEF LoopEnds, checkVars, graphVars, searchVars
  <1>2. FlowTyped /\ SearchInv
    BY <1>1 DEF PathIInv, Searching
  <1>3. Open = {} /\ Closed(s)
    BY <1>1, <1>2, AllSettled, SettledIsClosed
  <1>4. s \subseteq Node
    BY <1>2, SearchFacts DEF SearchInv, FlowTyped
  <1>5. end \in s
    BY <1>2, <1>3, <1>4 DEF SearchInv, EndReachable
  <1>6. FlowTyped' /\ path = <<>>
    BY <1>1, <1>2 DEF FlowTyped
  <1>7. SearchTyped' /\ Relaxed' /\ NearestFirst' /\ Fathers' /\ Progress' /\ EndReachable'
    BY <1>1, <1>2 DEF SearchInv, SearchTyped, Relaxed, NearestFirst, Fathers, Progress, EndReachable,
                      Closed, Vertices, Open
  <1>8. WaysFound'
    BY <1>1, <1>2, CostIsCost DEF SearchInv, WaysFound, IsFound, Vertices
  <1>9. Open' = {}
    BY <1>1, <1>3 DEF Open, Vertices
  <1>10. PathInv'
    <2>1. path' = <<>> /\ Len(path') = 0 /\ path' \in Seq(s')
      BY <1>1, <1>6
    <2> QED
      BY <1>1, <1>5, <1>9, <2>1 DEF PathInv
  <1> QED
    BY <1>1, <1>6, <1>7, <1>8, <1>10 DEF PathIInv, SearchInv

(* The path grows by one predecessor.                                      *)
LEMMA RoadKeeps ==
  ASSUME PathIInv, RoadStep
  PROVE  PathIInv'
  <1>1. /\ pc = "road" /\ path' = <<node>> \o path
        /\ UNCHANGED <<links, start, end, pending, reached, nodes, road, r, f, s, posMin, turn>>
        /\ IF f[node] = None THEN pc' = "done" /\ node' = node ELSE node' = f[node] /\ pc' = pc
    BY DEF RoadStep, checkVars, graphVars, searchVars
  <1>2. FlowTyped /\ SearchInv /\ PathInv /\ links \in Topologies
    BY <1>1 DEF PathIInv, Searching, FlowTyped
  <1>3. /\ path \in Seq(s) /\ node \in s /\ node = IF path = <<>> THEN end ELSE f[path[1]]
        /\ path # <<>> => path[Len(path)] = end
        /\ \A k \in 1 .. Len(path) - 1 : path[k + 1] # start /\ path[k] = f[path[k + 1]]
        /\ end \in s
    BY <1>1, <1>2 DEF PathInv
  <1>4. None \notin s /\ s \subseteq Vertices
    <2>1. s \subseteq Node
      BY <1>2, SearchFacts DEF SearchInv
    <2> QED
      BY <1>2, <2>1, PathAssumption DEF None, SearchInv, SearchTyped
  <1>5. f[start] = None /\ \A i \in s \ {start} : f[i] \in s
    BY <1>2, <1>4 DEF SearchInv, Fathers, NearestFirst
  <1> DEFINE q == <<node>> \o path
  <1>6. /\ q \in Seq(s) /\ Len(q) = Len(path) + 1 /\ q # <<>> /\ q[1] = node
        /\ \A k \in 1 .. Len(path) : q[k + 1] = path[k]
        /\ Len(path) \in Nat /\ (path = <<>> <=> Len(path) = 0)
    BY <1>3
  <1> HIDE DEF q
  <1>7. q[Len(q)] = end
    <2>1. CASE path = <<>>
      BY <1>3, <1>6, <2>1
    <2>2. CASE path # <<>>
      <3>1. Len(path) \in 1 .. Len(path)
        BY <1>6, <2>2
      <3> QED
        BY <1>3, <1>6, <2>2, <3>1
    <2> QED
      BY <2>1, <2>2
  <1>8. ASSUME NEW k \in 1 .. Len(q) - 1
        PROVE  q[k + 1] # start /\ q[k] = f[q[k + 1]]
    <2>1. k \in 1 .. Len(path) /\ q[k + 1] = path[k]
      BY <1>6
    <2>2. CASE k = 1
      <3>1. path # <<>>
        BY <1>6, <2>1
      <3>2. q[1] = f[path[1]]
        BY <1>3, <1>6, <3>1
      <3>3. path[1] # start
        BY <1>4, <1>5, <1>6, <3>2, <1>3
      <3> QED
        BY <2>1, <2>2, <3>2, <3>3
    <2>3. CASE k # 1
      <3>1. k - 1 \in 1 .. Len(path) - 1 /\ k - 1 \in 1 .. Len(path) /\ (k - 1) + 1 = k
        BY <1>6, <2>1, <2>3
      <3>2. q[k] = path[k - 1]
        BY <1>6, <3>1
      <3> QED
        BY <1>3, <2>1, <3>1, <3>2
    <2> QED
      BY <2>2, <2>3
  <1>9. FlowTyped'
    BY <1>1, <1>2 DEF FlowTyped
  <1>10. SearchTyped' /\ Relaxed' /\ NearestFirst' /\ Fathers' /\ Progress' /\ EndReachable'
    BY <1>1, <1>2 DEF SearchInv, SearchTyped, Relaxed, NearestFirst, Fathers, Progress, EndReachable,
                      Closed, Vertices, Open
  <1>11. WaysFound'
    BY <1>1, <1>2, CostIsCost DEF SearchInv, WaysFound, IsFound, Vertices
  <1>12. Open' = {}
    BY <1>1, <1>2 DEF PathInv, Open, Vertices
  <1>13. PathInv'
    <2>1. CASE f[node] = None
      <3>1. node = start
        BY <1>3, <1>4, <1>5, <2>1
      <3>2. path' = q /\ pc' = "done" /\ UNCHANGED <<s, f, start, end>>
        BY <1>1, <2>1 DEF q
      <3> QED
        BY <1>3, <1>6, <1>7, <1>8, <1>12, <3>1, <3>2 DEF PathInv
    <2>2. CASE f[node] # None
      <3>1. node' = f[node] /\ f[node] \in s
        BY <1>1, <1>3, <1>5, <2>2
      <3>2. path' = q /\ pc' = "road" /\ UNCHANGED <<s, f, start, end>>
        BY <1>1, <2>2 DEF q
      <3> QED
        BY <1>3, <1>6, <1>7, <1>8, <1>12, <3>1, <3>2 DEF PathInv
    <2> QED
      BY <2>1, <2>2
  <1> QED
    BY <1>1, <1>9, <1>10, <1>11, <1>13 DEF PathIInv, SearchInv

-----------------------------------------------------------------------------
(* Each step of the check, the search and the path keeps the invariant.    *)
THEOREM PathInvariant == Spec => []PathIInv
  <1>1. Init => PathIInv
    BY InitHolds
  <1>2. PathIInv /\ [Next]_vars => PathIInv'
    <2> SUFFICES ASSUME PathIInv, [Next]_vars
                 PROVE  PathIInv'
      OBVIOUS
    <2>1. CASE Next
      BY <2>1, VisitKeeps, RejectKeeps, StartKeeps, TurnKeeps, LoopEndKeeps, RoadKeeps DEF Next
    <2>2. CASE UNCHANGED vars
      <3>1. UNCHANGED <<links, start, end, pending, reached, nodes, road, r, f, s, posMin, turn, node, path, pc>>
        BY <2>2 DEF vars, checkVars, graphVars, searchVars, roadVars
      <3>2. FlowTyped' /\ (pc = "check" => OnlyReachable')
        BY <3>1 DEF PathIInv, FlowTyped, OnlyReachable, Closed
      <3>3. CASE Searching
        <4>1. SearchInv
          BY <3>3 DEF PathIInv
        <4>2. SearchTyped' /\ Relaxed' /\ NearestFirst' /\ Fathers' /\ Progress' /\ EndReachable'
          BY <3>1, <4>1 DEF SearchInv, SearchTyped, Relaxed, NearestFirst, Fathers, Progress, EndReachable,
                            Closed, Vertices, Open
        <4>3. WaysFound'
          BY <3>1, <4>1, CostIsCost DEF SearchInv, WaysFound, IsFound, Vertices
        <4>4. pc \in {"road", "done"} => PathInv'
          BY <3>1 DEF PathIInv, PathInv, Open, Vertices
        <4> QED
          BY <3>1, <3>2, <4>2, <4>3, <4>4 DEF PathIInv, SearchInv, Searching
      <3>4. CASE ~Searching
        BY <3>1, <3>2, <3>4 DEF PathIInv, Searching
      <3> QED
        BY <3>3, <3>4
    <2> QED
      BY <2>1, <2>2
  <1> QED
    BY <1>1, <1>2, PTL DEF Spec

(* Dijkstra's loop (get_shortests_path_per_vertex) settles a node only     *)
(* with its distance from the start, and the path that shortest_path       *)
(* collects from the predecessors is a cheapest chain of links from the    *)
(* source of the flow to its destination.                                  *)
THEOREM PathsAreShortest == Spec => []ShortestPaths
  <1>1. PathIInv => ShortestPaths
    <2> SUFFICES ASSUME PathIInv
                 PROVE  ShortestPaths
      OBVIOUS
    <2>1. SettledExact
      <3>1. CASE Searching
        BY <3>1, SettledIsExact DEF PathIInv, SettledExact
      <3>2. CASE ~Searching
        BY <3>2 DEF PathIInv, FlowTyped, Searching, SettledExact
      <3> QED
        BY <3>1, <3>2
    <2>2. PathIsShortest
      <3> SUFFICES ASSUME pc = "done"
                   PROVE  /\ Head(path) = start /\ Last(path) = end
                          /\ \A i \in 1 .. Len(path) - 1 :
                                \E l \in ToSet(links) : l.src = path[i] /\ l.dst = path[i + 1]
                          /\ IsDistance(end, CostOf(path))
        BY DEF PathIsShortest
      <3>1. FlowTyped /\ SearchInv /\ PathInv /\ links \in Topologies
        BY DEF PathIInv, Searching, FlowTyped
      <3>2. /\ path \in Seq(s) /\ path # <<>> /\ path[1] = start /\ path[Len(path)] = end /\ end \in s
            /\ \A k \in 1 .. Len(path) - 1 : path[k + 1] # start /\ path[k] = f[path[k + 1]]
        BY <3>1 DEF PathInv
      <3>3. Head(path) = start /\ Last(path) = end
        BY <3>2 DEF Last
      <3>4. /\ IsRoad(road) /\ Inf \in Nat /\ s \subseteq Node /\ s \subseteq Vertices
            /\ \A i \in Vertices : r[i] \in Nat
            /\ r[start] = 0
        BY <3>1, SearchFacts DEF SearchInv, SearchTyped
      <3>5. ASSUME NEW k \in 1 .. Len(path) - 1
            PROVE  /\ r[path[k + 1]] = r[path[k]] + road[<<path[k], path[k + 1]>>]
                   /\ \E l \in ToSet(links) : l.src = path[k] /\ l.dst = path[k + 1]
        <4> DEFINE i == path[k + 1]
                   h == path[k]
        <4>1. i \in s /\ h \in s /\ i # start /\ h = f[i]
          BY <3>2
        <4> HIDE DEF i, h
        <4>2. r[i] < Inf
          BY <3>1, <4>1 DEF SearchInv, NearestFirst
        <4>3. h # i /\ r[i] = r[h] + road[<<h, i>>]
          BY <3>1, <3>4, <4>1, <4>2 DEF SearchInv, Fathers
        <4>4. road[<<h, i>>] \in Nat /\ r[h] \in Nat /\ r[i] \in Nat
          BY <3>4, <4>1 DEF IsRoad
        <4>5. road[<<h, i>>] < Inf
          BY <3>4, <4>2, <4>3, <4>4
        <4>6. road = read_and_init(links)
          BY <3>1 DEF SearchInv, SearchTyped
        <4>7. \E l \in ToSet(links) : l.src = h /\ l.dst = i
          BY <3>1, <3>4, <4>1, <4>3, <4>5, <4>6, RoadFacts
        <4> QED
          BY <4>3, <4>7 DEF i, h
      <3>6. CostOf(path) = r[end]
        <4>1. path \in Seq(Node) /\ Len(path) # 0 /\ \A k \in 1 .. Len(path) : r[path[k]] \in Nat
          <5>1. Len(path) \in Nat /\ \A k \in 1 .. Len(path) : path[k] \in s
            BY <3>2
          <5> QED
            BY <3>2, <3>4, <5>1
        <4>2. r[path[Len(path)]] = r[path[1]] + CostIn(road, path)
          BY <3>4, <3>5, <4>1, CostOfChain
        <4>3. CostIn(road, path) = CostOf(path)
          BY CostIsCost
        <4>4. CostIn(road, path) \in Nat
          <5>1. Len(path) - 1 \in 0 .. Len(path) - 1
            BY <4>1
          <5> QED
            BY <3>4, <4>1, <5>1, CostFacts
        <4> QED
          BY <3>2, <3>4, <4>2, <4>3, <4>4
      <3>7. IsDistance(end, CostOf(path))
        BY <3>1, <3>2, <3>6, SettledIsExact
      <3> QED
        BY <3>3, <3>5, <3>7
    <2> QED
      BY <2>1, <2>2 DEF ShortestPaths
  <1> QED
    BY <1>1, PathInvariant, PTL
=============================================================================
