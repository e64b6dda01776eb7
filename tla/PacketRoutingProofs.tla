------------------------- MODULE PacketRoutingProofs -------------------------
(***************************************************************************)
(* For any nodes, links, costs, modes and networks: a packet is given to   *)
(* those it is for, once, and to nobody else, if the nodes agree on the    *)
(* gateways; the next hops are first steps of cheapest paths, and there is *)
(* one whenever there is a path.                                           *)
(***************************************************************************)
EXTENDS PacketRouting, WellFoundedInduction, FiniteSetTheorems, TLAPS

----------------------------------------------------------------------------
(* Every set of numbers that is not empty has a least one. *)
Less == {p \in Nat \X Nat : p[1] < p[2]}

LEMMA LeastNumber ==
    ASSUME NEW T, T \subseteq Nat, T # {}
    PROVE  \E x \in T : \A y \in T : x <= y
  <1>1. IsWellFoundedOn(Less, Nat)
    BY NatLessThanWellFounded DEF OpToRel, Less
  <1>2. \E x \in T : \A y \in T : <<y, x>> \notin Less
    BY <1>1, WFMin
  <1>3. \A x, y \in Nat : <<y, x>> \notin Less <=> x <= y
    BY DEF Less
  <1>4. QED
    BY <1>2, <1>3

(* A set of numbers with 0 and with the successor of each of its numbers   *)
(* below n has all up to n.                                                *)
LEMMA Induction ==
    ASSUME NEW n \in Nat, NEW S, 0 \in S, \A k \in 0 .. n - 1 : k \in S => k + 1 \in S
    PROVE  0 .. n \subseteq S
  <1> DEFINE T == (0 .. n) \ S
  <1> SUFFICES ASSUME T # {} PROVE FALSE
    OBVIOUS
  <1>1. PICK x \in T : \A y \in T : x <= y
    <2> HIDE DEF T
    <2>1. T \subseteq Nat
      BY DEF T
    <2>2. QED
      BY <2>1, LeastNumber
  <1>2. x \in 1 .. n /\ x - 1 \in 0 .. n - 1 /\ x - 1 \notin T
    BY <1>1
  <1>3. x - 1 \in S /\ (x - 1) + 1 = x
    BY <1>2
  <1>4. QED
    BY <1>2, <1>3

LEMMA MinIs ==
    ASSUME NEW T, T \subseteq Nat, T # {}
    PROVE  Min(T) \in T /\ \A y \in T : Min(T) <= y
  BY LeastNumber DEF Min

(* The sum of v over the sets of numbers up to n, as MapThenSumSet takes   *)
(* it: one number at a time, in no order one knows.                        *)
Taken(s) == CHOOSE x \in s : TRUE

IsSum(f, v, D) ==
    f = [s \in D |-> IF s = {} THEN 0 ELSE v[Taken(s)] + f[s \ {Taken(s)}]]

Sums(f, v, n) == IsSum(f, v, SUBSET (1 .. n))

Upto(n, k) == {s \in SUBSET (1 .. n) : Cardinality(s) <= k}

LEMMA UptoIs ==
    ASSUME NEW n \in Nat
    PROVE  /\ Upto(n, 0) = {{}}
           /\ Upto(n, n) = SUBSET (1 .. n)
           /\ \A s \in SUBSET (1 .. n) : IsFiniteSet(s) /\ Cardinality(s) \in Nat
           /\ \A s \in SUBSET (1 .. n) : s # {} => Taken(s) \in s
           /\ \A s \in SUBSET (1 .. n) : \A x \in s :
                 Cardinality(s \ {x}) = Cardinality(s) - 1 /\ Cardinality(s) >= 1
  <1>1. IsFiniteSet(1 .. n) /\ Cardinality(1 .. n) = n
    BY FS_Interval
  <1>2. ASSUME NEW s \in SUBSET (1 .. n)
        PROVE  IsFiniteSet(s) /\ Cardinality(s) \in Nat /\ Cardinality(s) <= n
    BY <1>1, FS_Subset, FS_CardinalityType
  <1>3. ASSUME NEW s \in SUBSET (1 .. n), NEW x \in s
        PROVE  Cardinality(s \ {x}) = Cardinality(s) - 1 /\ Cardinality(s) >= 1
    <2>1. Cardinality(s \ {x}) = Cardinality(s) - 1 /\ Cardinality(s \ {x}) \in Nat
      BY <1>2, FS_RemoveElement, FS_CardinalityType
    <2>2. QED
      BY <1>2, <2>1
  <1>4. \A s \in SUBSET (1 .. n) : s # {} => Taken(s) \in s
    BY DEF Taken
  <1>5. Upto(n, 0) = {{}}
    <2>1. {} \in Upto(n, 0)
      BY FS_EmptySet DEF Upto
    <2>2. ASSUME NEW s \in Upto(n, 0) PROVE s = {}
      <3>1. s \in SUBSET (1 .. n) /\ Cardinality(s) <= 0
        BY DEF Upto
      <3>2. Cardinality(s) = 0
        BY <1>2, <3>1
      <3>3. QED
        BY <1>2, <3>1, <3>2, FS_EmptySet
    <2>3. QED
      BY <2>1, <2>2
  <1>6. Upto(n, n) = SUBSET (1 .. n)
    BY <1>2 DEF Upto
  <1>7. QED
    BY <1>2, <1>3, <1>4, <1>5, <1>6

LEMMA SumExists ==
    ASSUME NEW n \in Nat, NEW v
    PROVE  \E f : Sums(f, v, n)
  <1> DEFINE S == {k \in Nat : \E f : IsSum(f, v, Upto(n, k))}
  <1>1. 0 \in S
    <2> DEFINE f == [s \in {{}} |-> 0]
    <2>1. IsSum(f, v, {{}})
      BY DEF IsSum
    <2>2. QED
      BY <2>1, UptoIs
  <1>2. ASSUME NEW k \in 0 .. n - 1, k \in S PROVE k + 1 \in S
    <2>1. PICK f : IsSum(f, v, Upto(n, k))
      BY <1>2
    <2> DEFINE D == Upto(n, k + 1)
               g == [s \in D |-> IF s = {} THEN 0 ELSE v[Taken(s)] + f[s \ {Taken(s)}]]
    <2>2. ASSUME NEW s \in Upto(n, k) PROVE s \in D /\ g[s] = f[s]
      <3>1. s \in D
        <4>1. s \in SUBSET (1 .. n) /\ Cardinality(s) <= k
          BY DEF Upto
        <4>2. Cardinality(s) \in Nat
          BY <4>1, UptoIs
        <4>3. Cardinality(s) <= k + 1
          BY <4>1, <4>2
        <4>4. QED
          BY <4>1, <4>3 DEF Upto
      <3>2. f[s] = IF s = {} THEN 0 ELSE v[Taken(s)] + f[s \ {Taken(s)}]
        BY <2>1 DEF IsSum
      <3>3. QED
        BY <3>1, <3>2
    <2>3. ASSUME NEW s \in D, s # {} PROVE s \ {Taken(s)} \in Upto(n, k)
      <3>1. s \in SUBSET (1 .. n) /\ Cardinality(s) <= k + 1
        BY DEF Upto
      <3>2. Taken(s) \in s /\ Cardinality(s \ {Taken(s)}) = Cardinality(s) - 1
            /\ Cardinality(s) \in Nat
        BY <2>3, <3>1, UptoIs
      <3>3. Cardinality(s \ {Taken(s)}) <= k
        BY <3>1, <3>2
      <3>4. QED
        BY <3>1, <3>3 DEF Upto
    <2>4. \A s \in D : g[s] = IF s = {} THEN 0 ELSE v[Taken(s)] + g[s \ {Taken(s)}]
      BY <2>2, <2>3
    <2>5. IsSum(g, v, D)
      <3> HIDE DEF g
      <3>1. g = [s \in D |-> g[s]]
        BY DEF g
      <3>2. g = [s \in D |-> IF s = {} THEN 0 ELSE v[Taken(s)] + g[s \ {Taken(s)}]]
        BY <2>4, <3>1
      <3>3. QED
        BY <3>2 DEF IsSum
    <2>6. QED
      BY <2>5
  <1>3. n \in S
    <2> HIDE DEF S
    <2>1. 0 .. n \subseteq S
      BY <1>1, <1>2, Induction
    <2>2. QED
      BY <2>1
  <1>4. \E f : IsSum(f, v, Upto(n, n))
    BY <1>3
  <1>5. Upto(n, n) = SUBSET (1 .. n)
    BY UptoIs
  <1>6. QED
    BY <1>4, <1>5 DEF Sums

Without(s, x) == s \ {x}

(* A sum is a number, and it does not matter which number is taken first. *)
LEMMA SumTakes ==
    ASSUME NEW n \in Nat, NEW v \in [1 .. n -> Nat],
           NEW f, Sums(f, v, n)
    PROVE  \A s \in SUBSET (1 .. n) :
              f[s] \in Nat /\ \A x \in s : f[s] = v[x] + f[Without(s, x)]
  <1> DEFINE Holds(t) == f[t] \in Nat /\ \A x \in t : f[t] = v[x] + f[Without(t, x)]
             S == {k \in Nat : \A t \in Upto(n, k) : Holds(t)}
  <1>0. IsSum(f, v, SUBSET (1 .. n))
    BY DEF Sums
  <1>1. f[{}] = 0
    BY <1>0 DEF IsSum
  <1>2. 0 \in S
    <2>1. Holds({})
      BY <1>1
    <2> HIDE DEF Holds
    <2>2. QED
      BY <2>1, UptoIs
  <1>3. ASSUME NEW k \in 0 .. n - 1, k \in S PROVE k + 1 \in S
    <2>1. ASSUME NEW t \in Upto(n, k + 1) PROVE Holds(t)
      <3>1. t \in SUBSET (1 .. n) /\ Cardinality(t) <= k + 1
        BY <2>1 DEF Upto
      <3>2. ASSUME NEW x \in t PROVE Holds(t \ {x})
        <4>1. Cardinality(t \ {x}) <= k
          <5>1. Cardinality(t) \in Nat /\ Cardinality(t \ {x}) = Cardinality(t) - 1
            BY <3>1, UptoIs
          <5>2. QED
            BY <3>1, <5>1
        <4>2. QED
          BY <1>3, <3>1, <4>1 DEF Upto
      <3>3. CASE t = {}
        BY <1>1, <3>3
      <3>4. CASE t # {}
        <4> DEFINE c == Taken(t)
        <4>1. c \in t
          BY <3>1, <3>4, UptoIs
        <4>2. f[t] = v[c] + f[t \ {c}]
          BY <1>0, <3>1, <3>4 DEF IsSum
        <4> HIDE DEF c
        <4>3. f[t] \in Nat
          <5>1. v[c] \in Nat /\ f[t \ {c}] \in Nat
            BY <3>1, <3>2, <4>1
          <5>2. QED
            BY <4>2, <5>1
        <4>4. ASSUME NEW x \in t, x # c PROVE f[t] = v[x] + f[t \ {x}]
          <5>1. (t \ {c}) \ {x} = (t \ {x}) \ {c} /\ x \in t \ {c} /\ c \in t \ {x}
            BY <4>1, <4>4
          <5>2. f[t \ {c}] = v[x] + f[(t \ {x}) \ {c}]
            BY <3>2, <4>1, <5>1 DEF Without
          <5>3. f[t \ {x}] = v[c] + f[(t \ {x}) \ {c}]
            BY <3>2, <5>1 DEF Without
          <5>4. f[(t \ {x}) \ {c}] \in Nat
            <6>1. Cardinality((t \ {x}) \ {c}) <= k
              <7>1. Cardinality(t \ {x}) = Cardinality(t) - 1 /\ Cardinality(t) \in Nat
                BY <3>1, UptoIs
              <7>2. Cardinality((t \ {x}) \ {c}) = Cardinality(t \ {x}) - 1
                BY <3>1, <5>1, UptoIs
              <7>3. QED
                BY <3>1, <7>1, <7>2
            <6>2. QED
              BY <1>3, <3>1, <6>1 DEF Upto
          <5>5. v[x] \in Nat /\ v[c] \in Nat
            BY <3>1, <4>1
          <5>6. QED
            BY <4>2, <5>2, <5>3, <5>4, <5>5
        <4>5. \A x \in t : f[t] = v[x] + f[Without(t, x)]
          BY <4>2, <4>4 DEF Without
        <4>6. QED
          BY <4>3, <4>5
      <3>5. QED
        BY <3>3, <3>4
    <2>2. QED
      BY <2>1
  <1>4. n \in S
    <2> HIDE DEF S
    <2>1. 0 .. n \subseteq S
      BY <1>2, <1>3, Induction
    <2>2. QED
      BY <2>1
  <1>5. QED
    BY <1>4, UptoIs

----------------------------------------------------------------------------
(* The cost of a path, step by step *)

LastStep(p) == Len(p) - 1
StepCost(p, i) == Cost[<<p[i], p[i + 1]>>]

(* c[i] is what the first i steps of p cost. *)
Counts(c, p) ==
    /\ c[0] = 0
    /\ \A i \in 1 .. LastStep(p) : c[i] = c[i - 1] + StepCost(p, i)

LEMMA CostIsSum ==
    ASSUME NEW p, Len(p) \in Nat \ {0}
    PROVE  LET v == [i \in 1 .. LastStep(p) |-> StepCost(p, i)]
           IN  PathCost(p) = (CHOOSE f : Sums(f, v, LastStep(p)))[1 .. LastStep(p)]
  <1> DEFINE v == [i \in 1 .. LastStep(p) |-> StepCost(p, i)]
             D == SUBSET (1 .. LastStep(p))
             Body(f, s) == IF s = {} THEN 0 ELSE StepCost(p, Taken(s)) + f[s \ {Taken(s)}]
  <1>1. PathCost(p) = (CHOOSE f : f = [s \in D |-> Body(f, s)])[1 .. LastStep(p)]
    BY DEF PathCost, MapThenSumSet, MapThenFoldSet, StepCost, LastStep, Taken
  <1>2. \A f : [s \in D |-> Body(f, s)]
              = [s \in D |-> IF s = {} THEN 0 ELSE v[Taken(s)] + f[s \ {Taken(s)}]]
    <2>1. \A s \in D : s # {} => v[Taken(s)] = StepCost(p, Taken(s))
      BY DEF Taken
    <2>2. QED
      BY <2>1
  <1>3. \A f : (f = [s \in D |-> Body(f, s)]) <=> Sums(f, v, LastStep(p))
    BY <1>2 DEF IsSum, Sums
  <1>4. (CHOOSE f : f = [s \in D |-> Body(f, s)]) = (CHOOSE f : Sums(f, v, LastStep(p)))
    <2> HIDE DEF Body, v, D
    <2>1. QED BY <1>3
  <1>5. QED
    BY <1>1, <1>4

LEMMA CostCounts ==
    ASSUME NEW p, Len(p) \in Nat \ {0},
           \A i \in 1 .. LastStep(p) : StepCost(p, i) \in Nat
    PROVE  \E c \in [0 .. LastStep(p) -> Nat] :
              Counts(c, p) /\ PathCost(p) = c[LastStep(p)]
  <1> DEFINE n == LastStep(p)
             v == [i \in 1 .. n |-> StepCost(p, i)]
             f == CHOOSE g : Sums(g, v, n)
             c == [i \in 0 .. n |-> f[1 .. i]]
  <1>1. n \in Nat
    BY DEF LastStep
  <1>2. Sums(f, v, n)
    <2> HIDE DEF n, v
    <2>1. \E g : Sums(g, v, n)
      BY <1>1, SumExists
    <2>2. QED BY <2>1
  <1>3. v \in [1 .. n -> Nat] /\ \A i \in 1 .. n : v[i] = StepCost(p, i)
    OBVIOUS
  <1>4. PathCost(p) = f[1 .. n]
    BY CostIsSum
  <1> HIDE DEF n, v, f
  <1>5. \A i \in 0 .. n : 1 .. i \in SUBSET (1 .. n)
    BY <1>1
  <1>s. ASSUME NEW s \in SUBSET (1 .. n)
        PROVE  f[s] \in Nat /\ \A x \in s : f[s] = v[x] + f[Without(s, x)]
    BY <1>1, <1>2, <1>3, SumTakes
  <1>6. \A i \in 0 .. n : f[1 .. i] \in Nat
    BY <1>5, <1>s
  <1>7. f[1 .. 0] = 0
    BY <1>1, <1>2 DEF IsSum, Sums
  <1>8. ASSUME NEW i \in 1 .. n PROVE f[1 .. i] = f[1 .. i - 1] + StepCost(p, i)
    <2>1. i \in 1 .. i /\ (1 .. i) \ {i} = 1 .. i - 1
      BY <1>1
    <2>2. f[1 .. i] = v[i] + f[(1 .. i) \ {i}]
      <3>1. 1 .. i \in SUBSET (1 .. n)
        BY <1>1
      <3>2. QED
        BY <1>s, <2>1, <3>1 DEF Without
    <2>3. f[1 .. i - 1] \in Nat
      BY <1>1, <1>6
    <2>4. v[i] \in Nat /\ v[i] = StepCost(p, i)
      BY <1>3
    <2>5. f[1 .. i] = v[i] + f[1 .. i - 1]
      BY <2>1, <2>2
    <2>6. QED
      BY <2>3, <2>4, <2>5
  <1>9. c \in [0 .. n -> Nat] /\ c[0] = 0 /\ c[n] = PathCost(p)
    BY <1>1, <1>4, <1>6, <1>7
  <1>10. ASSUME NEW i \in 1 .. n PROVE c[i] = c[i - 1] + StepCost(p, i)
    BY <1>1, <1>8
  <1>11. QED
    BY <1>9, <1>10 DEF Counts, n

(* Whatever counts the steps of a path ends at its cost. *)
LEMMA CostIs ==
    ASSUME NEW p, Len(p) \in Nat \ {0},
           \A i \in 1 .. LastStep(p) : StepCost(p, i) \in Nat,
           NEW c, Counts(c, p)
    PROVE  PathCost(p) = c[LastStep(p)]
  <1> DEFINE n == LastStep(p)
  <1>1. n \in Nat
    BY DEF LastStep
  <1>2. PICK d \in [0 .. n -> Nat] : Counts(d, p) /\ PathCost(p) = d[n]
    BY CostCounts
  <1> DEFINE S == {i \in Nat : i <= n => c[i] = d[i]}
  <1>3. 0 \in S
    BY <1>2 DEF Counts
  <1>4. ASSUME NEW k \in 0 .. n - 1, k \in S PROVE k + 1 \in S
    <2>1. k + 1 \in 1 .. n /\ (k + 1) - 1 = k /\ k <= n
      BY <1>1
    <2>2. c[k + 1] = c[(k + 1) - 1] + StepCost(p, k + 1)
      BY <2>1 DEF Counts
    <2>3. d[k + 1] = d[(k + 1) - 1] + StepCost(p, k + 1)
      BY <1>2, <2>1 DEF Counts
    <2>4. c[k] = d[k]
      BY <1>4, <2>1
    <2>5. QED
      BY <2>1, <2>2, <2>3, <2>4
  <1>5. n \in S
    <2> HIDE DEF S, n
    <2>1. 0 .. n \subseteq S
      BY <1>1, <1>3, <1>4, Induction
    <2>2. QED
      BY <1>1, <2>1
  <1>6. QED
    BY <1>1, <1>2, <1>5

----------------------------------------------------------------------------
(* Paths and their costs *)

(* A map of links: what an uploaded peers_status and a fetched one are. *)
IsMap(map) == map \in [Node -> SUBSET Node] /\ \A n \in Node : \A m \in map[n] : <<n, m>> \in Link

LEMMA PathIs ==
    ASSUME NEW p \in Path
    PROVE  /\ Len(p) \in 2 .. Cardinality(Node)
           /\ p \in [1 .. Len(p) -> Node]
           /\ IsInjective(p)
           /\ Cardinality(Node) \in Nat
  <1>1. Cardinality(Node) \in Nat
    BY RoutingAssumption, FS_CardinalityType
  <1>2. PICK k \in 2 .. Cardinality(Node) : p \in [1 .. k -> Node]
    BY DEF Path
  <1>3. Len(p) = k
    BY <1>1, <1>2
  <1>4. QED
    BY <1>1, <1>2, <1>3 DEF Path

LEMMA IsPath ==
    ASSUME NEW k \in 2 .. Cardinality(Node), NEW p \in [1 .. k -> Node], IsInjective(p)
    PROVE  p \in Path /\ Len(p) = k
  <1>1. Cardinality(Node) \in Nat
    BY RoutingAssumption, FS_CardinalityType
  <1>2. Len(p) = k
    BY <1>1
  <1>3. QED
    BY <1>2 DEF Path

LEMMA LeadsSteps ==
    ASSUME NEW map, IsMap(map), NEW p \in Path, NEW n, NEW d, Leads(p, n, d, map)
    PROVE  /\ Len(p) \in Nat \ {0}
           /\ \A i \in 1 .. LastStep(p) : p[i + 1] \in map[p[i]] /\ StepCost(p, i) \in Nat
           /\ p[1] = n /\ p[Len(p)] = d
  <1>1. Len(p) \in 2 .. Cardinality(Node) /\ Len(p) \in Nat \ {0} /\ p \in [1 .. Len(p) -> Node]
    BY PathIs
  <1>2. ASSUME NEW i \in 1 .. LastStep(p)
        PROVE  p[i + 1] \in map[p[i]] /\ StepCost(p, i) \in Nat
    <2>1. i \in 1 .. Len(p) /\ p[i] \in Node
      BY <1>1 DEF LastStep
    <2>2. p[i + 1] \in map[p[i]]
      BY DEF Leads, LastStep
    <2>3. <<p[i], p[i + 1]>> \in Link
      BY <2>1, <2>2 DEF IsMap
    <2>4. QED
      BY <2>2, <2>3, RoutingAssumption DEF StepCost
  <1>3. QED
    BY <1>1, <1>2 DEF Leads, Last

LEMMA PathCostIsNat ==
    ASSUME NEW map, IsMap(map), NEW p \in Path, NEW n, NEW d, Leads(p, n, d, map)
    PROVE  PathCost(p) \in Nat
  <1>1. /\ Len(p) \in Nat \ {0}
        /\ \A i \in 1 .. LastStep(p) : StepCost(p, i) \in Nat
    BY LeadsSteps
  <1>2. LastStep(p) \in 0 .. LastStep(p)
    BY <1>1 DEF LastStep
  <1>3. QED
    BY <1>1, <1>2, CostCounts

(* find_next_hop finds nobody, or a neighbour and the least cost of a way  *)
(* that starts with it.                                                    *)
LEMMA HopIs ==
    ASSUME NEW map, IsMap(map), NEW n \in Node, NEW d \in Node, NEW h \in NextHops(n, d, map),
           h # NoHop
    PROVE  \E p \in Path :
              /\ Leads(p, n, d, map)
              /\ h = [next |-> p[2], cost |-> PathCost(p)]
              /\ \A q \in Path : Leads(q, n, d, map) => PathCost(p) <= PathCost(q)
              /\ p[2] \in map[n] /\ p[2] # n /\ PathCost(p) \in Nat
  <1> DEFINE paths == {p \in Path : Leads(p, n, d, map)}
             costs == {PathCost(p) : p \in paths}
  <1>1. paths # {}
    BY DEF NextHops
  <1>2. costs \subseteq Nat /\ costs # {}
    BY <1>1, PathCostIsNat
  <1>3. PICK p \in paths : h = [next |-> p[2], cost |-> Min(costs)] /\ PathCost(p) = Min(costs)
    BY <1>1 DEF NextHops
  <1>4. \A c \in costs : Min(costs) <= c
    <2> HIDE DEF costs
    <2>1. QED BY <1>2, MinIs
  <1>5. \A q \in Path : Leads(q, n, d, map) => PathCost(p) <= PathCost(q)
    BY <1>3, <1>4
  <1>6. p[2] \in map[n] /\ p[2] # n
    <2>1. Len(p) \in 2 .. Cardinality(Node) /\ Cardinality(Node) \in Nat
          /\ p \in [1 .. Len(p) -> Node] /\ IsInjective(p)
      BY PathIs
    <2>2. 1 \in 1 .. LastStep(p) /\ 1 \in DOMAIN p /\ 2 \in DOMAIN p
      BY <2>1 DEF LastStep
    <2>3. p[1 + 1] \in map[p[1]] /\ p[1] = n
      BY <2>2, LeadsSteps
    <2>4. p[1] # p[2]
      BY <2>1, <2>2 DEF IsInjective
    <2>5. QED
      BY <2>3, <2>4
  <1>7. QED
    BY <1>3, <1>5, <1>6, PathCostIsNat

(* What the first j nodes of a path cost. *)
LEMMA PrefixCost ==
    ASSUME NEW p \in Path, \A i \in 1 .. LastStep(p) : StepCost(p, i) \in Nat,
           NEW c, Counts(c, p), NEW j \in 1 .. Len(p)
    PROVE  PathCost(SubSeq(p, 1, j)) = c[j - 1]
  <1> DEFINE q == SubSeq(p, 1, j)
  <1>1. Len(p) \in Nat /\ p \in [1 .. Len(p) -> Node] /\ p \in Seq(Node) /\ j \in Nat
    BY PathIs
  <1>2. Len(q) = j /\ \A i \in 1 .. j : q[i] = p[i]
    BY <1>1
  <1> HIDE DEF q
  <1>3. \A i \in 1 .. LastStep(q) : StepCost(q, i) = StepCost(p, i) /\ i \in 1 .. LastStep(p)
    BY <1>1, <1>2 DEF LastStep, StepCost
  <1>4. Counts(c, q)
    BY <1>3 DEF Counts
  <1>5. PathCost(q) = c[LastStep(q)]
    <2>1. Len(q) \in Nat \ {0}
      BY <1>1, <1>2
    <2>2. \A i \in 1 .. LastStep(q) : StepCost(q, i) \in Nat
      BY <1>3
    <2>3. QED
      BY <1>4, <2>1, <2>2, CostIs
  <1>6. QED
    BY <1>2, <1>5 DEF LastStep, q

(* The path that goes from the first node of p to the i-th directly. *)
Short(p, i) == [j \in 1 .. Len(p) - i + 2 |-> IF j = 1 THEN p[1] ELSE p[j + i - 2]]

LEMMA ShortIs ==
    ASSUME NEW map, IsMap(map), NEW n, NEW d, NEW p \in Path, Leads(p, n, d, map),
           NEW i \in 3 .. Len(p), p[i] \in map[p[1]],
           NEW c \in [0 .. LastStep(p) -> Nat], Counts(c, p)
    PROVE  /\ Short(p, i) \in Path /\ Leads(Short(p, i), n, d, map)
           /\ Len(Short(p, i)) = Len(p) - i + 2
           /\ PathCost(Short(p, i)) = Cost[<<p[1], p[i]>>] + (c[LastStep(p)] - c[i - 1])
  <1> DEFINE k == Len(p)
             m == k - i + 2
             q == Short(p, i)
  <1>1. /\ k \in 2 .. Cardinality(Node) /\ Cardinality(Node) \in Nat
        /\ p \in [1 .. k -> Node] /\ IsInjective(p)
    BY PathIs
  <1>2. /\ k \in Nat /\ i \in 3 .. k /\ m \in 2 .. k - 1
        /\ \A j \in 2 .. m : j + i - 2 \in i .. k
    BY <1>1
  <1>3. /\ q \in [1 .. m -> Node] /\ q[1] = p[1]
        /\ \A j \in 2 .. m : q[j] = p[j + i - 2]
    BY <1>1, <1>2 DEF Short
  <1> HIDE DEF k, m, q
  <1>4. IsInjective(q)
    <2>1. ASSUME NEW x \in 1 .. m, NEW y \in 1 .. m, q[x] = q[y] PROVE x = y
      <3>1. CASE x = 1 /\ y = 1
        BY <3>1
      <3>2. CASE x = 1 /\ y # 1
        <4>0. y \in 2 .. m
          BY <1>2, <3>2
        <4>1. p[1] = p[y + i - 2] /\ y + i - 2 \in i .. k
          BY <1>2, <1>3, <2>1, <3>2, <4>0
        <4>2. 1 \in 1 .. k /\ y + i - 2 \in 1 .. k /\ y + i - 2 # 1
          BY <1>2, <4>1
        <4>3. QED
          BY <1>1, <4>1, <4>2 DEF IsInjective
      <3>3. CASE x # 1 /\ y = 1
        <4>0. x \in 2 .. m
          BY <1>2, <3>3
        <4>1. p[1] = p[x + i - 2] /\ x + i - 2 \in i .. k
          BY <1>2, <1>3, <2>1, <3>3, <4>0
        <4>2. 1 \in 1 .. k /\ x + i - 2 \in 1 .. k /\ x + i - 2 # 1
          BY <1>2, <4>1
        <4>3. QED
          BY <1>1, <4>1, <4>2 DEF IsInjective
      <3>4. CASE x # 1 /\ y # 1
        <4>0. x \in 2 .. m /\ y \in 2 .. m
          BY <1>2, <3>4
        <4>1. /\ p[x + i - 2] = p[y + i - 2]
              /\ x + i - 2 \in i .. k /\ y + i - 2 \in i .. k
          BY <1>2, <1>3, <2>1, <4>0
        <4>2. x + i - 2 \in 1 .. k /\ y + i - 2 \in 1 .. k
          BY <1>2, <4>1
        <4>3. x + i - 2 = y + i - 2
          BY <1>1, <4>1, <4>2 DEF IsInjective
        <4>4. QED
          BY <1>2, <4>3
      <3>5. QED
        BY <3>1, <3>2, <3>3, <3>4
    <2>2. DOMAIN q = 1 .. m
      BY <1>3
    <2>3. QED
      BY <2>1, <2>2 DEF IsInjective
  <1>5. q \in Path /\ Len(q) = m
    <2>1. m \in 2 .. Cardinality(Node)
      BY <1>1, <1>2
    <2>2. QED
      BY <1>3, <1>4, <2>1, IsPath
  <1>6. q[m] = d
    <2>1. q[m] = p[m + i - 2] /\ m + i - 2 = k
      BY <1>2, <1>3 DEF m
    <2>2. QED
      BY <2>1, LeadsSteps DEF k
  <1>7. ASSUME NEW j \in 1 .. m - 1
        PROVE  /\ q[j + 1] \in map[q[j]]
               /\ j = 1 => StepCost(q, j) = Cost[<<p[1], p[i]>>]
               /\ j # 1 => StepCost(q, j) = StepCost(p, j + i - 2)
                           /\ j + i - 2 \in 1 .. LastStep(p)
    <2>1. CASE j = 1
      <3>1. q[j + 1] = p[i] /\ q[j] = p[1]
        BY <1>2, <1>3, <2>1
      <3>2. QED
        BY <2>1, <3>1 DEF StepCost
    <2>2. CASE j # 1
      <3>1. j \in 2 .. m /\ j + 1 \in 2 .. m /\ (j + 1) + i - 2 = (j + i - 2) + 1
        BY <1>2, <2>2
      <3>2. q[j] = p[j + i - 2] /\ q[j + 1] = p[(j + i - 2) + 1]
        BY <1>3, <3>1
      <3>3. j + i - 2 \in 1 .. LastStep(p)
        BY <1>2, <2>2 DEF m, k, LastStep
      <3>4. p[(j + i - 2) + 1] \in map[p[j + i - 2]]
        BY <3>3, LeadsSteps
      <3>5. QED
        BY <2>2, <3>2, <3>3, <3>4 DEF StepCost
    <2>3. QED
      BY <2>1, <2>2
  <1>8. Leads(q, n, d, map)
    <2>1. q[1] = n
      BY <1>3, LeadsSteps
    <2>2. QED
      BY <1>5, <1>6, <1>7, <2>1 DEF Leads, Last
  <1> DEFINE e == [j \in 0 .. m - 1 |->
                     IF j = 0 THEN 0
                     ELSE Cost[<<p[1], p[i]>>] + (c[j + i - 2] - c[i - 1])]
  <1>9. Cost[<<p[1], p[i]>>] \in Nat
    <2>1. <<p[1], p[i]>> \in Link
      BY <1>1, <1>2 DEF IsMap
    <2>2. QED
      BY <2>1, RoutingAssumption
  <1>10. /\ \A j \in 0 .. k - 1 : c[j] \in Nat
         /\ LastStep(p) = k - 1
    BY DEF k, LastStep
  <1>11. Counts(e, q)
    <2>1. LastStep(q) = m - 1
      BY <1>5 DEF LastStep
    <2>2. ASSUME NEW j \in 1 .. m - 1 PROVE e[j] = e[j - 1] + StepCost(q, j)
      <3>1. j - 1 \in 0 .. m - 1 /\ j \in 0 .. m - 1 /\ i - 1 \in 0 .. k - 1
        BY <1>2
      <3>2. e[j] = Cost[<<p[1], p[i]>>] + (c[j + i - 2] - c[i - 1])
        BY <3>1
      <3>3. CASE j = 1
        <4>1. e[j - 1] = 0 /\ j + i - 2 = i - 1
          BY <1>2, <3>1, <3>3
        <4>2. StepCost(q, j) = Cost[<<p[1], p[i]>>]
          BY <1>7, <3>3
        <4>3. c[i - 1] \in Nat
          BY <1>10, <3>1
        <4> HIDE DEF e
        <4>4. QED
          BY <1>9, <3>2, <4>1, <4>2, <4>3
      <3>4. CASE j # 1
        <4>1. e[j - 1] = Cost[<<p[1], p[i]>>] + (c[(j - 1) + i - 2] - c[i - 1])
          BY <3>1, <3>4
        <4>2. StepCost(q, j) = StepCost(p, j + i - 2) /\ j + i - 2 \in 1 .. LastStep(p)
          BY <1>7, <3>4
        <4>3. c[j + i - 2] = c[(j + i - 2) - 1] + StepCost(p, j + i - 2)
          BY <4>2 DEF Counts
        <4>4. (j + i - 2) - 1 = (j - 1) + i - 2
          BY <1>2
        <4>5. c[j + i - 2] \in Nat /\ c[(j + i - 2) - 1] \in Nat /\ c[i - 1] \in Nat
          <5>1. j + i - 2 \in 0 .. k - 1 /\ (j + i - 2) - 1 \in 0 .. k - 1
            BY <1>2, <1>10, <4>2
          <5>2. QED
            BY <1>10, <3>1, <5>1
        <4>6. StepCost(p, j + i - 2) \in Nat
          BY <4>2, LeadsSteps
        <4> HIDE DEF e
        <4>7. QED
          BY <1>9, <3>2, <4>1, <4>2, <4>3, <4>4, <4>5, <4>6
      <3>5. QED
        BY <3>3, <3>4
    <2>3. e[0] = 0
      BY <1>2
    <2> HIDE DEF e
    <2>4. QED
      BY <2>1, <2>2, <2>3 DEF Counts
  <1>12. PathCost(q) = e[m - 1]
    <2>1. /\ Len(q) \in Nat \ {0} /\ LastStep(q) = m - 1
          /\ \A j \in 1 .. LastStep(q) : StepCost(q, j) \in Nat
      BY <1>5, <1>8, LeadsSteps DEF LastStep
    <2> HIDE DEF e
    <2>2. QED
      BY <1>11, <2>1, CostIs
  <1>13. m - 1 \in 1 .. m - 1 /\ (m - 1) + i - 2 = LastStep(p)
    BY <1>2, <1>10 DEF m
  <1>14. QED
    BY <1>5, <1>8, <1>12, <1>13 DEF q, m, k

(* There is a cheapest path without a detour wherever there is a path. *)
LEMMA HopExists ==
    ASSUME NEW map, IsMap(map), NEW n \in Node, NEW d \in Node
    PROVE  NextHops(n, d, map) # {}
  <1> DEFINE paths == {p \in Path : Leads(p, n, d, map)}
             costs == {PathCost(p) : p \in paths}
  <1>1. CASE paths = {}
    BY <1>1 DEF NextHops
  <1>2. CASE paths # {}
    <2>1. costs \subseteq Nat /\ costs # {}
      BY <1>2, PathCostIsNat
    <2>2. Min(costs) \in costs /\ \A x \in costs : Min(costs) <= x
      <3> HIDE DEF costs
      <3>1. QED BY <2>1, MinIs
    <2> DEFINE best == {p \in paths : PathCost(p) = Min(costs)}
               lengths == {Len(p) : p \in best}
    <2>3. best # {}
      BY <2>2
    <2>4. lengths \subseteq Nat /\ lengths # {}
      <3>1. \A p \in best : Len(p) \in Nat
        BY PathIs
      <3>2. QED
        BY <2>3, <3>1
    <2>5. PICK p \in best : \A q \in best : Len(p) <= Len(q)
      <3>1. PICK l \in lengths : \A x \in lengths : l <= x
        <4> HIDE DEF lengths
        <4>1. QED BY <2>4, LeastNumber
      <3>2. QED
        BY <3>1
    <2>6. p \in Path /\ Leads(p, n, d, map) /\ PathCost(p) = Min(costs)
      OBVIOUS
    <2>7. /\ Len(p) \in Nat \ {0}
          /\ \A i \in 1 .. LastStep(p) : StepCost(p, i) \in Nat
      BY <2>6, LeadsSteps
    <2>8. PICK c \in [0 .. LastStep(p) -> Nat] : Counts(c, p) /\ PathCost(p) = c[LastStep(p)]
      BY <2>7, CostCounts
    <2>9. ASSUME NEW i \in 3 .. Len(p), p[i] \in map[p[1]]
          PROVE  Cost[<<p[1], p[i]>>] > PathCost(SubSeq(p, 1, i))
      <3> DEFINE q == Short(p, i)
      <3>1. /\ q \in Path /\ Leads(q, n, d, map) /\ Len(q) = Len(p) - i + 2
            /\ PathCost(q) = Cost[<<p[1], p[i]>>] + (c[LastStep(p)] - c[i - 1])
        BY <2>6, <2>8, <2>9, ShortIs
      <3>2. PathCost(SubSeq(p, 1, i)) = c[i - 1]
        <4>1. i \in 1 .. Len(p)
          BY <2>7
        <4>2. QED
          BY <2>6, <2>7, <2>8, <4>1, PrefixCost
      <3> HIDE DEF q
      <3>3. q \in paths /\ PathCost(q) \in costs
        BY <3>1
      <3>4. Len(q) < Len(p)
        BY <2>7, <3>1
      <3>5. PathCost(q) # Min(costs)
        <4>1. ASSUME PathCost(q) = Min(costs) PROVE FALSE
          <5>1. Len(p) <= Len(q)
            BY <2>5, <3>3, <4>1
          <5>2. QED
            BY <2>7, <3>1, <3>4, <5>1
        <4>2. QED
          BY <4>1
      <3>6. PathCost(p) < PathCost(q) /\ PathCost(p) \in Nat /\ PathCost(q) \in Nat
        <4>1. Min(costs) <= PathCost(q) /\ PathCost(q) \in Nat /\ Min(costs) \in Nat
          <5> HIDE DEF costs
          <5>1. QED BY <2>1, <2>2, <3>3
        <4>2. QED
          BY <2>6, <3>5, <4>1
      <3>7. c[LastStep(p)] \in Nat /\ c[i - 1] \in Nat /\ Cost[<<p[1], p[i]>>] \in Nat
        <4>1. LastStep(p) \in 0 .. LastStep(p) /\ i - 1 \in 0 .. LastStep(p)
          BY <2>7 DEF LastStep
        <4>2. <<p[1], p[i]>> \in Link
          <5>1. p[1] \in Node
            BY <2>6, LeadsSteps
          <5>2. QED
            BY <2>9, <5>1 DEF IsMap
        <4>3. QED
          BY <4>1, <4>2, RoutingAssumption
      <3>8. QED
        BY <2>8, <3>1, <3>2, <3>6, <3>7
    <2>10. NoDetour(p, map)
      BY <2>9 DEF NoDetour
    <2>11. [next |-> p[2], cost |-> Min(costs)] \in NextHops(n, d, map)
      BY <1>2, <2>6, <2>10 DEF NextHops
    <2>12. QED
      BY <2>11
  <1>3. QED
    BY <1>1, <1>2

----------------------------------------------------------------------------
(* From hop to hop *)

(* The way from the second node of a path on. *)
Tail2(p) == [j \in 1 .. Len(p) - 1 |-> p[j + 1]]

LEMMA Tail2Is ==
    ASSUME NEW map, IsMap(map), NEW n, NEW d, NEW p \in Path, Leads(p, n, d, map), p[2] # d
    PROVE  /\ Tail2(p) \in Path /\ Leads(Tail2(p), p[2], d, map)
           /\ PathCost(p) = Cost[<<n, p[2]>>] + PathCost(Tail2(p))
           /\ PathCost(Tail2(p)) \in Nat
  <1> DEFINE k == Len(p)
             m == k - 1
             q == Tail2(p)
  <1>1. /\ k \in 2 .. Cardinality(Node) /\ Cardinality(Node) \in Nat
        /\ p \in [1 .. k -> Node] /\ IsInjective(p) /\ p[k] = d
    BY PathIs, LeadsSteps
  <1>2. k \in 3 .. Cardinality(Node)
    BY <1>1
  <1>3. q \in [1 .. m -> Node] /\ \A j \in 1 .. m : q[j] = p[j + 1] /\ j + 1 \in 1 .. k
    BY <1>1 DEF Tail2
  <1>4. LastStep(p) = m /\ m \in 2 .. Cardinality(Node) /\ m + 1 = k /\ m \in Nat
    BY <1>2, <1>1 DEF LastStep
  <1> HIDE DEF k, m, q
  <1>5. IsInjective(q)
    <2>1. ASSUME NEW x \in 1 .. m, NEW y \in 1 .. m, q[x] = q[y] PROVE x = y
      <3>1. p[x + 1] = p[y + 1] /\ x + 1 \in DOMAIN p /\ y + 1 \in DOMAIN p
        BY <1>1, <1>3, <2>1
      <3>2. x + 1 = y + 1
        BY <1>1, <3>1 DEF IsInjective
      <3>3. QED
        BY <1>4, <3>2
    <2>2. DOMAIN q = 1 .. m
      BY <1>3
    <2>3. QED
      BY <2>1, <2>2 DEF IsInjective
  <1>6. q \in Path /\ Len(q) = m
    BY <1>3, <1>4, <1>5, IsPath
  <1>7. ASSUME NEW j \in 1 .. m - 1
        PROVE  /\ q[j + 1] \in map[q[j]] /\ StepCost(q, j) = StepCost(p, j + 1)
               /\ j + 1 \in 1 .. LastStep(p)
    <2>1. j + 1 \in 1 .. LastStep(p) /\ j \in 1 .. m /\ j + 1 \in 1 .. m
      BY <1>4
    <2>2. q[j] = p[j + 1] /\ q[j + 1] = p[(j + 1) + 1]
      BY <1>3, <2>1
    <2>3. p[(j + 1) + 1] \in map[p[j + 1]]
      BY <2>1, LeadsSteps
    <2>4. QED
      BY <2>1, <2>2, <2>3 DEF StepCost
  <1>8. Leads(q, p[2], d, map)
    <2>1. q[1] = p[2] /\ q[m] = d
      BY <1>1, <1>3, <1>4
    <2>2. QED
      BY <1>6, <1>7, <2>1 DEF Leads, Last
  <1>9. /\ Len(p) \in Nat \ {0} /\ p[1] = n
        /\ \A i \in 1 .. LastStep(p) : StepCost(p, i) \in Nat
    BY LeadsSteps
  <1>10. PICK c \in [0 .. LastStep(p) -> Nat] : Counts(c, p) /\ PathCost(p) = c[LastStep(p)]
    BY <1>9, CostCounts
  <1>11. 1 \in 1 .. LastStep(p) /\ 1 \in 0 .. LastStep(p) /\ LastStep(p) \in 0 .. LastStep(p)
    BY <1>4
  <1>12. c[1] = Cost[<<n, p[2]>>] /\ c[1] \in Nat
    <2>1. c[1] = c[1 - 1] + StepCost(p, 1) /\ c[0] = 0
      BY <1>10, <1>11 DEF Counts
    <2>2. StepCost(p, 1) = Cost[<<n, p[2]>>]
      BY <1>9 DEF StepCost
    <2>3. StepCost(p, 1) \in Nat
      BY <1>9, <1>11
    <2>4. QED
      BY <2>1, <2>2, <2>3
  <1> DEFINE e == [j \in 0 .. m - 1 |-> c[j + 1] - c[1]]
  <1>13. Counts(e, q)
    <2>1. LastStep(q) = m - 1
      BY <1>6 DEF LastStep
    <2>2. ASSUME NEW j \in 1 .. m - 1 PROVE e[j] = e[j - 1] + StepCost(q, j)
      <3>1. j - 1 \in 0 .. m - 1 /\ j \in 0 .. m - 1 /\ (j + 1) - 1 = j /\ (j - 1) + 1 = j
        BY <1>4
      <3>2. e[j] = c[j + 1] - c[1] /\ e[j - 1] = c[j] - c[1]
        BY <3>1
      <3>3. c[j + 1] = c[(j + 1) - 1] + StepCost(p, j + 1)
        BY <1>7, <1>10 DEF Counts
      <3>4. c[j] \in Nat /\ c[j + 1] \in Nat
        <4>1. j \in 0 .. LastStep(p) /\ j + 1 \in 0 .. LastStep(p)
          BY <1>4
        <4>2. QED
          BY <4>1
      <3>5. StepCost(q, j) = StepCost(p, j + 1) /\ StepCost(p, j + 1) \in Nat
        BY <1>7, <1>9
      <3> HIDE DEF e
      <3>6. QED
        BY <1>12, <3>1, <3>2, <3>3, <3>4, <3>5
    <2>3. e[0] = 0
      <3>1. 0 \in 0 .. m - 1
        BY <1>4
      <3>2. QED
        BY <1>12, <3>1
    <2> HIDE DEF e
    <2>4. QED
      BY <2>1, <2>2, <2>3 DEF Counts
  <1>14. PathCost(q) = e[m - 1]
    <2>1. /\ Len(q) \in Nat \ {0} /\ LastStep(q) = m - 1
          /\ \A j \in 1 .. LastStep(q) : StepCost(q, j) \in Nat
      BY <1>6, <1>8, LeadsSteps DEF LastStep
    <2> HIDE DEF e
    <2>2. QED
      BY <1>13, <2>1, CostIs
  <1>15. e[m - 1] = c[LastStep(p)] - c[1] /\ c[LastStep(p)] \in Nat
    <2>1. m - 1 \in 0 .. m - 1 /\ (m - 1) + 1 = LastStep(p)
      BY <1>4
    <2>2. QED
      BY <1>11, <2>1
  <1>16. PathCost(q) \in Nat
    BY <1>6, <1>8, PathCostIsNat
  <1> HIDE DEF e
  <1>17. PathCost(p) = Cost[<<n, p[2]>>] + PathCost(q)
    BY <1>10, <1>12, <1>14, <1>15
  <1>18. QED
    BY <1>6, <1>8, <1>16, <1>17 DEF q

(* A next hop has a next hop on the same map, and what is left of the way  *)
(* costs less than the whole by what the first link costs.                 *)
LEMMA HopApproaches ==
    ASSUME NEW map, IsMap(map), NEW n \in Node, NEW d \in Node,
           NEW h \in NextHops(n, d, map), h # NoHop, h.next # d,
           NEW l \in NextHops(h.next, d, map)
    PROVE  /\ l # NoHop /\ h.next \in Node /\ <<n, h.next>> \in Link
           /\ h.cost \in Nat /\ l.cost \in Nat
           /\ l.cost + Cost[<<n, h.next>>] <= h.cost
  <1>1. PICK p \in Path :
              /\ Leads(p, n, d, map)
              /\ h = [next |-> p[2], cost |-> PathCost(p)]
              /\ p[2] \in map[n] /\ PathCost(p) \in Nat
    BY HopIs
  <1>2. p[2] # d /\ h.next = p[2] /\ h.cost = PathCost(p) /\ p[2] \in Node
        /\ <<n, p[2]>> \in Link
    BY <1>1 DEF IsMap
  <1>3. /\ Tail2(p) \in Path /\ Leads(Tail2(p), p[2], d, map)
        /\ PathCost(p) = Cost[<<n, p[2]>>] + PathCost(Tail2(p))
        /\ PathCost(Tail2(p)) \in Nat
    BY <1>1, <1>2, Tail2Is
  <1>4. l # NoHop
    <2>1. {q \in Path : Leads(q, p[2], d, map)} # {}
      BY <1>3
    <2>2. PICK q \in Path :
             /\ Leads(q, p[2], d, map)
             /\ l = [next |-> q[2], cost |-> PathCost(q)]
      BY <1>2, <2>1 DEF NextHops
    <2>3. PathCost(q) \in Nat
      BY <2>2, PathCostIsNat
    <2>4. q[2] \in Node
      BY PathIs
    <2>5. l \in Hop
      BY <2>2, <2>3, <2>4 DEF Hop
    <2>6. QED
      BY <2>5, RoutingAssumption
  <1>5. PICK q \in Path :
              /\ l = [next |-> q[2], cost |-> PathCost(q)]
              /\ \A r \in Path : Leads(r, p[2], d, map) => PathCost(q) <= PathCost(r)
              /\ PathCost(q) \in Nat
    BY <1>2, <1>4, HopIs
  <1>6. l.cost = PathCost(q) /\ PathCost(q) <= PathCost(Tail2(p))
    BY <1>3, <1>5
  <1>7. Cost[<<n, p[2]>>] \in Nat
    BY <1>2, RoutingAssumption
  <1>8. QED
    BY <1>1, <1>2, <1>3, <1>4, <1>5, <1>6, <1>7

(* However the ties between equally cheap ways are broken at each node: as *)
(* long as the nodes look at the same map, a packet that goes from next    *)
(* hop to next hop comes back to a node only over links that cost nothing, *)
(* as links of a fast and reliable network do; one link on the way that    *)
(* costs something keeps it from ever coming back.                         *)
THEOREM CirclesCostNothing ==
    ASSUME NEW map, IsMap(map), NEW d \in Node, NEW k \in Nat, NEW x \in [1 .. k -> Node],
           \A i \in 1 .. k - 1 :
              x[i] # d /\ \E h \in NextHops(x[i], d, map) : h # NoHop /\ h.next = x[i + 1],
           NEW a \in 1 .. k, NEW b \in 1 .. k, a < b, x[a] = x[b],
           NEW c \in a .. b - 1
    PROVE  Cost[<<x[c], x[c + 1]>>] = 0
  <1> DEFINE hop(i) == CHOOSE h \in NextHops(x[i], d, map) : h # NoHop /\ h.next = x[i + 1]
  <1>1. ASSUME NEW i \in 1 .. k - 1
        PROVE  /\ hop(i) \in NextHops(x[i], d, map) /\ hop(i) # NoHop
               /\ hop(i).next = x[i + 1] /\ x[i] \in Node /\ x[i] # d
    OBVIOUS
  <1>2. ASSUME NEW i \in 1 .. k - 1, NEW j \in 1 .. k - 1, x[i + 1] = x[j]
        PROVE  /\ hop(j).cost \in Nat /\ hop(i).cost \in Nat /\ Cost[<<x[i], x[i + 1]>>] \in Nat
               /\ hop(j).cost + Cost[<<x[i], x[i + 1]>>] <= hop(i).cost
    <2> DEFINE h == hop(i)
               l == hop(j)
    <2>1. /\ h \in NextHops(x[i], d, map) /\ h # NoHop /\ x[i] \in Node
          /\ l \in NextHops(h.next, d, map) /\ h.next # d /\ h.next = x[i + 1]
      BY <1>1, <1>2
    <2> HIDE DEF h, l
    <2>2. /\ <<x[i], h.next>> \in Link /\ h.cost \in Nat /\ l.cost \in Nat
          /\ l.cost + Cost[<<x[i], h.next>>] <= h.cost
      BY <2>1, HopApproaches
    <2>3. Cost[<<x[i], h.next>>] \in Nat
      BY <2>2, RoutingAssumption
    <2>4. QED
      BY <2>1, <2>2, <2>3 DEF h, l
  <1> HIDE DEF hop
  <1>3. /\ a \in 1 .. k - 1 /\ b - 1 \in 1 .. k - 1 /\ (b - 1) + 1 = b
        /\ c \in Int /\ a <= c /\ c <= b - 1
    OBVIOUS
  <1>4. /\ hop(a).cost \in Nat /\ hop(b - 1).cost \in Nat /\ Cost[<<x[b - 1], x[b]>>] \in Nat
        /\ hop(a).cost + Cost[<<x[b - 1], x[b]>>] <= hop(b - 1).cost
    BY <1>2, <1>3
  <1>5. ASSUME NEW i \in a .. b - 1, NEW j \in i .. b - 1
        PROVE  hop(j).cost <= hop(i).cost /\ hop(j).cost \in Nat /\ hop(i).cost \in Nat
    <2> DEFINE S == {m \in Nat : i + m <= b - 1 =>
                        hop(i + m).cost \in Nat /\ hop(i + m).cost <= hop(i).cost}
    <2>1. i \in 1 .. k - 1 /\ i <= b - 1 /\ i + 0 = i /\ j \in Int /\ i <= j /\ j <= b - 1
      BY <1>3
    <2>2. hop(i).cost \in Nat
      <3>1. CASE i = b - 1
        BY <1>4, <3>1
      <3>2. CASE i # b - 1
        <4>1. i + 1 \in 1 .. k - 1
          BY <1>3, <2>1, <3>2
        <4>2. QED
          BY <1>2, <2>1, <4>1
      <3>3. QED
        BY <3>1, <3>2
    <2>3. 0 \in S
      BY <2>1, <2>2
    <2>4. ASSUME NEW m \in 0 .. k - 1, m \in S PROVE m + 1 \in S
      <3>1. CASE i + (m + 1) <= b - 1
        <4> DEFINE u == i + m
                   v == i + (m + 1)
        <4>1. u \in 1 .. k - 1 /\ v \in 1 .. k - 1 /\ v = u + 1 /\ u <= b - 1
          BY <1>3, <2>1, <3>1
        <4>2. hop(u).cost <= hop(i).cost
          BY <2>4, <4>1
        <4> HIDE DEF u, v
        <4>3. hop(v).cost \in Nat /\ hop(v).cost <= hop(u).cost
          <5>1. /\ hop(v).cost \in Nat /\ hop(u).cost \in Nat
                /\ Cost[<<x[u], x[u + 1]>>] \in Nat
                /\ hop(v).cost + Cost[<<x[u], x[u + 1]>>] <= hop(u).cost
            BY <1>2, <4>1
          <5>2. QED
            BY <5>1
        <4>4. hop(u).cost \in Nat
          BY <1>2, <4>1
        <4>5. hop(v).cost <= hop(i).cost
          BY <2>2, <4>2, <4>3, <4>4
        <4>6. QED
          BY <4>3, <4>5 DEF v
      <3>2. CASE ~(i + (m + 1) <= b - 1)
        BY <3>2
      <3>3. QED
        BY <3>1, <3>2
    <2>5. j - i \in S
      <3> HIDE DEF S
      <3>1. 0 .. k \subseteq S
        <4>1. \A m \in 0 .. k - 1 : m \in S => m + 1 \in S
          BY <2>4
        <4>2. QED
          BY <2>3, <4>1, Induction
      <3>2. j - i \in 0 .. k
        BY <1>3, <2>1
      <3>3. QED
        BY <3>1, <3>2
    <2>6. i + (j - i) = j
      BY <2>1
    <2>7. QED
      BY <2>1, <2>2, <2>5, <2>6
  <1>6. CASE c = b - 1
    <2>1. hop(b - 1).cost <= hop(a).cost
      BY <1>3, <1>5
    <2>2. QED
      BY <1>3, <1>4, <1>6, <2>1
  <1>7. CASE c # b - 1
    <2> DEFINE e == c + 1
               price == Cost[<<x[c], x[c + 1]>>]
    <2>1. /\ c \in 1 .. k - 1 /\ e \in 1 .. k - 1
          /\ c \in a .. b - 1 /\ e \in a .. b - 1 /\ b - 1 \in e .. b - 1
      BY <1>3, <1>7
    <2>2. hop(e).cost \in Nat /\ hop(c).cost \in Nat /\ price \in Nat
          /\ hop(e).cost + price <= hop(c).cost
      BY <1>2, <2>1
    <2> HIDE DEF e, price
    <2>3. hop(c).cost <= hop(a).cost
      BY <1>3, <1>5, <2>1
    <2>4. hop(b - 1).cost <= hop(e).cost
      BY <1>5, <2>1
    <2>5. hop(a).cost <= hop(b - 1).cost
      BY <1>4
    <2>6. price = 0
      BY <1>4, <2>2, <2>3, <2>4, <2>5
    <2>7. QED
      BY <2>6 DEF price
  <1>8. QED
    BY <1>6, <1>7

----------------------------------------------------------------------------
(* What the nodes hold *)

Entries(n) == [next : Node \ {n}, cost : Nat] \cup {NoHop, NoEntry}

(* Whom nodes report and keep in their maps are ends of links, so every    *)
(* way that is found in a map has a cost.                                  *)
MapsAreMaps == IsMap(uploaded) /\ \A n \in Node : IsMap(peers[n])

CacheIsTyped ==
    /\ cache \in [Node -> [Sender -> [Node -> Hop \cup {NoHop, NoEntry}]]]
    /\ \A n \in Node, s \in Sender, d \in Node : cache[n][s][d] \in Entries(n)

LinksAreTyped ==
    /\ up \subseteq Link
    /\ connected \subseteq Node /\ reached \subseteq Node /\ full \subseteq Node
    /\ changes \in 0 .. MaxChanges

PacketIsTyped ==
    /\ packet \in Traffic \cup {NoPacket}
    /\ packet = NoPacket => flying = {}
    /\ flying \subseteq Copy
    /\ received \in [Node -> Nat]
    /\ dropped \in BOOLEAN

TypeInv ==
    /\ MapsAreMaps /\ CacheIsTyped /\ LinksAreTyped /\ PacketIsTyped
    /\ peers \in [Node -> [Node -> SUBSET Node]]

LEMMA InitTyped == Init => TypeInv
  <1> SUFFICES ASSUME Init PROVE TypeInv
    OBVIOUS
  <1> USE RoutingAssumption DEF Init
  <1>1. MapsAreMaps /\ peers \in [Node -> [Node -> SUBSET Node]]
    BY DEF MapsAreMaps, IsMap
  <1>2. CacheIsTyped
    BY DEF CacheIsTyped, Entries
  <1>3. LinksAreTyped
    <2>1. changes \in 0 .. MaxChanges
      BY SMT
    <2>2. QED
      BY <2>1 DEF LinksAreTyped
  <1>4. PacketIsTyped
    <2>1. received \in [Node -> Nat]
      BY SMT
    <2>2. /\ flying = {} /\ flying \subseteq Copy /\ dropped \in BOOLEAN
          /\ packet \in Traffic \cup {NoPacket}
      OBVIOUS
    <2>3. QED
      BY <2>1, <2>2 DEF PacketIsTyped
  <1>5. QED
    BY <1>1, <1>2, <1>3, <1>4 DEF TypeInv

LEMMA FirstIs ==
    ASSUME NEW list \in Seq(Proto), NEW usable
    PROVE  FirstUsable(list, usable) \subseteq usable
  <1> DEFINE able == {i \in DOMAIN list : list[i] \in usable}
  <1>1. able \subseteq Nat
    BY DEF Proto
  <1>2. CASE able = {}
    BY <1>2 DEF FirstUsable
  <1>3. CASE able # {}
    <2>1. Min(able) \in able
      <3> HIDE DEF able
      <3>1. QED BY <1>1, <1>3, MinIs
    <2>2. QED
      BY <1>3, <2>1 DEF FirstUsable
  <1>4. QED
    BY <1>2, <1>3

LEMMA HopIsTyped ==
    ASSUME TypeInv, NEW n \in Node, NEW s \in Sender, NEW d \in Node,
           NEW h \in FindNextHop(n, s, d)
    PROVE  h \in [next : Node \ {n}, cost : Nat] \cup {NoHop}
  <1>1. CASE cache[n][s][d] # NoEntry
    BY <1>1 DEF FindNextHop, TypeInv, CacheIsTyped, Entries
  <1>2. CASE cache[n][s][d] = NoEntry /\ h # NoHop
    <2>1. IsMap(peers[n]) /\ h \in NextHops(n, d, peers[n])
      BY <1>2 DEF FindNextHop, TypeInv, MapsAreMaps
    <2>2. PICK p \in Path :
              /\ h = [next |-> p[2], cost |-> PathCost(p)]
              /\ p[2] \in peers[n][n] /\ p[2] # n /\ PathCost(p) \in Nat
      BY <1>2, <2>1, HopIs
    <2>3. p[2] \in Node
      BY <2>1, <2>2 DEF IsMap
    <2>4. QED
      BY <2>2, <2>3
  <1>3. QED
    BY <1>1, <1>2

LEMMA SentIsTyped ==
    ASSUME NEW n \in Node, NEW d \in Node,
           NEW h \in [next : Node \ {n}, cost : Nat] \cup {NoHop}
    PROVE  Sent(n, d, h) \subseteq Copy
  <1>1. RelayProto(n, d) \subseteq Proto
    <2>1. ModeFor(n, d) \in Modes
      BY RoutingAssumption DEF ModeFor
    <2>2. ModeFor(n, d).relay \in Seq(Proto) /\ UsableByNode(n) \subseteq Proto
      BY <2>1, RoutingAssumption DEF Modes, UsableByNode
    <2>3. QED
      BY <2>2, FirstIs DEF RelayProto
  <1>2. Datagram(n, d) \in Copy
    BY DEF Datagram, Copy
  <1>3. h # NoHop => Datagram(n, h.next) \in Copy
    BY DEF Datagram, Copy
  <1>4. \A np \in Proto : ToServer(n, d, np) \in Copy
    BY DEF ToServer, Copy
  <1>5. QED
    BY <1>1, <1>2, <1>3, <1>4 DEF Sent, ThroughNode

LEMMA SendIsTyped ==
    ASSUME TypeInv, NEW n \in Node, NEW s \in Sender, NEW d \in Node,
           NEW left \in SUBSET Copy, SendTo(n, s, d, left)
    PROVE  CacheIsTyped' /\ flying' \subseteq Copy /\ dropped' \in BOOLEAN
  <1>1. PICK h \in IF Looks(n, d) THEN FindNextHop(n, s, d) ELSE {NoHop} :
            /\ cache' = IF Looks(n, d) THEN [cache EXCEPT ![n][s][d] = h] ELSE cache
            /\ flying' = left \cup Sent(n, d, h)
            /\ dropped' = (dropped \/ Sent(n, d, h) = {})
    BY DEF SendTo
  <1>2. h \in [next : Node \ {n}, cost : Nat] \cup {NoHop}
    BY <1>1, HopIsTyped
  <1>3. Sent(n, d, h) \subseteq Copy
    BY <1>2, SentIsTyped
  <1>4. CacheIsTyped'
    <2>1. CASE Looks(n, d)
      <3>1. cache' = [cache EXCEPT ![n][s][d] = h]
        BY <1>1, <2>1
      <3>2. h \in Entries(n) /\ h \in Hop \cup {NoHop, NoEntry}
        BY <1>2 DEF Entries, Hop
      <3>3. cache \in [Node -> [Sender -> [Node -> Hop \cup {NoHop, NoEntry}]]]
        BY DEF TypeInv, CacheIsTyped
      <3>4. cache' \in [Node -> [Sender -> [Node -> Hop \cup {NoHop, NoEntry}]]]
        BY <3>1, <3>2, <3>3
      <3>5. ASSUME NEW m \in Node, NEW t \in Sender, NEW e \in Node
            PROVE  cache'[m][t][e] \in Entries(m)
        <4>1. CASE m = n /\ t = s /\ e = d
          BY <3>1, <3>2, <3>3, <4>1
        <4>2. CASE ~(m = n /\ t = s /\ e = d)
          <5>1. cache'[m][t][e] = cache[m][t][e]
            BY <3>1, <3>3, <4>2
          <5>2. QED
            BY <5>1 DEF TypeInv, CacheIsTyped
        <4>3. QED
          BY <4>1, <4>2
      <3>6. QED
        BY <3>4, <3>5 DEF CacheIsTyped, Entries
    <2>2. CASE ~Looks(n, d)
      BY <1>1, <2>2 DEF TypeInv, CacheIsTyped, Entries
    <2>3. QED
      BY <2>1, <2>2
  <1>5. QED
    BY <1>1, <1>3, <1>4

LEMMA RouteIs ==
    ASSUME NEW n \in Node, NEW dst \in Node \cup Net \cup {Everyone}
    PROVE  /\ RouteOf(n, dst) \in Node \cup {NoNode, Everyone}
           /\ dst = Everyone => RouteOf(n, dst) = Everyone
           /\ dst # Everyone => RouteOf(n, dst) # Everyone
           /\ dst \in Node => RouteOf(n, dst) = dst
           /\ dst \in Net => RouteOf(n, dst) = Gateway[n][dst]
  BY RoutingAssumption DEF RouteOf

LEMMA PacketIs ==
    ASSUME packet \in Traffic
    PROVE  packet[1] \in Node /\ packet[2] \in Node \cup Net \cup {Everyone}
  BY RoutingAssumption

LEMMA StepTyped == TypeInv /\ [Next]_vars => TypeInv'
  <1> SUFFICES ASSUME TypeInv, [Next]_vars PROVE TypeInv'
    OBVIOUS
  <1>k. ASSUME UNCHANGED peerVars, LinksAreTyped', CacheIsTyped', PacketIsTyped' PROVE TypeInv'
    <2>1. MapsAreMaps' /\ (peers \in [Node -> [Node -> SUBSET Node]])'
      BY <1>k DEF TypeInv, MapsAreMaps, IsMap, peerVars
    <2>2. QED
      BY <1>k, <2>1 DEF TypeInv
  <1>l. ASSUME UNCHANGED linkVars PROVE LinksAreTyped'
    BY <1>l DEF TypeInv, LinksAreTyped, linkVars
  <1>c. ASSUME UNCHANGED cache PROVE CacheIsTyped'
    BY <1>c DEF TypeInv, CacheIsTyped, Entries
  <1>p. ASSUME UNCHANGED packetVars PROVE PacketIsTyped'
    BY <1>p DEF TypeInv, PacketIsTyped, packetVars
  <1>m. ASSUME NEW m, IsMap(m) PROVE m \in [Node -> SUBSET Node]
    BY <1>m DEF IsMap
  <1>1. ASSUME NEW n \in Node, NEW dst, <<n, dst>> \in Traffic, Originate(n, dst) PROVE TypeInv'
    <2>1. dst \in Node \cup Net \cup {Everyone}
      BY <1>1, RoutingAssumption
    <2>p. packet' \in Traffic /\ packet' # NoPacket
      BY <1>1, RoutingAssumption DEF Originate
    <2>2. CASE dst = Everyone
      <3>1. /\ flying' = UNION {Sent(n, d, NoHop) : d \in Node \ {n}}
            /\ dropped' \in BOOLEAN /\ UNCHANGED cache
        BY <1>1, <2>1, <2>2, RouteIs DEF Originate
      <3>2. \A d \in Node : Sent(n, d, NoHop) \subseteq Copy
        BY SentIsTyped
      <3>3. PacketIsTyped'
        BY <1>1, <3>1, <3>2, <2>p DEF Originate, TypeInv, PacketIsTyped
      <3>4. QED
        BY <1>1, <1>k, <1>l, <1>c, <3>1, <3>3 DEF Originate
    <2>3. CASE dst # Everyone
      <3>1. RouteOf(n, dst) \in Node /\ SendTo(n, "tun", RouteOf(n, dst), {})
        BY <1>1, <2>1, <2>3, RouteIs DEF Originate
      <3>2. CacheIsTyped' /\ flying' \subseteq Copy /\ dropped' \in BOOLEAN
        BY <3>1, SendIsTyped DEF Sender
      <3>3. PacketIsTyped'
        BY <1>1, <3>2, <2>p DEF Originate, TypeInv, PacketIsTyped
      <3>4. QED
        BY <1>1, <1>k, <1>l, <3>2, <3>3 DEF Originate
    <2>4. QED
      BY <2>2, <2>3
  <1>2. ASSUME NEW f \in flying, Handle(f) \/ Lose(f) PROVE TypeInv'
    <2>0. /\ f \in Copy /\ f.to \in Node /\ flying \subseteq Copy /\ flying \ {f} \subseteq Copy
          /\ packet \in Traffic /\ packet # NoPacket
      BY DEF TypeInv, PacketIsTyped, Copy
    <2>1. CASE Deaf(f)
      <3>1. PacketIsTyped'
        BY <2>0, <2>1 DEF Deaf, TypeInv, PacketIsTyped
      <3>2. QED
        BY <2>1, <3>1, <1>k, <1>l, <1>c DEF Deaf
    <2>2. CASE Deliver(f)
      <3>1. PacketIsTyped'
        BY <2>0, <2>2 DEF Deliver, ToTun, TypeInv, PacketIsTyped
      <3>2. QED
        BY <2>2, <3>1, <1>k, <1>l, <1>c DEF Deliver
    <2>3. CASE Forward(f)
      <3> DEFINE next == RouteOf(f.to, packet[2])
      <3>1. CASE f.to \in Forwards
        <4>1. SendTo(f.to, "recv", next, flying \ {f}) /\ next # Everyone /\ next # NoNode
          BY <2>3, <3>1 DEF Forward
        <4>2. next \in Node
          <5>1. packet[2] \in Node \cup Net \cup {Everyone}
            BY <2>0, PacketIs
          <5>2. QED
            BY <2>0, <4>1, <5>1, RouteIs
        <4>3. CacheIsTyped' /\ flying' \subseteq Copy /\ dropped' \in BOOLEAN
          BY <2>0, <4>1, <4>2, SendIsTyped DEF Sender
        <4>4. PacketIsTyped'
          BY <2>3, <4>3 DEF Forward, TypeInv, PacketIsTyped
        <4>5. QED
          BY <2>3, <4>3, <4>4, <1>k, <1>l DEF Forward
      <3>2. CASE f.to \notin Forwards
        <4>1. PacketIsTyped'
          BY <2>0, <2>3, <3>2 DEF Forward, TypeInv, PacketIsTyped
        <4>2. QED
          BY <2>3, <3>2, <4>1, <1>k, <1>l, <1>c DEF Forward
      <3>3. QED
        BY <3>1, <3>2
    <2>4. CASE NoRoute(f)
      <3>1. PacketIsTyped'
        <4>1. CASE f.to \in ToKernel
          BY <2>0, <2>4, <4>1 DEF NoRoute, ToTun, TypeInv, PacketIsTyped
        <4>2. CASE f.to \notin ToKernel
          BY <2>0, <2>4, <4>2 DEF NoRoute, TypeInv, PacketIsTyped
        <4>3. QED
          BY <4>1, <4>2
      <3>2. QED
        BY <2>4, <3>1, <1>k, <1>l, <1>c DEF NoRoute
    <2>5. CASE ServerRelay(f)
      <3> DEFINE given == IF f.to \in connected
                          THEN FirstUsable(Mode[f.to].relay, UsableByServer(f.to)) ELSE {}
      <3>1. given \subseteq Proto
        <4>1. Mode[f.to].relay \in Seq(Proto) /\ UsableByServer(f.to) \subseteq Proto
          BY <2>0, RoutingAssumption DEF Modes, UsableByServer, Proto
        <4>2. QED
          BY <4>1, FirstIs
      <3>2. \A np \in Proto : [f EXCEPT !.via = np, !.atServer = FALSE] \in Copy
        BY <2>0 DEF Copy
      <3>3. /\ flying' = (flying \ {f}) \cup
                           {[f EXCEPT !.via = np, !.atServer = FALSE] : np \in given}
            /\ dropped' = (dropped \/ given = {})
            /\ UNCHANGED <<linkVars, peerVars, cache, packet, received>>
        BY <2>5 DEF ServerRelay
      <3>4. flying' \subseteq Copy
        BY <2>0, <3>1, <3>2, <3>3
      <3>5. PacketIsTyped'
        BY <3>3, <3>4 DEF TypeInv, PacketIsTyped
      <3>6. QED
        BY <3>3, <3>5, <1>k, <1>l, <1>c
    <2>6. CASE Lose(f)
      <3>1. PacketIsTyped' /\ LinksAreTyped'
        BY <2>0, <2>6, RoutingAssumption
        DEF Lose, Change, TypeInv, PacketIsTyped, LinksAreTyped
      <3>2. QED
        BY <2>6, <3>1, <1>k, <1>c DEF Lose
    <2>7. QED
      BY <1>2, <2>1, <2>2, <2>3, <2>4, <2>5, <2>6 DEF Handle
  <1>3. CASE Finish
    <2>1. PacketIsTyped'
      BY <1>3 DEF Finish, TypeInv, PacketIsTyped
    <2>2. QED
      BY <1>3, <2>1, <1>k, <1>l, <1>c DEF Finish
  <1>4. ASSUME NEW n \in Node, Upload(n) \/ Forget(n) \/ Fetch(n) PROVE TypeInv'
    <2>1. LinksAreTyped' /\ CacheIsTyped' /\ PacketIsTyped'
      BY <1>4, <1>l, <1>c, <1>p DEF Upload, Forget, Fetch
    <2>2. IsMap(uploaded)'
      <3>1. Reports(n) \subseteq Node /\ \A m \in Reports(n) : <<n, m>> \in Link
        BY DEF Reports, TypeInv, LinksAreTyped
      <3>2. IsMap(uploaded)
        BY DEF TypeInv, MapsAreMaps
      <3>3. QED
        BY <1>4, <3>1, <3>2 DEF Upload, Forget, Fetch, IsMap
    <2>3. \A m \in Node : IsMap(peers[m])'
      BY <1>4 DEF Upload, Forget, Fetch, TypeInv, MapsAreMaps, IsMap
    <2>4. peers' \in [Node -> [Node -> SUBSET Node]]
      BY <1>4 DEF Upload, Forget, Fetch, TypeInv, MapsAreMaps, IsMap
    <2>5. QED
      BY <2>1, <2>2, <2>3, <2>4 DEF TypeInv, MapsAreMaps, IsMap
  <1>5. ASSUME NEW n \in Node, NEW d \in Node, NEW s \in Sender, CacheExpires(n, s, d)
        PROVE  TypeInv'
    <2>1. cache' = [cache EXCEPT ![n][s][d] = NoEntry]
      BY <1>5 DEF CacheExpires
    <2>2. cache \in [Node -> [Sender -> [Node -> Hop \cup {NoHop, NoEntry}]]]
      BY DEF TypeInv, CacheIsTyped
    <2>3. cache' \in [Node -> [Sender -> [Node -> Hop \cup {NoHop, NoEntry}]]]
      BY <2>1, <2>2
    <2>4. ASSUME NEW m \in Node, NEW t \in Sender, NEW e \in Node
          PROVE  cache'[m][t][e] = NoEntry \/ cache'[m][t][e] = cache[m][t][e]
      BY <2>1, <2>2
    <2>5. CacheIsTyped'
      BY <2>3, <2>4 DEF TypeInv, CacheIsTyped, Entries
    <2>6. QED
      BY <1>5, <2>5, <1>k, <1>l, <1>p DEF CacheExpires
  <1>6. ASSUME NEW l \in Fragile, LinkChanges(l) PROVE TypeInv'
    <2>1. LinksAreTyped'
      BY <1>6, RoutingAssumption DEF LinkChanges, Change, Toggled, TypeInv, LinksAreTyped
    <2>2. QED
      BY <1>6, <2>1, <1>k, <1>c, <1>p DEF LinkChanges
  <1>7. ASSUME NEW n \in Restless, ConnectionChanges(n) PROVE TypeInv'
    <2>1. LinksAreTyped'
      BY <1>7, RoutingAssumption DEF ConnectionChanges, Change, Toggled, TypeInv, LinksAreTyped
    <2>2. QED
      BY <1>7, <2>1, <1>k, <1>c, <1>p DEF ConnectionChanges
  <1>8. CASE UNCHANGED vars
    BY <1>8, <1>k, <1>l, <1>c, <1>p DEF vars
  <1>9. QED
    <2>1. \A t \in Traffic : t = <<t[1], t[2]>> /\ t[1] \in Node
      BY RoutingAssumption
    <2>2. QED
      BY <1>1, <1>2, <1>3, <1>4, <1>5, <1>6, <1>7, <1>8, <2>1 DEF Next

(* The maps only name nodes that a link leads to, an entry of a cache      *)
(* never leads a node to itself, and copies, counters and links are what   *)
(* they are said to be.                                                    *)
THEOREM RoutingIsTyped == Spec => []TypeOK
  <1>1. TypeInv => TypeOK
    <2> SUFFICES ASSUME TypeInv PROVE TypeOK
      OBVIOUS
    <2>1. uploaded \in [Node -> SUBSET Node]
      BY DEF TypeInv, MapsAreMaps, IsMap
    <2>2. \A n \in Node, s \in Sender, d \in Node :
              cache[n][s][d] \in [next : Node \ {n}, cost : Nat] \cup {NoHop, NoEntry}
      BY DEF TypeInv, CacheIsTyped, Entries
    <2>3. QED
      BY <2>1, <2>2 DEF TypeOK, TypeInv, LinksAreTyped, PacketIsTyped
  <1>2. QED
    BY <1>1, InitTyped, StepTyped, PTL DEF Spec

(* Whatever reports a node has fetched, old or new, dijkstra has an answer *)
(* for it: a first step of some cheapest path, or none where no path is.   *)
THEOREM HopIsFound == Spec => [](\A n, d \in Node : NextHops(n, d, peers[n]) # {})
  <1>1. TypeInv => \A n, d \in Node : NextHops(n, d, peers[n]) # {}
    BY HopExists DEF TypeInv, MapsAreMaps
  <1>2. QED
    BY <1>1, InitTyped, StepTyped, PTL DEF Spec

----------------------------------------------------------------------------
(* The copies of a packet *)

NoneReceived == \A n \in Node : received[n] = 0

(* A packet for one node has one copy or has been received once, never     *)
(* both.                                                                   *)
OneCopy ==
    /\ \A f, g \in flying : f = g
    /\ flying # {} => NoneReceived
    /\ \A n \in Node : received[n] \in {0, 1}
    /\ \A n, m \in Node : received[n] > 0 /\ received[m] > 0 => n = m
    /\ GatewaysAgree => \A n \in Node :
           received[n] > 0 => n \in {RouteOf(packet[1], packet[2])} \cup ToKernel
    /\ RouteOf(packet[1], packet[2]) \notin {packet[1], NoNode, Everyone}

(* A broadcast has one copy for each other node, until that one has it.    *)
OneCopyEach ==
    /\ \A f, g \in flying : f.to = g.to => f = g
    /\ \A f \in flying : f.to # packet[1] /\ received[f.to] = 0
    /\ \A n \in Node : received[n] \in {0, 1}
    /\ \A n \in Node : received[n] > 0 => n # packet[1]

CopiesAreOne ==
    \/ packet = NoPacket /\ flying = {} /\ NoneReceived
    \/ packet # NoPacket /\ packet[2] = Everyone /\ OneCopyEach
    \/ packet # NoPacket /\ packet[2] # Everyone /\ OneCopy

LEMMA FirstIsOne ==
    ASSUME NEW list, NEW usable
    PROVE  \A x, y \in FirstUsable(list, usable) : x = y
  BY DEF FirstUsable

(* send passes a packet on once at most, to the node it is for or to the   *)
(* next hop.                                                               *)
LEMMA SentIsOne ==
    ASSUME NEW n, NEW d, NEW h
    PROVE  /\ \A f, g \in Sent(n, d, h) : f = g
           /\ \A f \in Sent(n, d, NoHop) : f.to = d
  <1>1. \A x, y \in RelayProto(n, d) : x = y
    BY FirstIsOne DEF RelayProto
  <1>2. \A x, y \in {ToServer(n, d, np) : np \in RelayProto(n, d)} : x = y
    BY <1>1
  <1>3. \A f, g \in Sent(n, d, h) : f = g
    BY <1>2 DEF Sent
  <1>4. \A f \in Sent(n, d, NoHop) : f = Datagram(n, d) \/ \E np : f = ToServer(n, d, np)
    BY DEF Sent, ThroughNode
  <1>5. Datagram(n, d).to = d /\ \A np : ToServer(n, d, np).to = d
    BY DEF Datagram, ToServer
  <1>6. QED
    BY <1>3, <1>4, <1>5

(* What the nodes and the server do with the only copy of a packet: it is  *)
(* lost, passed on as one other, or given to a node it is for.             *)
LEMMA OneCopyKept ==
    ASSUME TypeInv, packet # NoPacket, packet[2] # Everyone, OneCopy,
           packet' = packet,
           \/ /\ received' = received /\ \A f, g \in flying' : f = g
              /\ flying' = {} \/ flying # {}
           \/ /\ flying' = {}
              /\ \E n \in Node :
                    /\ GatewaysAgree => n \in {RouteOf(packet[1], packet[2])} \cup ToKernel
                    /\ NoneReceived
                    /\ received' = [received EXCEPT ![n] = @ + 1]
    PROVE  CopiesAreOne'
  <1>1. RouteOf(packet[1], packet[2])' = RouteOf(packet[1], packet[2])
    BY DEF RouteOf
  <1>2. received \in [Node -> Nat]
    BY DEF TypeInv, PacketIsTyped
  <1>3. CASE /\ received' = received /\ \A f, g \in flying' : f = g
             /\ flying' = {} \/ flying # {}
    BY <1>1, <1>3 DEF CopiesAreOne, OneCopy, NoneReceived
  <1>4. CASE /\ flying' = {}
             /\ \E n \in Node :
                   /\ GatewaysAgree => n \in {RouteOf(packet[1], packet[2])} \cup ToKernel
                   /\ NoneReceived
                   /\ received' = [received EXCEPT ![n] = @ + 1]
    <2>1. PICK n \in Node :
              /\ GatewaysAgree => n \in {RouteOf(packet[1], packet[2])} \cup ToKernel
              /\ NoneReceived
              /\ received' = [received EXCEPT ![n] = @ + 1]
      BY <1>4
    <2>2. \A m \in Node : received'[m] = IF m = n THEN 1 ELSE 0
      BY <1>2, <2>1 DEF NoneReceived
    <2>3. OneCopy'
      BY <1>1, <1>4, <2>1, <2>2 DEF OneCopy
    <2>4. QED
      BY <2>3 DEF CopiesAreOne
  <1>5. QED
    BY <1>3, <1>4

(* The same of a broadcast: a copy is lost, or changed and still for the   *)
(* same node, or that node is given it.                                    *)
LEMMA OneCopyEachKept ==
    ASSUME TypeInv, packet # NoPacket, packet[2] = Everyone, OneCopyEach,
           packet' = packet, NEW f \in flying, NEW g, g.to = f.to,
           \/ /\ received' = received
              /\ flying' \in {flying \ {f}, (flying \ {f}) \cup {g}}
           \/ /\ flying' = flying \ {f}
              /\ received' = [received EXCEPT ![f.to] = @ + 1]
    PROVE  CopiesAreOne'
  <1>1. received \in [Node -> Nat] /\ f.to \in Node
    BY DEF TypeInv, PacketIsTyped, Copy
  <1>2. CASE received' = received /\ flying' \in {flying \ {f}, (flying \ {f}) \cup {g}}
    <2>1. \A x, y \in flying' : x.to = y.to => x = y
      BY <1>2 DEF OneCopyEach
    <2>2. \A x \in flying' : x.to # packet[1] /\ received[x.to] = 0
      BY <1>2 DEF OneCopyEach
    <2>3. OneCopyEach'
      BY <1>2, <2>1, <2>2 DEF OneCopyEach
    <2>4. QED
      BY <2>3 DEF CopiesAreOne
  <1>3. CASE flying' = flying \ {f} /\ received' = [received EXCEPT ![f.to] = @ + 1]
    <2>1. received[f.to] = 0 /\ f.to # packet[1]
      BY DEF OneCopyEach
    <2>2. \A m \in Node : received'[m] = IF m = f.to THEN 1 ELSE received[m]
      BY <1>1, <1>3, <2>1
    <2>3. \A x \in flying' : x \in flying /\ x.to # f.to /\ x.to \in Node
      BY <1>3 DEF OneCopyEach, TypeInv, PacketIsTyped, Copy
    <2>4. \A x \in flying' : x.to # packet[1] /\ received'[x.to] = 0
      BY <2>2, <2>3 DEF OneCopyEach
    <2>5. \A x, y \in flying' : x.to = y.to => x = y
      BY <2>3 DEF OneCopyEach
    <2>6. OneCopyEach'
      BY <2>1, <2>2, <2>4, <2>5 DEF OneCopyEach
    <2>7. QED
      BY <2>6 DEF CopiesAreOne
  <1>4. QED
    BY <1>2, <1>3

(* Only the node a packet is for takes itself for its gateway.             *)
LEMMA TakerIsAddressee ==
    ASSUME GatewaysAgree, NEW n \in Node, NEW m \in Node,
           NEW dst \in Node \cup Net \cup {Everyone},
           RouteOf(n, dst) \notin {n, NoNode}, RouteOf(m, dst) = m
    PROVE  m = RouteOf(n, dst)
  <1>1. CASE dst \in Net
    BY <1>1 DEF GatewaysAgree, RouteOf
  <1>2. CASE dst \notin Net
    BY <1>2 DEF RouteOf
  <1>3. QED
    BY <1>1, <1>2

LEMMA CopiesStep == TypeInv /\ CopiesAreOne /\ [Next]_vars => CopiesAreOne'
  <1> SUFFICES ASSUME TypeInv, CopiesAreOne, [Next]_vars PROVE CopiesAreOne'
    OBVIOUS
  <1>0. received \in [Node -> Nat] /\ packet \in Traffic \cup {NoPacket}
    BY DEF TypeInv, PacketIsTyped
  <1>u. ASSUME UNCHANGED packetVars PROVE CopiesAreOne'
    BY <1>u DEF packetVars, CopiesAreOne, OneCopy, OneCopyEach, NoneReceived, RouteOf
  <1>1. ASSUME NEW n \in Node, NEW dst, <<n, dst>> \in Traffic, Originate(n, dst)
        PROVE  CopiesAreOne'
    <2>1. NoneReceived /\ received' = received /\ packet' = <<n, dst>> /\ packet' # NoPacket
      BY <1>1, RoutingAssumption DEF Originate, CopiesAreOne
    <2>2. dst \in Node \cup Net \cup {Everyone}
      BY <1>1, RoutingAssumption
    <2>3. CASE dst = Everyone
      <3>1. flying' = UNION {Sent(n, d, NoHop) : d \in Node \ {n}}
        BY <1>1, <2>2, <2>3, RouteIs DEF Originate
      <3>2. \A f \in flying' : f.to \in Node \ {n} /\ f \in Sent(n, f.to, NoHop)
        BY <3>1, SentIsOne
      <3>3. \A f, g \in flying' : f.to = g.to => f = g
        BY <3>2, SentIsOne
      <3>4. OneCopyEach'
        BY <2>1, <3>2, <3>3 DEF OneCopyEach, NoneReceived
      <3>5. QED
        BY <2>1, <2>3, <3>4 DEF CopiesAreOne
    <2>4. CASE dst # Everyone
      <3>1. /\ RouteOf(n, dst) \notin {n, NoNode, Everyone}
            /\ SendTo(n, "tun", RouteOf(n, dst), {})
        BY <1>1, <2>2, <2>4, RouteIs DEF Originate
      <3>2. \A f, g \in flying' : f = g
        BY <3>1, SentIsOne DEF SendTo
      <3>3. RouteOf(packet'[1], packet'[2]) = RouteOf(n, dst)
        BY <2>1
      <3>4. OneCopy'
        BY <2>1, <3>1, <3>2, <3>3 DEF OneCopy, NoneReceived
      <3>5. QED
        BY <2>1, <2>4, <3>4 DEF CopiesAreOne
    <2>5. QED
      BY <2>3, <2>4
  <1>2. ASSUME NEW f \in flying, Handle(f) \/ Lose(f) PROVE CopiesAreOne'
    <2>0. /\ f \in Copy /\ f.to \in Node /\ packet \in Traffic /\ packet # NoPacket
          /\ packet[1] \in Node /\ packet[2] \in Node \cup Net \cup {Everyone}
          /\ packet' = packet
          /\ (packet[2] = Everyone /\ OneCopyEach) \/ (packet[2] # Everyone /\ OneCopy)
      <3>1. f \in Copy /\ f.to \in Node
        BY DEF TypeInv, PacketIsTyped, Copy
      <3>2. packet # NoPacket
        BY DEF CopiesAreOne
      <3>3. packet \in Traffic
        BY <1>0, <3>2
      <3>4. packet' = packet
        BY <1>2 DEF Handle, Deaf, Deliver, Forward, NoRoute, ServerRelay, Lose
      <3>5. packet[1] \in Node /\ packet[2] \in Node \cup Net \cup {Everyone}
        BY <3>3, PacketIs
      <3>6. (packet[2] = Everyone /\ OneCopyEach) \/ (packet[2] # Everyone /\ OneCopy)
        BY <3>2 DEF CopiesAreOne
      <3>7. QED
        BY <3>1, <3>2, <3>3, <3>4, <3>5, <3>6
    <2>r. /\ packet[2] = Everyone => RouteOf(f.to, packet[2]) = Everyone
          /\ packet[2] # Everyone => RouteOf(f.to, packet[2]) # Everyone
      BY <2>0, RouteIs
    <2>g. packet[2] # Everyone => flying \ {f} = {} /\ NoneReceived
      BY <2>0 DEF OneCopy
    <2>d. ASSUME flying' = flying \ {f}, received' = received PROVE CopiesAreOne'
      <3>1. CASE packet[2] = Everyone
        BY <2>0, <2>d, <3>1, OneCopyEachKept
      <3>2. CASE packet[2] # Everyone
        BY <2>0, <2>d, <2>g, <3>2, OneCopyKept
      <3>3. QED
        BY <3>1, <3>2
    <2>t. ASSUME flying' = flying \ {f}, ToTun(f.to),
                 \/ packet[2] = Everyone
                 \/ GatewaysAgree => f.to \in {RouteOf(packet[1], packet[2])} \cup ToKernel
          PROVE  CopiesAreOne'
      <3>1. CASE packet[2] = Everyone
        BY <2>0, <2>t, <3>1, OneCopyEachKept DEF ToTun
      <3>2. CASE packet[2] # Everyone
        BY <2>0, <2>t, <2>g, <3>2, OneCopyKept DEF ToTun
      <3>3. QED
        BY <3>1, <3>2
    <2>1. CASE Deaf(f) \/ Lose(f)
      BY <2>1, <2>d DEF Deaf, Lose
    <2>2. CASE Deliver(f)
      <3>1. flying' = flying \ {f} /\ ToTun(f.to)
        BY <2>2 DEF Deliver
      <3>2. CASE packet[2] = Everyone
        BY <3>1, <3>2, <2>t
      <3>3. CASE packet[2] # Everyone
        <4>1. RouteOf(f.to, packet[2]) = f.to
          BY <2>2, <2>r, <3>3 DEF Deliver
        <4>2. RouteOf(packet[1], packet[2]) \notin {packet[1], NoNode}
          BY <2>0, <3>3 DEF OneCopy
        <4>3. GatewaysAgree => f.to = RouteOf(packet[1], packet[2])
          BY <2>0, <4>1, <4>2, TakerIsAddressee
        <4>4. QED
          BY <3>1, <4>3, <2>t
      <3>4. QED
        BY <3>2, <3>3
    <2>3. CASE Forward(f)
      <3> DEFINE next == RouteOf(f.to, packet[2])
      <3>1. packet[2] # Everyone /\ received' = received
        BY <2>3, <2>r DEF Forward
      <3>2. CASE f.to \in Forwards
        <4>1. SendTo(f.to, "recv", next, flying \ {f})
          BY <2>3, <3>2 DEF Forward
        <4>2. \A x, y \in flying' : x = y
          BY <4>1, <2>g, <3>1, SentIsOne DEF SendTo
        <4>3. QED
          BY <2>0, <3>1, <4>2, OneCopyKept
      <3>3. CASE f.to \notin Forwards
        BY <2>3, <2>d, <3>1, <3>3 DEF Forward
      <3>4. QED
        BY <3>2, <3>3
    <2>4. CASE NoRoute(f)
      <3>1. CASE f.to \in ToKernel
        BY <2>4, <2>t, <3>1 DEF NoRoute
      <3>2. CASE f.to \notin ToKernel
        BY <2>4, <2>d, <3>2 DEF NoRoute
      <3>3. QED
        BY <3>1, <3>2
    <2>5. CASE ServerRelay(f)
      <3> DEFINE given == IF f.to \in connected
                          THEN FirstUsable(Mode[f.to].relay, UsableByServer(f.to)) ELSE {}
                 passed(np) == [f EXCEPT !.via = np, !.atServer = FALSE]
      <3>1. /\ flying' = (flying \ {f}) \cup {passed(np) : np \in given}
            /\ received' = received
        BY <2>5 DEF ServerRelay
      <3>2. \A x, y \in given : x = y
        BY FirstIsOne
      <3>3. CASE given = {}
        <4>1. flying' = flying \ {f}
          BY <3>1, <3>3
        <4>2. QED
          BY <3>1, <4>1, <2>d
      <3>4. CASE given # {}
        <4>1. PICK np \in given : TRUE
          BY <3>4
        <4>2. passed(np).to = f.to
          BY <2>0 DEF Copy
        <4>3. {passed(x) : x \in given} = {passed(np)}
          BY <3>2, <4>1
        <4>4. flying' = (flying \ {f}) \cup {passed(np)}
          BY <3>1, <4>3
        <4> HIDE DEF passed, given
        <4>5. CASE packet[2] = Everyone
          BY <2>0, <3>1, <4>2, <4>4, <4>5, OneCopyEachKept
        <4>6. CASE packet[2] # Everyone
          <5>1. \A x, y \in flying' : x = y
            BY <2>g, <4>4, <4>6
          <5>2. QED
            BY <2>0, <3>1, <4>6, <5>1, OneCopyKept
        <4>7. QED
          BY <4>5, <4>6
      <3>5. QED
        BY <3>3, <3>4
    <2>6. QED
      BY <1>2, <2>1, <2>2, <2>3, <2>4, <2>5 DEF Handle
  <1>3. CASE Finish
    BY <1>3 DEF Finish, CopiesAreOne, NoneReceived
  <1>4. CASE \/ \E n \in Node : Upload(n) \/ Forget(n) \/ Fetch(n)
             \/ \E n, d \in Node, s \in Sender : CacheExpires(n, s, d)
             \/ \E l \in Fragile : LinkChanges(l)
             \/ \E n \in Restless : ConnectionChanges(n)
             \/ UNCHANGED vars
    BY <1>4, <1>u
    DEF Upload, Forget, Fetch, CacheExpires, LinkChanges, ConnectionChanges, vars
  <1>5. QED
    <2>1. \A t \in Traffic : t = <<t[1], t[2]>> /\ t[1] \in Node
      BY RoutingAssumption
    <2>2. QED
      BY <1>1, <1>2, <1>3, <1>4, <2>1 DEF Next

LEMMA CopiesInit == Init => CopiesAreOne
  BY DEF Init, CopiesAreOne, NoneReceived

(* Whatever the nodes believe of gateways, links and each other, however   *)
(* often the packet is forwarded and relayed: no node is given a packet    *)
(* twice, and one that is no broadcast is given to one node at most.       *)
THEOREM NoneIsGivenTwice ==
    Spec => [](\A n, m \in Node :
                  /\ received[n] <= 1
                  /\ packet # NoPacket /\ packet[2] # Everyone =>
                        (received[n] > 0 /\ received[m] > 0 => n = m))
  <1>1. CopiesAreOne =>
            \A n, m \in Node :
               /\ received[n] <= 1
               /\ packet # NoPacket /\ packet[2] # Everyone =>
                     (received[n] > 0 /\ received[m] > 0 => n = m)
    <2>1. CopiesAreOne => \A n \in Node : received[n] \in {0, 1}
      BY DEF CopiesAreOne, OneCopy, OneCopyEach, NoneReceived
    <2>2. CopiesAreOne /\ packet # NoPacket /\ packet[2] # Everyone =>
              \A n, m \in Node : received[n] > 0 /\ received[m] > 0 => n = m
      BY DEF CopiesAreOne, OneCopy
    <2>3. QED
      BY <2>1, <2>2
  <1>2. QED
    BY <1>1, CopiesInit, InitTyped, StepTyped, CopiesStep, PTL DEF Spec

(* Which node that is: the one the packet is for, each of the others of a  *)
(* broadcast, or one that hands unknown packets to its kernel.  The        *)
(* gateway is not in the packet, so for this the nodes must agree on it.   *)
THEOREM PacketsAreGivenOnce ==
    ASSUME GatewaysAgree
    PROVE  Spec => []GivenOnce
  <1>1. TypeInv /\ CopiesAreOne => GivenOnce
    <2> SUFFICES ASSUME TypeInv, CopiesAreOne, NEW n \in Node
                 PROVE  /\ received[n] <= 1
                        /\ packet # NoPacket /\ received[n] > 0 => n \in Addressees \cup ToKernel
      BY DEF GivenOnce
    <2>1. received[n] \in {0, 1}
      BY DEF CopiesAreOne, OneCopy, OneCopyEach, NoneReceived
    <2>2. QED
      BY <2>1 DEF CopiesAreOne, OneCopy, OneCopyEach, Addressees
  <1>2. QED
    BY <1>1, CopiesInit, InitTyped, StepTyped, CopiesStep, PTL DEF Spec
=============================================================================
