---------------------------- MODULE BogVmProofs ----------------------------
(***************************************************************************)
(* The BOGVM for any program over any nodes, claims and blocks.  The       *)
(* inductive invariant keeps, besides the types, why a verdict stands: a   *)
(* claim whose verdict is "verified" was seen to be joined, every pair of  *)
(* endpoints it was seen with is joined by a walk over support edges that  *)
(* are still there, and a block whose hash is "verified" was checked.      *)
(***************************************************************************)
EXTENDS BogVm, FiniteSetTheorems, WellFoundedInduction, TLAPS

(***************************************************************************)
(* Naturals, iteration and sums                                            *)
(***************************************************************************)
\* A set of naturals that has an element has a least one.
LEMMA Least ==
  ASSUME NEW T \in SUBSET Nat, T # {}
  PROVE  \E x \in T : \A y \in T : x <= y
<1> DEFINE R == OpToRel(<, Nat)
<1>1. IsWellFoundedOn(R, Nat)
  BY NatLessThanWellFounded, Zenon
<1>2. PICK x \in T : \A y \in T : ~(<<y, x>> \in R)
  BY <1>1, WFMin, Zenon
<1>3. \A y \in T : ~(y < x)
  BY <1>2 DEF OpToRel
<1> QED
  BY <1>3

\* What holds of zero, and of the next number of every one it holds of, holds of all.
LEMMA Everywhere ==
  ASSUME NEW T \in SUBSET Nat, 0 \in T, \A n \in T : n + 1 \in T
  PROVE  T = Nat
<1> DEFINE bad == Nat \ T
<1> SUFFICES ASSUME bad # {} PROVE FALSE
  OBVIOUS
<1>1. PICK n \in bad : \A m \in bad : n <= m
  BY Least
<1>2. n # 0 /\ n - 1 \in Nat /\ ~(n <= n - 1) /\ (n - 1) + 1 = n
  BY <1>1
<1>3. n - 1 \in T
  BY <1>1, <1>2
<1> QED
  BY <1>1, <1>2, <1>3

\* f holds what comes of repeating a step up to K times.
Repeated(f, K, S, start, step) ==
  f \in [0..K -> S] /\ f[0] = start /\ \A t \in 1..K : f[t] = step[f[t - 1]]

\* A step can be repeated any number of times.
LEMMA Iterates ==
  ASSUME NEW S, NEW start, start \in S, NEW step, step \in [S -> S], NEW K \in Nat
  PROVE  \E f : Repeated(f, K, S, start, step)
<1> DEFINE Good(k) == \E f \in [0..k -> S] : f[0] = start /\ \A t \in 1..k : f[t] = step[f[t - 1]]
           T == {k \in Nat : Good(k)}
<1>1. Good(0)
  <2> DEFINE f == [t \in 0..0 |-> start]
  <2>1. f \in [0..0 -> S] /\ f[0] = start /\ \A t \in 1..0 : f[t] = step[f[t - 1]]
    OBVIOUS
  <2> QED
    BY <2>1
<1>2. ASSUME NEW k \in Nat, Good(k) PROVE Good(k + 1)
  <2>1. PICK f \in [0..k -> S] : f[0] = start /\ \A t \in 1..k : f[t] = step[f[t - 1]]
    BY <1>2
  <2> DEFINE g == [t \in 0..(k + 1) |-> IF t = k + 1 THEN step[f[k]] ELSE f[t]]
  <2>2. f[k] \in S /\ step[f[k]] \in S
    OBVIOUS
  <2>3. g \in [0..(k + 1) -> S]
    BY <2>2
  <2>4. \A t \in 0..k : g[t] = f[t]
    OBVIOUS
  <2>5. g[k + 1] = step[f[k]]
    OBVIOUS
  <2> HIDE DEF g
  <2>6. g[0] = start
    BY <2>1, <2>4
  <2>7. ASSUME NEW t \in 1..(k + 1) PROVE g[t] = step[g[t - 1]]
    <3>1. CASE t = k + 1
      BY <2>4, <2>5, <3>1
    <3>2. CASE t # k + 1
      <4>1. t \in 1..k /\ t \in 0..k /\ t - 1 \in 0..k
        BY <3>2
      <4> QED
        BY <2>1, <2>4, <4>1
    <3> QED
      BY <3>1, <3>2
  <2> QED
    BY <2>3, <2>6, <2>7
<1> HIDE DEF Good
<1>3. T = Nat
  <2>1. T \in SUBSET Nat /\ 0 \in T /\ \A n \in T : n + 1 \in T
    BY <1>1, <1>2
  <2> HIDE DEF T
  <2> QED
    BY <2>1, Everywhere
<1>4. Good(K)
  BY <1>3
<1> QED
  BY <1>4 DEF Good, Repeated

Pick(s) == CHOOSE x \in s : TRUE

\* sum adds up f over every subset of S, one picked element after the other.
Sums(sum, f, S) ==
  \A s \in SUBSET S : sum[s] = IF s = {} THEN 0 ELSE f[Pick(s)] + sum[s \ {Pick(s)}]

\* A finite set without one of its elements is smaller by one.
LEMMA Smaller ==
  ASSUME NEW s, IsFiniteSet(s), NEW x \in s
  PROVE  /\ IsFiniteSet(s \ {x}) /\ Cardinality(s) \in Nat /\ Cardinality(s) # 0
         /\ Cardinality(s \ {x}) = Cardinality(s) - 1
<1>1. IsFiniteSet(s \ {x}) /\ Cardinality(s \ {x}) = Cardinality(s) - 1 /\ Cardinality(s) \in Nat
  BY FS_RemoveElement, FS_CardinalityType
<1>2. Cardinality(s) # 0
  BY FS_EmptySet
<1> QED
  BY <1>1, <1>2

\* Two sums of the same values agree.
LEMMA SameSums ==
  ASSUME NEW S, IsFiniteSet(S), NEW f, NEW g, NEW sum, NEW sum2, Sums(sum, f, S), Sums(sum2, g, S),
         \A x \in S : f[x] = g[x]
  PROVE  sum[S] = sum2[S]
<1> DEFINE bad == {n \in Nat : \E r \in SUBSET S : Cardinality(r) = n /\ sum[r] # sum2[r]}
<1>1. SUFFICES ASSUME sum[S] # sum2[S] PROVE FALSE
  OBVIOUS
<1>2. bad # {}
  BY <1>1, FS_CardinalityType
<1>3. PICK n \in bad : \A m \in bad : n <= m
  BY <1>2, Least
<1>4. PICK r \in SUBSET S : Cardinality(r) = n /\ sum[r] # sum2[r]
  BY <1>3
<1>5. r # {} /\ IsFiniteSet(r)
  BY <1>4, FS_Subset DEF Sums
<1>6. Pick(r) \in r
  BY <1>5 DEF Pick
<1>7. Cardinality(r \ {Pick(r)}) \in Nat /\ Cardinality(r \ {Pick(r)}) = n - 1
  BY <1>4, <1>5, <1>6, Smaller
<1>8. sum[r \ {Pick(r)}] = sum2[r \ {Pick(r)}]
  BY <1>3, <1>7
<1> QED
  BY <1>4, <1>5, <1>6, <1>8 DEF Sums

\* There are sums of any values.
LEMMA SumExists ==
  ASSUME NEW S, IsFiniteSet(S), NEW f, \A x \in S : f[x] \in Nat
  PROVE  \E sum \in [SUBSET S -> Nat] : Sums(sum, f, S)
<1> DEFINE Upto(n) == {s \in SUBSET S : Cardinality(s) <= n}
           Value(sum, s) == IF s = {} THEN 0 ELSE f[Pick(s)] + sum[s \ {Pick(s)}]
           Good(n) == \E sum \in [Upto(n) -> Nat] : \A s \in Upto(n) : sum[s] = Value(sum, s)
           T == {n \in Nat : Good(n)}
<1>1. \A s \in SUBSET S : IsFiniteSet(s) /\ Cardinality(s) \in Nat /\ (Cardinality(s) = 0 => s = {})
  BY FS_Subset, FS_CardinalityType, FS_EmptySet
<1>2. ASSUME NEW s \in SUBSET S, s # {}
      PROVE  /\ Pick(s) \in s /\ f[Pick(s)] \in Nat /\ s \ {Pick(s)} \in SUBSET S
             /\ Cardinality(s \ {Pick(s)}) = Cardinality(s) - 1
  <2>1. Pick(s) \in s
    BY <1>2 DEF Pick
  <2> QED
    BY <1>1, <2>1, Smaller
<1>3. Good(0)
  <2> DEFINE zero == [s \in Upto(0) |-> 0]
  <2>1. \A s \in Upto(0) : s = {}
    BY <1>1
  <2>2. zero \in [Upto(0) -> Nat] /\ \A s \in Upto(0) : zero[s] = Value(zero, s)
    BY <2>1
  <2> HIDE DEF zero
  <2> QED
    BY <2>2
<1>4. ASSUME NEW n \in Nat, Good(n) PROVE Good(n + 1)
  <2>1. PICK sum \in [Upto(n) -> Nat] : \A s \in Upto(n) : sum[s] = Value(sum, s)
    BY <1>4
  <2> DEFINE more == [s \in Upto(n + 1) |-> IF s \in Upto(n) THEN sum[s] ELSE Value(sum, s)]
  <2>2. \A s \in Upto(n + 1) : s # {} => s \ {Pick(s)} \in Upto(n)
    BY <1>1, <1>2
  <2>3. \A s \in Upto(n) : s \in Upto(n + 1)
    BY <1>1
  <2> HIDE DEF Upto
  <2>4. ASSUME NEW s \in Upto(n + 1) PROVE Value(sum, s) \in Nat
    <3>1. s \in SUBSET S
      BY DEF Upto
    <3> QED
      BY <1>2, <2>1, <2>2, <3>1
  <2>5. more \in [Upto(n + 1) -> Nat]
    BY <2>1, <2>4
  <2>6. \A s \in Upto(n + 1) : more[s] = Value(sum, s)
    BY <2>1
  <2>7. \A s \in Upto(n) : more[s] = sum[s]
    BY <2>3
  <2> HIDE DEF more
  <2>8. \A s \in Upto(n + 1) : more[s] = Value(more, s)
    BY <2>2, <2>6, <2>7
  <2> QED
    BY <2>5, <2>8
<1> HIDE DEF Good
<1>5. T = Nat
  <2>1. T \in SUBSET Nat /\ 0 \in T /\ \A n \in T : n + 1 \in T
    BY <1>3, <1>4
  <2> HIDE DEF T
  <2> QED
    BY <2>1, Everywhere
<1>6. Cardinality(S) \in Nat /\ Upto(Cardinality(S)) = SUBSET S
  BY FS_Subset, FS_CardinalityType
<1>7. Good(Cardinality(S))
  BY <1>5, <1>6
<1> HIDE DEF Upto
<1> QED
  BY <1>6, <1>7 DEF Good, Sums

\* SumFunctionOnSet is such a sum.
LEMMA SumIsSum ==
  ASSUME NEW S, IsFiniteSet(S), NEW f, \A x \in S : f[x] \in Nat
  PROVE  /\ SumFunctionOnSet(f, S) \in Nat
         /\ \A sum : Sums(sum, f, S) => SumFunctionOnSet(f, S) = sum[S]
<1> DEFINE Fold(g) == [s \in SUBSET S |-> IF s = {} THEN 0
                          ELSE f[CHOOSE x \in s : TRUE] + g[s \ {CHOOSE x \in s : TRUE}]]
           iter == CHOOSE g : g = Fold(g)
<1>1. SumFunctionOnSet(f, S) = iter[S]
  BY DEF SumFunctionOnSet, FoldFunctionOnSet, MapThenFoldSet
<1>2. PICK sum \in [SUBSET S -> Nat] : Sums(sum, f, S)
  BY SumExists
<1>3. sum = Fold(sum)
  <2>1. ASSUME NEW s \in SUBSET S PROVE sum[s] = Fold(sum)[s]
    BY <1>2 DEF Sums, Pick
  <2> QED
    BY <2>1
<1>4. iter = Fold(iter)
  BY <1>3
<1>5. Sums(iter, f, S)
  <2> SUFFICES ASSUME NEW s \in SUBSET S
               PROVE  iter[s] = IF s = {} THEN 0 ELSE f[Pick(s)] + iter[s \ {Pick(s)}]
    BY DEF Sums
  <2> HIDE DEF iter
  <2> QED
    BY <1>4 DEF Pick
<1> HIDE DEF iter
<1>6. iter[S] = sum[S] /\ \A other : Sums(other, f, S) => iter[S] = other[S]
  BY <1>2, <1>5, SameSums
<1> QED
  BY <1>1, <1>2, <1>6

LEMMA Extremes ==
  ASSUME NEW a \in Nat, NEW b \in Nat
  PROVE  /\ Max({a, b}) \in Nat /\ Max({a, b}) = IF a >= b THEN a ELSE b
         /\ Min({a, b}) \in Nat
<1>1. \E x \in {a, b} : \A y \in {a, b} : x >= y
  BY SMT
<1>2. \E x \in {a, b} : \A y \in {a, b} : x <= y
  BY SMT
<1>3. Max({a, b}) \in {a, b} /\ \A y \in {a, b} : Max({a, b}) >= y
  BY <1>1 DEF Max
<1>4. Min({a, b}) \in {a, b}
  BY <1>2 DEF Min
<1> QED
  BY <1>3, <1>4

(***************************************************************************)
(* What the operators of the machine compute                               *)
(***************************************************************************)
Edge == [source : Node, target : Node, type : EdgeTypes, weight : {SCALE}]
Endpoints == [source : Node, target : Node]

\* The tables hold what their opcodes put there.
GraphTyped ==
  /\ nodes \subseteq Node /\ edges \in Seq(Edge)
  /\ \A i \in DOMAIN edges : {edges[i].source, edges[i].target} \subseteq nodes
  /\ claims \in [Claim -> [source : nodes, target : nodes] \cup {None}]

\* An edge carries what its source holds.
LEMMA EdgeCarriesAll ==
  ASSUME GraphTyped, NEW i \in DOMAIN edges, NEW amount \in Nat
  PROVE  Carried(amount, i) = amount
<1>1. edges[i] \in Edge
  BY DEF GraphTyped
<1>2. edges[i].weight = 1000
  BY <1>1 DEF Edge, SCALE
<1> QED
  BY <1>2 DEF Carried, SCALE

LEMMA FiniteEdges ==
  ASSUME GraphTyped
  PROVE  /\ IsFiniteSet(DOMAIN edges)
         /\ \A type : EdgesOf(type) \in SUBSET DOMAIN edges /\ IsFiniteSet(EdgesOf(type))
         /\ \A n, type : Into(n, type) \in SUBSET DOMAIN edges /\ IsFiniteSet(Into(n, type))
<1>1. DOMAIN edges = 1..Len(edges) /\ Len(edges) \in Nat
  BY DEF GraphTyped
<1>2. IsFiniteSet(DOMAIN edges)
  BY <1>1, FS_Interval
<1>3. \A n, type : Into(n, type) \in SUBSET DOMAIN edges /\ EdgesOf(type) \in SUBSET DOMAIN edges
  BY DEF Into, EdgesOf
<1> QED
  BY <1>2, <1>3, FS_Subset

\* What flows when the nodes hold naturals.
LEMMA Flows ==
  ASSUME GraphTyped, NEW amounts \in [Node -> Nat]
  PROVE  /\ Flow(amounts) = [i \in DOMAIN edges |-> amounts[edges[i].source]]
         /\ \A i \in DOMAIN edges : Flow(amounts)[i] \in Nat /\ edges[i].source \in Node
<1>1. ASSUME NEW i \in DOMAIN edges
      PROVE  edges[i].source \in Node /\ Carried(amounts[edges[i].source], i) = amounts[edges[i].source]
  <2>1. edges[i].source \in Node
    BY DEF GraphTyped, Edge
  <2>2. amounts[edges[i].source] \in Nat
    BY <2>1
  <2> QED
    BY <2>1, <2>2, EdgeCarriesAll
<1> QED
  BY <1>1 DEF Flow

LEMMA TickTyped ==
  ASSUME GraphTyped, NEW frontier \in [Node -> Nat], NEW type
  PROVE  TickWave(frontier, type) \in [Node -> Nat]
<1>1. ASSUME NEW n \in Node PROVE SumFunctionOnSet(Flow(frontier), Into(n, type)) \in Nat
  <2>1. \A i \in Into(n, type) : Flow(frontier)[i] \in Nat
    BY Flows, FiniteEdges
  <2> QED
    BY <2>1, FiniteEdges, SumIsSum
<1> QED
  BY <1>1 DEF TickWave

Wavefronts == [frontier : [Node -> Nat], cumulative : [Node -> Nat], energy : Nat]

Started(source) == [frontier |-> [n \in Node |-> IF n = source THEN activation[n] ELSE 0],
                    cumulative |-> activation, energy |-> 0]
Ticked(last, type) ==
  LET scratch == TickWave(last.frontier, type)
  IN [frontier |-> scratch,
      cumulative |-> [n \in Node |-> Max({last.cumulative[n], scratch[n]})],
      energy |-> last.energy + SumFunctionOnSet(scratch, Node)]

LEMMA TickedTyped ==
  ASSUME GraphTyped, NEW last \in Wavefronts, NEW type
  PROVE  Ticked(last, type) \in Wavefronts
<1> DEFINE scratch == TickWave(last.frontier, type)
<1>1. last.frontier \in [Node -> Nat] /\ last.cumulative \in [Node -> Nat] /\ last.energy \in Nat
  BY DEF Wavefronts
<1>2. scratch \in [Node -> Nat]
  BY <1>1, TickTyped
<1> HIDE DEF scratch
<1>3. SumFunctionOnSet(scratch, Node) \in Nat
  <2>1. \A n \in Node : scratch[n] \in Nat
    BY <1>2
  <2> QED
    BY <2>1, VmAssumption, SumIsSum
<1>4. [n \in Node |-> Max({last.cumulative[n], scratch[n]})] \in [Node -> Nat]
  <2>1. ASSUME NEW n \in Node PROVE Max({last.cumulative[n], scratch[n]}) \in Nat
    <3>1. last.cumulative[n] \in Nat /\ scratch[n] \in Nat
      BY <1>1, <1>2
    <3> QED
      BY <3>1, Extremes
  <2> QED
    BY <2>1
<1>5. last.energy + SumFunctionOnSet(scratch, Node) \in Nat
  BY <1>1, <1>3
<1> QED
  BY <1>2, <1>4, <1>5 DEF Ticked, Wavefronts, scratch

\* w holds the wavefronts of a propagation.
Ticks(w, source, type, depth) ==
  /\ w \in [0..depth -> Wavefronts]
  /\ w[0] = Started(source) /\ \A t \in 1..depth : w[t] = Ticked(w[t - 1], type)
  /\ Propagated(source, type, depth) = w[depth]

\* A propagation ticks depth times, from the source alone.
LEMMA PropagatedTicks ==
  ASSUME GraphTyped, activation \in [Node -> Nat], NEW source \in Node, NEW type, NEW depth \in Nat
  PROVE  \E w : Ticks(w, source, type, depth)
<1> DEFINE W(g) == [t \in 0..depth |-> IF t = 0 THEN Started(source) ELSE Ticked(g[t - 1], type)]
           wave == CHOOSE g : g = W(g)
           step == [last \in Wavefronts |-> Ticked(last, type)]
<1>1. Propagated(source, type, depth) = wave[depth]
  BY DEF Propagated, Started, Ticked
<1>2. Started(source) \in Wavefronts
  BY DEF Started, Wavefronts
<1>3. step \in [Wavefronts -> Wavefronts] /\ \A last \in Wavefronts : step[last] = Ticked(last, type)
  BY TickedTyped
<1> HIDE DEF step
<1>4. PICK f \in [0..depth -> Wavefronts] : f[0] = Started(source) /\ \A t \in 1..depth : f[t] = step[f[t - 1]]
  <2>1. \E f : Repeated(f, depth, Wavefronts, Started(source), step)
    BY <1>2, <1>3, Iterates
  <2> QED
    BY <2>1 DEF Repeated
<1>5. \A t \in 1..depth : t - 1 \in 0..depth /\ f[t] = Ticked(f[t - 1], type)
  BY <1>3, <1>4
<1>6. f = W(f)
  BY <1>4, <1>5
<1>7. wave = W(wave)
  BY <1>6
<1> HIDE DEF wave
<1>8. \A t \in 0..depth : wave[t] = f[t]
  <2> DEFINE T == {t \in Nat : t <= depth => wave[t] = f[t]}
  <2>1. 0 \in T
    BY <1>4, <1>7
  <2>2. ASSUME NEW t \in T PROVE t + 1 \in T
    <3>1. SUFFICES ASSUME t + 1 <= depth PROVE wave[t + 1] = f[t + 1]
      OBVIOUS
    <3>2. t + 1 \in 1..depth /\ (t + 1) - 1 = t /\ t <= depth /\ t + 1 # 0 /\ t + 1 \in 0..depth
      BY <3>1
    <3>3. wave[t] = f[t]
      BY <2>2, <3>2
    <3>4. wave[t + 1] = Ticked(wave[t], type)
      BY <1>7, <3>2
    <3>5. f[t + 1] = Ticked(f[t], type)
      BY <1>5, <3>2
    <3> QED
      BY <3>3, <3>4, <3>5
  <2>3. T \in SUBSET Nat /\ 0 \in T /\ \A t \in T : t + 1 \in T
    BY <2>1, <2>2
  <2> HIDE DEF T
  <2>4. T = Nat
    BY <2>3, Everywhere
  <2> QED
    BY <2>4 DEF T
<1>9. Propagated(source, type, depth) = f[depth]
  BY <1>1, <1>8
<1> QED
  BY <1>4, <1>5, <1>9 DEF Ticks

\* n can be reached from m in at most k support edges.
Walk(walk, k, m, n) ==
  /\ walk \in [0..k -> Node] /\ walk[0] = m /\ walk[k] = n
  /\ \A j \in 1..k : \E i \in EdgesOf("support") : edges[i].source = walk[j - 1] /\ edges[i].target = walk[j]
Joined(m, n) == \E k \in 0..Cardinality(Node) : \E walk : Walk(walk, k, m, n)

\* What the search of verify_claim visits is joined to where it starts.
LEMMA VisitedIsJoined ==
  ASSUME GraphTyped, NEW m \in Node, NEW n, SupportPathExists(m, n)
  PROVE  Joined(m, n)
<1> DEFINE K == Cardinality(Node)
           More(v) == v \cup {edges[i].target : i \in {j \in EdgesOf("support") : edges[j].source \in v}}
           V(g) == [k \in 0..K |-> IF k = 0 THEN {m} ELSE More(g[k - 1])]
           visited == CHOOSE g : g = V(g)
           step == [v \in SUBSET Node |-> More(v)]
<1>1. n \in visited[K]
  BY DEF SupportPathExists
<1>2. K \in Nat
  BY VmAssumption, FS_CardinalityType
<1> HIDE DEF K
<1>3. \A i \in EdgesOf("support") : edges[i].source \in Node /\ edges[i].target \in Node
  BY DEF GraphTyped, Edge, EdgesOf
<1>4. step \in [SUBSET Node -> SUBSET Node] /\ \A v \in SUBSET Node : step[v] = More(v)
  BY <1>3
<1> HIDE DEF step
<1>5. PICK f \in [0..K -> SUBSET Node] : f[0] = {m} /\ \A t \in 1..K : f[t] = step[f[t - 1]]
  <2>1. {m} \in SUBSET Node
    OBVIOUS
  <2>2. \E f : Repeated(f, K, SUBSET Node, {m}, step)
    BY <1>2, <1>4, <2>1, Iterates
  <2> QED
    BY <2>2 DEF Repeated
<1>6. \A t \in 1..K : t - 1 \in 0..K /\ f[t] = More(f[t - 1])
  BY <1>2, <1>4, <1>5
<1> HIDE DEF More
<1>7. f = V(f)
  BY <1>5, <1>6
<1>8. visited = V(visited)
  BY <1>7
<1> HIDE DEF visited
<1>9. visited[0] = {m} /\ \A t \in 1..K : visited[t] = More(visited[t - 1])
  <2>1. 0 \in 0..K /\ \A t \in 1..K : t \in 0..K /\ t # 0
    BY <1>2
  <2>2. \A t \in 0..K : visited[t] = IF t = 0 THEN {m} ELSE More(visited[t - 1])
    BY <1>8
  <2> QED
    BY <2>1, <2>2
<1> DEFINE T == {t \in Nat : t <= K => \A x \in visited[t] : \E k \in 0..t : \E walk : Walk(walk, k, m, x)}
<1>10. 0 \in T
  <2> DEFINE walk == [j \in 0..0 |-> m]
  <2>1. Walk(walk, 0, m, m)
    BY DEF Walk
  <2> QED
    BY <1>9, <2>1
<1>11. ASSUME NEW t \in T PROVE t + 1 \in T
  <2>1. SUFFICES ASSUME t + 1 <= K, NEW x \in visited[t + 1]
                 PROVE  \E k \in 0..(t + 1) : \E walk : Walk(walk, k, m, x)
    OBVIOUS
  <2>2. t + 1 \in 1..K /\ (t + 1) - 1 = t /\ t <= K
    BY <1>2, <2>1
  <2>3. x \in More(visited[t])
    BY <1>9, <2>1, <2>2
  <2>4. \A y \in visited[t] : \E k \in 0..t : \E walk : Walk(walk, k, m, y)
    BY <1>11, <2>2
  <2>5. CASE x \in visited[t]
    <3>1. PICK k \in 0..t : \E walk : Walk(walk, k, m, x)
      BY <2>4, <2>5
    <3> QED
      BY <3>1
  <2>6. CASE x \notin visited[t]
    <3>1. PICK i \in EdgesOf("support") : edges[i].source \in visited[t] /\ edges[i].target = x
      BY <2>3, <2>6 DEF More
    <3>0. PICK k \in 0..t : \E walk : Walk(walk, k, m, edges[i].source)
      BY <2>4, <3>1
    <3>2. PICK walk : Walk(walk, k, m, edges[i].source)
      BY <3>0
    <3> DEFINE longer == [j \in 0..(k + 1) |-> IF j = k + 1 THEN x ELSE walk[j]]
    <3>3. x \in Node /\ walk \in [0..k -> Node] /\ k \in Nat
      BY <1>3, <3>1, <3>2 DEF Walk
    <3>4. longer \in [0..(k + 1) -> Node]
      BY <3>3
    <3>5. longer[k + 1] = x /\ \A j \in 0..k : longer[j] = walk[j]
      BY <3>3
    <3> HIDE DEF longer
    <3>6. ASSUME NEW j \in 1..(k + 1)
          PROVE  \E e \in EdgesOf("support") : edges[e].source = longer[j - 1] /\ edges[e].target = longer[j]
      <4>1. CASE j = k + 1
        <5>1. j - 1 \in 0..k /\ j - 1 = k
          BY <3>3, <4>1
        <5>2. longer[j - 1] = edges[i].source /\ longer[j] = edges[i].target
          BY <3>1, <3>2, <3>5, <4>1, <5>1 DEF Walk
        <5> QED
          BY <5>2
      <4>2. CASE j # k + 1
        <5>1. j \in 1..k /\ j \in 0..k /\ j - 1 \in 0..k
          BY <3>3, <4>2
        <5> QED
          BY <3>2, <3>5, <5>1 DEF Walk
      <4> QED
        BY <4>1, <4>2
    <3>7. longer[0] = m
      BY <3>2, <3>3, <3>5 DEF Walk
    <3>8. Walk(longer, k + 1, m, x)
      BY <3>4, <3>5, <3>6, <3>7 DEF Walk
    <3>9. k + 1 \in 0..(t + 1)
      BY <3>2
    <3> QED
      BY <3>8, <3>9
  <2> QED
    BY <2>5, <2>6
<1>12. T = Nat
  <2>1. T \in SUBSET Nat /\ 0 \in T /\ \A t \in T : t + 1 \in T
    BY <1>10, <1>11
  <2> HIDE DEF T
  <2> QED
    BY <2>1, Everywhere
<1>13. \E k \in 0..K : \E walk : Walk(walk, k, m, n)
  BY <1>1, <1>2, <1>12
<1> QED
  BY <1>13 DEF Joined, K

\* A sequence written as a function has the length of its domain.
LEMMA LengthOf ==
  ASSUME NEW b, NEW n \in Nat, b = [j \in 1..n |-> b[j]]
  PROVE  Len(b) = n /\ b \in Seq({b[j] : j \in 1..n})
OBVIOUS

LEMMA SynthesizedLength ==
  ASSUME NEW basisName, NEW start, NEW n \in Nat, NEW delta
  PROVE  LET b == synthesize_basis(basisName, start, n, delta) IN b = [j \in 1..n |-> b[j]]
BY DEF synthesize_basis

LEMMA PatchedLength ==
  ASSUME NEW b, NEW n \in Nat, b = [j \in 1..n |-> b[j]], NEW residuals
  PROVE  Patched(b, residuals) = [j \in 1..n |-> Patched(b, residuals)[j]]
<1> DEFINE Value(j) == IF \E r \in residuals : r.offset = j - 1
                       THEN (CHOOSE r \in residuals : /\ r.offset = j - 1
                               /\ \A o \in residuals : o.offset = j - 1 => o.byte <= r.byte).byte
                       ELSE b[j]
           f == [j \in 1..n |-> Value(j)]
<1>1. Len(b) = n
  BY LengthOf
<1>2. Patched(b, residuals) = <<>> \o f
  BY <1>1 DEF Patched, Listed
<1> HIDE DEF Value
<1>3. f = [j \in 1..n |-> f[j]]
  OBVIOUS
<1> HIDE DEF f
<1>4. f \in Seq({f[j] : j \in 1..n}) /\ Len(f) = n
  BY <1>3, LengthOf
<1>5. <<>> \o f = f
  BY <1>4
<1> QED
  BY <1>2, <1>3, <1>5

(***************************************************************************)
(* The inductive invariant                                                 *)
(***************************************************************************)
Control ==
  /\ program \in Programs /\ status \in {"running", "completed", "blocked", "raised"}
  /\ events \in Nat /\ events <= MaxEvents + 2 /\ emitted \in BOOLEAN
  /\ status = "running" => events <= MaxEvents
  /\ Assembled => status # "raised"

Field ==
  /\ activation \in [Node -> Nat] /\ tension \in [Claim -> Nat]
  /\ pressure \in [Claim -> [support : Nat, conflict : Nat] \cup {None}]

Rulings ==
  /\ verdict \in [Claim -> {None, "verified", "rejected", "abstained"}]
  /\ seen \in [Claim -> SUBSET Endpoints]
  /\ accepted \cup rejected \cup quarantined \subseteq Claim
  /\ \A c \in Claim : verdict[c] = "verified" => seen[c] # {}
  /\ \A c \in accepted : seen[c] # {}
  /\ \A c \in Claim : \A as \in seen[c] : Joined(as.source, as.target)

\* A block's bytes are a sequence, empty or of the length that was loaded.
IsBlock(b) ==
  /\ DOMAIN b = {"basis", "start", "delta", "length", "bytes", "residuals"}
  /\ b.length \in Nat
  /\ \E n \in {0, b.length} : b.bytes = [j \in 1..n |-> b.bytes[j]]

Loaded ==
  /\ DOMAIN blocks = Block /\ \A d \in Block : blocks[d] # None => IsBlock(blocks[d])
  /\ hashed \in [Block -> {None, "verified", "rejected"}] /\ checked \in [Block -> SUBSET Hashes]
  /\ acceptedData \cup rejectedData \subseteq Block
  /\ \A d \in Block : hashed[d] = "verified" => checked[d] # {}
  /\ \A d \in acceptedData : checked[d] # {}

VmInv == Control /\ GraphTyped /\ Field /\ Rulings /\ Loaded

\* The bounds of a program.
LEMMA ProgramTyped ==
  ASSUME Control
  PROVE  /\ MaxEvents \in Nat /\ Assembled \in BOOLEAN
         /\ program.strengths \subseteq Nat /\ program.depths \subseteq Nat
BY VmAssumption DEF Control, MaxEvents, Assembled

\* What an instruction does not touch keeps its part of the invariant.
LEMMA Kept ==
  ASSUME VmInv
  PROVE  /\ UNCHANGED <<nodes, edges, claims>> => GraphTyped'
         /\ UNCHANGED <<activation, pressure, tension>> => Field'
         /\ UNCHANGED <<edges, verdict, accepted, rejected, quarantined, seen>> => Rulings'
         /\ UNCHANGED <<blocks, hashed, acceptedData, rejectedData, checked>> => Loaded'
<1>1. UNCHANGED <<nodes, edges, claims>> => GraphTyped'
  BY DEF VmInv, GraphTyped
<1>2. UNCHANGED <<activation, pressure, tension>> => Field'
  BY DEF VmInv, Field
<1>3. ASSUME UNCHANGED <<edges, verdict, accepted, rejected, quarantined, seen>> PROVE Rulings'
  <2>1. \A m, n : Joined(m, n) => Joined(m, n)'
    BY <1>3 DEF Joined, Walk, EdgesOf
  <2> QED
    BY <1>3, <2>1 DEF VmInv, Rulings
<1>4. UNCHANGED <<blocks, hashed, acceptedData, rejectedData, checked>> => Loaded'
  BY DEF VmInv, Loaded
<1> QED
  BY <1>1, <1>2, <1>3, <1>4

\* An instruction that is fetched and logged, or stopped by a VMError.
LEMMA Logged ==
  ASSUME VmInv, UNCHANGED program, NEW op, Fetch(op), Log
  PROVE  Control'
<1>1. Control /\ MaxEvents \in Nat
  BY ProgramTyped DEF VmInv
<1>2. program' = program /\ status = "running" /\ events < MaxEvents /\ status' = status /\ emitted' = emitted
      /\ events' = events + 1
  BY DEF Fetch, Log
<1>3. MaxEvents' = MaxEvents /\ Assembled' = Assembled
  BY <1>2 DEF MaxEvents, Assembled
<1> QED
  BY <1>1, <1>2, <1>3 DEF Control

LEMMA Blocked ==
  ASSUME VmInv, UNCHANGED program, status = "running", VMError
  PROVE  VmInv'
<1>1. Control /\ MaxEvents \in Nat
  BY ProgramTyped DEF VmInv
<1>2. /\ program' = program /\ status' = "blocked" /\ emitted' = emitted /\ events' = events + 1
      /\ UNCHANGED <<graph, field, rulings, data>>
  BY DEF VMError
<1>3. MaxEvents' = MaxEvents /\ Assembled' = Assembled
  BY <1>2 DEF MaxEvents, Assembled
<1>4. Control'
  BY <1>1, <1>2, <1>3 DEF Control
<1> QED
  BY <1>2, <1>4, Kept DEF VmInv, graph, field, rulings, data

LEMMA Raised ==
  ASSUME VmInv, UNCHANGED program, KeyErrorRaised, ~Assembled
  PROVE  VmInv'
<1>1. Control /\ MaxEvents \in Nat
  BY ProgramTyped DEF VmInv
<1>2. /\ program' = program /\ status' = "raised" /\ emitted' = emitted /\ events' = events
      /\ UNCHANGED <<graph, field, rulings, data>>
  BY DEF KeyErrorRaised
<1>3. MaxEvents' = MaxEvents /\ Assembled' = Assembled
  BY <1>2 DEF MaxEvents, Assembled
<1>4. Control'
  BY <1>1, <1>2, <1>3 DEF Control
<1> QED
  BY <1>2, <1>4, Kept DEF VmInv, graph, field, rulings, data

LEMMA VmInitially == Init => VmInv
<1> SUFFICES ASSUME Init PROVE VmInv
  OBVIOUS
<1>1. Control
  <2>1. program \in Programs /\ status = "running" /\ events = 0 /\ emitted \in BOOLEAN
    BY DEF Init
  <2>2. MaxEvents \in Nat
    BY <2>1, VmAssumption DEF MaxEvents
  <2>3. events \in Nat /\ events <= MaxEvents + 2 /\ events <= MaxEvents
    BY <2>1, <2>2
  <2> QED
    BY <2>1, <2>3 DEF Control
<1>2. GraphTyped
  <2>1. nodes = {} /\ edges = <<>> /\ claims = [c \in Claim |-> None]
    BY DEF Init
  <2> QED
    BY <2>1 DEF GraphTyped
<1>3. Field
  BY DEF Init, Field
<1>4. Rulings
  <2>1. /\ verdict = [c \in Claim |-> None] /\ seen = [c \in Claim |-> {}]
        /\ accepted = {} /\ rejected = {} /\ quarantined = {} /\ None # "verified"
    BY VmAssumption DEF Init
  <2> QED
    BY <2>1 DEF Rulings
<1>5. Loaded
  <2>1. /\ blocks = [d \in Block |-> None] /\ hashed = [d \in Block |-> None] /\ checked = [d \in Block |-> {}]
        /\ acceptedData = {} /\ rejectedData = {} /\ None # "verified"
    BY VmAssumption DEF Init
  <2> QED
    BY <2>1 DEF Loaded
<1> QED
  BY <1>1, <1>2, <1>3, <1>4, <1>5 DEF VmInv

-----------------------------------------------------------------------------
\* Instructions that touch the control state only.
LEMMA ControlSteps ==
  ASSUME VmInv, UNCHANGED program, NOOP \/ EMIT_RECEIPT \/ HALT \/ BadStream
  PROVE  VmInv'
<1>1. Control /\ MaxEvents \in Nat
  BY ProgramTyped DEF VmInv
<1>2. program' = program /\ MaxEvents' = MaxEvents /\ Assembled' = Assembled
  BY DEF MaxEvents, Assembled
<1>3. CASE NOOP
  <2>1. Control' /\ UNCHANGED <<graph, field, rulings, data>>
    BY <1>3, Logged DEF NOOP
  <2> QED
    BY <2>1, Kept DEF VmInv, graph, field, rulings, data
<1>4. CASE EMIT_RECEIPT
  <2>1. /\ status = "running" /\ status' = status /\ events < MaxEvents /\ events' = events + 1
        /\ emitted' \in BOOLEAN /\ UNCHANGED <<graph, field, rulings, data>>
    BY <1>4 DEF EMIT_RECEIPT, Fetch
  <2>2. Control'
    BY <1>1, <1>2, <2>1 DEF Control
  <2> QED
    BY <2>1, <2>2, Kept DEF VmInv, graph, field, rulings, data
<1>5. CASE HALT
  <2>1. /\ status' = "completed" /\ events < MaxEvents /\ (events' = events + 1 \/ events' = events + 2)
        /\ emitted' = emitted /\ UNCHANGED <<graph, field, rulings, data>>
    BY <1>5 DEF HALT, Fetch
  <2>2. Control'
    BY <1>1, <1>2, <2>1 DEF Control
  <2> QED
    BY <2>1, <2>2, Kept DEF VmInv, graph, field, rulings, data
<1>6. CASE BadStream
  BY <1>6, Blocked DEF BadStream
<1> QED
  BY <1>3, <1>4, <1>5, <1>6

LEMMA CreateNode ==
  ASSUME VmInv, UNCHANGED program, NEW n \in Node, CREATE_NODE(n)
  PROVE  VmInv'
<1>1. CASE VMError
  BY <1>1, Blocked DEF CREATE_NODE, Fetch
<1>2. CASE ~VMError
  <2>1. nodes' = nodes \cup {n} /\ Log /\ UNCHANGED <<edges, claims, field, rulings, data>>
    BY <1>2 DEF CREATE_NODE
  <2>2. Control'
    BY <2>1, Logged DEF CREATE_NODE
  <2>3. GraphTyped'
    <3>1. nodes \subseteq nodes' /\ nodes' \subseteq Node /\ edges' = edges /\ claims' = claims /\ GraphTyped
      BY <2>1 DEF VmInv, GraphTyped
    <3>2. claims' \in [Claim -> [source : nodes', target : nodes'] \cup {None}]
      BY <3>1 DEF GraphTyped
    <3> QED
      BY <3>1, <3>2 DEF GraphTyped
  <2> QED
    BY <2>1, <2>2, <2>3, Kept DEF VmInv, field, rulings, data
<1> QED
  BY <1>1, <1>2

LEMMA CreateEdge ==
  ASSUME VmInv, UNCHANGED program, NEW m \in Node, NEW n \in Node, NEW type \in EdgeTypes, CREATE_EDGE(m, n, type)
  PROVE  VmInv'
<1>1. CASE VMError
  BY <1>1, Blocked DEF CREATE_EDGE, Fetch
<1>2. CASE ~VMError
  <2> DEFINE e == [source |-> m, target |-> n, type |-> type, weight |-> SCALE]
  <2>1. /\ {m, n} \subseteq nodes /\ edges' = Append(edges, e)
        /\ Log /\ UNCHANGED <<nodes, claims, field, rulings, data>>
    BY <1>2 DEF CREATE_EDGE
  <2>2. Control'
    BY <2>1, Logged DEF CREATE_EDGE
  <2>3. e \in Edge /\ e.source = m /\ e.target = n
    BY DEF Edge
  <2> HIDE DEF e
  <2>4. edges \in Seq(Edge)
    BY DEF VmInv, GraphTyped
  <2>5. /\ edges' \in Seq(Edge) /\ DOMAIN edges \subseteq DOMAIN edges'
        /\ \A i \in DOMAIN edges : edges'[i] = edges[i]
        /\ \A i \in DOMAIN edges' : i \in DOMAIN edges \/ edges'[i] = e
    BY <2>1, <2>3, <2>4
  <2>6. GraphTyped'
    <3>1. \A i \in DOMAIN edges' : {edges'[i].source, edges'[i].target} \subseteq nodes
      BY <2>1, <2>3, <2>5 DEF VmInv, GraphTyped
    <3> QED
      BY <2>1, <2>5, <3>1 DEF VmInv, GraphTyped
  <2>7. Rulings'
    <3>1. \A i \in EdgesOf("support") : i \in EdgesOf("support")' /\ edges'[i] = edges[i]
      BY <2>5 DEF EdgesOf
    <3>2. \A a, b, k, walk : Walk(walk, k, a, b) => Walk(walk, k, a, b)'
      <4> SUFFICES ASSUME NEW a, NEW b, NEW k, NEW walk, Walk(walk, k, a, b) PROVE Walk(walk, k, a, b)'
        OBVIOUS
      <4>1. \A j \in 1..k : \E i \in EdgesOf("support")' :
              edges'[i].source = walk[j - 1] /\ edges'[i].target = walk[j]
        BY <3>1 DEF Walk
      <4> QED
        BY <4>1 DEF Walk
    <3>3. \A a, b : Joined(a, b) => Joined(a, b)'
      BY <3>2 DEF Joined
    <3> QED
      BY <2>1, <3>3 DEF VmInv, Rulings, rulings
  <2> QED
    BY <2>1, <2>2, <2>6, <2>7, Kept DEF VmInv, field, data
<1> QED
  BY <1>1, <1>2

LEMMA CreateClaim ==
  ASSUME VmInv, UNCHANGED program, NEW c \in Claim, NEW m \in Node, NEW n \in Node, CREATE_CLAIM(c, m, n)
  PROVE  VmInv'
<1>1. CASE VMError
  BY <1>1, Blocked DEF CREATE_CLAIM, Fetch
<1>2. CASE KeyErrorRaised /\ ~({m, n} \subseteq nodes)
  <2>1. ~Assembled
    BY <1>2 DEF CREATE_CLAIM, require_node
  <2> QED
    BY <1>2, <2>1, Raised
<1>3. CASE /\ {m, n} \subseteq nodes /\ claims' = [claims EXCEPT ![c] = [source |-> m, target |-> n]]
           /\ Log /\ UNCHANGED <<nodes, edges, field, rulings, data>>
  <2>1. Control'
    BY <1>3, Logged DEF CREATE_CLAIM
  <2>2. GraphTyped'
    <3>1. [source |-> m, target |-> n] \in [source : nodes, target : nodes]
      BY <1>3
    <3>2. claims' \in [Claim -> [source : nodes, target : nodes] \cup {None}]
      BY <1>3, <3>1 DEF VmInv, GraphTyped
    <3> QED
      BY <1>3, <3>2 DEF VmInv, GraphTyped
  <2> QED
    BY <1>3, <2>1, <2>2, Kept DEF VmInv, field, rulings, data
<1> QED
  BY <1>1, <1>2, <1>3 DEF CREATE_CLAIM

\* ACTIVATE, PROPAGATE and DECAY set the activation of every node to a natural.
LEMMA FieldKept ==
  ASSUME VmInv, UNCHANGED program, NEW op, Fetch(op), Log, activation' \in [Node -> Nat],
         UNCHANGED <<graph, pressure, tension, rulings, data>>
  PROVE  VmInv'
<1>1. Control'
  BY Logged
<1>2. Field'
  BY DEF VmInv, Field
<1> QED
  BY <1>1, <1>2, Kept DEF VmInv, graph, rulings, data

LEMMA ActivationSteps ==
  ASSUME VmInv, UNCHANGED program,
         \/ \E n \in Node, s \in program.strengths : ACTIVATE(n, s)
         \/ \E n \in Node, type \in EdgeTypes, k \in program.depths : PROPAGATE(n, type, k)
         \/ \E s \in program.strengths : DECAY(s)
  PROVE  VmInv'
<1>1. /\ program.strengths \subseteq Nat /\ program.depths \subseteq Nat
      /\ activation \in [Node -> Nat] /\ GraphTyped
  BY ProgramTyped DEF VmInv, Field
<1>2. ASSUME NEW n \in Node, NEW s \in program.strengths, ACTIVATE(n, s) PROVE VmInv'
  <2>1. CASE VMError
    BY <1>2, <2>1, Blocked DEF ACTIVATE, Fetch
  <2>2. CASE ~VMError
    <3>1. /\ Fetch("ACTIVATE") /\ Log /\ activation' = [activation EXCEPT ![n] = s]
          /\ UNCHANGED <<graph, pressure, tension, rulings, data>>
      BY <1>2, <2>2 DEF ACTIVATE
    <3>2. activation' \in [Node -> Nat]
      BY <1>1, <3>1
    <3> QED
      BY <3>1, <3>2, FieldKept
  <2> QED
    BY <2>1, <2>2
<1>3. ASSUME NEW n \in Node, NEW type \in EdgeTypes, NEW k \in program.depths, PROPAGATE(n, type, k) PROVE VmInv'
  <2>1. CASE VMError
    BY <1>3, <2>1, Blocked DEF PROPAGATE, Fetch
  <2>2. CASE ~VMError
    <3>1. /\ Fetch("PROPAGATE") /\ Log /\ activation' = Propagated(n, type, k).cumulative
          /\ UNCHANGED <<graph, pressure, tension, rulings, data>>
      BY <1>3, <2>2 DEF PROPAGATE
    <3>0. k \in Nat
      BY <1>1
    <3>2. PICK w : Ticks(w, n, type, k)
      BY <1>1, <3>0, PropagatedTicks
    <3>3. w[k] \in Wavefronts /\ Propagated(n, type, k) = w[k]
      BY <3>0, <3>2 DEF Ticks
    <3>4. activation' \in [Node -> Nat]
      BY <3>1, <3>3 DEF Wavefronts
    <3> QED
      BY <3>1, <3>4, FieldKept
  <2> QED
    BY <2>1, <2>2
<1>4. ASSUME NEW s \in program.strengths, DECAY(s) PROVE VmInv'
  <2>1. CASE VMError
    BY <1>4, <2>1, Blocked DEF DECAY, Fetch
  <2>2. CASE ~VMError
    <3>1. /\ Fetch("DECAY") /\ Log /\ activation' = [n \in Node |-> (activation[n] * s) \div SCALE]
          /\ UNCHANGED <<graph, pressure, tension, rulings, data>>
      BY <1>4, <2>2 DEF DECAY
    <3>2. ASSUME NEW n \in Node PROVE (activation[n] * s) \div SCALE \in Nat
      <4>1. activation[n] * s \in Nat
        BY <1>1
      <4> QED
        BY <4>1 DEF SCALE
    <3>3. activation' \in [Node -> Nat]
      BY <3>1, <3>2
    <3> QED
      BY <3>1, <3>3, FieldKept
  <2> QED
    BY <2>1, <2>2
<1> QED
  BY <1>2, <1>3, <1>4

-----------------------------------------------------------------------------
\* What flows into a node over conflict edges.
LEMMA ConflictTyped ==
  ASSUME VmInv, NEW n \in Node
  PROVE  ConflictOn(n) \in Nat
<1>1. GraphTyped /\ activation \in [Node -> Nat]
  BY DEF VmInv, Field
<1>2. \A i \in Into(n, "conflict") : Flow(activation)[i] \in Nat
  BY <1>1, Flows, FiniteEdges
<1> QED
  BY <1>1, <1>2, FiniteEdges, SumIsSum DEF ConflictOn

\* INTERFERE and COMPUTE_TENSION.
LEMMA TensionSteps ==
  ASSUME VmInv, UNCHANGED program, NEW c \in Claim, INTERFERE(c) \/ COMPUTE_TENSION(c)
  PROVE  VmInv'
<1>1. /\ activation \in [Node -> Nat] /\ tension \in [Claim -> Nat] /\ nodes \subseteq Node
      /\ pressure \in [Claim -> [support : Nat, conflict : Nat] \cup {None}]
      /\ claims \in [Claim -> [source : nodes, target : nodes] \cup {None}]
  BY DEF VmInv, Field, GraphTyped
<1>2. CASE INTERFERE(c)
  <2> DEFINE p == [support |-> activation[claims[c].target], conflict |-> ConflictOn(claims[c].target)]
  <2>1. /\ Fetch("INTERFERE") /\ claims[c] # None /\ Log /\ UNCHANGED <<graph, activation, rulings, data>>
        /\ pressure' = [pressure EXCEPT ![c] = p]
        /\ tension' = [tension EXCEPT ![c] = Min({p.support, p.conflict})]
    BY <1>2 DEF INTERFERE, OnClaim
  <2>2. claims[c].target \in Node
    BY <1>1, <2>1
  <2>3. p \in [support : Nat, conflict : Nat] /\ p.support \in Nat /\ p.conflict \in Nat
    BY <1>1, <2>2, ConflictTyped
  <2> HIDE DEF p
  <2>4. Min({p.support, p.conflict}) \in Nat
    BY <2>3, Extremes
  <2>5. Field'
    BY <1>1, <2>1, <2>3, <2>4 DEF Field
  <2>6. Control'
    BY <2>1, Logged
  <2> QED
    BY <2>1, <2>5, <2>6, Kept DEF VmInv, graph, rulings, data
<1>3. CASE COMPUTE_TENSION(c)
  <2> DEFINE t == IF pressure[c] = None THEN 0 ELSE Min({pressure[c].support, pressure[c].conflict})
  <2>1. /\ Fetch("COMPUTE_TENSION") /\ Log /\ UNCHANGED <<graph, activation, pressure, rulings, data>>
        /\ tension' = [tension EXCEPT ![c] = t]
    BY <1>3 DEF COMPUTE_TENSION, OnClaim
  <2>2. t \in Nat
    <3>1. CASE pressure[c] # None
      <4>1. pressure[c].support \in Nat /\ pressure[c].conflict \in Nat
        BY <1>1, <3>1
      <4> QED
        BY <3>1, <4>1, Extremes
    <3> QED
      BY <3>1
  <2> HIDE DEF t
  <2>3. Field'
    BY <1>1, <2>1, <2>2 DEF Field
  <2>4. Control'
    BY <2>1, Logged
  <2> QED
    BY <2>1, <2>3, <2>4, Kept DEF VmInv, graph, rulings, data
<1> QED
  BY <1>2, <1>3

\* An instruction that only rules on claims, and the parts of Rulings it leaves.
LEMMA RulingsKept ==
  ASSUME VmInv, UNCHANGED program, NEW op, Fetch(op), Log, UNCHANGED <<graph, field, data>>, Rulings'
  PROVE  VmInv'
<1>1. Control'
  BY Logged
<1> QED
  BY <1>1, Kept DEF VmInv, graph, field, data

LEMMA SameJoined ==
  ASSUME UNCHANGED edges, NEW m, NEW n, Joined(m, n)
  PROVE  Joined(m, n)'
BY DEF Joined, Walk, EdgesOf

LEMMA VerifyStep ==
  ASSUME VmInv, UNCHANGED program, NEW c \in Claim, VERIFY(c)
  PROVE  VmInv'
<1>1. /\ Fetch("VERIFY") /\ claims[c] # None /\ Log
      /\ verdict' = [verdict EXCEPT ![c] = verify_claim(c)]
      /\ seen' = IF verify_claim(c) = "verified" THEN [seen EXCEPT ![c] = @ \cup {claims[c]}] ELSE seen
      /\ UNCHANGED <<graph, field, accepted, rejected, quarantined, acceptedAs, data>>
  BY DEF VERIFY, OnClaim
<1>2. Rulings /\ GraphTyped
  BY DEF VmInv
<1>3. claims[c] \in Endpoints
  BY <1>1, <1>2 DEF GraphTyped, Endpoints
<1>4. verify_claim(c) \in {"verified", "rejected", "abstained"}
  BY DEF verify_claim
<1>5. ASSUME verify_claim(c) = "verified" PROVE Joined(claims[c].source, claims[c].target)
  <2>1. SupportPathExists(claims[c].source, claims[c].target)
    BY <1>5 DEF verify_claim
  <2>2. claims[c].source \in Node
    BY <1>3 DEF Endpoints
  <2> QED
    BY <1>2, <2>1, <2>2, VisitedIsJoined
<1>6. Rulings'
  <2>1. \A d \in Claim : \A as \in seen'[d] : Joined(as.source, as.target)
    BY <1>1, <1>2, <1>5 DEF Rulings
  <2>2. \A d \in Claim : \A as \in seen'[d] : Joined(as.source, as.target)'
    BY <1>1, <2>1, SameJoined DEF graph
  <2>3. seen' \in [Claim -> SUBSET Endpoints] /\ \A d \in Claim : seen[d] \subseteq seen'[d]
    BY <1>1, <1>2, <1>3 DEF Rulings
  <2>4. verdict' \in [Claim -> {None, "verified", "rejected", "abstained"}]
    BY <1>1, <1>2, <1>4 DEF Rulings
  <2>5. \A d \in Claim : verdict'[d] = "verified" => seen'[d] # {}
    <3> SUFFICES ASSUME NEW d \in Claim, verdict'[d] = "verified" PROVE seen'[d] # {}
      OBVIOUS
    <3>1. CASE d = c
      <4>1. verify_claim(c) = "verified"
        BY <1>1, <1>2, <3>1 DEF Rulings
      <4>2. seen'[c] = seen[c] \cup {claims[c]}
        BY <1>1, <1>2, <4>1 DEF Rulings
      <4> QED
        BY <3>1, <4>2
    <3>2. CASE d # c
      BY <1>1, <1>2, <2>3, <3>2 DEF Rulings
    <3> QED
      BY <3>1, <3>2
  <2>6. accepted' = accepted /\ rejected' = rejected /\ quarantined' = quarantined
    BY <1>1
  <2> QED
    BY <1>2, <2>2, <2>3, <2>4, <2>5, <2>6 DEF Rulings
<1> QED
  BY <1>1, <1>6, RulingsKept

LEMMA RulingSteps ==
  ASSUME VmInv, UNCHANGED program, NEW c \in Claim, ACCEPT(c) \/ REJECT(c) \/ QUARANTINE(c)
  PROVE  VmInv'
<1>1. Rulings
  BY DEF VmInv
<1>2. ASSUME NEW op, Fetch(op), Log, UNCHANGED <<graph, field, verdict, seen, data>>,
             (accepted \cup rejected \cup quarantined)' \subseteq accepted \cup rejected \cup quarantined \cup {c},
             accepted' \subseteq accepted \/ verdict[c] = "verified", accepted' \subseteq accepted \cup {c}
      PROVE  VmInv'
  <2>1. \A d \in Claim : \A as \in seen[d] : Joined(as.source, as.target)'
    BY <1>1, <1>2, SameJoined DEF Rulings, graph
  <2>2. \A d \in accepted' : seen[d] # {}
    BY <1>1, <1>2 DEF Rulings
  <2>3. Rulings'
    BY <1>1, <1>2, <2>1, <2>2 DEF Rulings
  <2> QED
    BY <1>2, <2>3, RulingsKept
<1>3. CASE ACCEPT(c)
  <2>1. CASE VMError
    BY <1>3, <2>1, Blocked DEF ACCEPT, OnClaim, Fetch
  <2>2. CASE ~VMError
    BY <1>2, <1>3, <2>2 DEF ACCEPT, OnClaim
  <2> QED
    BY <2>1, <2>2
<1>4. CASE REJECT(c)
  BY <1>2, <1>4 DEF REJECT, OnClaim
<1>5. CASE QUARANTINE(c)
  BY <1>2, <1>5 DEF QUARANTINE, OnClaim
<1> QED
  BY <1>3, <1>4, <1>5

LEMMA UndeclaredStep ==
  ASSUME VmInv, UNCHANGED program, NEW c \in Claim, UndeclaredClaim(c)
  PROVE  VmInv'
<1>1. KeyErrorRaised /\ ~Assembled
  BY DEF UndeclaredClaim, require_claim
<1> QED
  BY <1>1, Raised

-----------------------------------------------------------------------------
\* An instruction that gives a block its next value, and changes no other block.
LEMMA BlockWritten ==
  ASSUME VmInv, UNCHANGED program, NEW op, Fetch(op), NEW d \in Block, NEW b, IsBlock(b),
         blocks' = [blocks EXCEPT ![d] = b], OnlyBlocks
  PROVE  VmInv'
<1>1. Log /\ UNCHANGED <<graph, field, rulings, dataNames, basis, hashed, acceptedData, rejectedData, checked>>
  BY DEF OnlyBlocks
<1>2. Control'
  BY <1>1, Logged
<1>3. Loaded'
  <2>1. Loaded
    BY DEF VmInv
  <2>2. DOMAIN blocks' = Block /\ \A e \in Block : blocks'[e] = IF e = d THEN b ELSE blocks[e]
    BY <2>1 DEF Loaded
  <2>3. \A e \in Block : blocks'[e] # None => IsBlock(blocks'[e])
    BY <2>1, <2>2 DEF Loaded
  <2> QED
    BY <1>1, <2>1, <2>2, <2>3 DEF Loaded
<1> QED
  BY <1>1, <1>2, <1>3, Kept DEF VmInv, graph, field, rulings

\* A block whose bytes are replaced by as many, or by all that were loaded.
LEMMA BytesReplaced ==
  ASSUME NEW b, IsBlock(b), NEW n \in {0, b.length}, NEW bytes, bytes = [j \in 1..n |-> bytes[j]]
  PROVE  IsBlock([b EXCEPT !.bytes = bytes])
<1> DEFINE c == [b EXCEPT !.bytes = bytes]
<1>1. DOMAIN c = DOMAIN b /\ c.length = b.length /\ c.bytes = bytes
  BY DEF IsBlock
<1> HIDE DEF c
<1> QED
  BY <1>1 DEF IsBlock, c

LEMMA BlockSteps ==
  ASSUME VmInv, UNCHANGED program, NEW d \in Block,
         \/ \E s \in Starts, l \in Lengths, k \in Deltas : LOAD_COEFFICIENTS(d, s, l, k)
         \/ SYNTHESIZE(d) \/ \E p \in Patches : STORE_RESIDUAL(d, p)
         \/ APPLY_RESIDUAL(d)
  PROVE  VmInv'
<1>1. blocks[d] # None => IsBlock(blocks[d])
  BY DEF VmInv, Loaded
<1>2. DOMAIN blocks = Block
  BY DEF VmInv, Loaded
<1>3. ASSUME NEW s \in Starts, NEW l \in Lengths, NEW k \in Deltas, LOAD_COEFFICIENTS(d, s, l, k) PROVE VmInv'
  <2>1. CASE VMError
    BY <1>3, <2>1, Blocked DEF LOAD_COEFFICIENTS, Fetch
  <2>2. CASE ~VMError
    <3> DEFINE b == [basis |-> basis, start |-> s, delta |-> k, length |-> l, bytes |-> <<>>, residuals |-> {}]
    <3>1. Fetch("LOAD_COEFFICIENTS") /\ blocks' = [blocks EXCEPT ![d] = b] /\ OnlyBlocks
      BY <1>3, <2>2 DEF LOAD_COEFFICIENTS
    <3>2. l \in Nat
      BY VmAssumption
    <3>3. b.bytes = [j \in 1..0 |-> b.bytes[j]]
      OBVIOUS
    <3>4. IsBlock(b)
      BY <3>2, <3>3 DEF IsBlock
    <3> HIDE DEF b
    <3> QED
      BY <3>1, <3>4, BlockWritten
  <2> QED
    BY <2>1, <2>2
<1>4. CASE SYNTHESIZE(d)
  <2>1. CASE VMError
    BY <1>4, <2>1, Blocked DEF SYNTHESIZE, OnBlock, Fetch
  <2>2. CASE ~VMError
    <3> DEFINE old == blocks[d]
               bytes == synthesize_basis(old.basis, old.start, old.length, old.delta)
               b == [old EXCEPT !.bytes = bytes]
    <3>1. /\ Fetch("SYNTHESIZE") /\ old # None /\ OnlyBlocks
          /\ blocks' = [blocks EXCEPT ![d] = b]
      BY <1>2, <1>4, <2>2 DEF SYNTHESIZE, OnBlock
    <3>2. IsBlock(old) /\ old.length \in Nat /\ old.length \in {0, old.length}
      BY <1>1, <3>1 DEF IsBlock
    <3> HIDE DEF old
    <3>3. bytes = [j \in 1..old.length |-> bytes[j]]
      BY <3>2, SynthesizedLength
    <3> HIDE DEF bytes
    <3>4. IsBlock(b)
      BY <3>2, <3>3, BytesReplaced
    <3> HIDE DEF b
    <3> QED
      BY <3>1, <3>4, BlockWritten
  <2> QED
    BY <2>1, <2>2
<1>5. ASSUME NEW p \in Patches, STORE_RESIDUAL(d, p) PROVE VmInv'
  <2>1. CASE VMError
    BY <1>5, <2>1, Blocked DEF STORE_RESIDUAL, OnBlock, Fetch
  <2>2. CASE ~VMError
    <3> DEFINE old == blocks[d]
               b == [old EXCEPT !.residuals = @ \cup {p}]
    <3>1. /\ Fetch("STORE_RESIDUAL") /\ old # None /\ OnlyBlocks
          /\ blocks' = [blocks EXCEPT ![d] = b]
      BY <1>2, <1>5, <2>2 DEF STORE_RESIDUAL, OnBlock
    <3>2. IsBlock(old)
      BY <1>1, <3>1
    <3> HIDE DEF old
    <3>3. DOMAIN b = DOMAIN old /\ b.length = old.length /\ b.bytes = old.bytes
      BY <3>2 DEF IsBlock
    <3> HIDE DEF b
    <3>4. IsBlock(b)
      BY <3>2, <3>3 DEF IsBlock
    <3> QED
      BY <3>1, <3>4, BlockWritten
  <2> QED
    BY <2>1, <2>2
<1>6. CASE APPLY_RESIDUAL(d)
  <2>1. CASE VMError
    BY <1>6, <2>1, Blocked DEF APPLY_RESIDUAL, OnBlock, Fetch
  <2>2. CASE ~VMError
    <3> DEFINE old == blocks[d]
               bytes == Patched(old.bytes, old.residuals)
               b == [old EXCEPT !.bytes = bytes]
    <3>1. /\ Fetch("APPLY_RESIDUAL") /\ old # None /\ OnlyBlocks
          /\ blocks' = [blocks EXCEPT ![d] = b]
      BY <1>2, <1>6, <2>2 DEF APPLY_RESIDUAL, OnBlock
    <3>2. IsBlock(old)
      BY <1>1, <3>1
    <3> HIDE DEF old
    <3>3. PICK n \in {0, old.length} : n \in Nat /\ old.bytes = [j \in 1..n |-> old.bytes[j]]
      BY <3>2 DEF IsBlock
    <3>4. bytes = [j \in 1..n |-> bytes[j]]
      BY <3>3, PatchedLength
    <3> HIDE DEF bytes
    <3>5. IsBlock(b)
      BY <3>2, <3>3, <3>4, BytesReplaced
    <3> HIDE DEF b
    <3> QED
      BY <3>1, <3>5, BlockWritten
  <2> QED
    BY <2>1, <2>2
<1> QED
  BY <1>3, <1>4, <1>5, <1>6

\* The opcodes that name a basis, name or miss a block, or rule on one.
LEMMA DataSteps ==
  ASSUME VmInv, UNCHANGED program,
         \/ \E b \in DataBases : DECLARE_BASIS(b)
         \/ \E d \in Block : \/ DATA_BLOCK(d) \/ NotLoaded(d) \/ ACCEPT_DATA(d) \/ REJECT_DATA(d)
                             \/ \E h \in Hashes : VERIFY_HASH(d, h)
  PROVE  VmInv'
<1>1. Loaded
  BY DEF VmInv
<1>2. ASSUME NEW op, Fetch(op), Log, UNCHANGED <<graph, field, rulings>>, Loaded' PROVE VmInv'
  <2>1. Control'
    BY <1>2, Logged
  <2> QED
    BY <1>2, <2>1, Kept DEF VmInv, graph, field, rulings
<1>3. ASSUME NEW b \in DataBases, DECLARE_BASIS(b) PROVE VmInv'
  <2>1. CASE VMError
    BY <1>3, <2>1, Blocked DEF DECLARE_BASIS, Fetch
  <2>2. CASE ~VMError
    <3>1. /\ Fetch("DECLARE_BASIS") /\ Log
          /\ UNCHANGED <<graph, field, rulings, blocks, hashed, acceptedData, rejectedData, checked>>
      BY <1>3, <2>2 DEF DECLARE_BASIS
    <3>2. Loaded'
      BY <3>1, Kept
    <3> QED
      BY <1>2, <3>1, <3>2
  <2> QED
    BY <2>1, <2>2
<1>4. ASSUME NEW d \in Block, DATA_BLOCK(d) PROVE VmInv'
  <2>1. UNCHANGED <<control, graph, field, rulings, blocks, hashed, acceptedData, rejectedData, checked>>
    BY <1>4 DEF DATA_BLOCK
  <2>2. Control'
    BY <2>1 DEF VmInv, Control, control, MaxEvents, Assembled
  <2> QED
    BY <2>1, <2>2, Kept DEF VmInv, graph, field, rulings
<1>5. ASSUME NEW d \in Block, NotLoaded(d) PROVE VmInv'
  BY <1>5, Blocked DEF NotLoaded, Fetch
<1>6. ASSUME NEW d \in Block, ACCEPT_DATA(d) PROVE VmInv'
  <2>1. CASE VMError
    BY <1>6, <2>1, Blocked DEF ACCEPT_DATA, OnBlock, Fetch
  <2>2. CASE ~VMError
    <3>1. /\ Fetch("ACCEPT_DATA") /\ Log /\ hashed[d] = "verified" /\ acceptedData' = acceptedData \cup {d}
          /\ UNCHANGED <<graph, field, rulings, blocks, hashed, rejectedData, checked>>
      BY <1>6, <2>2 DEF ACCEPT_DATA, OnBlock
    <3>2. Loaded'
      BY <1>1, <3>1 DEF Loaded
    <3> QED
      BY <1>2, <3>1, <3>2
  <2> QED
    BY <2>1, <2>2
<1>7. ASSUME NEW d \in Block, REJECT_DATA(d) PROVE VmInv'
  <2>1. CASE VMError
    BY <1>7, <2>1, Blocked DEF REJECT_DATA, OnBlock, Fetch
  <2>2. CASE ~VMError
    <3>1. /\ Fetch("REJECT_DATA") /\ Log /\ rejectedData' = rejectedData \cup {d}
          /\ UNCHANGED <<graph, field, rulings, blocks, hashed, acceptedData, checked>>
      BY <1>7, <2>2 DEF REJECT_DATA, OnBlock
    <3>2. Loaded'
      BY <1>1, <3>1 DEF Loaded
    <3> QED
      BY <1>2, <3>1, <3>2
  <2> QED
    BY <2>1, <2>2
<1>8. ASSUME NEW d \in Block, NEW h \in Hashes, VERIFY_HASH(d, h) PROVE VmInv'
  <2>1. /\ Fetch("VERIFY_HASH") /\ Log
        /\ hashed' = [hashed EXCEPT ![d] = IF blocks[d].bytes = h THEN "verified" ELSE "rejected"]
        /\ checked' = IF blocks[d].bytes = h THEN [checked EXCEPT ![d] = @ \cup {h}] ELSE checked
        /\ UNCHANGED <<graph, field, rulings, blocks, acceptedData, rejectedData>>
    BY <1>8 DEF VERIFY_HASH, OnBlock
  <2>2. /\ hashed' \in [Block -> {None, "verified", "rejected"}] /\ checked' \in [Block -> SUBSET Hashes]
        /\ \A e \in Block : checked[e] \subseteq checked'[e]
    BY <1>1, <2>1 DEF Loaded
  <2>3. \A e \in Block : hashed'[e] = "verified" => checked'[e] # {}
    <3> SUFFICES ASSUME NEW e \in Block, hashed'[e] = "verified" PROVE checked'[e] # {}
      OBVIOUS
    <3>1. CASE e = d
      <4>1. blocks[d].bytes = h
        BY <1>1, <2>1, <3>1 DEF Loaded
      <4>2. checked'[d] = checked[d] \cup {h}
        BY <1>1, <2>1, <4>1 DEF Loaded
      <4> QED
        BY <3>1, <4>2
    <3>2. CASE e # d
      BY <1>1, <2>1, <2>2, <3>2 DEF Loaded
    <3> QED
      BY <3>1, <3>2
  <2>4. Loaded'
    BY <1>1, <2>1, <2>2, <2>3 DEF Loaded
  <2> QED
    BY <1>2, <2>1, <2>4
<1> QED
  BY <1>3, <1>4, <1>5, <1>6, <1>7, <1>8

LEMMA VmStep == VmInv /\ [Next]_vars => VmInv'
<1> SUFFICES ASSUME VmInv, [Next]_vars PROVE VmInv'
  OBVIOUS
<1>1. CASE UNCHANGED vars
  <2>1. UNCHANGED <<program, control, graph, field, rulings, data>>
    BY <1>1 DEF vars
  <2>2. Control'
    BY <2>1 DEF VmInv, Control, control, MaxEvents, Assembled
  <2> QED
    BY <2>1, <2>2, Kept DEF VmInv, graph, field, rulings, data
<1>2. CASE Next
  <2>1. Step /\ UNCHANGED program
    BY <1>2 DEF Next
  <2>2. CASE NOOP \/ EMIT_RECEIPT \/ HALT \/ BadStream
    BY <2>1, <2>2, ControlSteps
  <2>3. CASE \E n \in Node : CREATE_NODE(n)
    BY <2>1, <2>3, CreateNode
  <2>4. CASE \E m, n \in Node, type \in EdgeTypes : CREATE_EDGE(m, n, type)
    BY <2>1, <2>4, CreateEdge
  <2>5. CASE \E c \in Claim, m, n \in Node : CREATE_CLAIM(c, m, n)
    BY <2>1, <2>5, CreateClaim
  <2>6. CASE \/ \E n \in Node, s \in program.strengths : ACTIVATE(n, s)
             \/ \E n \in Node, type \in EdgeTypes, k \in program.depths : PROPAGATE(n, type, k)
             \/ \E s \in program.strengths : DECAY(s)
    BY <2>1, <2>6, ActivationSteps
  <2>7. CASE \E c \in Claim : \/ UndeclaredClaim(c) \/ INTERFERE(c) \/ COMPUTE_TENSION(c)
                              \/ VERIFY(c) \/ ACCEPT(c) \/ REJECT(c) \/ QUARANTINE(c)
    BY <2>1, <2>7, UndeclaredStep, TensionSteps, VerifyStep, RulingSteps
  <2>8. CASE \E d \in Block :
               \/ \E s \in Starts, l \in Lengths, k \in Deltas : LOAD_COEFFICIENTS(d, s, l, k)
               \/ SYNTHESIZE(d) \/ \E p \in Patches : STORE_RESIDUAL(d, p)
               \/ APPLY_RESIDUAL(d)
    BY <2>1, <2>8, BlockSteps
  <2>9. CASE \/ \E b \in DataBases : DECLARE_BASIS(b)
             \/ \E d \in Block : \/ DATA_BLOCK(d) \/ NotLoaded(d) \/ ACCEPT_DATA(d) \/ REJECT_DATA(d)
                                 \/ \E h \in Hashes : VERIFY_HASH(d, h)
    BY <2>1, <2>9, DataSteps
  <2> QED
    BY <2>1, <2>2, <2>3, <2>4, <2>5, <2>6, <2>7, <2>8, <2>9, Zenon DEF Step
<1> QED
  BY <1>1, <1>2

LEMMA VmAlways == Spec => []VmInv
BY VmInitially, VmStep, PTL DEF Spec

LEMMA InvariantEarned == VmInv => AcceptanceEarned
<1> SUFFICES ASSUME VmInv PROVE AcceptanceEarned
  OBVIOUS
<1>1. TypeOK
  <2>1. MaxEvents \in Nat /\ Control
    BY ProgramTyped DEF VmInv
  <2>2. events \in 0..(MaxEvents + 2)
    BY <2>1 DEF Control
  <2>3. \A c \in Claim : claims[c] # None => {claims[c].source, claims[c].target} \subseteq nodes
    BY DEF VmInv, GraphTyped
  <2>4. ASSUME NEW d \in Block, blocks[d] # None PROVE Len(blocks[d].bytes) \in {0, blocks[d].length}
    <3>1. IsBlock(blocks[d])
      BY <2>4 DEF VmInv, Loaded
    <3>2. PICK n \in {0, blocks[d].length} : n \in Nat /\ blocks[d].bytes = [j \in 1..n |-> blocks[d].bytes[j]]
      BY <3>1 DEF IsBlock
    <3>3. Len(blocks[d].bytes) = n
      BY <3>2, LengthOf
    <3> QED
      BY <3>2, <3>3
  <2> QED
    BY <2>1, <2>2, <2>3, <2>4 DEF TypeOK, VmInv, Control, GraphTyped, Field, Rulings, Loaded
<1>2. AcceptedWasSupported
  <2> SUFFICES ASSUME NEW c \in accepted, NEW as \in seen[c]
               PROVE  \E k \in 0..Cardinality(Node) : \E walk \in [0..k -> Node] :
                        /\ walk[0] = as.source /\ walk[k] = as.target
                        /\ \A j \in 1..k : \E i \in EdgesOf("support") :
                             edges[i].source = walk[j - 1] /\ edges[i].target = walk[j]
    BY DEF AcceptedWasSupported, VmInv, Rulings
  <2>1. Joined(as.source, as.target)
    BY DEF VmInv, Rulings
  <2>0. PICK k \in 0..Cardinality(Node) : \E walk : Walk(walk, k, as.source, as.target)
    BY <2>1 DEF Joined
  <2>2. PICK walk : Walk(walk, k, as.source, as.target)
    BY <2>0
  <2> QED
    BY <2>2 DEF Walk
<1>3. AcceptedDataWasVerified
  BY DEF AcceptedDataWasVerified, VmInv, Loaded
<1>4. AssembledNeverRaises
  BY DEF AssembledNeverRaises, VmInv, Control
<1> QED
  BY <1>1, <1>2, <1>3, <1>4 DEF AcceptanceEarned

\* Whatever the program, and whoever wrote it: a claim is accepted only if VERIFY found it
\* joined by support edges, a block only if VERIFY_HASH found its bytes right, and no
\* assembled program ends in an exception other than a VMError (run_program, ACCEPT,
\* ACCEPT_DATA).
THEOREM AcceptanceIsEarned == Spec => []AcceptanceEarned
BY VmAlways, InvariantEarned, PTL

\* An instruction adds to the ledger, raises, or leaves the machine as it was.
LEMMA StepLogged ==
  ASSUME VmInv, Step
  PROVE  machine' # machine /\ status' # "raised" => events' > events
<1>1. events \in Nat
  BY DEF VmInv, Control
<1>2. Log \/ VMError => events' > events
  BY <1>1 DEF Log, VMError
<1>3. KeyErrorRaised => status' = "raised"
  BY DEF KeyErrorRaised
<1>4. NOOP \/ BadStream => Log \/ VMError
  BY DEF NOOP, BadStream
<1>5. EMIT_RECEIPT \/ HALT => events' > events
  BY <1>1 DEF EMIT_RECEIPT, HALT
<1>6. \A n \in Node : CREATE_NODE(n) => Log \/ VMError
  BY DEF CREATE_NODE
<1>7. \A m, n \in Node, type \in EdgeTypes : CREATE_EDGE(m, n, type) => Log \/ VMError
  BY DEF CREATE_EDGE
<1>8. \A c \in Claim, m, n \in Node : CREATE_CLAIM(c, m, n) => Log \/ VMError \/ KeyErrorRaised
  BY DEF CREATE_CLAIM
<1>9. \A n \in Node, s \in program.strengths : ACTIVATE(n, s) => Log \/ VMError
  BY DEF ACTIVATE
<1>10. \A n \in Node, type \in EdgeTypes, k \in program.depths : PROPAGATE(n, type, k) => Log \/ VMError
  BY DEF PROPAGATE
<1>11. \A s \in program.strengths : DECAY(s) => Log \/ VMError
  BY DEF DECAY
<1>12. \A c \in Claim : /\ UndeclaredClaim(c) => KeyErrorRaised
                        /\ INTERFERE(c) \/ COMPUTE_TENSION(c) \/ VERIFY(c) \/ REJECT(c) \/ QUARANTINE(c) => Log
                        /\ ACCEPT(c) => Log \/ VMError
  BY DEF UndeclaredClaim, INTERFERE, COMPUTE_TENSION, VERIFY, ACCEPT, REJECT, QUARANTINE
<1>13. \A b \in DataBases : DECLARE_BASIS(b) => Log \/ VMError
  BY DEF DECLARE_BASIS
<1>14. \A d \in Block : /\ DATA_BLOCK(d) => machine' = machine
                        /\ NotLoaded(d) => VMError
                        /\ SYNTHESIZE(d) \/ APPLY_RESIDUAL(d) \/ ACCEPT_DATA(d) \/ REJECT_DATA(d) => Log \/ VMError
  <2>1. \A d \in Block : DATA_BLOCK(d) => machine' = machine
    BY DEF DATA_BLOCK, machine, control, graph, field, rulings
  <2> QED
    BY <2>1 DEF NotLoaded, SYNTHESIZE, APPLY_RESIDUAL, ACCEPT_DATA, REJECT_DATA, OnlyBlocks
<1>15. \A d \in Block : /\ \A s \in Starts, l \in Lengths, k \in Deltas : LOAD_COEFFICIENTS(d, s, l, k) => Log \/ VMError
                        /\ \A p \in Patches : STORE_RESIDUAL(d, p) => Log \/ VMError
                        /\ \A h \in Hashes : VERIFY_HASH(d, h) => Log
  BY DEF LOAD_COEFFICIENTS, STORE_RESIDUAL, VERIFY_HASH, OnlyBlocks
<1> QED
  BY <1>2, <1>3, <1>4, <1>5, <1>6, <1>7, <1>8, <1>9, <1>10, <1>11, <1>12, <1>13, <1>14, <1>15, Zenon DEF Step

\* LAW_005 for every program: no state of the machine changes without an event in the
\* receipt ledger, unless an exception ends the run without a receipt (vm.py, _log).
THEOREM TransitionsAlwaysLogged == Spec => EveryTransitionLogged
<1>1. VmInv /\ [Next]_vars => [machine' # machine /\ status' # "raised" => events' > events]_vars
  <2> SUFFICES ASSUME VmInv, Next PROVE machine' # machine /\ status' # "raised" => events' > events
    OBVIOUS
  <2>1. Step
    BY DEF Next
  <2> QED
    BY <2>1, StepLogged
<1> QED
  BY <1>1, VmAlways, PTL DEF Spec, EveryTransitionLogged

(***************************************************************************)
(* Propagation counts walks                                                *)
(***************************************************************************)
\* The members of P that last sends to x.
Fibre(P, last, x) == {w \in P : last[w] = x}

\* f gives each x of S a times as much as there are members of P in its fibre.
Weighs(f, a, S, P, last) ==
  /\ last \in [P -> S]
  /\ \A x \in S : /\ IsFiniteSet(Fibre(P, last, x))
                  /\ f[x] = a * Cardinality(Fibre(P, last, x))

\* A sum of a times how many members of P end at each x of S is a times the size of P.
LEMMA CountedSum ==
  ASSUME NEW S, IsFiniteSet(S), NEW f, NEW a \in Nat, NEW P, NEW last, Weighs(f, a, S, P, last)
  PROVE  IsFiniteSet(P) /\ SumFunctionOnSet(f, S) = a * Cardinality(P)
<1> DEFINE g == [x \in S |-> Cardinality(Fibre(P, last, x))]
<1>w. last \in [P -> S] /\ \A x \in S : IsFiniteSet(Fibre(P, last, x)) /\ Cardinality(Fibre(P, last, x)) = g[x]
  BY DEF Weighs
<1>g. \A x \in S : g[x] \in Nat /\ f[x] = a * g[x]
  BY <1>w, FS_CardinalityType DEF Weighs
<1> HIDE DEF g
<1> DEFINE At1(x) == Fibre(P, last, x)
           Within(T) == {w \in P : last[w] \in T}
           count == [T \in SUBSET S |-> a * Cardinality(Within(T))]
<1>1. ASSUME NEW T \in SUBSET S PROVE IsFiniteSet(Within(T))
  <2> DEFINE piece == [x \in T |-> At1(x)]
             pieces == {At1(x) : x \in T}
  <2>1. piece \in Surjection(T, pieces)
    BY DEF Surjection
  <2>2. IsFiniteSet(T)
    BY FS_Subset
  <2>3. IsFiniteSet(pieces)
    <3> HIDE DEF piece, pieces
    <3> QED
      BY <2>1, <2>2, FS_Surjection
  <2>4. \A Q \in pieces : IsFiniteSet(Q)
    BY <1>w
  <2>5. IsFiniteSet(UNION pieces)
    <3> HIDE DEF pieces
    <3> QED
      BY <2>3, <2>4, FS_UNION
  <2>6. UNION pieces = Within(T)
    BY <1>w DEF Fibre
  <2> QED
    BY <2>5, <2>6, Zenon
<1>2. \A T \in SUBSET S : Cardinality(Within(T)) \in Nat
  <2> HIDE DEF Within
  <2> QED
    BY <1>1, FS_CardinalityType
<1>3. ASSUME NEW T \in SUBSET S, T # {} PROVE count[T] = f[Pick(T)] + count[T \ {Pick(T)}]
  <2>1. Pick(T) \in T
    BY <1>3 DEF Pick
  <2> DEFINE x == Pick(T)
             R == T \ {x}
  <2>2. Within(T) = Within(R) \cup At1(x) /\ Within(R) \cap At1(x) = {}
    BY <1>w, <2>1 DEF Fibre
  <2>3. IsFiniteSet(Within(R)) /\ IsFiniteSet(At1(x)) /\ Cardinality(At1(x)) = g[x]
    BY <1>1, <1>w, <2>1
  <2>4. Cardinality(Within(T)) = Cardinality(Within(R)) + g[x]
    <3>1. /\ Cardinality(Within(R)) \in Nat /\ Cardinality(At1(x)) \in Nat /\ Cardinality({}) = 0
          /\ Cardinality(Within(R) \cup At1(x))
               = Cardinality(Within(R)) + Cardinality(At1(x)) - Cardinality(Within(R) \cap At1(x))
      <4> HIDE DEF Within, At1
      <4> QED
        BY <2>3, FS_Union, FS_CardinalityType, FS_EmptySet
    <3> HIDE DEF Within, At1
    <3>2. /\ Cardinality(Within(R) \cup At1(x)) = Cardinality(Within(T))
          /\ Cardinality(Within(R) \cap At1(x)) = Cardinality({})
      BY <2>2, Zenon
    <3> QED
      BY <2>3, <3>1, <3>2
  <2>5. count[T] = a * Cardinality(Within(T)) /\ count[R] = a * Cardinality(Within(R))
    OBVIOUS
  <2>6. g[x] \in Nat /\ f[x] = a * g[x] /\ Cardinality(Within(R)) \in Nat
    BY <1>2, <1>g, <2>1
  <2> HIDE DEF count, Within, x, R
  <2>7. a * (Cardinality(Within(R)) + g[x]) = a * g[x] + a * Cardinality(Within(R))
    BY <2>6
  <2>8. count[T] = f[x] + count[R]
    BY <2>4, <2>5, <2>6, <2>7
  <2> QED
    BY <2>8 DEF x, R
<1>4. count[{}] = 0
  <2>1. Within({}) = {} /\ Cardinality({}) = 0
    BY FS_EmptySet
  <2>2. count[{}] = a * Cardinality(Within({}))
    OBVIOUS
  <2> HIDE DEF Within, count
  <2>3. Cardinality(Within({})) = 0
    BY <2>1, Zenon
  <2> QED
    BY <2>2, <2>3
<1>5. count[S] = a * Cardinality(P) /\ IsFiniteSet(P)
  <2>1. Within(S) = P
    BY <1>w
  <2>2. count[S] = a * Cardinality(Within(S))
    OBVIOUS
  <2>3. IsFiniteSet(Within(S))
    BY <1>1
  <2> HIDE DEF Within, count
  <2> QED
    BY <2>1, <2>2, <2>3
<1> HIDE DEF count, Within
<1>6. Sums(count, f, S)
  BY <1>3, <1>4 DEF Sums
<1>7. \A x \in S : f[x] \in Nat
  BY <1>g
<1>8. SumFunctionOnSet(f, S) = count[S]
  BY <1>6, <1>7, SumIsSum
<1> QED
  BY <1>5, <1>8

\* The walks of t edges of a type from n to end.
Walks(n, type, t, end) ==
  {w \in [1..t -> EdgesOf(type)] :
     /\ t > 0 => edges[w[1]].source = n /\ edges[w[t]].target = end
     /\ \A j \in 1..(t - 1) : edges[w[j]].target = edges[w[j + 1]].source}

Through(n, type, t, end, i) == {w \in Walks(n, type, t, end) : w[t] = i}

\* A walk of one edge is an edge from n to end.
LEMMA FirstWalks ==
  ASSUME GraphTyped, NEW n, NEW type, NEW end, NEW i \in Into(end, type)
  PROVE  /\ IsFiniteSet(Through(n, type, 1, end, i))
         /\ Cardinality(Through(n, type, 1, end, i)) = IF edges[i].source = n THEN 1 ELSE 0
<1> DEFINE Q == {w \in Walks(n, type, 1, end) : w[1] = i}
           only == [j \in 1..1 |-> i]
<1>1. i \in EdgesOf(type) /\ edges[i].target = end
  BY DEF Into
<1> SUFFICES IsFiniteSet(Q) /\ Cardinality(Q) = IF edges[i].source = n THEN 1 ELSE 0
  BY DEF Through
<1>2. CASE edges[i].source = n
  <2>1. only \in Walks(n, type, 1, end)
    BY <1>1, <1>2 DEF Walks
  <2>2. \A w \in Q : w = only
    BY DEF Walks
  <2>3. Q = {only}
    BY <2>1, <2>2
  <2> HIDE DEF Q, only
  <2>4. IsFiniteSet(Q) /\ Cardinality(Q) = 1
    BY <2>3, FS_Singleton
  <2> QED
    BY <1>2, <2>4
<1>3. CASE edges[i].source # n
  <2>1. Q = {}
    BY <1>3 DEF Walks
  <2> HIDE DEF Q
  <2>2. IsFiniteSet(Q) /\ Cardinality(Q) = 0
    BY <2>1, FS_EmptySet
  <2> QED
    BY <1>3, <2>2
<1> QED
  BY <1>2, <1>3

\* A walk of t + 1 edges that ends with edge i is one of t edges to the source of i.
LEMMA LongerWalks ==
  ASSUME GraphTyped, NEW n, NEW type, NEW end, NEW i \in Into(end, type), NEW t \in Nat \ {0},
         IsFiniteSet(Walks(n, type, t, edges[i].source))
  PROVE  /\ IsFiniteSet(Through(n, type, t + 1, end, i))
         /\ Cardinality(Through(n, type, t + 1, end, i)) = Cardinality(Walks(n, type, t, edges[i].source))
<1> DEFINE Q == {w \in Walks(n, type, t + 1, end) : w[t + 1] = i}
           V == Walks(n, type, t, edges[i].source)
           Longer(v) == [j \in 1..(t + 1) |-> IF j = t + 1 THEN i ELSE v[j]]
           Shorter(w) == [j \in 1..t |-> w[j]]
           map == [v \in V |-> Longer(v)]
<1>1. i \in EdgesOf(type) /\ edges[i].target = end
  BY DEF Into
<1>n. t \in 1..t /\ 1 \in 1..t /\ t + 1 \in 1..(t + 1) /\ 1 \in 1..(t + 1) /\ t + 1 > 0 /\ t > 0 /\ 1 # t + 1
  OBVIOUS
<1>2. ASSUME NEW v \in V PROVE Longer(v) \in Q /\ \A j \in 1..t : Longer(v)[j] = v[j]
  <2>1. /\ v \in [1..t -> EdgesOf(type)] /\ edges[v[1]].source = n /\ edges[v[t]].target = edges[i].source
        /\ \A j \in 1..(t - 1) : edges[v[j]].target = edges[v[j + 1]].source
    BY <1>n DEF Walks
  <2>2. Longer(v)[t + 1] = i /\ \A j \in 1..t : Longer(v)[j] = v[j]
    OBVIOUS
  <2>3. Longer(v) \in [1..(t + 1) -> EdgesOf(type)]
    BY <1>1, <2>1
  <2> HIDE DEF Longer
  <2>4. edges[Longer(v)[1]].source = n /\ edges[Longer(v)[t + 1]].target = end
    BY <1>1, <1>n, <2>1, <2>2
  <2>5. ASSUME NEW j \in 1..t PROVE edges[Longer(v)[j]].target = edges[Longer(v)[j + 1]].source
    <3>1. CASE j = t
      BY <2>1, <2>2, <3>1
    <3>2. CASE j # t
      <4>1. j \in 1..(t - 1) /\ j + 1 \in 1..t
        BY <3>2
      <4> QED
        BY <2>1, <2>2, <4>1
    <3> QED
      BY <3>1, <3>2
  <2>6. (t + 1) - 1 = t
    OBVIOUS
  <2>7. Longer(v) \in Walks(n, type, t + 1, end)
    BY <2>3, <2>4, <2>5, <2>6 DEF Walks
  <2> QED
    BY <2>2, <2>7
<1>3. ASSUME NEW w \in Q PROVE \E v \in V : Longer(v) = w
  <2>1. /\ w \in [1..(t + 1) -> EdgesOf(type)] /\ edges[w[1]].source = n /\ edges[w[t + 1]].target = end
        /\ \A j \in 1..t : edges[w[j]].target = edges[w[j + 1]].source
        /\ w[t + 1] = i
    BY <1>n DEF Walks
  <2>2. Shorter(w) \in [1..t -> EdgesOf(type)] /\ \A j \in 1..t : Shorter(w)[j] = w[j]
    BY <2>1
  <2> HIDE DEF Shorter
  <2>3. edges[Shorter(w)[1]].source = n /\ edges[Shorter(w)[t]].target = edges[i].source
    BY <1>n, <2>1, <2>2
  <2>4. \A j \in 1..(t - 1) : edges[Shorter(w)[j]].target = edges[Shorter(w)[j + 1]].source
    <3> SUFFICES ASSUME NEW j \in 1..(t - 1)
                 PROVE  edges[Shorter(w)[j]].target = edges[Shorter(w)[j + 1]].source
      OBVIOUS
    <3>1. j \in 1..t /\ j + 1 \in 1..t
      OBVIOUS
    <3> QED
      BY <2>1, <2>2, <3>1
  <2>5. Shorter(w) \in V
    BY <2>2, <2>3, <2>4 DEF Walks
  <2>6. Longer(Shorter(w)) = w
    <3>1. ASSUME NEW j \in 1..(t + 1) PROVE Longer(Shorter(w))[j] = w[j]
      BY <2>1, <2>2
    <3> QED
      BY <2>1, <3>1
  <2> QED
    BY <2>5, <2>6
<1>4. \A v \in V : v \in [1..t -> EdgesOf(type)]
  BY DEF Walks
<1>5. ASSUME NEW v \in V, NEW u \in V, Longer(v) = Longer(u) PROVE v = u
  <2>1. \A j \in 1..t : v[j] = u[j]
    <3> HIDE DEF Longer, V
    <3> QED
      BY <1>2, <1>5
  <2> QED
    BY <1>4, <2>1
<1> HIDE DEF V, Q, Longer
<1>6. map \in Bijection(V, Q)
  BY <1>2, <1>3, <1>5 DEF Bijection, Injection, Surjection, IsInjective
<1>7. ExistsBijection(V, Q)
  BY <1>6 DEF ExistsBijection
<1>8. IsFiniteSet(V)
  BY DEF V
<1>9. IsFiniteSet(Q) /\ Cardinality(Q) = Cardinality(V)
  BY <1>7, <1>8, FS_Bijection
<1> QED
  BY <1>9 DEF Q, V, Through

\* g counts the walks that reach end through each edge, and their sources hold a times that.
Counting(n, type, t, end, a, frontier, g) ==
  \A i \in Into(end, type) :
    /\ g[i] \in Nat /\ frontier[edges[i].source] = a * g[i]
    /\ IsFiniteSet(Through(n, type, t, end, i)) /\ Cardinality(Through(n, type, t, end, i)) = g[i]

\* What one tick brings to end, when the nodes hold a times g of the walks that led there.
LEMMA TickCounts ==
  ASSUME GraphTyped, NEW n, NEW type, NEW end \in Node, NEW t \in Nat \ {0}, NEW a \in Nat,
         NEW frontier \in [Node -> Nat], NEW g,
         Counting(n, type, t, end, a, frontier, g)
  PROVE  /\ IsFiniteSet(Walks(n, type, t, end))
         /\ TickWave(frontier, type)[end] = a * Cardinality(Walks(n, type, t, end))
<1> DEFINE S == Into(end, type)
           P == Walks(n, type, t, end)
           last == [w \in P |-> w[t]]
           f == Flow(frontier)
<1>1. IsFiniteSet(S) /\ \A i \in S : f[i] = frontier[edges[i].source]
  BY Flows, FiniteEdges
<1>2. \A i \in S : g[i] \in Nat /\ f[i] = a * g[i]
  BY <1>1 DEF Counting
<1>3. last \in [P -> S]
  <2> SUFFICES ASSUME NEW w \in P PROVE w[t] \in S
    OBVIOUS
  <2>1. w \in [1..t -> EdgesOf(type)] /\ edges[w[t]].target = end /\ t \in 1..t
    BY DEF Walks
  <2> QED
    BY <2>1 DEF Into
<1>4. ASSUME NEW i \in S
      PROVE  IsFiniteSet(Fibre(P, last, i)) /\ Cardinality(Fibre(P, last, i)) = g[i]
  <2>1. Fibre(P, last, i) = Through(n, type, t, end, i)
    BY DEF Fibre, Through
  <2>2. IsFiniteSet(Through(n, type, t, end, i)) /\ Cardinality(Through(n, type, t, end, i)) = g[i]
    BY DEF Counting
  <2> QED
    BY <2>1, <2>2, Zenon
<1>5. TickWave(frontier, type)[end] = SumFunctionOnSet(f, S)
  BY DEF TickWave
<1> HIDE DEF S, P, last, f
<1>6. IsFiniteSet(P) /\ SumFunctionOnSet(f, S) = a * Cardinality(P)
  <2>1. Weighs(f, a, S, P, last)
    BY <1>2, <1>3, <1>4 DEF Weighs
  <2> QED
    BY <1>1, <2>1, CountedSum
<1> QED
  BY <1>5, <1>6 DEF P

\* After t ticks a node holds the strength times the number of walks of t edges to it.
LEMMA FrontierCounts ==
  ASSUME GraphTyped, activation \in [Node -> Nat], NEW n \in Node, NEW type, NEW depth \in Nat,
         NEW w \in [0..depth -> Wavefronts], w[0] = Started(n),
         \A t \in 1..depth : w[t] = Ticked(w[t - 1], type)
  PROVE  \A t \in 1..depth : \A end \in Node :
           /\ IsFiniteSet(Walks(n, type, t, end))
           /\ w[t].frontier[end] = activation[n] * Cardinality(Walks(n, type, t, end))
<1> DEFINE a == activation[n]
           Counted(t) == \A end \in Node :
                           /\ IsFiniteSet(Walks(n, type, t, end))
                           /\ w[t].frontier[end] = a * Cardinality(Walks(n, type, t, end))
           T == {t \in Nat : t + 1 <= depth => Counted(t + 1)}
<1>1. a \in Nat
  OBVIOUS
<1>2. ASSUME NEW t \in 1..depth
      PROVE  /\ t - 1 \in 0..depth /\ w[t - 1].frontier \in [Node -> Nat]
             /\ w[t].frontier = TickWave(w[t - 1].frontier, type)
  <2>1. t - 1 \in 0..depth /\ w[t - 1] \in Wavefronts
    OBVIOUS
  <2>2. w[t] = Ticked(w[t - 1], type)
    OBVIOUS
  <2>3. w[t - 1].frontier \in [Node -> Nat]
    BY <2>1 DEF Wavefronts
  <2>4. w[t].frontier = TickWave(w[t - 1].frontier, type)
    BY <2>2 DEF Ticked
  <2> QED
    BY <2>1, <2>3, <2>4
<1>3. \A end, i : i \in Into(end, type) => edges[i].source \in Node
  BY Flows, FiniteEdges
<1>4. ASSUME 1 <= depth PROVE Counted(1)
  <2> SUFFICES ASSUME NEW end \in Node
               PROVE  /\ IsFiniteSet(Walks(n, type, 1, end))
                      /\ w[1].frontier[end] = a * Cardinality(Walks(n, type, 1, end))
    OBVIOUS
  <2> DEFINE g == [i \in Into(end, type) |-> IF edges[i].source = n THEN 1 ELSE 0]
  <2>1. 1 \in 1..depth /\ 1 - 1 = 0
    BY <1>4
  <2>2. w[0].frontier \in [Node -> Nat] /\ w[1].frontier = TickWave(w[0].frontier, type)
    BY <1>2, <2>1
  <2>3. w[0].frontier = [m \in Node |-> IF m = n THEN activation[m] ELSE 0]
    BY DEF Started
  <2>4. ASSUME NEW i \in Into(end, type)
        PROVE  /\ g[i] \in Nat /\ w[0].frontier[edges[i].source] = a * g[i]
               /\ IsFiniteSet(Through(n, type, 1, end, i)) /\ Cardinality(Through(n, type, 1, end, i)) = g[i]
    <3>1. g[i] = IF edges[i].source = n THEN 1 ELSE 0
      OBVIOUS
    <3>2. w[0].frontier[edges[i].source] = IF edges[i].source = n THEN a ELSE 0
      BY <1>3, <2>3
    <3> HIDE DEF g, a
    <3>3. g[i] \in Nat /\ w[0].frontier[edges[i].source] = a * g[i]
      BY <1>1, <3>1, <3>2
    <3> QED
      BY <3>1, <3>3, FirstWalks
  <2> HIDE DEF g, a
  <2>5. PICK frontier \in [Node -> Nat] : frontier = w[0].frontier
    BY <2>2
  <2>6. /\ IsFiniteSet(Walks(n, type, 1, end))
        /\ TickWave(frontier, type)[end] = a * Cardinality(Walks(n, type, 1, end))
    <3>1. Counting(n, type, 1, end, a, frontier, g)
      BY <2>4, <2>5 DEF Counting
    <3>2. 1 \in Nat \ {0}
      OBVIOUS
    <3> QED
      BY <1>1, <3>1, <3>2, TickCounts
  <2> QED
    BY <2>2, <2>5, <2>6
<1>5. ASSUME NEW t \in Nat \ {0}, t + 1 <= depth, Counted(t) PROVE Counted(t + 1)
  <2> SUFFICES ASSUME NEW end \in Node
               PROVE  /\ IsFiniteSet(Walks(n, type, t + 1, end))
                      /\ w[t + 1].frontier[end] = a * Cardinality(Walks(n, type, t + 1, end))
    OBVIOUS
  <2> DEFINE g == [i \in Into(end, type) |-> Cardinality(Walks(n, type, t, edges[i].source))]
  <2>1. t + 1 \in 1..depth /\ (t + 1) - 1 = t /\ t + 1 \in Nat \ {0}
    BY <1>5
  <2>2. w[t].frontier \in [Node -> Nat] /\ w[t + 1].frontier = TickWave(w[t].frontier, type)
    BY <1>2, <2>1
  <2>3. ASSUME NEW i \in Into(end, type)
        PROVE  /\ g[i] \in Nat /\ w[t].frontier[edges[i].source] = a * g[i]
               /\ IsFiniteSet(Through(n, type, t + 1, end, i))
               /\ Cardinality(Through(n, type, t + 1, end, i)) = g[i]
    <3>1. g[i] = Cardinality(Walks(n, type, t, edges[i].source))
      OBVIOUS
    <3>2. /\ IsFiniteSet(Walks(n, type, t, edges[i].source))
          /\ w[t].frontier[edges[i].source] = a * Cardinality(Walks(n, type, t, edges[i].source))
      BY <1>3, <1>5
    <3> HIDE DEF g, a
    <3>3. g[i] \in Nat /\ w[t].frontier[edges[i].source] = a * g[i]
      BY <3>1, <3>2, FS_CardinalityType
    <3> QED
      BY <3>1, <3>2, <3>3, LongerWalks
  <2> HIDE DEF g, a, Counted
  <2>4. PICK frontier \in [Node -> Nat] : frontier = w[t].frontier
    BY <2>2
  <2>5. /\ IsFiniteSet(Walks(n, type, t + 1, end))
        /\ TickWave(frontier, type)[end] = a * Cardinality(Walks(n, type, t + 1, end))
    <3>1. Counting(n, type, t + 1, end, a, frontier, g)
      BY <2>3, <2>4 DEF Counting
    <3> QED
      BY <1>1, <2>1, <3>1, TickCounts
  <2> QED
    BY <2>2, <2>4, <2>5
<1> HIDE DEF Counted
<1>6. T = Nat
  <2>1. 0 \in T
    BY <1>4
  <2>2. ASSUME NEW t \in T PROVE t + 1 \in T
    BY <1>5, <2>2
  <2>3. T \in SUBSET Nat /\ 0 \in T /\ \A t \in T : t + 1 \in T
    BY <2>1, <2>2
  <2> HIDE DEF T
  <2> QED
    BY <2>3, Everywhere
<1>7. ASSUME NEW t \in 1..depth PROVE Counted(t)
  <2>1. t - 1 \in Nat /\ (t - 1) + 1 = t /\ t <= depth
    OBVIOUS
  <2>2. t - 1 \in T
    BY <1>6, <2>1
  <2> QED
    BY <2>1, <2>2
<1> QED
  BY <1>7 DEF Counted

LEMMA MaxIs ==
  ASSUME NEW S \in SUBSET Nat, NEW x \in S, \A y \in S : y <= x
  PROVE  Max(S) = x
<1>1. Max(S) \in S /\ \A y \in S : Max(S) >= y
  BY DEF Max
<1>2. Max(S) \in Nat /\ x \in Nat /\ Max(S) >= x /\ Max(S) <= x
  BY <1>1
<1> QED
  BY <1>2

\* The amounts a node was brought in t ticks, and what it held.
Brought(n, type, t, end) ==
  {activation[end]} \cup {activation[n] * Cardinality(Walks(n, type, s, end)) : s \in 1..t}

\* After t ticks the field of a node is the greatest of them.
LEMMA CumulativeIsMax ==
  ASSUME GraphTyped, activation \in [Node -> Nat], NEW n \in Node, NEW type, NEW depth \in Nat, NEW end \in Node
  PROVE  Propagated(n, type, depth).cumulative[end] = Max(Brought(n, type, depth, end))
<1>0. PICK w : Ticks(w, n, type, depth)
  BY PropagatedTicks
<1>1. /\ w \in [0..depth -> Wavefronts] /\ w[0] = Started(n) /\ \A t \in 1..depth : w[t] = Ticked(w[t - 1], type)
      /\ Propagated(n, type, depth) = w[depth]
  BY <1>0 DEF Ticks
<1> DEFINE a == activation[n]
           Count(t) == Cardinality(Walks(n, type, t, end))
           B(t) == {activation[end]} \cup {a * Count(s) : s \in 1..t}
           Top(t) == /\ w[t].cumulative[end] \in B(t) /\ B(t) \in SUBSET Nat
                     /\ \A y \in B(t) : y <= w[t].cumulative[end]
           T == {t \in Nat : t <= depth => Top(t)}
<1>2. ASSUME NEW t \in 1..depth PROVE a * Count(t) \in Nat /\ w[t].frontier[end] = a * Count(t)
  <2>1. IsFiniteSet(Walks(n, type, t, end)) /\ w[t].frontier[end] = a * Count(t)
    BY <1>1, FrontierCounts
  <2>2. Count(t) \in Nat
    BY <2>1, FS_CardinalityType
  <2>3. a \in Nat
    OBVIOUS
  <2> HIDE DEF a, Count
  <2>4. a * Count(t) \in Nat
    BY <2>2, <2>3
  <2> QED
    BY <2>1, <2>4
<1> HIDE DEF Count, a
<1>3. 0 \in T
  <2>1. w[0].cumulative[end] = activation[end] /\ activation[end] \in Nat
    BY <1>1 DEF Started
  <2>2. B(0) = {activation[end]}
    OBVIOUS
  <2> QED
    BY <2>1, <2>2
<1>4. ASSUME NEW t \in T PROVE t + 1 \in T
  <2> SUFFICES ASSUME t + 1 <= depth PROVE Top(t + 1)
    OBVIOUS
  <2>1. t + 1 \in 1..depth /\ (t + 1) - 1 = t /\ t \in 0..depth /\ t <= depth
    OBVIOUS
  <2>2. Top(t)
    BY <1>4, <2>1
  <2>3. w[t + 1] = Ticked(w[t], type)
    BY <1>1, <2>1
  <2>4. /\ w[t + 1].frontier = TickWave(w[t].frontier, type)
        /\ w[t + 1].cumulative = [m \in Node |-> Max({w[t].cumulative[m], TickWave(w[t].frontier, type)[m]})]
    BY <2>3 DEF Ticked
  <2>5. w[t + 1].cumulative[end] = Max({w[t].cumulative[end], w[t + 1].frontier[end]})
    BY <2>4
  <2>6. w[t + 1].frontier[end] = a * Count(t + 1) /\ a * Count(t + 1) \in Nat
    BY <1>2, <2>1
  <2>7. B(t + 1) = B(t) \cup {a * Count(t + 1)}
    <3>1. 1..(t + 1) = (1..t) \cup {t + 1}
      OBVIOUS
    <3> QED
      BY <3>1
  <2> HIDE DEF B
  <2>8. w[t].cumulative[end] \in Nat
    BY <2>2
  <2>9. PICK x \in Nat, y \in Nat : x = w[t].cumulative[end] /\ y = a * Count(t + 1)
    BY <2>6, <2>8
  <2>10. w[t + 1].cumulative[end] = IF x >= y THEN x ELSE y
    BY <2>5, <2>6, <2>9, Extremes
  <2>11. x \in B(t) /\ B(t) \in SUBSET Nat /\ B(t + 1) = B(t) \cup {y} /\ \A z \in B(t) : z <= x
    BY <2>2, <2>7, <2>9
  <2> QED
    BY <2>10, <2>11
<1>5. T = Nat
  <2>1. T \in SUBSET Nat /\ 0 \in T /\ \A t \in T : t + 1 \in T
    BY <1>3, <1>4
  <2> HIDE DEF T
  <2> QED
    BY <2>1, Everywhere
<1>6. Top(depth)
  BY <1>5
<1>7. B(depth) = Brought(n, type, depth, end)
  BY DEF Brought, a, Count
<1> HIDE DEF B
<1>8. w[depth].cumulative[end] = Max(B(depth))
  BY <1>6, MaxIs
<1> QED
  BY <1>1, <1>7, <1>8

LEMMA InvariantCounts == VmInv => WaveCountsWalks
<1> SUFFICES ASSUME VmInv, NEW n \in nodes, NEW type \in EdgeTypes, NEW k \in program.depths
             PROVE  Propagated(n, type, k).cumulative = [m \in Node |-> Max(Brought(n, type, k, m))]
  BY DEF WaveCountsWalks, Brought, Walks
<1>1. GraphTyped /\ activation \in [Node -> Nat] /\ n \in Node /\ k \in Nat
  BY ProgramTyped DEF VmInv, Field, GraphTyped
<1>2. PICK w : Ticks(w, n, type, k)
  BY <1>1, PropagatedTicks
<1>3. Propagated(n, type, k).cumulative \in [Node -> Nat]
  <2>1. w[k] \in Wavefronts /\ Propagated(n, type, k) = w[k]
    BY <1>1, <1>2 DEF Ticks
  <2> QED
    BY <2>1 DEF Wavefronts
<1>4. \A m \in Node : Propagated(n, type, k).cumulative[m] = Max(Brought(n, type, k, m))
  BY <1>1, CumulativeIsMax
<1> QED
  BY <1>3, <1>4

\* For every graph, program and depth: a propagation gives every node the greatest, over the
\* ticks, of the strength times the number of walks of that many edges that lead to it, and
\* never lowers a node (vm.py, PROPAGATE).
THEOREM WavesAlwaysCountWalks == Spec => []WaveCountsWalks
BY VmAlways, InvariantCounts, PTL
============================================================================
