--------------------------- MODULE RateLimiterProofs ---------------------------
(* Proofs about module RateLimiter, for any nodes and any flags. *)
EXTENDS RateLimiter, FiniteSetTheorems, WellFoundedInduction, TLAPS

(* NewRateLimiter leaves both limits positive, whatever the flags say: some
   pull is always possible. *)
LEMMA LimitsPositive ==
  /\ maxConcurrentPulls \in Nat \ {0}
  /\ maxPullsPerNode \in Nat \ {0}
BY LimiterFlags DEF maxConcurrentPulls, maxPullsPerNode

(* The counters of the limiter stay natural numbers under any sequence of
   TryAcquire and Release calls, unmatched releases included. *)
THEOREM LimiterTypeCorrect == Spec => []TypeOK
<1>1. NewRateLimiter => TypeOK
  BY DEF NewRateLimiter, TypeOK
<1>2. TypeOK /\ [Next]_limiterVars => TypeOK'
  <2> SUFFICES ASSUME TypeOK, [Next]_limiterVars
               PROVE  TypeOK'
    OBVIOUS
  <2>1. ASSUME NEW n \in Nodes, TryAcquire(n)
        PROVE  TypeOK'
    BY <2>1 DEF TypeOK, TryAcquire
  <2>2. ASSUME NEW n \in Nodes, Release(n)
        PROVE  TypeOK'
    BY <2>2 DEF TypeOK, Release, Decrement
  <2>3. CASE UNCHANGED limiterVars
    BY <2>3 DEF TypeOK, limiterVars
  <2> QED
    BY <2>1, <2>2, <2>3 DEF Next
<1> QED
  BY <1>1, <1>2, PTL DEF Spec

(* No caller, however careless with Release, makes the limiter grant more than
   the cluster limit or the limit of a node. *)
THEOREM LimiterKeepsLimits == Spec => []LimitsHold
<1> DEFINE Inv == TypeOK /\ LimitsHold
<1>1. NewRateLimiter => Inv
  BY LimitsPositive DEF NewRateLimiter, TypeOK, LimitsHold
<1>2. Inv /\ [Next]_limiterVars => Inv'
  <2> SUFFICES ASSUME Inv, [Next]_limiterVars
               PROVE  Inv'
    OBVIOUS
  <2> USE LimiterFlags
  <2>1. ASSUME NEW n \in Nodes, TryAcquire(n)
        PROVE  Inv'
    BY <2>1 DEF TypeOK, LimitsHold, TryAcquire, HasFreeSlot,
                maxConcurrentPulls, maxPullsPerNode
  <2>2. ASSUME NEW n \in Nodes, Release(n)
        PROVE  Inv'
    BY <2>2 DEF TypeOK, LimitsHold, Release, Decrement,
                maxConcurrentPulls, maxPullsPerNode
  <2>3. CASE UNCHANGED limiterVars
    BY <2>3 DEF TypeOK, LimitsHold, limiterVars, maxConcurrentPulls, maxPullsPerNode
  <2> QED
    BY <2>1, <2>2, <2>3 DEF Next
<1>3. Inv => LimitsHold
  OBVIOUS
<1> QED
  BY <1>1, <1>2, <1>3, PTL DEF Spec


-----------------------------------------------------------------------------
(* The sum over the nodes.  SumFunction is a fold, that is a function defined by
   recursion over the subsets of its domain.  What it computes takes an induction
   over the size of a set, here by way of a least counterexample. *)
LEMMA LeastNatural ==
  ASSUME NEW T \in SUBSET Nat, T # {}
  PROVE  \E m \in T : \A k \in T : ~(k < m)
<1>1. PICK m \in T : \A k \in T : <<k, m>> \notin OpToRel(<, Nat)
  BY NatLessThanWellFounded, WFMin
<1> QED
  BY <1>1 DEF OpToRel

First(s) == CHOOSE x \in s : TRUE

(* it computes the sums of f over the members of D. *)
SumsOver(it, f, D) ==
  it = [s \in D |-> IF s = {} THEN 0 ELSE f[First(s)] + it[s \ {First(s)}]]

Sums(f, S) == CHOOSE it : SumsOver(it, f, SUBSET S)

LEMMA SumFunctionIsSums ==
  ASSUME NEW S, NEW f \in [S -> Nat]
  PROVE  SumFunction(f) = Sums(f, S)[S]
BY DEF SumFunction, SumFunctionOnSet, FoldFunctionOnSet, MapThenFoldSet, Sums,
       SumsOver, First

(* The subsets of S with up to n members. *)
Upto(S, n) == {s \in SUBSET S : Cardinality(s) <= n}

LEMMA WithoutFirst ==
  ASSUME NEW S, IsFiniteSet(S), NEW s \in SUBSET S, s # {}
  PROVE  /\ First(s) \in s /\ First(s) \in S
         /\ s \ {First(s)} \in SUBSET S
         /\ Cardinality(s) \in Nat
         /\ Cardinality(s \ {First(s)}) = Cardinality(s) - 1
<1>1. First(s) \in s
  BY DEF First
<1>2. IsFiniteSet(s)
  BY FS_Subset
<1> QED
  BY <1>1, <1>2, FS_RemoveElement, FS_CardinalityType

LEMMA SumsExist ==
  ASSUME NEW S, IsFiniteSet(S), NEW f \in [S -> Nat]
  PROVE  /\ SumsOver(Sums(f, S), f, SUBSET S)
         /\ Sums(f, S) \in [SUBSET S -> Nat]
<1> DEFINE Exists(n) == \E it \in [Upto(S, n) -> Nat] : SumsOver(it, f, Upto(S, n))
           Missing == {n \in Nat : ~Exists(n)}
<1>1. Exists(0)
  <2>1. Upto(S, 0) = {{}}
    <3>1. \A s \in SUBSET S : IsFiniteSet(s)
      BY FS_Subset
    <3> QED
      BY <3>1, FS_EmptySet, FS_CardinalityType DEF Upto
  <2> DEFINE it == [s \in {{}} |-> 0]
  <2>2. SumsOver(it, f, {{}})
    BY DEF SumsOver
  <2>3. it \in [{{}} -> Nat]
    OBVIOUS
  <2> QED
    BY <2>1, <2>2, <2>3
<1>2. ASSUME NEW n \in Nat, Exists(n)
      PROVE  Exists(n+1)
  <2>1. PICK it \in [Upto(S, n) -> Nat] : SumsOver(it, f, Upto(S, n))
    BY <1>2
  <2> DEFINE more == [s \in Upto(S, n+1) |->
                        IF s = {} THEN 0 ELSE f[First(s)] + it[s \ {First(s)}]]
  <2>2. ASSUME NEW s \in Upto(S, n+1), s # {}
        PROVE  /\ First(s) \in S /\ s \ {First(s)} \in Upto(S, n)
               /\ s \ {First(s)} \in Upto(S, n+1)
    BY <2>2, WithoutFirst DEF Upto
  <2>3. more \in [Upto(S, n+1) -> Nat]
    <3>1. ASSUME NEW s \in Upto(S, n+1), s # {}
          PROVE  f[First(s)] + it[s \ {First(s)}] \in Nat
      BY <2>2, <3>1
    <3> QED
      BY <3>1
  <2>4. ASSUME NEW s \in Upto(S, n)
        PROVE  it[s] = more[s]
    <3>1. s \in Upto(S, n+1)
      <4>1. Cardinality(s) \in Nat
        BY FS_Subset, FS_CardinalityType DEF Upto
      <4> QED
        BY <4>1 DEF Upto
    <3>2. it[s] = IF s = {} THEN 0 ELSE f[First(s)] + it[s \ {First(s)}]
      BY <2>1 DEF SumsOver
    <3> QED
      BY <3>1, <3>2
  <2>5. \A s \in Upto(S, n+1) : s # {} => it[s \ {First(s)}] = more[s \ {First(s)}]
    BY <2>2, <2>4
  <2>6. SumsOver(more, f, Upto(S, n+1))
    <3> HIDE DEF more
    <3>1. more = [s \in Upto(S, n+1) |->
                    IF s = {} THEN 0 ELSE f[First(s)] + it[s \ {First(s)}]]
      BY DEF more
    <3>2. \A s \in Upto(S, n+1) :
            (IF s = {} THEN 0 ELSE f[First(s)] + it[s \ {First(s)}])
              = (IF s = {} THEN 0 ELSE f[First(s)] + more[s \ {First(s)}])
      BY <2>5
    <3> QED
      BY <3>1, <3>2 DEF SumsOver
  <2> QED
    BY <2>3, <2>6
<1>3. Missing = {}
  <2> SUFFICES ASSUME Missing # {}
               PROVE  FALSE
    OBVIOUS
  <2>1. PICK m \in Missing : \A k \in Missing : ~(k < m)
    <3> HIDE DEF Exists
    <3> QED
      BY LeastNatural
  <2> HIDE DEF Exists
  <2>2. m # 0
    BY <1>1
  <2>3. m - 1 \in Nat /\ m - 1 \notin Missing
    BY <2>1, <2>2
  <2>4. Exists((m - 1) + 1)
    BY <1>2, <2>3
  <2>5. (m - 1) + 1 = m
    BY <2>3
  <2> QED
    BY <2>4, <2>5
<1>4. \E it \in [SUBSET S -> Nat] : SumsOver(it, f, SUBSET S)
  <2>1. Cardinality(S) \in Nat
    BY FS_CardinalityType
  <2>2. Upto(S, Cardinality(S)) = SUBSET S
    BY FS_Subset DEF Upto
  <2>3. Exists(Cardinality(S))
    BY <1>3, <2>1
  <2> QED
    BY <2>2, <2>3
<1>5. SumsOver(Sums(f, S), f, SUBSET S)
  BY <1>4 DEF Sums
<1>6. ASSUME NEW it, SumsOver(it, f, SUBSET S)
      PROVE  it \in [SUBSET S -> Nat]
  <2> DEFINE Bad == {n \in Nat : \E s \in SUBSET S : Cardinality(s) = n /\ it[s] \notin Nat}
  <2>1. \A s \in SUBSET S : it[s] = IF s = {} THEN 0 ELSE f[First(s)] + it[s \ {First(s)}]
    BY <1>6 DEF SumsOver
  <2>2. Bad = {}
    <3> SUFFICES ASSUME Bad # {}
                 PROVE  FALSE
      OBVIOUS
    <3>1. PICK m \in Bad : \A k \in Bad : ~(k < m)
      BY LeastNatural
    <3>2. PICK s \in SUBSET S : Cardinality(s) = m /\ it[s] \notin Nat
      BY <3>1
    <3>3. s # {}
      <4> SUFFICES ASSUME s = {} PROVE it[s] = 0
        BY <3>2
      <4> QED
        BY <2>1
    <3>4. /\ First(s) \in S /\ s \ {First(s)} \in SUBSET S
          /\ Cardinality(s \ {First(s)}) = m - 1 /\ m - 1 \in Nat
      <4>1. IsFiniteSet(s \ {First(s)})
        BY FS_Subset
      <4> QED
        BY <3>2, <3>3, <4>1, WithoutFirst, FS_CardinalityType
    <3>5. it[s \ {First(s)}] \in Nat
      BY <3>1, <3>4
    <3> QED
      BY <2>1, <3>2, <3>3, <3>4, <3>5
  <2>3. \A s \in SUBSET S : Cardinality(s) \in Nat
    BY FS_Subset, FS_CardinalityType
  <2>4. \A s \in SUBSET S : it[s] \in Nat
    BY <2>2, <2>3
  <2> QED
    BY <1>6, <2>4 DEF SumsOver
<1> QED
  BY <1>5, <1>6

LEMMA SumsUnfold ==
  ASSUME NEW S, IsFiniteSet(S), NEW f \in [S -> Nat], NEW s \in SUBSET S
  PROVE  Sums(f, S)[s] =
           IF s = {} THEN 0 ELSE f[First(s)] + Sums(f, S)[s \ {First(s)}]
<1> DEFINE it == Sums(f, S)
<1>1. SumsOver(it, f, SUBSET S)
  BY SumsExist
<1> HIDE DEF it
<1>2. it[s] = IF s = {} THEN 0 ELSE f[First(s)] + it[s \ {First(s)}]
  BY <1>1 DEF SumsOver
<1> QED
  BY <1>2 DEF it

(* One term of the sum changes. *)
LEMMA SumChanges ==
  ASSUME NEW S, IsFiniteSet(S), NEW f \in [S -> Nat], NEW n \in S, NEW v \in Nat
  PROVE  /\ SumFunction(f) \in Nat
         /\ SumFunction([f EXCEPT ![n] = v]) = SumFunction(f) + v - f[n]
<1> DEFINE g == [f EXCEPT ![n] = v]
           F == Sums(f, S)
           G == Sums(g, S)
           Delta(s) == IF n \in s THEN v - f[n] ELSE 0
           Bad == {k \in Nat : \E s \in SUBSET S : Cardinality(s) = k /\ G[s] # F[s] + Delta(s)}
<1>1. g \in [S -> Nat]
  OBVIOUS
<1>2. F \in [SUBSET S -> Nat] /\ G \in [SUBSET S -> Nat]
  BY <1>1, SumsExist
<1>3. \A s \in SUBSET S : F[s] = IF s = {} THEN 0 ELSE f[First(s)] + F[s \ {First(s)}]
  BY SumsUnfold
<1>4. \A s \in SUBSET S : G[s] = IF s = {} THEN 0 ELSE g[First(s)] + G[s \ {First(s)}]
  BY <1>1, SumsUnfold
<1>5. Bad = {}
  <2> SUFFICES ASSUME Bad # {}
               PROVE  FALSE
    OBVIOUS
  <2>1. PICK m \in Bad : \A k \in Bad : ~(k < m)
    <3> HIDE DEF F, G
    <3> QED
      BY LeastNatural
  <2> HIDE DEF F, G
  <2>2. PICK s \in SUBSET S : Cardinality(s) = m /\ G[s] # F[s] + Delta(s)
    BY <2>1
  <2> DEFINE x == First(s)
             rest == s \ {x}
  <2>3. s # {}
    <3> SUFFICES ASSUME s = {}
                 PROVE  G[s] = 0 /\ F[s] = 0 /\ Delta(s) = 0
      BY <2>2
    <3> QED
      BY <1>3, <1>4
  <2>4. /\ x \in s /\ x \in S /\ rest \in SUBSET S
        /\ Cardinality(rest) = m - 1 /\ m - 1 \in Nat
    <3>1. IsFiniteSet(rest)
      BY FS_Subset
    <3> QED
      BY <2>2, <2>3, <3>1, WithoutFirst, FS_CardinalityType
  <2>5. G[rest] = F[rest] + Delta(rest)
    BY <2>1, <2>4
  <2>6. F[s] = f[x] + F[rest] /\ G[s] = g[x] + G[rest]
    BY <1>3, <1>4, <2>3
  <2>7. F[rest] \in Nat /\ f[x] \in Nat /\ f[n] \in Nat
    BY <1>2, <2>4
  <2>8. CASE x = n
    <3>1. g[x] = v /\ Delta(s) = v - f[n] /\ Delta(rest) = 0
      BY <2>4, <2>8
    <3> QED
      BY <2>2, <2>5, <2>6, <2>7, <2>8, <3>1
  <2>9. CASE x # n
    <3>1. g[x] = f[x] /\ Delta(s) = Delta(rest) /\ Delta(s) \in Int
      BY <2>4, <2>7, <2>9
    <3> QED
      BY <2>2, <2>5, <2>6, <2>7, <3>1
  <2> QED
    BY <2>8, <2>9
<1>6. G[S] = F[S] + Delta(S)
  <2>1. Cardinality(S) \in Nat
    BY FS_CardinalityType
  <2> HIDE DEF F, G
  <2> QED
    BY <1>5, <2>1
<1>7. SumFunction(f) = F[S] /\ SumFunction(g) = G[S]
  BY <1>1, SumFunctionIsSums
<1>8. F[S] \in Nat /\ f[n] \in Nat
  BY <1>2
<1> QED
  BY <1>6, <1>7, <1>8

LEMMA SumOfZeros ==
  ASSUME NEW S, IsFiniteSet(S)
  PROVE  SumFunction([x \in S |-> 0]) \in Nat
<1> DEFINE f == [x \in S |-> 0]
<1>1. f \in [S -> Nat]
  OBVIOUS
<1>2. SumFunction(f) \in Nat
  <2> HIDE DEF f
  <2>1. Sums(f, S)[S] \in Nat
    <3>1. Sums(f, S) \in [SUBSET S -> Nat]
      BY <1>1, SumsExist
    <3> QED
      BY <3>1
  <2> QED
    BY <1>1, <2>1, SumFunctionIsSums
<1> QED
  BY <1>2

(* For any finite set of nodes and however careless the callers, the cluster
   counter claims no pull that the nodes do not account for: Release lowers a node's
   counter only together with the cluster's, unless that is zero already. *)
THEOREM ClusterStaysWithinNodes ==
  ASSUME IsFiniteSet(Nodes)
  PROVE  Spec => []ClusterWithinNodes
<1> DEFINE Inv == TypeOK /\ ClusterWithinNodes
<1>1. NewRateLimiter => Inv
  BY SumOfZeros DEF NewRateLimiter, TypeOK, ClusterWithinNodes
<1>2. Inv /\ [Next]_limiterVars => Inv'
  <2> SUFFICES ASSUME Inv, [Next]_limiterVars
               PROVE  Inv'
    OBVIOUS
  <2> DEFINE counted == SumFunction(nodeCurrentPulls)
  <2>1. \A n \in Nodes : nodeCurrentPulls[n] \in Nat
    BY DEF TypeOK
  <2>2. ASSUME NEW n \in Nodes, NEW v \in Nat,
               nodeCurrentPulls' = [nodeCurrentPulls EXCEPT ![n] = v]
        PROVE  counted \in Nat /\ counted' = counted + v - nodeCurrentPulls[n]
               /\ nodeCurrentPulls' \in [Nodes -> Nat]
    <3>1. nodeCurrentPulls \in [Nodes -> Nat]
      BY DEF TypeOK
    <3>2. /\ counted \in Nat
          /\ SumFunction([nodeCurrentPulls EXCEPT ![n] = v]) = counted + v - nodeCurrentPulls[n]
      BY <3>1, SumChanges
    <3> QED
      BY <2>2, <3>1, <3>2
  <2>3. ASSUME NEW n \in Nodes, TryAcquire(n)
        PROVE  Inv'
    <3>1. nodeCurrentPulls' = [nodeCurrentPulls EXCEPT ![n] = nodeCurrentPulls[n] + 1]
      BY <2>3 DEF TryAcquire
    <3>2. counted \in Nat /\ counted' = counted + 1 /\ nodeCurrentPulls' \in [Nodes -> Nat]
      <4>1. nodeCurrentPulls[n] + 1 \in Nat
        BY <2>1
      <4>2. /\ counted \in Nat /\ nodeCurrentPulls' \in [Nodes -> Nat]
            /\ counted' = counted + (nodeCurrentPulls[n] + 1) - nodeCurrentPulls[n]
        BY <2>2, <3>1, <4>1
      <4> HIDE DEF counted
      <4> QED
        BY <2>1, <4>2
    <3> QED
      BY <2>3, <3>2 DEF TryAcquire, TypeOK, ClusterWithinNodes
  <2>4. ASSUME NEW n \in Nodes, Release(n)
        PROVE  Inv'
    <3>1. nodeCurrentPulls' =
            [nodeCurrentPulls EXCEPT ![n] = Decrement(nodeCurrentPulls[n])]
      BY <2>4 DEF Release
    <3>2. /\ Decrement(nodeCurrentPulls[n]) \in Nat
          /\ Decrement(nodeCurrentPulls[n]) >= nodeCurrentPulls[n] - 1
      BY <2>1 DEF Decrement
    <3>3. /\ counted \in Nat /\ nodeCurrentPulls' \in [Nodes -> Nat]
          /\ counted' = counted + Decrement(nodeCurrentPulls[n]) - nodeCurrentPulls[n]
      BY <2>2, <3>1, <3>2
    <3>4. counted' \in Nat
      <4>1. SumFunction(nodeCurrentPulls') \in Nat
        BY <3>3, SumChanges
      <4> QED
        BY <4>1
    <3>5. currentPulls' = Decrement(currentPulls) /\ currentPulls \in Nat
          /\ currentPulls <= counted
      BY <2>4 DEF Release, TypeOK, ClusterWithinNodes
    <3>6. currentPulls' \in Nat /\ currentPulls' <= counted'
      <4> HIDE DEF counted
      <4> QED
        BY <2>1, <3>2, <3>3, <3>4, <3>5 DEF Decrement
    <3> QED
      BY <3>3, <3>6 DEF TypeOK, ClusterWithinNodes
  <2>5. CASE UNCHANGED limiterVars
    BY <2>5 DEF limiterVars, TypeOK, ClusterWithinNodes
  <2> QED
    BY <2>3, <2>4, <2>5 DEF Next
<1>3. Inv => ClusterWithinNodes
  OBVIOUS
<1> QED
  BY <1>1, <1>2, <1>3, PTL DEF Spec
=============================================================================
