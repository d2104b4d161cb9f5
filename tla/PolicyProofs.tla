------------------------------ MODULE PolicyProofs ------------------------------
(***************************************************************************)
(* Proofs about module PrePullPolicy: the type invariant, and that a       *)
(* policy is Ready at its generation only with a count of its selector.    *)
(***************************************************************************)
EXTENDS PrePullPolicy, FiniteSetTheorems, TLAPS

-----------------------------------------------------------------------------
(* What the operators on policies return. *)
LEMMA AnySelectorType == AnySelector \in Selectors
BY PolicyConstantsOK DEF PolicyConstantsOK, AnySelector

LEMMA PolicyFields ==
  ASSUME NEW obj \in PolicyObject
  PROVE  /\ obj.exists \in BOOLEAN /\ obj.rv \in Nat /\ obj.gen \in Nat
         /\ obj.sel \in Selectors /\ obj.observed \in Nat
BY DEF PolicyObject

LEMMA NewPolicyType ==
  ASSUME NEW rv \in Nat, NEW sel \in Selectors
  PROVE  Policy(rv, sel) \in PolicyObject
BY DEF Policy, PolicyObject

LEMMA GoneType ==
  ASSUME NEW rv \in Nat
  PROVE  Gone(rv) \in PolicyObject
<1>1. Policy(rv, AnySelector) \in PolicyObject BY NewPolicyType, AnySelectorType
<1> QED BY <1>1 DEF Gone, PolicyObject

LEMMA ConditionType ==
  ASSUME NEW obj \in PolicyObject, NEW status \in {"True", "False"}
  PROVE  Condition(obj, status) \in PolicyObject
BY DEF Condition, PolicyObject

LEMMA SavedType ==
  ASSUME NEW old \in PolicyObject, NEW new \in PolicyObject
  PROVE  Saved(old, new) \in PolicyObject
<1> DEFINE obj == Status(old, new)
<1>1. obj \in PolicyObject BY DEF Status, PolicyObject
<1>2. [obj EXCEPT !.rv = @ + 1] \in PolicyObject
  <2> HIDE DEF obj
  <2> QED BY <1>1 DEF PolicyObject
<1> QED BY <1>2 DEF Saved

LEMMA MatchingFinite ==
  ASSUME NEW ns
  PROVE  Cardinality(Matching(ns)) \in Nat
<1>1. IsFiniteSet(Deployments) BY PolicyConstantsOK DEF PolicyConstantsOK
<1>2. Matching(ns) \subseteq Deployments BY DEF Matching
<1>3. IsFiniteSet(Matching(ns)) BY <1>1, <1>2, FS_Subset
<1> QED BY <1>3, FS_CardinalityType

LEMMA NamespacesListed ==
  ASSUME NEW sel \in Selectors
  PROVE  sel.namespaces \in Seq(Namespaces \cup {AllNamespaces})
<1>1. sel.namespaces \in Seq(Namespaces) BY PolicyConstantsOK DEF PolicyConstantsOK
<1> QED BY <1>1

LEMMA Busy == TypeOK /\ pc # "idle" => cur \in Policies
BY DEF TypeOK

-----------------------------------------------------------------------------
(* The type invariant, one lemma per group of actions. *)
LEMMA InitType == Init => TypeOK
<1> SUFFICES ASSUME Init PROVE TypeOK OBVIOUS
<1>1. Gone(0) \in PolicyObject BY GoneType
<1>2. store \in [Policies -> PolicyObject] /\ cache \in [Policies -> PolicyObject]
  BY <1>1 DEF Init
<1>3. {now, edits, changes, faults, restarts} \subseteq Nat BY DEF Init
<1>4. left \in Seq(Namespaces \cup {AllNamespaces}) BY DEF Init
<1> QED BY <1>1, <1>2, <1>3, <1>4, PolicyConstantsOK DEF Init, TypeOK, PolicyConstantsOK

(* Return leaves the worker idle. *)
LEMMA ReturnType ==
  ASSUME TypeOK, NEW again \in BOOLEAN, pc # "idle", Return(again)
  PROVE  /\ timer' \subseteq Policies /\ pc' = "idle" /\ cur' = NoPolicy
         /\ work' \in PolicyObject /\ left' \in Seq(Namespaces \cup {AllNamespaces}) /\ count' \in Nat
BY Busy, GoneType DEF Return, TypeOK

LEMMA ReconcileType ==
  ASSUME TypeOK, NEW p \in Policies, Reconcile(p)
  PROVE  TypeOK'
<1>1. CASE ReconcileGone(p)
  BY <1>1 DEF ReconcileGone, Take, TypeOK, workVars, envVars
<1>2. CASE ReadFails(p)
  BY <1>2 DEF ReadFails, Take, Fault, NewSituation, TypeOK, workVars
<1>3. CASE BeginCount(p)
  <2>1. cache[p] \in PolicyObject /\ cache[p].sel \in Selectors
    BY DEF TypeOK, PolicyObject
  <2>2. cache[p].sel.namespaces \in Seq(Namespaces \cup {AllNamespaces}) BY <2>1, NamespacesListed
  <2>4. <<AllNamespaces>> \in Seq(Namespaces \cup {AllNamespaces}) OBVIOUS
  <2>5. left' \in Seq(Namespaces \cup {AllNamespaces}) BY <1>3, <2>2, <2>4 DEF BeginCount
  <2> QED BY <1>3, <2>1, <2>5, PolicyConstantsOK
          DEF BeginCount, Take, TypeOK, envVars, PolicyConstantsOK
<1> QED BY <1>1, <1>2, <1>3 DEF Reconcile

LEMMA CountType ==
  ASSUME TypeOK, ListDeployments \/ ListFails \/ Counted
  PROVE  TypeOK'
<1>1. CASE ListDeployments
  <2>1. Cardinality(Matching(Head(left))) \in Nat BY MatchingFinite
  <2>2. count' \in Nat BY <1>1, <2>1 DEF ListDeployments, TypeOK
  <2>3. left' \in Seq(Namespaces \cup {AllNamespaces}) BY <1>1 DEF ListDeployments, TypeOK
  <2> QED BY <1>1, <2>2, <2>3 DEF ListDeployments, TypeOK, envVars
<1>2. CASE ListFails
  <2>1. work' \in PolicyObject BY <1>2, ConditionType DEF ListFails, TypeOK
  <2> QED BY <1>2, <2>1 DEF ListFails, Fault, NewSituation, TypeOK
<1>3. CASE Counted
  <2>1. [work EXCEPT !.watched = count, !.stamp = now, !.counted = work.sel]
          \in PolicyObject
    <3>1. work \in PolicyObject /\ count \in Nat /\ now \in Int BY DEF TypeOK
    <3>2. [work EXCEPT !.watched = count, !.stamp = now] \in PolicyObject
      BY <3>1 DEF PolicyObject
    <3> QED BY <3>1, <3>2 DEF PolicyObject
  <2>2. work' \in PolicyObject BY <1>3, <2>1, ConditionType DEF Counted
  <2> QED BY <1>3, <2>2 DEF Counted, TypeOK, envVars
<1> QED BY <1>1, <1>2, <1>3

LEMMA StoreType ==
  ASSUME TypeOK, cur \in Policies, store' = [store EXCEPT ![cur] = Saved(@, work)]
  PROVE  store' \in [Policies -> PolicyObject]
BY SavedType DEF TypeOK

LEMMA WriteType ==
  ASSUME TypeOK, UpdateWritten \/ UpdateRejected \/ UpdateFails \/ ErrorReported
  PROVE  TypeOK'
<1>1. pc # "idle" /\ cur \in Policies
  BY Busy DEF UpdateWritten, UpdateRejected, UpdateFails, ErrorReported
<1>2. Return(TRUE) BY DEF UpdateWritten, UpdateRejected, UpdateFails, ErrorReported
<1>3. /\ timer' \subseteq Policies /\ pc' = "idle" /\ cur' = NoPolicy
      /\ work' \in PolicyObject /\ left' \in Seq(Namespaces \cup {AllNamespaces}) /\ count' \in Nat
  BY <1>1, <1>2, ReturnType
<1>4. ASSUME WriteStatus
      PROVE  store' \in [Policies -> PolicyObject] /\ writes' \in [Policies -> Nat]
  BY <1>1, <1>4, StoreType DEF WriteStatus, TypeOK
<1>5. ASSUME WriteFails
      PROVE  /\ store' \in [Policies -> PolicyObject] /\ writes' \in [Policies -> Nat]
             /\ faults' \in Nat
  BY <1>1, <1>5, StoreType DEF WriteFails, NewSituation, Fault, TypeOK
<1>6. CASE UpdateWritten
  BY <1>3, <1>4, <1>6 DEF UpdateWritten, SetWatchedDeployments, TypeOK, envVars
<1>7. CASE UpdateRejected
  BY <1>3, <1>7 DEF UpdateRejected, TypeOK, envVars
<1>8. CASE UpdateFails
  BY <1>3, <1>5, <1>8 DEF UpdateFails, TypeOK
<1>9. CASE ErrorReported
  BY <1>3, <1>4, <1>5, <1>9 DEF ErrorReported, TypeOK
<1> QED BY <1>6, <1>7, <1>8, <1>9

LEMMA EditType ==
  ASSUME TypeOK, NEW p \in Policies, EditPolicy(p)
  PROVE  TypeOK'
<1>1. store[p] \in PolicyObject BY DEF TypeOK
<1>a. store[p].rv + 1 \in Nat /\ store[p].gen + 1 \in Nat BY <1>1, PolicyFields
<1>2. Gone(store[p].rv + 1) \in PolicyObject BY <1>a, GoneType
<1>3. \A sel \in Selectors : Policy(store[p].rv + 1, sel) \in PolicyObject
  BY <1>a, NewPolicyType
<1>4. ASSUME NEW sel \in Selectors,
             store' = [store EXCEPT ![p].sel = sel, ![p].gen = @ + 1, ![p].rv = @ + 1]
      PROVE  store' \in [Policies -> PolicyObject]
  <2>1. [store[p] EXCEPT !.sel = sel, !.gen = @ + 1, !.rv = @ + 1] \in PolicyObject
    <3>1. [store[p] EXCEPT !.sel = sel, !.gen = @ + 1] \in PolicyObject
      BY <1>1, <1>a DEF PolicyObject
    <3> QED BY <1>1, <1>a, <3>1 DEF PolicyObject
  <2>2. store' = [store EXCEPT ![p] =
                    [store[p] EXCEPT !.sel = sel, !.gen = @ + 1, !.rv = @ + 1]]
    BY <1>4 DEF TypeOK
  <2> QED BY <2>1, <2>2 DEF TypeOK
<1>5. store' \in [Policies -> PolicyObject]
  BY <1>2, <1>3, <1>4 DEF EditPolicy, TypeOK
<1>6. writes' \in [Policies -> Nat] BY DEF EditPolicy, NewSituation
<1>7. edits' \in Nat
  <2>1. edits \in Nat BY DEF TypeOK
  <2>2. edits' = edits + 1 BY DEF EditPolicy
  <2> QED BY <2>1, <2>2
<1>8. UNCHANGED <<deployments, cache, deploymentCache, queue, timer, watchedGauge,
                     workVars, now, changes, faults, restarts>>
  BY DEF EditPolicy
<1> QED BY <1>5, <1>6, <1>7, <1>8 DEF TypeOK, workVars

LEMMA EnvironmentType ==
  ASSUME TypeOK, Environment
  PROVE  TypeOK'
<1>1. ASSUME NEW p \in Policies, SyncPolicy(p) PROVE TypeOK'
  BY <1>1 DEF SyncPolicy, TypeOK, workVars, envVars
<1>2. ASSUME NEW p \in Policies, TimerFires(p) PROVE TypeOK'
  BY <1>2 DEF TimerFires, TypeOK, workVars, envVars
<1>3. ASSUME NEW d \in Deployments, ChangeDeployment(d) PROVE TypeOK'
  BY <1>3 DEF ChangeDeployment, NewSituation, TypeOK, workVars
<1>4. ASSUME NEW d \in Deployments, SyncDeployment(d) PROVE TypeOK'
  BY <1>4 DEF SyncDeployment, NewSituation, TypeOK, workVars, envVars
<1>5. CASE Tick BY <1>5 DEF Tick, NewSituation, TypeOK, workVars
<1>6. CASE Restart
  BY <1>6, GoneType DEF Restart, NewSituation, TypeOK
<1> QED BY <1>1, <1>2, <1>3, <1>4, <1>5, <1>6, EditType DEF Environment

LEMMA NextType == TypeOK /\ [Next]_vars => TypeOK'
<1> SUFFICES ASSUME TypeOK, [Next]_vars PROVE TypeOK' OBVIOUS
<1>1. CASE WorkStep BY <1>1, CountType, WriteType DEF WorkStep
<1>2. CASE UNCHANGED vars BY <1>2 DEF TypeOK, vars, workVars, envVars
<1>3. CASE Quiet BY <1>2, <1>3 DEF Quiet
<1> QED BY <1>1, <1>2, <1>3, ReconcileType, EnvironmentType DEF Next

(* The state of the policy controller keeps its shape whatever users, caches,
   failed calls and crashes do: counts and generations are natural numbers,
   a reconcile has a key exactly as long as it runs. *)
THEOREM PolicyTypeCorrect == Spec => []TypeOK
BY InitType, NextType, PTL DEF Spec

-----------------------------------------------------------------------------
(* ReadyMeansCounted is about the API server; a status gets there by way of the
   cache and of the reconcile's copy, so it is stated of all three.  A new
   generation must not be observed already, and a copy that passes the
   optimistic lock must have the selector and the generation of the stored
   policy. *)
Truthful(obj) ==
  /\ obj.exists /\ obj.ready = "True" /\ obj.observed = obj.gen => obj.counted = obj.sel
  /\ obj.observed <= obj.gen

CopyOf(copy, obj) ==
  /\ copy.rv <= obj.rv
  /\ copy.rv = obj.rv => copy.sel = obj.sel /\ copy.gen = obj.gen

Counts ==
  /\ \A p \in Policies : /\ Truthful(store[p]) /\ Truthful(cache[p])
                         /\ CopyOf(cache[p], store[p])
  /\ Truthful(work)
  /\ pc # "idle" => work.exists /\ CopyOf(work, store[cur])

LEMMA GoneTruthful == \A rv \in Nat : Truthful(Gone(rv))
BY DEF Truthful, Gone, Policy

LEMMA SavedTruthful ==
  ASSUME NEW old \in PolicyObject, NEW new \in PolicyObject,
         Truthful(old), Truthful(new), new.exists,
         new.sel = old.sel, new.gen = old.gen
  PROVE  Truthful(Saved(old, new))
<1>1. CASE Saved(old, new) = old BY <1>1
<1>2. CASE Saved(old, new) = [Status(old, new) EXCEPT !.rv = @ + 1]
  <2> DEFINE obj == Saved(old, new)
  <2>1. /\ obj.exists = old.exists /\ obj.ready = new.ready /\ obj.gen = old.gen
        /\ obj.observed = new.observed /\ obj.counted = new.counted
        /\ obj.sel = old.sel
    BY <1>2 DEF Status, PolicyObject
  <2> QED BY <2>1 DEF Truthful
<1> QED BY <1>1, <1>2 DEF Saved

(* A write keeps old copies behind, and those that are up to date up to date. *)
LEMMA SavedCopies ==
  ASSUME NEW old \in PolicyObject, NEW new \in PolicyObject, NEW copy \in PolicyObject,
         CopyOf(copy, old)
  PROVE  CopyOf(copy, Saved(old, new))
<1>1. CASE Saved(old, new) = old BY <1>1
<1>2. CASE Saved(old, new) = [Status(old, new) EXCEPT !.rv = @ + 1]
  <2>1. Saved(old, new).rv = old.rv + 1 BY <1>2 DEF Status, PolicyObject
  <2>2. copy.rv \in Nat /\ old.rv \in Nat BY PolicyFields
  <2> QED BY <2>1, <2>2 DEF CopyOf
<1> QED BY <1>1, <1>2 DEF Saved

LEMMA InitCounts == Init => Counts
<1> SUFFICES ASSUME Init PROVE Counts OBVIOUS
<1>1. Truthful(Gone(0)) BY GoneTruthful
<1>2. \A p \in Policies : store[p] = Gone(0) /\ cache[p] = store[p] BY DEF Init
<1>3. Gone(0).rv \in Nat BY GoneType, PolicyFields
<1>4. \A p \in Policies : CopyOf(cache[p], store[p]) BY <1>2, <1>3 DEF CopyOf
<1> QED BY <1>1, <1>2, <1>4 DEF Init, Counts

(* The reconcile ends with or without its write. *)
LEMMA WriteCounts ==
  ASSUME TypeOK, Counts, UpdateWritten \/ UpdateRejected \/ UpdateFails \/ ErrorReported
  PROVE  Counts'
<1>1. pc # "idle" /\ cur \in Policies
  BY Busy DEF UpdateWritten, UpdateRejected, UpdateFails, ErrorReported
<1>2. Return(TRUE) /\ UNCHANGED cache
  BY DEF UpdateWritten, UpdateRejected, UpdateFails, ErrorReported
<1>3. \/ UNCHANGED store
      \/ CanWrite /\ store' = [store EXCEPT ![cur] = Saved(@, work)]
  BY DEF UpdateWritten, UpdateRejected, UpdateFails, ErrorReported, WriteStatus, WriteFails
<1>4. pc' = "idle" /\ Truthful(work)'
  BY <1>2, GoneTruthful DEF Return, Truthful
<1>5. CASE UNCHANGED store BY <1>2, <1>4, <1>5 DEF Counts
<1>6. CASE CanWrite /\ store' = [store EXCEPT ![cur] = Saved(@, work)]
  <2>1. store[cur] \in PolicyObject /\ work \in PolicyObject BY <1>1 DEF TypeOK
  <2>2. work.sel = store[cur].sel /\ work.gen = store[cur].gen /\ work.exists
    BY <1>1, <1>6 DEF Counts, CanWrite, CopyOf
  <2>3. Truthful(Saved(store[cur], work))
    BY <1>1, <2>1, <2>2, SavedTruthful DEF Counts
  <2>4. CopyOf(cache[cur], Saved(store[cur], work))
    BY <1>1, <2>1, SavedCopies DEF Counts, TypeOK
  <2>5. \A p \in Policies :
          store'[p] = IF p = cur THEN Saved(store[cur], work) ELSE store[p]
    BY <1>6 DEF TypeOK
  <2>6. \A p \in Policies : /\ Truthful(store'[p]) /\ Truthful(cache[p])
                            /\ CopyOf(cache[p], store'[p])
    BY <2>3, <2>4, <2>5 DEF Counts
  <2> QED BY <1>2, <1>4, <2>6 DEF Counts
<1> QED BY <1>3, <1>5, <1>6

LEMMA EditCounts ==
  ASSUME TypeOK, Counts, NEW p \in Policies, EditPolicy(p)
  PROVE  Counts'
<1> DEFINE old == store[p]
           new == store'[p]
<1>1. old \in PolicyObject /\ old.rv \in Nat /\ old.gen \in Nat /\ old.observed \in Nat
  BY PolicyFields DEF TypeOK
<1>2. store' = [store EXCEPT ![p] = new] BY DEF EditPolicy, TypeOK
<1>3. Truthful(new) /\ new.rv = old.rv + 1
  <2>1. CASE \E sel \in Selectors : store' = [store EXCEPT ![p] = Policy(@.rv + 1, sel)]
    BY <1>1, <2>1 DEF TypeOK, Truthful, Policy
  <2>2. CASE \E sel \in Selectors :
               store' = [store EXCEPT ![p].sel = sel, ![p].gen = @ + 1, ![p].rv = @ + 1]
    <3>1. new.rv = old.rv + 1 /\ new.gen = old.gen + 1 /\ new.observed = old.observed
      BY <1>1, <2>2 DEF TypeOK, PolicyObject
    <3>2. old.observed <= old.gen BY DEF Counts, Truthful
    <3> QED BY <1>1, <3>1, <3>2 DEF Truthful
  <2>3. CASE store' = [store EXCEPT ![p] = Gone(@.rv + 1)]
    <3>1. new = Gone(old.rv + 1) BY <2>3 DEF TypeOK
    <3>2. new.rv = old.rv + 1 BY <3>1 DEF Gone, Policy
    <3> QED BY <1>1, <3>1, <3>2, GoneTruthful
  <2> QED BY <2>1, <2>2, <2>3 DEF EditPolicy
<1>4. ASSUME NEW copy \in PolicyObject, CopyOf(copy, old) PROVE CopyOf(copy, new)
  BY <1>1, <1>3, <1>4, PolicyFields DEF CopyOf
<1>5. UNCHANGED <<cache, pc, cur, work>> BY DEF EditPolicy, workVars
<1>6. \A q \in Policies : store'[q] = IF q = p THEN new ELSE store[q]
  BY <1>2 DEF TypeOK
<1>7. \A q \in Policies : /\ Truthful(store'[q]) /\ Truthful(cache[q])
                          /\ CopyOf(cache[q], store'[q])
  BY <1>3, <1>4, <1>6 DEF Counts, TypeOK
<1>8. pc # "idle" => work.exists /\ CopyOf(work, store'[cur])
  BY <1>4, <1>6, Busy DEF Counts, TypeOK
<1>9. Truthful(work) BY DEF Counts
<1> QED BY <1>5, <1>7, <1>8, <1>9 DEF Counts

LEMMA ReconcileCounts ==
  ASSUME TypeOK, Counts, NEW p \in Policies, Reconcile(p)
  PROVE  Counts'
<1>1. CASE ReconcileGone(p) BY <1>1 DEF ReconcileGone, Counts, workVars
<1>2. CASE ReadFails(p) BY <1>2 DEF ReadFails, Counts, workVars
<1>3. CASE BeginCount(p)
  <2>1. /\ cur' = p /\ work' = cache[p] /\ cache[p].exists /\ UNCHANGED <<store, cache>>
    BY <1>3 DEF BeginCount
  <2> QED BY <2>1 DEF Counts
<1> QED BY <1>1, <1>2, <1>3 DEF Reconcile

LEMMA CountCounts ==
  ASSUME TypeOK, Counts, ListDeployments \/ ListFails \/ Counted
  PROVE  Counts'
<1>1. CASE ListDeployments BY <1>1 DEF ListDeployments, Counts
<1>2. ASSUME NEW obj \in PolicyObject, NEW status, work' = Condition(obj, status),
             obj.exists = work.exists, obj.rv = work.rv, obj.gen = work.gen,
             obj.sel = work.sel, status = "False" \/ obj.counted = obj.sel,
             pc # "idle", UNCHANGED <<store, cache, cur>>
      PROVE  Counts'
  <2>1. /\ work'.exists = work.exists /\ work'.rv = work.rv /\ work'.gen = work.gen
        /\ work'.sel = work.sel /\ work'.counted = obj.counted
        /\ work'.ready = status /\ work'.observed = work.gen
    BY <1>2 DEF Condition, PolicyObject
  <2>2. work.gen \in Nat BY PolicyFields DEF TypeOK
  <2>3. Truthful(work') BY <1>2, <2>1, <2>2 DEF Truthful
  <2>4. work'.exists /\ CopyOf(work', store[cur])
    BY <1>2, <2>1 DEF Counts, CopyOf
  <2> QED BY <1>2, <2>3, <2>4 DEF Counts
<1>3. CASE ListFails
  BY <1>2, <1>3 DEF ListFails, TypeOK
<1>4. CASE Counted
  <2> DEFINE obj == [work EXCEPT !.watched = count, !.stamp = now, !.counted = work.sel]
  <2>1. work \in PolicyObject /\ count \in Nat /\ now \in Int BY DEF TypeOK
  <2>2. /\ obj.exists = work.exists /\ obj.rv = work.rv /\ obj.gen = work.gen
        /\ obj.sel = work.sel /\ obj.counted = obj.sel
    BY <2>1 DEF PolicyObject
  <2>3. obj \in PolicyObject
    <3>1. [work EXCEPT !.watched = count, !.stamp = now] \in PolicyObject
      BY <2>1 DEF PolicyObject
    <3> QED BY <2>1, <3>1 DEF PolicyObject
  <2>4. /\ work' = Condition(obj, "True") /\ pc # "idle" /\ UNCHANGED <<store, cache, cur>>
    BY <1>4 DEF Counted
  <2> HIDE DEF obj
  <2> QED BY <1>2, <2>2, <2>3, <2>4
<1> QED BY <1>1, <1>3, <1>4

LEMMA EnvironmentCounts ==
  ASSUME TypeOK, Counts, Environment
  PROVE  Counts'
<1>1. ASSUME NEW obj \in PolicyObject PROVE CopyOf(obj, obj)
  BY PolicyFields DEF CopyOf
<1>2. ASSUME NEW p \in Policies, SyncPolicy(p) PROVE Counts'
  BY <1>1, <1>2 DEF SyncPolicy, Counts, TypeOK, workVars
<1>3. ASSUME NEW p \in Policies, TimerFires(p) PROVE Counts'
  BY <1>3 DEF TimerFires, Counts, workVars
<1>4. ASSUME NEW d \in Deployments, ChangeDeployment(d) PROVE Counts'
  BY <1>4 DEF ChangeDeployment, Counts, workVars
<1>5. ASSUME NEW d \in Deployments, SyncDeployment(d) PROVE Counts'
  BY <1>5 DEF SyncDeployment, Counts, workVars
<1>6. CASE Tick BY <1>6 DEF Tick, Counts, workVars
<1>7. CASE Restart
  <2>1. cache' = store /\ UNCHANGED store /\ pc' = "idle" /\ Truthful(work')
    BY <1>7, GoneTruthful DEF Restart
  <2> QED BY <1>1, <2>1 DEF Counts, TypeOK
<1> QED BY <1>2, <1>3, <1>4, <1>5, <1>6, <1>7, EditCounts DEF Environment

LEMMA NextCounts == TypeOK /\ Counts /\ [Next]_vars => Counts'
<1> SUFFICES ASSUME TypeOK, Counts, [Next]_vars PROVE Counts' OBVIOUS
<1>1. CASE WorkStep BY <1>1, CountCounts, WriteCounts DEF WorkStep
<1>2. CASE UNCHANGED vars BY <1>2 DEF Counts, vars, workVars
<1>3. CASE Quiet BY <1>2, <1>3 DEF Quiet
<1> QED BY <1>1, <1>2, <1>3, ReconcileCounts, EnvironmentCounts DEF Next

(* No interleaving of edits, late caches, refused and lost writes, failed
   counts and crashes leaves a policy Ready at its present generation with the
   count of another selector, for any number of policies and Deployments. *)
THEOREM ReadyIsCounted == Spec => []ReadyMeansCounted
<1>1. Counts => ReadyMeansCounted BY DEF Counts, Truthful, ReadyMeansCounted
<1> QED BY <1>1, InitCounts, NextCounts, PolicyTypeCorrect, PTL DEF Spec


-----------------------------------------------------------------------------
(* SelfWakeEnds.  What a reconcile counts is a sum over the namespaces it lists.
   Tallies is the set of the sums' intermediate results: instead of a definition
   of the sum by recursion, the invariant says that there is such a list and
   that all of them end with the count, which makes the count unique. *)
Lists(sel) == IF sel.namespaces = <<>> THEN <<AllNamespaces>> ELSE sel.namespaces

Found(sel, namespace) ==
  {d \in Deployments : /\ deploymentCache[d] # NoDeployment
                       /\ namespace \in {AllNamespaces, Namespace[d]}
                       /\ deploymentMatchesSelector(deploymentCache[d], sel)}

Tallies(sel, k) ==
  {t \in [0..k -> Nat] :
     /\ t[0] = 0
     /\ \A i \in 1..k : t[i] = t[i-1] + Cardinality(Found(sel, Lists(sel)[i]))}

Tally(sel, k, n) ==
  /\ \E t \in Tallies(sel, k) : t[k] = n
  /\ \A t \in Tallies(sel, k) : t[k] = n

(* The status a reconcile ends with that starts from obj here and now. *)
Fresh(obj) ==
  /\ obj.stamp = now /\ obj.ready = "True" /\ obj.observed = obj.gen
  /\ obj.counted = obj.sel
  /\ Tally(obj.sel, Len(Lists(obj.sel)), obj.watched)

(* A reconcile whose write can succeed although a write has succeeded since
   anything else happened: it has begun after that write. *)
Woken == pc # "idle" /\ writes[cur] >= 1 /\ work.rv = store[cur].rv

Wakes ==
  /\ \A p \in Policies : writes[p] <= 2 /\ (writes[p] = 2 => Fresh(store[p]))
  /\ Woken =>
       /\ pc # "error"
       /\ pc = "count" =>
            LET k == Len(Lists(work.sel)) - Len(left) IN
            /\ k >= 0 /\ left = SubSeq(Lists(work.sel), k+1, Len(Lists(work.sel)))
            /\ Tally(work.sel, k, count)
       /\ pc = "update" => Fresh(work)

LEMMA ListsType ==
  ASSUME NEW sel \in Selectors
  PROVE  Lists(sel) \in Seq(Namespaces \cup {AllNamespaces})
<1>1. <<AllNamespaces>> \in Seq(Namespaces \cup {AllNamespaces}) OBVIOUS
<1> QED BY <1>1, NamespacesListed DEF Lists

LEMMA FoundFinite ==
  ASSUME NEW sel, NEW ns
  PROVE  Cardinality(Found(sel, ns)) \in Nat
<1>1. IsFiniteSet(Deployments) BY PolicyConstantsOK DEF PolicyConstantsOK
<1>2. Found(sel, ns) \subseteq Deployments BY DEF Found
<1> QED BY <1>1, <1>2, FS_Subset, FS_CardinalityType

LEMMA TallyBegins ==
  ASSUME NEW sel
  PROVE  Tally(sel, 0, 0)
<1>1. [i \in 0..0 |-> 0] \in Tallies(sel, 0) BY DEF Tallies
<1>2. [i \in 0..0 |-> 0][0] = 0 OBVIOUS
<1>3. \A t \in Tallies(sel, 0) : t[0] = 0 BY DEF Tallies
<1> QED BY <1>1, <1>2, <1>3 DEF Tally

LEMMA TallyGoesOn ==
  ASSUME NEW sel, NEW k \in Nat, NEW n \in Nat, Tally(sel, k, n)
  PROVE  Tally(sel, k+1, n + Cardinality(Found(sel, Lists(sel)[k+1])))
<1> DEFINE more == Cardinality(Found(sel, Lists(sel)[k+1]))
<1>1. more \in Nat BY FoundFinite
<1>2. ASSUME NEW t \in Tallies(sel, k+1)
      PROVE  t[k+1] = n + more
  <2> DEFINE s == [i \in 0..k |-> t[i]]
  <2>1. /\ t \in [0..(k+1) -> Nat] /\ t[0] = 0
        /\ \A i \in 1..(k+1) : t[i] = t[i-1] + Cardinality(Found(sel, Lists(sel)[i]))
    BY DEF Tallies
  <2>2. s \in [0..k -> Nat] /\ s[0] = 0
    BY <2>1
  <2>3. ASSUME NEW i \in 1..k
        PROVE  s[i] = s[i-1] + Cardinality(Found(sel, Lists(sel)[i]))
    <3>1. i \in 0..k /\ i-1 \in 0..k /\ i \in 1..(k+1) OBVIOUS
    <3> QED BY <2>1, <3>1
  <2>4. s \in Tallies(sel, k) BY <2>2, <2>3 DEF Tallies
  <2>5. t[k] = n
    <3>1. s[k] = n BY <2>4 DEF Tally
    <3> QED BY <3>1
  <2>6. k+1 \in 1..(k+1) /\ (k+1)-1 = k OBVIOUS
  <2> QED BY <2>1, <2>5, <2>6
<1>3. \E t \in Tallies(sel, k+1) : TRUE
  <2>1. PICK t \in Tallies(sel, k) : t[k] = n BY DEF Tally
  <2> DEFINE s == [i \in 0..(k+1) |-> IF i = k+1 THEN n + more ELSE t[i]]
  <2>2. /\ t \in [0..k -> Nat] /\ t[0] = 0
        /\ \A i \in 1..k : t[i] = t[i-1] + Cardinality(Found(sel, Lists(sel)[i]))
    BY DEF Tallies
  <2>3. s \in [0..(k+1) -> Nat] /\ s[0] = 0
    BY <1>1, <2>2
  <2>4. ASSUME NEW i \in 1..(k+1)
        PROVE  s[i] = s[i-1] + Cardinality(Found(sel, Lists(sel)[i]))
    <3>1. i \in 0..(k+1) /\ i-1 \in 0..(k+1) /\ i-1 # k+1 OBVIOUS
    <3>2. s[i-1] = t[i-1] BY <3>1
    <3>3. CASE i = k+1
      <4>1. s[i] = n + more BY <3>1, <3>3
      <4>2. i-1 = k BY <3>3
      <4> QED BY <2>1, <3>2, <3>3, <4>1, <4>2
    <3>4. CASE i # k+1
      <4>1. i \in 1..k BY <3>4
      <4>2. s[i] = t[i] BY <3>1, <3>4
      <4> QED BY <2>2, <3>2, <4>1, <4>2
    <3> QED BY <3>3, <3>4
  <2>5. s \in Tallies(sel, k+1) BY <2>3, <2>4 DEF Tallies
  <2> QED BY <2>5
<1> QED BY <1>2, <1>3 DEF Tally

(* A count made twice in the same situation is the same: the second write of it
   changes nothing. *)
LEMMA FreshAgain ==
  ASSUME NEW old \in PolicyObject, NEW new \in PolicyObject, Fresh(old), Fresh(new),
         new.sel = old.sel, new.gen = old.gen
  PROVE  Saved(old, new) = old
<1>1. new.watched = old.watched BY DEF Fresh, Tally
<1>2. /\ new.stamp = old.stamp /\ new.ready = old.ready /\ new.observed = old.observed
      /\ new.counted = old.counted
  BY DEF Fresh
<1>3. Status(old, new) = old BY <1>1, <1>2 DEF Status, PolicyObject
<1> QED BY <1>3 DEF Saved, Changes

LEMMA SavedFresh ==
  ASSUME NEW old \in PolicyObject, NEW new \in PolicyObject, Fresh(new),
         new.sel = old.sel, new.gen = old.gen
  PROVE  Fresh(Saved(old, new))
<1> DEFINE obj == Saved(old, new)
<1>1. /\ obj.stamp = new.stamp /\ obj.ready = new.ready /\ obj.observed = new.observed
      /\ obj.counted = new.counted /\ obj.watched = new.watched
      /\ obj.sel = new.sel /\ obj.gen = new.gen
  <2>1. CASE obj = [Status(old, new) EXCEPT !.rv = @ + 1]
    BY <2>1 DEF Status, PolicyObject
  <2>2. CASE obj = old /\ Status(old, new) = old
    <3>1. /\ Status(old, new).stamp = new.stamp /\ Status(old, new).ready = new.ready
          /\ Status(old, new).observed = new.observed
          /\ Status(old, new).counted = new.counted
          /\ Status(old, new).watched = new.watched
      BY DEF Status, PolicyObject
    <3> QED BY <2>2, <3>1
  <2> QED BY <2>1, <2>2 DEF Saved, Changes
<1>2. Fresh(obj)
  <2> HIDE DEF obj
  <2> QED BY <1>1 DEF Fresh
<1> QED BY <1>2

(* A new situation needs no argument: nobody has written in it yet. *)
LEMMA NewSituationWakes ==
  ASSUME NewSituation, pc' # "idle" => cur' \in Policies
  PROVE  Wakes'
<1>1. \A p \in Policies : writes'[p] = 0 BY DEF NewSituation
<1> QED BY <1>1 DEF Wakes, Woken

(* Fresh and Tally depend on the Deployments as cached and the second. *)
LEMMA FreshStays ==
  ASSUME UNCHANGED <<deploymentCache, now>>
  PROVE  /\ \A sel : \A k, n : Tally(sel, k, n)' <=> Tally(sel, k, n)
         /\ \A obj : Fresh(obj)' <=> Fresh(obj)
<1>1. \A sel, ns : Found(sel, ns)' = Found(sel, ns) BY DEF Found
<1>2. \A sel, k : Tallies(sel, k)' = Tallies(sel, k) BY <1>1 DEF Tallies
<1>3. \A sel, k, n : Tally(sel, k, n)' <=> Tally(sel, k, n) BY <1>2 DEF Tally
<1> QED BY <1>3 DEF Fresh

LEMMA SameWakes ==
  ASSUME Wakes, UNCHANGED <<store, deploymentCache, workVars, writes, now>>
  PROVE  Wakes'
<1>1. Woken' <=> Woken BY DEF Woken, workVars
<1> QED BY <1>1, FreshStays DEF Wakes, workVars

LEMMA ReconcileWakes ==
  ASSUME TypeOK, Counts, Wakes, NEW p \in Policies, Reconcile(p)
  PROVE  Wakes'
<1>1. CASE ReconcileGone(p) BY <1>1, SameWakes DEF ReconcileGone, envVars
<1>2. CASE ReadFails(p)
  BY <1>2, NewSituationWakes, Busy DEF ReadFails, workVars
<1>3. CASE BeginCount(p)
  <2>1. /\ pc' = "count" /\ cur' = p /\ work' = cache[p] /\ count' = 0
        /\ UNCHANGED <<store, deploymentCache, writes, now>>
    BY <1>3 DEF BeginCount, envVars
  <2>2. left' = Lists(work'.sel) BY <1>3, <2>1 DEF BeginCount, Lists
  <2>3. work'.sel \in Selectors BY <2>1, PolicyFields DEF TypeOK
  <2>4. left' \in Seq(Namespaces \cup {AllNamespaces}) BY <2>2, <2>3, ListsType
  <2>5. LET k == Len(Lists(work'.sel)) - Len(left') IN
        /\ k >= 0 /\ left' = SubSeq(Lists(work'.sel), k+1, Len(Lists(work'.sel)))
        /\ Tally(work'.sel, k, count')
    <3>1. Len(left') - Len(left') = 0 /\ left' = SubSeq(left', 1, Len(left'))
      BY <2>4
    <3>2. Tally(work'.sel, 0, count') BY <2>1, TallyBegins
    <3> QED BY <2>2, <3>1, <3>2
  <2>7. \A q \in Policies : writes'[q] <= 2 /\ (writes'[q] = 2 => Fresh(store'[q]))
    BY <2>1, FreshStays DEF Wakes
  <2> QED BY <2>1, <2>5, <2>7, FreshStays DEF Wakes
<1> QED BY <1>1, <1>2, <1>3 DEF Reconcile

LEMMA CountWakes ==
  ASSUME TypeOK, Counts, Wakes, ListDeployments \/ ListFails \/ Counted
  PROVE  Wakes'
<1>1. pc = "count" /\ cur \in Policies
  BY Busy DEF ListDeployments, ListFails, Counted
<1>2. CASE ListFails
  BY <1>1, <1>2, NewSituationWakes DEF ListFails
<1>3. work \in PolicyObject /\ work.sel \in Selectors /\ count \in Nat /\ now \in Int
  BY PolicyFields DEF TypeOK
<1> DEFINE all == Lists(work.sel)
           k == Len(all) - Len(left)
<1>4. all \in Seq(Namespaces \cup {AllNamespaces})
      /\ left \in Seq(Namespaces \cup {AllNamespaces})
  BY <1>3, ListsType DEF TypeOK
<1>5. CASE ListDeployments
  <2>1. /\ UNCHANGED <<store, deploymentCache, writes, now, pc, cur, work>>
        /\ left # <<>> /\ left' = Tail(left)
        /\ count' = count + Cardinality(Matching(Head(left)))
    BY <1>5 DEF ListDeployments, envVars
  <2>2. Woken' <=> Woken BY <2>1 DEF Woken
  <2>3. ASSUME Woken
        PROVE  LET j == Len(all) - Len(left') IN
               /\ j >= 0 /\ left' = SubSeq(all, j+1, Len(all))
               /\ Tally(work.sel, j, count')
    <3>1. k >= 0 /\ left = SubSeq(all, k+1, Len(all)) /\ Tally(work.sel, k, count)
      BY <1>1, <2>3 DEF Wakes
    <3>2. k \in Nat /\ Len(left) \in Nat \ {0} /\ Len(all) \in Nat
      BY <1>4, <2>1, <3>1
    <3>3. Head(left) = all[k+1]
      <4> HIDE DEF all, k
      <4> QED BY <1>4, <2>1, <3>1, <3>2
    <3>4. Len(left') = Len(left) - 1 BY <1>4, <2>1
    <3>5. Len(all) - Len(left') = k + 1 BY <3>2, <3>4
    <3>6. left' = SubSeq(all, (k+1)+1, Len(all))
      <4> HIDE DEF all, k
      <4> QED BY <1>4, <2>1, <3>1, <3>2
    <3>7. Matching(Head(left)) = Found(work.sel, all[k+1])
      BY <3>3 DEF Matching, Found
    <3>8. Tally(work.sel, k+1, count')
      BY <1>3, <2>1, <3>1, <3>2, <3>7, TallyGoesOn
    <3>9. k + 1 >= 0 BY <3>2
    <3> HIDE DEF all, k
    <3> QED BY <3>5, <3>6, <3>8, <3>9
  <2>4. \A p \in Policies : writes'[p] <= 2 /\ (writes'[p] = 2 => Fresh(store'[p]))
    BY <2>1, FreshStays DEF Wakes
  <2> QED BY <1>1, <2>1, <2>2, <2>3, <2>4, FreshStays DEF Wakes
<1>6. CASE Counted
  <2>1. /\ UNCHANGED <<store, deploymentCache, writes, now, cur>>
        /\ left = <<>> /\ pc' = "update"
        /\ work' = Condition([work EXCEPT !.watched = count, !.stamp = now,
                                          !.counted = work.sel], "True")
    BY <1>6 DEF Counted, envVars
  <2>2. /\ work'.rv = work.rv /\ work'.sel = work.sel /\ work'.gen = work.gen
        /\ work'.watched = count /\ work'.stamp = now /\ work'.counted = work.sel
        /\ work'.ready = "True" /\ work'.observed = work.gen
    BY <1>3, <2>1 DEF Condition, PolicyObject
  <2>3. Woken' <=> Woken BY <1>1, <2>1, <2>2 DEF Woken
  <2>4. ASSUME Woken
        PROVE  Fresh(work')
    <3>1. Tally(work.sel, k, count) BY <1>1, <2>4 DEF Wakes
    <3>2. k = Len(all) BY <1>4, <2>1
    <3> QED BY <2>2, <3>1, <3>2 DEF Fresh
  <2>5. \A p \in Policies : writes'[p] <= 2 /\ (writes'[p] = 2 => Fresh(store'[p]))
    BY <2>1, FreshStays DEF Wakes
  <2> QED BY <2>1, <2>3, <2>4, <2>5, FreshStays DEF Wakes
<1> QED BY <1>2, <1>5, <1>6

LEMMA WriteWakes ==
  ASSUME TypeOK, Counts, Wakes, UpdateWritten \/ UpdateRejected \/ UpdateFails \/ ErrorReported
  PROVE  Wakes'
<1>1. pc # "idle" /\ pc # "count" /\ cur \in Policies
  BY Busy DEF UpdateWritten, UpdateRejected, UpdateFails, ErrorReported
<1>2. pc' = "idle"
  BY DEF UpdateWritten, UpdateRejected, UpdateFails, ErrorReported, Return
<1>3. CASE WriteFails
  BY <1>2, <1>3, NewSituationWakes DEF WriteFails
<1>4. UNCHANGED deploymentCache
  BY DEF UpdateWritten, UpdateRejected, UpdateFails, ErrorReported
<1>5. CASE UNCHANGED <<store, writes, now>>
  BY <1>2, <1>4, <1>5, FreshStays DEF Wakes, Woken
<1>6. CASE CanWrite /\ WriteStatus /\ UNCHANGED now /\ (pc = "update" \/ pc = "error")
  <2>1. store[cur] \in PolicyObject /\ work \in PolicyObject BY <1>1 DEF TypeOK
  <2>2. work.rv = store[cur].rv /\ work.sel = store[cur].sel /\ work.gen = store[cur].gen
    BY <1>1, <1>6 DEF Counts, CanWrite, CopyOf
  <2>3. \A p \in Policies :
          store'[p] = IF p = cur THEN Saved(store[cur], work) ELSE store[p]
    BY <1>6 DEF WriteStatus, TypeOK
  <2>4. ASSUME writes[cur] >= 1
        PROVE  Fresh(work)
    BY <1>1, <1>6, <2>2, <2>4 DEF Wakes, Woken
  <2>5. CASE store' = store
    BY <1>2, <1>4, <1>6, <2>5, FreshStays DEF WriteStatus, Wakes, Woken
  <2>6. CASE store' # store
    <3>1. writes[cur] \in Nat /\ writes[cur] <= 2 BY <1>1 DEF TypeOK, Wakes
    <3>2. writes[cur] # 2
      <4> SUFFICES ASSUME writes[cur] = 2 PROVE FALSE
        OBVIOUS
      <4>1. Fresh(store[cur]) BY <1>1 DEF Wakes
      <4>2. Saved(store[cur], work) = store[cur]
        BY <2>1, <2>2, <2>4, <4>1, FreshAgain
      <4>3. store' = store BY <1>6, <4>2 DEF WriteStatus, TypeOK
      <4> QED BY <2>6, <4>3
    <3>3. \A p \in Policies :
            writes'[p] = IF p = cur THEN writes[cur] + 1 ELSE writes[p]
      BY <1>6, <2>6 DEF WriteStatus, TypeOK
    <3>4. writes'[cur] <= 2 /\ (writes'[cur] = 2 => Fresh(store'[cur]))
      <4>1. writes'[cur] = writes[cur] + 1 BY <1>1, <3>3
      <4>2. writes'[cur] = 2 => Fresh(work) BY <2>4, <3>1, <4>1
      <4>3. store'[cur] = Saved(store[cur], work) BY <1>1, <2>3
      <4> QED BY <2>1, <2>2, <3>1, <3>2, <4>1, <4>2, <4>3, SavedFresh
    <3>5. \A p \in Policies : writes'[p] <= 2 /\ (writes'[p] = 2 => Fresh(store'[p]))
      BY <2>3, <3>3, <3>4 DEF Wakes
    <3> QED BY <1>2, <1>4, <1>6, <3>5, FreshStays DEF Wakes, Woken
  <2> QED BY <2>5, <2>6
<1> QED
  BY <1>3, <1>5, <1>6
     DEF UpdateWritten, UpdateRejected, UpdateFails, ErrorReported, envVars

LEMMA EnvironmentWakes ==
  ASSUME TypeOK, Counts, Wakes, Environment
  PROVE  Wakes'
<1>1. TypeOK' BY EnvironmentType
<1>2. pc' # "idle" => cur' \in Policies BY <1>1 DEF TypeOK
<1>3. CASE NewSituation BY <1>2, <1>3, NewSituationWakes
<1>4. ASSUME NEW p \in Policies, SyncPolicy(p) \/ TimerFires(p)
      PROVE  Wakes'
  BY <1>4, SameWakes DEF SyncPolicy, TimerFires, envVars
<1> QED
  BY <1>3, <1>4 DEF Environment, EditPolicy, ChangeDeployment, SyncDeployment, Tick, Restart

LEMMA NextWakes == TypeOK /\ Counts /\ Wakes /\ [Next]_vars => Wakes'
<1> SUFFICES ASSUME TypeOK, Counts, Wakes, [Next]_vars PROVE Wakes' OBVIOUS
<1>1. CASE WorkStep BY <1>1, CountWakes, WriteWakes DEF WorkStep
<1>2. CASE UNCHANGED vars BY <1>2, SameWakes DEF vars, envVars
<1>3. CASE Quiet BY <1>2, <1>3 DEF Quiet
<1> QED BY <1>1, <1>2, <1>3, ReconcileWakes, EnvironmentWakes DEF Next

(* The status writes by which the controller keeps waking itself die out: for any
   number of policies and Deployments, at most two of them change a policy before
   something else happens, as a count made again in the same second from the
   same Deployments is the same. *)
THEOREM SelfWakingEnds == Spec => []SelfWakeEnds
<1>1. Init => Wakes
  <2> SUFFICES ASSUME Init PROVE Wakes OBVIOUS
  <2>1. pc = "idle" /\ \A p \in Policies : writes[p] = 0 BY DEF Init
  <2> QED BY <2>1 DEF Wakes, Woken
<1>2. TypeOK /\ Counts /\ Wakes /\ [Next]_vars => (TypeOK /\ Counts /\ Wakes)'
  BY NextType, NextCounts, NextWakes
<1>3. Wakes => SelfWakeEnds BY DEF Wakes, SelfWakeEnds
<1> QED BY <1>1, <1>2, <1>3, InitType, InitCounts, PTL DEF Spec
=============================================================================
