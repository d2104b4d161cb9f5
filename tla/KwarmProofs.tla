----------------------------- MODULE KwarmProofs ------------------------------
(***************************************************************************)
(* That the PrePullImage controller, as the Deployment controller sees it, *)
(* does no more than module DeploymentController takes for granted: the    *)
(* composition of the two is a behaviour of that module, for any number of *)
(* Deployments, policies, images and nodes, and with crashes, conflicts,   *)
(* lost answers and late caches.  And that a node which is called          *)
(* Completed has the image of the PrePullImage that says so, and not the   *)
(* image of its predecessor of the same name; and that no Job is left      *)
(* behind.                                                                 *)
(***************************************************************************)
EXTENDS Kwarm, CompletionProofs

-----------------------------------------------------------------------------
(* The inductive invariant. *)

(* Every life of an object has its spec. *)
SpecsOK ==
  /\ specs \in [PPIs -> Seq(Specs)]
  /\ \A k \in PPIs : /\ Len(specs[k]) = store[k].uid
                     /\ store[k].exists => store[k].uid >= 1

KwarmInv == TypeOK /\ SoundInv /\ HoldInv /\ SpecsOK

-----------------------------------------------------------------------------
(* Steps of the composition are steps of the PrePullImage controller and its
   surroundings. *)

LEMMA KwarmStep ==
  ASSUME [KwarmNext]_allVars
  PROVE  [Next]_vars
<1>1. CASE PullStep
  BY <1>1 DEF PullStep, Next, Environment
<1>2. CASE RolloutStep
  BY <1>2 DEF RolloutStep
<1>3. CASE RolloutCreates
  BY <1>3 DEF RolloutCreates, CreateObject, Next, Environment
<1>4. CASE RolloutDeletes
  BY <1>4 DEF RolloutDeletes, Next, Environment
<1>5. CASE RestartAll
  BY <1>5 DEF RestartAll, Next, Environment
<1>6. CASE AllQuiet \/ UNCHANGED allVars
  BY <1>6 DEF AllQuiet, allVars
<1> QED
  BY <1>1, <1>2, <1>3, <1>4, <1>5, <1>6 DEF KwarmNext

(* What the PrePullImage controller does to an object k that is there. *)
Settling(k) == store[k].fin /\ ~Terminal(store[k]) /\ Terminal(store'[k])

PullMove(k) ==
  /\ store[k].exists /\ store'[k].uid = store[k].uid
  /\ \/ store[k].del /\ ~store'[k].exists /\ ~Terminal(store'[k])
     \/ /\ store'[k].exists
        /\ \/ /\ store'[k].fin = store[k].fin /\ store'[k].del = store[k].del
              /\ Terminal(store'[k]) = Terminal(store[k])
           \/ /\ ~store[k].fin /\ store'[k].fin /\ ~store[k].del /\ ~store'[k].del
              /\ Terminal(store'[k]) = Terminal(store[k])
           \/ /\ ~store[k].del /\ ~store'[k].del /\ store'[k].fin /\ Settling(k)
           \/ /\ Terminal(store[k]) /\ Terminal(store'[k]) /\ store[k].fin /\ store'[k].fin
              /\ ~store[k].del /\ store'[k].del

LEMMA WrittenMove ==
  ASSUME KwarmInv, NEW k \in PPIs, Wrote(k)
  PROVE  PullMove(k)
<1>1. /\ pc = "update" /\ cur = k /\ store[k].exists /\ ~Stale /\ work.exists
      /\ work \in Object /\ store[k] \in Object
  BY DEF Wrote, CanWrite, Stale, KwarmInv, SoundInv, WorkShape, TypeOK, WorkTypeOK,
     ClusterTypeOK
<1>2. work.uid = store[k].uid /\ work.del = store[k].del
  BY <1>1 DEF KwarmInv, HoldInv, HoldsFinalizer
<1>3. CASE work.del /\ ~work.fin
  <2>1. store'[k] = Absent(store[k].uid, store[k].rv + 1)
    BY <1>3 DEF Wrote
  <2>2. /\ store'[k].uid = store[k].uid /\ ~store'[k].exists /\ store[k].del
        /\ store'[k].phase = "Pending"
    BY <1>2, <1>3, <2>1, NewFields
  <2> QED
    BY <1>1, <2>2 DEF PullMove, Terminal
<1>4. CASE ~(work.del /\ ~work.fin)
  <2>1. /\ store'[k] = Bumped(work) /\ work.fin /\ ~work.del
    BY <1>1, <1>4 DEF Wrote, KwarmInv, SoundInv, WorkShape
  <2>2. /\ store'[k].exists /\ store'[k].uid = store[k].uid /\ store'[k].fin
        /\ ~store'[k].del /\ ~store[k].del /\ store'[k].phase = work.phase
    BY <1>1, <1>2, <2>1, BumpedFields
  <2>3. Writable(k, store[k], work)
    BY <1>1 DEF KwarmInv, SoundInv, WorkSound
  <2>4. store[k].fin \/ work.phase = store[k].phase
    BY <1>1, <2>1 DEF KwarmInv, HoldInv, HoldsFinalizer
  <2>5. Terminal(store[k]) => Terminal(store'[k])
    BY <2>1, <2>2, <2>3 DEF Writable, Same, Began, Advanced, Terminal
  <2>6. CASE Terminal(store'[k]) = Terminal(store[k])
    <3>1. store[k].fin \in BOOLEAN /\ store'[k].fin = TRUE /\ store'[k].del = store[k].del
      BY <1>1, <1>2, <2>1, ObjectFields, BumpedFields
    <3> QED
      BY <1>1, <2>2, <2>6, <3>1 DEF PullMove
  <2>7. CASE ~Terminal(store[k]) /\ Terminal(store'[k])
    <3>1. store[k].fin
      BY <2>2, <2>4, <2>7 DEF Terminal
    <3> QED
      BY <1>1, <2>2, <2>7, <3>1 DEF PullMove, Settling
  <2> QED
    BY <2>5, <2>6, <2>7 DEF Terminal
<1> QED
  BY <1>3, <1>4

LEMMA DeletedMove ==
  ASSUME KwarmInv, TTLDelete, store' # store
  PROVE  cur \in PPIs /\ OnlyAt(cur) /\ PullMove(cur)
<1>1. /\ pc = "ttlDelete" /\ cur \in PPIs /\ store[cur] \in Object
      /\ store \in [PPIs -> Object]
  BY DEF TTLDelete, KwarmInv, TypeOK, WorkTypeOK, ClusterTypeOK
<1>2. store[cur].exists /\ store[cur].fin /\ store[cur].phase \in {"Completed", "Failed"}
  BY <1>1 DEF KwarmInv, HoldInv, DeletesOnlyDone, Terminal
<1>3. DeleteObject(cur)
  BY DEF TTLDelete
<1>4. ~store[cur].del /\ store'[cur] = Bumped([store[cur] EXCEPT !.del = TRUE])
  BY <1>1, <1>2, <1>3 DEF DeleteObject
<1>5. OnlyAt(cur)
  BY <1>1, <1>3 DEF DeleteObject, OnlyAt
<1> QED
  BY <1>1, <1>2, <1>4, <1>5, MarkedFields DEF PullMove, Terminal

LEMMA PullMoves ==
  ASSUME KwarmInv, PullStep
  PROVE  UNCHANGED store \/ \E k \in PPIs : OnlyAt(k) /\ PullMove(k)
<1>1. TypeOK /\ store \in [PPIs -> Object]
  BY DEF KwarmInv, TypeOK, ClusterTypeOK
<1>2. ASSUME NEW p \in PPIs, Edit(p)
      PROVE  OnlyAt(p) /\ PullMove(p)
  <2>1. store[p].exists /\ store'[p] = Bumped(store[p]) /\ OnlyAt(p)
    BY <1>1, <1>2 DEF Edit, OnlyAt
  <2> QED
    BY <1>1, <2>1, BumpedFields DEF PullMove, Terminal
<1>3. CASE UpdateWritten \/ UpdateFails
  <2>1. UNCHANGED store \/ (cur \in PPIs /\ OnlyAt(cur) /\ Wrote(cur))
    BY <1>1, <1>3, PersistStep DEF UpdateWritten, UpdateFails, Return, Ended
  <2> QED
    BY <2>1, WrittenMove
<1>4. CASE TTLDelete
  BY <1>4, DeletedMove
<1>5. ASSUME NEW p \in PPIs, Reconcile(p)
      PROVE  UNCHANGED store
  BY <1>5 DEF Reconcile, ReconcileGone, ReconcileReadFails, AddFinalizer, handlePending,
     handleInProgress, handleCompleted, handleDeletion, Begin, clusterVars
<1>6. ASSUME NodeAction
      PROVE  UNCHANGED store
  BY <1>6, NodeMoves
<1>7. CASE FinishNodes \/ UpdateRejected \/ ReleaseNode \/ ListJobs \/ CleanupJob \/ CleanupEnds
  BY <1>7 DEF FinishNodes, UpdateRejected, ReleaseNode, ListJobs, CleanupJob, CleanupEnds,
     clusterVars
<1>8. ASSUME NEW p \in PPIs, SyncPPI(p) \/ TimerFires(p) \/ TTLElapses(p)
      PROVE  UNCHANGED store
  BY <1>8 DEF SyncPPI, TimerFires, TTLElapses, clusterVars
<1>9. ASSUME NEW j \in JobNames, SyncJob(j) \/ JobMoves(j) \/ JobExpires(j)
      PROVE  UNCHANGED store
  BY <1>9 DEF SyncJob, JobMoves, JobExpires, clusterVars
<1> QED
  BY <1>2, <1>3, <1>4, <1>5, <1>6, <1>7, <1>8, <1>9 DEF PullStep, WorkStep, NodeAction

LEMMA RestartsKept ==
  ASSUME PullStep
  PROVE  restarts' = restarts
<1>1. ASSUME NEW p \in PPIs, Reconcile(p)
      PROVE  restarts' = restarts
  BY <1>1 DEF Reconcile, ReconcileGone, ReconcileReadFails, AddFinalizer, handlePending,
     handleInProgress, handleCompleted, handleDeletion, Begin, envVars
<1>2. CASE NodeAction
  BY <1>2 DEF NodeAction, startPullJob, startPullJobFails, RateLimited, PullSucceeded,
     PullRetried, PullExhausted, PullRunning, NodeDone, NextNode
<1>3. CASE EndAction
  BY <1>3 DEF EndAction, FinishNodes, UpdateWritten, UpdateRejected, UpdateFails, TTLDelete,
     ReleaseNode, ListJobs, CleanupJob, CleanupEnds, envVars
<1>4. ASSUME NEW p \in PPIs, SyncPPI(p) \/ TimerFires(p) \/ TTLElapses(p) \/ Edit(p)
      PROVE  restarts' = restarts
  BY <1>4 DEF SyncPPI, TimerFires, TTLElapses, Edit, envVars
<1>5. ASSUME NEW j \in JobNames, SyncJob(j) \/ JobMoves(j) \/ JobExpires(j)
      PROVE  restarts' = restarts
  BY <1>5 DEF SyncJob, JobMoves, JobExpires, envVars
<1> QED
  BY <1>1, <1>2, <1>3, <1>4, <1>5 DEF PullStep, WorkStep, NodeAction, EndAction


LEMMA SpecsKept ==
  ASSUME KwarmInv, [KwarmNext]_allVars
  PROVE  SpecsOK'
<1>1. TypeOK /\ store \in [PPIs -> Object]
  BY DEF KwarmInv, TypeOK, ClusterTypeOK
<1>2. ASSUME specs' = specs,
             \A k \in PPIs : /\ store'[k].uid = store[k].uid
                             /\ store'[k].exists => store[k].exists
      PROVE  SpecsOK'
  BY <1>2 DEF KwarmInv, SpecsOK
<1>3. CASE PullStep
  <2>1. \A k \in PPIs : /\ store'[k].uid = store[k].uid
                        /\ store'[k].exists => store[k].exists
    BY <1>3, PullMoves DEF PullMove, OnlyAt
  <2> QED
    BY <1>2, <1>3, <2>1 DEF PullStep
<1>4. CASE RolloutCreates
  <2>1. PICK k \in PPIs, spec \in Specs : CreateObject(k, spec)
    BY <1>4 DEF RolloutCreates
  <2>2. /\ OnlyAt(k) /\ store'[k] = Fresh(store[k].uid + 1, store[k].rv + 1)
        /\ specs' = [specs EXCEPT ![k] = Append(@, spec)]
    BY <1>1, <2>1 DEF CreateObject, Create, OnlyAt
  <2>3. store'[k].uid = store[k].uid + 1 /\ store[k].uid \in Nat
    BY <1>1, <2>2, NewFields, ObjectFields
  <2>4. specs \in [PPIs -> Seq(Specs)] /\ Len(specs[k]) = store[k].uid
    BY DEF KwarmInv, SpecsOK
  <2>5. specs' \in [PPIs -> Seq(Specs)] /\ Len(specs'[k]) = store[k].uid + 1
    BY <2>2, <2>4
  <2>6. ASSUME NEW p \in PPIs \ {k}
        PROVE  specs'[p] = specs[p] /\ store'[p] = store[p]
    BY <2>2, <2>4 DEF OnlyAt
  <2>7. ASSUME NEW p \in PPIs
        PROVE  Len(specs'[p]) = store'[p].uid /\ (store'[p].exists => store'[p].uid >= 1)
    <3>1. CASE p = k
      BY <2>3, <2>5, <3>1
    <3>2. CASE p # k
      BY <2>6, <3>2 DEF KwarmInv, SpecsOK
    <3> QED
      BY <3>1, <3>2
  <2> QED
    BY <2>5, <2>7 DEF SpecsOK
<1>5. CASE RolloutDeletes
  <2>1. PICK k \in PPIs : Delete(k)
    BY <1>5 DEF RolloutDeletes
  <2>2. store[k] \in Object /\ store[k].exists
    BY <1>1, <2>1 DEF Delete
  <2>3. UNCHANGED store \/ (OnlyAt(k) /\ Changed(k))
    BY <1>1, <2>1, DeleteStep DEF Delete
  <2>4. store'[k].uid = store[k].uid
    BY <2>2, <2>3, NewFields, MarkedFields, BumpedFields DEF Changed
  <2> QED
    BY <1>2, <1>5, <2>2, <2>3, <2>4 DEF RolloutDeletes, pullVars, OnlyAt
<1>6. CASE RolloutStep \/ RestartAll \/ AllQuiet \/ UNCHANGED allVars
  BY <1>2, <1>6 DEF RolloutStep, RestartAll, Restart, AllQuiet, allVars, vars, clusterVars,
     pullVars
<1> QED
  BY <1>3, <1>4, <1>5, <1>6 DEF KwarmNext

LEMMA KwarmInvInit == KwarmInit => KwarmInv
<1> SUFFICES ASSUME KwarmInit
             PROVE  KwarmInv
  OBVIOUS
<1>1. TypeOK /\ SoundInv
  BY InitType, SoundInit DEF KwarmInit
<1>2. HoldInv
  BY HoldInit DEF KwarmInit
<1>3. SpecsOK
  BY NewFields DEF KwarmInit, Init, SpecsOK
<1> QED
  BY <1>1, <1>2, <1>3 DEF KwarmInv

LEMMA KwarmInvNext ==
  ASSUME KwarmInv, [KwarmNext]_allVars
  PROVE  KwarmInv'
<1>1. [Next]_vars
  BY KwarmStep
<1>2. TypeOK' /\ SoundInv' /\ HoldInv'
  BY <1>1, NextType, SoundNext, HoldNext DEF KwarmInv
<1> QED
  BY <1>2, SpecsKept DEF KwarmInv

-----------------------------------------------------------------------------
(* The PrePullImages as the Deployment controller sees them. *)

LEMMA PPISeen ==
  ASSUME KwarmInv, NEW k \in PPIs, store[k].exists
  PROVE  /\ ppis[k] = [owner |-> specOf(k).owner, uid |-> specOf(k).uid,
                       image |-> specOf(k).image, fin |-> store[k].fin,
                       del |-> store[k].del, done |-> Terminal(store[k])]
         /\ ppis[k] # NoPPI
<1>1. store[k] \in Object
  BY DEF KwarmInv, TypeOK, ClusterTypeOK
<1>2. specOf(k) \in Specs
  <2>1. specs[k] \in Seq(Specs) /\ store[k].uid \in 1..Len(specs[k])
    BY <1>1, ObjectFields DEF KwarmInv, SpecsOK
  <2> QED
    BY <2>1 DEF specOf
<1>3. ppis[k] = [owner |-> specOf(k).owner, uid |-> specOf(k).uid,
                 image |-> specOf(k).image, fin |-> store[k].fin,
                 del |-> store[k].del, done |-> Terminal(store[k])]
  BY DEF ppis
<1>4. /\ specOf(k).owner \in Deployments /\ specOf(k).uid \in Nat
      /\ specOf(k).image \in Images
  BY <1>2 DEF Specs
<1>5. store[k].fin \in BOOLEAN /\ store[k].del \in BOOLEAN /\ Terminal(store[k]) \in BOOLEAN
  BY <1>1, ObjectFields DEF Terminal
<1>6. ppis[k] \in Rollouts!PPIObject
  BY <1>3, <1>4, <1>5 DEF Rollouts!PPIObject
<1> QED
  BY <1>3, <1>6, NoPPIIsNoObject

LEMMA OnePPI ==
  ASSUME NEW k \in PPIs, OnlyAt(k), store'[k].uid = store[k].uid, specs' = specs
  PROVE  /\ ppis' = [ppis EXCEPT ![k] = ppis'[k]]
         /\ store'[k].exists =>
              ppis'[k] = [owner |-> specOf(k).owner, uid |-> specOf(k).uid,
                          image |-> specOf(k).image, fin |-> store'[k].fin,
                          del |-> store'[k].del, done |-> Terminal(store'[k])]
         /\ ~store'[k].exists => ppis'[k] = NoPPI
<1>1. \A p \in PPIs : store'[p].uid = store[p].uid
  BY DEF OnlyAt
<1>2. \A p \in PPIs \ {k} : ppis'[p] = ppis[p]
  BY DEF ppis, specOf, OnlyAt, Terminal
<1>3. ppis = [p \in PPIs |-> ppis[p]] /\ ppis' = [p \in PPIs |-> ppis'[p]]
  BY DEF ppis
<1>4. ppis' = [ppis EXCEPT ![k] = ppis'[k]]
  BY <1>2, <1>3
<1> QED
  BY <1>4 DEF ppis, specOf, Terminal


LEMMA SettledBy ==
  ASSUME NEW k \in PPIs, OnlyAt(k)
  PROVE  /\ ~Terminal(store[k]) /\ Terminal(store'[k])
              => NewlySettled = {<<specOf(k).owner, specOf(k).image>>}
         /\ Terminal(store[k]) \/ ~Terminal(store'[k]) => NewlySettled = {}
BY DEF NewlySettled, OnlyAt, Terminal

LEMMA PPIFields ==
  ASSUME NEW o, NEW u, NEW i, NEW f, NEW d, NEW e, NEW x, NEW ppi,
         ppi = [owner |-> o, uid |-> u, image |-> i, fin |-> f, del |-> d, done |-> e]
  PROVE  /\ ppi.fin = f /\ ppi.del = d /\ ppi.done = e /\ ppi.owner = o /\ ppi.image = i
         /\ [ppi EXCEPT !.fin = x] =
              [owner |-> o, uid |-> u, image |-> i, fin |-> x, del |-> d, done |-> e]
         /\ [ppi EXCEPT !.done = x] =
              [owner |-> o, uid |-> u, image |-> i, fin |-> f, del |-> d, done |-> x]
         /\ [ppi EXCEPT !.del = x] =
              [owner |-> o, uid |-> u, image |-> i, fin |-> f, del |-> x, done |-> e]
OBVIOUS

(* The Deployment controller's own state is left alone. *)
LEMMA RolloutAside ==
  ASSUME PullStep
  PROVE  /\ specs' = specs /\ settled' = settled \cup NewlySettled
         /\ UNCHANGED <<deployments, dCache, dQueue, dTimer, Rollouts!workVars,
                        Rollouts!envVars>>
<1>1. /\ specs' = specs /\ settled' = settled \cup NewlySettled
      /\ UNCHANGED rolloutVars /\ restarts' = restarts
  BY RestartsKept DEF PullStep
<1> QED
  BY <1>1 DEF rolloutVars, Rollouts!workVars, Rollouts!envVars, Rollouts!userVars

(* The informer's cache is the same for both: an event is one for both, ... *)
LEMMA SyncIsSync ==
  ASSUME KwarmInv, PullStep, NEW k \in PPIs, SyncPPI(k)
  PROVE  UNCHANGED ppiCache \/ Rollouts!SyncPPI(k)
<1>1. /\ UNCHANGED <<store, specs>> /\ cache' = [cache EXCEPT ![k] = store[k]]
      /\ cache \in [PPIs -> Object]
  BY RolloutAside DEF SyncPPI, clusterVars, KwarmInv, TypeOK, ManagerTypeOK
<1>2. /\ UNCHANGED <<deployments, dCache, dQueue, dTimer, Rollouts!workVars,
                     Rollouts!envVars>>
      /\ settled' = settled \cup NewlySettled
  BY RolloutAside
<1>3. NewlySettled = {} /\ ppis' = ppis
  BY <1>1 DEF NewlySettled, Terminal, ppis, specOf
<1>4. \A p \in PPIs \ {k} : ppiCache'[p] = ppiCache[p]
  BY <1>1 DEF ppiCache, cachedSpecOf
<1>5. /\ ppiCache = [p \in PPIs |-> ppiCache[p]]
      /\ ppiCache' = [p \in PPIs |-> ppiCache'[p]]
  BY DEF ppiCache
<1>6. PPILag => ppiCache'[k] = Rollouts!imagesOfPPIs[k]
  <2>1. Rollouts!imagesOfPPIs[k] = IF ppis[k] = NoPPI THEN NoPPI ELSE ppis[k].image
    BY SameObjects DEF Rollouts!imagesOfPPIs, Rollouts!ImageOf
  <2>2. cache'[k] = store[k]
    BY <1>1
  <2>3. CASE store[k].exists
    <3> DEFINE spec == specOf(k)
    <3>1. /\ ppis[k] # NoPPI
          /\ ppis[k] = [owner |-> spec.owner, uid |-> spec.uid, image |-> spec.image,
                        fin |-> store[k].fin, del |-> store[k].del,
                        done |-> Terminal(store[k])]
      BY <2>3, PPISeen
    <3> HIDE DEF spec
    <3>2. ppis[k].image = spec.image
      BY <3>1
    <3> QED
      BY <1>1, <2>1, <2>2, <2>3, <3>1, <3>2 DEF spec, ppiCache, cachedSpecOf, specOf
  <2>4. CASE ~store[k].exists
    <3>1. ppis[k] = NoPPI
      BY <2>4 DEF ppis
    <3> QED
      BY <2>1, <2>2, <2>4, <3>1 DEF ppiCache
  <2> QED
    BY <2>3, <2>4
<1>7. CASE ~PPILag
  BY <1>7 DEF ppiCache
<1>8. CASE ppiCache'[k] = ppiCache[k]
  BY <1>4, <1>5, <1>8
<1>9. CASE PPILag /\ ppiCache'[k] # ppiCache[k]
  <2>1. ppiCache' = [ppiCache EXCEPT ![k] = Rollouts!imagesOfPPIs[k]]
    BY <1>4, <1>5, <1>6, <1>9
  <2> QED
    BY <1>2, <1>3, <1>6, <1>9, <2>1 DEF Rollouts!SyncPPI
<1> QED
  BY <1>7, <1>8, <1>9

(* ... and no other step changes it. *)
LEMMA CacheAside ==
  ASSUME PullStep
  PROVE  (\E k \in PPIs : SyncPPI(k)) \/ UNCHANGED ppiCache
<1>1. ASSUME UNCHANGED cache
      PROVE  UNCHANGED ppiCache
  BY <1>1, RolloutAside DEF ppiCache, cachedSpecOf
<1>2. ASSUME NEW p \in PPIs, Reconcile(p)
      PROVE  UNCHANGED cache
  BY <1>2 DEF Reconcile, ReconcileGone, ReconcileReadFails, AddFinalizer, handlePending,
     handleInProgress, handleCompleted, handleDeletion, Begin
<1>3. ASSUME NodeAction
      PROVE  UNCHANGED cache
  BY <1>3, NodeMoves
<1>4. CASE EndAction
  BY <1>1, <1>4 DEF EndAction, FinishNodes, UpdateWritten, UpdateRejected, UpdateFails,
     TTLDelete, ReleaseNode, ListJobs, CleanupJob, CleanupEnds
<1>5. ASSUME NEW p \in PPIs, TimerFires(p) \/ TTLElapses(p) \/ Edit(p)
      PROVE  UNCHANGED cache
  BY <1>5 DEF TimerFires, TTLElapses, Edit
<1>6. ASSUME NEW j \in JobNames, SyncJob(j) \/ JobMoves(j) \/ JobExpires(j)
      PROVE  UNCHANGED cache
  BY <1>6 DEF SyncJob, JobMoves, JobExpires
<1> QED
  BY <1>1, <1>2, <1>3, <1>4, <1>5, <1>6 DEF PullStep, WorkStep, NodeAction, EndAction

(* What it takes for granted of the other controller, step by step. *)
LEMMA PullIsPPIStep ==
  ASSUME KwarmInv, PullStep, UNCHANGED ppiCache, NEW k \in PPIs, OnlyAt(k), PullMove(k)
  PROVE  UNCHANGED <<ppis, settled>> \/ Rollouts!PPIStep(k)
<1> DEFINE old == ppis[k]
           new == ppis'[k]
<1>1. /\ UNCHANGED <<deployments, dCache, dQueue, dTimer, Rollouts!workVars,
                     Rollouts!envVars>>
      /\ specs' = specs /\ settled' = settled \cup NewlySettled
  BY RolloutAside
<1>2. store[k].exists /\ store'[k].uid = store[k].uid
  BY DEF PullMove
<1>3. /\ old # NoPPI
      /\ old = [owner |-> specOf(k).owner, uid |-> specOf(k).uid, image |-> specOf(k).image,
                fin |-> store[k].fin, del |-> store[k].del, done |-> Terminal(store[k])]
  BY <1>2, PPISeen
<1>4. /\ ppis' = [ppis EXCEPT ![k] = new]
      /\ store'[k].exists =>
           new = [owner |-> specOf(k).owner, uid |-> specOf(k).uid, image |-> specOf(k).image,
                  fin |-> store'[k].fin, del |-> store'[k].del, done |-> Terminal(store'[k])]
      /\ ~store'[k].exists => new = NoPPI
  BY <1>1, <1>2, OnePPI
<1>5. ppis = [p \in PPIs |-> ppis[p]]
  BY DEF ppis
<1>6. store[k] \in Object /\ store'[k] \in Object
  BY KwarmStep, NextType DEF KwarmInv, TypeOK, ClusterTypeOK, KwarmNext
<1>7. /\ store[k].fin \in BOOLEAN /\ store[k].del \in BOOLEAN
      /\ store'[k].fin \in BOOLEAN /\ store'[k].del \in BOOLEAN
  BY <1>6, ObjectFields
<1>8. CASE store[k].del /\ ~store'[k].exists /\ ~Terminal(store'[k])
  <2>1. settled' = settled
    BY <1>1, <1>8, SettledBy
  <2> QED
    BY <1>1, <1>3, <1>4, <1>8, <2>1 DEF Rollouts!PPIStep
<1>9. CASE /\ store'[k].exists /\ store'[k].fin = store[k].fin /\ store'[k].del = store[k].del
           /\ Terminal(store'[k]) = Terminal(store[k])
  <2>1. settled' = settled
    BY <1>1, <1>9, SettledBy
  <2>2. new = old
    BY <1>3, <1>4, <1>9
  <2> QED
    BY <1>4, <1>5, <2>1, <2>2
<1>10. CASE /\ store'[k].exists /\ ~store[k].fin /\ store'[k].fin
           /\ ~store[k].del /\ ~store'[k].del /\ Terminal(store'[k]) = Terminal(store[k])
  <2>1. settled' = settled
    BY <1>1, <1>10, SettledBy
  <2>2. new = [old EXCEPT !.fin = TRUE] /\ ~old.fin /\ ~old.del
    <3>1. store'[k].fin = TRUE /\ store'[k].del = store[k].del
      BY <1>7, <1>10
    <3> QED
      <4>1. new = [owner |-> specOf(k).owner, uid |-> specOf(k).uid, image |-> specOf(k).image,
                   fin |-> TRUE, del |-> store[k].del, done |-> Terminal(store[k])]
        BY <1>4, <1>10, <3>1
      <4> HIDE DEF old, new
      <4>2. old.fin = store[k].fin /\ old.del = store[k].del
        BY <1>3, PPIFields
      <4>3. \A b : [old EXCEPT !.fin = b] =
              [owner |-> specOf(k).owner, uid |-> specOf(k).uid, image |-> specOf(k).image,
               fin |-> b, del |-> store[k].del, done |-> Terminal(store[k])]
        BY <1>3, PPIFields
      <4>4. new = [old EXCEPT !.fin = TRUE]
        BY <4>1, <4>3, Zenon
      <4> QED
        BY <1>10, <4>2, <4>4
  <2> QED
    BY <1>1, <1>3, <1>4, <2>1, <2>2 DEF Rollouts!PPIStep
<1>11. CASE /\ store'[k].exists /\ ~store[k].del /\ ~store'[k].del /\ store'[k].fin
            /\ Settling(k)
  <2>1. settled' = settled \cup {<<old.owner, old.image>>}
    BY <1>1, <1>3, <1>11, SettledBy DEF Settling
  <2>2. new = [old EXCEPT !.done = TRUE] /\ old.fin /\ ~old.del /\ ~old.done
    <3>1. /\ store'[k].fin = store[k].fin /\ store'[k].del = store[k].del
          /\ Terminal(store'[k]) = TRUE
      BY <1>7, <1>11 DEF Settling, Terminal
    <3> QED
      <4>1. new = [owner |-> specOf(k).owner, uid |-> specOf(k).uid, image |-> specOf(k).image,
                   fin |-> store[k].fin, del |-> store[k].del, done |-> TRUE]
        BY <1>4, <1>11, <3>1
      <4> HIDE DEF old, new
      <4>2. /\ old.fin = store[k].fin /\ old.del = store[k].del
            /\ old.done = Terminal(store[k])
        BY <1>3, PPIFields
      <4>3. \A b : [old EXCEPT !.done = b] =
              [owner |-> specOf(k).owner, uid |-> specOf(k).uid, image |-> specOf(k).image,
               fin |-> store[k].fin, del |-> store[k].del, done |-> b]
        BY <1>3, PPIFields
      <4>4. new = [old EXCEPT !.done = TRUE]
        BY <4>1, <4>3, Zenon
      <4> QED
        BY <1>11, <4>2, <4>4 DEF Settling
  <2> QED
    BY <1>1, <1>3, <1>4, <2>1, <2>2 DEF Rollouts!PPIStep
<1>12. CASE /\ store'[k].exists /\ Terminal(store[k]) /\ Terminal(store'[k])
            /\ store[k].fin /\ store'[k].fin /\ ~store[k].del /\ store'[k].del
  <2>1. settled' = settled
    BY <1>1, <1>12, SettledBy
  <2>2. new = Rollouts!Deleted(old) /\ old.done /\ ~old.del
    <3>1. /\ store'[k].fin = store[k].fin /\ store'[k].del = TRUE
          /\ Terminal(store'[k]) = Terminal(store[k])
      BY <1>7, <1>12 DEF Terminal
    <3> QED
      <4>1. new = [owner |-> specOf(k).owner, uid |-> specOf(k).uid, image |-> specOf(k).image,
                   fin |-> store[k].fin, del |-> TRUE, done |-> Terminal(store[k])]
        BY <1>4, <1>12, <3>1
      <4> HIDE DEF old, new
      <4> QED
        BY <1>3, <1>12, <4>1, PPIFields DEF Rollouts!Deleted
  <2> QED
    BY <1>1, <1>3, <1>4, <2>1, <2>2 DEF Rollouts!PPIStep
<1> QED
  BY <1>8, <1>9, <1>10, <1>11, <1>12 DEF PullMove

LEMMA RolloutStepHolds ==
  ASSUME KwarmInv, [KwarmNext]_allVars
  PROVE  [Rollouts!Next]_Rollouts!vars
<1>1. CASE PullStep
  <2>1. UNCHANGED <<deployments, dCache, dQueue, dTimer, Rollouts!workVars, Rollouts!envVars>>
    BY <1>1, RolloutAside
  <2>2. ASSUME UNCHANGED store
        PROVE  UNCHANGED <<ppis, settled>>
    <3>1. NewlySettled = {}
      BY <2>2 DEF NewlySettled, Terminal
    <3>2. specs' = specs /\ settled' = settled \cup NewlySettled
      BY <1>1, RolloutAside
    <3> QED
      BY <2>2, <3>1, <3>2 DEF ppis, specOf, Terminal
  <2>3. CASE UNCHANGED ppiCache
    <3>1. UNCHANGED <<ppis, settled>> \/ \E k \in PPIs : Rollouts!PPIStep(k)
      BY <1>1, <2>2, <2>3, PullMoves, PullIsPPIStep
    <3> QED
      BY <2>1, <2>3, <3>1, SameObjects DEF Rollouts!Next, Rollouts!PPIController, Rollouts!vars
  <2>4. ASSUME NEW k \in PPIs, SyncPPI(k), ~UNCHANGED ppiCache
        PROVE  Rollouts!Next
    BY <1>1, <2>4, SyncIsSync, SameObjects DEF Rollouts!Next, Rollouts!Informers
  <2> QED
    BY <1>1, <2>3, <2>4, CacheAside
<1>2. CASE RolloutStep
  BY <1>2 DEF RolloutStep, Rollouts!Next, Rollouts!Informers
<1>3. CASE RolloutCreates
  BY <1>3 DEF RolloutCreates, Rollouts!Next
<1>4. CASE RolloutDeletes
  BY <1>4 DEF RolloutDeletes, Rollouts!Next
<1>5. CASE RestartAll
  BY <1>5 DEF RestartAll, Rollouts!Next
<1>6. CASE AllQuiet \/ UNCHANGED allVars
  <2>1. UNCHANGED allVars
    BY <1>6 DEF AllQuiet
  <2> QED
    BY <2>1 DEF allVars, vars, clusterVars, envVars, rolloutVars, pullVars, ppis, ppiCache,
       specOf, cachedSpecOf, Terminal, Rollouts!vars, Rollouts!workVars, Rollouts!envVars,
       Rollouts!userVars
<1> QED
  BY <1>1, <1>2, <1>3, <1>4, <1>5, <1>6 DEF KwarmNext

(* The two controllers together implement module DeploymentController, which has
   the PrePullImage controller as the few steps of PPIStep: the finalizer goes on
   before a phase is final, a final phase stays, an object goes only after it was
   deleted, and no write of handleInProgress, handleCompleted or handleDeletion,
   however its reconcile is interrupted, brings an object back. *)
THEOREM ImplementsRollouts == KwarmSpec => RolloutSpec
<1>1. KwarmInit => KwarmInv
  BY KwarmInvInit
<1>2. KwarmInv /\ [KwarmNext]_allVars => KwarmInv'
  BY KwarmInvNext
<1>3. KwarmInit => Rollouts!Init
  BY DEF KwarmInit
<1>4. KwarmInv /\ [KwarmNext]_allVars => [Rollouts!Next]_Rollouts!vars
  BY RolloutStepHolds
<1> QED
  BY <1>1, <1>2, <1>3, <1>4, PTL DEF KwarmSpec, RolloutSpec, Rollouts!Spec

-----------------------------------------------------------------------------
(* What a Completed node has.  Provided that no API call fails on its own, that
   Jobs are read as they are, that their names tell PrePullImages and nodes apart,
   and that a PrePullImage is for one node: with a second one, a Job whose TTL ends
   during the cleanup makes handleDeletion leave the other behind, and the next
   PrePullImage of this name adopts it. *)

TargetNodes(p) ==
  IF NodeNames[p] # <<>> THEN {NodeNames[p][i] : i \in DOMAIN NodeNames[p]} ELSE Matching[p]

OneNode == \A p \in PPIs : \A m, n \in TargetNodes(p) : m = n

CleanupWorks == MaxFaults = 0 /\ ~JobLag /\ NamesDistinct /\ OneNode

(* A Job is for the life of its owner that is there now, which keeps its finalizer
   as long as it has Jobs; and it tells no lie about its own image. *)
JobRight(j) ==
  jobs[j] # NoJob =>
    /\ jobs[j].node \in TargetNodes(jobs[j].owner) /\ store[jobs[j].owner].fin
    /\ jobImages[j] = specOf(jobs[j].owner).image
    /\ jobs[j].succeeded > 0 => <<jobImages[j], jobs[j].node>> \in pulledImages

JobsRight == \A j \in JobNames : JobRight(j)

(* An object, of the life it says, that calls Completed only what has the image. *)
ObjectRight(lives, done, p, obj) ==
  \A i \in DOMAIN obj.ns :
    /\ obj.ns[i].node \in TargetNodes(p)
    /\ obj.ns[i].status = "Completed" =>
         /\ obj.uid \in 1..Len(lives[p])
         /\ <<lives[p][obj.uid].image, obj.ns[i].node>> \in done

StoreRight == \A p \in PPIs : ObjectRight(specs, pulledImages, p, store[p])
CacheRight == \A p \in PPIs : ObjectRight(specs, pulledImages, p, cache[p])
WorkRight  == pc # "idle" => ObjectRight(specs, pulledImages, cur, work)

(* The loop works for the life that is there; the cleanup knows all Jobs of the
   object, and none is left when the finalizer is about to go. *)
JobsOf(p) == {j \in JobNames : jobs[j] # NoJob /\ jobs[j].owner = p}

LoopHolds == pc = "nodes" => store[cur].fin /\ store[cur].uid = work.uid

CleansAll ==
  /\ pc = "cleanup" => JobsOf(cur) \subseteq todo /\ \A i, j \in todo : i = j
  /\ pc = "update" /\ work.del => JobsOf(cur) = {}

ImageInv ==
  /\ KwarmInv /\ JobsHonest
  /\ JobsRight /\ StoreRight /\ CacheRight /\ WorkRight /\ LoopHolds /\ CleansAll

LEMMA ImageInvInit == KwarmInit => ImageInv
<1> SUFFICES ASSUME KwarmInit
             PROVE  ImageInv
  OBVIOUS
<1>1. KwarmInv
  BY KwarmInvInit
<1>2. /\ \A j \in JobNames : jobs[j] = NoJob /\ jobCache[j] = NoJob
      /\ pc = "idle" /\ \A p \in PPIs : store[p] = Absent(0, 0) /\ cache[p] = Absent(0, 0)
  BY DEF KwarmInit, Init
<1>3. Absent(0, 0).ns = <<>> /\ DOMAIN <<>> = {}
  BY NewFields
<1>4. StoreRight /\ CacheRight
  BY <1>2, <1>3 DEF StoreRight, CacheRight, ObjectRight
<1>5. JobsHonest /\ JobsRight
  BY <1>2 DEF JobsHonest, JobOK, JobsRight, JobRight
<1> QED
  BY <1>1, <1>2, <1>4, <1>5 DEF ImageInv, WorkRight, LoopHolds, CleansAll

-----------------------------------------------------------------------------
(* What was pulled stays pulled, what a life was for stays known. *)
Grown ==
  /\ pulledImages \subseteq pulledImages'
  /\ \A p \in PPIs : /\ Len(specs[p]) <= Len(specs'[p])
                     /\ Len(specs[p]) \in Nat /\ Len(specs'[p]) \in Nat
                     /\ \A u \in 1..Len(specs[p]) : specs'[p][u] = specs[p][u]

LEMMA Grows ==
  ASSUME KwarmInv, [KwarmNext]_allVars
  PROVE  Grown
<1>1. specs \in [PPIs -> Seq(Specs)]
  BY DEF KwarmInv, SpecsOK
<1>2. ASSUME specs' = specs, pulledImages \subseteq pulledImages'
      PROVE  Grown
  BY <1>1, <1>2 DEF Grown
<1>3. CASE PullStep
  BY <1>2, <1>3 DEF PullStep, FollowJobs
<1>4. CASE RolloutCreates
  <2>1. PICK k \in PPIs, spec \in Specs : specs' = [specs EXCEPT ![k] = Append(@, spec)]
    BY <1>4 DEF RolloutCreates, CreateObject
  <2>2. pulledImages' = pulledImages
    BY <1>4 DEF RolloutCreates
  <2>3. /\ specs'[k] = Append(specs[k], spec) /\ specs[k] \in Seq(Specs)
        /\ \A p \in PPIs \ {k} : specs'[p] = specs[p] /\ specs[p] \in Seq(Specs)
    BY <1>1, <2>1
  <2> QED
    BY <2>2, <2>3 DEF Grown
<1>5. CASE RolloutStep \/ RolloutDeletes \/ RestartAll \/ AllQuiet \/ UNCHANGED allVars
  BY <1>2, <1>5 DEF RolloutStep, RolloutDeletes, RestartAll, AllQuiet, allVars, pullVars
<1> QED
  BY <1>3, <1>4, <1>5 DEF KwarmNext

LEMMA StillRight ==
  ASSUME Grown, NEW p \in PPIs, NEW obj, ObjectRight(specs, pulledImages, p, obj)
  PROVE  ObjectRight(specs', pulledImages', p, obj)
<1> SUFFICES ASSUME NEW i \in DOMAIN obj.ns, obj.ns[i].status = "Completed"
             PROVE  /\ obj.uid \in 1..Len(specs'[p])
                    /\ <<specs'[p][obj.uid].image, obj.ns[i].node>> \in pulledImages'
  BY DEF ObjectRight
<1>1. /\ obj.uid \in 1..Len(specs[p])
      /\ <<specs[p][obj.uid].image, obj.ns[i].node>> \in pulledImages
  BY DEF ObjectRight
<1> QED
  BY <1>1 DEF Grown

LEMMA SameRight ==
  ASSUME NEW lives, NEW done, NEW p, NEW old, NEW new, ObjectRight(lives, done, p, old),
         new.ns = old.ns, new.uid = old.uid
  PROVE  ObjectRight(lives, done, p, new)
BY DEF ObjectRight

LEMMA EmptyRight ==
  ASSUME NEW lives, NEW done, NEW p, NEW obj, obj.ns = <<>>
  PROVE  ObjectRight(lives, done, p, obj)
<1>1. DOMAIN <<>> = {}
  OBVIOUS
<1> QED
  BY <1>1 DEF ObjectRight

-----------------------------------------------------------------------------
(* Objects. *)

(* As long as it has Jobs, or the loop works on it, an object keeps its finalizer
   and so its life. *)
LEMMA LifeKept ==
  ASSUME ImageInv, [KwarmNext]_allVars, NEW p \in PPIs, store[p].fin,
         JobsOf(p) # {} \/ (pc = "nodes" /\ cur = p)
  PROVE  store'[p].fin /\ store'[p].uid = store[p].uid
<1>1. /\ TypeOK /\ [Next]_vars /\ SoundInv /\ HoldInv
      /\ store[p] \in Object /\ work \in Object /\ store[p].exists
  BY KwarmStep DEF ImageInv, KwarmInv, TypeOK, ClusterTypeOK, WorkTypeOK, HoldInv,
     FinalizerStays
<1>2. CASE Wrote(p)
  <2>1. pc = "update" /\ cur = p /\ ~Stale
    BY <1>2 DEF Wrote, CanWrite, Stale
  <2>2. ~work.del /\ work.fin
    BY <1>1, <2>1 DEF ImageInv, CleansAll, SoundInv, WorkShape
  <2>3. work.uid = store[p].uid
    BY <1>1, <2>1 DEF HoldInv, HoldsFinalizer
  <2>4. store'[p] = Bumped(work)
    BY <1>2, <2>2 DEF Wrote
  <2> QED
    BY <1>1, <2>2, <2>3, <2>4, BumpedFields
<1>3. CASE Changed(p)
  <2>1. \/ store'[p] = Bumped([store[p] EXCEPT !.del = TRUE])
        \/ store'[p] = Bumped(store[p])
    BY <1>1, <1>3 DEF Changed
  <2> QED
    BY <1>1, <2>1, BumpedFields, MarkedFields
<1> QED
  BY <1>1, <1>2, <1>3, StoreStep DEF OnlyAt

LEMMA StoreStaysRight ==
  ASSUME ImageInv, [KwarmNext]_allVars
  PROVE  StoreRight'
<1>1. /\ TypeOK /\ [Next]_vars /\ SoundInv /\ HoldInv /\ Grown
      /\ \A p \in PPIs : store[p] \in Object
      /\ work \in Object
  BY KwarmStep, Grows DEF ImageInv, KwarmInv, TypeOK, ClusterTypeOK, WorkTypeOK
<1>2. \A p \in PPIs : ObjectRight(specs', pulledImages', p, store[p])
  BY <1>1, StillRight DEF ImageInv, StoreRight
<1>3. ASSUME NEW p \in PPIs, Wrote(p)
      PROVE  ObjectRight(specs', pulledImages', p, store'[p])
  <2>1. pc # "idle" /\ cur = p
    BY <1>3 DEF Wrote
  <2>2. ObjectRight(specs', pulledImages', p, work)
    BY <1>1, <2>1, StillRight DEF ImageInv, WorkRight
  <2>3. Bumped(work).ns = work.ns /\ Bumped(work).uid = work.uid
    BY <1>1, BumpedFields
  <2>4. store'[p] = Absent(store[p].uid, store[p].rv + 1) \/ store'[p] = Bumped(work)
    BY <1>3 DEF Wrote
  <2>5. CASE store'[p] = Bumped(work)
    BY <2>2, <2>3, <2>5, SameRight
  <2>6. CASE store'[p] = Absent(store[p].uid, store[p].rv + 1)
    BY <2>6, NewFields, EmptyRight
  <2> QED
    BY <2>4, <2>5, <2>6
<1>4. ASSUME NEW p \in PPIs, Changed(p)
      PROVE  ObjectRight(specs', pulledImages', p, store'[p])
  <2>1. \/ store'[p].ns = <<>>
        \/ store'[p].ns = store[p].ns /\ store'[p].uid = store[p].uid
    BY <1>1, <1>4, BumpedFields, MarkedFields, NewFields DEF Changed
  <2> QED
    BY <1>2, <2>1, SameRight, EmptyRight
<1>5. ASSUME NEW p \in PPIs
      PROVE  store'[p] = store[p] \/ Wrote(p) \/ Changed(p)
  BY <1>1, StoreStep DEF OnlyAt
<1>6. \A p \in PPIs : ObjectRight(specs', pulledImages', p, store'[p])
  BY <1>2, <1>3, <1>4, <1>5
<1> QED
  BY <1>6 DEF StoreRight, ObjectRight, TargetNodes

LEMMA CacheStaysRight ==
  ASSUME ImageInv, [KwarmNext]_allVars
  PROVE  CacheRight'
<1>1. TypeOK /\ [Next]_vars /\ Grown
  BY KwarmStep, Grows DEF ImageInv, KwarmInv
<1>2. \A p \in PPIs : /\ ObjectRight(specs', pulledImages', p, store[p])
                      /\ ObjectRight(specs', pulledImages', p, cache[p])
  BY <1>1, StillRight DEF ImageInv, StoreRight, CacheRight
<1>3. \A p \in PPIs : cache'[p] = cache[p] \/ cache'[p] = store[p]
  BY <1>1, CacheFrom
<1>4. \A p \in PPIs : ObjectRight(specs', pulledImages', p, cache'[p])
  BY <1>2, <1>3
<1> QED
  BY <1>4 DEF CacheRight, ObjectRight, TargetNodes

-----------------------------------------------------------------------------
(* The reconcile. *)

LEMMA TargetsIn ==
  ASSUME NEW p \in PPIs, NEW targets \in getTargetNodes(p), NEW i \in DOMAIN targets
  PROVE  targets[i] \in TargetNodes(p)
<1>1. CASE NodeNames[p] # <<>>
  BY <1>1 DEF getTargetNodes, TargetNodes
<1>2. CASE NodeNames[p] = <<>>
  <2>1. PICK S \in SUBSET Matching[p] : targets \in SetToSeqs(S)
    BY <1>2 DEF getTargetNodes, SetToAllKPermutations
  <2>2. targets \in [1..Cardinality(S) -> S]
    BY <2>1 DEF SetToSeqs
  <2>3. targets[i] \in Matching[p]
    BY <2>1, <2>2
  <2> QED
    BY <1>2, <2>3 DEF TargetNodes
<1> QED
  BY <1>1, <1>2

LEMMA StartedRight ==
  ASSUME TypeOK, NEW p \in PPIs, Started(p), NEW lives, NEW done,
         ObjectRight(lives, done, p, cache[p]), NEW new, new = work'
  PROVE  ObjectRight(lives, done, p, new)
<1>1. cache[p] \in Object /\ new.uid = cache[p].uid
  BY StartedFrom DEF TypeOK, ManagerTypeOK
<1>2. CASE handlePending(p)
  <2>1. PICK targets \in getTargetNodes(p) : new = Initialized(cache[p], targets)
    BY <1>2 DEF handlePending, Begin
  <2>2. CASE targets = <<>>
    <3>1. new.ns = cache[p].ns
      BY <1>1, <2>1, <2>2, NothingToDoFields
    <3> QED
      BY <1>1, <3>1, SameRight
  <2>3. CASE targets # <<>>
    <3>1. new.ns = Entries0(targets)
      BY <1>1, <2>1, <2>3, InitializedFields
    <3>2. /\ DOMAIN new.ns = DOMAIN targets
          /\ \A i \in DOMAIN targets : new.ns[i].node = targets[i]
                                       /\ new.ns[i].status = "Pending"
      BY <3>1 DEF Entries0
    <3>3. \A i \in DOMAIN targets : targets[i] \in TargetNodes(p)
      BY TargetsIn
    <3> QED
      BY <3>2, <3>3 DEF ObjectRight
  <2> QED
    BY <2>2, <2>3
<1>3. CASE AddFinalizer(p)
  <2>1. new = [cache[p] EXCEPT !.fin = TRUE]
    BY <1>3 DEF AddFinalizer, Begin
  <2>2. new.ns = cache[p].ns
    BY <1>1, <2>1, FinalizerFields
  <2> QED
    BY <1>1, <2>2, SameRight
<1>4. CASE handleInProgress(p) \/ handleDeletion(p) \/ (handleCompleted(p) /\ Expired(p))
  <2>1. new = cache[p]
    BY <1>4 DEF handleInProgress, handleDeletion, handleCompleted, Begin
  <2> QED
    BY <2>1
<1> QED
  BY <1>2, <1>3, <1>4 DEF Started

-----------------------------------------------------------------------------
(* Jobs. *)

(* What a step does to the Job of some name: it goes or stays, comes to an end or
   becomes active, or the loop creates it for the entry it is at. *)
JobRuns(j) ==
  /\ jobs[j] # NoJob /\ ~Finished(jobs[j]) /\ jobs'[j] # NoJob
  /\ jobs'[j].owner = jobs[j].owner /\ jobs'[j].node = jobs[j].node
  /\ jobs'[j].succeeded \in 0..1

JobCreated(j) ==
  /\ pc = "nodes" /\ idx <= Len(work.ns) /\ j = jobName
  /\ jobs[j] = NoJob /\ jobs'[j] = NewJob(cur, entry.node) /\ jobs'[j] # NoJob
  /\ UNCHANGED store

JobStep(j) == jobs'[j] = NoJob \/ jobs'[j] = jobs[j] \/ JobRuns(j) \/ JobCreated(j)

LEMMA JobRunsOn ==
  ASSUME TypeOK, NEW j \in JobNames, JobMoves(j)
  PROVE  JobRuns(j) /\ \A k \in JobNames \ {j} : jobs'[k] = jobs[k]
<1>1. jobs[j] \in Job /\ jobs[j] # NoJob /\ ~Finished(jobs[j]) /\ jobs[j].succeeded \in 0..1
  BY DEF TypeOK, ClusterTypeOK, JobMoves, Job
<1>2. jobs \in [JobNames -> Job \cup {NoJob}]
  BY DEF TypeOK, ClusterTypeOK
<1>3. \A k \in JobNames \ {j} : jobs'[k] = jobs[k]
  BY <1>2 DEF JobMoves
<1>4. \/ jobs'[j] = [jobs[j] EXCEPT !.active = 1]
      \/ jobs'[j] = [jobs[j] EXCEPT !.active = 0, !.succeeded = 1]
      \/ jobs'[j] = [jobs[j] EXCEPT !.active = 0, !.failed = 1]
  BY <1>2 DEF JobMoves
<1>5. jobs'[j] # NoJob
  BY <1>1, <1>4, JobUpdates, NoJobIsNone
<1>6. /\ jobs'[j].owner = jobs[j].owner /\ jobs'[j].node = jobs[j].node
      /\ jobs'[j].succeeded \in 0..1
  <2>1. CASE jobs'[j] = [jobs[j] EXCEPT !.active = 1]
    BY <1>1, <2>1 DEF Job
  <2>2. CASE jobs'[j] = [jobs[j] EXCEPT !.active = 0, !.succeeded = 1]
    BY <1>1, <2>2 DEF Job
  <2>3. CASE jobs'[j] = [jobs[j] EXCEPT !.active = 0, !.failed = 1]
    BY <1>1, <2>3 DEF Job
  <2> QED
    BY <1>4, <2>1, <2>2, <2>3
<1> QED
  BY <1>1, <1>3, <1>5, <1>6 DEF JobRuns

LEMMA JobSteps ==
  ASSUME TypeOK, [Next]_vars, NEW j \in JobNames
  PROVE  JobStep(j)
<1>1. jobs \in [JobNames -> Job \cup {NoJob}]
  BY DEF TypeOK, ClusterTypeOK
<1>2. ASSUME NEW k, DeleteJob(k)
      PROVE  JobStep(j)
  BY <1>1, <1>2 DEF DeleteJob, JobStep
<1>3. ASSUME UNCHANGED jobs
      PROVE  JobStep(j)
  BY <1>3 DEF JobStep
<1>4. CASE NodeAction
  <2>1. pc = "nodes" /\ idx <= Len(work.ns) /\ UNCHANGED store
    BY <1>4, NodeMoves
  <2>2. cur \in PPIs /\ entry.node \in Nodes /\ jobName \in JobNames
    BY <2>1, EntryType
  <2>3. NewJob(cur, entry.node) # NoJob
    BY <2>2, NoJobIsNone DEF NewJob, Job
  <2>4. ASSUME CreateJob(jobName, NewJob(cur, entry.node))
        PROVE  JobStep(j)
    BY <1>1, <2>1, <2>2, <2>3, <2>4 DEF CreateJob, JobStep, JobCreated
  <2> QED
    BY <1>2, <1>3, <1>4, <2>4 DEF NodeAction, startPullJob, startPullJobFails, RateLimited,
       PullSucceeded, PullRetried, PullExhausted, PullRunning, NodeDone
<1>5. CASE EndAction
  BY <1>2, <1>3, <1>5 DEF EndAction, FinishNodes, UpdateWritten, UpdateRejected, UpdateFails,
     TTLDelete, ReleaseNode, ListJobs, CleanupJob, CleanupEnds, clusterVars
<1>6. ASSUME NEW p \in PPIs, Reconcile(p)
      PROVE  UNCHANGED jobs
  BY <1>6 DEF Reconcile, ReconcileGone, ReconcileReadFails, AddFinalizer, handlePending,
     handleInProgress, handleCompleted, handleDeletion, Begin, clusterVars
<1>7. CASE Environment
  <2>1. ASSUME NEW k \in JobNames, JobMoves(k)
        PROVE  JobStep(j)
    BY <2>1, JobRunsOn DEF JobStep
  <2> QED
    BY <1>2, <1>3, <1>7, <2>1 DEF Environment, Create, Delete, Edit, TTLElapses, SyncPPI,
       TimerFires, SyncJob, JobExpires, Restart, clusterVars
<1>8. CASE Quiet \/ UNCHANGED vars
  BY <1>3, <1>8 DEF Quiet, vars, clusterVars
<1> QED
  BY <1>3, <1>4, <1>5, <1>6, <1>7, <1>8 DEF Next, WorkStep, NodeAction, EndAction

(* The image of a Job, and of what it has pulled. *)
ImageStep(j) ==
  \/ jobs'[j] = NoJob
  \/ /\ jobs[j] # NoJob /\ jobs'[j].owner = jobs[j].owner /\ jobs'[j].node = jobs[j].node
     /\ jobImages'[j] = jobImages[j]
     /\ jobs'[j].succeeded > 0 =>
          jobs[j].succeeded > 0 \/ <<jobImages[j], jobs[j].node>> \in pulledImages'
  \/ JobCreated(j) /\ jobImages'[j] = specs[cur][work.uid].image

LEMMA ImageSteps ==
  ASSUME KwarmInv, [KwarmNext]_allVars, NEW j \in JobNames
  PROVE  ImageStep(j)
<1>1. CASE PullStep
  <2>1. JobStep(j)
    BY KwarmStep, JobSteps DEF KwarmInv
  <2>2. /\ jobs'[j] # NoJob /\ jobs[j] = NoJob => jobImages'[j] = specs[cur][work.uid].image
        /\ jobs'[j] # NoJob /\ jobs[j] # NoJob => jobImages'[j] = jobImages[j]
    BY <1>1 DEF PullStep, FollowJobs
  <2>3. CASE JobRuns(j)
    <3>1. j \in Unfinished
      BY <2>3 DEF JobRuns, Unfinished
    <3>2. jobs'[j].succeeded > 0 => jobs'[j].succeeded = 1
      BY <2>3 DEF JobRuns
    <3>3. jobs'[j].succeeded = 1 => <<jobImages[j], jobs[j].node>> \in pulledImages'
      BY <1>1, <2>3, <3>1 DEF PullStep, FollowJobs, JobRuns
    <3> QED
      BY <2>2, <2>3, <3>2, <3>3 DEF JobRuns, ImageStep
  <2>4. CASE JobCreated(j)
    BY <2>2, <2>4 DEF JobCreated, ImageStep
  <2> QED
    BY <2>1, <2>2, <2>3, <2>4 DEF JobStep, ImageStep
<1>2. CASE RolloutStep \/ RolloutCreates \/ RolloutDeletes \/ RestartAll \/ AllQuiet
           \/ UNCHANGED allVars
  <2>1. UNCHANGED <<jobs, jobImages>>
    BY <1>2 DEF RolloutStep, RolloutCreates, CreateObject, Create, RolloutDeletes, Delete,
       RestartAll, Restart, AllQuiet, allVars, pullVars, vars, clusterVars
  <2> QED
    BY <2>1 DEF ImageStep
<1> QED
  BY <1>1, <1>2 DEF KwarmNext

LEMMA JobsStayRight ==
  ASSUME ImageInv, [KwarmNext]_allVars
  PROVE  JobsRight'
<1>1. /\ TypeOK /\ Grown /\ KwarmInv /\ HoldInv /\ JobsRight
      /\ jobs \in [JobNames -> Job \cup {NoJob}]
  BY Grows DEF ImageInv, KwarmInv, TypeOK, ClusterTypeOK
<1>2. ASSUME NEW p \in PPIs, store[p].fin, store'[p].uid = store[p].uid
      PROVE  specs'[p][store'[p].uid] = specs[p][store[p].uid]
  <2>1. store[p] \in Object /\ store[p].exists
    BY <1>1, <1>2 DEF TypeOK, ClusterTypeOK, HoldInv, FinalizerStays
  <2>2. store[p].uid \in 1..Len(specs[p])
    BY <1>1, <2>1, ObjectFields DEF KwarmInv, SpecsOK
  <2> QED
    BY <1>1, <1>2, <2>2 DEF Grown
<1>3. SUFFICES ASSUME NEW j \in JobNames, jobs'[j] # NoJob
               PROVE  JobRight(j)'
  BY DEF JobsRight, JobRight
<1>4. CASE /\ jobs[j] # NoJob /\ jobs'[j].owner = jobs[j].owner /\ jobs'[j].node = jobs[j].node
           /\ jobImages'[j] = jobImages[j]
           /\ jobs'[j].succeeded > 0 =>
                jobs[j].succeeded > 0 \/ <<jobImages[j], jobs[j].node>> \in pulledImages'
  <2>1. JobRight(j)
    BY <1>1 DEF JobsRight
  <2> DEFINE o == jobs[j].owner
  <2>2. o \in PPIs /\ j \in JobsOf(o) /\ store[o].fin
    BY <1>1, <1>4, <2>1 DEF Job, JobsOf, JobRight
  <2>3. store'[o].fin /\ store'[o].uid = store[o].uid
    BY <2>2, LifeKept
  <2>4. specs'[o][store'[o].uid] = specs[o][store[o].uid]
    BY <1>2, <2>2, <2>3
  <2>5. pulledImages \subseteq pulledImages'
    BY <1>1 DEF Grown
  <2> HIDE DEF o
  <2>6. /\ jobs[j].node \in TargetNodes(o) /\ jobImages[j] = specOf(o).image
        /\ jobs[j].succeeded > 0 => <<jobImages[j], jobs[j].node>> \in pulledImages
    BY <1>4, <2>1 DEF JobRight, o
  <2>7. specs'[o][store'[o].uid].image = jobImages'[j] /\ jobs'[j].owner = o
    BY <1>4, <2>4, <2>6 DEF specOf, o
  <2> QED
    BY <1>4, <2>3, <2>5, <2>6, <2>7 DEF JobRight, specOf, TargetNodes
<1>5. CASE JobCreated(j) /\ jobImages'[j] = specs[cur][work.uid].image
  <2>1. /\ pc = "nodes" /\ idx <= Len(work.ns) /\ store' = store
        /\ jobs'[j] = NewJob(cur, entry.node)
    BY <1>5 DEF JobCreated
  <2>2. cur \in PPIs /\ store[cur].fin /\ store[cur].uid = work.uid
    BY <1>1, <2>1 DEF TypeOK, WorkTypeOK, ImageInv, LoopHolds
  <2>3. entry.node \in TargetNodes(cur)
    <3>1. idx \in DOMAIN work.ns
      BY <1>1, <2>1, EntryType DEF TypeOK, WorkTypeOK
    <3> QED
      BY <2>1, <3>1 DEF entry, ImageInv, WorkRight, ObjectRight
  <2>4. jobs'[j].owner = cur /\ jobs'[j].node = entry.node /\ jobs'[j].succeeded = 0
    BY <2>1 DEF NewJob
  <2>5. specs'[cur][store'[cur].uid] = specs[cur][work.uid]
    BY <1>2, <2>1, <2>2
  <2> QED
    BY <1>5, <2>1, <2>2, <2>3, <2>4, <2>5 DEF JobRight, specOf, TargetNodes
<1> QED
  BY <1>1, <1>3, <1>4, <1>5, ImageSteps DEF ImageStep

-----------------------------------------------------------------------------
(* The reconcile goes on. *)

(* The Job that has succeeded is the entry's own, of this life. *)
LEMMA SucceededHasImage ==
  ASSUME CleanupWorks, ImageInv, pc = "nodes", idx <= Len(work.ns),
         checkJobStatus(jobName) = "Succeeded"
  PROVE  /\ work.uid \in 1..Len(specs[cur])
         /\ <<specs[cur][work.uid].image, entry.node>> \in pulledImages
<1>1. TypeOK /\ KwarmInv /\ HoldInv /\ JobsHonest /\ JobsRight
  BY DEF ImageInv, KwarmInv
<1>2. cur \in PPIs /\ entry.node \in Nodes /\ jobName \in JobNames
  BY <1>1, EntryType
<1>3. jobs[jobName] # NoJob /\ GetJobStatus(jobs[jobName]) = "Succeeded"
  BY DEF checkJobStatus, seenJobs, CleanupWorks
<1>4. jobs[jobName] \in Job
  BY <1>1, <1>2, <1>3 DEF TypeOK, ClusterTypeOK
<1>5. jobs[jobName].succeeded > 0
  BY <1>3, <1>4 DEF GetJobStatus, Job
<1>6. jobs[jobName].owner = cur /\ jobs[jobName].node = entry.node
  <2>1. jobName = GenerateJobName(Name[jobs[jobName].owner], jobs[jobName].node)
    BY <1>1, <1>2, <1>3 DEF JobsHonest, JobOK
  <2>2. jobs[jobName].owner \in PPIs /\ jobs[jobName].node \in Nodes
    BY <1>4 DEF Job
  <2> QED
    BY <1>2, <2>1, <2>2 DEF NamesDistinct, CleanupWorks, jobName
<1>7. /\ <<jobImages[jobName], entry.node>> \in pulledImages
      /\ jobImages[jobName] = specOf(cur).image
  BY <1>1, <1>2, <1>3, <1>5, <1>6 DEF JobsRight, JobRight
<1>8. store[cur].fin /\ store[cur].uid = work.uid
  BY DEF ImageInv, LoopHolds
<1>9. store[cur].uid \in 1..Len(specs[cur])
  <2>1. store[cur] \in Object /\ store[cur].exists
    BY <1>1, <1>2, <1>8 DEF TypeOK, ClusterTypeOK, HoldInv, FinalizerStays
  <2> QED
    BY <1>1, <1>2, <2>1, ObjectFields DEF KwarmInv, SpecsOK
<1> QED
  BY <1>7, <1>8, <1>9 DEF specOf

LEMMA NodeActionRight ==
  ASSUME CleanupWorks, ImageInv, NodeAction, Grown
  PROVE  ObjectRight(specs', pulledImages', cur, work')
<1> DEFINE HasImage == /\ work.uid \in 1..Len(specs[cur])
                       /\ <<specs[cur][work.uid].image, entry.node>> \in pulledImages
<1>1. TypeOK /\ pc = "nodes" /\ idx <= Len(work.ns)
  BY NodeMoves DEF ImageInv, KwarmInv
<1>2. ObjectRight(specs, pulledImages, cur, work) /\ cur \in PPIs /\ idx \in DOMAIN work.ns
  BY <1>1, EntryType DEF ImageInv, WorkRight, TypeOK, WorkTypeOK
<1>3. ASSUME NEW status, NEW retry, NEW counter, NEW again,
             NextNode(status, retry, counter, again), status = "Completed" => HasImage
      PROVE  ObjectRight(specs, pulledImages, cur, work')
  <2>1. /\ DOMAIN work'.ns = DOMAIN work.ns /\ work'.uid = work.uid
        /\ \A k \in DOMAIN work.ns \ {idx} : work'.ns[k] = work.ns[k]
        /\ work'.ns[idx] = [node |-> entry.node, status |-> status, retry |-> retry]
    BY <1>1, <1>3, EntryRewritten
  <2>2. work'.ns[idx].node = entry.node /\ work'.ns[idx].status = status
    BY <2>1
  <2>3. entry.node \in TargetNodes(cur)
    BY <1>2 DEF ObjectRight, entry
  <2> QED
    BY <1>2, <1>3, <2>1, <2>2, <2>3 DEF ObjectRight
<1>4. CASE PullSucceeded
  <2>1. HasImage
    BY <1>1, <1>4, SucceededHasImage DEF PullSucceeded, Checked
  <2> QED
    BY <1>2, <1>3, <1>4, <2>1, StillRight DEF PullSucceeded
<1>5. CASE NodeDone
  <2>1. AtNode("Completed") => HasImage
    BY <1>2 DEF AtNode, entry, ObjectRight
  <2> QED
    BY <1>2, <1>3, <1>5, <2>1, StillRight DEF NodeDone
<1>6. CASE startPullJob \/ PullRunning
  BY <1>2, <1>3, <1>6, StillRight DEF startPullJob, PullRunning
<1>7. CASE startPullJobFails \/ RateLimited \/ PullRetried
  BY <1>2, <1>3, <1>7, StillRight DEF startPullJobFails, RateLimited, PullRetried
<1>8. CASE PullExhausted
  BY <1>2, <1>3, <1>8, StillRight DEF PullExhausted
<1> QED
  BY <1>4, <1>5, <1>6, <1>7, <1>8 DEF NodeAction

LEMMA WorkStaysRight ==
  ASSUME CleanupWorks, ImageInv, [KwarmNext]_allVars
  PROVE  WorkRight'
<1>1. TypeOK /\ [Next]_vars /\ Grown
  BY KwarmStep, Grows DEF ImageInv, KwarmInv
<1>2. pc # "idle" => cur \in PPIs /\ ObjectRight(specs', pulledImages', cur, work)
  BY <1>1, StillRight DEF ImageInv, WorkRight, TypeOK, WorkTypeOK
<1>3. SUFFICES ASSUME pc' # "idle"
               PROVE  ObjectRight(specs', pulledImages', cur', work')
  BY DEF WorkRight, ObjectRight, TargetNodes
<1>4. CASE Aside
  BY <1>2, <1>3, <1>4 DEF Aside, workVars
<1>5. ASSUME NEW p \in PPIs, Started(p)
      PROVE  ObjectRight(specs', pulledImages', cur', work')
  <2>1. cur' = p
    BY <1>1, <1>5, StartedFrom
  <2>2. ObjectRight(specs', pulledImages', p, cache[p])
    BY <1>1, StillRight DEF ImageInv, CacheRight
  <2>3. ObjectRight(specs', pulledImages', p, work')
    BY <1>1, <1>5, <2>2, StartedRight
  <2> QED
    BY <2>1, <2>3
<1>6. CASE NodeAction
  BY <1>1, <1>6, NodeActionRight, NodeMoves
<1>7. CASE InBetween
  <2>1. pc # "idle" /\ cur' = cur /\ work'.ns = work.ns /\ work'.uid = work.uid
    BY <1>1, <1>7, InBetweenKeeps
  <2> QED
    BY <1>2, <2>1, SameRight
<1>8. ~Ended
  BY <1>3 DEF Ended
<1> QED
  BY <1>1, <1>4, <1>5, <1>6, <1>7, <1>8, WorkCases

LEMMA LoopStillHolds ==
  ASSUME ImageInv, [KwarmNext]_allVars
  PROVE  LoopHolds'
<1>1. TypeOK /\ [Next]_vars /\ FinalizerStays
  BY KwarmStep DEF ImageInv, KwarmInv, HoldInv
<1>2. SUFFICES ASSUME pc' = "nodes"
               PROVE  store'[cur'].fin /\ store'[cur'].uid = work'.uid
  BY DEF LoopHolds
<1>3. CASE Aside
  <2>1. pc = "nodes" /\ cur' = cur /\ work' = work /\ cur \in PPIs
    BY <1>1, <1>2, <1>3 DEF Aside, workVars, TypeOK, WorkTypeOK
  <2>2. store[cur].fin /\ store[cur].uid = work.uid
    BY <2>1 DEF ImageInv, LoopHolds
  <2> QED
    BY <2>1, <2>2, LifeKept
<1>4. ASSUME NEW p \in PPIs, Started(p)
      PROVE  store'[cur'].fin /\ store'[cur'].uid = work'.uid
  <2>1. /\ cur' = p /\ store' = store /\ work'.uid = cache[p].uid
        /\ Live(cache[p]) /\ cache[p].fin
    BY <1>1, <1>2, <1>4, StartedFrom
  <2> QED
    BY <1>1, <2>1 DEF Live, FinalizerStays
<1>5. CASE NodeAction
  <2>1. PICK status, retry, counter, again : NextNode(status, retry, counter, again)
    BY <1>5, NodeMoves
  <2>2. pc = "nodes" /\ idx <= Len(work.ns) /\ cur' = cur /\ store' = store
    BY <1>5, NodeMoves
  <2>3. work'.uid = work.uid
    BY <1>1, <2>1, <2>2, EntryRewritten
  <2> QED
    BY <2>2, <2>3 DEF ImageInv, LoopHolds
<1>6. ~InBetween /\ ~Ended
  BY <1>2 DEF InBetween, FinishNodes, ReleaseNode, ListJobs, CleanupJob, CleanupEnds, Finalize,
     Ended
<1> QED
  BY <1>1, <1>3, <1>4, <1>5, <1>6, WorkCases

(* Only the loop brings new Jobs. *)
LEMMA JobsShrink ==
  ASSUME TypeOK, [Next]_vars, pc # "nodes", NEW p
  PROVE  \A j \in JobNames : jobs'[j] # NoJob /\ jobs'[j].owner = p => j \in JobsOf(p)
BY JobSteps DEF JobStep, JobRuns, JobCreated, JobsOf

(* The Jobs a cleanup lists are all that its object has, and no more than one. *)
LEMMA ListsAll ==
  ASSUME CleanupWorks, ImageInv, cur \in PPIs
  PROVE  /\ JobsOf(cur) \subseteq JobsLabelled(Name[cur])
         /\ \A i, j \in JobsLabelled(Name[cur]) : i = j
<1>1. seenJobs = jobs
  BY DEF CleanupWorks, seenJobs
<1>2. ASSUME NEW j \in JobsLabelled(Name[cur])
      PROVE  \E n \in TargetNodes(cur) : j = GenerateJobName(Name[cur], n)
  <2>1. j \in JobNames /\ jobs[j] # NoJob /\ Name[jobs[j].owner] = Name[cur]
    BY <1>1 DEF JobsLabelled
  <2>2. jobs[j].owner \in PPIs /\ jobs[j].node \in Nodes
    BY <2>1 DEF ImageInv, KwarmInv, TypeOK, ClusterTypeOK, Job
  <2>3. j = GenerateJobName(Name[cur], jobs[j].node)
    BY <2>1 DEF ImageInv, JobsHonest, JobOK
  <2>4. jobs[j].owner = cur
    BY <2>1, <2>2 DEF CleanupWorks, NamesDistinct
  <2>5. jobs[j].node \in TargetNodes(cur)
    BY <2>1, <2>4 DEF ImageInv, JobsRight, JobRight
  <2> QED
    BY <2>3, <2>5
<1>3. \A i, j \in JobsLabelled(Name[cur]) : i = j
  BY <1>2 DEF CleanupWorks, OneNode
<1>4. JobsOf(cur) \subseteq JobsLabelled(Name[cur])
  BY <1>1 DEF JobsOf, JobsLabelled
<1> QED
  BY <1>3, <1>4

(* Nothing but the last Job that is gone ends a cleanup. *)
LEMMA CleanupLeavesNone ==
  ASSUME CleanupWorks, ImageInv, CleanupEnds
  PROVE  JobsOf(cur) = {}
<1>1. ~Fault
  BY DEF CleanupWorks, Fault, ImageInv, KwarmInv, TypeOK, EnvTypeOK
<1>2. pc = "cleanup" /\ (todo = {} \/ \E j \in todo : jobs[j] = NoJob)
  BY <1>1 DEF CleanupEnds
<1>3. JobsOf(cur) \subseteq todo /\ \A i, j \in todo : i = j
  BY <1>2 DEF ImageInv, CleansAll
<1> QED
  BY <1>2, <1>3 DEF JobsOf

LEMMA StillCleansAll ==
  ASSUME CleanupWorks, ImageInv, [KwarmNext]_allVars
  PROVE  CleansAll'
<1>1. /\ TypeOK /\ [Next]_vars /\ WorkShape /\ CleansAll
      /\ jobs \in [JobNames -> Job \cup {NoJob}] /\ todo \subseteq JobNames
  BY KwarmStep DEF ImageInv, KwarmInv, SoundInv, TypeOK, ClusterTypeOK, WorkTypeOK
<1>2. ASSUME pc' \notin {"cleanup", "update"} \/ (pc' = "update" /\ ~work'.del)
      PROVE  CleansAll'
  BY <1>2 DEF CleansAll
<1>3. CASE Aside
  <2>1. pc' = pc /\ cur' = cur /\ work' = work /\ todo' = todo
    BY <1>3 DEF Aside, workVars
  <2>2. CASE pc \in {"cleanup", "update"}
    <3>1. JobsOf(cur)' \subseteq JobsOf(cur)
      BY <1>1, <2>1, <2>2, JobsShrink DEF JobsOf
    <3> QED
      BY <1>1, <2>1, <2>2, <3>1 DEF CleansAll
  <2> QED
    BY <1>2, <2>1, <2>2
<1>4. CASE Ended
  BY <1>2, <1>4 DEF Ended
<1>5. ASSUME NEW p \in PPIs, Started(p)
      PROVE  CleansAll'
  BY <1>1, <1>2, <1>5, StartedFrom DEF Live
<1>6. CASE NodeAction
  BY <1>2, <1>6, NodeMoves
<1>7. CASE FinishNodes
  <2>1. pc = "nodes" /\ pc' = "update" /\ work'.del = work.del
    BY <1>1, <1>7, FinishNodesFields DEF FinishNodes
  <2> QED
    BY <1>1, <1>2, <2>1 DEF WorkShape
<1>8. CASE ReleaseNode
  BY <1>2, <1>8 DEF ReleaseNode
<1>9. CASE ListJobs
  <2>1. /\ pc' = "cleanup" /\ todo' = JobsLabelled(Name[cur]) /\ cur' = cur /\ jobs' = jobs
        /\ cur \in PPIs
    BY <1>1, <1>9 DEF ListJobs, clusterVars, TypeOK, WorkTypeOK
  <2> QED
    BY <2>1, ListsAll DEF CleansAll, JobsOf
<1>10. CASE CleanupJob
  <2>1. PICK j \in todo : DeleteJob(j) /\ todo' = todo \ {j}
    BY <1>10 DEF CleanupJob
  <2>2. pc = "cleanup" /\ pc' = "cleanup" /\ cur' = cur
    BY <1>10 DEF CleanupJob
  <2>3. JobsOf(cur)' \subseteq JobsOf(cur) \ {j}
    BY <1>1, <2>1, <2>2 DEF DeleteJob, JobsOf
  <2> QED
    BY <1>1, <2>1, <2>2, <2>3 DEF CleansAll
<1>11. CASE CleanupEnds
  <2>1. pc' = "update" /\ cur' = cur /\ jobs' = jobs
    BY <1>11 DEF CleanupEnds, Finalize, clusterVars
  <2> QED
    BY <1>11, <2>1, CleanupLeavesNone DEF CleansAll, JobsOf
<1> QED
  BY <1>1, <1>3, <1>4, <1>5, <1>6, <1>7, <1>8, <1>9, <1>10, <1>11, WorkCases DEF InBetween

LEMMA ImageInvNext ==
  ASSUME CleanupWorks, ImageInv, [KwarmNext]_allVars
  PROVE  ImageInv'
<1>1. KwarmInv' /\ JobsHonest'
  BY KwarmInvNext, KwarmStep, JobsStayHonest DEF ImageInv, KwarmInv
<1> QED
  BY <1>1, JobsStayRight, StoreStaysRight, CacheStaysRight, WorkStaysRight, LoopStillHolds,
     StillCleansAll DEF ImageInv

(* A node that a PrePullImage calls Completed has the image of this very
   PrePullImage, and not that of a predecessor of the same name, though
   GenerateJobName gives their Jobs the same name and startPullJob adopts what it
   finds: handleDeletion takes the finalizer off only when no Job is left, so that
   a Job never outlives the PrePullImage it was made for - with late caches of the
   PrePullImages, conflicts, deletions at any time and crashes.  For PrePullImages of
   one node each, distinct Job names, and without API errors or a late Job cache. *)
THEOREM CompletedHasItsImage ==
  ASSUME CleanupWorks
  PROVE  KwarmSpec => []CompletedHasImage
<1>1. KwarmInit => ImageInv
  BY ImageInvInit
<1>2. ImageInv /\ [KwarmNext]_allVars => ImageInv'
  BY ImageInvNext
<1>3. ImageInv => CompletedHasImage
  BY DEF ImageInv, StoreRight, ObjectRight, CompletedHasImage, Having, specOf
<1> QED
  BY <1>1, <1>2, <1>3, PTL DEF KwarmSpec

(* No Job is left behind by a PrePullImage: handleDeletion drops the finalizer only
   after the cleanup, the loop creates Jobs only under it, and neither the TTL
   controller, which deletes the same Jobs, nor a crash half-way changes that.
   With two nodes a Job that the TTL controller removes first ends the cleanup
   before the other one (README, boundaries), hence OneNode. *)
THEOREM JobsGoFirst ==
  ASSUME CleanupWorks
  PROVE  KwarmSpec => []NoJobOutlivesOwner
<1>1. KwarmInit => ImageInv
  BY ImageInvInit
<1>2. ImageInv /\ [KwarmNext]_allVars => ImageInv'
  BY ImageInvNext
<1>3. ASSUME ImageInv, NEW j \in JobNames, jobs[j] # NoJob
      PROVE  store[jobs[j].owner].exists
  <2>1. store[jobs[j].owner].fin
    BY <1>3 DEF ImageInv, JobsRight, JobRight
  <2>2. jobs[j].owner \in PPIs
    BY <1>3 DEF ImageInv, KwarmInv, TypeOK, ClusterTypeOK, Job
  <2> QED
    BY <1>3, <2>1, <2>2 DEF ImageInv, KwarmInv, HoldInv, FinalizerStays
<1>4. ImageInv => NoJobOutlivesOwner
  BY <1>3 DEF NoJobOutlivesOwner
<1> QED
  BY <1>1, <1>2, <1>4, PTL DEF KwarmSpec
=============================================================================
