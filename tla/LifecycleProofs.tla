--------------------------- MODULE LifecycleProofs ----------------------------
(***************************************************************************)
(* That the PrePullImage controller implements the abstract life cycle of  *)
(* module PullLifecycle and stores summaries that agree with the statuses, *)
(* for any number of PrePullImages, nodes, retries, edits, faults and      *)
(* restarts, and with late caches.                                         *)
(***************************************************************************)
EXTENDS PrePullImageProofs

-----------------------------------------------------------------------------
(* The inductive invariant.  Resource versions are what it rests on: a copy
   with the version of the stored object is that object, so a reconcile whose
   write the API server will accept has begun from the object as it still is.
   Whatever a stale reconcile computes is irrelevant, for it is not written. *)

(* An object as the API server may hold it. *)
Counted(ns, sum) ==
  /\ sum.total = Len(ns)
  /\ sum.pending = Cardinality(Having(ns, "Pending"))
  /\ sum.pulling = Cardinality(Having(ns, "Pulling"))
  /\ sum.completed = Cardinality(Having(ns, "Completed"))
  /\ sum.failed = Cardinality(Having(ns, "Failed"))

Sound(p, obj) ==
  /\ \A i \in DOMAIN obj.ns : obj.ns[i].retry <= MaxAttempts[p]
  /\ obj.phase = "Pending" \/ ~obj.exists \/ ~obj.fin => obj.ns = <<>>
  /\ Counted(obj.ns, obj.summary)

StoreSound == \A p \in PPIs : Sound(p, store[p])

(* Resource versions tell the states of an object apart. *)
CacheVersions ==
  \A p \in PPIs : /\ cache[p].rv <= store[p].rv
                  /\ cache[p].rv = store[p].rv => cache[p] = store[p]
WorkVersion == pc # "idle" => work.rv <= store[cur].rv

(* What a reconcile carries from one step to the next. *)
WorkShape ==
  /\ pc # "idle" => work.exists
  /\ pc \in {"nodes", "ttlDelete"} => work.fin /\ ~work.del
  /\ pc \in {"release", "cleanup"} => work.del
  /\ pc = "cleanup" => idx > Len(work.ns)
  /\ pc = "update" => IF work.del THEN ~work.fin /\ idx > Len(work.ns) ELSE work.fin
  /\ pc \in {"idle", "ttlDelete"} => ~touched

(* The nodes the loop has met. *)
Met(status) == {i \in Having(work.ns, status) : i < idx}

TallyCounts ==
  /\ pc = "idle" => tally = NoCounts
  /\ pc = "nodes" => /\ tally.pending = Cardinality(Met("Pending"))
                     /\ tally.pulling = Cardinality(Met("Pulling"))
                     /\ tally.completed = Cardinality(Met("Completed"))
                     /\ tally.failed = Cardinality(Met("Failed"))

Same(old, new) == new.phase = old.phase /\ new.ns = old.ns

Began(old, new) ==
  /\ old.phase = "Pending"
  /\ \/ new.phase = "Completed" /\ new.ns = <<>>
     \/ /\ new.phase = "InProgress" /\ new.ns # <<>>
        /\ \A i \in DOMAIN new.ns : new.ns[i] \in Lifecycle!Waiting

Advanced(p, old, new) ==
  /\ old.phase = "InProgress"
  /\ DOMAIN new.ns = DOMAIN old.ns
  /\ \A i \in DOMAIN old.ns : Lifecycle!NodeStep(p, old.ns[i], new.ns[i])
  /\ new.phase = Lifecycle!Outcome(new.ns)

Writable(p, old, new) ==
  \/ new.del
  \/ Sound(p, new) /\ (Same(old, new) \/ Began(old, new) \/ Advanced(p, old, new))

Halfway ==
  /\ store[cur].phase = "InProgress"
  /\ DOMAIN work.ns = DOMAIN store[cur].ns
  /\ \A i \in DOMAIN work.ns :
       IF i < idx THEN Lifecycle!NodeStep(cur, store[cur].ns[i], work.ns[i])
                  ELSE work.ns[i] = store[cur].ns[i]

(* A reconcile whose write can succeed has read the object as it is. *)
WorkSound ==
  pc # "idle" /\ ~Stale =>
    /\ store[cur].exists
    /\ pc = "nodes" => Halfway
    /\ pc = "update" => Writable(cur, store[cur], work)

SoundInv == /\ StoreSound /\ CacheVersions /\ WorkVersion
            /\ WorkShape /\ TallyCounts /\ WorkSound

-----------------------------------------------------------------------------
(* Fields of the objects the model builds. *)

LEMMA BumpedFields ==
  ASSUME NEW obj \in Object
  PROVE  /\ Bumped(obj).rv = obj.rv + 1
         /\ Bumped(obj).exists = obj.exists /\ Bumped(obj).uid = obj.uid
         /\ Bumped(obj).fin = obj.fin /\ Bumped(obj).del = obj.del
         /\ Bumped(obj).phase = obj.phase /\ Bumped(obj).ns = obj.ns
         /\ Bumped(obj).summary = obj.summary /\ Bumped(obj).done = obj.done
BY DEF Bumped, Object

LEMMA MarkedFields ==
  ASSUME NEW obj \in Object, NEW new, new = Bumped([obj EXCEPT !.del = TRUE])
  PROVE  /\ new.rv = obj.rv + 1 /\ new.exists = obj.exists /\ new.uid = obj.uid
         /\ new.del /\ new.fin = obj.fin /\ new.phase = obj.phase /\ new.ns = obj.ns
         /\ new.summary = obj.summary
BY DEF Object, Bumped

LEMMA FinalizerFields ==
  ASSUME NEW obj \in Object, NEW b \in BOOLEAN, NEW new, new = [obj EXCEPT !.fin = b]
  PROVE  /\ new.rv = obj.rv /\ new.exists = obj.exists /\ new.uid = obj.uid
         /\ new.fin = b
         /\ new.del = obj.del /\ new.phase = obj.phase /\ new.ns = obj.ns
         /\ new.summary = obj.summary
BY DEF Object

LEMMA NothingToDoFields ==
  ASSUME NEW obj \in Object, NEW new, new = Initialized(obj, <<>>)
  PROVE  /\ new.rv = obj.rv /\ new.exists = obj.exists /\ new.fin = obj.fin
         /\ new.uid = obj.uid /\ new.del = obj.del /\ new.phase = "Completed" /\ new.ns = obj.ns
         /\ new.summary = obj.summary
BY DEF Initialized, Object

Entries0(targets) ==
  [i \in DOMAIN targets |-> [node |-> targets[i], status |-> "Pending", retry |-> 0]]
Summary0(targets) ==
  [NoCounts EXCEPT !.total = Len(targets), !.pending = Len(targets)]

LEMMA InitializedFields ==
  ASSUME NEW obj \in Object, NEW targets, targets # <<>>,
         NEW new, new = Initialized(obj, targets)
  PROVE  /\ new.rv = obj.rv /\ new.exists = obj.exists /\ new.fin = obj.fin
         /\ new.uid = obj.uid /\ new.del = obj.del /\ new.phase = "InProgress"
         /\ new.ns = Entries0(targets) /\ new.summary = Summary0(targets)
<1>1. new = [obj EXCEPT !.phase = "InProgress", !.ns = Entries0(targets),
                        !.summary = Summary0(targets)]
  BY DEF Initialized, Entries0, Summary0
<1> QED
  BY <1>1 DEF Object

LEMMA InitializedKeeps ==
  ASSUME NEW obj \in Object, NEW targets, NEW new, new = Initialized(obj, targets)
  PROVE  /\ new.rv = obj.rv /\ new.exists = obj.exists
         /\ new.fin = obj.fin /\ new.del = obj.del /\ new.uid = obj.uid
<1>1. CASE targets = <<>>
  BY <1>1, NothingToDoFields
<1>2. CASE targets # <<>>
  BY <1>2, InitializedFields
<1> QED
  BY <1>1, <1>2

LEMMA NewFields ==
  ASSUME NEW uid, NEW rv
  PROVE  /\ Fresh(uid, rv).rv = rv /\ Absent(uid, rv).rv = rv
         /\ Fresh(uid, rv).ns = <<>> /\ Absent(uid, rv).ns = <<>>
         /\ Fresh(uid, rv).phase = "Pending" /\ Absent(uid, rv).phase = "Pending"
         /\ Fresh(uid, rv).exists /\ ~Absent(uid, rv).exists
         /\ Fresh(uid, rv).uid = uid /\ Absent(uid, rv).uid = uid
         /\ ~Fresh(uid, rv).fin /\ ~Absent(uid, rv).fin
         /\ ~Fresh(uid, rv).del /\ ~Absent(uid, rv).del
         /\ Fresh(uid, rv).summary = NoCounts /\ Absent(uid, rv).summary = NoCounts
BY DEF Fresh, Absent

LEMMA HavingFinite ==
  ASSUME NEW ns \in Seq(NodeStatus), NEW status
  PROVE  /\ IsFiniteSet(Having(ns, status)) /\ Having(ns, status) \subseteq 1..Len(ns)
         /\ Cardinality(Having(ns, status)) \in Nat
<1>1. Len(ns) \in Nat /\ DOMAIN ns = 1..Len(ns)
  OBVIOUS
<1>2. IsFiniteSet(1..Len(ns))
  BY <1>1, FS_Interval
<1>3. Having(ns, status) \subseteq 1..Len(ns)
  BY <1>1 DEF Having
<1> QED
  BY <1>2, <1>3, FS_Subset, FS_CardinalityType

(* Objects without status are sound. *)
LEMMA EmptyCounted == Counted(<<>>, NoCounts)
<1>1. \A status : Having(<<>>, status) = {}
  BY DEF Having
<1>2. Len(<<>>) = 0
  OBVIOUS
<1> QED
  BY <1>1, <1>2, FS_EmptySet DEF Counted, NoCounts

LEMMA NewSound ==
  ASSUME NEW p, NEW uid, NEW rv
  PROVE  Sound(p, Fresh(uid, rv)) /\ Sound(p, Absent(uid, rv))
<1>1. DOMAIN <<>> = {}
  OBVIOUS
<1> QED
  BY <1>1, NewFields, EmptyCounted DEF Sound

LEMMA SoundKept ==
  ASSUME NEW p, NEW old, NEW new, Sound(p, old), new.ns = old.ns, new.phase = old.phase,
         new.exists = old.exists, new.fin = old.fin, new.summary = old.summary
  PROVE  Sound(p, new)
BY DEF Sound

-----------------------------------------------------------------------------
(* What a step may do to the stored objects and to the reconcile. *)

OnlyAt(p) == \A q \in PPIs \ {p} : store'[q] = store[q]

(* The write that ends a reconcile. *)
Ended == pc' = "idle" /\ cur' = NoPPI /\ tally' = NoCounts /\ touched' = FALSE

Wrote(p) ==
  /\ pc = "update" /\ cur = p /\ CanWrite /\ Ended
  /\ \/ work.del /\ ~work.fin /\ store'[p] = Absent(store[p].uid, store[p].rv + 1)
     \/ ~(work.del /\ ~work.fin) /\ store'[p] = Bumped(work)

(* A delete, an edit or a creation: by users, or by handleCompleted. *)
Changed(p) ==
  \/ ~store[p].fin /\ store'[p] = Absent(store[p].uid, store[p].rv + 1)
  \/ store[p].fin /\ store'[p] = Bumped([store[p] EXCEPT !.del = TRUE])
  \/ store'[p] = Bumped(store[p])
  \/ /\ ~store[p].exists /\ store[p].uid < MaxCreates
     /\ store'[p] = Fresh(store[p].uid + 1, store[p].rv + 1)

LEMMA PersistStep ==
  ASSUME TypeOK, pc = "update", CanWrite, Persist(cur, work), Ended
  PROVE  UNCHANGED store \/ (cur \in PPIs /\ OnlyAt(cur) /\ Wrote(cur))
<1>1. cur \in PPIs /\ store \in [PPIs -> Object]
  BY DEF TypeOK, WorkTypeOK, ClusterTypeOK
<1>2. OnlyAt(cur)
  BY <1>1 DEF Persist, OnlyAt
<1>3. CASE work.del /\ ~work.fin
  <2>1. store'[cur] = Absent(store[cur].uid, store[cur].rv + 1)
    BY <1>1, <1>3 DEF Persist
  <2> QED
    BY <1>1, <1>2, <1>3, <2>1 DEF Wrote
<1>4. CASE ~(work.del /\ ~work.fin)
  <2>1. store' = store \/ store'[cur] = Bumped(work)
    BY <1>1, <1>4 DEF Persist
  <2> QED
    BY <1>1, <1>2, <1>4, <2>1 DEF Wrote
<1> QED
  BY <1>3, <1>4

LEMMA DeleteStep ==
  ASSUME TypeOK, NEW p \in PPIs, DeleteObject(p)
  PROVE  UNCHANGED store \/ (OnlyAt(p) /\ Changed(p))
<1>1. store \in [PPIs -> Object]
  BY DEF TypeOK, ClusterTypeOK
<1>2. OnlyAt(p)
  BY <1>1 DEF DeleteObject, OnlyAt
<1>3. \/ ~store[p].fin /\ store'[p] = Absent(store[p].uid, store[p].rv + 1)
      \/ store' = store
      \/ store[p].fin /\ store'[p] = Bumped([store[p] EXCEPT !.del = TRUE])
  BY <1>1 DEF DeleteObject
<1> QED
  BY <1>2, <1>3 DEF Changed

LEMMA StoreStep ==
  ASSUME TypeOK, [Next]_vars
  PROVE  UNCHANGED store \/ \E p \in PPIs : OnlyAt(p) /\ (Wrote(p) \/ Changed(p))
<1>1. ASSUME NEW p \in PPIs, Reconcile(p)
      PROVE  UNCHANGED store
  BY <1>1 DEF Reconcile, ReconcileGone, ReconcileReadFails, AddFinalizer, handlePending,
     handleInProgress, handleCompleted, handleDeletion, Begin, clusterVars
<1>2. CASE NodeAction
  BY <1>2 DEF NodeAction, startPullJob, startPullJobFails, RateLimited, PullSucceeded,
     PullRetried, PullExhausted, PullRunning, NodeDone, NextNode
<1>3. CASE EndAction
  <2>1. CASE UpdateWritten \/ UpdateFails
    BY <2>1, PersistStep DEF UpdateWritten, UpdateFails, Return, Ended
  <2>2. CASE TTLDelete
    <3>1. cur \in PPIs
      BY <2>2 DEF TTLDelete, TypeOK, WorkTypeOK
    <3> QED
      BY <2>2, <3>1, DeleteStep DEF TTLDelete
  <2> QED
    BY <1>3, <2>1, <2>2 DEF EndAction, FinishNodes, UpdateRejected,
       ReleaseNode, ListJobs, CleanupJob, CleanupEnds, clusterVars
<1>4. CASE Environment
  <2>1. ASSUME NEW p \in PPIs, Delete(p)
        PROVE  UNCHANGED store \/ (OnlyAt(p) /\ Changed(p))
    BY <2>1, DeleteStep DEF Delete
  <2>2. ASSUME NEW p \in PPIs, Create(p) \/ Edit(p)
        PROVE  OnlyAt(p) /\ Changed(p)
    <3>1. store \in [PPIs -> Object]
      BY DEF TypeOK, ClusterTypeOK
    <3> QED
      BY <2>2, <3>1 DEF Create, Edit, OnlyAt, Changed
  <2> QED
    BY <1>4, <2>1, <2>2 DEF Environment, TTLElapses, SyncPPI, TimerFires, SyncJob,
       JobMoves, JobExpires, Restart, clusterVars
<1>5. CASE Quiet \/ UNCHANGED vars
  BY <1>5 DEF Quiet, vars, clusterVars
<1> QED
  BY <1>1, <1>2, <1>3, <1>4, <1>5 DEF Next, WorkStep, NodeAction, EndAction

(* Every change of an object moves its resource version on by one. *)
LEMMA VersionsMove ==
  ASSUME TypeOK, [Next]_vars, NEW p \in PPIs
  PROVE  store'[p] = store[p] \/ store'[p].rv = store[p].rv + 1
<1>1. store[p] \in Object /\ work \in Object
  BY DEF TypeOK, ClusterTypeOK, WorkTypeOK
<1>2. CASE Wrote(p)
  <2>1. Bumped(work).rv = work.rv + 1 /\ (CanWrite /\ cur = p => work.rv = store[p].rv)
    BY <1>1, BumpedFields DEF CanWrite
  <2> QED
    BY <1>2, <2>1, NewFields DEF Wrote
<1>3. CASE Changed(p)
  <2>1. /\ Bumped(store[p]).rv = store[p].rv + 1
        /\ Bumped([store[p] EXCEPT !.del = TRUE]).rv = store[p].rv + 1
    BY <1>1, BumpedFields, MarkedFields
  <2> QED
    BY <1>3, <2>1, NewFields DEF Changed
<1> QED
  BY <1>2, <1>3, StoreStep DEF OnlyAt

(* A change of a stored object that is not the write of a reconcile keeps its
   node statuses. *)
LEMMA ChangedKeepsNodes ==
  ASSUME TypeOK, StoreSound, NEW p \in PPIs, Changed(p)
  PROVE  store'[p].ns = store[p].ns
<1>1. store[p] \in Object /\ (~store[p].fin \/ ~store[p].exists => store[p].ns = <<>>)
  BY DEF TypeOK, ClusterTypeOK, StoreSound, Sound
<1> QED
  BY <1>1, BumpedFields, MarkedFields, NewFields DEF Changed

Aside == UNCHANGED workVars

Started(p) ==
  \/ AddFinalizer(p) \/ handlePending(p) \/ handleInProgress(p) \/ handleDeletion(p)
  \/ handleCompleted(p) /\ Expired(p)

InBetween == FinishNodes \/ ReleaseNode \/ ListJobs \/ CleanupJob \/ CleanupEnds

LEMMA WorkCases ==
  ASSUME TypeOK, [Next]_vars
  PROVE  Aside \/ Ended \/ (\E p \in PPIs : Started(p)) \/ NodeAction \/ InBetween
<1>1. ASSUME NEW p \in PPIs, Reconcile(p)
      PROVE  Aside \/ Started(p)
  BY <1>1 DEF Reconcile, ReconcileGone, ReconcileReadFails, handleCompleted, Aside, Started
<1>2. CASE EndAction
  BY <1>2 DEF EndAction, UpdateWritten, UpdateRejected, UpdateFails, TTLDelete, Return,
     Ended, InBetween
<1>3. CASE Environment
  BY <1>3 DEF Environment, Create, Delete, Edit, TTLElapses, SyncPPI, TimerFires, SyncJob,
     JobMoves, JobExpires, Restart, Aside, Ended
<1>4. CASE Quiet \/ UNCHANGED vars
  BY <1>4 DEF Quiet, vars, Aside
<1> QED
  BY <1>1, <1>2, <1>3, <1>4 DEF Next, WorkStep, NodeAction, EndAction

-----------------------------------------------------------------------------
(* Resource versions. *)

LEMMA CacheVersionsKept ==
  ASSUME TypeOK, CacheVersions, [Next]_vars
  PROVE  CacheVersions'
<1>1. ASSUME NEW p \in PPIs
      PROVE  store[p].rv \in Nat /\ cache[p].rv \in Nat /\ store'[p].rv \in Nat
  <2>1. store[p] \in Object /\ cache[p] \in Object
    BY DEF TypeOK, ClusterTypeOK, ManagerTypeOK
  <2>2. store'[p] \in Object
    BY NextType DEF TypeOK, ClusterTypeOK
  <2> QED
    BY <2>1, <2>2, ObjectFields
<1>2. ASSUME UNCHANGED cache
      PROVE  CacheVersions'
  BY <1>1, <1>2, VersionsMove DEF CacheVersions
<1>3. ASSUME NEW p \in PPIs, SyncPPI(p)
      PROVE  CacheVersions'
  <2>1. UNCHANGED store /\ cache \in [PPIs -> Object]
    BY <1>3 DEF SyncPPI, clusterVars, TypeOK, ManagerTypeOK
  <2> QED
    BY <1>1, <1>3, <2>1 DEF SyncPPI, CacheVersions
<1>4. CASE Restart
  BY <1>1, <1>4 DEF Restart, clusterVars, CacheVersions
<1>5. ASSUME NEW p \in PPIs, Reconcile(p)
      PROVE  UNCHANGED cache
  BY <1>5 DEF Reconcile, ReconcileGone, ReconcileReadFails, AddFinalizer, handlePending,
     handleInProgress, handleCompleted, handleDeletion, Begin
<1>6. CASE NodeAction
  BY <1>2, <1>6 DEF NodeAction, startPullJob, startPullJobFails, RateLimited, PullSucceeded,
     PullRetried, PullExhausted, PullRunning, NodeDone, NextNode
<1>7. CASE EndAction
  BY <1>2, <1>7 DEF EndAction, FinishNodes, UpdateWritten, UpdateRejected, UpdateFails,
     TTLDelete, ReleaseNode, ListJobs, CleanupJob, CleanupEnds
<1>8. CASE Environment
  BY <1>2, <1>3, <1>4, <1>8 DEF Environment, Create, Delete, Edit, TTLElapses, TimerFires,
     SyncJob, JobMoves, JobExpires
<1>9. CASE Quiet \/ UNCHANGED vars
  BY <1>2, <1>9 DEF Quiet, vars
<1> QED
  BY <1>2, <1>5, <1>6, <1>7, <1>8, <1>9 DEF Next, WorkStep, NodeAction, EndAction

(* A reconcile begins with a copy of the cached object. *)
LEMMA StartedFrom ==
  ASSUME TypeOK, NEW p \in PPIs, Started(p)
  PROVE  /\ pc = "idle" /\ pc' # "idle" /\ cur' = p /\ idx' = 1
         /\ UNCHANGED <<store, cache, tally, touched, limitVars, lost>>
         /\ work'.rv = cache[p].rv /\ work'.del = cache[p].del /\ work'.uid = cache[p].uid
         /\ work'.exists /\ cache[p].exists
         /\ \/ /\ pc' = "update" /\ Live(cache[p]) /\ work' = [cache[p] EXCEPT !.fin = TRUE]
            \/ /\ pc' = "update" /\ Live(cache[p]) /\ cache[p].fin
               /\ cache[p].phase = "Pending"
               /\ \E targets \in Seq(Nodes) : work' = Initialized(cache[p], targets)
            \/ /\ pc' = "nodes" /\ Live(cache[p]) /\ cache[p].fin
               /\ cache[p].phase = "InProgress" /\ work' = cache[p]
            \/ /\ pc' = "ttlDelete" /\ Live(cache[p]) /\ cache[p].fin
               /\ cache[p].phase \in {"Completed", "Failed"} /\ work' = cache[p]
            \/ /\ pc' = "release" /\ cache[p].del /\ work' = cache[p]
<1>1. cache[p] \in Object
  BY DEF TypeOK, ManagerTypeOK
<1>2. CASE AddFinalizer(p)
  <2>1. work' = [cache[p] EXCEPT !.fin = TRUE]
    BY <1>2 DEF AddFinalizer, Begin
  <2>2. /\ work'.rv = cache[p].rv /\ work'.del = cache[p].del /\ work'.exists = cache[p].exists
        /\ work'.uid = cache[p].uid
    BY <1>1, <2>1, FinalizerFields
  <2> QED
    BY <1>2, <2>1, <2>2 DEF AddFinalizer, Begin, Take, Live, clusterVars, envVars
<1>3. CASE handlePending(p)
  <2>1. PICK targets \in getTargetNodes(p) :
          Begin(p, "update", Initialized(cache[p], targets), targets # <<>>)
    BY <1>3 DEF handlePending
  <2>2. targets \in Seq(Nodes)
    BY TargetsType
  <2>3. work' = Initialized(cache[p], targets)
    BY <2>1 DEF Begin
  <2>4. /\ work'.rv = cache[p].rv /\ work'.del = cache[p].del /\ work'.exists = cache[p].exists
        /\ work'.uid = cache[p].uid
    BY <1>1, <2>2, <2>3, InitializedKeeps
  <2>5. /\ pc' = "update" /\ cur' = p /\ idx' = 1
        /\ UNCHANGED <<store, cache, tally, touched, limitVars, lost>>
    BY <2>1 DEF Begin, clusterVars, envVars
  <2>6. pc = "idle" /\ Live(cache[p]) /\ cache[p].fin /\ cache[p].phase = "Pending"
    BY <1>3 DEF handlePending, Take
  <2> QED
    BY <2>2, <2>3, <2>4, <2>5, <2>6 DEF Live
<1>4. CASE handleInProgress(p)
  BY <1>4 DEF handleInProgress, Begin, Take, Live, clusterVars, envVars
<1>5. CASE handleDeletion(p)
  BY <1>5 DEF handleDeletion, Begin, Take, Live, clusterVars, envVars
<1>6. CASE handleCompleted(p) /\ Expired(p)
  BY <1>6 DEF handleCompleted, Begin, Take, Live, clusterVars, envVars
<1> QED
  BY <1>2, <1>3, <1>4, <1>5, <1>6 DEF Started

-----------------------------------------------------------------------------
(* One iteration of the loop of handleInProgress. *)

CountedAs(status, counter) ==
  \/ status = "Pending" /\ counter = "pending"
  \/ status = "Pulling" /\ counter = "pulling"
  \/ status = "Completed" /\ counter = "completed"
  \/ status = "Failed" /\ counter = "failed"

EntryKept(status, retry) ==
  /\ status = entry.status /\ retry = entry.retry
  /\ UNCHANGED <<touched, limitVars>>

EntryStarted(status, retry) ==
  /\ entry.status = "Pending" /\ status = "Pulling" /\ retry = entry.retry
  /\ Limiter!TryAcquire(entry.node) /\ IncrementActivePulls /\ touched' = TRUE

EntryEnded(status, retry) ==
  /\ entry.status = "Pulling" /\ ReleaseSlot
  /\ checkJobStatus(jobName) \in {"Succeeded", "Failed"}
  /\ \/ status = "Completed" /\ retry = entry.retry
     \/ status = "Pending" /\ entry.retry < MaxAttempts[cur] /\ retry = entry.retry + 1
     \/ status = "Failed" /\ entry.retry >= MaxAttempts[cur] /\ retry = entry.retry

EntryMove(status, retry) ==
  EntryKept(status, retry) \/ EntryStarted(status, retry) \/ EntryEnded(status, retry)

LEMMA NodeMoves ==
  ASSUME NodeAction
  PROVE  /\ pc = "nodes" /\ idx <= Len(work.ns)
         /\ UNCHANGED <<pc, cur, store, cache, lost>> /\ idx' = idx + 1
         /\ \E status, retry, counter, again :
              /\ NextNode(status, retry, counter, again)
              /\ CountedAs(status, counter) /\ EntryMove(status, retry)
<1> DEFINE Moved == \E status, retry, counter, again :
                      /\ NextNode(status, retry, counter, again)
                      /\ CountedAs(status, counter) /\ EntryMove(status, retry)
<1>1. ASSUME NEW status, NEW retry, NEW counter, NEW again,
             NextNode(status, retry, counter, again),
             CountedAs(status, counter), EntryMove(status, retry)
      PROVE  Moved
  BY <1>1
<1> HIDE DEF Moved
<1>2. pc = "nodes" /\ idx <= Len(work.ns)
  BY DEF NodeAction, startPullJob, startPullJobFails, RateLimited, PullSucceeded,
     PullRetried, PullExhausted, PullRunning, NodeDone, Checked, AtNode
<1>3. UNCHANGED <<pc, cur, store, cache, lost>> /\ idx' = idx + 1
  BY DEF NodeAction, startPullJob, startPullJobFails, RateLimited, PullSucceeded,
     PullRetried, PullExhausted, PullRunning, NodeDone, NextNode
<1> SUFFICES Moved
  BY <1>2, <1>3 DEF Moved
<1>4. CASE startPullJob
  <2>1. NextNode("Pulling", entry.retry, "pulling", FALSE)
    BY <1>4 DEF startPullJob
  <2>2. EntryMove("Pulling", entry.retry)
    BY <1>4 DEF startPullJob, AtNode, EntryMove, EntryStarted
  <2> QED
    BY <1>1, <2>1, <2>2 DEF CountedAs
<1>5. CASE startPullJobFails \/ RateLimited
  <2>1. NextNode("Pending", entry.retry, "pending", TRUE)
    BY <1>5 DEF startPullJobFails, RateLimited
  <2>2. EntryMove("Pending", entry.retry)
    BY <1>5 DEF startPullJobFails, RateLimited, AtNode, EntryMove, EntryKept
  <2> QED
    BY <1>1, <2>1, <2>2 DEF CountedAs
<1>6. CASE PullSucceeded
  <2>1. NextNode("Completed", entry.retry, "completed", FALSE)
    BY <1>6 DEF PullSucceeded
  <2>2. EntryMove("Completed", entry.retry)
    BY <1>6 DEF PullSucceeded, Checked, AtNode, EntryMove, EntryEnded
  <2> QED
    BY <1>1, <2>1, <2>2 DEF CountedAs
<1>7. CASE PullRetried
  <2>1. NextNode("Pending", entry.retry + 1, "pending", TRUE)
    BY <1>7 DEF PullRetried
  <2>2. EntryMove("Pending", entry.retry + 1)
    BY <1>7 DEF PullRetried, Checked, AtNode, EntryMove, EntryEnded
  <2> QED
    BY <1>1, <2>1, <2>2 DEF CountedAs
<1>8. CASE PullExhausted
  <2>1. NextNode("Failed", entry.retry, "failed", FALSE)
    BY <1>8 DEF PullExhausted
  <2>2. EntryMove("Failed", entry.retry)
    BY <1>8 DEF PullExhausted, Checked, AtNode, EntryMove, EntryEnded
  <2> QED
    BY <1>1, <2>1, <2>2 DEF CountedAs
<1>9. CASE PullRunning
  <2>1. NextNode("Pulling", entry.retry, "pulling", TRUE)
    BY <1>9 DEF PullRunning
  <2>2. EntryMove("Pulling", entry.retry)
    BY <1>9 DEF PullRunning, Checked, AtNode, EntryMove, EntryKept
  <2> QED
    BY <1>1, <2>1, <2>2 DEF CountedAs
<1>10. CASE NodeDone
  <2>1. CASE AtNode("Completed") /\ NextNode("Completed", entry.retry, "completed", FALSE)
    <3>1. EntryMove("Completed", entry.retry)
      BY <1>10, <2>1 DEF NodeDone, AtNode, EntryMove, EntryKept
    <3> QED
      BY <1>1, <2>1, <3>1 DEF CountedAs
  <2>2. CASE AtNode("Failed") /\ NextNode("Failed", entry.retry, "failed", FALSE)
    <3>1. EntryMove("Failed", entry.retry)
      BY <1>10, <2>2 DEF NodeDone, AtNode, EntryMove, EntryKept
    <3> QED
      BY <1>1, <2>2, <3>1 DEF CountedAs
  <2> QED
    BY <1>10, <2>1, <2>2 DEF NodeDone
<1> QED
  BY <1>4, <1>5, <1>6, <1>7, <1>8, <1>9, <1>10 DEF NodeAction

(* It rewrites one entry and nothing else of the object. *)
LEMMA EntryRewritten ==
  ASSUME TypeOK, pc # "idle", idx <= Len(work.ns),
         NEW status, NEW retry, NEW counter, NEW again,
         NextNode(status, retry, counter, again)
  PROVE  /\ idx \in 1..Len(work.ns) /\ idx \in DOMAIN work.ns
         /\ DOMAIN work'.ns = DOMAIN work.ns /\ Len(work'.ns) = Len(work.ns)
         /\ \A k \in DOMAIN work.ns \ {idx} : work'.ns[k] = work.ns[k]
         /\ work'.ns[idx] = [node |-> entry.node, status |-> status, retry |-> retry]
         /\ work'.rv = work.rv /\ work'.exists = work.exists /\ work'.fin = work.fin
         /\ work'.del = work.del /\ work'.phase = work.phase /\ work'.uid = work.uid
<1> DEFINE ns1 == [work.ns EXCEPT ![idx].status = status]
           ns2 == [ns1 EXCEPT ![idx].retry = retry]
<1>1. work \in Object /\ idx \in 1..Len(work.ns) /\ entry = work.ns[idx] /\ entry \in NodeStatus
  BY EntryType DEF TypeOK, WorkTypeOK, entry
<1>2. work.ns \in Seq(NodeStatus) /\ idx \in DOMAIN work.ns
  BY <1>1, ObjectFields
<1>3. work' = [work EXCEPT !.ns = ns2]
  BY <1>1 DEF NextNode, Object
<1>4. /\ DOMAIN ns1 = DOMAIN work.ns
      /\ ns1[idx] = [work.ns[idx] EXCEPT !.status = status]
      /\ \A k \in DOMAIN work.ns \ {idx} : ns1[k] = work.ns[k]
  BY <1>2
<1>5. /\ DOMAIN ns2 = DOMAIN work.ns
      /\ ns2[idx] = [ns1[idx] EXCEPT !.retry = retry]
      /\ \A k \in DOMAIN work.ns \ {idx} : ns2[k] = work.ns[k]
  BY <1>2, <1>4
<1>6. ns2[idx] = [node |-> entry.node, status |-> status, retry |-> retry]
  <2>1. entry = [node |-> entry.node, status |-> entry.status, retry |-> entry.retry]
    BY <1>1 DEF NodeStatus
  <2>2. ns1[idx] = [node |-> entry.node, status |-> status, retry |-> entry.retry]
    BY <1>1, <1>4, <2>1
  <2> QED
    BY <1>5, <2>2
<1>7. Len(ns2) = Len(work.ns)
  BY <1>2, <1>5
<1> HIDE DEF ns1, ns2
<1>8. work'.ns = ns2
  BY <1>1, <1>3 DEF Object
<1>9. /\ work'.rv = work.rv /\ work'.exists = work.exists /\ work'.fin = work.fin
      /\ work'.del = work.del /\ work'.phase = work.phase /\ work'.uid = work.uid
  BY <1>1, <1>3 DEF Object
<1> QED
  BY <1>1, <1>2, <1>5, <1>6, <1>7, <1>8, <1>9

-----------------------------------------------------------------------------
(* The other steps of a reconcile that goes on. *)

LEMMA FinishNodesFields ==
  ASSUME TypeOK, FinishNodes
  PROVE  /\ work'.rv = work.rv /\ work'.exists = work.exists /\ work'.fin = work.fin
         /\ work'.del = work.del /\ work'.ns = work.ns /\ work'.uid = work.uid
         /\ work'.phase = PhaseAfter(tally)
         /\ work'.summary = [tally EXCEPT !.total = Len(work.ns)]
<1> DEFINE sum == [tally EXCEPT !.total = Len(work.ns)]
           phase == PhaseAfter(tally)
<1>1. work' = [work EXCEPT !.summary = sum, !.phase = phase, !.done = @ \/ phase # "InProgress"]
  BY DEF FinishNodes
<1>2. work \in Object
  BY DEF TypeOK, WorkTypeOK
<1> HIDE DEF sum, phase
<1>3. /\ work'.rv = work.rv /\ work'.exists = work.exists /\ work'.fin = work.fin
      /\ work'.del = work.del /\ work'.ns = work.ns /\ work'.uid = work.uid
      /\ work'.phase = phase /\ work'.summary = sum
  BY <1>1, <1>2 DEF Object
<1> QED
  BY <1>3 DEF sum, phase

LEMMA InBetweenKeeps ==
  ASSUME TypeOK, InBetween
  PROVE  /\ pc # "idle" /\ pc' # "idle" /\ cur' = cur
         /\ UNCHANGED <<store, cache, lost>>
         /\ work'.rv = work.rv /\ work'.exists = work.exists
         /\ work'.del = work.del /\ work'.ns = work.ns /\ work'.uid = work.uid
<1>1. pc # "idle" /\ pc' # "idle" /\ cur' = cur /\ UNCHANGED <<store, cache, lost>>
  BY DEF InBetween, FinishNodes, ReleaseNode, ListJobs, CleanupJob, CleanupEnds, Finalize,
     clusterVars, envVars
<1>2. CASE FinishNodes
  BY <1>1, <1>2, FinishNodesFields
<1>3. CASE CleanupEnds
  <2>1. work \in Object /\ work' = [work EXCEPT !.fin = FALSE]
    BY <1>3 DEF TypeOK, WorkTypeOK, CleanupEnds, Finalize
  <2>2. /\ work'.rv = work.rv /\ work'.exists = work.exists
        /\ work'.del = work.del /\ work'.ns = work.ns /\ work'.uid = work.uid
    BY <2>1, FinalizerFields
  <2> QED
    BY <1>1, <2>2
<1>4. CASE ReleaseNode \/ ListJobs \/ CleanupJob
  BY <1>1, <1>4 DEF ReleaseNode, ListJobs, CleanupJob
<1> QED
  BY <1>2, <1>3, <1>4 DEF InBetween

LEMMA WorkVersionKept ==
  ASSUME TypeOK, CacheVersions, WorkVersion, [Next]_vars
  PROVE  WorkVersion'
<1>1. ASSUME NEW p \in PPIs
      PROVE  store[p].rv \in Nat /\ cache[p].rv \in Nat
  BY ObjectFields DEF TypeOK, ClusterTypeOK, ManagerTypeOK
<1>2. work.rv \in Nat /\ (pc # "idle" => cur \in PPIs)
  BY ObjectFields DEF TypeOK, WorkTypeOK
<1>3. CASE Aside
  BY <1>1, <1>2, <1>3, VersionsMove DEF Aside, workVars, WorkVersion
<1>4. CASE Ended
  BY <1>4 DEF Ended, WorkVersion
<1>5. ASSUME NEW p \in PPIs, Started(p)
      PROVE  WorkVersion'
  BY <1>1, <1>5, StartedFrom DEF CacheVersions, WorkVersion
<1>6. CASE NodeAction
  <2>1. PICK status, retry, counter, again : NextNode(status, retry, counter, again)
    BY <1>6, NodeMoves
  <2>2. pc = "nodes" /\ idx <= Len(work.ns) /\ UNCHANGED <<cur, store>>
    BY <1>6, NodeMoves
  <2>3. work'.rv = work.rv
    BY <2>1, <2>2, EntryRewritten
  <2> QED
    BY <2>2, <2>3 DEF WorkVersion
<1>7. CASE InBetween
  BY <1>7, InBetweenKeeps DEF WorkVersion
<1> QED
  BY <1>3, <1>4, <1>5, <1>6, <1>7, WorkCases

(* A reconcile that is not stale after a step which leaves it alone was not
   stale before, and its object has not changed. *)
LEMMA StillCurrent ==
  ASSUME TypeOK, WorkVersion, [Next]_vars, pc # "idle", Aside, ~Stale'
  PROVE  ~Stale /\ store'[cur] = store[cur] /\ cur' = cur /\ work' = work
<1>1. cur \in PPIs /\ work.rv \in Nat /\ store[cur].rv \in Nat
  BY ObjectFields DEF TypeOK, WorkTypeOK, ClusterTypeOK
<1>2. cur' = cur /\ work' = work /\ pc' = pc
  BY DEF Aside, workVars
<1>3. store'[cur].rv = work.rv
  BY <1>2 DEF Stale
<1>4. store'[cur] = store[cur]
  BY <1>1, <1>3, VersionsMove DEF WorkVersion
<1> QED
  BY <1>2, <1>3, <1>4 DEF Stale

LEMMA WorkShapeKept ==
  ASSUME TypeOK, WorkShape, [Next]_vars
  PROVE  WorkShape'
<1>1. CASE Aside
  BY <1>1 DEF Aside, workVars, WorkShape
<1>2. CASE Ended
  BY <1>2 DEF Ended, WorkShape
<1>3. ASSUME NEW p \in PPIs, Started(p)
      PROVE  WorkShape'
  <2>1. cache[p] \in Object
    BY DEF TypeOK, ManagerTypeOK
  <2>2. /\ pc' # "idle" /\ work'.exists /\ ~touched'
        /\ work'.del = cache[p].del
    BY <1>3, StartedFrom DEF WorkShape
  <2>3. CASE pc' = "update"
    <3>1. ~work'.del
      BY <1>3, <2>2, <2>3, StartedFrom DEF Live
    <3>2. work'.fin
      <4>1. CASE work' = [cache[p] EXCEPT !.fin = TRUE]
        BY <2>1, <4>1, FinalizerFields
      <4>2. CASE cache[p].fin /\ \E targets \in Seq(Nodes) : work' = Initialized(cache[p], targets)
        BY <2>1, <4>2, InitializedKeeps
      <4> QED
        BY <1>3, <2>3, <4>1, <4>2, StartedFrom
    <3> QED
      BY <2>2, <2>3, <3>1, <3>2 DEF WorkShape
  <2>4. CASE pc' # "update"
    <3>1. \/ pc' \in {"nodes", "ttlDelete"} /\ work'.fin /\ ~work'.del
          \/ pc' = "release" /\ work'.del
      BY <1>3, <2>4, StartedFrom DEF Live
    <3> QED
      BY <2>2, <3>1 DEF WorkShape
  <2> QED
    BY <2>3, <2>4
<1>4. CASE NodeAction
  <2>1. PICK status, retry, counter, again : NextNode(status, retry, counter, again)
    BY <1>4, NodeMoves
  <2>2. pc = "nodes" /\ idx <= Len(work.ns) /\ pc' = pc
    BY <1>4, NodeMoves
  <2>3. work'.exists = work.exists /\ work'.fin = work.fin /\ work'.del = work.del
    BY <2>1, <2>2, EntryRewritten
  <2> QED
    BY <2>2, <2>3 DEF WorkShape
<1>5. CASE FinishNodes
  <2>1. work'.exists = work.exists /\ work'.fin = work.fin /\ work'.del = work.del
    BY <1>5, FinishNodesFields
  <2> QED
    BY <1>5, <2>1 DEF FinishNodes, WorkShape
<1>6. CASE ReleaseNode \/ ListJobs \/ CleanupJob
  BY <1>6 DEF ReleaseNode, ListJobs, CleanupJob, WorkShape
<1>7. CASE CleanupEnds
  <2>1. work \in Object /\ work' = [work EXCEPT !.fin = FALSE] /\ pc' = "update" /\ idx' = idx
    BY <1>7 DEF TypeOK, WorkTypeOK, CleanupEnds, Finalize
  <2>2. /\ work'.exists = work.exists /\ work'.fin = FALSE
        /\ work'.del = work.del /\ work'.ns = work.ns
    BY <2>1, FinalizerFields
  <2>3. work.exists /\ work.del /\ idx > Len(work.ns)
    BY <1>7 DEF CleanupEnds, WorkShape
  <2> QED
    BY <2>1, <2>2, <2>3 DEF WorkShape
<1> QED
  BY <1>1, <1>2, <1>3, <1>4, <1>5, <1>6, <1>7, WorkCases DEF InBetween

-----------------------------------------------------------------------------
(* The counters of handleInProgress. *)

LEMMA MetFinite ==
  ASSUME TypeOK, NEW status
  PROVE  IsFiniteSet(Met(status)) /\ Cardinality(Met(status)) \in Nat
<1>1. IsFiniteSet(Having(work.ns, status))
  BY HavingFinite, ObjectFields DEF TypeOK, WorkTypeOK
<1>2. Met(status) \subseteq Having(work.ns, status)
  BY DEF Met
<1> QED
  BY <1>1, <1>2, FS_Subset, FS_CardinalityType

LEMMA MetGrows ==
  ASSUME TypeOK, pc # "idle", idx <= Len(work.ns), idx' = idx + 1,
         NEW status, NEW retry, NEW counter, NEW again,
         NextNode(status, retry, counter, again)
  PROVE  /\ Met(status)' = Met(status) \cup {idx} /\ idx \notin Met(status)
         /\ \A other : other # status => Met(other)' = Met(other)
<1>1. /\ idx \in DOMAIN work.ns /\ idx \in Nat
      /\ DOMAIN work'.ns = DOMAIN work.ns
      /\ \A k \in DOMAIN work.ns \ {idx} : work'.ns[k] = work.ns[k]
      /\ work'.ns[idx].status = status
  <2>1. /\ idx \in DOMAIN work.ns /\ DOMAIN work'.ns = DOMAIN work.ns
        /\ \A k \in DOMAIN work.ns \ {idx} : work'.ns[k] = work.ns[k]
        /\ work'.ns[idx] = [node |-> entry.node, status |-> status, retry |-> retry]
    BY EntryRewritten, Zenon
  <2>2. idx \in Nat
    BY DEF TypeOK, WorkTypeOK
  <2> QED
    BY <2>1, <2>2
<1>2. \A k \in DOMAIN work.ns : k \in Nat
  BY ObjectFields DEF TypeOK, WorkTypeOK
<1>3. \A k \in DOMAIN work.ns : k < idx + 1 <=> (k < idx \/ k = idx)
  BY <1>1, <1>2
<1>4. \A other : Met(other)' = {k \in DOMAIN work'.ns : work'.ns[k].status = other /\ k < idx + 1}
  BY DEF Met, Having
<1>5. \A other : Met(other) = {k \in DOMAIN work.ns : work.ns[k].status = other /\ k < idx}
  BY DEF Met, Having
<1>6. idx \notin Met(status)
  BY <1>1, <1>5
<1>7. ASSUME NEW other
      PROVE  Met(other)' = Met(other) \cup {k \in {idx} : status = other}
  BY <1>1, <1>3, <1>4, <1>5
<1> QED
  BY <1>6, <1>7

LEMMA TallyCountsKept ==
  ASSUME TypeOK, TallyCounts, [Next]_vars
  PROVE  TallyCounts'
<1>1. CASE Aside
  BY <1>1 DEF Aside, workVars, TallyCounts, Met, Having
<1>2. CASE Ended
  BY <1>2 DEF Ended, TallyCounts
<1>3. ASSUME NEW p \in PPIs, Started(p)
      PROVE  TallyCounts'
  <2>1. pc' # "idle" /\ idx' = 1 /\ tally' = NoCounts
    BY <1>3, StartedFrom DEF TallyCounts
  <2>2. work' \in Object
    BY NextType DEF TypeOK, WorkTypeOK
  <2>3. \A k \in DOMAIN work'.ns : k \in Nat /\ ~(k < 1)
    BY <2>2, ObjectFields
  <2>4. \A status : Met(status)' = {}
    BY <2>1, <2>3 DEF Met, Having
  <2> QED
    BY <2>1, <2>4, FS_EmptySet DEF TallyCounts, NoCounts
<1>4. CASE NodeAction
  <2>1. PICK status, retry, counter, again :
          /\ NextNode(status, retry, counter, again)
          /\ CountedAs(status, counter)
    BY <1>4, NodeMoves
  <2>2. pc = "nodes" /\ idx <= Len(work.ns) /\ pc' = pc /\ idx' = idx + 1
    BY <1>4, NodeMoves
  <2>3. /\ Met(status)' = Met(status) \cup {idx} /\ idx \notin Met(status)
        /\ \A other : other # status => Met(other)' = Met(other)
    BY <2>1, <2>2, MetGrows
  <2>4. IsFiniteSet(Met(status)) /\ Cardinality(Met(status)) \in Nat
    BY MetFinite
  <2>5. Cardinality(Met(status)') = Cardinality(Met(status)) + 1
    BY <2>3, <2>4, FS_AddElement
  <2>6. \A other : other # status => Cardinality(Met(other)') = Cardinality(Met(other))
    BY <2>3
  <2>7. tally' = [tally EXCEPT ![counter] = @ + 1] /\ tally \in PullSummary
    BY <2>1 DEF NextNode, TypeOK, WorkTypeOK
  <2>8. CASE counter = "pending" /\ status = "Pending"
    BY <2>2, <2>5, <2>6, <2>7, <2>8 DEF TallyCounts, PullSummary
  <2>9. CASE counter = "pulling" /\ status = "Pulling"
    BY <2>2, <2>5, <2>6, <2>7, <2>9 DEF TallyCounts, PullSummary
  <2>10. CASE counter = "completed" /\ status = "Completed"
    BY <2>2, <2>5, <2>6, <2>7, <2>10 DEF TallyCounts, PullSummary
  <2>11. CASE counter = "failed" /\ status = "Failed"
    BY <2>2, <2>5, <2>6, <2>7, <2>11 DEF TallyCounts, PullSummary
  <2> QED
    BY <2>1, <2>8, <2>9, <2>10, <2>11 DEF CountedAs
<1>5. CASE InBetween
  <2>1. pc' # "idle" /\ pc' # "nodes"
    BY <1>5 DEF InBetween, FinishNodes, ReleaseNode, ListJobs, CleanupJob, CleanupEnds, Finalize
  <2> QED
    BY <2>1 DEF TallyCounts
<1> QED
  BY <1>1, <1>2, <1>3, <1>4, <1>5, WorkCases

(* After the last node the counters count all of them. *)
LEMMA LoopCounted ==
  ASSUME TypeOK, TallyCounts, FinishNodes
  PROVE  /\ Counted(work'.ns, work'.summary)
         /\ PhaseAfter(tally) = Lifecycle!Outcome(work.ns)
<1>1. pc = "nodes" /\ idx > Len(work.ns) /\ idx \in Nat /\ work.ns \in Seq(NodeStatus)
  BY ObjectFields DEF FinishNodes, TypeOK, WorkTypeOK
<1>2. \A k \in DOMAIN work.ns : k < idx
  BY <1>1
<1>3. \A status : Met(status) = Having(work.ns, status)
  BY <1>2 DEF Met, Having
<1>4. /\ tally.pending = Cardinality(Having(work.ns, "Pending"))
      /\ tally.pulling = Cardinality(Having(work.ns, "Pulling"))
      /\ tally.completed = Cardinality(Having(work.ns, "Completed"))
      /\ tally.failed = Cardinality(Having(work.ns, "Failed"))
  BY <1>1, <1>3 DEF TallyCounts
<1>5. tally \in PullSummary
  BY DEF TypeOK, WorkTypeOK
<1>6. Counted(work'.ns, work'.summary)
  BY <1>4, <1>5, FinishNodesFields DEF Counted, PullSummary
<1>7. \A status : IsFiniteSet(Having(work.ns, status))
                  /\ Cardinality(Having(work.ns, status)) \in Nat
  BY <1>1, HavingFinite
<1>8. \A status : Cardinality(Having(work.ns, status)) > 0
                  <=> \E k \in DOMAIN work.ns : work.ns[k].status = status
  <2>1. \A status : Cardinality(Having(work.ns, status)) = 0 <=> Having(work.ns, status) = {}
    BY <1>7, FS_EmptySet
  <2>2. \A status : Having(work.ns, status) # {}
                    <=> \E k \in DOMAIN work.ns : work.ns[k].status = status
    BY DEF Having
  <2> QED
    BY <1>7, <2>1, <2>2
<1>9. PhaseAfter(tally) = Lifecycle!Outcome(work.ns)
  BY <1>4, <1>8 DEF PhaseAfter, Lifecycle!Outcome
<1> QED
  BY <1>6, <1>9

-----------------------------------------------------------------------------
(* What a reconcile that is not stale works out may be written. *)

LEMMA InitializedCounted ==
  ASSUME NEW targets \in Seq(Nodes)
  PROVE  Counted(Entries0(targets), Summary0(targets))
<1> DEFINE ns == Entries0(targets)
<1> USE DEF Entries0
<1>1. DOMAIN targets = 1..Len(targets) /\ Len(targets) \in Nat
  OBVIOUS
<1>2. DOMAIN ns = 1..Len(targets) /\ Len(ns) = Len(targets)
  <2>1. ns \in Seq([node : Nodes, status : {"Pending"}, retry : {0}])
    BY <1>1
  <2>2. DOMAIN ns = 1..Len(targets)
    BY <1>1
  <2> QED
    BY <1>1, <2>1, <2>2
<1>3. Having(ns, "Pending") = 1..Len(targets)
  BY <1>1, <1>2 DEF Having
<1>4. ASSUME NEW status, status # "Pending"
      PROVE  Having(ns, status) = {}
  BY <1>1, <1>2, <1>4 DEF Having
<1>5. /\ Having(ns, "Pulling") = {} /\ Having(ns, "Completed") = {}
      /\ Having(ns, "Failed") = {}
  BY <1>4
<1>6. Cardinality(Having(ns, "Pending")) = Len(targets)
  <2>1. ASSUME NEW n \in Nat
        PROVE  Cardinality(1..n) = n
    BY FS_Interval
  <2> QED
    BY <1>1, <1>3, <2>1
<1>7. ASSUME NEW len, NEW sum, sum = [NoCounts EXCEPT !.total = len, !.pending = len]
      PROVE  /\ sum.total = len /\ sum.pending = len /\ sum.pulling = 0
             /\ sum.completed = 0 /\ sum.failed = 0
  BY <1>7 DEF NoCounts
<1>8. LET sum == Summary0(targets) IN
      /\ sum.total = Len(targets) /\ sum.pending = Len(targets) /\ sum.pulling = 0
      /\ sum.completed = 0 /\ sum.failed = 0
  BY <1>7 DEF Summary0
<1> HIDE DEF Entries0
<1> QED
  BY <1>2, <1>5, <1>6, <1>8, FS_EmptySet DEF Counted

LEMMA InitializedSound ==
  ASSUME NEW p \in PPIs, NEW obj \in Object, NEW targets \in Seq(Nodes),
         Sound(p, obj), obj.exists, obj.fin, obj.phase = "Pending",
         NEW new, new = Initialized(obj, targets)
  PROVE  Sound(p, new) /\ Began(obj, new)
<1>1. obj.ns = <<>> /\ Counted(obj.ns, obj.summary)
  BY DEF Sound
<1>2. new.exists /\ new.fin
  BY InitializedKeeps
<1>3. CASE targets = <<>>
  <2>1. new.phase = "Completed" /\ new.ns = <<>> /\ new.summary = obj.summary
    BY <1>1, <1>3, NothingToDoFields
  <2>2. DOMAIN <<>> = {}
    OBVIOUS
  <2> QED
    BY <1>1, <1>2, <2>1, <2>2 DEF Sound, Began
<1>4. CASE targets # <<>>
  <2> DEFINE ns == Entries0(targets)
             sum == Summary0(targets)
  <2>1. new.phase = "InProgress" /\ new.ns = ns /\ new.summary = sum
    BY <1>4, InitializedFields
  <2>2. Counted(ns, sum)
    BY InitializedCounted
  <2>3. DOMAIN ns = DOMAIN targets /\ DOMAIN targets # {}
    <3>1. Len(targets) # 0 /\ Len(targets) \in Nat
      BY <1>4
    <3>2. 1 \in DOMAIN targets
      BY <3>1
    <3> QED
      BY <3>2 DEF Entries0
  <2>4. \A i \in DOMAIN ns : /\ ns[i] \in Lifecycle!Waiting /\ ns[i].retry = 0
    BY DEF Lifecycle!Waiting, Entries0
  <2>5. MaxAttempts[p] \in Nat
    BY ConstantsOK
  <2>6. ns # <<>>
    BY <2>3
  <2>7. Sound(p, new)
    BY <1>2, <2>1, <2>2, <2>4, <2>5 DEF Sound
  <2>8. Began(obj, new)
    BY <2>1, <2>4, <2>6 DEF Began
  <2> QED
    BY <2>7, <2>8
<1> QED
  BY <1>3, <1>4

(* A visit of a node is a step of the life cycle, and keeps retries bounded. *)
LEMMA VisitIsNodeStep ==
  ASSUME entry \in NodeStatus, cur \in PPIs, entry.retry <= MaxAttempts[cur],
         NEW status, NEW retry, EntryMove(status, retry)
  PROVE  Lifecycle!NodeStep(cur, entry, [node |-> entry.node, status |-> status, retry |-> retry])
<1> DEFINE new == [node |-> entry.node, status |-> status, retry |-> retry]
<1>1. entry = [node |-> entry.node, status |-> entry.status, retry |-> entry.retry]
  BY DEF NodeStatus
<1>2. entry.retry \in Nat /\ MaxAttempts[cur] \in Nat
  BY ConstantsOK DEF NodeStatus
<1>3. CASE EntryKept(status, retry)
  BY <1>1, <1>3 DEF EntryKept, Lifecycle!NodeStep
<1>4. CASE EntryStarted(status, retry)
  <2>1. new = [entry EXCEPT !.status = "Pulling"]
    BY <1>1, <1>4 DEF EntryStarted
  <2> QED
    BY <1>4, <2>1 DEF EntryStarted, Lifecycle!NodeStep
<1>5. CASE EntryEnded(status, retry)
  <2>1. CASE status = "Completed" /\ retry = entry.retry
    <3>1. new = [entry EXCEPT !.status = "Completed"]
      BY <1>1, <2>1
    <3> QED
      BY <1>5, <3>1 DEF EntryEnded, Lifecycle!NodeStep
  <2>2. CASE status = "Pending" /\ entry.retry < MaxAttempts[cur] /\ retry = entry.retry + 1
    <3>1. new = [entry EXCEPT !.status = "Pending", !.retry = @ + 1]
      <4>1. [entry EXCEPT !.status = "Pending"] =
            [node |-> entry.node, status |-> "Pending", retry |-> entry.retry]
        BY <1>1
      <4>2. [entry EXCEPT !.status = "Pending", !.retry = @ + 1] =
            [[entry EXCEPT !.status = "Pending"] EXCEPT !.retry = entry.retry + 1]
        BY DEF NodeStatus
      <4>3. [[entry EXCEPT !.status = "Pending"] EXCEPT !.retry = entry.retry + 1] =
            [node |-> entry.node, status |-> "Pending", retry |-> entry.retry + 1]
        <5>1. \A n, q : [[node |-> n, status |-> "Pending", retry |-> entry.retry] EXCEPT !.retry = q]
                         = [node |-> n, status |-> "Pending", retry |-> q]
          OBVIOUS
        <5> QED
          BY <4>1, <5>1
      <4> QED
        BY <2>2, <4>2, <4>3
    <3> QED
      BY <1>5, <2>2, <3>1 DEF EntryEnded, Lifecycle!NodeStep
  <2>3. CASE status = "Failed" /\ entry.retry >= MaxAttempts[cur] /\ retry = entry.retry
    <3>1. new = [entry EXCEPT !.status = "Failed"]
      BY <1>1, <2>3
    <3>2. entry.retry = MaxAttempts[cur]
      BY <1>2, <2>3
    <3> QED
      BY <1>5, <3>1, <3>2 DEF EntryEnded, Lifecycle!NodeStep
  <2> QED
    BY <1>5, <2>1, <2>2, <2>3 DEF EntryEnded
<1> QED
  BY <1>3, <1>4, <1>5 DEF EntryMove

LEMMA NodeStepBound ==
  ASSUME NEW p \in PPIs, NEW old \in NodeStatus, NEW new \in NodeStatus,
         Lifecycle!NodeStep(p, old, new), old.retry <= MaxAttempts[p]
  PROVE  new.retry <= MaxAttempts[p]
<1>1. old.retry \in Nat /\ MaxAttempts[p] \in Nat
  BY ConstantsOK DEF NodeStatus
<1>2. CASE old.retry < MaxAttempts[p] /\ new = [old EXCEPT !.status = "Pending", !.retry = @ + 1]
  <2>1. new.retry = old.retry + 1
    BY <1>2 DEF NodeStatus
  <2> QED
    BY <1>1, <1>2, <2>1
<1>3. CASE \/ new = old
           \/ new = [old EXCEPT !.status = "Pulling"]
           \/ new = [old EXCEPT !.status = "Completed"]
           \/ new = [old EXCEPT !.status = "Failed"]
  <2>1. new.retry = old.retry
    BY <1>3 DEF NodeStatus
  <2> QED
    BY <2>1
<1> QED
  BY <1>2, <1>3 DEF Lifecycle!NodeStep

LEMMA FinishedWritable ==
  ASSUME TypeOK, StoreSound, WorkShape, TallyCounts, FinishNodes, Halfway
  PROVE  Writable(cur, store[cur], work')
<1>1. pc = "nodes" /\ idx > Len(work.ns)
  BY DEF FinishNodes
<1>2. /\ cur \in PPIs /\ work \in Object /\ store[cur] \in Object /\ idx \in Nat
  BY <1>1 DEF TypeOK, WorkTypeOK, ClusterTypeOK
<1>3. work.ns \in Seq(NodeStatus) /\ store[cur].ns \in Seq(NodeStatus)
  BY <1>2, ObjectFields
<1>4. \A k \in DOMAIN work.ns : k < idx
  BY <1>1, <1>2, <1>3
<1>5. \A k \in DOMAIN work.ns : Lifecycle!NodeStep(cur, store[cur].ns[k], work.ns[k])
  BY <1>4 DEF Halfway
<1>6. DOMAIN work.ns = DOMAIN store[cur].ns /\ store[cur].phase = "InProgress"
  BY DEF Halfway
<1>7. \A k \in DOMAIN work.ns : work.ns[k] \in NodeStatus /\ store[cur].ns[k] \in NodeStatus
  BY <1>3, <1>6
<1>8. \A k \in DOMAIN work.ns : work.ns[k].retry <= MaxAttempts[cur]
  BY <1>2, <1>5, <1>6, <1>7, NodeStepBound DEF StoreSound, Sound
<1>9. /\ work'.exists /\ work'.fin /\ work'.ns = work.ns
      /\ work'.phase = Lifecycle!Outcome(work.ns)
      /\ Counted(work'.ns, work'.summary)
  BY <1>1, FinishNodesFields, LoopCounted DEF WorkShape
<1>10. Lifecycle!Outcome(work.ns) # "Pending"
  BY DEF Lifecycle!Outcome
<1>11. Sound(cur, work')
  BY <1>8, <1>9, <1>10 DEF Sound
<1>12. Advanced(cur, store[cur], work')
  BY <1>5, <1>6, <1>9 DEF Advanced
<1> QED
  BY <1>11, <1>12 DEF Writable

LEMMA WorkSoundKept ==
  ASSUME TypeOK, SoundInv, [Next]_vars
  PROVE  WorkSound'
<1> USE DEF SoundInv
<1>1. CASE Aside
  <2> SUFFICES ASSUME pc' # "idle", ~Stale'
               PROVE  WorkSound'
    BY DEF WorkSound
  <2>1. pc # "idle" /\ pc' = pc /\ idx' = idx
    BY <1>1 DEF Aside, workVars
  <2>2. ~Stale /\ store'[cur] = store[cur] /\ cur' = cur /\ work' = work
    BY <1>1, <2>1, StillCurrent
  <2> QED
    BY <2>1, <2>2 DEF WorkSound, Halfway
<1>2. CASE Ended
  BY <1>2 DEF Ended, WorkSound
<1>3. ASSUME NEW p \in PPIs, Started(p)
      PROVE  WorkSound'
  <2>1. /\ pc' # "idle" /\ cur' = p /\ idx' = 1 /\ store' = store
        /\ work'.rv = cache[p].rv /\ cache[p].exists
    BY <1>3, StartedFrom
  <2> SUFFICES ASSUME ~Stale'
               PROVE  WorkSound'
    BY DEF WorkSound
  <2>2. cache[p] = store[p] /\ Sound(p, store[p]) /\ store[p] \in Object
    BY <2>1 DEF Stale, CacheVersions, StoreSound, TypeOK, ClusterTypeOK
  <2>3. pc' = "nodes" => Halfway'
    <3> SUFFICES ASSUME pc' = "nodes"
                 PROVE  Halfway'
      OBVIOUS
    <3>1. work' = store[p] /\ store[p].phase = "InProgress"
      BY <1>3, <2>2, StartedFrom
    <3>2. \A k \in DOMAIN store[p].ns : k \in Nat /\ ~(k < 1)
      BY <2>2, ObjectFields
    <3> QED
      BY <2>1, <3>1, <3>2 DEF Halfway
  <2>4. pc' = "update" => Writable(p, store[p], work')
    <3> SUFFICES ASSUME pc' = "update"
                 PROVE  Writable(p, store[p], work')
      OBVIOUS
    <3>1. CASE work' = [store[p] EXCEPT !.fin = TRUE]
      <4>1. /\ work'.exists = store[p].exists /\ work'.phase = store[p].phase /\ work'.fin
            /\ work'.ns = store[p].ns /\ work'.summary = store[p].summary
        BY <2>2, <3>1, FinalizerFields
      <4>2. Sound(p, work')
        BY <2>1, <2>2, <4>1 DEF Sound
      <4> QED
        BY <4>1, <4>2 DEF Writable, Same
    <3>2. CASE /\ store[p].fin /\ store[p].phase = "Pending"
               /\ \E targets \in Seq(Nodes) : work' = Initialized(store[p], targets)
      <4>1. PICK targets \in Seq(Nodes) : work' = Initialized(store[p], targets)
        BY <3>2
      <4>2. Sound(p, work') /\ Began(store[p], work')
        BY <2>1, <2>2, <3>2, <4>1, InitializedSound
      <4> QED
        BY <4>2 DEF Writable
    <3> QED
      BY <1>3, <2>2, <3>1, <3>2, StartedFrom
  <2> QED
    BY <2>1, <2>2, <2>3, <2>4 DEF WorkSound
<1>4. CASE NodeAction
  <2>1. PICK status, retry, counter, again :
          NextNode(status, retry, counter, again) /\ EntryMove(status, retry)
    BY <1>4, NodeMoves
  <2>2. /\ pc = "nodes" /\ idx <= Len(work.ns) /\ idx' = idx + 1
        /\ UNCHANGED <<pc, cur, store>>
    BY <1>4, NodeMoves
  <2>3. /\ idx \in DOMAIN work.ns /\ DOMAIN work'.ns = DOMAIN work.ns
        /\ \A k \in DOMAIN work.ns \ {idx} : work'.ns[k] = work.ns[k]
        /\ work'.ns[idx] = [node |-> entry.node, status |-> status, retry |-> retry]
        /\ work'.rv = work.rv
    BY <2>1, <2>2, EntryRewritten, Zenon
  <2> SUFFICES ASSUME ~Stale'
               PROVE  Halfway' /\ store'[cur'].exists
    BY <2>2 DEF WorkSound
  <2>4. store[cur].exists /\ Halfway
    BY <2>2, <2>3 DEF Stale, WorkSound
  <2>5. entry \in NodeStatus /\ cur \in PPIs /\ entry = work.ns[idx] /\ idx \in Nat
    BY <2>2, EntryType DEF entry, TypeOK, WorkTypeOK
  <2>6. entry = store[cur].ns[idx] /\ DOMAIN work.ns = DOMAIN store[cur].ns
    BY <2>3, <2>4, <2>5 DEF Halfway
  <2>7. entry.retry <= MaxAttempts[cur]
    BY <2>3, <2>5, <2>6 DEF StoreSound, Sound
  <2>8. Lifecycle!NodeStep(cur, store[cur].ns[idx], work'.ns[idx])
    BY <2>1, <2>3, <2>5, <2>6, <2>7, VisitIsNodeStep
  <2>9. \A k \in DOMAIN work.ns : k \in Nat
    BY ObjectFields DEF TypeOK, WorkTypeOK
  <2>10. ASSUME NEW k \in DOMAIN work.ns
         PROVE  IF k < idx + 1 THEN Lifecycle!NodeStep(cur, store[cur].ns[k], work'.ns[k])
                               ELSE work'.ns[k] = store[cur].ns[k]
    <3>1. CASE k = idx
      BY <2>5, <2>8, <3>1
    <3>2. CASE k # idx
      BY <2>3, <2>4, <2>5, <2>9, <3>2 DEF Halfway
    <3> QED
      BY <3>1, <3>2
  <2> QED
    BY <2>2, <2>3, <2>4, <2>10 DEF Halfway
<1>5. CASE InBetween
  <2>1. /\ pc # "idle" /\ pc' # "idle" /\ cur' = cur /\ store' = store
        /\ work'.rv = work.rv /\ work'.del = work.del
    BY <1>5, InBetweenKeeps
  <2> SUFFICES ASSUME ~Stale'
               PROVE  /\ store[cur].exists
                      /\ pc' # "nodes"
                      /\ pc' = "update" => Writable(cur, store[cur], work')
    BY <2>1 DEF WorkSound
  <2>2. ~Stale /\ store[cur].exists
    BY <2>1 DEF Stale, WorkSound
  <2>3. CASE FinishNodes
    <3>1. Halfway
      BY <2>1, <2>2, <2>3 DEF WorkSound, FinishNodes
    <3> QED
      BY <2>2, <2>3, <3>1, FinishedWritable DEF FinishNodes
  <2>4. CASE CleanupEnds
    <3>1. work'.del
      BY <2>1, <2>4 DEF WorkShape, CleanupEnds
    <3> QED
      BY <2>2, <2>4, <3>1 DEF Writable, CleanupEnds, Finalize
  <2>5. CASE ReleaseNode \/ ListJobs \/ CleanupJob
    BY <2>2, <2>5 DEF ReleaseNode, ListJobs, CleanupJob
  <2> QED
    BY <1>5, <2>3, <2>4, <2>5 DEF InBetween
<1> QED
  BY <1>1, <1>2, <1>3, <1>4, <1>5, WorkCases

LEMMA StoreSoundKept ==
  ASSUME TypeOK, SoundInv, [Next]_vars
  PROVE  StoreSound'
<1> SUFFICES ASSUME NEW p \in PPIs
             PROVE  Sound(p, store'[p])
  BY DEF StoreSound
<1>1. Sound(p, store[p]) /\ store[p] \in Object /\ work \in Object
  BY DEF SoundInv, StoreSound, TypeOK, ClusterTypeOK, WorkTypeOK
<1>2. CASE Wrote(p)
  <2>1. CASE work.del /\ ~work.fin
    BY <1>2, <2>1, NewSound DEF Wrote
  <2>2. CASE ~(work.del /\ ~work.fin)
    <3>1. store'[p] = Bumped(work) /\ ~work.del /\ pc = "update" /\ cur = p
      BY <1>2, <2>2 DEF Wrote, SoundInv, WorkShape
    <3>2. Writable(p, store[p], work)
      BY <1>2, <3>1 DEF Wrote, CanWrite, Stale, SoundInv, WorkSound
    <3>3. Sound(p, work)
      BY <3>1, <3>2 DEF Writable
    <3> QED
      BY <1>1, <3>1, <3>3, BumpedFields, SoundKept
  <2> QED
    BY <2>1, <2>2
<1>3. CASE Changed(p)
  <2>1. Sound(p, Bumped(store[p]))
    BY <1>1, BumpedFields, SoundKept
  <2>2. Sound(p, Bumped([store[p] EXCEPT !.del = TRUE]))
    BY <1>1, MarkedFields, SoundKept
  <2> QED
    BY <1>3, <2>1, <2>2, NewSound DEF Changed
<1> QED
  BY <1>1, <1>2, <1>3, StoreStep DEF OnlyAt

LEMMA SoundInit == Init => SoundInv
<1> SUFFICES ASSUME Init
             PROVE  SoundInv
  OBVIOUS
<1>1. StoreSound
  BY NewSound DEF Init, StoreSound
<1>2. CacheVersions
  BY NewFields DEF Init, CacheVersions
<1> QED
  BY <1>1, <1>2 DEF Init, SoundInv, WorkVersion, WorkShape, TallyCounts, WorkSound

LEMMA SoundNext ==
  ASSUME TypeOK, SoundInv, [Next]_vars
  PROVE  SoundInv'
BY StoreSoundKept, CacheVersionsKept, WorkVersionKept, WorkShapeKept, TallyCountsKept,
   WorkSoundKept DEF SoundInv

LEMMA SoundAlways == Spec => [](TypeOK /\ SoundInv)
<1>1. Init => TypeOK /\ SoundInv
  BY InitType, SoundInit
<1>2. (TypeOK /\ SoundInv) /\ [Next]_vars => (TypeOK /\ SoundInv)'
  BY NextType, SoundNext
<1> QED
  BY <1>1, <1>2, PTL DEF Spec

(* The summary handleInProgress stores always agrees with the statuses stored
   with it: the counters of the loop count each node once, under the status
   the visit leaves it with. *)
THEOREM SummaryIsRight == Spec => []SummaryMatchesNodes
<1>1. SoundInv => SummaryMatchesNodes
  BY DEF SoundInv, StoreSound, Sound, Counted, SummaryMatchesNodes
<1> QED
  BY <1>1, SoundAlways, PTL

-----------------------------------------------------------------------------
(* The refinement.  What a watcher sees changes with the writes to the API
   server only, and each of them is a step of the life cycle or shows nothing
   new. *)

Seen(obj) == IF obj.exists THEN [phase |-> obj.phase, ns |-> obj.ns] ELSE NoPPI

LEMMA ViewSeen ==
  /\ View = [p \in PPIs |-> Seen(store[p])]
  /\ View' = [p \in PPIs |-> Seen(store'[p])]
BY DEF View, Seen

LEMMA SeenExists ==
  ASSUME NEW obj \in Object, obj.exists
  PROVE  /\ Seen(obj) # NoPPI
         /\ Seen(obj) = [phase |-> obj.phase, ns |-> obj.ns]
         /\ Seen(obj).phase = obj.phase /\ Seen(obj).ns = obj.ns
<1>1. obj.phase \in Phases /\ obj.ns \in Seq(NodeStatus)
  BY ObjectFields
<1>2. [phase |-> obj.phase, ns |-> obj.ns] \in [phase : Phases, ns : Seq(NodeStatus)]
  BY <1>1
<1> QED
  BY <1>2, NoPPIIsNone DEF Seen

LEMMA LifecycleInit == Init => Lifecycle!Init
<1> SUFFICES ASSUME Init
             PROVE  View = [p \in PPIs |-> NoPPI]
  BY DEF Lifecycle!Init
<1> QED
  BY NewFields DEF Init, View

(* One object changes: what the watcher sees of the others stays. *)
LEMMA ViewStep ==
  ASSUME NEW p \in PPIs, OnlyAt(p)
  PROVE  /\ View' = [View EXCEPT ![p] = Seen(store'[p])]
         /\ View[p] = Seen(store[p]) /\ View'[p] = Seen(store'[p])
         /\ Seen(store'[p]) = Seen(store[p]) => View' = View
BY ViewSeen DEF OnlyAt

LEMMA RemoveStep ==
  ASSUME NEW p \in PPIs, OnlyAt(p), store[p] \in Object, ~store'[p].exists
  PROVE  View' = View \/ Lifecycle!Remove(p)
<1>1. Seen(store'[p]) = NoPPI
  BY DEF Seen
<1>2. CASE store[p].exists
  BY <1>1, <1>2, ViewStep, SeenExists DEF Lifecycle!Remove, Lifecycle!Become
<1>3. CASE ~store[p].exists
  BY <1>1, <1>3, ViewStep DEF Seen
<1> QED
  BY <1>2, <1>3

LEMMA WriteStep ==
  ASSUME NEW p \in PPIs, OnlyAt(p), store[p] \in Object, store'[p] \in Object,
         store[p].exists, store'[p].exists, NEW new,
         store'[p].phase = new.phase, store'[p].ns = new.ns,
         Same(store[p], new) \/ Began(store[p], new) \/ Advanced(p, store[p], new)
  PROVE  View' = View \/ Lifecycle!Skip(p) \/ Lifecycle!Start(p) \/ Lifecycle!Advance(p)
<1>1. /\ View[p] # NoPPI /\ View[p].phase = store[p].phase /\ View[p].ns = store[p].ns
      /\ View[p] = [phase |-> store[p].phase, ns |-> store[p].ns]
  BY ViewStep, SeenExists
<1>2. /\ View'[p] # NoPPI /\ View'[p].phase = new.phase /\ View'[p].ns = new.ns
      /\ View' = [View EXCEPT ![p] = [phase |-> new.phase, ns |-> new.ns]]
  BY ViewStep, SeenExists
<1>3. CASE Same(store[p], new)
  <2>1. Seen(store'[p]) = Seen(store[p])
    BY <1>3, SeenExists DEF Same
  <2> QED
    BY <2>1, ViewStep
<1>4. CASE Began(store[p], new)
  <2>1. CASE new.phase = "Completed" /\ new.ns = <<>>
    BY <1>1, <1>2, <1>4, <2>1 DEF Began, Lifecycle!Skip, Lifecycle!Become
  <2>2. CASE /\ new.phase = "InProgress" /\ new.ns # <<>>
             /\ \A i \in DOMAIN new.ns : new.ns[i] \in Lifecycle!Waiting
    BY <1>1, <1>2, <1>4, <2>2 DEF Began, Lifecycle!Start, Lifecycle!Become
  <2> QED
    BY <1>4, <2>1, <2>2 DEF Began
<1>5. CASE Advanced(p, store[p], new)
  BY <1>1, <1>2, <1>5 DEF Advanced, Lifecycle!Advance, Lifecycle!Become
<1> QED
  BY <1>3, <1>4, <1>5

LEMMA LifecycleStep ==
  ASSUME TypeOK, SoundInv, [Next]_vars
  PROVE  [Lifecycle!Next]_View
<1>1. CASE UNCHANGED store
  BY <1>1 DEF View
<1>2. ASSUME NEW p \in PPIs, OnlyAt(p), Wrote(p) \/ Changed(p)
      PROVE  [Lifecycle!Next]_View
  <2>1. store[p] \in Object /\ work \in Object /\ store'[p] \in Object
    BY NextType DEF TypeOK, ClusterTypeOK, WorkTypeOK
  <2>2. ASSUME ~store'[p].exists
        PROVE  [Lifecycle!Next]_View
    BY <1>2, <2>1, <2>2, RemoveStep DEF Lifecycle!Next
  <2>3. ASSUME Seen(store'[p]) = Seen(store[p])
        PROVE  [Lifecycle!Next]_View
    BY <1>2, <2>3, ViewStep
  <2>4. CASE Wrote(p)
    <3>1. CASE work.del /\ ~work.fin
      BY <2>2, <2>4, <3>1, NewFields DEF Wrote
    <3>2. CASE ~(work.del /\ ~work.fin)
      <4>1. /\ store'[p] = Bumped(work) /\ ~work.del /\ work.exists
            /\ pc = "update" /\ cur = p
        BY <2>4, <3>2 DEF Wrote, SoundInv, WorkShape
      <4>2. Writable(p, store[p], work) /\ store[p].exists
        BY <2>4, <4>1 DEF Wrote, CanWrite, Stale, SoundInv, WorkSound
      <4>3. /\ store'[p].phase = work.phase /\ store'[p].ns = work.ns
            /\ store'[p].exists
        BY <2>1, <4>1, BumpedFields
      <4>4. \/ Same(store[p], work) \/ Began(store[p], work)
            \/ Advanced(p, store[p], work)
        BY <4>1, <4>2 DEF Writable
      <4> QED
        BY <1>2, <2>1, <4>2, <4>3, <4>4, WriteStep DEF Lifecycle!Next
    <3> QED
      BY <3>1, <3>2
  <2>5. CASE Changed(p)
    <3>1. CASE ~store[p].fin /\ store'[p] = Absent(store[p].uid, store[p].rv + 1)
      BY <2>2, <3>1, NewFields
    <3>2. CASE store'[p] = Bumped([store[p] EXCEPT !.del = TRUE])
      BY <2>1, <2>3, <3>2, MarkedFields DEF Seen
    <3>3. CASE store'[p] = Bumped(store[p])
      BY <2>1, <2>3, <3>3, BumpedFields DEF Seen
    <3>4. CASE ~store[p].exists /\ store'[p] = Fresh(store[p].uid + 1, store[p].rv + 1)
      <4>1. View[p] = NoPPI
        BY <1>2, <3>4, ViewStep DEF Seen
      <4>2. Seen(store'[p]) = [phase |-> "Pending", ns |-> <<>>]
        BY <3>4, NewFields DEF Seen
      <4>3. Lifecycle!Create(p)
        BY <1>2, <4>1, <4>2, ViewStep DEF Lifecycle!Create, Lifecycle!Become
      <4> QED
        BY <4>3 DEF Lifecycle!Next
    <3> QED
      BY <2>5, <3>1, <3>2, <3>3, <3>4 DEF Changed
  <2> QED
    BY <1>2, <2>4, <2>5
<1> QED
  BY <1>1, <1>2, StoreStep

(* The controller implements the life cycle of module PullLifecycle: with late
   caches, conflicting writes, lost answers, crashes and re-creations, a watcher
   sees each object started once on nodes that then stay, every node move only
   forward but for MaxAttempts retries, and a terminal phase stay terminal
   (handleInProgress and the optimistic lock of Status().Update). *)
THEOREM ImplementsLifecycle == Spec => LifecycleSpec
<1>1. Init => Lifecycle!Init
  BY LifecycleInit
<1>2. (TypeOK /\ SoundInv) /\ [Next]_vars => [Lifecycle!Next]_View
  BY LifecycleStep
<1> QED
  BY <1>1, <1>2, SoundAlways, PTL DEF Spec, LifecycleSpec, Lifecycle!Spec

-----------------------------------------------------------------------------
(* What handleCompleted deletes.  Only the worker takes the finalizer off, and
   only when it has seen the object marked deleted: as long as its cache shows the
   object unmarked and with the finalizer, that very object is there, as done as
   the cache shows it. *)

FinalizerStays ==
  \A p \in PPIs :
    /\ store[p].fin => store[p].exists
    /\ cache[p].fin /\ ~cache[p].del =>
         /\ store[p].fin /\ store[p].uid = cache[p].uid
         /\ Terminal(cache[p]) => Terminal(store[p])

(* A reconcile is no younger than the cache. *)
WorkOlder == pc # "idle" => work.rv <= cache[cur].rv

(* What a reconcile whose write can succeed has found: the object it writes, with
   the finalizer on unless this write is the one that puts it there. *)
HoldsFinalizer ==
  pc # "idle" /\ ~Stale =>
    /\ work.uid = store[cur].uid /\ work.del = store[cur].del
    /\ IF pc = "update"
       THEN ~work.del /\ ~store[cur].fin => work.phase = store[cur].phase
       ELSE store[cur].fin

HoldInv == FinalizerStays /\ WorkOlder /\ HoldsFinalizer /\ DeletesOnlyDone

(* The cache takes over what is stored. *)
LEMMA CacheFrom ==
  ASSUME TypeOK, [Next]_vars, NEW p \in PPIs
  PROVE  cache'[p] = cache[p] \/ (cache'[p] = store[p] /\ UNCHANGED store)
<1>1. cache \in [PPIs -> Object]
  BY DEF TypeOK, ManagerTypeOK
<1>2. ASSUME NEW q \in PPIs, Reconcile(q)
      PROVE  UNCHANGED cache
  BY <1>2 DEF Reconcile, ReconcileGone, ReconcileReadFails, AddFinalizer, handlePending,
     handleInProgress, handleCompleted, handleDeletion, Begin
<1>3. CASE NodeAction
  BY <1>3 DEF NodeAction, startPullJob, startPullJobFails, RateLimited, PullSucceeded,
     PullRetried, PullExhausted, PullRunning, NodeDone, NextNode
<1>4. CASE EndAction
  BY <1>4 DEF EndAction, FinishNodes, UpdateWritten, UpdateRejected, UpdateFails, TTLDelete,
     ReleaseNode, ListJobs, CleanupJob, CleanupEnds
<1>5. ASSUME NEW q \in PPIs, SyncPPI(q)
      PROVE  cache'[p] = cache[p] \/ (cache'[p] = store[p] /\ UNCHANGED store)
  BY <1>1, <1>5 DEF SyncPPI, clusterVars
<1>6. CASE Environment
  BY <1>5, <1>6 DEF Environment, Create, Delete, Edit, TTLElapses, TimerFires, SyncJob,
     JobMoves, JobExpires, Restart, clusterVars
<1>7. CASE Quiet \/ UNCHANGED vars
  BY <1>7 DEF Quiet, vars
<1> QED
  BY <1>2, <1>3, <1>4, <1>6, <1>7 DEF Next, WorkStep, NodeAction, EndAction

LEMMA StartedHolds ==
  ASSUME TypeOK, NEW p \in PPIs, Started(p)
  PROVE  /\ cur' = p /\ store' = store /\ cache' = cache
         /\ work'.rv = cache[p].rv
         /\ work'.uid = cache[p].uid /\ work'.del = cache[p].del
         /\ \/ pc' = "update" /\ (cache[p].fin \/ work'.phase = cache[p].phase)
            \/ pc' # "update" /\ cache[p].fin
         /\ pc' = "ttlDelete" => ~cache[p].del /\ Terminal(cache[p])
<1>1. cache[p] \in Object
  BY DEF TypeOK, ManagerTypeOK
<1>2. /\ cur' = p /\ store' = store /\ cache' = cache /\ work'.rv = cache[p].rv
      /\ work'.uid = cache[p].uid /\ work'.del = cache[p].del
  BY StartedFrom
<1>3. CASE handleDeletion(p)
  BY <1>2, <1>3 DEF handleDeletion, Begin
<1>4. CASE handleInProgress(p)
  BY <1>2, <1>4 DEF handleInProgress, Begin
<1>5. CASE handleCompleted(p) /\ Expired(p)
  BY <1>2, <1>5 DEF handleCompleted, Begin, Live, Terminal
<1>6. CASE handlePending(p)
  BY <1>2, <1>6 DEF handlePending, Begin
<1>7. CASE AddFinalizer(p)
  <2>1. work' = [cache[p] EXCEPT !.fin = TRUE] /\ pc' = "update"
    BY <1>7 DEF AddFinalizer, Begin
  <2>2. work'.phase = cache[p].phase
    BY <1>1, <2>1, FinalizerFields
  <2> QED
    BY <1>2, <2>1, <2>2
<1> QED
  BY <1>3, <1>4, <1>5, <1>6, <1>7 DEF Started

LEMMA WorkOlderKept ==
  ASSUME TypeOK, SoundInv, WorkOlder, [Next]_vars
  PROVE  WorkOlder'
<1>1. CASE Aside
  <2>1. pc' = pc /\ cur' = cur /\ work' = work /\ (pc # "idle" => cur \in PPIs)
    BY <1>1 DEF Aside, workVars, TypeOK, WorkTypeOK
  <2>2. ASSUME NEW p \in PPIs
        PROVE  cache[p].rv \in Nat /\ cache'[p].rv \in Nat /\ cache[p].rv <= cache'[p].rv
    <3>1. cache[p] \in Object /\ store[p] \in Object /\ cache[p].rv <= store[p].rv
      BY DEF TypeOK, ManagerTypeOK, ClusterTypeOK, SoundInv, CacheVersions
    <3> QED
      BY <3>1, CacheFrom, ObjectFields
  <2>3. work.rv \in Nat
    BY ObjectFields DEF TypeOK, WorkTypeOK
  <2> QED
    BY <2>1, <2>2, <2>3 DEF WorkOlder
<1>2. CASE Ended
  BY <1>2 DEF Ended, WorkOlder
<1>3. ASSUME NEW p \in PPIs, Started(p)
      PROVE  WorkOlder'
  <2>1. cur' = p /\ cache' = cache /\ work'.rv = cache[p].rv /\ cache[p].rv \in Nat
    BY <1>3, StartedHolds, ObjectFields DEF TypeOK, ManagerTypeOK
  <2> QED
    BY <2>1 DEF WorkOlder
<1>4. CASE NodeAction
  <2>1. PICK status, retry, counter, again : NextNode(status, retry, counter, again)
    BY <1>4, NodeMoves
  <2>2. pc = "nodes" /\ idx <= Len(work.ns) /\ UNCHANGED <<cur, cache>>
    BY <1>4, NodeMoves
  <2>3. work'.rv = work.rv
    BY <2>1, <2>2, EntryRewritten
  <2> QED
    BY <2>2, <2>3 DEF WorkOlder
<1>5. CASE InBetween
  BY <1>5, InBetweenKeeps DEF WorkOlder
<1> QED
  BY <1>1, <1>2, <1>3, <1>4, <1>5, WorkCases

LEMMA FinalizerStaysKept ==
  ASSUME TypeOK, SoundInv, HoldInv, [Next]_vars
  PROVE  FinalizerStays'
<1>1. ASSUME NEW p \in PPIs
      PROVE  /\ store[p] \in Object /\ cache[p] \in Object /\ work \in Object
             /\ store[p].fin => store[p].exists
             /\ cache[p].fin /\ ~cache[p].del =>
                  /\ store[p].fin /\ store[p].uid = cache[p].uid
                  /\ Terminal(cache[p]) => Terminal(store[p])
  BY DEF TypeOK, ManagerTypeOK, ClusterTypeOK, WorkTypeOK, HoldInv, FinalizerStays
<1>2. SUFFICES ASSUME NEW p \in PPIs
               PROVE  /\ store'[p].fin => store'[p].exists
                      /\ cache'[p].fin /\ ~cache'[p].del =>
                           /\ store'[p].fin /\ store'[p].uid = cache'[p].uid
                           /\ Terminal(cache'[p]) => Terminal(store'[p])
  BY DEF FinalizerStays, Terminal
<1>3. CASE UNCHANGED store
  BY <1>1, <1>3, CacheFrom DEF Terminal
<1>4. CASE store'[p] # store[p] /\ Wrote(p)
  <2>1. cache'[p] = cache[p]
    BY <1>4, CacheFrom
  <2>2. /\ pc = "update" /\ cur = p /\ ~Stale /\ store[p].exists /\ work.rv = store[p].rv
        /\ work.exists /\ (~work.del => work.fin) /\ Writable(p, store[p], work)
    BY <1>4 DEF Wrote, CanWrite, Stale, SoundInv, WorkShape, WorkSound
  <2>3. work.del = store[p].del /\ work.uid = store[p].uid
    BY <2>2 DEF HoldInv, HoldsFinalizer
  <2>4. cache[p] = store[p]
    <3>1. work.rv <= cache[p].rv /\ cache[p].rv <= store[p].rv
      BY <2>2 DEF HoldInv, WorkOlder, SoundInv, CacheVersions
    <3>2. cache[p].rv = store[p].rv
      BY <1>1, <2>2, <3>1, ObjectFields
    <3> QED
      BY <3>2 DEF SoundInv, CacheVersions
  <2>5. CASE work.del /\ ~work.fin
    BY <1>4, <2>1, <2>3, <2>4, <2>5, NewFields DEF Wrote
  <2>6. CASE ~(work.del /\ ~work.fin)
    <3>1. /\ store'[p].exists /\ store'[p].uid = work.uid /\ store'[p].fin = work.fin
          /\ store'[p].phase = work.phase
      BY <1>1, <1>4, <2>2, <2>6, BumpedFields DEF Wrote
    <3>2. ~work.del /\ Terminal(store[p]) => Terminal(work)
      BY <2>2 DEF Writable, Same, Began, Advanced, Terminal
    <3> QED
      BY <2>1, <2>2, <2>3, <2>4, <3>1, <3>2 DEF Terminal
  <2> QED
    BY <2>5, <2>6
<1>5. CASE store'[p] # store[p] /\ Changed(p)
  <2>1. cache'[p] = cache[p]
    BY <1>5, CacheFrom
  <2>2. CASE ~store[p].fin /\ store'[p] = Absent(store[p].uid, store[p].rv + 1)
    BY <1>1, <2>1, <2>2, NewFields
  <2>3. CASE store'[p] = Bumped([store[p] EXCEPT !.del = TRUE]) \/ store'[p] = Bumped(store[p])
    <3>1. /\ store'[p].exists = store[p].exists /\ store'[p].uid = store[p].uid
          /\ store'[p].fin = store[p].fin /\ store'[p].phase = store[p].phase
      BY <1>1, <2>3, BumpedFields, MarkedFields
    <3> QED
      BY <1>1, <2>1, <3>1 DEF Terminal
  <2>4. CASE ~store[p].exists /\ store'[p] = Fresh(store[p].uid + 1, store[p].rv + 1)
    BY <1>1, <2>1, <2>4, NewFields
  <2> QED
    BY <1>5, <2>2, <2>3, <2>4 DEF Changed
<1>6. CASE store'[p] = store[p]
  BY <1>1, <1>6, CacheFrom DEF Terminal
<1> QED
  BY <1>3, <1>4, <1>5, <1>6, StoreStep DEF OnlyAt

LEMMA HoldsFinalizerKept ==
  ASSUME TypeOK, SoundInv, HoldsFinalizer, [Next]_vars
  PROVE  HoldsFinalizer'
<1> SUFFICES ASSUME pc' # "idle", ~Stale'
             PROVE  /\ work'.uid = store'[cur'].uid /\ work'.del = store'[cur'].del
                    /\ IF pc' = "update"
                       THEN ~work'.del /\ ~store'[cur'].fin => work'.phase = store'[cur'].phase
                       ELSE store'[cur'].fin
  BY DEF HoldsFinalizer
<1>1. CASE Aside
  <2>1. pc # "idle" /\ pc' = pc
    BY <1>1 DEF Aside, workVars
  <2>2. ~Stale /\ store'[cur] = store[cur] /\ cur' = cur /\ work' = work
    BY <1>1, <2>1, StillCurrent DEF SoundInv
  <2> QED
    BY <2>1, <2>2 DEF HoldsFinalizer
<1>2. CASE Ended
  BY <1>2 DEF Ended
<1>3. ASSUME NEW p \in PPIs, Started(p)
      PROVE  /\ work'.uid = store'[cur'].uid /\ work'.del = store'[cur'].del
             /\ IF pc' = "update"
                THEN ~work'.del /\ ~store'[cur'].fin => work'.phase = store'[cur'].phase
                ELSE store'[cur'].fin
  <2>1. /\ cur' = p /\ store' = store /\ work'.rv = cache[p].rv
        /\ work'.uid = cache[p].uid /\ work'.del = cache[p].del
        /\ \/ pc' = "update" /\ (cache[p].fin \/ work'.phase = cache[p].phase)
           \/ pc' # "update" /\ cache[p].fin
    BY <1>3, StartedHolds
  <2>2. cache[p] = store[p]
    BY <2>1 DEF Stale, SoundInv, CacheVersions
  <2> QED
    BY <2>1, <2>2
<1>4. CASE NodeAction
  <2>1. PICK status, retry, counter, again : NextNode(status, retry, counter, again)
    BY <1>4, NodeMoves
  <2>2. pc = "nodes" /\ pc' = pc /\ idx <= Len(work.ns) /\ cur' = cur /\ store' = store
    BY <1>4, NodeMoves
  <2>3. work'.rv = work.rv /\ work'.del = work.del /\ work'.uid = work.uid
    BY <2>1, <2>2, EntryRewritten
  <2> QED
    BY <2>2, <2>3 DEF HoldsFinalizer, Stale
<1>5. CASE InBetween
  <2>1. /\ pc # "idle" /\ cur' = cur /\ store' = store
        /\ work'.rv = work.rv /\ work'.del = work.del /\ work'.uid = work.uid
    BY <1>5, InBetweenKeeps
  <2>2. pc \in {"nodes", "release", "cleanup"}
    BY <1>5 DEF InBetween, FinishNodes, ReleaseNode, ListJobs, CleanupJob, CleanupEnds
  <2> QED
    BY <2>1, <2>2 DEF HoldsFinalizer, Stale
<1> QED
  BY <1>1, <1>2, <1>3, <1>4, <1>5, WorkCases

LEMMA DeletesOnlyDoneKept ==
  ASSUME TypeOK, FinalizerStays, DeletesOnlyDone, [Next]_vars
  PROVE  DeletesOnlyDone'
<1> SUFFICES ASSUME pc' = "ttlDelete"
             PROVE  /\ store'[cur'].exists /\ store'[cur'].fin
                    /\ store'[cur'].uid = work'.uid /\ Terminal(store'[cur'])
  BY DEF DeletesOnlyDone, Terminal
<1>1. CASE Aside
  <2>1. /\ pc = "ttlDelete" /\ cur' = cur /\ work' = work /\ cur \in PPIs
        /\ store[cur] \in Object
    BY <1>1 DEF Aside, workVars, TypeOK, WorkTypeOK, ClusterTypeOK
  <2>2. /\ store[cur].exists /\ store[cur].fin /\ store[cur].uid = work.uid
        /\ store[cur].phase \in {"Completed", "Failed"}
    BY <2>1 DEF DeletesOnlyDone, Terminal
  <2>3. CASE store'[cur] = store[cur]
    BY <2>1, <2>2, <2>3 DEF Terminal
  <2>4. CASE Changed(cur)
    <3>1. \/ store'[cur] = Bumped([store[cur] EXCEPT !.del = TRUE])
          \/ store'[cur] = Bumped(store[cur])
      BY <2>2, <2>4 DEF Changed
    <3> QED
      BY <2>1, <2>2, <3>1, BumpedFields, MarkedFields DEF Terminal
  <2> QED
    BY <2>1, <2>3, <2>4, StoreStep DEF OnlyAt, Wrote
<1>2. CASE Ended
  BY <1>2 DEF Ended
<1>3. ASSUME NEW p \in PPIs, Started(p)
      PROVE  /\ store'[cur'].exists /\ store'[cur'].fin
             /\ store'[cur'].uid = work'.uid /\ Terminal(store'[cur'])
  <2>1. /\ cur' = p /\ store' = store /\ work'.uid = cache[p].uid
        /\ cache[p].fin /\ ~cache[p].del /\ Terminal(cache[p])
    BY <1>3, StartedHolds
  <2> QED
    BY <2>1 DEF FinalizerStays, Terminal
<1>4. CASE NodeAction
  BY <1>4, NodeMoves
<1>5. CASE InBetween
  BY <1>5 DEF InBetween, FinishNodes, ReleaseNode, ListJobs, CleanupJob, CleanupEnds, Finalize
<1> QED
  BY <1>1, <1>2, <1>3, <1>4, <1>5, WorkCases

LEMMA HoldInit == Init => HoldInv
BY NewFields DEF Init, HoldInv, FinalizerStays, WorkOlder, HoldsFinalizer, DeletesOnlyDone

LEMMA HoldNext ==
  ASSUME TypeOK, SoundInv, HoldInv, [Next]_vars
  PROVE  HoldInv'
BY FinalizerStaysKept, WorkOlderKept, HoldsFinalizerKept, DeletesOnlyDoneKept DEF HoldInv

(* handleCompleted deletes the object it has read and only when it is done, though
   its cache may be late and its Delete carries no precondition: an object of the
   same name that was created in the meantime is safe. *)
THEOREM TTLDeletesDone == Spec => []DeletesOnlyDone
<1>1. Init => TypeOK /\ SoundInv /\ HoldInv
  BY InitType, SoundInit, HoldInit
<1>2. (TypeOK /\ SoundInv /\ HoldInv) /\ [Next]_vars => (TypeOK /\ SoundInv /\ HoldInv)'
  BY NextType, SoundNext, HoldNext
<1>3. HoldInv => DeletesOnlyDone
  BY DEF HoldInv
<1> QED
  BY <1>1, <1>2, <1>3, PTL DEF Spec
=============================================================================
