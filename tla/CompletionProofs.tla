--------------------------- MODULE CompletionProofs ---------------------------
(***************************************************************************)
(* That the status of a node means what it says: Completed that its image  *)
(* has been pulled, Failed that no Job of it has succeeded; for any number *)
(* of PrePullImages, nodes, retries, edits, deletions, faults, restarts.   *)
(***************************************************************************)
EXTENDS LifecycleProofs

-----------------------------------------------------------------------------
(* Completed, provided that job names tell the pairs of a PrePullImage and a
   node apart. *)

(* GenerateJobName is injective on the names and nodes in use. *)
NamesDistinct ==
  \A p, q \in PPIs : \A m, n \in Nodes :
    GenerateJobName(Name[p], m) = GenerateJobName(Name[q], n) => p = q /\ m = n

(* It is when the names are different and short enough to be kept whole with
   the node hash (43 characters), and the hashes differ. *)
LEMMA ShortNamesDistinct ==
  ASSUME Name \in [PPIs -> PPIName],
         \A p \in PPIs : Name[p].len <= MaxNameLen - PrefixLen - HashLen - 1,
         \A p, q \in PPIs : Name[p].stem = Name[q].stem => p = q,
         \A n \in Nodes : NodeHash[n] \in Seq(Nat) /\ Len(NodeHash[n]) = HashLen,
         \A m, n \in Nodes : NodeHash[m] = NodeHash[n] => m = n
  PROVE  NamesDistinct
<1>1. ASSUME NEW p \in PPIs, NEW n \in Nodes
      PROVE  GenerateJobName(Name[p], n) =
               [stem |-> Name[p].stem, dash |-> TRUE, hash |-> NodeHash[n]]
  <2>1. MaxNameLen - PrefixLen - Name[p].len > HashLen
    BY DEF PPIName, MaxNameLen, PrefixLen, HashLen
  <2>2. SubSeq(NodeHash[n], 1, HashLen) = NodeHash[n]
    BY DEF HashLen
  <2>3. MaxNameLen - PrefixLen - Name[p].len > 0
    BY <2>1 DEF PPIName, MaxNameLen, PrefixLen, HashLen
  <2> QED
    BY <2>1, <2>2, <2>3 DEF GenerateJobName
<1>2. ASSUME NEW p \in PPIs, NEW q \in PPIs, NEW m \in Nodes, NEW n \in Nodes,
             GenerateJobName(Name[p], m) = GenerateJobName(Name[q], n)
      PROVE  p = q /\ m = n
  <2>1. [stem |-> Name[p].stem, dash |-> TRUE, hash |-> NodeHash[m]] =
        [stem |-> Name[q].stem, dash |-> TRUE, hash |-> NodeHash[n]]
    BY <1>1, <1>2
  <2>2. Name[p].stem = Name[q].stem /\ NodeHash[m] = NodeHash[n]
    BY <2>1
  <2> QED
    BY <2>2
<1> QED
  BY <1>2 DEF NamesDistinct

-----------------------------------------------------------------------------
(* The inductive invariant.  A Job under some name belongs to the PrePullImage
   and the node it was named for, and one that succeeded has pulled; this also
   holds of the Jobs in a late cache, for what was pulled stays pulled.  Hence
   nobody who copies a status, from the API server to the cache, from there to
   the reconcile and back, calls a node Completed that is not. *)
JobOK(done, j, job) ==
  job # NoJob =>
    /\ j = GenerateJobName(Name[job.owner], job.node)
    /\ job.succeeded > 0 => <<job.owner, job.node, "Succeeded">> \in done

NodesOK(done, p, ns) ==
  \A i \in DOMAIN ns : ns[i].status = "Completed" => <<p, ns[i].node, "Succeeded">> \in done

JobsHonest  == \A j \in JobNames : JobOK(pulled, j, jobs[j]) /\ JobOK(pulled, j, jobCache[j])
StoreHonest == \A p \in PPIs : NodesOK(pulled, p, store[p].ns)
CacheHonest == \A p \in PPIs : NodesOK(pulled, p, cache[p].ns)
WorkHonest  == pc # "idle" => NodesOK(pulled, cur, work.ns)

Honest == JobsHonest /\ StoreHonest /\ CacheHonest /\ WorkHonest

(* What was pulled stays pulled. *)
LEMMA PulledGrows ==
  ASSUME [Next]_vars
  PROVE  pulled \subseteq pulled'
<1>1. ASSUME NEW p \in PPIs, Reconcile(p)
      PROVE  pulled' = pulled
  BY <1>1 DEF Reconcile, ReconcileGone, ReconcileReadFails, AddFinalizer, handlePending,
     handleInProgress, handleCompleted, handleDeletion, Begin, clusterVars
<1>2. CASE NodeAction
  BY <1>2 DEF NodeAction, startPullJob, startPullJobFails, RateLimited, PullSucceeded,
     PullRetried, PullExhausted, PullRunning, NodeDone, NextNode
<1>3. CASE EndAction
  BY <1>3 DEF EndAction, FinishNodes, UpdateWritten, UpdateRejected, UpdateFails, TTLDelete,
     ReleaseNode, ListJobs, CleanupJob, CleanupEnds, clusterVars
<1>4. CASE Environment
  BY <1>4 DEF Environment, Create, Delete, Edit, TTLElapses, SyncPPI, TimerFires, SyncJob,
     JobMoves, JobExpires, Restart, clusterVars
<1>5. CASE Quiet \/ UNCHANGED vars
  BY <1>5 DEF Quiet, vars, clusterVars
<1> QED
  BY <1>1, <1>2, <1>3, <1>4, <1>5 DEF Next, WorkStep, NodeAction, EndAction

LEMMA StillOK ==
  ASSUME NEW S, NEW T, S \subseteq T
  PROVE  /\ \A j, job : JobOK(S, j, job) => JobOK(T, j, job)
         /\ \A p, ns : NodesOK(S, p, ns) => NodesOK(T, p, ns)
BY DEF JobOK, NodesOK

-----------------------------------------------------------------------------
(* Jobs. *)

JobsWritten(j) ==
  \/ UNCHANGED jobs
  \/ DeleteJob(j)
  \/ \E p \in PPIs, n \in Nodes :
       j = GenerateJobName(Name[p], n) /\ CreateJob(j, NewJob(p, n))

LEMMA JobsWrittenOK ==
  ASSUME TypeOK, JobsHonest, pulled \subseteq pulled', NEW j \in JobNames, JobsWritten(j)
  PROVE  \A k \in JobNames : JobOK(pulled', k, jobs'[k])
<1>1. \A k \in JobNames : JobOK(pulled', k, jobs[k])
  BY StillOK DEF JobsHonest
<1>2. jobs \in [JobNames -> Job \cup {NoJob}]
  BY DEF TypeOK, ClusterTypeOK
<1>3. CASE UNCHANGED jobs
  BY <1>1, <1>3
<1>4. CASE DeleteJob(j)
  <2>1. JobOK(pulled', j, NoJob)
    BY DEF JobOK
  <2> QED
    BY <1>1, <1>2, <1>4, <2>1 DEF DeleteJob
<1>5. ASSUME NEW p \in PPIs, NEW n \in Nodes,
             j = GenerateJobName(Name[p], n), CreateJob(j, NewJob(p, n))
      PROVE  \A k \in JobNames : JobOK(pulled', k, jobs'[k])
  <2>1. JobOK(pulled', j, NewJob(p, n))
    BY <1>5 DEF JobOK, NewJob
  <2> QED
    BY <1>1, <1>2, <1>5, <2>1 DEF CreateJob
<1> QED
  BY <1>3, <1>4, <1>5 DEF JobsWritten

LEMMA JobMovesOK ==
  ASSUME TypeOK, JobsHonest, NEW j \in JobNames, JobMoves(j)
  PROVE  \A k \in JobNames : JobOK(pulled', k, jobs'[k])
<1>1. jobs[j] \in Job /\ jobs[j] # NoJob /\ jobs[j].succeeded = 0
  BY DEF TypeOK, ClusterTypeOK, JobMoves, Finished, Job
<1>2. jobs \in [JobNames -> Job \cup {NoJob}] /\ pulled \subseteq pulled'
  BY DEF TypeOK, ClusterTypeOK, JobMoves
<1>3. \A k \in JobNames : JobOK(pulled', k, jobs[k])
  BY <1>2, StillOK DEF JobsHonest
<1>4. j = GenerateJobName(Name[jobs[j].owner], jobs[j].node)
  BY <1>1 DEF JobsHonest, JobOK
<1>5. CASE jobs' = [jobs EXCEPT ![j].active = 1]
  <2>1. /\ jobs'[j].owner = jobs[j].owner /\ jobs'[j].node = jobs[j].node
        /\ jobs'[j].succeeded = 0
    BY <1>1, <1>2, <1>5 DEF Job
  <2> QED
    BY <1>2, <1>3, <1>4, <1>5, <2>1 DEF JobOK
<1>6. CASE /\ jobs' = [jobs EXCEPT ![j].active = 0, ![j].succeeded = 1]
           /\ pulled' = pulled \cup {<<jobs[j].owner, jobs[j].node, "Succeeded">>}
  <2>1. jobs'[j].owner = jobs[j].owner /\ jobs'[j].node = jobs[j].node
    BY <1>1, <1>2, <1>6 DEF Job
  <2> QED
    BY <1>2, <1>3, <1>4, <1>6, <2>1 DEF JobOK
<1>7. CASE jobs' = [jobs EXCEPT ![j].active = 0, ![j].failed = 1]
  <2>1. /\ jobs'[j].owner = jobs[j].owner /\ jobs'[j].node = jobs[j].node
        /\ jobs'[j].succeeded = 0
    BY <1>1, <1>2, <1>7 DEF Job
  <2> QED
    BY <1>2, <1>3, <1>4, <1>7, <2>1 DEF JobOK
<1> QED
  BY <1>5, <1>6, <1>7 DEF JobMoves

LEMMA JobsStayHonest ==
  ASSUME TypeOK, JobsHonest, [Next]_vars
  PROVE  JobsHonest'
<1>1. pulled \subseteq pulled'
  BY PulledGrows
<1>2. \A j \in JobNames : JobOK(pulled', j, jobs'[j])
  <2>1. ASSUME NEW p \in PPIs, Reconcile(p)
        PROVE  UNCHANGED jobs
    BY <2>1 DEF Reconcile, ReconcileGone, ReconcileReadFails, AddFinalizer, handlePending,
       handleInProgress, handleCompleted, handleDeletion, Begin, clusterVars
  <2>2. CASE NodeAction
    <3>1. pc # "idle" /\ idx <= Len(work.ns)
      BY <2>2 DEF NodeAction, startPullJob, startPullJobFails, RateLimited, PullSucceeded,
         PullRetried, PullExhausted, PullRunning, NodeDone, Checked, AtNode
    <3>2. cur \in PPIs /\ entry.node \in Nodes /\ jobName \in JobNames
      BY <3>1, EntryType
    <3>3. JobsWritten(jobName)
      BY <2>2, <3>2 DEF NodeAction, startPullJob, startPullJobFails, RateLimited,
         PullSucceeded, PullRetried, PullExhausted, PullRunning, NodeDone, jobName, JobsWritten
    <3> QED
      BY <1>1, <3>2, <3>3, JobsWrittenOK
  <2>3. CASE CleanupJob
    <3>1. PICK j \in todo : DeleteJob(j)
      BY <2>3 DEF CleanupJob
    <3>2. j \in JobNames
      BY <3>1 DEF TypeOK, WorkTypeOK
    <3> QED
      BY <1>1, <3>1, <3>2, JobsWrittenOK DEF JobsWritten
  <2>4. CASE EndAction /\ ~CleanupJob
    BY <1>1, <2>4, StillOK DEF JobsHonest, EndAction, FinishNodes, UpdateWritten, UpdateRejected,
       UpdateFails, TTLDelete, ReleaseNode, ListJobs, CleanupEnds, clusterVars
  <2>5. ASSUME NEW j \in JobNames, JobMoves(j)
        PROVE  \A k \in JobNames : JobOK(pulled', k, jobs'[k])
    BY <2>5, JobMovesOK
  <2>6. ASSUME NEW j \in JobNames, JobExpires(j)
        PROVE  \A k \in JobNames : JobOK(pulled', k, jobs'[k])
    BY <1>1, <2>6, JobsWrittenOK DEF JobExpires, JobsWritten
  <2>7. CASE Environment /\ UNCHANGED jobs
    BY <1>1, <2>7, StillOK DEF JobsHonest
  <2>8. CASE Environment
    BY <2>5, <2>6, <2>7, <2>8 DEF Environment, Create, Delete, Edit, TTLElapses, SyncPPI,
       TimerFires, SyncJob, Restart, clusterVars
  <2>9. CASE Quiet \/ UNCHANGED vars
    BY <1>1, <2>9, StillOK DEF JobsHonest, Quiet, vars, clusterVars
  <2>10. ASSUME UNCHANGED jobs
         PROVE  \A j \in JobNames : JobOK(pulled', j, jobs'[j])
    BY <1>1, <2>10, StillOK DEF JobsHonest
  <2> QED
    BY <2>1, <2>2, <2>3, <2>4, <2>8, <2>9, <2>10 DEF Next, WorkStep, NodeAction, EndAction
<1>3. \A j \in JobNames : JobOK(pulled', j, jobCache'[j])
  <2>1. ASSUME UNCHANGED jobCache
        PROVE  \A j \in JobNames : JobOK(pulled', j, jobCache'[j])
    BY <1>1, <2>1, StillOK DEF JobsHonest
  <2>2. \A j \in JobNames : JobOK(pulled', j, jobs[j]) /\ JobOK(pulled', j, jobCache[j])
    BY <1>1, StillOK DEF JobsHonest
  <2>3. ASSUME NEW k \in JobNames, SyncJob(k)
        PROVE  \A j \in JobNames : JobOK(pulled', j, jobCache'[j])
    BY <2>2, <2>3 DEF SyncJob, TypeOK, ManagerTypeOK
  <2>4. CASE Restart
    BY <2>2, <2>4 DEF Restart
  <2>5. ASSUME NEW p \in PPIs, Reconcile(p)
        PROVE  UNCHANGED jobCache
    BY <2>5 DEF Reconcile, ReconcileGone, ReconcileReadFails, AddFinalizer, handlePending,
       handleInProgress, handleCompleted, handleDeletion, Begin
  <2>6. CASE NodeAction
    BY <2>1, <2>6 DEF NodeAction, startPullJob, startPullJobFails, RateLimited, PullSucceeded,
       PullRetried, PullExhausted, PullRunning, NodeDone, NextNode
  <2>7. CASE EndAction
    BY <2>1, <2>7 DEF EndAction, FinishNodes, UpdateWritten, UpdateRejected, UpdateFails,
       TTLDelete, ReleaseNode, ListJobs, CleanupJob, CleanupEnds
  <2>8. CASE Environment
    BY <2>1, <2>3, <2>4, <2>8 DEF Environment, Create, Delete, Edit, TTLElapses, SyncPPI,
       TimerFires, JobMoves, JobExpires
  <2>9. CASE Quiet \/ UNCHANGED vars
    BY <2>1, <2>9 DEF Quiet, vars
  <2> QED
    BY <2>1, <2>5, <2>6, <2>7, <2>8, <2>9 DEF Next, WorkStep, NodeAction, EndAction
<1> QED
  BY <1>2, <1>3 DEF JobsHonest

-----------------------------------------------------------------------------
(* Statuses. *)

LEMMA NsKept ==
  ASSUME NEW obj \in Object
  PROVE  /\ Bumped(obj).ns = obj.ns
         /\ Bumped([obj EXCEPT !.del = TRUE]).ns = obj.ns
         /\ [obj EXCEPT !.fin = TRUE].ns = obj.ns
         /\ [obj EXCEPT !.fin = FALSE].ns = obj.ns
BY DEF Bumped, Object

LEMMA NewOK ==
  ASSUME NEW done, NEW p, NEW uid, NEW rv
  PROVE  NodesOK(done, p, Fresh(uid, rv).ns) /\ NodesOK(done, p, Absent(uid, rv).ns)
<1>1. Fresh(uid, rv).ns = <<>> /\ Absent(uid, rv).ns = <<>>
  BY DEF Fresh, Absent
<1>2. DOMAIN <<>> = {}
  OBVIOUS
<1> QED
  BY <1>1, <1>2 DEF NodesOK

(* The API server stores what it is given, or an object without status. *)
LEMMA StoreWrittenOK ==
  ASSUME TypeOK, StoreHonest, pulled \subseteq pulled', NEW p \in PPIs,
         \/ \E obj \in Object : NodesOK(pulled, p, obj.ns) /\ Persist(p, obj)
         \/ DeleteObject(p)
         \/ Create(p)
         \/ Edit(p)
  PROVE  StoreHonest'
<1>1. store \in [PPIs -> Object]
  BY DEF TypeOK, ClusterTypeOK
<1>2. \A q \in PPIs : NodesOK(pulled', q, store[q].ns)
  BY StillOK DEF StoreHonest
<1>3. \A q \in PPIs \ {p} : store'[q] = store[q]
  BY <1>1 DEF Persist, DeleteObject, Create, Edit
<1>4. ASSUME NEW obj \in Object, NodesOK(pulled, p, obj.ns), Persist(p, obj)
      PROVE  NodesOK(pulled', p, store'[p].ns)
  <2>1. NodesOK(pulled', p, obj.ns) /\ Bumped(obj).ns = obj.ns
    BY <1>4, StillOK, NsKept
  <2>2. \/ store'[p] = Absent(store[p].uid, store[p].rv + 1)
        \/ store'[p] = store[p]
        \/ store'[p] = Bumped(obj)
    BY <1>1, <1>4 DEF Persist
  <2> QED
    BY <1>2, <2>1, <2>2, NewOK
<1>5. ASSUME DeleteObject(p) \/ Create(p) \/ Edit(p)
      PROVE  NodesOK(pulled', p, store'[p].ns)
  <2>1. \/ store'[p] = Absent(store[p].uid, store[p].rv + 1)
        \/ store'[p] = Fresh(store[p].uid + 1, store[p].rv + 1)
        \/ store'[p] = store[p]
        \/ store'[p] = Bumped(store[p])
        \/ store'[p] = Bumped([store[p] EXCEPT !.del = TRUE])
    BY <1>1, <1>5 DEF DeleteObject, Create, Edit
  <2>2. /\ Bumped(store[p]).ns = store[p].ns
        /\ Bumped([store[p] EXCEPT !.del = TRUE]).ns = store[p].ns
    BY <1>1, NsKept
  <2> QED
    BY <1>2, <2>1, <2>2, NewOK
<1>6. NodesOK(pulled', p, store'[p].ns)
  BY <1>4, <1>5
<1> QED
  BY <1>2, <1>3, <1>6 DEF StoreHonest

LEMMA StoreStaysHonest ==
  ASSUME TypeOK, StoreHonest, WorkHonest, [Next]_vars
  PROVE  StoreHonest'
<1>1. pulled \subseteq pulled'
  BY PulledGrows
<1>2. ASSUME UNCHANGED store
      PROVE  StoreHonest'
  BY <1>1, <1>2, StillOK DEF StoreHonest
<1>3. ASSUME NEW p \in PPIs, Reconcile(p)
      PROVE  UNCHANGED store
  BY <1>3 DEF Reconcile, ReconcileGone, ReconcileReadFails, AddFinalizer, handlePending,
     handleInProgress, handleCompleted, handleDeletion, Begin, clusterVars
<1>4. CASE NodeAction
  BY <1>2, <1>4 DEF NodeAction, startPullJob, startPullJobFails, RateLimited, PullSucceeded,
     PullRetried, PullExhausted, PullRunning, NodeDone, NextNode
<1>5. CASE EndAction
  <2>1. pc # "idle" /\ cur \in PPIs /\ work \in Object
    BY <1>5 DEF TypeOK, WorkTypeOK, EndAction, FinishNodes, UpdateWritten, UpdateRejected,
       UpdateFails, TTLDelete, ReleaseNode, ListJobs, CleanupJob, CleanupEnds
  <2>2. NodesOK(pulled, cur, work.ns)
    BY <2>1 DEF WorkHonest
  <2>3. CASE Persist(cur, work)
    BY <1>1, <2>1, <2>2, <2>3, StoreWrittenOK
  <2>4. CASE DeleteObject(cur)
    BY <1>1, <2>1, <2>4, StoreWrittenOK
  <2> QED
    BY <1>2, <1>5, <2>3, <2>4 DEF EndAction, FinishNodes, UpdateWritten, UpdateRejected,
       UpdateFails, TTLDelete, ReleaseNode, ListJobs, CleanupJob, CleanupEnds, clusterVars
<1>6. CASE Environment
  <2>1. ASSUME NEW p \in PPIs, Create(p) \/ Delete(p) \/ Edit(p)
        PROVE  StoreHonest'
    BY <1>1, <2>1, StoreWrittenOK DEF Delete
  <2> QED
    BY <1>2, <1>6, <2>1 DEF Environment, TTLElapses, SyncPPI, TimerFires, SyncJob,
       JobMoves, JobExpires, Restart, clusterVars
<1>7. CASE Quiet \/ UNCHANGED vars
  BY <1>2, <1>7 DEF Quiet, vars, clusterVars
<1> QED
  BY <1>2, <1>3, <1>4, <1>5, <1>6, <1>7 DEF Next, WorkStep, NodeAction, EndAction

LEMMA CacheStaysHonest ==
  ASSUME TypeOK, StoreHonest, CacheHonest, [Next]_vars
  PROVE  CacheHonest'
<1>1. \A p \in PPIs : NodesOK(pulled', p, store[p].ns) /\ NodesOK(pulled', p, cache[p].ns)
  BY PulledGrows, StillOK DEF StoreHonest, CacheHonest
<1>2. ASSUME UNCHANGED cache
      PROVE  CacheHonest'
  BY <1>1, <1>2 DEF CacheHonest
<1>3. ASSUME NEW p \in PPIs, Reconcile(p)
      PROVE  UNCHANGED cache
  BY <1>3 DEF Reconcile, ReconcileGone, ReconcileReadFails, AddFinalizer, handlePending,
     handleInProgress, handleCompleted, handleDeletion, Begin
<1>4. CASE NodeAction
  BY <1>2, <1>4 DEF NodeAction, startPullJob, startPullJobFails, RateLimited, PullSucceeded,
     PullRetried, PullExhausted, PullRunning, NodeDone, NextNode
<1>5. CASE EndAction
  BY <1>2, <1>5 DEF EndAction, FinishNodes, UpdateWritten, UpdateRejected, UpdateFails,
     TTLDelete, ReleaseNode, ListJobs, CleanupJob, CleanupEnds
<1>6. CASE Environment
  <2>1. ASSUME NEW p \in PPIs, SyncPPI(p)
        PROVE  CacheHonest'
    BY <1>1, <2>1 DEF SyncPPI, CacheHonest, TypeOK, ManagerTypeOK
  <2>2. CASE Restart
    BY <1>1, <2>2 DEF Restart, CacheHonest
  <2> QED
    BY <1>2, <1>6, <2>1, <2>2 DEF Environment, Create, Delete, Edit, TTLElapses, TimerFires,
       SyncJob, JobMoves, JobExpires
<1>7. CASE Quiet \/ UNCHANGED vars
  BY <1>2, <1>7 DEF Quiet, vars
<1> QED
  BY <1>2, <1>3, <1>4, <1>5, <1>6, <1>7 DEF Next, WorkStep, NodeAction, EndAction

(* NextNode moves one entry and keeps its node. *)
LEMMA EntryWritten ==
  ASSUME NEW obj \in Object, NEW i \in 1..Len(obj.ns), NEW status, NEW retry
  PROVE  LET new == [obj EXCEPT !.ns[i].status = status, !.ns[i].retry = retry] IN
         /\ DOMAIN new.ns = DOMAIN obj.ns
         /\ \A k \in DOMAIN obj.ns \ {i} : new.ns[k] = obj.ns[k]
         /\ new.ns[i].status = status /\ new.ns[i].node = obj.ns[i].node
<1> DEFINE new == [obj EXCEPT !.ns[i].status = status, !.ns[i].retry = retry]
           ns1 == [obj.ns EXCEPT ![i].status = status]
           ns2 == [ns1 EXCEPT ![i].retry = retry]
<1>1. new.ns = ns2
  BY DEF Object
<1>2. obj.ns \in Seq(NodeStatus) /\ i \in DOMAIN obj.ns /\ obj.ns[i] \in NodeStatus
  BY ObjectFields
<1>3. /\ DOMAIN ns1 = DOMAIN obj.ns
      /\ ns1[i] = [obj.ns[i] EXCEPT !.status = status]
      /\ \A k \in DOMAIN obj.ns \ {i} : ns1[k] = obj.ns[k]
  BY <1>2
<1>4. /\ DOMAIN ns2 = DOMAIN obj.ns
      /\ ns2[i] = [ns1[i] EXCEPT !.retry = retry]
      /\ \A k \in DOMAIN obj.ns \ {i} : ns2[k] = obj.ns[k]
  BY <1>2, <1>3
<1>5. ns2[i].status = status /\ ns2[i].node = obj.ns[i].node
  BY <1>2, <1>3, <1>4 DEF NodeStatus
<1> QED
  BY <1>1, <1>4, <1>5

LEMMA NextNodeOK ==
  ASSUME TypeOK, pc # "idle", idx <= Len(work.ns), pulled \subseteq pulled',
         NodesOK(pulled, cur, work.ns),
         NEW status, NEW retry, NEW counter, NEW again,
         NextNode(status, retry, counter, again),
         status = "Completed" => <<cur, entry.node, "Succeeded">> \in pulled
  PROVE  NodesOK(pulled', cur', work'.ns)
<1>1. work \in Object /\ idx \in 1..Len(work.ns)
  BY EntryType DEF TypeOK, WorkTypeOK
<1>2. cur' = cur /\ entry = work.ns[idx]
  BY DEF NextNode, entry
<1>3. /\ DOMAIN work'.ns = DOMAIN work.ns
      /\ \A k \in DOMAIN work.ns \ {idx} : work'.ns[k] = work.ns[k]
      /\ work'.ns[idx].status = status /\ work'.ns[idx].node = work.ns[idx].node
  BY <1>1, EntryWritten DEF NextNode
<1> QED
  BY <1>2, <1>3 DEF NodesOK

(* Names lead to one Job: the one the reconcile reads is the entry's own. *)
LEMMA SucceededMeansPulled ==
  ASSUME NamesDistinct, TypeOK, JobsHonest, pc # "idle", idx <= Len(work.ns),
         checkJobStatus(jobName) = "Succeeded"
  PROVE  <<cur, entry.node, "Succeeded">> \in pulled
<1>1. cur \in PPIs /\ entry.node \in Nodes /\ jobName \in JobNames
  BY EntryType
<1>2. seenJobs[jobName] # NoJob /\ GetJobStatus(seenJobs[jobName]) = "Succeeded"
  BY DEF checkJobStatus
<1>3. seenJobs[jobName] \in Job
  BY <1>1, <1>2 DEF TypeOK, ClusterTypeOK, ManagerTypeOK, seenJobs
<1>4. seenJobs[jobName].succeeded > 0
  BY <1>2, <1>3 DEF GetJobStatus, Job
<1>5. JobOK(pulled, jobName, seenJobs[jobName])
  BY <1>1 DEF JobsHonest, seenJobs
<1>6. /\ jobName = GenerateJobName(Name[seenJobs[jobName].owner], seenJobs[jobName].node)
      /\ <<seenJobs[jobName].owner, seenJobs[jobName].node, "Succeeded">> \in pulled
  BY <1>2, <1>4, <1>5 DEF JobOK
<1>7. seenJobs[jobName].owner \in PPIs /\ seenJobs[jobName].node \in Nodes
  BY <1>3 DEF Job
<1>8. seenJobs[jobName].owner = cur /\ seenJobs[jobName].node = entry.node
  BY <1>1, <1>6, <1>7 DEF NamesDistinct, jobName
<1> QED
  BY <1>6, <1>8

LEMMA NodeActionOK ==
  ASSUME NamesDistinct, TypeOK, JobsHonest, WorkHonest, pulled \subseteq pulled', NodeAction
  PROVE  NodesOK(pulled', cur', work'.ns)
<1>1. pc # "idle" /\ idx <= Len(work.ns)
  BY DEF NodeAction, startPullJob, startPullJobFails, RateLimited, PullSucceeded,
     PullRetried, PullExhausted, PullRunning, NodeDone, Checked, AtNode
<1>2. NodesOK(pulled, cur, work.ns)
  BY <1>1 DEF WorkHonest
<1>3. ASSUME NEW status, NEW retry, NEW counter, NEW again,
             NextNode(status, retry, counter, again),
             status = "Completed" => <<cur, entry.node, "Succeeded">> \in pulled
      PROVE  NodesOK(pulled', cur', work'.ns)
  BY <1>1, <1>2, <1>3, NextNodeOK
<1>4. CASE PullSucceeded
  <2>1. <<cur, entry.node, "Succeeded">> \in pulled
    BY <1>1, <1>4, SucceededMeansPulled DEF PullSucceeded, Checked
  <2>2. NextNode("Completed", entry.retry, "completed", FALSE)
    BY <1>4 DEF PullSucceeded
  <2> QED
    BY <1>3, <2>1, <2>2
<1>5. CASE NodeDone
  <2>1. CASE AtNode("Completed") /\ NextNode("Completed", entry.retry, "completed", FALSE)
    <3>1. <<cur, entry.node, "Succeeded">> \in pulled
      BY <1>1, <1>2, <2>1, EntryType DEF AtNode, NodesOK, entry, TypeOK, WorkTypeOK
    <3> QED
      BY <1>3, <2>1, <3>1
  <2>2. CASE NextNode("Failed", entry.retry, "failed", FALSE)
    BY <1>3, <2>2
  <2> QED
    BY <1>5, <2>1, <2>2 DEF NodeDone
<1>6. CASE startPullJob \/ PullRunning
  BY <1>3, <1>6 DEF startPullJob, PullRunning
<1>7. CASE startPullJobFails \/ RateLimited \/ PullRetried
  BY <1>3, <1>7 DEF startPullJobFails, RateLimited, PullRetried
<1>8. CASE PullExhausted
  BY <1>3, <1>8 DEF PullExhausted
<1> QED
  BY <1>4, <1>5, <1>6, <1>7, <1>8 DEF NodeAction

LEMMA ReconcileOK ==
  ASSUME TypeOK, CacheHonest, WorkHonest, pulled \subseteq pulled', NEW p \in PPIs, Reconcile(p)
  PROVE  WorkHonest'
<1>1. cache[p] \in Object /\ NodesOK(pulled', p, cache[p].ns)
  BY StillOK DEF TypeOK, ManagerTypeOK, CacheHonest
<1>2. ASSUME NEW step, NEW obj, NEW again, Begin(p, step, obj, again), NodesOK(pulled', p, obj.ns)
      PROVE  WorkHonest'
  BY <1>2 DEF Begin, WorkHonest
<1>3. ASSUME UNCHANGED workVars
      PROVE  WorkHonest'
  BY <1>3, StillOK DEF WorkHonest, workVars
<1>4. CASE ReconcileGone(p) \/ ReconcileReadFails(p)
  BY <1>3, <1>4 DEF ReconcileGone, ReconcileReadFails
<1>5. CASE AddFinalizer(p)
  <2>1. NodesOK(pulled', p, [cache[p] EXCEPT !.fin = TRUE].ns)
    BY <1>1, NsKept
  <2> QED
    BY <1>2, <1>5, <2>1 DEF AddFinalizer
<1>6. CASE handlePending(p)
  <2>1. PICK targets \in getTargetNodes(p) :
          Begin(p, "update", Initialized(cache[p], targets), targets # <<>>)
    BY <1>6 DEF handlePending
  <2> DEFINE entries == [i \in DOMAIN targets |->
                          [node |-> targets[i], status |-> "Pending", retry |-> 0]]
  <2>2. \/ Initialized(cache[p], targets).ns = cache[p].ns
        \/ Initialized(cache[p], targets).ns = entries
    BY <1>1 DEF Initialized, Object
  <2>3. NodesOK(pulled', p, entries)
    BY DEF NodesOK
  <2>4. NodesOK(pulled', p, Initialized(cache[p], targets).ns)
    BY <1>1, <2>2, <2>3
  <2> QED
    BY <1>2, <2>1, <2>4
<1>7. CASE handleInProgress(p) \/ handleDeletion(p)
  BY <1>1, <1>2, <1>7 DEF handleInProgress, handleDeletion
<1>8. CASE handleCompleted(p)
  BY <1>1, <1>2, <1>3, <1>8 DEF handleCompleted
<1> QED
  BY <1>4, <1>5, <1>6, <1>7, <1>8 DEF Reconcile

LEMMA WorkStaysHonest ==
  ASSUME NamesDistinct, TypeOK, Honest, [Next]_vars
  PROVE  WorkHonest'
<1>1. pulled \subseteq pulled' /\ JobsHonest /\ CacheHonest /\ WorkHonest
  BY PulledGrows DEF Honest
<1>2. ASSUME UNCHANGED <<pc, cur>>, UNCHANGED work \/ work'.ns = work.ns
      PROVE  WorkHonest'
  BY <1>1, <1>2, StillOK DEF WorkHonest
<1>3. ASSUME pc' = "idle"
      PROVE  WorkHonest'
  BY <1>3 DEF WorkHonest
<1>4. ASSUME NEW p \in PPIs, Reconcile(p)
      PROVE  WorkHonest'
  BY <1>1, <1>4, ReconcileOK
<1>5. CASE NodeAction
  BY <1>1, <1>5, NodeActionOK DEF WorkHonest
<1>6. CASE EndAction
  <2>1. work \in Object /\ pc # "idle" /\ NodesOK(pulled', cur, work.ns)
    <3>1. work \in Object /\ pc # "idle"
      BY <1>6 DEF TypeOK, WorkTypeOK, EndAction, FinishNodes, UpdateWritten, UpdateRejected,
         UpdateFails, TTLDelete, ReleaseNode, ListJobs, CleanupJob, CleanupEnds
    <3> QED
      BY <1>1, <3>1, StillOK DEF WorkHonest
  <2>2. CASE FinishNodes
    <3>1. work'.ns = work.ns /\ cur' = cur
      BY <2>1, <2>2 DEF FinishNodes, Object
    <3> QED
      BY <2>1, <3>1 DEF WorkHonest
  <2>3. CASE CleanupEnds
    <3>1. work'.ns = work.ns /\ cur' = cur
      BY <2>1, <2>3, NsKept DEF CleanupEnds, Finalize
    <3> QED
      BY <2>1, <3>1 DEF WorkHonest
  <2>4. CASE UpdateWritten \/ UpdateRejected \/ UpdateFails \/ TTLDelete
    BY <1>3, <2>4 DEF UpdateWritten, UpdateRejected, UpdateFails, TTLDelete, Return
  <2>5. CASE ReleaseNode \/ ListJobs \/ CleanupJob
    BY <2>1, <2>5 DEF ReleaseNode, ListJobs, CleanupJob, WorkHonest
  <2> QED
    BY <1>6, <2>2, <2>3, <2>4, <2>5 DEF EndAction
<1>7. CASE Environment
  BY <1>2, <1>3, <1>7 DEF Environment, Create, Delete, Edit, TTLElapses, SyncPPI, TimerFires,
     SyncJob, JobMoves, JobExpires, Restart, workVars
<1>8. CASE Quiet \/ UNCHANGED vars
  BY <1>2, <1>8 DEF Quiet, vars, workVars
<1> QED
  BY <1>4, <1>5, <1>6, <1>7, <1>8 DEF Next, WorkStep, NodeAction, EndAction

-----------------------------------------------------------------------------
(* When job names tell PrePullImages and nodes apart, no status ever calls a
   node Completed unless a Job of this PrePullImage has pulled its image on
   that node: neither the adoption of an existing Job in startPullJob, nor a
   late cache, a retry, a lost update or a crash can break it. *)
THEOREM CompletedIsPulled ==
  ASSUME NamesDistinct
  PROVE  Spec => []CompletedMeansPulled
<1> DEFINE Inv == TypeOK /\ Honest
<1>1. Init => Inv
  <2> SUFFICES ASSUME Init PROVE Honest
    BY InitType
  <2>1. \A j \in JobNames : JobOK(pulled, j, jobs[j]) /\ JobOK(pulled, j, jobCache[j])
    BY DEF Init, JobOK
  <2>2. \A p \in PPIs : NodesOK(pulled, p, Absent(0, 0).ns)
    BY NewOK
  <2> QED
    BY <2>1, <2>2 DEF Init, Honest, JobsHonest, StoreHonest, CacheHonest, WorkHonest
<1>2. Inv /\ [Next]_vars => Inv'
  BY NextType, JobsStayHonest, StoreStaysHonest, CacheStaysHonest, WorkStaysHonest DEF Honest
<1>3. Inv => CompletedMeansPulled
  BY DEF Honest, StoreHonest, NodesOK, CompletedMeansPulled, Having
<1> QED
  BY <1>1, <1>2, <1>3, PTL DEF Spec

-----------------------------------------------------------------------------
(* The names handleDeletion has still to delete are names of its own Jobs:
   they stay so while the Jobs behind them come and go. *)
TodoOwn == pc = "cleanup" => \A j \in todo : \E n \in Nodes : j = GenerateJobName(Name[cur], n)

LEMMA TodoStaysOwn ==
  ASSUME TypeOK, JobsHonest, TodoOwn, [Next]_vars
  PROVE  TodoOwn'
<1>1. ASSUME pc' # "cleanup"
      PROVE  TodoOwn'
  BY <1>1 DEF TodoOwn
<1>2. ASSUME UNCHANGED <<pc, cur>>, todo' \subseteq todo
      PROVE  TodoOwn'
  BY <1>2 DEF TodoOwn
<1>3. ASSUME NEW p \in PPIs, Reconcile(p)
      PROVE  TodoOwn'
  BY <1>1, <1>2, <1>3 DEF Reconcile, ReconcileGone, ReconcileReadFails, AddFinalizer, handlePending,
     handleInProgress, handleCompleted, handleDeletion, Begin, workVars
<1>4. CASE NodeAction
  BY <1>2, <1>4 DEF NodeAction, startPullJob, startPullJobFails, RateLimited, PullSucceeded,
     PullRetried, PullExhausted, PullRunning, NodeDone, NextNode
<1>5. CASE ListJobs
  <2>1. ASSUME NEW j \in JobsLabelled(Name[cur])
        PROVE  \E n \in Nodes : j = GenerateJobName(Name[cur], n)
    <3>1. j \in JobNames /\ seenJobs[j] # NoJob /\ Name[seenJobs[j].owner] = Name[cur]
      BY DEF JobsLabelled
    <3>2. seenJobs[j] \in Job /\ JobOK(pulled, j, seenJobs[j])
      BY <3>1 DEF TypeOK, ClusterTypeOK, ManagerTypeOK, JobsHonest, seenJobs
    <3>3. seenJobs[j].node \in Nodes
      BY <3>2 DEF Job
    <3> QED
      BY <3>1, <3>2, <3>3 DEF JobOK
  <2> QED
    BY <1>5, <2>1 DEF ListJobs, TodoOwn
<1>6. CASE EndAction /\ ~ListJobs
  BY <1>1, <1>2, <1>6 DEF EndAction, FinishNodes, UpdateWritten, UpdateRejected, UpdateFails,
     TTLDelete, ReleaseNode, CleanupJob, CleanupEnds, Return, Finalize
<1>7. CASE Environment
  BY <1>1, <1>2, <1>7 DEF Environment, Create, Delete, Edit, TTLElapses, SyncPPI, TimerFires,
     SyncJob, JobMoves, JobExpires, Restart, workVars
<1>8. CASE Quiet \/ UNCHANGED vars
  BY <1>2, <1>8 DEF Quiet, vars, workVars
<1> QED
  BY <1>3, <1>4, <1>5, <1>6, <1>7, <1>8 DEF Next, WorkStep, NodeAction, EndAction

LEMMA CleanupStepSpares ==
  ASSUME NamesDistinct, TypeOK, JobsHonest, TodoOwn, [Next]_vars,
         NEW j \in Unfinished, pc = "cleanup", jobs'[j] = NoJob
  PROVE  jobs[j].owner = cur
<1>1. j \in JobNames /\ jobs[j] # NoJob /\ ~Finished(jobs[j])
  BY DEF Unfinished
<1>2. /\ jobs \in [JobNames -> Job \cup {NoJob}] /\ jobs[j] \in Job
      /\ cur \in PPIs /\ todo \subseteq JobNames
  BY <1>1 DEF TypeOK, ClusterTypeOK, WorkTypeOK
<1>3. jobs' # jobs
  BY <1>1
<1>4. CASE CleanupJob
  <2>1. PICK k \in todo : DeleteJob(k)
    BY <1>4 DEF CleanupJob
  <2>2. k = j
    BY <1>1, <1>2, <2>1 DEF DeleteJob
  <2>3. PICK n \in Nodes : j = GenerateJobName(Name[cur], n)
    BY <2>1, <2>2 DEF TodoOwn
  <2>4. j = GenerateJobName(Name[jobs[j].owner], jobs[j].node)
    BY <1>1 DEF JobsHonest, JobOK
  <2>5. jobs[j].owner \in PPIs /\ jobs[j].node \in Nodes
    BY <1>2 DEF Job
  <2> QED
    BY <1>2, <2>3, <2>4, <2>5 DEF NamesDistinct
<1>5. ASSUME NEW k \in JobNames, JobMoves(k)
      PROVE  FALSE
  <2>1. jobs[k] \in Job
    BY <1>2, <1>5 DEF JobMoves
  <2>2. /\ [jobs[k] EXCEPT !.active = 1] \in Job
        /\ [jobs[k] EXCEPT !.active = 0, !.succeeded = 1] \in Job
        /\ [jobs[k] EXCEPT !.active = 0, !.failed = 1] \in Job
    BY <2>1, JobUpdates
  <2>3. CASE jobs' = [jobs EXCEPT ![k].active = 1]
    BY <1>1, <1>2, <2>2, <2>3, NoJobIsNone
  <2>4. CASE jobs' = [jobs EXCEPT ![k].active = 0, ![k].succeeded = 1]
    BY <1>1, <1>2, <2>2, <2>4, NoJobIsNone
  <2>5. CASE jobs' = [jobs EXCEPT ![k].active = 0, ![k].failed = 1]
    BY <1>1, <1>2, <2>2, <2>5, NoJobIsNone
  <2> QED
    BY <1>5, <2>3, <2>4, <2>5 DEF JobMoves
<1>6. ASSUME NEW k \in JobNames, JobExpires(k)
      PROVE  FALSE
  BY <1>1, <1>2, <1>6 DEF JobExpires, DeleteJob
<1>7. ASSUME NEW p \in PPIs, Reconcile(p)
      PROVE  FALSE
  BY <1>7 DEF Reconcile, ReconcileGone, ReconcileReadFails, AddFinalizer, handlePending,
     handleInProgress, handleCompleted, handleDeletion, Take
<1>8. ~NodeAction
  BY DEF NodeAction, startPullJob, startPullJobFails, RateLimited, PullSucceeded,
     PullRetried, PullExhausted, PullRunning, NodeDone, Checked, AtNode
<1>9. CASE EndAction /\ ~CleanupJob
  BY <1>3, <1>9 DEF EndAction, FinishNodes, UpdateWritten, UpdateRejected, UpdateFails,
     TTLDelete, ReleaseNode, ListJobs, CleanupEnds, clusterVars
<1>10. CASE Environment
  BY <1>3, <1>5, <1>6, <1>10 DEF Environment, Create, Delete, Edit, TTLElapses, SyncPPI,
     TimerFires, SyncJob, Restart, clusterVars
<1>11. CASE Quiet \/ UNCHANGED vars
  BY <1>3, <1>11 DEF Quiet, vars, clusterVars
<1> QED
  BY <1>4, <1>7, <1>8, <1>9, <1>10, <1>11 DEF Next, WorkStep, NodeAction, EndAction

(* When job names tell PrePullImages and nodes apart, the cleanup of a deleted
   PrePullImage removes no unfinished Job of another one, although it lists
   first, deletes later and selects by label only (handleDeletion and
   CleanupJobsForPrePullImage). *)
THEOREM CleanupTakesOwnJobs ==
  ASSUME NamesDistinct
  PROVE  Spec => CleanupSparesOthers
<1> DEFINE Inv == TypeOK /\ JobsHonest /\ TodoOwn
           Spares == \A j \in Unfinished : pc = "cleanup" /\ jobs'[j] = NoJob
                                               => jobs[j].owner = cur
<1>1. Init => Inv
  BY InitType DEF Init, JobsHonest, JobOK, TodoOwn
<1>2. Inv /\ [Next]_vars => Inv'
  BY NextType, JobsStayHonest, TodoStaysOwn
<1>3. Inv /\ [Next]_vars => [Spares]_vars
  BY CleanupStepSpares
<1> QED
  BY <1>1, <1>2, <1>3, PTL DEF Spec, CleanupSparesOthers

-----------------------------------------------------------------------------
(* Failed.  The Job of a pair, and what a step can do to it. *)

JobOf(p, n) == jobs[GenerateJobName(Name[p], n)]

HasSucceeded(p, n) == JobOf(p, n) # NoJob /\ JobOf(p, n).succeeded > 0

(* The pull of p on n has failed, and no Job will bring it about any more. *)
Dead(p, n) ==
  /\ <<p, n, "Succeeded">> \notin pulled
  /\ JobOf(p, n) # NoJob => JobOf(p, n).failed > 0

(* What a step can do to the Job of p on n and to what it has pulled. *)
PairKept(p, n) ==
  /\ JobOf(p, n)' = JobOf(p, n)
  /\ <<p, n, "Succeeded">> \in pulled' => <<p, n, "Succeeded">> \in pulled

PairCreated(p, n) ==
  /\ AtNode("Pending") /\ cur = p /\ entry.node = n
  /\ JobOf(p, n) = NoJob
  /\ <<p, n, "Succeeded">> \in pulled' => <<p, n, "Succeeded">> \in pulled

PairMoved(p, n) ==
  /\ JobOf(p, n) # NoJob /\ ~Finished(JobOf(p, n))
  /\ <<p, n, "Succeeded">> \in pulled' => <<p, n, "Succeeded">> \in pulled \/ HasSucceeded(p, n)'

PairDeleted(p, n) ==
  /\ JobOf(p, n)' = NoJob
  /\ <<p, n, "Succeeded">> \in pulled' => <<p, n, "Succeeded">> \in pulled
  /\ \/ AtNode("Pulling") /\ cur = p /\ entry.node = n /\ ~HasSucceeded(p, n)
     \/ pc = "cleanup" /\ cur = p
     \/ ~Awaited(GenerateJobName(Name[p], n))

(* The Job of a pair is read as it is, and by nobody who could take it for that
   of another pair. *)
ResultsRead == ReadInTime /\ ~JobLag /\ NamesDistinct

LEMMA SeenFailed ==
  ASSUME ~JobLag, checkJobStatus(jobName) = "Failed"
  PROVE  ~HasSucceeded(cur, entry.node)
BY DEF checkJobStatus, seenJobs, GetJobStatus, HasSucceeded, JobOf, jobName

LEMMA SeenFailedIsDead ==
  ASSUME ~JobLag, TypeOK, pc # "idle", idx <= Len(work.ns), checkJobStatus(jobName) = "Failed"
  PROVE  JobOf(cur, entry.node) # NoJob => JobOf(cur, entry.node).failed > 0
<1>1. cur \in PPIs /\ entry.node \in Nodes /\ jobName \in JobNames
  BY EntryType
<1>2. jobs[jobName] # NoJob => GetJobStatus(jobs[jobName]) = "Failed"
  BY DEF checkJobStatus, seenJobs
<1>3. jobs[jobName] # NoJob => jobs[jobName] \in Job
  BY <1>1 DEF TypeOK, ClusterTypeOK
<1>4. jobs[jobName] # NoJob => jobs[jobName].failed > 0
  BY <1>2, <1>3 DEF GetJobStatus, Job
<1> QED
  BY <1>4 DEF JobOf, jobName

LEMMA NodeActionPair ==
  ASSUME ResultsRead, TypeOK, NodeAction, NEW p \in PPIs, NEW n \in Nodes
  PROVE  PairKept(p, n) \/ PairCreated(p, n) \/ PairDeleted(p, n)
<1>1. pc # "idle" /\ idx <= Len(work.ns) /\ pulled' = pulled
  BY DEF NodeAction, startPullJob, startPullJobFails, RateLimited, PullSucceeded,
     PullRetried, PullExhausted, PullRunning, NodeDone, Checked, AtNode, NextNode
<1>2. cur \in PPIs /\ entry.node \in Nodes /\ jobName \in JobNames
  BY <1>1, EntryType
<1>3. /\ GenerateJobName(Name[p], n) \in JobNames
      /\ GenerateJobName(Name[p], n) = jobName => p = cur /\ n = entry.node
  BY <1>2 DEF JobNames, jobName, ResultsRead, NamesDistinct
<1>4. jobs \in [JobNames -> Job \cup {NoJob}]
  BY DEF TypeOK, ClusterTypeOK
<1>5. ASSUME UNCHANGED jobs
      PROVE  PairKept(p, n)
  BY <1>1, <1>5 DEF PairKept, JobOf
<1>6. ASSUME AtNode("Pending"), CreateJob(jobName, NewJob(cur, entry.node))
      PROVE  PairKept(p, n) \/ PairCreated(p, n)
  BY <1>1, <1>3, <1>4, <1>6 DEF CreateJob, PairKept, PairCreated, JobOf
<1>7. ASSUME PullRetried, DeleteJob(jobName)
      PROVE  PairKept(p, n) \/ PairDeleted(p, n)
  <2>1. AtNode("Pulling") /\ checkJobStatus(jobName) = "Failed"
    BY <1>7 DEF PullRetried, Checked
  <2>2. ~HasSucceeded(cur, entry.node)
    BY <2>1, SeenFailed DEF ResultsRead
  <2> QED
    BY <1>1, <1>3, <1>4, <1>7, <2>1, <2>2 DEF DeleteJob, PairKept, PairDeleted, JobOf
<1>8. CASE startPullJob \/ startPullJobFails
  BY <1>5, <1>6, <1>8 DEF startPullJob, startPullJobFails
<1>9. CASE PullRetried
  BY <1>5, <1>7, <1>9 DEF PullRetried
<1>10. CASE RateLimited \/ PullSucceeded \/ PullExhausted \/ PullRunning \/ NodeDone
  BY <1>5, <1>10 DEF RateLimited, PullSucceeded, PullExhausted, PullRunning, NodeDone
<1> QED
  BY <1>8, <1>9, <1>10 DEF NodeAction

LEMMA JobMovesPair ==
  ASSUME TypeOK, JobsHonest, NEW j \in JobNames, JobMoves(j), NEW p \in PPIs, NEW n \in Nodes,
         NamesDistinct
  PROVE  PairKept(p, n) \/ PairMoved(p, n)
<1>1. jobs[j] # NoJob /\ ~Finished(jobs[j]) /\ jobs[j] \in Job
  BY DEF JobMoves, TypeOK, ClusterTypeOK
<1>2. jobs[j].owner \in PPIs /\ jobs[j].node \in Nodes
      /\ j = GenerateJobName(Name[jobs[j].owner], jobs[j].node)
  BY <1>1 DEF Job, JobsHonest, JobOK
<1>3. jobs \in [JobNames -> Job \cup {NoJob}]
  BY DEF TypeOK, ClusterTypeOK
<1>4. CASE GenerateJobName(Name[p], n) = j
  <2>1. JobOf(p, n) # NoJob /\ ~Finished(JobOf(p, n))
    BY <1>1, <1>4 DEF JobOf
  <2>2. CASE <<p, n, "Succeeded">> \in pulled' => <<p, n, "Succeeded">> \in pulled
    BY <2>1, <2>2 DEF PairMoved
  <2>3. CASE jobs' = [jobs EXCEPT ![j].active = 0, ![j].succeeded = 1]
    <3>1. jobs'[j].succeeded = 1
      BY <1>1, <1>3, <2>3 DEF Job
    <3>2. jobs'[j] \in Job
      BY <1>1, <1>3, <2>3, JobUpdates
    <3>3. jobs'[j] # NoJob
      BY <3>2, NoJobIsNone
    <3>4. HasSucceeded(p, n)'
      BY <1>4, <3>1, <3>3 DEF HasSucceeded, JobOf
    <3> QED
      BY <2>1, <3>4 DEF PairMoved
  <2> QED
    BY <2>2, <2>3 DEF JobMoves
<1>5. CASE GenerateJobName(Name[p], n) # j
  <2>1. \A k \in JobNames \ {j} : jobs'[k] = jobs[k]
    BY <1>3 DEF JobMoves
  <2>2. JobOf(p, n)' = JobOf(p, n)
    BY <1>5, <2>1 DEF JobOf, JobNames
  <2>3. <<p, n>> # <<jobs[j].owner, jobs[j].node>>
    BY <1>2, <1>5
  <2>4. <<p, n, "Succeeded">> \in pulled' => <<p, n, "Succeeded">> \in pulled
    BY <2>3 DEF JobMoves
  <2> QED
    BY <2>2, <2>4 DEF PairKept
<1> QED
  BY <1>4, <1>5

LEMMA PairSteps ==
  ASSUME ResultsRead, TypeOK, JobsHonest, TodoOwn, [Next]_vars, NEW p \in PPIs, NEW n \in Nodes
  PROVE  PairKept(p, n) \/ PairCreated(p, n) \/ PairMoved(p, n) \/ PairDeleted(p, n)
<1>1. ASSUME UNCHANGED <<jobs, pulled>>
      PROVE  PairKept(p, n)
  BY <1>1 DEF PairKept, JobOf
<1>2. GenerateJobName(Name[p], n) \in JobNames
  BY DEF JobNames
<1>3. jobs \in [JobNames -> Job \cup {NoJob}]
  BY DEF TypeOK, ClusterTypeOK
<1>4. ASSUME NEW q \in PPIs, Reconcile(q)
      PROVE  UNCHANGED <<jobs, pulled>>
  BY <1>4 DEF Reconcile, ReconcileGone, ReconcileReadFails, AddFinalizer, handlePending,
     handleInProgress, handleCompleted, handleDeletion, Begin, clusterVars
<1>5. CASE CleanupJob
  <2>1. PICK j \in todo : DeleteJob(j)
    BY <1>5 DEF CleanupJob
  <2>2. pc = "cleanup" /\ pulled' = pulled /\ cur \in PPIs
    BY <1>5 DEF CleanupJob, TypeOK, WorkTypeOK
  <2>3. j \in JobNames
    BY DEF TypeOK, WorkTypeOK
  <2>4. PICK m \in Nodes : j = GenerateJobName(Name[cur], m)
    BY <2>2 DEF TodoOwn
  <2>5. CASE GenerateJobName(Name[p], n) = j
    <3>1. p = cur
      BY <2>2, <2>4, <2>5 DEF ResultsRead, NamesDistinct
    <3>2. JobOf(p, n)' = NoJob
      BY <1>2, <1>3, <2>1, <2>5 DEF DeleteJob, JobOf
    <3> QED
      BY <2>2, <3>1, <3>2 DEF PairDeleted
  <2>6. CASE GenerateJobName(Name[p], n) # j
    BY <1>2, <1>3, <2>1, <2>2, <2>6 DEF DeleteJob, PairKept, JobOf
  <2> QED
    BY <2>5, <2>6
<1>6. CASE EndAction /\ ~CleanupJob
  BY <1>1, <1>6 DEF EndAction, FinishNodes, UpdateWritten, UpdateRejected, UpdateFails,
     TTLDelete, ReleaseNode, ListJobs, CleanupEnds, clusterVars
<1>7. ASSUME NEW j \in JobNames, JobExpires(j)
      PROVE  PairKept(p, n) \/ PairDeleted(p, n)
  <2>1. DeleteJob(j) /\ pulled' = pulled /\ ~Awaited(j)
    BY <1>7 DEF JobExpires, ResultsRead
  <2> QED
    BY <1>2, <1>3, <2>1 DEF DeleteJob, PairKept, PairDeleted, JobOf
<1>8. CASE Environment
  BY <1>1, <1>7, <1>8, JobMovesPair DEF Environment, Create, Delete, Edit, TTLElapses, SyncPPI,
     TimerFires, SyncJob, Restart, clusterVars, ResultsRead
<1>9. CASE Quiet \/ UNCHANGED vars
  BY <1>1, <1>9 DEF Quiet, vars, clusterVars
<1> QED
  BY <1>1, <1>4, <1>5, <1>6, <1>8, <1>9, NodeActionPair DEF Next, WorkStep, NodeAction, EndAction


-----------------------------------------------------------------------------
(* The inductive invariant. *)

(* No node is listed twice. *)
Unique(ns) == \A i, k \in DOMAIN ns : ns[i].node = ns[k].node => i = k

(* The ghost pulled does not tell the lives of an object apart. *)
OneLife == MaxCreates <= 1
NamedOnce ==
  \A p \in PPIs : \A i, k \in DOMAIN NodeNames[p] : NodeNames[p][i] = NodeNames[p][k] => i = k

EntriesUnique ==
  /\ \A p \in PPIs : Unique(store[p].ns) /\ Unique(cache[p].ns)
  /\ pc # "idle" => Unique(work.ns)

(* Whatever is said of an object presumes that it has been created. *)
Lived(obj) == obj.exists \/ obj.fin \/ obj.del => obj.uid >= 1
AllLived ==
  /\ \A p \in PPIs : Lived(store[p]) /\ Lived(cache[p])
  /\ pc # "idle" => work.uid >= 1

WorkFlag == pc # "idle" /\ ~Stale => work.del = store[cur].del

(* p's pulls have not begun; p is going or gone.  Neither can be undone. *)
Blank(p) == store[p].uid = 0 \/ (store[p].exists /\ store[p].phase = "Pending")
Over(p)  == store[p].uid >= 1 /\ (store[p].del \/ ~store[p].exists)

NotGivenUp(p, n) == \A k \in Having(store[p].ns, "Failed") : store[p].ns[k].node # n

(* What a reader of the cache may conclude, however late the cache is: at most
   one write of the worker is missing from it. *)
CacheTold(p) ==
  /\ cache[p].exists /\ cache[p].phase # "Pending" => ~Blank(p)
  /\ cache[p].del => Over(p)
  /\ \A i \in Having(cache[p].ns, "Pending") : NotGivenUp(p, cache[p].ns[i].node)

WorkTold ==
  /\ pc # "idle" => work.rv <= cache[cur].rv
  /\ pc = "nodes" =>
       /\ ~Blank(cur)
       /\ \A i \in Having(work.ns, "Pending") : i >= idx => NotGivenUp(cur, work.ns[i].node)
  /\ pc \in {"release", "cleanup"} => Over(cur)

BlankClean ==
  \A p \in PPIs : Blank(p) =>
    \A n \in Nodes : <<p, n, "Succeeded">> \notin pulled /\ JobOf(p, n) = NoJob

(* A pull that has succeeded and is still awaited shows in its Job. *)
AwaitedKept ==
  \A p \in PPIs : ~store[p].del =>
    \A i \in DOMAIN store[p].ns :
      /\ store[p].ns[i].status \in {"Pending", "Pulling"}
      /\ <<p, store[p].ns[i].node, "Succeeded">> \in pulled
      => HasSucceeded(p, store[p].ns[i].node)

FailedDead ==
  \A p \in PPIs : \A i \in Having(store[p].ns, "Failed") : Dead(p, store[p].ns[i].node)

WorkDead ==
  pc \in {"nodes", "update"} /\ ~Stale /\ ~work.del =>
    \A i \in Having(work.ns, "Failed") : Dead(cur, work.ns[i].node)

Reading == EntriesUnique /\ AllLived /\ WorkFlag /\ (\A p \in PPIs : CacheTold(p)) /\ WorkTold
Failing == BlankClean /\ AwaitedKept /\ FailedDead /\ WorkDead

-----------------------------------------------------------------------------
(* What is written. *)

LEMMA StoreAlone ==
  ASSUME TypeOK, [Next]_vars
  PROVE  UNCHANGED store \/ UNCHANGED <<jobs, pulled>>
<1>1. ASSUME NEW p \in PPIs, Reconcile(p)
      PROVE  UNCHANGED store
  BY <1>1 DEF Reconcile, ReconcileGone, ReconcileReadFails, AddFinalizer, handlePending,
     handleInProgress, handleCompleted, handleDeletion, Begin, clusterVars
<1>2. CASE NodeAction
  BY <1>2 DEF NodeAction, startPullJob, startPullJobFails, RateLimited, PullSucceeded,
     PullRetried, PullExhausted, PullRunning, NodeDone, NextNode
<1>3. CASE EndAction
  BY <1>3 DEF EndAction, FinishNodes, UpdateWritten, UpdateRejected, UpdateFails, TTLDelete,
     ReleaseNode, ListJobs, CleanupJob, CleanupEnds, clusterVars
<1>4. CASE Environment
  BY <1>4 DEF Environment, Create, Delete, Edit, TTLElapses, SyncPPI, TimerFires, SyncJob,
     JobMoves, JobExpires, Restart, clusterVars
<1>5. CASE Quiet \/ UNCHANGED vars
  BY <1>5 DEF Quiet, vars, clusterVars
<1> QED
  BY <1>1, <1>2, <1>3, <1>4, <1>5 DEF Next, WorkStep, NodeAction, EndAction

(* A write of the worker replaces the object it has read, and its cache shows
   nothing older. *)
LEMMA WrittenFrom ==
  ASSUME TypeOK, SoundInv, Reading, NEW p \in PPIs, Wrote(p)
  PROVE  /\ pc = "update" /\ cur = p /\ store[p].exists /\ cache[p] = store[p]
         /\ work.del = store[p].del /\ work.uid >= 1
         /\ \/ work.del /\ store'[p] = Absent(store[p].uid, store[p].rv + 1)
            \/ /\ ~work.del /\ Bumped(work) = store'[p]
               /\ work.ns = store'[p].ns /\ work.phase = store'[p].phase
               /\ work.uid = store'[p].uid /\ work.exists /\ store'[p].exists
               /\ ~store'[p].del
               /\ Same(store[p], work) \/ Began(store[p], work) \/ Advanced(p, store[p], work)
<1>1. work \in Object /\ store[p] \in Object /\ cache[p] \in Object
  BY DEF TypeOK, ClusterTypeOK, ManagerTypeOK, WorkTypeOK
<1>2. pc = "update" /\ cur = p /\ CanWrite /\ ~Stale
  BY DEF Wrote, CanWrite, Stale
<1>3. store[p].exists /\ work.del = store[p].del /\ work.uid >= 1 /\ work.exists
  BY <1>2 DEF CanWrite, Reading, WorkFlag, AllLived, SoundInv, WorkShape
<1>4. cache[p] = store[p]
  <2>1. work.rv = store[p].rv /\ work.rv <= cache[p].rv /\ cache[p].rv <= store[p].rv
    BY <1>2 DEF CanWrite, Reading, WorkTold, SoundInv, CacheVersions
  <2>2. cache[p].rv = store[p].rv
    BY <1>1, <2>1, ObjectFields
  <2> QED
    BY <2>2 DEF SoundInv, CacheVersions
<1>5. Writable(p, store[p], work) /\ (work.del => ~work.fin)
  BY <1>2 DEF SoundInv, WorkSound, WorkShape
<1>6. CASE work.del
  BY <1>2, <1>3, <1>4, <1>5, <1>6 DEF Wrote
<1>7. CASE ~work.del
  <2>1. store'[p] = Bumped(work)
    BY <1>7 DEF Wrote
  <2> QED
    BY <1>1, <1>2, <1>3, <1>4, <1>5, <1>7, <2>1, BumpedFields DEF Writable
<1> QED
  BY <1>6, <1>7

(* Anybody else's change. *)
LEMMA ChangedTo ==
  ASSUME TypeOK, SoundInv, Reading, OneLife, NEW p \in PPIs, Changed(p)
  PROVE  /\ store'[p].ns = store[p].ns
         /\ \/ store[p].uid = 0 /\ store'[p].uid = 1 /\ store'[p].exists
               /\ ~store'[p].del /\ ~store[p].exists
            \/ /\ store'[p].uid = store[p].uid
               /\ \/ /\ ~store'[p].exists /\ ~store'[p].fin /\ ~store'[p].del
                  \/ /\ store'[p].exists = store[p].exists /\ store'[p].phase = store[p].phase
                     /\ store'[p].fin = store[p].fin
                     /\ store'[p].del = store[p].del \/ (store'[p].del /\ store[p].fin)
<1>1. store[p] \in Object /\ Lived(store[p]) /\ store[p].uid \in Nat
  BY ObjectFields DEF TypeOK, ClusterTypeOK, Reading, AllLived
<1>2. store'[p].ns = store[p].ns
  BY ChangedKeepsNodes DEF SoundInv
<1>3. CASE ~store[p].fin /\ store'[p] = Absent(store[p].uid, store[p].rv + 1)
  BY <1>2, <1>3, NewFields
<1>4. CASE store[p].fin /\ store'[p] = Bumped([store[p] EXCEPT !.del = TRUE])
  BY <1>1, <1>2, <1>4, MarkedFields
<1>5. CASE store'[p] = Bumped(store[p])
  BY <1>1, <1>2, <1>5, BumpedFields
<1>6. CASE /\ ~store[p].exists /\ store[p].uid < MaxCreates
           /\ store'[p] = Fresh(store[p].uid + 1, store[p].rv + 1)
  <2>1. store[p].uid = 0
    BY <1>1, <1>6, ConstantsOK DEF OneLife
  <2> QED
    BY <1>2, <1>6, <2>1, NewFields
<1> QED
  BY <1>3, <1>4, <1>5, <1>6 DEF Changed

LEMMA OutcomeNotPending ==
  ASSUME NEW ns
  PROVE  Lifecycle!Outcome(ns) # "Pending"
BY DEF Lifecycle!Outcome

(* What is begun stays begun, what is over stays over. *)
LEMMA BeginningsAndEnds ==
  ASSUME TypeOK, SoundInv, Reading, OneLife, [Next]_vars, NEW p \in PPIs
  PROVE  (Blank(p)' => Blank(p)) /\ (Over(p) => Over(p)')
<1>1. store[p] \in Object /\ Lived(store[p]) /\ store[p].uid \in Nat /\ work.uid \in Nat
      /\ store'[p].uid \in Nat
  <2>1. store[p] \in Object /\ Lived(store[p]) /\ work \in Object
    BY DEF TypeOK, ClusterTypeOK, WorkTypeOK, Reading, AllLived
  <2>2. store'[p] \in Object
    BY NextType DEF TypeOK, ClusterTypeOK
  <2> QED
    BY <2>1, <2>2, ObjectFields
<1>2. CASE store'[p] = store[p]
  BY <1>2 DEF Blank, Over
<1>3. CASE Wrote(p)
  <2>1. /\ store[p].exists /\ work.del = store[p].del /\ work.uid >= 1
        /\ \/ work.del /\ store'[p] = Absent(store[p].uid, store[p].rv + 1)
           \/ /\ ~work.del /\ work.phase = store'[p].phase
              /\ work.uid = store'[p].uid
              /\ Same(store[p], work) \/ Began(store[p], work) \/ Advanced(p, store[p], work)
    BY <1>3, WrittenFrom
  <2>2. CASE work.del
    BY <1>1, <2>1, <2>2, NewFields DEF Blank, Over, Lived
  <2>3. CASE ~work.del
    <3>1. store'[p].phase = "Pending" => store[p].phase = "Pending"
      BY <2>1, <2>3, OutcomeNotPending DEF Same, Began, Advanced
    <3>2. ~Over(p)
      BY <2>1, <2>3 DEF Over
    <3>3. Blank(p)' => Blank(p)
      BY <1>1, <2>1, <2>3, <3>1 DEF Blank
    <3> QED
      BY <3>2, <3>3
  <2> QED
    BY <2>2, <2>3
<1>4. CASE Changed(p)
  BY <1>1, <1>4, ChangedTo DEF Blank, Over, Lived
<1> QED
  BY <1>2, <1>3, <1>4, StoreStep DEF OnlyAt

LEMMA AllLivedKept ==
  ASSUME TypeOK, SoundInv, Reading, OneLife, [Next]_vars
  PROVE  AllLived'
<1>1. ASSUME NEW p \in PPIs
      PROVE  Lived(store[p]) /\ Lived(cache[p]) /\ store[p].uid \in Nat
  BY ObjectFields DEF TypeOK, ClusterTypeOK, Reading, AllLived
<1>2. ASSUME NEW p \in PPIs
      PROVE  Lived(store'[p])
  <2>1. CASE store'[p] = store[p]
    BY <1>1, <2>1
  <2>2. CASE Wrote(p)
    <3>1. \/ store'[p] = Absent(store[p].uid, store[p].rv + 1)
          \/ work.uid = store'[p].uid /\ work.uid >= 1
      BY <2>2, WrittenFrom
    <3> QED
      BY <3>1, NewFields DEF Lived
  <2>3. CASE Changed(p)
    BY <1>1, <2>3, ChangedTo DEF Lived
  <2> QED
    BY <2>1, <2>2, <2>3, StoreStep DEF OnlyAt
<1>3. ASSUME NEW p \in PPIs
      PROVE  Lived(cache'[p])
  BY <1>1, <1>3, CacheFrom
<1>4. pc' # "idle" => work'.uid >= 1
  <2>1. CASE Aside
    BY <2>1 DEF Aside, workVars, Reading, AllLived
  <2>2. CASE Ended
    BY <2>2 DEF Ended
  <2>3. ASSUME NEW p \in PPIs, Started(p)
        PROVE  work'.uid >= 1
    BY <1>1, <2>3, StartedFrom DEF Lived
  <2>4. CASE NodeAction
    <3>1. PICK status, retry, counter, again : NextNode(status, retry, counter, again)
      BY <2>4, NodeMoves
    <3>2. work'.uid = work.uid /\ pc # "idle"
      BY <2>4, <3>1, NodeMoves, EntryRewritten, Zenon
    <3> QED
      BY <3>2 DEF Reading, AllLived
  <2>5. CASE InBetween
    BY <2>5, InBetweenKeeps DEF Reading, AllLived
  <2> QED
    BY <2>1, <2>2, <2>3, <2>4, <2>5, WorkCases
<1> QED
  BY <1>2, <1>3, <1>4 DEF AllLived


-----------------------------------------------------------------------------
(* Reading keeps. *)

LEMMA TargetsOnce ==
  ASSUME NamedOnce, NEW p \in PPIs, NEW targets \in getTargetNodes(p)
  PROVE  \A i, k \in DOMAIN targets : targets[i] = targets[k] => i = k
<1>1. CASE NodeNames[p] # <<>>
  BY <1>1 DEF getTargetNodes, NamedOnce
<1>2. CASE NodeNames[p] = <<>>
  <2>1. PICK S \in SUBSET Matching[p] : targets \in SetToSeqs(S)
    BY <1>2 DEF getTargetNodes, SetToAllKPermutations
  <2> QED
    BY <2>1 DEF SetToSeqs
<1> QED
  BY <1>1, <1>2

LEMMA StartedNs ==
  ASSUME TypeOK, NamedOnce, NEW p \in PPIs, Started(p)
  PROVE  \/ work'.ns = cache[p].ns
         \/ /\ pc' = "update" /\ Unique(work'.ns)
            /\ \A i \in DOMAIN work'.ns : work'.ns[i].status = "Pending"
<1>1. cache[p] \in Object
  BY DEF TypeOK, ManagerTypeOK
<1>2. CASE handlePending(p)
  <2>1. PICK targets \in getTargetNodes(p) : work' = Initialized(cache[p], targets)
    BY <1>2 DEF handlePending, Begin
  <2>2. CASE targets = <<>>
    BY <1>1, <2>1, <2>2, NothingToDoFields
  <2>3. CASE targets # <<>>
    <3>1. work'.ns = Entries0(targets)
      BY <1>1, <2>1, <2>3, InitializedFields
    <3>2. Unique(Entries0(targets))
      BY TargetsOnce DEF Unique, Entries0
    <3>3. \A i \in DOMAIN Entries0(targets) : Entries0(targets)[i].status = "Pending"
      BY DEF Entries0
    <3>4. pc' = "update"
      BY <1>2 DEF handlePending, Begin
    <3> QED
      BY <3>1, <3>2, <3>3, <3>4
  <2> QED
    BY <2>2, <2>3
<1>3. CASE AddFinalizer(p)
  <2>1. work' = [cache[p] EXCEPT !.fin = TRUE]
    BY <1>3 DEF AddFinalizer, Begin
  <2> QED
    BY <1>1, <2>1, FinalizerFields
<1>4. CASE handleInProgress(p) \/ handleDeletion(p) \/ (handleCompleted(p) /\ Expired(p))
  BY <1>4 DEF handleInProgress, handleDeletion, handleCompleted, Begin
<1> QED
  BY <1>2, <1>3, <1>4 DEF Started

LEMMA EntriesUniqueKept ==
  ASSUME TypeOK, SoundInv, Reading, OneLife, NamedOnce, [Next]_vars
  PROVE  EntriesUnique'
<1>1. ASSUME NEW p \in PPIs
      PROVE  Unique(store[p].ns) /\ Unique(cache[p].ns)
  BY DEF Reading, EntriesUnique
<1>2. pc # "idle" => Unique(work.ns)
  BY DEF Reading, EntriesUnique
<1>3. Unique(<<>>)
  BY DEF Unique
<1>4. ASSUME NEW p \in PPIs
      PROVE  Unique(store'[p].ns)
  <2>1. CASE Wrote(p)
    <3>1. pc = "update" /\ (store'[p] = Absent(store[p].uid, store[p].rv + 1) \/ store'[p].ns = work.ns)
      BY <2>1, WrittenFrom
    <3> QED
      BY <1>2, <1>3, <3>1, NewFields
  <2>2. CASE Changed(p)
    BY <1>1, <2>2, ChangedTo
  <2> QED
    BY <1>1, <2>1, <2>2, StoreStep DEF OnlyAt
<1>5. ASSUME NEW p \in PPIs
      PROVE  Unique(cache'[p].ns)
  BY <1>1, CacheFrom
<1>6. pc' # "idle" => Unique(work'.ns)
  <2>1. CASE Aside
    BY <1>2, <2>1 DEF Aside, workVars
  <2>2. CASE Ended
    BY <2>2 DEF Ended
  <2>3. ASSUME NEW p \in PPIs, Started(p)
        PROVE  Unique(work'.ns)
    BY <1>1, <2>3, StartedNs
  <2>4. CASE NodeAction
    <3>1. PICK status, retry, counter, again : NextNode(status, retry, counter, again)
      BY <2>4, NodeMoves
    <3>2. pc = "nodes" /\ idx <= Len(work.ns)
      BY <2>4, NodeMoves
    <3>3. /\ DOMAIN work'.ns = DOMAIN work.ns
          /\ \A k \in DOMAIN work.ns \ {idx} : work'.ns[k] = work.ns[k]
          /\ work'.ns[idx] = [node |-> entry.node, status |-> status, retry |-> retry]
      BY <3>1, <3>2, EntryRewritten, Zenon
    <3>4. \A k \in DOMAIN work.ns : work'.ns[k].node = work.ns[k].node
      BY <3>3 DEF entry
    <3> QED
      BY <1>2, <3>2, <3>3, <3>4 DEF Unique
  <2>5. CASE InBetween
    BY <1>2, <2>5, InBetweenKeeps
  <2> QED
    BY <2>1, <2>2, <2>3, <2>4, <2>5, WorkCases
<1> QED
  BY <1>4, <1>5, <1>6 DEF EntriesUnique

LEMMA WorkFlagKept ==
  ASSUME TypeOK, SoundInv, Reading, [Next]_vars
  PROVE  WorkFlag'
<1> SUFFICES ASSUME pc' # "idle", ~Stale'
             PROVE  work'.del = store'[cur'].del
  BY DEF WorkFlag
<1>1. CASE Aside
  <2>1. pc # "idle"
    BY <1>1 DEF Aside, workVars
  <2>2. ~Stale /\ store'[cur] = store[cur] /\ cur' = cur /\ work' = work
    BY <1>1, <2>1, StillCurrent DEF SoundInv
  <2> QED
    BY <2>1, <2>2 DEF Reading, WorkFlag
<1>2. CASE Ended
  BY <1>2 DEF Ended
<1>3. ASSUME NEW p \in PPIs, Started(p)
      PROVE  work'.del = store'[cur'].del
  <2>1. /\ cur' = p /\ store' = store /\ work'.rv = cache[p].rv /\ work'.del = cache[p].del
    BY <1>3, StartedFrom
  <2> QED
    BY <2>1 DEF Stale, SoundInv, CacheVersions
<1>4. CASE NodeAction
  <2>1. PICK status, retry, counter, again : NextNode(status, retry, counter, again)
    BY <1>4, NodeMoves
  <2>2. pc = "nodes" /\ idx <= Len(work.ns) /\ cur' = cur /\ store' = store
    BY <1>4, NodeMoves
  <2>3. work'.rv = work.rv /\ work'.del = work.del
    BY <2>1, <2>2, EntryRewritten, Zenon
  <2> QED
    BY <2>2, <2>3 DEF Reading, WorkFlag, Stale
<1>5. CASE InBetween
  <2>1. /\ pc # "idle" /\ cur' = cur /\ store' = store
        /\ work'.rv = work.rv /\ work'.del = work.del
    BY <1>5, InBetweenKeeps
  <2> QED
    BY <2>1 DEF Reading, WorkFlag, Stale
<1> QED
  BY <1>1, <1>2, <1>3, <1>4, <1>5, WorkCases

(* A write of the worker gives no node up that the cache shows Pending. *)
LEMMA PendingNotGivenUp ==
  ASSUME TypeOK, SoundInv, Reading, OneLife, [Next]_vars,
         NEW p \in PPIs, NEW i \in Having(cache[p].ns, "Pending"),
         NEW k \in Having(store'[p].ns, "Failed"),
         store'[p].ns[k].node = cache[p].ns[i].node
  PROVE  FALSE
<1>1. \A m \in Having(store[p].ns, "Failed") : store[p].ns[m].node # cache[p].ns[i].node
  BY DEF Reading, CacheTold, NotGivenUp
<1>2. CASE store'[p].ns = store[p].ns
  BY <1>1, <1>2
<1>3. CASE Wrote(p)
  <2>1. cache[p] = store[p] /\ Unique(store[p].ns) /\ store[p].ns \in Seq(NodeStatus)
    BY <1>3, WrittenFrom, ObjectFields DEF Reading, EntriesUnique, TypeOK, ClusterTypeOK
  <2>2. CASE store'[p] = Absent(store[p].uid, store[p].rv + 1)
    BY <2>2, NewFields DEF Having
  <2>3. CASE Same(store[p], work) /\ work.ns = store'[p].ns
    BY <1>1, <2>3 DEF Same
  <2>4. CASE Began(store[p], work) /\ work.ns = store'[p].ns
    BY <2>4 DEF Began, Having, Lifecycle!Waiting
  <2>5. CASE Advanced(p, store[p], work) /\ work.ns = store'[p].ns
    <3>1. /\ k \in DOMAIN store[p].ns /\ i \in DOMAIN store[p].ns
          /\ Lifecycle!NodeStep(p, store[p].ns[k], work.ns[k])
          /\ work.ns[k].status = "Failed" /\ work.ns[k].node = store[p].ns[i].node
          /\ store[p].ns[i].status = "Pending"
      BY <2>1, <2>5 DEF Advanced, Having
    <3>2. store[p].ns[k] \in NodeStatus
      BY <2>1, <3>1
    <3>3. work.ns[k].node = store[p].ns[k].node
      BY <3>1, <3>2 DEF Lifecycle!NodeStep, NodeStatus
    <3>4. k = i
      BY <2>1, <3>1, <3>3 DEF Unique
    <3> QED
      BY <3>1, <3>2, <3>4 DEF Lifecycle!NodeStep, NodeStatus
  <2> QED
    BY <1>3, <2>2, <2>3, <2>4, <2>5, WrittenFrom
<1>4. CASE Changed(p)
  BY <1>2, <1>4, ChangedTo
<1> QED
  BY <1>2, <1>3, <1>4, StoreStep DEF OnlyAt

LEMMA CacheToldKept ==
  ASSUME TypeOK, SoundInv, Reading, OneLife, [Next]_vars, NEW p \in PPIs
  PROVE  CacheTold(p)'
<1>1. CASE cache'[p] = cache[p]
  <2>1. cache'[p].exists /\ cache'[p].phase # "Pending" => ~Blank(p)'
    BY <1>1, BeginningsAndEnds DEF Reading, CacheTold
  <2>2. cache'[p].del => Over(p)'
    BY <1>1, BeginningsAndEnds DEF Reading, CacheTold
  <2>3. ASSUME NEW i \in Having(cache'[p].ns, "Pending"), NEW k \in Having(store'[p].ns, "Failed")
        PROVE  store'[p].ns[k].node # cache'[p].ns[i].node
    BY <1>1, <2>3, PendingNotGivenUp
  <2> QED
    BY <2>1, <2>2, <2>3 DEF CacheTold, NotGivenUp
<1>2. CASE cache'[p] = store[p] /\ UNCHANGED store
  <2>1. Lived(store[p]) /\ Unique(store[p].ns) /\ store[p].uid \in Nat
    BY ObjectFields DEF Reading, AllLived, EntriesUnique, TypeOK, ClusterTypeOK
  <2>2. cache'[p].exists /\ cache'[p].phase # "Pending" => ~Blank(p)'
    BY <1>2, <2>1 DEF Blank, Lived
  <2>3. cache'[p].del => Over(p)'
    BY <1>2, <2>1 DEF Over, Lived
  <2>4. ASSUME NEW i \in Having(cache'[p].ns, "Pending"), NEW k \in Having(store'[p].ns, "Failed")
        PROVE  store'[p].ns[k].node # cache'[p].ns[i].node
    BY <1>2, <2>1, <2>4 DEF Having, Unique
  <2> QED
    BY <2>2, <2>3, <2>4 DEF CacheTold, NotGivenUp
<1> QED
  BY <1>1, <1>2, CacheFrom

LEMMA WorkToldKept ==
  ASSUME TypeOK, SoundInv, Reading, OneLife, [Next]_vars
  PROVE  WorkTold'
<1>1. CASE Aside
  <2>1. pc' = pc /\ cur' = cur /\ work' = work /\ idx' = idx
    BY <1>1 DEF Aside, workVars
  <2>2. pc # "idle" => cur \in PPIs /\ work.rv \in Nat
    BY ObjectFields DEF TypeOK, WorkTypeOK
  <2>3. ASSUME NEW p \in PPIs
        PROVE  cache[p].rv \in Nat /\ cache'[p].rv \in Nat /\ cache[p].rv <= cache'[p].rv
    <3>1. cache[p] \in Object /\ store[p] \in Object /\ cache[p].rv <= store[p].rv
      BY DEF TypeOK, ManagerTypeOK, ClusterTypeOK, SoundInv, CacheVersions
    <3> QED
      BY <3>1, CacheFrom, ObjectFields
  <2>4. pc # "idle" => work.rv <= cache'[cur].rv
    BY <2>2, <2>3 DEF Reading, WorkTold
  <2>5. ASSUME NEW p \in PPIs, pc = "nodes"
        PROVE  store'[p].ns = store[p].ns
    <3>1. store' = store \/ \E q \in PPIs : OnlyAt(q) /\ Changed(q)
      BY <2>5, StoreStep DEF Wrote
    <3> QED
      BY <3>1, ChangedTo DEF OnlyAt
  <2>6. pc = "nodes" => \A p \in PPIs : p = cur => ~Blank(p)'
    BY <2>2, BeginningsAndEnds DEF Reading, WorkTold
  <2>7. pc = "nodes" => \A p \in PPIs : \A n : p = cur /\ NotGivenUp(p, n) => NotGivenUp(p, n)'
    BY <2>5 DEF NotGivenUp
  <2>8. pc \in {"release", "cleanup"} => \A p \in PPIs : p = cur => Over(p)'
    BY <2>2, BeginningsAndEnds DEF Reading, WorkTold
  <2>9. pc' = "nodes" => ~Blank(cur)'
    BY <2>1, <2>2, <2>6 DEF Blank
  <2>10. pc' \in {"release", "cleanup"} => Over(cur)'
    BY <2>1, <2>2, <2>8 DEF Over
  <2>11. ASSUME pc' = "nodes", NEW i \in Having(work'.ns, "Pending"), i >= idx'
         PROVE  NotGivenUp(cur, work.ns[i].node)'
    BY <2>1, <2>2, <2>7, <2>11 DEF NotGivenUp, Reading, WorkTold
  <2> QED
    BY <2>1, <2>4, <2>9, <2>10, <2>11 DEF WorkTold
<1>2. CASE Ended
  BY <1>2 DEF Ended, WorkTold
<1>3. ASSUME NEW p \in PPIs, Started(p)
      PROVE  WorkTold'
  <2>1. /\ pc' # "idle" /\ cur' = p /\ idx' = 1 /\ store' = store /\ cache' = cache
        /\ work'.rv = cache[p].rv /\ cache[p].exists /\ cache[p].rv \in Nat
    BY <1>3, StartedFrom, ObjectFields DEF TypeOK, ManagerTypeOK
  <2>2. pc' = "nodes" => work' = cache[p] /\ cache[p].phase = "InProgress"
    BY <1>3, StartedFrom
  <2>3. pc' = "nodes" => ~Blank(p)
    BY <2>1, <2>2 DEF Reading, CacheTold
  <2>4. pc' \in {"release", "cleanup"} => Over(p)
    BY <1>3, StartedFrom DEF Reading, CacheTold
  <2>5. pc' = "nodes" => \A i \in Having(work'.ns, "Pending") : NotGivenUp(p, work'.ns[i].node)
    BY <2>1, <2>2 DEF Reading, CacheTold
  <2> QED
    BY <2>1, <2>3, <2>4, <2>5 DEF WorkTold, Blank, Over, NotGivenUp
<1>4. CASE NodeAction
  <2>1. PICK status, retry, counter, again : NextNode(status, retry, counter, again)
    BY <1>4, NodeMoves
  <2>2. /\ pc = "nodes" /\ idx <= Len(work.ns) /\ idx' = idx + 1
        /\ UNCHANGED <<pc, cur, store, cache>>
    BY <1>4, NodeMoves
  <2>3. /\ DOMAIN work'.ns = DOMAIN work.ns /\ work'.rv = work.rv /\ idx \in Nat
        /\ \A k \in DOMAIN work.ns \ {idx} : work'.ns[k] = work.ns[k]
    BY <2>1, <2>2, EntryRewritten, Zenon DEF TypeOK, WorkTypeOK
  <2>4. \A i \in DOMAIN work.ns : i \in Nat
    BY ObjectFields DEF TypeOK, WorkTypeOK
  <2>5. ASSUME NEW i \in Having(work'.ns, "Pending"), i >= idx + 1
        PROVE  i \in Having(work.ns, "Pending") /\ i >= idx /\ work'.ns[i] = work.ns[i]
    BY <2>3, <2>4, <2>5 DEF Having
  <2> QED
    BY <2>2, <2>3, <2>5 DEF Reading, WorkTold, Blank, Over, NotGivenUp
<1>5. CASE InBetween
  <2>1. /\ pc # "idle" /\ cur' = cur /\ store' = store /\ cache' = cache /\ work'.rv = work.rv
    BY <1>5, InBetweenKeeps
  <2>2. pc' # "nodes" /\ (pc' \in {"release", "cleanup"} => pc \in {"release", "cleanup"})
    BY <1>5 DEF InBetween, FinishNodes, ReleaseNode, ListJobs, CleanupJob, CleanupEnds, Finalize
  <2> QED
    BY <2>1, <2>2 DEF Reading, WorkTold, Over
<1> QED
  BY <1>1, <1>2, <1>3, <1>4, <1>5, WorkCases

LEMMA ReadingKept ==
  ASSUME TypeOK, SoundInv, Reading, OneLife, NamedOnce, [Next]_vars
  PROVE  Reading'
BY EntriesUniqueKept, AllLivedKept, WorkFlagKept, CacheToldKept, WorkToldKept DEF Reading


-----------------------------------------------------------------------------
(* Failing keeps.  A Job is created for a node that is Pending in the reconcile's
   copy, and such a node is not given up: not in the store, whatever the age of
   that copy, nor elsewhere in the copy. *)

LEMMA BlankCleanKept ==
  ASSUME TypeOK, SoundInv, JobsHonest, TodoOwn, Reading, BlankClean, ResultsRead, OneLife,
         [Next]_vars
  PROVE  BlankClean'
<1> SUFFICES ASSUME NEW p \in PPIs, Blank(p)', NEW n \in Nodes
             PROVE  <<p, n, "Succeeded">> \notin pulled' /\ JobOf(p, n)' = NoJob
  BY DEF BlankClean, JobOf
<1>1. Blank(p)
  BY BeginningsAndEnds
<1>2. <<p, n, "Succeeded">> \notin pulled /\ JobOf(p, n) = NoJob
  BY <1>1 DEF BlankClean
<1>3. ~PairCreated(p, n)
  BY <1>1 DEF PairCreated, AtNode, Reading, WorkTold
<1> QED
  BY <1>2, <1>3, PairSteps DEF PairKept, PairMoved, PairDeleted

LEMMA AwaitedStays ==
  ASSUME TypeOK, SoundInv, JobsHonest, TodoOwn, Reading, Failing, ResultsRead, OneLife,
         [Next]_vars
  PROVE  AwaitedKept'
<1> SUFFICES ASSUME NEW p \in PPIs, ~store'[p].del, NEW i \in DOMAIN store'[p].ns,
                    store'[p].ns[i].status \in {"Pending", "Pulling"},
                    NEW n, n = store'[p].ns[i].node, <<p, n, "Succeeded">> \in pulled'
             PROVE  HasSucceeded(p, n)'
  BY DEF AwaitedKept, HasSucceeded, JobOf
<1>1. store[p] \in Object /\ store'[p] \in Object /\ Sound(p, store'[p]) /\ Lived(store[p])
  BY NextType, SoundNext DEF TypeOK, ClusterTypeOK, SoundInv, StoreSound, Reading, AllLived
<1>2. n \in Nodes /\ store'[p].exists
  <2>1. store'[p].ns[i] \in NodeStatus /\ store'[p].ns # <<>>
    BY <1>1, ObjectFields
  <2> QED
    BY <1>1, <2>1 DEF NodeStatus, Sound
<1>3. ASSUME ~store[p].del, NEW k \in DOMAIN store[p].ns, store[p].ns[k].node = n,
             store[p].ns[k].status \in {"Pending", "Pulling"}, <<p, n, "Succeeded">> \in pulled
      PROVE  HasSucceeded(p, n)
  BY <1>3 DEF Failing, AwaitedKept
<1>4. CASE UNCHANGED store
  <2>1. i \in DOMAIN store[p].ns /\ n = store[p].ns[i].node /\ ~store[p].del
        /\ store[p].ns[i].status \in {"Pending", "Pulling"} /\ store[p].exists
    BY <1>2, <1>4
  <2>2. <<p, n, "Succeeded">> \in pulled => HasSucceeded(p, n)
    BY <1>3, <2>1
  <2>3. CASE PairKept(p, n)
    BY <2>2, <2>3 DEF PairKept, HasSucceeded
  <2>4. CASE PairCreated(p, n)
    BY <2>2, <2>4 DEF PairCreated, HasSucceeded
  <2>5. CASE PairMoved(p, n)
    BY <2>2, <2>5 DEF PairMoved, HasSucceeded, Finished
  <2>6. CASE PairDeleted(p, n)
    <3>1. HasSucceeded(p, n)
      BY <2>2, <2>6 DEF PairDeleted
    <3>2. ~(pc = "cleanup" /\ cur = p)
      BY <2>1 DEF Reading, WorkTold, Over
    <3>3. Awaited(GenerateJobName(Name[p], n))
      BY <2>1 DEF Awaited
    <3> QED
      BY <2>6, <3>1, <3>2, <3>3 DEF PairDeleted
  <2> QED
    BY <1>2, <2>3, <2>4, <2>5, <2>6, PairSteps
<1>5. CASE UNCHANGED <<jobs, pulled>>
  <2>1. SUFFICES HasSucceeded(p, n)
    BY <1>5 DEF HasSucceeded, JobOf
  <2>2. <<p, n, "Succeeded">> \in pulled
    BY <1>5
  <2>3. CASE store'[p] = store[p]
    BY <1>3, <2>2, <2>3
  <2>4. CASE Changed(p)
    <3>1. store'[p].ns = store[p].ns /\ ~store[p].del
      BY <1>1, <1>2, <2>4, ChangedTo, ObjectFields DEF Lived
    <3> QED
      BY <1>3, <2>2, <3>1
  <2>5. CASE Wrote(p)
    <3>1. /\ work.ns = store'[p].ns /\ ~store[p].del /\ store[p].exists
          /\ Same(store[p], work) \/ Began(store[p], work) \/ Advanced(p, store[p], work)
      BY <1>2, <2>5, WrittenFrom, NewFields
    <3>2. CASE Same(store[p], work)
      BY <1>3, <2>2, <3>1, <3>2 DEF Same
    <3>3. CASE Began(store[p], work)
      BY <1>2, <2>2, <3>1, <3>3 DEF Began, Blank, Failing, BlankClean
    <3>4. CASE Advanced(p, store[p], work)
      <4>1. i \in DOMAIN store[p].ns /\ Lifecycle!NodeStep(p, store[p].ns[i], work.ns[i])
        BY <3>1, <3>4 DEF Advanced
      <4>2. store[p].ns[i] \in NodeStatus
        BY <1>1, <4>1, ObjectFields
      <4>3. store[p].ns[i].node = n /\ store[p].ns[i].status \in {"Pending", "Pulling"}
        BY <3>1, <4>1, <4>2 DEF Lifecycle!NodeStep, NodeStatus
      <4> QED
        BY <1>3, <2>2, <3>1, <4>1, <4>3
    <3> QED
      BY <3>1, <3>2, <3>3, <3>4
  <2> QED
    BY <2>3, <2>4, <2>5, StoreStep DEF OnlyAt
<1> QED
  BY <1>4, <1>5, StoreAlone

(* A dead pull stays dead unless its Job is created again. *)
LEMMA DeadStays ==
  ASSUME TypeOK, JobsHonest, TodoOwn, ResultsRead, [Next]_vars,
         NEW p \in PPIs, NEW n \in Nodes, Dead(p, n), ~PairCreated(p, n)
  PROVE  Dead(p, n)'
<1>1. CASE PairKept(p, n)
  BY <1>1 DEF Dead, PairKept
<1>2. CASE PairMoved(p, n)
  BY <1>2 DEF Dead, PairMoved, Finished
<1>3. CASE PairDeleted(p, n)
  BY <1>3 DEF Dead, PairDeleted
<1> QED
  BY <1>1, <1>2, <1>3, PairSteps

LEMMA FailedStaysDead ==
  ASSUME TypeOK, SoundInv, JobsHonest, TodoOwn, Reading, Failing, ResultsRead, OneLife,
         [Next]_vars
  PROVE  FailedDead'
<1> SUFFICES ASSUME NEW p \in PPIs, NEW i \in Having(store'[p].ns, "Failed"),
                    NEW n, n = store'[p].ns[i].node
             PROVE  Dead(p, n)'
  BY DEF FailedDead, Dead, JobOf
<1>1. n \in Nodes
  <2>1. store'[p].ns[i] \in NodeStatus
    BY NextType, ObjectFields DEF TypeOK, ClusterTypeOK, Having
  <2> QED
    BY <2>1 DEF NodeStatus
<1>2. CASE UNCHANGED store
  <2>1. Dead(p, n) /\ i \in Having(store[p].ns, "Failed") /\ n = store[p].ns[i].node
    BY <1>2 DEF Failing, FailedDead
  <2>2. ~PairCreated(p, n)
    <3> SUFFICES ASSUME PairCreated(p, n)
                 PROVE  FALSE
      OBVIOUS
    <3>1. pc = "nodes" /\ idx <= Len(work.ns) /\ entry.status = "Pending" /\ cur = p
          /\ entry.node = n
      BY DEF PairCreated, AtNode
    <3>2. idx \in DOMAIN work.ns /\ idx \in Nat
      BY <3>1, ObjectFields DEF TypeOK, WorkTypeOK
    <3>3. idx \in Having(work.ns, "Pending") /\ idx >= idx
      BY <3>1, <3>2 DEF Having, entry
    <3>4. NotGivenUp(p, n)
      BY <3>1, <3>3 DEF Reading, WorkTold, entry
    <3> QED
      BY <2>1, <3>4 DEF NotGivenUp
  <2> QED
    BY <1>1, <2>1, <2>2, DeadStays
<1>3. CASE UNCHANGED <<jobs, pulled>>
  <2>1. SUFFICES Dead(p, n)
    BY <1>3 DEF Dead, JobOf
  <2>2. CASE store'[p].ns = store[p].ns
    BY <2>2 DEF Failing, FailedDead
  <2>3. CASE Wrote(p)
    <3>1. store'[p].ns # <<>>
      BY DEF Having
    <3>2. pc = "update" /\ cur = p /\ ~work.del /\ work.ns = store'[p].ns
      BY <2>3, <3>1, WrittenFrom, NewFields
    <3>3. ~Stale
      BY <2>3 DEF Wrote, CanWrite, Stale
    <3> QED
      BY <3>2, <3>3 DEF Failing, WorkDead
  <2>4. CASE Changed(p)
    BY <2>2, <2>4, ChangedTo
  <2> QED
    BY <2>2, <2>3, <2>4, StoreStep DEF OnlyAt
<1> QED
  BY <1>2, <1>3, StoreAlone

(* A node becomes Failed in the reconcile's copy by PullExhausted only. *)
LEMMA GivenUpBy ==
  ASSUME TypeOK, NodeAction, ~PullExhausted, work'.ns[idx].status = "Failed"
  PROVE  entry.status = "Failed"
<1>1. pc = "nodes" /\ idx <= Len(work.ns)
  BY NodeMoves
<1>2. ASSUME NEW status, NEW retry, NEW counter, NEW again,
             NextNode(status, retry, counter, again)
      PROVE  status = "Failed"
  <2>1. work'.ns[idx] = [node |-> entry.node, status |-> status, retry |-> retry]
    BY <1>1, <1>2, EntryRewritten, Zenon
  <2> QED
    BY <2>1
<1>3. CASE startPullJob \/ startPullJobFails \/ RateLimited
  <2>1. NextNode("Pulling", entry.retry, "pulling", FALSE)
        \/ NextNode("Pending", entry.retry, "pending", TRUE)
    BY <1>3 DEF startPullJob, startPullJobFails, RateLimited
  <2> QED
    BY <1>2, <2>1
<1>4. CASE PullSucceeded \/ PullRetried \/ PullRunning
  <2>1. \/ NextNode("Completed", entry.retry, "completed", FALSE)
        \/ NextNode("Pending", entry.retry + 1, "pending", TRUE)
        \/ NextNode("Pulling", entry.retry, "pulling", TRUE)
    BY <1>4 DEF PullSucceeded, PullRetried, PullRunning
  <2> QED
    BY <1>2, <2>1
<1>5. CASE NodeDone
  <2>1. \/ NextNode("Completed", entry.retry, "completed", FALSE)
        \/ entry.status = "Failed"
    BY <1>5 DEF NodeDone, AtNode
  <2> QED
    BY <1>2, <2>1
<1> QED
  BY <1>3, <1>4, <1>5 DEF NodeAction

LEMMA WorkStaysDead ==
  ASSUME TypeOK, SoundInv, JobsHonest, TodoOwn, Reading, Failing, ResultsRead, OneLife,
         NamedOnce, [Next]_vars
  PROVE  WorkDead'
<1> SUFFICES ASSUME pc' \in {"nodes", "update"}, ~Stale', ~work'.del,
                    NEW i \in Having(work'.ns, "Failed"), NEW p, p = cur',
                    NEW n, n = work'.ns[i].node
             PROVE  Dead(p, n)'
  BY DEF WorkDead, Dead, JobOf
<1>1. p \in PPIs /\ n \in Nodes
  <2>1. TypeOK'
    BY NextType
  <2>2. work'.ns[i] \in NodeStatus /\ cur' \in PPIs
    BY <2>1, ObjectFields DEF TypeOK, WorkTypeOK, Having
  <2> QED
    BY <2>2 DEF NodeStatus
<1>2. ASSUME pc \in {"nodes", "update"}, ~Stale, ~work.del, cur = p,
             NEW k \in Having(work.ns, "Failed"), work.ns[k].node = n
      PROVE  Dead(p, n)'
  <2>1. Dead(p, n)
    BY <1>2 DEF Failing, WorkDead
  <2>2. ~PairCreated(p, n)
    <3> SUFFICES ASSUME PairCreated(p, n)
                 PROVE  FALSE
      OBVIOUS
    <3>1. pc = "nodes" /\ idx <= Len(work.ns) /\ entry.status = "Pending" /\ entry.node = n
      BY DEF PairCreated, AtNode
    <3>2. idx \in DOMAIN work.ns
      BY <3>1, ObjectFields DEF TypeOK, WorkTypeOK
    <3> QED
      BY <1>2, <3>1, <3>2 DEF Reading, EntriesUnique, Unique, Having, entry
  <2> QED
    BY <1>1, <2>1, <2>2, DeadStays
<1>3. CASE Aside
  <2>1. pc # "idle" /\ pc' = pc
    BY <1>3 DEF Aside, workVars
  <2>2. ~Stale /\ cur' = cur /\ work' = work
    BY <1>3, <2>1, StillCurrent DEF SoundInv
  <2> QED
    BY <1>2, <2>1, <2>2
<1>4. CASE Ended
  BY <1>4 DEF Ended
<1>5. ASSUME NEW q \in PPIs, Started(q)
      PROVE  Dead(p, n)'
  <2>1. /\ cur' = q /\ store' = store /\ work'.rv = cache[q].rv
    BY <1>5, StartedFrom
  <2>2. cache[q] = store[q] /\ q = p
    BY <2>1 DEF Stale, SoundInv, CacheVersions
  <2>3. work'.ns = cache[q].ns
    BY <1>5, StartedNs DEF Having
  <2>4. Dead(p, n)
    BY <2>2, <2>3 DEF Failing, FailedDead
  <2>5. UNCHANGED <<jobs, pulled>>
    BY <1>5 DEF Started, AddFinalizer, handlePending, handleInProgress, handleDeletion,
       handleCompleted, Begin, clusterVars
  <2> QED
    BY <2>4, <2>5 DEF Dead, JobOf
<1>6. CASE NodeAction
  <2>1. PICK status, retry, counter, again : NextNode(status, retry, counter, again)
    BY <1>6, NodeMoves
  <2>2. /\ pc = "nodes" /\ idx <= Len(work.ns) /\ UNCHANGED <<pc, cur, store>>
    BY <1>6, NodeMoves
  <2>3. /\ idx \in DOMAIN work.ns /\ DOMAIN work'.ns = DOMAIN work.ns
        /\ \A k \in DOMAIN work.ns \ {idx} : work'.ns[k] = work.ns[k]
        /\ work'.ns[idx] = [node |-> entry.node, status |-> status, retry |-> retry]
        /\ work'.rv = work.rv /\ work'.del = work.del
    BY <2>1, <2>2, EntryRewritten, Zenon
  <2>4. ~Stale /\ ~work.del /\ cur = p /\ i \in DOMAIN work.ns /\ work'.ns[i].status = "Failed"
    BY <2>2, <2>3 DEF Stale, Having
  <2>5. CASE i # idx
    BY <1>2, <2>2, <2>3, <2>4, <2>5 DEF Having
  <2>6. CASE i = idx /\ ~PullExhausted
    <3>1. entry.status = "Failed" /\ entry.node = n
      BY <1>6, <2>3, <2>4, <2>6, GivenUpBy
    <3> QED
      BY <1>2, <2>2, <2>3, <2>4, <2>6, <3>1 DEF Having, entry
  <2>7. CASE i = idx /\ PullExhausted
    <3>1. /\ checkJobStatus(jobName) = "Failed" /\ entry.status = "Pulling" /\ entry.node = n
          /\ UNCHANGED <<jobs, pulled>>
      BY <2>3, <2>7 DEF PullExhausted, Checked, AtNode, NextNode
    <3>2. ~HasSucceeded(p, n) /\ (JobOf(p, n) # NoJob => JobOf(p, n).failed > 0)
      BY <2>2, <2>4, <3>1, SeenFailed, SeenFailedIsDead DEF ResultsRead
    <3>3. Halfway /\ ~store[p].del
      BY <2>2, <2>4 DEF SoundInv, WorkSound, Reading, WorkFlag
    <3>4. idx \in DOMAIN store[p].ns /\ store[p].ns[idx] = entry
      BY <2>3, <2>4, <3>3 DEF Halfway, entry, TypeOK, WorkTypeOK
    <3>5. <<p, n, "Succeeded">> \notin pulled
      BY <1>1, <3>1, <3>2, <3>3, <3>4 DEF Failing, AwaitedKept
    <3> QED
      BY <3>1, <3>2, <3>5 DEF Dead, JobOf
  <2> QED
    BY <2>5, <2>6, <2>7
<1>7. CASE InBetween
  <2>1. cur' = cur /\ work'.rv = work.rv /\ work'.del = work.del /\ work'.ns = work.ns
        /\ store' = store /\ pc # "idle"
    BY <1>7, InBetweenKeeps
  <2>2. CASE FinishNodes
    BY <1>2, <2>1, <2>2 DEF FinishNodes, Stale
  <2>3. CASE CleanupEnds
    BY <2>1, <2>3 DEF CleanupEnds, SoundInv, WorkShape
  <2>4. CASE ReleaseNode \/ ListJobs \/ CleanupJob
    BY <2>4 DEF ReleaseNode, ListJobs, CleanupJob
  <2> QED
    BY <1>7, <2>2, <2>3, <2>4 DEF InBetween
<1> QED
  BY <1>3, <1>4, <1>5, <1>6, <1>7, WorkCases

-----------------------------------------------------------------------------
LEMMA FailingInit ==
  ASSUME Init
  PROVE  Reading /\ Failing
<1>1. /\ \A p \in PPIs : store[p] = Absent(0, 0) /\ cache[p] = Absent(0, 0)
      /\ pc = "idle" /\ pulled = {}
      /\ \A j \in JobNames : jobs[j] = NoJob
  BY DEF Init
<1>2. /\ Absent(0, 0).ns = <<>> /\ Absent(0, 0).uid = 0 /\ ~Absent(0, 0).exists
      /\ ~Absent(0, 0).fin /\ ~Absent(0, 0).del
  BY NewFields
<1>3. Unique(<<>>) /\ (\A status : Having(<<>>, status) = {})
  BY DEF Unique, Having
<1>4. EntriesUnique /\ AllLived /\ WorkFlag /\ (\A p \in PPIs : CacheTold(p)) /\ WorkTold
  BY <1>1, <1>2, <1>3 DEF EntriesUnique, AllLived, Lived, WorkFlag, CacheTold, WorkTold
<1>5. BlankClean
  BY <1>1 DEF BlankClean, JobOf, JobNames
<1>6. AwaitedKept /\ FailedDead /\ WorkDead
  BY <1>1, <1>2, <1>3 DEF AwaitedKept, FailedDead, WorkDead
<1> QED
  BY <1>4, <1>5, <1>6 DEF Reading, Failing

(* While finished Jobs are read before their TTL removes them, no status calls
   a node Failed on which a Job has succeeded, however late the PrePullImages are
   read and whatever crashes, failed calls, conflicts, edits and deletions come
   in between: PullExhausted gives a pull up only after its Job has failed for
   good, and startPullJob creates none for a node that was given up. *)
THEOREM FailedIsNotSucceeded ==
  ASSUME ResultsRead, OneLife, NamedOnce
  PROVE  Spec => []FailedMeansNotSucceeded
<1> DEFINE Inv == /\ TypeOK /\ SoundInv /\ JobsHonest /\ TodoOwn
                  /\ Reading /\ Failing
<1>1. Init => Inv
  BY InitType, SoundInit, FailingInit DEF Init, JobsHonest, JobOK, TodoOwn
<1>2. Inv /\ [Next]_vars => Inv'
  <2> SUFFICES ASSUME Inv, [Next]_vars
               PROVE  Inv'
    OBVIOUS
  <2>1. TypeOK' /\ SoundInv' /\ JobsHonest' /\ TodoOwn'
    BY NextType, SoundNext, JobsStayHonest, TodoStaysOwn
  <2>2. Reading'
    BY ReadingKept
  <2>3. BlankClean'
    BY BlankCleanKept DEF Failing
  <2>4. AwaitedKept' /\ FailedDead' /\ WorkDead'
    BY AwaitedStays, FailedStaysDead, WorkStaysDead
  <2> QED
    BY <2>1, <2>2, <2>3, <2>4 DEF Failing
<1>3. Inv => FailedMeansNotSucceeded
  BY DEF Failing, FailedDead, Dead, FailedMeansNotSucceeded
<1> QED
  BY <1>1, <1>2, <1>3, PTL DEF Spec
=============================================================================
