------------------------------ MODULE PrePullImage -----------------------------
(***************************************************************************)
(* The PrePullImage controller                                             *)
(* (internal/controller/prepullimage_controller.go) with what it acts on:  *)
(* the API server's PrePullImages and pull Jobs, the informer caches it    *)
(* reads them from, its workqueue, the rate limiter and the active-pulls   *)
(* gauge.                                                                  *)
(*                                                                         *)
(* controller-runtime runs one worker per controller, so reconciles of     *)
(* PrePullImages never overlap.  They interleave with everything else: a   *)
(* reconcile is a sequence of steps, one per API call, and users, the Job  *)
(* controller, the informers and a crash of the manager come in between.   *)
(***************************************************************************)
EXTENDS PullJob, FiniteSets, SequencesExt

CONSTANTS
  PPIs,           \* PrePullImage objects, as namespace/name keys
  Nodes,          \* cluster nodes
  maxConcurrent,  \* flag --max-concurrent-pulls
  maxPerNode,     \* flag --max-pulls-per-node
  Name,           \* [PPIs -> PPIName]: metadata.name, without the namespace
  NodeNames,      \* [PPIs -> Seq(Nodes)]: spec.nodes.names
  Matching,       \* [PPIs -> SUBSET Nodes]: matched by spec.nodes.selector
  MaxAttempts,    \* [PPIs -> Nat]: spec.retry.maxAttempts
  NoPPI,          \* the worker is idle
  \* The environment.
  PPILag,         \* may a reconcile read a PrePullImage the cache has late?
  JobLag,         \* ... a Job the cache has late?
  ReadInTime,     \* is a Job's end read before its TTL removes it?
  UserDeletes,    \* the PrePullImages users delete
  \* Bounds.
  MaxCreates,     \* times one PrePullImage is created
  MaxEdits,       \* metadata edits by users
  MaxFaults,      \* API calls that fail on their own
  MaxRestarts,    \* crashes of the manager
  GaugeBound      \* the gauge saturates at -GaugeBound

ASSUME ConstantsOK ==
  /\ IsFiniteSet(PPIs) /\ IsFiniteSet(Nodes) /\ NoPPI \notin PPIs
  /\ maxConcurrent \in Int /\ maxPerNode \in Int
  /\ NodeNames \in [PPIs -> Seq(Nodes)]
  /\ Matching \in [PPIs -> SUBSET Nodes]
  /\ MaxAttempts \in [PPIs -> Nat]
  /\ {PPILag, JobLag, ReadInTime} \subseteq BOOLEAN /\ UserDeletes \subseteq PPIs
  /\ {MaxCreates, MaxEdits, MaxFaults, MaxRestarts, GaugeBound} \subseteq Nat

VARIABLES
  \* The cluster.
  store,     \* PrePullImages in the API server
  jobs,      \* pull Jobs in the API server
  pulled,    \* <<p, n, end>>: a pod of p's Job has pulled p's image on node n
             \* and the Job then ended "Succeeded" or "Failed"
  aged,      \* <<p, uid>>: CompletedTTL has passed since the CompletionTime
  \* The manager process.
  cache,     \* the PrePullImage informer's copy of store
  jobCache,  \* the Job informer's copy of jobs
  queue,     \* workqueue: keys ready to be reconciled
  timer,     \* workqueue: keys added with a delay
  currentPulls, nodeCurrentPulls,  \* the rate limiter
  activePulls,                     \* gauge kwarm_active_pulls
  \* The reconcile in progress.
  pc,        \* where it is
  cur,       \* the key it works on
  work,      \* its copy of the object (variable ppi)
  idx,       \* loop index over NodeStatus
  tally,     \* the counters pending, pulling, completed, failed
  requeue,   \* needsRequeue, or Requeue of the result to return
  touched,   \* it has taken or released a slot
  todo,      \* jobs CleanupJobsForPrePullImage has still to delete
  \* What the environment has done.
  edits, faults, restarts,
  lost       \* a reconcile that touched the limiter was not persisted

clusterVars == <<store, jobs, pulled, aged>>
queueVars   == <<queue, timer>>
limitVars   == <<currentPulls, nodeCurrentPulls, activePulls>>
workVars    == <<pc, cur, work, idx, tally, requeue, touched, todo>>
envVars     == <<edits, faults, restarts, lost>>
vars == <<clusterVars, cache, jobCache, queueVars, limitVars, workVars, envVars>>

Limiter == INSTANCE RateLimiter

-----------------------------------------------------------------------------
(* PrePullImage objects.  An empty phase is handled like "Pending".
   done: CompletionTime is set.  rv: resourceVersion.  An absent object keeps
   the uid and rv of its last life. *)
Phases         == {"Pending", "InProgress", "Completed", "Failed"}
NodePullStatus == {"Pending", "Pulling", "Completed", "Failed"}
NodeStatus     == [node : Nodes, status : NodePullStatus, retry : Nat]
PullSummary    == [total : Nat, pending : Nat, pulling : Nat,
                   completed : Nat, failed : Nat]
Object == [exists : BOOLEAN, uid : Nat, rv : Nat, fin : BOOLEAN, del : BOOLEAN,
           phase : Phases, ns : Seq(NodeStatus), summary : PullSummary,
           done : BOOLEAN]

NoCounts == [total |-> 0, pending |-> 0, pulling |-> 0,
             completed |-> 0, failed |-> 0]
Fresh(uid, rv) ==
  [exists |-> TRUE, uid |-> uid, rv |-> rv, fin |-> FALSE, del |-> FALSE,
   phase |-> "Pending", ns |-> <<>>, summary |-> NoCounts, done |-> FALSE]
Absent(uid, rv) == [Fresh(uid, rv) EXCEPT !.exists = FALSE]

JobNames == {GenerateJobName(Name[p], n) : p \in PPIs, n \in Nodes}
Job == [owner : PPIs, node : Nodes,
        active : 0..1, succeeded : 0..1, failed : 0..1]
ASSUME NoJobIsNone == NoJob \notin Job
ASSUME NoPPIIsNone == NoPPI \notin [phase : Phases, ns : Seq(NodeStatus)]

Init ==
  /\ store = [p \in PPIs |-> Absent(0, 0)]
  /\ jobs = [j \in JobNames |-> NoJob]
  /\ pulled = {} /\ aged = {}
  /\ cache = store /\ jobCache = jobs
  /\ queue = {} /\ timer = {}
  /\ Limiter!NewRateLimiter /\ activePulls = 0
  /\ pc = "idle" /\ cur = NoPPI /\ work = Absent(0, 0) /\ idx = 0
  /\ tally = NoCounts /\ requeue = FALSE /\ touched = FALSE /\ todo = {}
  /\ edits = 0 /\ faults = 0 /\ restarts = 0 /\ lost = FALSE

-----------------------------------------------------------------------------
(* The API server (external): a write carries the resourceVersion it was read
   at and is rejected when the object has moved on; a write that changes
   nothing keeps the resourceVersion; an object marked deleted goes away with
   its last finalizer. *)
Bumped(obj) == [obj EXCEPT !.rv = @ + 1]

Persist(p, obj) ==
  store' = [store EXCEPT ![p] =
    IF obj.del /\ ~obj.fin THEN Absent(@.uid, @.rv + 1)
    ELSE IF obj = @ THEN @
    ELSE Bumped(obj)]

DeleteObject(p) ==
  store' = [store EXCEPT ![p] =
    IF ~@.fin THEN Absent(@.uid, @.rv + 1)
    ELSE IF @.del THEN @
    ELSE Bumped([@ EXCEPT !.del = TRUE])]

CanWrite_MergePatch == store[cur].exists

CanWrite == store[cur].exists /\ store[cur].rv = work.rv

Fault == faults < MaxFaults /\ faults' = faults + 1

(* Gauge updates of internal/metrics; the gauge may go below zero. *)
IncrementActivePulls == activePulls' = activePulls + 1
DecrementActivePulls_Missing == UNCHANGED activePulls

DecrementActivePulls ==
  activePulls' = IF activePulls > -GaugeBound THEN activePulls - 1
                                              ELSE activePulls

-----------------------------------------------------------------------------
(* A reconcile begins: the worker takes a key from the queue and reads the
   object from the cache. *)
Take(p) ==
  /\ pc = "idle" /\ p \in queue
  /\ PPILag \/ cache[p] = store[p]
  /\ queue' = queue \ {p}

Begin(p, step, obj, again) ==
  /\ pc' = step /\ cur' = p /\ work' = obj /\ idx' = 1 /\ requeue' = again
  /\ UNCHANGED <<tally, touched, todo, timer, clusterVars, cache, jobCache,
                 limitVars, envVars>>

(* Reconcile returns: an error, Requeue and RequeueAfter all put the key back
   after a delay. *)
Return(again) ==
  /\ pc' = "idle" /\ cur' = NoPPI /\ work' = Absent(0, 0) /\ idx' = 0
  /\ tally' = NoCounts /\ requeue' = FALSE /\ touched' = FALSE /\ todo' = {}
  /\ timer' = IF again THEN timer \cup {cur} ELSE timer

(* Nothing to do: not found, or deleted and already without finalizer. *)
ReconcileGone(p) ==
  /\ Take(p)
  /\ ~cache[p].exists \/ (cache[p].del /\ ~cache[p].fin)
  /\ UNCHANGED <<timer, clusterVars, cache, jobCache, limitVars, workVars,
                 envVars>>

(* Reading the object or listing the nodes fails. *)
ReconcileReadFails(p) ==
  /\ Take(p) /\ Fault
  /\ timer' = timer \cup {p}
  /\ UNCHANGED <<clusterVars, cache, jobCache, limitVars, workVars,
                 edits, restarts, lost>>

Live(obj) == obj.exists /\ ~obj.del

AddFinalizer(p) ==
  /\ Take(p) /\ Live(cache[p]) /\ ~cache[p].fin
  /\ Begin(p, "update", [cache[p] EXCEPT !.fin = TRUE], TRUE)

(* getTargetNodes: the names listed, else the selected nodes that are ready
   and schedulable now, in the order the cache happens to list them. *)
getTargetNodes(p) ==
  IF NodeNames[p] # <<>> THEN {NodeNames[p]}
  ELSE SetToAllKPermutations(Matching[p])

(* No target nodes: Completed at once, and no CompletionTime. *)
Initialized(obj, targets) ==
  IF targets = <<>> THEN [obj EXCEPT !.phase = "Completed"]
  ELSE [obj EXCEPT
         !.phase = "InProgress",
         !.ns = [i \in DOMAIN targets |->
                  [node |-> targets[i], status |-> "Pending", retry |-> 0]],
         !.summary = [NoCounts EXCEPT !.total = Len(targets),
                                      !.pending = Len(targets)]]

handlePending(p) ==
  /\ Take(p) /\ Live(cache[p]) /\ cache[p].fin /\ cache[p].phase = "Pending"
  /\ \E targets \in getTargetNodes(p) :
       Begin(p, "update", Initialized(cache[p], targets), targets # <<>>)

handleInProgress(p) ==
  /\ Take(p) /\ Live(cache[p]) /\ cache[p].fin
  /\ cache[p].phase = "InProgress"
  /\ Begin(p, "nodes", cache[p], FALSE)

(* handleCompleted and handleFailed: wait for the TTL, then delete. *)
Expired(p) == cache[p].done /\ <<p, cache[p].uid>> \in aged

handleCompleted_MarkedToo(p) ==
  /\ Take(p) /\ cache[p].exists /\ cache[p].fin
  /\ cache[p].phase \in {"Completed", "Failed"}
  /\ IF Expired(p)
     THEN Begin(p, "ttlDelete", cache[p], FALSE)
     ELSE /\ timer' = timer \cup {p}
          /\ UNCHANGED <<clusterVars, cache, jobCache, limitVars, workVars,
                         envVars>>

handleCompleted(p) ==
  /\ Take(p) /\ Live(cache[p]) /\ cache[p].fin
  /\ cache[p].phase \in {"Completed", "Failed"}
  /\ IF Expired(p)
     THEN Begin(p, "ttlDelete", cache[p], FALSE)
     ELSE /\ timer' = timer \cup {p}
          /\ UNCHANGED <<clusterVars, cache, jobCache, limitVars, workVars,
                         envVars>>

handleDeletion(p) ==
  /\ Take(p) /\ cache[p].exists /\ cache[p].del /\ cache[p].fin
  /\ Begin(p, "release", cache[p], FALSE)

-----------------------------------------------------------------------------
(* handleInProgress, one iteration of the loop over NodeStatus per step. *)
entry   == work.ns[idx]
jobName == GenerateJobName(Name[cur], entry.node)

AtNode(status) ==
  /\ pc = "nodes" /\ idx <= Len(work.ns)
  /\ entry.status = status

NextNode(status, retry, counter, again) ==
  /\ work' = [work EXCEPT !.ns[idx].status = status, !.ns[idx].retry = retry]
  /\ tally' = [tally EXCEPT ![counter] = @ + 1]
  /\ idx' = idx + 1
  /\ requeue' = (requeue \/ again)
  /\ UNCHANGED <<pc, cur, todo, queueVars, store, pulled, aged, cache,
                 jobCache, edits, restarts, lost>>

(* startPullJob: a Job that already exists is adopted as it is. *)
CreateJob(name, job) ==
  jobs' = IF jobs[name] = NoJob THEN [jobs EXCEPT ![name] = job] ELSE jobs

DeleteJob(name) == jobs' = [jobs EXCEPT ![name] = NoJob]

startPullJob ==
  /\ AtNode("Pending")
  /\ Accepted(Name[cur], jobName)
  /\ Limiter!TryAcquire(entry.node)
  /\ CreateJob(jobName, NewJob(cur, entry.node))
  /\ IncrementActivePulls
  /\ touched' = TRUE
  /\ NextNode("Pulling", entry.retry, "pulling", FALSE)
  /\ UNCHANGED faults

(* The slot is acquired, the Create fails - rejected by validation, or an error
   after which the Job may exist all the same - and the slot is released. *)
startPullJobFails ==
  /\ AtNode("Pending")
  /\ Limiter!HasFreeSlot(entry.node)
  /\ \/ ~Accepted(Name[cur], jobName) /\ UNCHANGED <<jobs, faults>>
     \/ /\ Accepted(Name[cur], jobName) /\ Fault
        /\ UNCHANGED jobs \/ CreateJob(jobName, NewJob(cur, entry.node))
  /\ NextNode("Pending", entry.retry, "pending", TRUE)
  /\ UNCHANGED <<touched, limitVars>>

RateLimited_NotPending ==
  /\ AtNode("Pending")
  /\ ~Limiter!HasFreeSlot(entry.node)
  /\ NextNode("Pending", entry.retry, "total", TRUE)
  /\ UNCHANGED <<touched, limitVars, jobs, faults>>

RateLimited_NoRequeue ==
  /\ AtNode("Pending")
  /\ ~Limiter!HasFreeSlot(entry.node)
  /\ NextNode("Pending", entry.retry, "pending", FALSE)
  /\ UNCHANGED <<touched, limitVars, jobs, faults>>

RateLimited ==
  /\ AtNode("Pending")
  /\ ~Limiter!HasFreeSlot(entry.node)
  /\ NextNode("Pending", entry.retry, "pending", TRUE)
  /\ UNCHANGED <<touched, limitVars, jobs, faults>>

(* The Jobs as the manager reads them: through the informer's cache, which
   JobLag = FALSE makes so prompt that it need not be told from the store. *)
seenJobs == IF JobLag THEN jobCache ELSE jobs

(* checkJobStatus: a Job the cache does not have counts as failed. *)
checkJobStatus_NotActiveFailed(name) ==
  IF seenJobs[name] = NoJob \/ seenJobs[name].active = 0 THEN "Failed"
  ELSE GetJobStatus(seenJobs[name])

checkJobStatus(name) ==
  IF seenJobs[name] = NoJob THEN "Failed" ELSE GetJobStatus(seenJobs[name])

Checked(statuses) ==
  /\ AtNode("Pulling")
  /\ checkJobStatus(jobName) \in statuses

ReleaseSlot ==
  /\ Limiter!Release(entry.node)
  /\ DecrementActivePulls
  /\ touched' = TRUE

PullSucceeded_KeepsSlot ==
  /\ Checked({"Succeeded"})
  /\ NextNode("Completed", entry.retry, "completed", FALSE)
  /\ UNCHANGED <<jobs, faults, touched, limitVars>>

PullSucceeded ==
  /\ Checked({"Succeeded"})
  /\ ReleaseSlot
  /\ NextNode("Completed", entry.retry, "completed", FALSE)
  /\ UNCHANGED <<jobs, faults>>

(* The failed Job is deleted; an error of that delete is only logged. *)
PullRetried_NotCounted ==
  /\ Checked({"Failed"})
  /\ entry.retry < MaxAttempts[cur]
  /\ DeleteJob(jobName) /\ UNCHANGED faults
  /\ ReleaseSlot
  /\ NextNode("Pending", entry.retry, "pending", TRUE)

PullRetried ==
  /\ Checked({"Failed"})
  /\ entry.retry < MaxAttempts[cur]
  /\ \/ DeleteJob(jobName) /\ UNCHANGED faults
     \/ Fault /\ UNCHANGED jobs
  /\ ReleaseSlot
  /\ NextNode("Pending", entry.retry + 1, "pending", TRUE)

PullExhausted_KeepsSlot ==
  /\ Checked({"Failed"})
  /\ entry.retry >= MaxAttempts[cur]
  /\ NextNode("Failed", entry.retry, "failed", FALSE)
  /\ UNCHANGED <<jobs, faults, touched, limitVars>>

PullExhausted ==
  /\ Checked({"Failed"})
  /\ entry.retry >= MaxAttempts[cur]
  /\ ReleaseSlot
  /\ NextNode("Failed", entry.retry, "failed", FALSE)
  /\ UNCHANGED <<jobs, faults>>

PullRunning_NoRequeue ==
  /\ Checked({"Pending", "Running"}) /\ UNCHANGED faults
  /\ NextNode("Pulling", entry.retry, "pulling", FALSE)
  /\ UNCHANGED <<touched, limitVars, jobs>>

PullRunning ==
  /\ \/ Checked({"Pending", "Running"}) /\ UNCHANGED faults
     \/ AtNode("Pulling") /\ Fault           \* checkJobStatus returns an error
  /\ NextNode("Pulling", entry.retry, "pulling", TRUE)
  /\ UNCHANGED <<touched, limitVars, jobs>>

NodeDone ==
  /\ \/ AtNode("Completed") /\ NextNode("Completed", entry.retry, "completed", FALSE)
     \/ AtNode("Failed") /\ NextNode("Failed", entry.retry, "failed", FALSE)
  /\ UNCHANGED <<touched, limitVars, jobs, faults>>

(* After the loop: the summary, and the phase once no node is left. *)
PhaseAfter(counts) ==
  IF counts.pending > 0 \/ counts.pulling > 0 THEN "InProgress"
  ELSE IF counts.failed > 0 THEN "Failed"
  ELSE "Completed"

FinishNodes_NoCompletionTime ==
  /\ pc = "nodes" /\ idx > Len(work.ns)
  /\ pc' = "update"
  /\ work' = [work EXCEPT !.summary = [tally EXCEPT !.total = Len(work.ns)],
                          !.phase = PhaseAfter(tally)]
  /\ UNCHANGED <<cur, idx, tally, requeue, touched, todo, clusterVars, cache,
                 jobCache, queueVars, limitVars, envVars>>

FinishNodes ==
  /\ pc = "nodes" /\ idx > Len(work.ns)
  /\ pc' = "update"
  /\ work' = [work EXCEPT !.summary = [tally EXCEPT !.total = Len(work.ns)],
                          !.phase = PhaseAfter(tally),
                          !.done = @ \/ PhaseAfter(tally) # "InProgress"]
  /\ UNCHANGED <<cur, idx, tally, requeue, touched, todo, clusterVars, cache,
                 jobCache, queueVars, limitVars, envVars>>

-----------------------------------------------------------------------------
(* The write that ends a reconcile: Status().Update, or Update for a
   finalizer.  Any error is returned and the reconcile is retried. *)
UpdateWritten ==
  /\ pc = "update" /\ CanWrite
  /\ Persist(cur, work)
  /\ Return(requeue)
  /\ UNCHANGED <<jobs, pulled, aged, cache, jobCache, queue, limitVars, envVars>>

UpdateRejected ==
  /\ pc = "update" /\ ~CanWrite
  /\ lost' = (lost \/ touched)
  /\ Return(TRUE)
  /\ UNCHANGED <<clusterVars, cache, jobCache, queue, limitVars,
                 edits, faults, restarts>>

(* The call fails on its own, with or without having taken effect. *)
UpdateFails ==
  /\ pc = "update" /\ CanWrite /\ Fault
  /\ \/ UNCHANGED store /\ lost' = (lost \/ touched)
     \/ Persist(cur, work) /\ UNCHANGED lost
  /\ Return(TRUE)
  /\ UNCHANGED <<jobs, pulled, aged, cache, jobCache, queue, limitVars,
                 edits, restarts>>

(* handleCompleted deletes by name: the call carries neither resourceVersion nor
   uid.  The object is still there, as only this worker takes the finalizer off
   (DeletesOnlyDone). *)
TTLDelete ==
  /\ pc = "ttlDelete"
  /\ \/ DeleteObject(cur) /\ Return(FALSE) /\ UNCHANGED faults
     \/ /\ Fault /\ Return(TRUE)
        /\ UNCHANGED store \/ DeleteObject(cur)
  /\ UNCHANGED <<jobs, pulled, aged, cache, jobCache, queue, limitVars,
                 edits, restarts, lost>>

-----------------------------------------------------------------------------
(* handleDeletion: release the slots of the nodes still pulling, ... *)
ReleaseNode_EveryNode ==
  /\ pc = "release" /\ idx <= Len(work.ns)
  /\ ReleaseSlot
  /\ idx' = idx + 1
  /\ UNCHANGED <<pc, cur, work, tally, requeue, todo, clusterVars, cache,
                 jobCache, queueVars, envVars>>

ReleaseNode ==
  /\ pc = "release" /\ idx <= Len(work.ns)
  /\ IF entry.status = "Pulling" THEN ReleaseSlot
                                 ELSE UNCHANGED <<limitVars, touched>>
  /\ idx' = idx + 1
  /\ UNCHANGED <<pc, cur, work, tally, requeue, todo, clusterVars, cache,
                 jobCache, queueVars, envVars>>

(* ... list the Jobs labelled with this PrePullImage's name (the label says
   nothing of its namespace) ... *)
JobsLabelled_ManagedByOnly(name) == {j \in JobNames : seenJobs[j] # NoJob}

JobsLabelled_ActiveOnly(name) ==
  {j \in JobNames : /\ seenJobs[j] # NoJob /\ Name[seenJobs[j].owner] = name
                    /\ seenJobs[j].active > 0}

JobsLabelled(name) ==
  {j \in JobNames : seenJobs[j] # NoJob /\ Name[seenJobs[j].owner] = name}

Finalize == pc' = "update" /\ work' = [work EXCEPT !.fin = FALSE] /\ todo' = {}

ListJobs ==
  /\ pc = "release" /\ idx > Len(work.ns)
  /\ pc' = "cleanup" /\ todo' = JobsLabelled(Name[cur])
  /\ UNCHANGED <<cur, work, idx, tally, requeue, touched, clusterVars, cache,
                 jobCache, queueVars, limitVars, envVars>>

(* ... delete them one by one ... *)
CleanupJob ==
  /\ pc = "cleanup"
  /\ \E j \in todo : /\ jobs[j] # NoJob
                     /\ DeleteJob(j)
                     /\ todo' = todo \ {j}
  /\ UNCHANGED <<pc, cur, work, idx, tally, requeue, touched, store, pulled,
                 aged, cache, jobCache, queueVars, limitVars, envVars>>

(* ... and drop the finalizer: when all are gone, or at the first delete that
   returns an error, NotFound included, which leaves the others behind. *)
CleanupEnds ==
  /\ \/ pc = "cleanup" /\ todo = {} /\ UNCHANGED faults
     \/ pc = "cleanup" /\ (\E j \in todo : jobs[j] = NoJob) /\ UNCHANGED faults
     \/ pc = "cleanup" /\ todo # {} /\ Fault
     \/ pc = "release" /\ idx > Len(work.ns) /\ Fault     \* the List fails
  /\ Finalize
  /\ UNCHANGED <<cur, idx, tally, requeue, touched, clusterVars, cache,
                 jobCache, queueVars, limitVars, edits, restarts, lost>>

-----------------------------------------------------------------------------
(* Users, or the Deployment controller, create and delete PrePullImages. *)
Create(p) ==
  /\ ~store[p].exists /\ store[p].uid < MaxCreates
  /\ store' = [store EXCEPT ![p] = Fresh(@.uid + 1, @.rv + 1)]
  /\ UNCHANGED <<jobs, pulled, aged, cache, jobCache, queueVars, limitVars,
                 workVars, envVars>>

Delete(p) ==
  /\ p \in UserDeletes /\ store[p].exists /\ ~store[p].del
  /\ DeleteObject(p)
  /\ UNCHANGED <<jobs, pulled, aged, cache, jobCache, queueVars, limitVars,
                 workVars, envVars>>

(* An edit of labels or annotations: only the resourceVersion moves. *)
Edit(p) ==
  /\ store[p].exists /\ edits < MaxEdits
  /\ edits' = edits + 1
  /\ store' = [store EXCEPT ![p] = Bumped(@)]
  /\ UNCHANGED <<jobs, pulled, aged, cache, jobCache, queueVars, limitVars,
                 workVars, faults, restarts, lost>>

TTLElapses(p) ==
  /\ store[p].exists /\ store[p].done /\ <<p, store[p].uid>> \notin aged
  /\ aged' = aged \cup {<<p, store[p].uid>>}
  /\ UNCHANGED <<store, jobs, pulled, cache, jobCache, queueVars, limitVars,
                 workVars, envVars>>

(* Informers.  A PrePullImage event queues its key; Owns(Job) watches Jobs too,
   but pull Jobs have no owner reference, so their events queue nothing. *)
SyncPPI(p) ==
  /\ cache[p] # store[p]
  /\ cache' = [cache EXCEPT ![p] = store[p]]
  /\ queue' = queue \cup {p}
  /\ UNCHANGED <<clusterVars, jobCache, timer, limitVars, workVars, envVars>>

SyncJob(j) ==
  /\ JobLag /\ jobCache[j] # jobs[j]
  /\ jobCache' = [jobCache EXCEPT ![j] = jobs[j]]
  /\ UNCHANGED <<clusterVars, cache, queueVars, limitVars, workVars, envVars>>

(* A delayed key becomes ready. *)
TimerFires(p) ==
  /\ p \in timer
  /\ timer' = timer \ {p} /\ queue' = queue \cup {p}
  /\ UNCHANGED <<clusterVars, cache, jobCache, limitVars, workVars, envVars>>

(* The Job controller (external).  A Job succeeds when its pod has pulled the
   image and run the command of CreatePullJob in it.  It fails when the image is
   not pulled before activeDeadlineSeconds, and also when it is pulled but the
   command cannot run (an image without sh) or the deadline still ends the pod.
   A finished Job is removed after ttlSecondsAfterFinished. *)
JobMoves(j) ==
  /\ jobs[j] # NoJob /\ ~Finished(jobs[j])
  /\ \/ /\ jobs[j].active = 0
        /\ jobs' = [jobs EXCEPT ![j].active = 1] /\ UNCHANGED pulled
     \/ /\ jobs[j].active = 1
        /\ jobs' = [jobs EXCEPT ![j].active = 0, ![j].succeeded = 1]
        /\ pulled' = pulled \cup {<<jobs[j].owner, jobs[j].node, "Succeeded">>}
     \/ /\ jobs' = [jobs EXCEPT ![j].active = 0, ![j].failed = 1]
        /\ \/ UNCHANGED pulled
           \/ /\ jobs[j].active = 1
              /\ pulled' = pulled \cup {<<jobs[j].owner, jobs[j].node, "Failed">>}
  /\ UNCHANGED <<store, aged, cache, jobCache, queueVars, limitVars, workVars,
                 envVars>>

(* Some status still waits for the end of this Job.  The controller looks every
   5 seconds and the TTL is 300: with ReadInTime nobody is kept from looking for
   that long. *)
Awaited(j) ==
  \E p \in PPIs : \E i \in DOMAIN store[p].ns :
    /\ GenerateJobName(Name[p], store[p].ns[i].node) = j
    /\ store[p].ns[i].status \in {"Pending", "Pulling"}

JobExpires(j) ==
  /\ jobs[j] # NoJob /\ Finished(jobs[j])
  /\ ReadInTime => ~Awaited(j)
  /\ DeleteJob(j)
  /\ UNCHANGED <<store, pulled, aged, cache, jobCache, queueVars, limitVars,
                 workVars, envVars>>

(* The manager crashes and comes back: limiter, gauge, queue and the reconcile
   in progress are gone; the caches are listed afresh, every object queued. *)
Restart ==
  /\ restarts < MaxRestarts /\ restarts' = restarts + 1
  /\ cache' = store /\ jobCache' = IF JobLag THEN jobs ELSE jobCache
  /\ queue' = {p \in PPIs : store[p].exists} /\ timer' = {}
  /\ currentPulls' = 0 /\ nodeCurrentPulls' = [n \in Nodes |-> 0]
  /\ activePulls' = 0
  /\ pc' = "idle" /\ cur' = NoPPI /\ work' = Absent(0, 0) /\ idx' = 0
  /\ tally' = NoCounts /\ requeue' = FALSE /\ touched' = FALSE /\ todo' = {}
  /\ lost' = TRUE
  /\ UNCHANGED <<clusterVars, edits, faults>>

-----------------------------------------------------------------------------
Reconcile(p) ==
  \/ ReconcileGone(p)     \/ ReconcileReadFails(p) \/ AddFinalizer(p)
  \/ handlePending(p)     \/ handleInProgress(p)
  \/ handleCompleted(p)   \/ handleDeletion(p)

WorkStep ==
  \/ startPullJob   \/ startPullJobFails \/ RateLimited
  \/ PullSucceeded  \/ PullRetried       \/ PullExhausted
  \/ PullRunning    \/ NodeDone          \/ FinishNodes
  \/ UpdateWritten  \/ UpdateRejected    \/ UpdateFails
  \/ TTLDelete      \/ ReleaseNode       \/ ListJobs
  \/ CleanupJob     \/ CleanupEnds

Environment ==
  \/ \E p \in PPIs : \/ Create(p) \/ Delete(p) \/ Edit(p) \/ TTLElapses(p)
                    \/ SyncPPI(p) \/ TimerFires(p)
  \/ \E j \in JobNames : SyncJob(j) \/ JobMoves(j) \/ JobExpires(j)
  \/ Restart

(* The only state in which nothing is left to happen: every PrePullImage has
   had its lives and is gone.  Anywhere else a stop is a deadlock. *)
Quiet ==
  /\ \A p \in PPIs : ~store[p].exists /\ store[p].uid = MaxCreates
  /\ pc = "idle" /\ queue = {} /\ timer = {}
  /\ UNCHANGED vars

Next == (\E p \in PPIs : Reconcile(p)) \/ WorkStep \/ Environment \/ Quiet

Spec == Init /\ [][Next]_vars

(* The worker and the informers keep running, delays end, jobs finish before
   their deadline, TTLs elapse.  The workqueue is first in, first out: a key
   that is ready again and again is taken (strong fairness). *)
Fairness ==
  /\ WF_vars(WorkStep)
  /\ \A p \in PPIs : /\ SF_vars(Reconcile(p))
                     /\ WF_vars(SyncPPI(p)) /\ WF_vars(TimerFires(p))
                     /\ WF_vars(TTLElapses(p))
  /\ \A j \in JobNames : /\ WF_vars(SyncJob(j)) /\ WF_vars(JobMoves(j))
                         /\ WF_vars(JobExpires(j))

FairSpec == Spec /\ Fairness

-----------------------------------------------------------------------------
(* Properties. *)

PCs == {"idle", "nodes", "update", "ttlDelete", "release", "cleanup"}

ClusterTypeOK ==
  /\ store \in [PPIs -> Object]
  /\ jobs \in [JobNames -> Job \cup {NoJob}]
  /\ pulled \subseteq PPIs \X Nodes \X {"Succeeded", "Failed"}
  /\ aged \subseteq PPIs \X Nat

ManagerTypeOK ==
  /\ cache \in [PPIs -> Object]
  /\ jobCache \in [JobNames -> Job \cup {NoJob}]
  /\ queue \subseteq PPIs /\ timer \subseteq PPIs
  /\ Limiter!TypeOK /\ activePulls \in Int

WorkTypeOK ==
  /\ pc \in PCs /\ cur \in PPIs \cup {NoPPI} /\ (pc = "idle" <=> cur = NoPPI)
  /\ work \in Object /\ tally \in PullSummary
  /\ idx \in Nat /\ (pc # "idle" => idx >= 1)
  /\ requeue \in BOOLEAN /\ touched \in BOOLEAN /\ todo \subseteq JobNames

EnvTypeOK ==
  edits \in Nat /\ faults \in Nat /\ restarts \in Nat /\ lost \in BOOLEAN

(* The shape of the state.  The numbers that must not go wrong are the
   limiter's counters: a release of a slot that is not held leaves them
   natural. *)
TypeOK == ClusterTypeOK /\ ManagerTypeOK /\ WorkTypeOK /\ EnvTypeOK

(* What a watcher sees of the objects. *)
View == [p \in PPIs |-> IF store[p].exists
                        THEN [phase |-> store[p].phase, ns |-> store[p].ns]
                        ELSE NoPPI]
Lifecycle == INSTANCE PullLifecycle WITH life <- View, Gone <- NoPPI

(* Through stale caches, conflicts, lost answers, crashes and re-creations the
   objects follow the abstract life cycle: no status ever goes back to what an
   earlier reconcile had read, no retry is granted beyond MaxAttempts, a
   terminal phase is final (handleInProgress and the optimistic lock of
   Status().Update). *)
LifecycleSpec == Lifecycle!Spec

Having(ns, status) == {i \in DOMAIN ns : ns[i].status = status}

(* The summary handleInProgress stores agrees with the node statuses stored
   beside it, whatever mixture of nodes the loop met. *)
SummaryMatchesNodes ==
  \A p \in PPIs : store[p].exists =>
    LET ns == store[p].ns  sum == store[p].summary IN
    /\ sum.total = Len(ns)
    /\ sum.pending = Cardinality(Having(ns, "Pending"))
    /\ sum.pulling = Cardinality(Having(ns, "Pulling"))
    /\ sum.completed = Cardinality(Having(ns, "Completed"))
    /\ sum.failed = Cardinality(Having(ns, "Failed"))

(* A node the status calls Completed has really had the image pulled, by a Job
   of this very PrePullImage on this very node that succeeded - also when the Job
   was adopted (AlreadyExists), retried, or seen through a stale cache. *)
CompletedMeansPulled ==
  \A p \in PPIs : \A i \in Having(store[p].ns, "Completed") :
    <<p, store[p].ns[i].node, "Succeeded">> \in pulled

(* No crash, failed call or retry turns a Job that succeeded into a node the
   status calls Failed, as long as the controller is not kept from reading the
   result until the Job's TTL removes it. *)
FailedMeansNotSucceeded ==
  \A p \in PPIs : \A i \in Having(store[p].ns, "Failed") :
    <<p, store[p].ns[i].node, "Succeeded">> \notin pulled

(* What the documentation promises: once the image is pulled the Job exits
   successfully, so a node called Failed has not had the image pulled. *)
FailedMeansNotPulled ==
  \A p \in PPIs : \A i \in Having(store[p].ns, "Failed") : \A end \in {"Succeeded", "Failed"} :
    <<p, store[p].ns[i].node, end>> \notin pulled

(* The reconcile in progress works on an object that has moved on: its final
   write will be rejected. *)
Stale == pc # "idle" /\ store[cur].rv # work.rv

(* The entries of p that account for a slot: those Pulling in the reconcile's
   own copy while it can still be written, else those Pulling in the API
   server.  handleDeletion gives them up from the first to the last. *)
Working(p) == cur = p /\ ~Stale
Entries(p) == IF Working(p) THEN work.ns ELSE store[p].ns
Held(p) == {i \in Having(Entries(p), "Pulling") : Working(p) /\ work.del => i >= idx}
HeldOn(N) == UNION {{<<p, i>> : i \in {k \in Held(p) : Entries(p)[k].node \in N}} : p \in PPIs}

(* As long as no reconcile that took or released slots has failed to persist
   its result, the limiter counts - for the cluster and for every node - and
   the gauge shows exactly the pulls the statuses record.  No branch of the
   loop, no deletion and no race with a user takes a slot twice or forgets
   one. *)
SlotsMatchPulling ==
  ~lost /\ ~(touched /\ Stale) =>
    /\ currentPulls = Cardinality(HeldOn(Nodes))
    /\ \A n \in Nodes : nodeCurrentPulls[n] = Cardinality(HeldOn({n}))
    /\ activePulls = currentPulls

(* Lost results and restarts drive the gauge and the limiter apart in one
   direction only: kwarm_active_pulls never reports more pulls than the
   limiter has admitted. *)
GaugeWithinLimiter == activePulls <= currentPulls

Unfinished == {j \in JobNames : jobs[j] # NoJob /\ ~Finished(jobs[j])}

(* The purpose of the limiter (flags --max-concurrent-pulls and
   --max-pulls-per-node): at any time at most so many pull Jobs are at work,
   in the cluster and on one node. *)
JobsWithinLimit ==
  /\ Cardinality(Unfinished) <= Limiter!maxConcurrentPulls
  /\ \A n \in Nodes :
       Cardinality({j \in Unfinished : jobs[j].node = n}) <= Limiter!maxPullsPerNode

(* handleDeletion removes no unfinished Job of another PrePullImage. *)
CleanupSparesOthers ==
  [][\A j \in Unfinished : pc = "cleanup" /\ jobs'[j] = NoJob
                             => jobs[j].owner = cur]_vars

(* What the documentation says of retries: a Job fails, and then handleInProgress
   gives the pull up, to retry it or for good; never while the Job is at work.
   It holds only as far as the Jobs are read as they are. *)
RetryOnlyAfterFailure ==
  [][PullRetried \/ PullExhausted => jobName \notin Unfinished]_vars

(* What handleDeletion's finalizer is for: a PrePullImage goes away only after its
   Jobs.  No Job belongs to an object that is gone, and so none is left for the
   next object of that name to adopt, though the TTL controller deletes Jobs and
   the manager crashes while they are being cleaned up. *)
NoJobOutlivesOwner ==
  \A j \in JobNames : jobs[j] # NoJob => store[jobs[j].owner].exists

(* However late its copy is, handleCompleted deletes the object it has read, and
   one that is done: never one that was created again under the same name, though
   the Delete carries no precondition. *)
Terminal(obj) == obj.phase \in {"Completed", "Failed"}
DeletesOnlyDone ==
  pc = "ttlDelete" =>
    /\ store[cur].exists /\ store[cur].fin /\ store[cur].uid = work.uid
    /\ Terminal(store[cur])

(* Every PrePullImage reaches a terminal phase or is deleted: the 5 second
   requeue makes up for the Job events that queue nothing, and a node that is
   rate limited is started in the end. *)
Settles ==
  \A p \in PPIs : store[p].exists ~> (~store[p].exists \/ Terminal(store[p]))

(* A PrePullImage that is Completed or Failed is deleted after the TTL, and one
   marked deleted goes away: no finalizer stays behind. *)
IsCleanedUp ==
  \A p \in PPIs : (store[p].exists /\ (Terminal(store[p]) \/ store[p].del))
                     ~> ~store[p].exists

(* With nothing created any more, all slots come back: those of pulls that
   succeed, fail, are retried or whose PrePullImage is deleted. *)
SlotsReturned == <>[](currentPulls = 0)
=============================================================================
