-------------------------- MODULE PrePullImageProofs --------------------------
(***************************************************************************)
(* Proofs about module PrePullImage, for any number of PrePullImages,      *)
(* nodes, retries, faults, restarts and any limits.                        *)
(***************************************************************************)
EXTENDS PrePullImage, FiniteSetTheorems, TLAPS

-----------------------------------------------------------------------------
(* The types of what the operators of the model build. *)

LEMMA NoCountsType == NoCounts \in PullSummary
BY DEF NoCounts, PullSummary

LEMMA FreshType ==
  ASSUME NEW uid \in Nat, NEW rv \in Nat
  PROVE  Fresh(uid, rv) \in Object /\ Absent(uid, rv) \in Object
<1>1. <<>> \in Seq(NodeStatus)
  OBVIOUS
<1>2. Fresh(uid, rv) \in Object
  BY <1>1, NoCountsType DEF Fresh, Object, Phases
<1>3. [Fresh(uid, rv) EXCEPT !.exists = FALSE] \in Object
  BY <1>2 DEF Object
<1> QED
  BY <1>2, <1>3 DEF Absent

LEMMA ObjectFields ==
  ASSUME NEW obj \in Object
  PROVE  /\ obj.uid \in Nat /\ obj.rv \in Nat
         /\ obj.ns \in Seq(NodeStatus) /\ obj.summary \in PullSummary
         /\ obj.exists \in BOOLEAN /\ obj.fin \in BOOLEAN
         /\ obj.del \in BOOLEAN /\ obj.done \in BOOLEAN
         /\ obj.phase \in Phases
BY DEF Object

(* One field of an object at a time. *)
LEMMA ObjectUpdates ==
  ASSUME NEW obj \in Object
  PROVE  /\ [obj EXCEPT !.fin = TRUE] \in Object
         /\ [obj EXCEPT !.fin = FALSE] \in Object
         /\ [obj EXCEPT !.phase = "Completed"] \in Object
         /\ [obj EXCEPT !.del = TRUE] \in Object
         /\ Bumped(obj) \in Object
<1>1. [obj EXCEPT !.fin = TRUE] \in Object
  BY DEF Object
<1>2. [obj EXCEPT !.fin = FALSE] \in Object
  BY DEF Object
<1>3. [obj EXCEPT !.phase = "Completed"] \in Object
  BY DEF Object, Phases
<1>4. [obj EXCEPT !.del = TRUE] \in Object
  BY DEF Object
<1>5. Bumped(obj) \in Object
  BY DEF Object, Bumped
<1> QED
  BY <1>1, <1>2, <1>3, <1>4, <1>5

(* NextNode writes one entry of NodeStatus. *)
LEMMA EntryUpdate ==
  ASSUME NEW obj \in Object, NEW i \in 1..Len(obj.ns),
         NEW status \in NodePullStatus, NEW retry \in Nat
  PROVE  [obj EXCEPT !.ns[i].status = status, !.ns[i].retry = retry] \in Object
<1> DEFINE new == [obj EXCEPT !.ns[i].status = status, !.ns[i].retry = retry]
           ns1 == [obj.ns EXCEPT ![i].status = status]
           ns2 == [ns1 EXCEPT ![i].retry = retry]
<1>1. obj.ns \in Seq(NodeStatus)
  BY ObjectFields
<1>2. obj.ns[i] \in NodeStatus
  BY <1>1
<1>3. [obj.ns[i] EXCEPT !.status = status] \in NodeStatus
  BY <1>2 DEF NodeStatus
<1>4. ns1 \in Seq(NodeStatus) /\ Len(ns1) = Len(obj.ns) /\ ns1[i] \in NodeStatus
  BY <1>1, <1>3
<1>5. [ns1[i] EXCEPT !.retry = retry] \in NodeStatus
  BY <1>4 DEF NodeStatus
<1>6. ns2 \in Seq(NodeStatus)
  BY <1>4, <1>5
<1>7. new = [obj EXCEPT !.ns = ns2]
  BY DEF Object
<1>8. [obj EXCEPT !.ns = ns2] \in Object
  BY <1>6 DEF Object
<1> QED
  BY <1>7, <1>8

LEMMA TallyUpdate ==
  ASSUME NEW t \in PullSummary,
         NEW counter \in {"total", "pending", "pulling", "completed", "failed"}
  PROVE  [t EXCEPT ![counter] = @ + 1] \in PullSummary
BY DEF PullSummary

LEMMA TargetsType ==
  ASSUME NEW p \in PPIs, NEW targets \in getTargetNodes(p)
  PROVE  targets \in Seq(Nodes)
<1>1. CASE NodeNames[p] # <<>>
  BY <1>1, ConstantsOK DEF getTargetNodes
<1>2. CASE NodeNames[p] = <<>>
  <2>1. PICK S \in SUBSET Matching[p] : targets \in SetToSeqs(S)
    BY <1>2 DEF getTargetNodes, SetToAllKPermutations
  <2>2. S \subseteq Nodes
    BY <2>1, ConstantsOK
  <2>3. Cardinality(S) \in Nat
    BY <2>2, FS_Subset, FS_CardinalityType, ConstantsOK
  <2>4. targets \in [1..Cardinality(S) -> S]
    BY <2>1 DEF SetToSeqs
  <2> QED
    BY <2>2, <2>3, <2>4
<1> QED
  BY <1>1, <1>2

LEMMA CountsType ==
  ASSUME NEW S, NEW s \in Seq(S)
  PROVE  [NoCounts EXCEPT !.total = Len(s), !.pending = Len(s)] \in PullSummary
<1>1. Len(s) \in Nat
  OBVIOUS
<1>2. ASSUME NEW len \in Nat
      PROVE  [NoCounts EXCEPT !.total = len, !.pending = len] \in PullSummary
  BY DEF NoCounts, PullSummary
<1> QED
  BY <1>1, <1>2

LEMMA InitializedType ==
  ASSUME NEW obj \in Object, NEW targets \in Seq(Nodes)
  PROVE  Initialized(obj, targets) \in Object
<1> DEFINE entries == [i \in DOMAIN targets |->
                        [node |-> targets[i], status |-> "Pending", retry |-> 0]]
           counts == [NoCounts EXCEPT !.total = Len(targets), !.pending = Len(targets)]
<1>1. entries \in Seq(NodeStatus)
  <2>1. \A i \in 1..Len(targets) :
          [node |-> targets[i], status |-> "Pending", retry |-> 0] \in NodeStatus
    BY DEF NodeStatus, NodePullStatus
  <2> QED
    BY <2>1
<1>2. counts \in PullSummary
  BY CountsType
<1>3. [obj EXCEPT !.phase = "Completed"] \in Object
  BY ObjectUpdates
<1>4. [obj EXCEPT !.phase = "InProgress", !.ns = entries, !.summary = counts] \in Object
  BY <1>1, <1>2 DEF Object, Phases
<1> QED
  BY <1>3, <1>4 DEF Initialized

(* The API server keeps objects well formed. *)
LEMMA PersistType ==
  ASSUME store \in [PPIs -> Object], NEW p \in PPIs, NEW obj \in Object,
         Persist(p, obj)
  PROVE  store' \in [PPIs -> Object]
<1>1. Absent(store[p].uid, store[p].rv + 1) \in Object
  BY FreshType, ObjectFields
<1>2. Bumped(obj) \in Object
  BY ObjectUpdates
<1> QED
  BY <1>1, <1>2 DEF Persist

LEMMA DeleteObjectType ==
  ASSUME store \in [PPIs -> Object], NEW p \in PPIs, DeleteObject(p)
  PROVE  store' \in [PPIs -> Object]
<1>1. Absent(store[p].uid, store[p].rv + 1) \in Object
  BY FreshType, ObjectFields
<1>2. Bumped([store[p] EXCEPT !.del = TRUE]) \in Object
  BY ObjectUpdates
<1> QED
  BY <1>1, <1>2 DEF DeleteObject

LEMMA LimiterType ==
  ASSUME NEW n \in Nodes, Limiter!TypeOK,
         Limiter!TryAcquire(n) \/ Limiter!Release(n)
  PROVE  Limiter!TypeOK'
BY DEF Limiter!TypeOK, Limiter!TryAcquire, Limiter!Release, Limiter!Decrement

-----------------------------------------------------------------------------
(* The shapes steps have: a reconcile begins, handles a node, returns. *)

LEMMA BeginType ==
  ASSUME TypeOK, NEW p \in PPIs, NEW step \in PCs \ {"idle"}, NEW obj \in Object,
         NEW again \in BOOLEAN, Take(p), Begin(p, step, obj, again)
  PROVE  TypeOK'
<1>1. WorkTypeOK'
  BY ConstantsOK DEF TypeOK, WorkTypeOK, Begin
<1>2. ClusterTypeOK' /\ EnvTypeOK'
  BY DEF TypeOK, ClusterTypeOK, EnvTypeOK, Begin, clusterVars, envVars
<1>3. ManagerTypeOK'
  BY DEF TypeOK, ManagerTypeOK, Limiter!TypeOK, Begin, Take, limitVars
<1> QED
  BY <1>1, <1>2, <1>3 DEF TypeOK

LEMMA ReturnType ==
  ASSUME TypeOK, pc # "idle", NEW again \in BOOLEAN, Return(again)
  PROVE  WorkTypeOK' /\ timer' \subseteq PPIs
<1>1. Absent(0, 0) \in Object
  BY FreshType
<1>2. cur \in PPIs
  BY DEF TypeOK, WorkTypeOK
<1> QED
  BY <1>1, <1>2, NoCountsType DEF TypeOK, WorkTypeOK, ManagerTypeOK, Return, PCs

Counters == {"total", "pending", "pulling", "completed", "failed"}

(* The node the loop is at, and its Job. *)
LEMMA EntryType ==
  ASSUME TypeOK, pc # "idle", idx <= Len(work.ns)
  PROVE  /\ cur \in PPIs /\ idx \in 1..Len(work.ns)
         /\ entry \in NodeStatus /\ entry.node \in Nodes /\ entry.retry \in Nat
         /\ jobName \in JobNames
<1>1. cur \in PPIs /\ work \in Object /\ idx \in Nat /\ idx >= 1
  BY DEF TypeOK, WorkTypeOK
<1>2. work.ns \in Seq(NodeStatus)
  BY <1>1, ObjectFields
<1>3. idx \in 1..Len(work.ns)
  BY <1>1, <1>2
<1>4. entry \in NodeStatus
  BY <1>2, <1>3 DEF entry
<1>5. entry.node \in Nodes /\ entry.retry \in Nat
  BY <1>4 DEF NodeStatus
<1> QED
  BY <1>1, <1>3, <1>4, <1>5 DEF jobName, JobNames

LEMMA NextNodeType ==
  ASSUME TypeOK, pc = "nodes", idx <= Len(work.ns),
         NEW status \in NodePullStatus, NEW retry \in Nat,
         NEW counter \in Counters, NEW again \in BOOLEAN,
         NextNode(status, retry, counter, again),
         jobs' \in [JobNames -> Job \cup {NoJob}],
         Limiter!TypeOK', activePulls' \in Int,
         touched' \in BOOLEAN, faults' \in Nat
  PROVE  TypeOK'
<1>1. work' \in Object
  BY EntryType, EntryUpdate DEF TypeOK, WorkTypeOK, NextNode
<1>2. tally' \in PullSummary
  BY TallyUpdate DEF TypeOK, WorkTypeOK, NextNode, Counters
<1>3. WorkTypeOK'
  BY <1>1, <1>2 DEF TypeOK, WorkTypeOK, NextNode, PCs
<1>4. ClusterTypeOK' /\ EnvTypeOK'
  BY DEF TypeOK, ClusterTypeOK, EnvTypeOK, NextNode
<1>5. ManagerTypeOK'
  BY DEF TypeOK, ManagerTypeOK, NextNode, queueVars
<1> QED
  BY <1>3, <1>4, <1>5 DEF TypeOK

-----------------------------------------------------------------------------
(* Type correctness, one lemma per group of actions. *)

LEMMA ReconcileType ==
  ASSUME TypeOK, NEW p \in PPIs, Reconcile(p)
  PROVE  TypeOK'
<1>1. cache[p] \in Object /\ TRUE \in BOOLEAN /\ FALSE \in BOOLEAN
  BY DEF TypeOK, ManagerTypeOK
<1> DEFINE Elsewhere == UNCHANGED <<clusterVars, cache, jobCache, limitVars, workVars>>
<1>2. ASSUME Take(p), timer' \in {timer, timer \cup {p}}, Elsewhere, EnvTypeOK'
      PROVE  TypeOK'
  BY <1>2 DEF TypeOK, ClusterTypeOK, ManagerTypeOK, WorkTypeOK, Limiter!TypeOK,
              Take, clusterVars, limitVars, workVars
<1>3. CASE ReconcileGone(p)
  <2>1. EnvTypeOK'
    BY <1>3 DEF TypeOK, EnvTypeOK, ReconcileGone, envVars
  <2> QED
    BY <1>2, <1>3, <2>1 DEF ReconcileGone
<1>4. CASE ReconcileReadFails(p)
  <2>1. EnvTypeOK'
    BY <1>4 DEF TypeOK, EnvTypeOK, ReconcileReadFails, Fault
  <2> QED
    BY <1>2, <1>4, <2>1 DEF ReconcileReadFails
<1>5. CASE AddFinalizer(p)
  BY <1>1, <1>5, BeginType, ObjectUpdates DEF AddFinalizer, PCs
<1>6. CASE handlePending(p)
  <2>1. PICK targets \in getTargetNodes(p) :
          Begin(p, "update", Initialized(cache[p], targets), targets # <<>>)
    BY <1>6 DEF handlePending
  <2>2. Initialized(cache[p], targets) \in Object
    BY <1>1, TargetsType, InitializedType
  <2>3. (targets # <<>>) \in BOOLEAN /\ "update" \in PCs \ {"idle"} /\ Take(p)
    BY <1>6 DEF PCs, handlePending
  <2> QED
    BY <2>1, <2>2, <2>3, BeginType
<1>7. CASE handleInProgress(p)
  BY <1>1, <1>7, BeginType DEF handleInProgress, PCs
<1>8. CASE handleCompleted(p)
  <2>1. CASE Expired(p)
    BY <1>1, <1>8, <2>1, BeginType DEF handleCompleted, PCs
  <2>2. CASE ~Expired(p)
    <3>1. EnvTypeOK'
      BY <1>8, <2>2 DEF TypeOK, EnvTypeOK, handleCompleted, envVars
    <3> QED
      BY <1>2, <1>8, <2>2, <3>1 DEF handleCompleted
  <2> QED
    BY <2>1, <2>2
<1>9. CASE handleDeletion(p)
  BY <1>1, <1>9, BeginType DEF handleDeletion, PCs
<1> QED
  BY <1>3, <1>4, <1>5, <1>6, <1>7, <1>8, <1>9 DEF Reconcile

(* What handling a node does to the Jobs, the limiter and the gauge. *)
LEMMA JobWriteType ==
  ASSUME TypeOK, NEW p \in PPIs, NEW n \in Nodes, NEW name \in JobNames
  PROVE  /\ CreateJob(name, NewJob(p, n)) => jobs' \in [JobNames -> Job \cup {NoJob}]
         /\ DeleteJob(name) => jobs' \in [JobNames -> Job \cup {NoJob}]
         /\ UNCHANGED jobs => jobs' \in [JobNames -> Job \cup {NoJob}]
<1>1. NewJob(p, n) \in Job
  BY DEF NewJob, Job
<1> QED
  BY <1>1 DEF TypeOK, ClusterTypeOK, CreateJob, DeleteJob

LEMMA GaugeType ==
  ASSUME TypeOK
  PROVE  /\ IncrementActivePulls => activePulls' \in Int
         /\ DecrementActivePulls => activePulls' \in Int
         /\ UNCHANGED limitVars => Limiter!TypeOK' /\ activePulls' \in Int
BY ConstantsOK DEF TypeOK, ManagerTypeOK, IncrementActivePulls,
   DecrementActivePulls, limitVars, Limiter!TypeOK

LEMMA FaultType ==
  ASSUME TypeOK
  PROVE  /\ Fault => faults' \in Nat
         /\ UNCHANGED faults => faults' \in Nat
         /\ UNCHANGED touched => touched' \in BOOLEAN
BY DEF TypeOK, EnvTypeOK, WorkTypeOK, Fault

LEMMA ReleaseSlotType ==
  ASSUME TypeOK, pc # "idle", idx <= Len(work.ns), ReleaseSlot
  PROVE  Limiter!TypeOK' /\ activePulls' \in Int /\ touched' \in BOOLEAN
<1>1. entry.node \in Nodes
  BY EntryType
<1>2. Limiter!TypeOK
  BY DEF TypeOK, ManagerTypeOK
<1> QED
  BY <1>1, <1>2, LimiterType, GaugeType DEF ReleaseSlot

NodeAction ==
  \/ startPullJob   \/ startPullJobFails \/ RateLimited
  \/ PullSucceeded  \/ PullRetried       \/ PullExhausted
  \/ PullRunning    \/ NodeDone

LEMMA NodeActionType ==
  ASSUME TypeOK, NodeAction
  PROVE  TypeOK'
<1>1. pc = "nodes" /\ pc # "idle" /\ idx <= Len(work.ns)
  BY DEF NodeAction, startPullJob, startPullJobFails, RateLimited, PullSucceeded,
     PullRetried, PullExhausted, PullRunning, NodeDone, Checked, AtNode
<1>2. /\ cur \in PPIs /\ entry.node \in Nodes /\ jobName \in JobNames
      /\ entry.retry \in Nat /\ entry.retry + 1 \in Nat
  BY <1>1, EntryType
<1>3. Limiter!TypeOK
  BY DEF TypeOK, ManagerTypeOK
<1> DEFINE JobsOK == jobs' \in [JobNames -> Job \cup {NoJob}]
           LimitOK == Limiter!TypeOK' /\ activePulls' \in Int
           FlagsOK == touched' \in BOOLEAN /\ faults' \in Nat
<1>4. ASSUME NEW status \in NodePullStatus, NEW retry \in Nat,
             NEW counter \in Counters, NEW again \in BOOLEAN,
             NextNode(status, retry, counter, again), JobsOK, LimitOK, FlagsOK
      PROVE  TypeOK'
  BY <1>1, <1>4, NextNodeType
<1> HIDE DEF JobsOK, LimitOK, FlagsOK
<1>5. /\ {"Pending", "Pulling", "Completed", "Failed"} \subseteq NodePullStatus
      /\ {"pending", "pulling", "completed", "failed"} \subseteq Counters
      /\ TRUE \in BOOLEAN /\ FALSE \in BOOLEAN
  BY DEF NodePullStatus, Counters
<1>6. UNCHANGED jobs => JobsOK
  BY <1>2, JobWriteType DEF JobsOK
<1>7. UNCHANGED limitVars => LimitOK
  BY GaugeType DEF LimitOK
<1>8. ReleaseSlot /\ faults' \in Nat => LimitOK /\ FlagsOK
  BY <1>1, ReleaseSlotType DEF LimitOK, FlagsOK
<1>9. UNCHANGED touched /\ faults' \in Nat => FlagsOK
  BY FaultType DEF FlagsOK
<1>10. CASE startPullJob
  <2>1. JobsOK
    BY <1>2, <1>10, JobWriteType DEF startPullJob, JobsOK
  <2>2. LimitOK
    BY <1>2, <1>3, <1>10, LimiterType, GaugeType DEF startPullJob, LimitOK
  <2>3. FlagsOK
    BY <1>10, FaultType DEF startPullJob, FlagsOK
  <2>4. NextNode("Pulling", entry.retry, "pulling", FALSE)
    BY <1>10 DEF startPullJob
  <2> QED
    BY <1>2, <1>4, <1>5, <2>1, <2>2, <2>3, <2>4
<1>11. CASE startPullJobFails
  <2>1. JobsOK
    BY <1>2, <1>6, <1>11, JobWriteType DEF startPullJobFails, JobsOK
  <2>2. LimitOK /\ FlagsOK
    BY <1>7, <1>9, <1>11, FaultType DEF startPullJobFails
  <2>3. NextNode("Pending", entry.retry, "pending", TRUE)
    BY <1>11 DEF startPullJobFails
  <2> QED
    BY <1>2, <1>4, <1>5, <2>1, <2>2, <2>3
<1>12. CASE RateLimited
  <2>1. JobsOK /\ LimitOK /\ FlagsOK
    BY <1>6, <1>7, <1>9, <1>12, FaultType DEF RateLimited
  <2>2. NextNode("Pending", entry.retry, "pending", TRUE)
    BY <1>12 DEF RateLimited
  <2> QED
    BY <1>2, <1>4, <1>5, <2>1, <2>2
<1>13. CASE PullSucceeded
  <2>1. JobsOK /\ LimitOK /\ FlagsOK
    BY <1>6, <1>8, <1>13, FaultType DEF PullSucceeded
  <2>2. NextNode("Completed", entry.retry, "completed", FALSE)
    BY <1>13 DEF PullSucceeded
  <2> QED
    BY <1>2, <1>4, <1>5, <2>1, <2>2
<1>14. CASE PullRetried
  <2>1. JobsOK
    BY <1>2, <1>6, <1>14, JobWriteType DEF PullRetried, JobsOK
  <2>2. LimitOK /\ FlagsOK
    BY <1>8, <1>14, FaultType DEF PullRetried
  <2>3. NextNode("Pending", entry.retry + 1, "pending", TRUE)
    BY <1>14 DEF PullRetried
  <2> QED
    BY <1>2, <1>4, <1>5, <2>1, <2>2, <2>3
<1>15. CASE PullExhausted
  <2>1. JobsOK /\ LimitOK /\ FlagsOK
    BY <1>6, <1>8, <1>15, FaultType DEF PullExhausted
  <2>2. NextNode("Failed", entry.retry, "failed", FALSE)
    BY <1>15 DEF PullExhausted
  <2> QED
    BY <1>2, <1>4, <1>5, <2>1, <2>2
<1>16. CASE PullRunning
  <2>1. JobsOK /\ LimitOK /\ FlagsOK
    BY <1>6, <1>7, <1>9, <1>16, FaultType DEF PullRunning
  <2>2. NextNode("Pulling", entry.retry, "pulling", TRUE)
    BY <1>16 DEF PullRunning
  <2> QED
    BY <1>2, <1>4, <1>5, <2>1, <2>2
<1>17. CASE NodeDone
  <2>1. JobsOK /\ LimitOK /\ FlagsOK
    BY <1>6, <1>7, <1>9, <1>17, FaultType DEF NodeDone
  <2>2. \/ NextNode("Completed", entry.retry, "completed", FALSE)
        \/ NextNode("Failed", entry.retry, "failed", FALSE)
    BY <1>17 DEF NodeDone
  <2> QED
    BY <1>2, <1>4, <1>5, <2>1, <2>2
<1> QED
  BY <1>10, <1>11, <1>12, <1>13, <1>14, <1>15, <1>16, <1>17 DEF NodeAction

EndAction ==
  \/ FinishNodes \/ UpdateWritten \/ UpdateRejected \/ UpdateFails \/ TTLDelete
  \/ ReleaseNode \/ ListJobs \/ CleanupJob \/ CleanupEnds

LEMMA EndActionType ==
  ASSUME TypeOK, EndAction
  PROVE  TypeOK'
<1>1. pc # "idle" /\ cur \in PPIs /\ work \in Object
  BY DEF TypeOK, WorkTypeOK, EndAction, FinishNodes, UpdateWritten, UpdateRejected,
     UpdateFails, TTLDelete, ReleaseNode, ListJobs, CleanupJob, CleanupEnds
<1>2. ASSUME UNCHANGED <<cache, jobCache, queue, limitVars>>, timer' \subseteq PPIs
      PROVE  ManagerTypeOK'
  BY <1>2 DEF TypeOK, ManagerTypeOK, limitVars, Limiter!TypeOK
<1>3. ASSUME store' \in [PPIs -> Object], UNCHANGED <<jobs, pulled, aged>>
      PROVE  ClusterTypeOK'
  BY <1>3 DEF TypeOK, ClusterTypeOK
<1>4. UNCHANGED store => store' \in [PPIs -> Object]
  BY DEF TypeOK, ClusterTypeOK
<1>5. Persist(cur, work) => store' \in [PPIs -> Object]
  BY <1>1, PersistType DEF TypeOK, ClusterTypeOK
<1>6. ASSUME faults' \in Nat, UNCHANGED <<edits, restarts>>, lost' \in BOOLEAN
      PROVE  EnvTypeOK'
  BY <1>6 DEF TypeOK, EnvTypeOK
<1>7. /\ UNCHANGED lost => lost' \in BOOLEAN
      /\ lost' = (lost \/ touched) => lost' \in BOOLEAN
      /\ requeue \in BOOLEAN /\ TRUE \in BOOLEAN /\ FALSE \in BOOLEAN
  BY DEF TypeOK, EnvTypeOK, WorkTypeOK
<1>8. UNCHANGED timer => timer' \subseteq PPIs
  BY DEF TypeOK, ManagerTypeOK
<1>9. CASE FinishNodes
  <2>1. [work EXCEPT !.summary = [tally EXCEPT !.total = Len(work.ns)],
                     !.phase = PhaseAfter(tally),
                     !.done = @ \/ PhaseAfter(tally) # "InProgress"] \in Object
    <3>1. Len(work.ns) \in Nat /\ tally \in PullSummary
      BY <1>1, ObjectFields DEF TypeOK, WorkTypeOK
    <3>2. [tally EXCEPT !.total = Len(work.ns)] \in PullSummary
      BY <3>1 DEF PullSummary
    <3>3. PhaseAfter(tally) \in Phases
      BY DEF PhaseAfter, Phases
    <3>4. (work.done \/ PhaseAfter(tally) # "InProgress") \in BOOLEAN
      OBVIOUS
    <3> QED
      BY <1>1, <3>2, <3>3, <3>4 DEF Object
  <2>2. WorkTypeOK'
    BY <1>9, <2>1 DEF TypeOK, WorkTypeOK, FinishNodes, PCs
  <2>3. ClusterTypeOK' /\ EnvTypeOK'
    BY <1>9 DEF TypeOK, ClusterTypeOK, EnvTypeOK, FinishNodes, clusterVars, envVars
  <2>4. ManagerTypeOK'
    BY <1>2, <1>8, <1>9 DEF FinishNodes, queueVars
  <2> QED
    BY <2>2, <2>3, <2>4 DEF TypeOK
<1>10. CASE UpdateWritten
  <2>1. WorkTypeOK' /\ timer' \subseteq PPIs
    BY <1>1, <1>7, <1>10, ReturnType DEF UpdateWritten
  <2>2. ManagerTypeOK' /\ ClusterTypeOK'
    BY <1>2, <1>3, <1>5, <1>10, <2>1 DEF UpdateWritten
  <2>3. EnvTypeOK'
    BY <1>10 DEF TypeOK, EnvTypeOK, UpdateWritten, envVars
  <2> QED
    BY <2>1, <2>2, <2>3 DEF TypeOK
<1>11. CASE UpdateRejected
  <2>1. WorkTypeOK' /\ timer' \subseteq PPIs
    BY <1>1, <1>7, <1>11, ReturnType DEF UpdateRejected
  <2>2. ManagerTypeOK' /\ ClusterTypeOK'
    BY <1>2, <1>3, <1>4, <1>11, <2>1 DEF UpdateRejected, clusterVars
  <2>3. EnvTypeOK'
    BY <1>6, <1>7, <1>11, FaultType DEF UpdateRejected
  <2> QED
    BY <2>1, <2>2, <2>3 DEF TypeOK
<1>12. CASE UpdateFails
  <2>1. WorkTypeOK' /\ timer' \subseteq PPIs
    BY <1>1, <1>7, <1>12, ReturnType DEF UpdateFails
  <2>2. ManagerTypeOK' /\ ClusterTypeOK'
    BY <1>2, <1>3, <1>4, <1>5, <1>12, <2>1 DEF UpdateFails
  <2>3. EnvTypeOK'
    BY <1>6, <1>7, <1>12, FaultType DEF UpdateFails
  <2> QED
    BY <2>1, <2>2, <2>3 DEF TypeOK
<1>13. CASE TTLDelete
  <2>1. WorkTypeOK' /\ timer' \subseteq PPIs
    BY <1>1, <1>7, <1>13, ReturnType DEF TTLDelete
  <2>2. DeleteObject(cur) => store' \in [PPIs -> Object]
    BY <1>1, DeleteObjectType DEF TypeOK, ClusterTypeOK
  <2>3. ManagerTypeOK' /\ ClusterTypeOK'
    BY <1>2, <1>3, <1>4, <1>13, <2>1, <2>2 DEF TTLDelete
  <2>4. EnvTypeOK'
    BY <1>6, <1>7, <1>13, FaultType DEF TTLDelete
  <2> QED
    BY <2>1, <2>3, <2>4 DEF TypeOK
<1>14. CASE ReleaseNode
  <2>1. Limiter!TypeOK' /\ activePulls' \in Int /\ touched' \in BOOLEAN
    <3>1. CASE entry.status = "Pulling"
      BY <1>1, <1>14, <3>1, ReleaseSlotType DEF ReleaseNode
    <3>2. CASE entry.status # "Pulling"
      BY <1>14, <3>2, GaugeType, FaultType DEF ReleaseNode
    <3> QED
      BY <3>1, <3>2
  <2>2. WorkTypeOK'
    BY <1>14, <2>1 DEF TypeOK, WorkTypeOK, ReleaseNode
  <2>3. ManagerTypeOK'
    BY <1>14, <2>1 DEF TypeOK, ManagerTypeOK, ReleaseNode, queueVars
  <2>4. ClusterTypeOK' /\ EnvTypeOK'
    BY <1>14 DEF TypeOK, ClusterTypeOK, EnvTypeOK, ReleaseNode, clusterVars, envVars
  <2> QED
    BY <2>2, <2>3, <2>4 DEF TypeOK
<1>15. CASE ListJobs
  <2>1. WorkTypeOK'
    BY <1>15 DEF TypeOK, WorkTypeOK, ListJobs, JobsLabelled, PCs
  <2>2. ManagerTypeOK'
    BY <1>2, <1>8, <1>15 DEF ListJobs, queueVars
  <2>3. ClusterTypeOK' /\ EnvTypeOK'
    BY <1>15 DEF TypeOK, ClusterTypeOK, EnvTypeOK, ListJobs, clusterVars, envVars
  <2> QED
    BY <2>1, <2>2, <2>3 DEF TypeOK
<1>16. CASE CleanupJob
  <2>1. PICK j \in todo : DeleteJob(j) /\ todo' = todo \ {j}
    BY <1>16 DEF CleanupJob
  <2>2. WorkTypeOK'
    BY <1>16, <2>1 DEF TypeOK, WorkTypeOK, CleanupJob
  <2>3. jobs' \in [JobNames -> Job \cup {NoJob}]
    BY <2>1 DEF TypeOK, ClusterTypeOK, DeleteJob
  <2>4. ClusterTypeOK' /\ EnvTypeOK'
    BY <1>16, <2>3 DEF TypeOK, ClusterTypeOK, EnvTypeOK, CleanupJob, envVars
  <2>5. ManagerTypeOK'
    BY <1>2, <1>8, <1>16 DEF CleanupJob, queueVars
  <2> QED
    BY <2>2, <2>4, <2>5 DEF TypeOK
<1>17. CASE CleanupEnds
  <2>1. [work EXCEPT !.fin = FALSE] \in Object
    BY <1>1, ObjectUpdates
  <2>2. WorkTypeOK'
    BY <1>1, <1>17, <2>1 DEF TypeOK, WorkTypeOK, CleanupEnds, Finalize, PCs
  <2>3. ClusterTypeOK'
    BY <1>17 DEF TypeOK, ClusterTypeOK, CleanupEnds, clusterVars
  <2>4. EnvTypeOK'
    BY <1>6, <1>7, <1>17, FaultType DEF CleanupEnds
  <2>5. ManagerTypeOK'
    BY <1>2, <1>8, <1>17 DEF CleanupEnds, queueVars
  <2> QED
    BY <2>2, <2>3, <2>4, <2>5 DEF TypeOK
<1> QED
  BY <1>9, <1>10, <1>11, <1>12, <1>13, <1>14, <1>15, <1>16, <1>17 DEF EndAction

LEMMA JobUpdates ==
  ASSUME NEW job \in Job
  PROVE  /\ [job EXCEPT !.active = 1] \in Job
         /\ [job EXCEPT !.active = 0, !.succeeded = 1] \in Job
         /\ [job EXCEPT !.active = 0, !.failed = 1] \in Job
<1>1. [job EXCEPT !.active = 1] \in Job
  BY DEF Job
<1>2. [job EXCEPT !.active = 0] \in Job
  BY DEF Job
<1>3. ASSUME NEW new \in Job
      PROVE  [new EXCEPT !.succeeded = 1] \in Job /\ [new EXCEPT !.failed = 1] \in Job
  <2>1. [new EXCEPT !.succeeded = 1] \in Job
    BY DEF Job
  <2>2. [new EXCEPT !.failed = 1] \in Job
    BY DEF Job
  <2> QED
    BY <2>1, <2>2
<1> QED
  BY <1>1, <1>2, <1>3

LEMMA EnvironmentType ==
  ASSUME TypeOK, Environment
  PROVE  TypeOK'
<1> DEFINE Cluster == UNCHANGED <<cache, jobCache, queueVars, limitVars, workVars>>
<1>1. ASSUME Cluster, ClusterTypeOK', EnvTypeOK'
      PROVE  TypeOK'
  BY <1>1 DEF TypeOK, ManagerTypeOK, WorkTypeOK, Limiter!TypeOK, queueVars,
              limitVars, workVars
<1>2. UNCHANGED envVars => EnvTypeOK'
  BY DEF TypeOK, EnvTypeOK, envVars
<1>3. ASSUME store' \in [PPIs -> Object], UNCHANGED <<jobs, pulled, aged>>
      PROVE  ClusterTypeOK'
  BY <1>3 DEF TypeOK, ClusterTypeOK
<1>4. store \in [PPIs -> Object]
  BY DEF TypeOK, ClusterTypeOK
<1>5. ASSUME NEW p \in PPIs, Create(p)
      PROVE  TypeOK'
  <2>1. Fresh(store[p].uid + 1, store[p].rv + 1) \in Object
    BY <1>4, ObjectFields, FreshType
  <2>2. store' \in [PPIs -> Object]
    BY <1>4, <1>5, <2>1 DEF Create
  <2> QED
    BY <1>1, <1>2, <1>3, <1>5, <2>2 DEF Create
<1>6. ASSUME NEW p \in PPIs, Delete(p)
      PROVE  TypeOK'
  <2>1. store' \in [PPIs -> Object]
    BY <1>4, <1>6, DeleteObjectType DEF Delete
  <2> QED
    BY <1>1, <1>2, <1>3, <1>6, <2>1 DEF Delete
<1>7. ASSUME NEW p \in PPIs, Edit(p)
      PROVE  TypeOK'
  <2>1. Bumped(store[p]) \in Object
    BY <1>4, ObjectUpdates
  <2>2. store' \in [PPIs -> Object]
    BY <1>4, <1>7, <2>1 DEF Edit
  <2>3. EnvTypeOK'
    BY <1>7 DEF TypeOK, EnvTypeOK, Edit
  <2> QED
    BY <1>1, <1>3, <1>7, <2>2, <2>3 DEF Edit
<1>8. ASSUME NEW p \in PPIs, TTLElapses(p)
      PROVE  TypeOK'
  <2>1. store[p].uid \in Nat
    BY <1>4, ObjectFields
  <2>2. ClusterTypeOK'
    BY <1>8, <2>1 DEF TypeOK, ClusterTypeOK, TTLElapses
  <2> QED
    BY <1>1, <1>2, <1>8, <2>2 DEF TTLElapses
<1>9. ASSUME NEW p \in PPIs, SyncPPI(p) \/ TimerFires(p)
      PROVE  TypeOK'
  <2>1. ClusterTypeOK' /\ EnvTypeOK'
    BY <1>9 DEF TypeOK, ClusterTypeOK, EnvTypeOK, SyncPPI, TimerFires, clusterVars, envVars
  <2>2. WorkTypeOK'
    BY <1>9 DEF TypeOK, WorkTypeOK, SyncPPI, TimerFires, workVars
  <2>3. ManagerTypeOK'
    BY <1>4, <1>9 DEF TypeOK, ManagerTypeOK, Limiter!TypeOK, SyncPPI, TimerFires, limitVars
  <2> QED
    BY <2>1, <2>2, <2>3 DEF TypeOK
<1>10. ASSUME NEW j \in JobNames, SyncJob(j)
       PROVE  TypeOK'
  <2>1. ClusterTypeOK' /\ EnvTypeOK'
    BY <1>10 DEF TypeOK, ClusterTypeOK, EnvTypeOK, SyncJob, clusterVars, envVars
  <2>2. WorkTypeOK'
    BY <1>10 DEF TypeOK, WorkTypeOK, SyncJob, workVars
  <2>3. ManagerTypeOK'
    BY <1>10 DEF TypeOK, ClusterTypeOK, ManagerTypeOK, Limiter!TypeOK, SyncJob,
                 queueVars, limitVars
  <2> QED
    BY <2>1, <2>2, <2>3 DEF TypeOK
<1>11. ASSUME NEW j \in JobNames, JobMoves(j)
       PROVE  TypeOK'
  <2>1. jobs[j] \in Job
    BY <1>11 DEF TypeOK, ClusterTypeOK, JobMoves
  <2>2. jobs[j].owner \in PPIs /\ jobs[j].node \in Nodes
    BY <2>1 DEF Job
  <2>3. /\ [jobs[j] EXCEPT !.active = 1] \in Job
        /\ [jobs[j] EXCEPT !.active = 0, !.succeeded = 1] \in Job
        /\ [jobs[j] EXCEPT !.active = 0, !.failed = 1] \in Job
    BY <2>1, JobUpdates
  <2>4. jobs' \in [JobNames -> Job \cup {NoJob}]
    <3>1. CASE jobs' = [jobs EXCEPT ![j].active = 1]
      BY <2>3, <3>1 DEF TypeOK, ClusterTypeOK
    <3>2. CASE jobs' = [jobs EXCEPT ![j].active = 0, ![j].succeeded = 1]
      BY <2>3, <3>2 DEF TypeOK, ClusterTypeOK
    <3>3. CASE jobs' = [jobs EXCEPT ![j].active = 0, ![j].failed = 1]
      BY <2>3, <3>3 DEF TypeOK, ClusterTypeOK
    <3> QED
      BY <1>11, <3>1, <3>2, <3>3 DEF JobMoves
  <2>5. pulled' \subseteq PPIs \X Nodes \X {"Succeeded", "Failed"}
    BY <1>11, <2>2 DEF TypeOK, ClusterTypeOK, JobMoves
  <2>6. ClusterTypeOK'
    BY <1>11, <2>4, <2>5 DEF TypeOK, ClusterTypeOK, JobMoves
  <2> QED
    BY <1>1, <1>2, <1>11, <2>6 DEF JobMoves
<1>12. ASSUME NEW j \in JobNames, JobExpires(j)
       PROVE  TypeOK'
  <2>1. ClusterTypeOK'
    BY <1>12 DEF TypeOK, ClusterTypeOK, JobExpires, DeleteJob
  <2> QED
    BY <1>1, <1>2, <1>12, <2>1 DEF JobExpires
<1>13. CASE Restart
  <2>1. ClusterTypeOK' /\ EnvTypeOK'
    BY <1>13 DEF TypeOK, ClusterTypeOK, EnvTypeOK, Restart, clusterVars
  <2>2. WorkTypeOK'
    BY <1>13, FreshType, NoCountsType DEF TypeOK, WorkTypeOK, Restart, PCs
  <2>3. ManagerTypeOK'
    BY <1>4, <1>13 DEF TypeOK, ClusterTypeOK, ManagerTypeOK, Limiter!TypeOK, Restart
  <2> QED
    BY <2>1, <2>2, <2>3 DEF TypeOK
<1> QED
  BY <1>5, <1>6, <1>7, <1>8, <1>9, <1>10, <1>11, <1>12, <1>13 DEF Environment

LEMMA InitType == Init => TypeOK
<1> SUFFICES ASSUME Init PROVE TypeOK
  OBVIOUS
<1>1. Absent(0, 0) \in Object
  BY FreshType
<1>2. ClusterTypeOK
  BY <1>1 DEF Init, ClusterTypeOK
<1>3. ManagerTypeOK
  BY <1>1 DEF Init, ManagerTypeOK, Limiter!TypeOK, Limiter!NewRateLimiter
<1>4. WorkTypeOK
  BY <1>1, NoCountsType DEF Init, WorkTypeOK, PCs
<1>5. EnvTypeOK
  BY DEF Init, EnvTypeOK
<1> QED
  BY <1>2, <1>3, <1>4, <1>5 DEF TypeOK

LEMMA StutterType == TypeOK /\ UNCHANGED vars => TypeOK'
BY DEF TypeOK, ClusterTypeOK, ManagerTypeOK, WorkTypeOK, EnvTypeOK, Limiter!TypeOK,
   vars, clusterVars, queueVars, limitVars, workVars, envVars

LEMMA NextType == TypeOK /\ [Next]_vars => TypeOK'
<1> SUFFICES ASSUME TypeOK, [Next]_vars
             PROVE  TypeOK'
  OBVIOUS
<1>1. ASSUME NEW p \in PPIs, Reconcile(p)
      PROVE  TypeOK'
  BY <1>1, ReconcileType
<1>2. CASE WorkStep
  BY <1>2, NodeActionType, EndActionType DEF WorkStep, NodeAction, EndAction
<1>3. CASE Environment
  BY <1>3, EnvironmentType
<1>4. CASE Quiet \/ UNCHANGED vars
  BY <1>4, StutterType DEF Quiet
<1> QED
  BY <1>1, <1>2, <1>3, <1>4 DEF Next

(* Every reachable state of the controller is well formed, whatever the users,
   the caches, failing calls and crashes do: in particular no release of a slot
   drives a counter of the limiter below zero. *)
THEOREM TypeCorrect == Spec => []TypeOK
BY InitType, NextType, PTL DEF Spec

-----------------------------------------------------------------------------
(* Rate limiter and gauge. *)

LimiterUntouched == UNCHANGED limitVars
SlotTaken        == \E n \in Nodes : Limiter!TryAcquire(n) /\ IncrementActivePulls
SlotReleased     == \E n \in Nodes : Limiter!Release(n) /\ DecrementActivePulls
LimiterReset     == Limiter!NewRateLimiter' /\ activePulls' = 0

(* The controller moves limiter and gauge together, one slot at a time; only a
   restart does otherwise. *)
LEMMA LimiterMoves ==
  ASSUME TypeOK, [Next]_vars
  PROVE  LimiterUntouched \/ SlotTaken \/ SlotReleased \/ LimiterReset
<1>1. ASSUME pc # "idle", idx <= Len(work.ns), ReleaseSlot
      PROVE  SlotReleased
  BY <1>1, EntryType DEF ReleaseSlot, SlotReleased
<1>2. ASSUME NEW p \in PPIs, Reconcile(p)
      PROVE  LimiterUntouched
  BY <1>2 DEF Reconcile, ReconcileGone, ReconcileReadFails, AddFinalizer, handlePending,
     handleInProgress, handleCompleted, handleDeletion, Begin, LimiterUntouched
<1>3. CASE NodeAction
  <2>1. pc # "idle" /\ idx <= Len(work.ns)
    BY <1>3 DEF NodeAction, startPullJob, startPullJobFails, RateLimited,
       PullSucceeded, PullRetried, PullExhausted, PullRunning, NodeDone, Checked, AtNode
  <2>2. CASE startPullJob
    BY <2>1, <2>2, EntryType DEF startPullJob, SlotTaken
  <2>3. CASE startPullJobFails \/ RateLimited \/ PullRunning \/ NodeDone
    BY <2>3 DEF startPullJobFails, RateLimited, PullRunning, NodeDone, LimiterUntouched
  <2>4. CASE PullSucceeded \/ PullRetried \/ PullExhausted
    BY <1>1, <2>1, <2>4 DEF PullSucceeded, PullRetried, PullExhausted
  <2> QED
    BY <1>3, <2>2, <2>3, <2>4 DEF NodeAction
<1>4. CASE EndAction
  <2>1. CASE ReleaseNode
    BY <1>1, <2>1 DEF ReleaseNode, LimiterUntouched
  <2>2. CASE FinishNodes \/ UpdateWritten \/ UpdateRejected \/ UpdateFails \/ TTLDelete
             \/ ListJobs \/ CleanupJob \/ CleanupEnds
    BY <2>2 DEF FinishNodes, UpdateWritten, UpdateRejected, UpdateFails, TTLDelete,
       ListJobs, CleanupJob, CleanupEnds, LimiterUntouched
  <2> QED
    BY <1>4, <2>1, <2>2 DEF EndAction
<1>5. CASE Environment
  <2>1. CASE Restart
    BY <2>1 DEF Restart, LimiterReset, Limiter!NewRateLimiter
  <2>2. CASE ~Restart
    BY <1>5, <2>2 DEF Environment, Create, Delete, Edit, TTLElapses, SyncPPI,
       TimerFires, SyncJob, JobMoves, JobExpires, LimiterUntouched
  <2> QED
    BY <2>1, <2>2
<1>6. CASE Quiet \/ UNCHANGED vars
  BY <1>6 DEF Quiet, vars, LimiterUntouched
<1> QED
  BY <1>2, <1>3, <1>4, <1>5, <1>6 DEF Next, WorkStep, NodeAction, EndAction

(* However many results are lost and however often the manager restarts, the
   gauge kwarm_active_pulls never claims more pulls than the limiter admitted:
   IncrementActivePulls follows every TryAcquire that stands, and every Release
   of such a slot is followed by DecrementActivePulls. *)
THEOREM GaugeStaysWithinLimiter == Spec => []GaugeWithinLimiter
<1> DEFINE Inv == TypeOK /\ GaugeWithinLimiter
<1>1. Init => Inv
  BY InitType DEF Init, GaugeWithinLimiter, Limiter!NewRateLimiter
<1>2. Inv /\ [Next]_vars => Inv'
  <2> SUFFICES ASSUME Inv, [Next]_vars
               PROVE  GaugeWithinLimiter'
    BY NextType
  <2>1. currentPulls \in Nat /\ activePulls \in Int /\ GaugeBound \in Nat
    BY ConstantsOK DEF TypeOK, ManagerTypeOK, Limiter!TypeOK
  <2>2. CASE LimiterUntouched
    BY <2>2 DEF LimiterUntouched, limitVars, GaugeWithinLimiter
  <2>3. CASE SlotTaken
    BY <2>1, <2>3 DEF SlotTaken, Limiter!TryAcquire, IncrementActivePulls, GaugeWithinLimiter
  <2>4. CASE SlotReleased
    BY <2>1, <2>4 DEF SlotReleased, Limiter!Release, Limiter!Decrement,
       DecrementActivePulls, GaugeWithinLimiter
  <2>5. CASE LimiterReset
    BY <2>5 DEF LimiterReset, Limiter!NewRateLimiter, GaugeWithinLimiter
  <2> QED
    BY <2>2, <2>3, <2>4, <2>5, LimiterMoves
<1>3. Inv => GaugeWithinLimiter
  OBVIOUS
<1> QED
  BY <1>1, <1>2, <1>3, PTL DEF Spec
=============================================================================
