------------------------------ MODULE PrePullPolicy ------------------------------
(***************************************************************************)
(* The PrePullPolicy controller                                            *)
(* (internal/controller/prepullpolicy_controller.go): it counts the        *)
(* Deployments a policy selects, writes the count into the policy's status *)
(* and into the gauge kwarm_watched_deployments, and comes back every five *)
(* minutes.  It watches policies only: neither a new Deployment nor a new  *)
(* label wakes it, but each of its own status writes does.                 *)
(***************************************************************************)
EXTENDS Integers, Sequences, FiniteSets, PolicySelector

CONSTANTS
  Policies,
  Selectors,      \* what users put into spec.selector
  Deployments,
  Namespaces,     \* names that may be listed in a selector
  Namespace,      \* [Deployments -> Namespaces]
  LabelSets,      \* the labels users give a Deployment
  NoDeployment,   \* in place of the labels of a Deployment that does not exist
  NoPolicy,       \* the worker is idle
  \* Bounds.
  MaxEdits,       \* creations, edits and deletions of policies
  MaxChanges,     \* creations, edits and deletions of Deployments
  MaxSeconds,     \* seconds told apart by LastUpdated
  MaxFaults,      \* API calls that fail on their own
  MaxRestarts     \* crashes of the manager

AllNamespaces == ""

ASSUME PolicyConstantsOK ==
  /\ IsFiniteSet(Policies) /\ IsFiniteSet(Deployments)
  /\ NoPolicy \notin Policies /\ NoDeployment \notin LabelSets
  /\ Selectors # {}
  /\ \A sel \in Selectors : sel.namespaces \in Seq(Namespaces)
  /\ Namespace \in [Deployments -> Namespaces]
  /\ {MaxEdits, MaxChanges, MaxSeconds, MaxFaults, MaxRestarts} \subseteq Nat

VARIABLES
  store,            \* policies in the API server
  deployments,      \* labels of the Deployments in the API server
  cache,            \* the informers' copies
  deploymentCache,
  queue, timer,     \* workqueue: keys ready, keys delayed
  watchedGauge,     \* gauge kwarm_watched_deployments
  pc, cur,          \* the reconcile in progress and its key
  work,             \* its copy of the policy
  left,             \* namespaces it has still to list
  count,
  now,              \* the current second
  writes,           \* status writes that changed a policy since anything else did
  edits, changes, faults, restarts

workVars == <<pc, cur, work, left, count>>
envVars  == <<now, edits, changes, faults, restarts>>
vars == <<store, deployments, cache, deploymentCache, queue, timer, watchedGauge,
          workVars, writes, envVars>>

-----------------------------------------------------------------------------
(* A policy: ready and observed are the Ready condition and its
   ObservedGeneration, stamp is LastUpdated.  counted is not in the code: the
   selector that watched was counted with. *)
Policy(rv, sel) ==
  [exists |-> TRUE, rv |-> rv, gen |-> 1, sel |-> sel, watched |-> 0,
   stamp |-> -1, ready |-> "Unknown", observed |-> 0, counted |-> sel]
AnySelector == CHOOSE sel \in Selectors : TRUE
Gone(rv) == [Policy(rv, AnySelector) EXCEPT !.exists = FALSE]

Init ==
  /\ store = [p \in Policies |-> Gone(0)]
  /\ deployments \in [Deployments -> LabelSets \cup {NoDeployment}]
  /\ cache = store /\ deploymentCache = deployments
  /\ queue = {} /\ timer = {} /\ watchedGauge = 0
  /\ pc = "idle" /\ cur = NoPolicy /\ work = Gone(0) /\ left = <<>> /\ count = 0
  /\ writes = [p \in Policies |-> 0]
  /\ now = 0 /\ edits = 0 /\ changes = 0 /\ faults = 0 /\ restarts = 0

(* The environment has done something: the count of writes starts again. *)
NewSituation == writes' = [p \in Policies |-> 0]

Fault == faults < MaxFaults /\ faults' = faults + 1

-----------------------------------------------------------------------------
Take(p) == pc = "idle" /\ p \in queue /\ queue' = queue \ {p}

(* The policy is not found. *)
ReconcileGone(p) ==
  /\ Take(p) /\ ~cache[p].exists
  /\ UNCHANGED <<store, deployments, cache, deploymentCache, timer, watchedGauge,
                 workVars, writes, envVars>>

ReadFails(p) ==
  /\ Take(p) /\ Fault /\ NewSituation
  /\ timer' = timer \cup {p}
  /\ UNCHANGED <<store, deployments, cache, deploymentCache, watchedGauge, workVars,
                 now, edits, changes, restarts>>

BeginCount(p) ==
  /\ Take(p) /\ cache[p].exists
  /\ pc' = "count" /\ cur' = p /\ work' = cache[p] /\ count' = 0
  /\ left' = IF cache[p].sel.namespaces = <<>> THEN <<AllNamespaces>>
                                               ELSE cache[p].sel.namespaces
  /\ UNCHANGED <<store, deployments, cache, deploymentCache, timer, watchedGauge,
                 writes, envVars>>

(* countMatchingDeployments: one List per namespace. *)
Matching_LabelsOnly(namespace) ==
  {d \in Deployments : /\ deploymentCache[d] # NoDeployment
                       /\ deploymentMatchesSelector(deploymentCache[d], work.sel)}

Matching(namespace) ==
  {d \in Deployments : /\ deploymentCache[d] # NoDeployment
                       /\ namespace \in {AllNamespaces, Namespace[d]}
                       /\ deploymentMatchesSelector(deploymentCache[d], work.sel)}

ListDeployments ==
  /\ pc = "count" /\ left # <<>>
  /\ count' = count + Cardinality(Matching(Head(left)))
  /\ left' = Tail(left)
  /\ UNCHANGED <<store, deployments, cache, deploymentCache, queue, timer,
                 watchedGauge, pc, cur, work, writes, envVars>>

(* setCondition *)
Condition_ReasonForStatus(obj, status) ==
  [obj EXCEPT !.ready = IF status = "True" THEN "Reconciled" ELSE "Error",
              !.observed = obj.gen]

Condition(obj, status) == [obj EXCEPT !.ready = status, !.observed = obj.gen]

ListFails ==
  /\ pc = "count" /\ left # <<>> /\ Fault /\ NewSituation
  /\ pc' = "error" /\ work' = Condition(work, "False")
  /\ UNCHANGED <<store, deployments, cache, deploymentCache, queue, timer,
                 watchedGauge, cur, left, count, now, edits, changes, restarts>>

Counted ==
  /\ pc = "count" /\ left = <<>>
  /\ pc' = "update"
  /\ work' = Condition([work EXCEPT !.watched = count, !.stamp = now,
                                    !.counted = work.sel], "True")
  /\ UNCHANGED <<store, deployments, cache, deploymentCache, queue, timer,
                 watchedGauge, cur, left, count, writes, envVars>>

-----------------------------------------------------------------------------
(* Status().Update (API server: external): refused when the policy has moved
   on; a status that is what it was leaves the resourceVersion alone.
   LastUpdated is stored in whole seconds. *)
CanWrite == store[cur].exists /\ store[cur].rv = work.rv

Changes_AnyTime(old, new) == TRUE

Changes(old, new) == new # old

(* Only the status is taken over from the reconcile's copy. *)
Status(old, new) ==
  [old EXCEPT !.watched = new.watched, !.stamp = new.stamp, !.ready = new.ready,
              !.observed = new.observed, !.counted = new.counted]

Saved(old, new) ==
  LET obj == Status(old, new) IN
  IF Changes(old, obj) THEN [obj EXCEPT !.rv = @ + 1] ELSE old

WriteStatus ==
  /\ store' = [store EXCEPT ![cur] = Saved(@, work)]
  /\ writes' = IF store' = store THEN writes ELSE [writes EXCEPT ![cur] = @ + 1]

(* A call that fails has taken effect or not. *)
WriteFails ==
  /\ CanWrite /\ Fault /\ NewSituation
  /\ UNCHANGED store \/ store' = [store EXCEPT ![cur] = Saved(@, work)]

Return(again) ==
  /\ pc' = "idle" /\ cur' = NoPolicy /\ work' = Gone(0) /\ left' = <<>> /\ count' = 0
  /\ timer' = IF again THEN timer \cup {cur} ELSE timer

SetWatchedDeployments(n) == watchedGauge' = n

(* The gauge follows the write, then the reconcile asks to be called again in
   five minutes. *)
UpdateWritten_Refetched ==
  /\ pc = "update" /\ store[cur].exists
  /\ store' = [store EXCEPT ![cur] = Condition([Status(@, work) EXCEPT !.rv = @ + 1], "True")]
  /\ writes' = [writes EXCEPT ![cur] = 1]
  /\ SetWatchedDeployments(count)
  /\ Return(TRUE)
  /\ UNCHANGED <<deployments, cache, deploymentCache, queue, envVars>>

UpdateWritten_GaugeFirst ==
  /\ pc = "update" /\ CanWrite
  /\ WriteStatus
  /\ watchedGauge' = IF store' = store THEN watchedGauge ELSE count
  /\ Return(TRUE)
  /\ UNCHANGED <<deployments, cache, deploymentCache, queue, envVars>>

UpdateWritten ==
  /\ pc = "update" /\ CanWrite
  /\ WriteStatus
  /\ SetWatchedDeployments(count)
  /\ Return(TRUE)
  /\ UNCHANGED <<deployments, cache, deploymentCache, queue, envVars>>

UpdateRejected ==
  /\ pc = "update" /\ ~CanWrite
  /\ Return(TRUE)
  /\ UNCHANGED <<store, deployments, cache, deploymentCache, queue, watchedGauge,
                 writes, envVars>>

UpdateFails ==
  /\ pc = "update" /\ WriteFails
  /\ Return(TRUE)
  /\ UNCHANGED <<deployments, cache, deploymentCache, queue, watchedGauge, now, edits,
                 changes, restarts>>

(* After a List that failed: an error of this write is only logged. *)
ErrorReported ==
  /\ pc = "error"
  /\ \/ CanWrite /\ WriteStatus /\ UNCHANGED faults
     \/ ~CanWrite /\ UNCHANGED <<store, writes, faults>>
     \/ WriteFails
  /\ Return(TRUE)
  /\ UNCHANGED <<deployments, cache, deploymentCache, queue, watchedGauge, now, edits,
                 changes, restarts>>

-----------------------------------------------------------------------------
(* Users.  A change of the spec, and nothing else, moves the generation. *)
EditPolicy(p) ==
  /\ edits < MaxEdits /\ edits' = edits + 1 /\ NewSituation
  /\ \/ /\ ~store[p].exists
        /\ \E sel \in Selectors : store' = [store EXCEPT ![p] = Policy(@.rv + 1, sel)]
     \/ /\ store[p].exists
        /\ \E sel \in Selectors \ {store[p].sel} :
             store' = [store EXCEPT ![p].sel = sel, ![p].gen = @ + 1, ![p].rv = @ + 1]
     \/ /\ store[p].exists
        /\ store' = [store EXCEPT ![p] = Gone(@.rv + 1)]
  /\ UNCHANGED <<deployments, cache, deploymentCache, queue, timer, watchedGauge,
                 workVars, now, changes, faults, restarts>>

(* A Deployment is created, labelled or deleted. *)
ChangeDeployment(d) ==
  /\ changes < MaxChanges /\ changes' = changes + 1 /\ NewSituation
  /\ \E labels \in (LabelSets \cup {NoDeployment}) \ {deployments[d]} :
       deployments' = [deployments EXCEPT ![d] = labels]
  /\ UNCHANGED <<store, cache, deploymentCache, queue, timer, watchedGauge, workVars,
                 now, edits, faults, restarts>>

(* Informers: a policy's event queues it, a Deployment's queues nothing. *)
SyncPolicy(p) ==
  /\ cache[p] # store[p]
  /\ cache' = [cache EXCEPT ![p] = store[p]]
  /\ queue' = queue \cup {p}
  /\ UNCHANGED <<store, deployments, deploymentCache, timer, watchedGauge, workVars,
                 writes, envVars>>

SyncDeployment(d) ==
  /\ deploymentCache[d] # deployments[d] /\ NewSituation
  /\ deploymentCache' = [deploymentCache EXCEPT ![d] = deployments[d]]
  /\ UNCHANGED <<store, deployments, cache, queue, timer, watchedGauge, workVars,
                 envVars>>

TimerFires(p) ==
  /\ p \in timer
  /\ timer' = timer \ {p} /\ queue' = queue \cup {p}
  /\ UNCHANGED <<store, deployments, cache, deploymentCache, watchedGauge, workVars,
                 writes, envVars>>

Tick ==
  /\ now < MaxSeconds /\ now' = now + 1 /\ NewSituation
  /\ UNCHANGED <<store, deployments, cache, deploymentCache, queue, timer,
                 watchedGauge, workVars, edits, changes, faults, restarts>>

(* The manager crashes and comes back with fresh caches. *)
Restart ==
  /\ restarts < MaxRestarts /\ restarts' = restarts + 1 /\ NewSituation
  /\ cache' = store /\ deploymentCache' = deployments
  /\ queue' = {p \in Policies : store[p].exists} /\ timer' = {}
  /\ watchedGauge' = 0
  /\ pc' = "idle" /\ cur' = NoPolicy /\ work' = Gone(0) /\ left' = <<>> /\ count' = 0
  /\ UNCHANGED <<store, deployments, now, edits, changes, faults>>

-----------------------------------------------------------------------------
Reconcile(p) == ReconcileGone(p) \/ ReadFails(p) \/ BeginCount(p)

WorkStep ==
  \/ ListDeployments \/ ListFails      \/ Counted
  \/ UpdateWritten   \/ UpdateRejected \/ UpdateFails \/ ErrorReported

Environment ==
  \/ \E p \in Policies : EditPolicy(p) \/ SyncPolicy(p) \/ TimerFires(p)
  \/ \E d \in Deployments : ChangeDeployment(d) \/ SyncDeployment(d)
  \/ Tick \/ Restart

(* Without a policy there is nothing to do. *)
Quiet ==
  /\ \A p \in Policies : ~store[p].exists /\ edits = MaxEdits
  /\ pc = "idle" /\ queue = {} /\ timer = {}
  /\ UNCHANGED vars

Next == (\E p \in Policies : Reconcile(p)) \/ WorkStep \/ Environment \/ Quiet

Spec == Init /\ [][Next]_vars

(* The worker and the informers keep running, and delays end. *)
Fairness ==
  /\ WF_vars(WorkStep)
  /\ \A p \in Policies : /\ SF_vars(Reconcile(p))
                         /\ WF_vars(SyncPolicy(p)) /\ WF_vars(TimerFires(p))
  /\ \A d \in Deployments : WF_vars(SyncDeployment(d))

FairSpec == Spec /\ Fairness

-----------------------------------------------------------------------------
PolicyObject ==
  [exists : BOOLEAN, rv : Nat, gen : Nat, sel : Selectors, watched : Nat,
   stamp : Int, ready : {"Unknown", "True", "False"}, observed : Nat,
   counted : Selectors]

(* The shape of the state. *)
TypeOK ==
  /\ store \in [Policies -> PolicyObject] /\ cache \in [Policies -> PolicyObject]
  /\ deployments \in [Deployments -> LabelSets \cup {NoDeployment}]
  /\ deploymentCache \in [Deployments -> LabelSets \cup {NoDeployment}]
  /\ queue \subseteq Policies /\ timer \subseteq Policies /\ watchedGauge \in Nat
  /\ pc \in {"idle", "count", "error", "update"}
  /\ cur \in Policies \cup {NoPolicy} /\ (pc = "idle" <=> cur = NoPolicy)
  /\ work \in PolicyObject /\ left \in Seq(Namespaces \cup {AllNamespaces}) /\ count \in Nat
  /\ writes \in [Policies -> Nat]
  /\ {now, edits, changes, faults, restarts} \subseteq Nat

(* A policy that is Ready at its present generation shows a count made with
   its present selector: a user's edit between the read of the policy and the
   write of its status, a cache that is late, a List that failed or an answer
   that was lost never leave the count of another selector under it. *)
ReadyMeansCounted ==
  \A p \in Policies :
    store[p].exists /\ store[p].ready = "True" /\ store[p].observed = store[p].gen
      => store[p].counted = store[p].sel

(* Every status write wakes the controller, which writes again.  That dies out
   by itself, because LastUpdated has whole seconds and a second write in the
   same second changes nothing: as long as nothing else happens, a policy is
   changed at most twice, once by the reconcile that was on its way. *)
SelfWakeEnds == \A p \in Policies : writes[p] <= 2

Watched(sel) ==
  {d \in Deployments : /\ deployments[d] # NoDeployment
                       /\ deploymentMatchesPolicy(Namespace[d], deployments[d], sel)}

(* Once users stop, the status of a policy comes to tell the truth: Ready, for
   the spec it has, with as many Deployments as the Deployment controller would
   find to match.  Nothing but the five-minute requeue brings it there, for
   Deployments wake nobody. *)
CountSettles ==
  \A p \in Policies :
    <>[](store[p].exists =>
           /\ store[p].ready = "True" /\ store[p].observed = store[p].gen
           /\ store[p].watched = Cardinality(Watched(store[p].sel)))

(* With one policy the gauge comes to show what its status shows, also after an
   answer that was lost or a crash. *)
GaugeSettles ==
  \A p \in Policies : <>[](store[p].exists => watchedGauge = store[p].watched)
=============================================================================
