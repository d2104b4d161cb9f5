---------------------------------- MODULE Kwarm ---------------------------------
(***************************************************************************)
(* The manager process (cmd/main.go): the Deployment controller and the    *)
(* PrePullImage controller on the same PrePullImages, one informer cache   *)
(* for both, one rate limiter, one crash for all.  The definitions of      *)
(* module PrePullImage are used as they are; those of DeploymentController *)
(* under Rollouts!, where its own reduction of the other controller        *)
(* (PPIStep) has no part in the next-state relation: that the real one     *)
(* does no more than that is property RolloutSpec.                         *)
(***************************************************************************)
EXTENDS PrePullImage

CONSTANTS
  \* Constants of DeploymentController, by the names they have there.
  Deployments, Namespace, Labels, Policies, Selector,
  Containers, InitContainers, Key, Images, ImageHash, Templates,
  NoImages, NoDeployment, NoKey,
  DeploymentName,      \* Name
  MaxDeployments,      \* MaxCreates
  MaxDeploymentDeletes, MaxDeploymentEdits, MaxDeploymentFaults, Touches

VARIABLES
  \* Of the Deployment controller; those that share a name with one of the
  \* PrePullImage controller have a d in front.
  deployments, policies, settled,
  dCache, dQueue, dTimer, dPc, dCur, dWork, dTodo, at,
  dEdits, policyEdits, dFaults, outages,
  \* What PrePullImage leaves out of the objects.
  specs,        \* [PPIs -> Seq(Specs)]: owner, its uid, image of each life in turn
  jobImages,    \* the image in the pod template of each Job
  pulledImages  \* <<image, node>>: pulled by a Job that succeeded

(* What a PrePullImage is for, in the API server and in the informer's copy. *)
specOf(k)       == specs[k][store[k].uid]
cachedSpecOf(k) == specs[k][cache[k].uid]

(* PrePullImages as the Deployment controller sees them. *)
ppis ==
  [k \in PPIs |->
     IF ~store[k].exists THEN NoPPI
     ELSE [owner |-> specOf(k).owner, uid |-> specOf(k).uid, image |-> specOf(k).image,
           fin |-> store[k].fin, del |-> store[k].del, done |-> Terminal(store[k])]]

ppiCache ==
  [k \in PPIs |->
     IF PPILag /\ cache[k].exists THEN cachedSpecOf(k).image ELSE NoPPI]

Rollouts == INSTANCE DeploymentController WITH
  store <- deployments, cache <- dCache, queue <- dQueue, timer <- dTimer,
  pc <- dPc, cur <- dCur, work <- dWork, todo <- dTodo,
  edits <- dEdits, faults <- dFaults,
  Name <- DeploymentName, Lag <- PPILag, MaxCreates <- MaxDeployments,
  MaxDeletes <- MaxDeploymentDeletes, MaxEdits <- MaxDeploymentEdits,
  MaxPolicyEdits <- 0, MaxFaults <- MaxDeploymentFaults, MaxOutages <- 0

ASSUME SameObjects == PPIs = Rollouts!PPIKeys
ASSUME NoPPIIsNoObject == NoPPI \notin Rollouts!PPIObject

rolloutVars ==
  <<deployments, policies, dCache, dQueue, dTimer, dPc, dCur, dWork, dTodo, at,
    dEdits, policyEdits, dFaults, outages>>
pullVars == <<specs, jobImages, pulledImages>>
allVars == <<vars, rolloutVars, settled, pullVars>>

Specs == [owner : Deployments, uid : 1..MaxDeployments, image : Images]
NoSpec == "none"
KwarmInit ==
  /\ Init /\ Rollouts!Init
  /\ specs = [k \in PPIs |-> <<>>]
  /\ jobImages = [j \in JobNames |-> NoSpec] /\ pulledImages = {}

-----------------------------------------------------------------------------
(* A step of the PrePullImage controller or of what surrounds it.  A new Job has
   the image of the object as the reconcile has read it; one that exists keeps
   its own. *)
NewlySettled ==
  {<<specOf(k).owner, specOf(k).image>> :
     k \in {p \in PPIs : Terminal(store'[p]) /\ ~Terminal(store[p])}}

FollowJobs ==
  /\ jobImages' = [j \in JobNames |->
       CASE jobs'[j] = NoJob -> NoSpec
         [] jobs'[j] # NoJob /\ jobs[j] = NoJob -> specs[cur][work.uid].image
         [] OTHER -> jobImages[j]]
  /\ pulledImages' = pulledImages \cup
       {<<jobImages[j], jobs[j].node>> :
          j \in {i \in Unfinished : jobs'[i] # NoJob /\ jobs'[i].succeeded = 1}}

PullStep ==
  /\ \/ \E p \in PPIs : \/ Reconcile(p) \/ SyncPPI(p) \/ TimerFires(p)
                       \/ TTLElapses(p) \/ Edit(p)
     \/ \E j \in JobNames : SyncJob(j) \/ JobMoves(j) \/ JobExpires(j)
     \/ WorkStep
  /\ settled' = settled \cup NewlySettled
  /\ FollowJobs
  /\ UNCHANGED <<rolloutVars, specs>>

(* A step of the Deployment controller or of what surrounds it, with what it
   does to the PrePullImages: nothing, or one is created or deleted. *)
CreateObject(k, spec) == Create(k) /\ specs' = [specs EXCEPT ![k] = Append(@, spec)]

RolloutStep ==
  /\ UNCHANGED <<vars, pullVars>>
  /\ \/ \E d \in Deployments : \/ Rollouts!Reconcile(d)
                              \/ Rollouts!SyncDeployment(d) \/ Rollouts!TimerFires(d)
     \/ Rollouts!WorkStep \/ Rollouts!Users

RolloutCreates ==
  /\ dPc \in {"images", "create"}
  /\ \E k \in PPIs, spec \in Specs :
       spec.owner = dCur /\ spec.uid = dWork.uid /\ CreateObject(k, spec)
  /\ UNCHANGED <<jobImages, pulledImages>>
  /\ Rollouts!WorkStep

RolloutDeletes ==
  /\ \E k \in PPIs : Delete(k)
  /\ UNCHANGED pullVars
  /\ Rollouts!WorkStep \/ Rollouts!Collector

RestartAll == UNCHANGED pullVars /\ Restart /\ Rollouts!Restart

(* Nothing is left to happen. *)
AllQuiet ==
  /\ pc = "idle" /\ queue = {} /\ timer = {} /\ cache = store
  /\ dPc = "idle" /\ dQueue = {} /\ dTimer = {} /\ dCache = deployments
  /\ \A k \in PPIs : ~store[k].exists
  /\ UNCHANGED allVars

KwarmNext ==
  \/ PullStep \/ RolloutStep \/ RolloutCreates \/ RolloutDeletes
  \/ RestartAll \/ AllQuiet

KwarmSpec == KwarmInit /\ [][KwarmNext]_allVars

-----------------------------------------------------------------------------
(* What the Deployment controller takes for granted of the other one
   (DeploymentController, action PPIStep) is all it ever does: a finalizer
   comes first, a phase is final, a deletion waits for the finalizer, and no
   write brings back what was deleted or replaced in the meantime.  So what is
   shown of the Deployment controller alone holds with the other one behind it. *)
RolloutSpec == Rollouts!Spec

(* A node that a PrePullImage calls Completed has the image of this very
   PrePullImage: not the one its predecessor of the same name was for, whose
   Job has the same name too. *)
CompletedHasImage ==
  \A k \in PPIs : \A i \in Having(store[k].ns, "Completed") :
    <<specOf(k).image, store[k].ns[i].node>> \in pulledImages
=============================================================================
