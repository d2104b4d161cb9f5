-------------------------- MODULE DeploymentController --------------------------
(***************************************************************************)
(* The Deployment controller (internal/controller/deployment_controller.go):*)
(* it compares the images of a Deployment with those its annotation        *)
(* kwarm.io/last-images records, creates a PrePullImage for every changed  *)
(* one and then records the images.  One worker; a reconcile is a sequence *)
(* of steps, one per API call.                                             *)
(*                                                                         *)
(* The PrePullImage controller is here reduced to what this one depends    *)
(* on: it puts a finalizer on a PrePullImage, settles it (Completed or     *)
(* Failed), and lets it go when it is deleted.  Module PrePullImage has    *)
(* the rest.                                                               *)
(***************************************************************************)
EXTENDS Integers, Sequences, FiniteSets, PolicySelector

CONSTANTS
  Deployments,
  Namespace,      \* [Deployments -> namespaces]
  Labels,         \* [Deployments -> sets of labels]
  Name,           \* [Deployments -> [stem : STRING, len : Nat]]: metadata.name
  Policies,
  Selector,       \* [Policies -> [namespaces : sequences, matchLabels : sets]]
  Containers, InitContainers,  \* containers that may be in a pod template
  Key,            \* the key extractImages gives each: its name, or "init-" + name
  Images,
  ImageHash,      \* [Images -> 8 hex digits of the SHA-256] (external)
  Templates,      \* pod templates users apply: functions containers -> Images
  NoImages,       \* the annotation is missing, or no JSON object
  NoPPI, NoDeployment, NoKey,
  \* The environment.
  Lag,            \* may a reconcile read what the caches have late?
  Touches,        \* are Deployments updated other than by rollouts?
  \* Bounds.
  MaxCreates,     \* times one Deployment is created
  MaxDeletes,     \* times one is deleted
  MaxEdits,       \* updates of Deployments by others
  MaxPolicyEdits, \* times a policy is created or deleted
  MaxFaults,      \* API calls that fail on their own
  MaxOutages,     \* reconciles that find no ready node
  MaxRestarts     \* crashes of the manager

ASSUME DeploymentConstantsOK ==
  /\ IsFiniteSet(Deployments) /\ IsFiniteSet(Policies)
  /\ Containers \cap InitContainers = {}
  /\ NoDeployment \notin Deployments
  /\ Lag \in BOOLEAN /\ Touches \in BOOLEAN
  /\ {MaxCreates, MaxDeletes, MaxEdits, MaxPolicyEdits, MaxFaults, MaxOutages,
      MaxRestarts} \subseteq Nat
  /\ Templates # {}
  /\ \A t \in Templates : /\ DOMAIN t \subseteq Containers \cup InitContainers
                          /\ \A c \in DOMAIN t : t[c] \in Images

VARIABLES
  store,     \* Deployments in the API server
  policies,  \* the policies that exist
  ppis,      \* PrePullImages in the API server
  settled,   \* <<d, image>>: a PrePullImage of d for it was Completed or Failed
  cache,     \* the Deployment informer's copy of store
  ppiCache,  \* the PrePullImage informer's cache, of which only spec.image is read
  queue, timer,  \* the workqueue: keys ready, keys delayed
  pc, cur,   \* the reconcile in progress and its key
  work,      \* its copy of the Deployment
  todo,      \* container keys whose image it has still to handle
  at,        \* the key between the Delete and the Create of a replacement
  edits, policyEdits, faults, outages, restarts

workVars == <<pc, cur, work, todo, at>>
userVars == <<policies, edits, policyEdits>>
envVars  == <<userVars, faults, outages, restarts>>
vars == <<store, ppis, settled, cache, ppiCache, queue, timer, workVars, envVars>>

-----------------------------------------------------------------------------
(* getMatchingPolicy: the policies of which it returns one. *)
getMatchingPolicy(d) ==
  {policy \in policies :
     deploymentMatchesPolicy(Namespace[d], Labels[d], Selector[policy])}

(* extractImages: an init container whose "init-" key is also the name of a
   container takes its place. *)
extractImages(template) ==
  LET Having(k, S) == {c \in S \cap DOMAIN template : Key[c] = k}
  IN [k \in {Key[c] : c \in DOMAIN template} |->
        template[CHOOSE c \in IF Having(k, InitContainers) # {}
                              THEN Having(k, InitContainers)
                              ELSE Having(k, Containers) : TRUE]]

(* findChangedImages, by container key. *)
findChangedImages_NewKeysOnly(last, current) ==
  IF last = NoImages THEN DOMAIN current ELSE DOMAIN current \ DOMAIN last

findChangedImages(last, current) ==
  IF last = NoImages THEN DOMAIN current
  ELSE {k \in DOMAIN current : k \notin DOMAIN last \/ last[k] # current[k]}

(* generatePrePullImageName: "<deployment>-<hash>" cut at 63 characters; the
   object also has a namespace. *)
MaxNameLen == 63
HashLen    == 8
generatePrePullImageName(d, image) ==
  LET room == MaxNameLen - Name[d].len
      kept == IF room > HashLen THEN HashLen ELSE room - 1
  IN [ns |-> Namespace[d], stem |-> Name[d].stem, dash |-> room > 0,
      hash |-> SubSeq(ImageHash[image], 1, kept)]

PPIKeys == {generatePrePullImageName(d, image) : d \in Deployments, image \in Images}

(* What the API server accepts: a name does not end in '-', and the value of
   LabelDeployment, the Deployment's name, fits 63 characters. *)
Accepted(d, key) == Name[d].len <= MaxNameLen /\ (key.dash => key.hash # <<>>)

-----------------------------------------------------------------------------
(* Objects.  A Deployment that does not exist keeps its uid and rv. *)
Deployment(uid, rv, template, last) ==
  [exists |-> TRUE, uid |-> uid, rv |-> rv, template |-> template, last |-> last]
NoTemplate == CHOOSE t \in Templates : TRUE
Gone(uid, rv) ==
  [Deployment(uid, rv, NoTemplate, NoImages) EXCEPT !.exists = FALSE]

PPI(d, uid, img) ==
  [owner |-> d, uid |-> uid, image |-> img,
   fin |-> FALSE, del |-> FALSE, done |-> FALSE]

(* What the API server has of the PrePullImage cache's content. *)
ImageOf(ppi) == IF ppi = NoPPI THEN NoPPI ELSE ppi.image
imagesOfPPIs == [k \in PPIKeys |-> ImageOf(ppis[k])]

Init ==
  /\ store = [d \in Deployments |-> Gone(0, 0)]
  /\ ppis = [k \in PPIKeys |-> NoPPI]
  /\ settled = {}
  /\ cache = store /\ ppiCache = imagesOfPPIs
  /\ queue = {} /\ timer = {}
  /\ pc = "idle" /\ cur = NoDeployment /\ work = Gone(0, 0) /\ todo = {}
  /\ at = NoKey
  /\ policies = Policies
  /\ edits = 0 /\ policyEdits = 0 /\ faults = 0 /\ outages = 0 /\ restarts = 0

Fault == faults < MaxFaults /\ faults' = faults + 1

-----------------------------------------------------------------------------
(* A reconcile begins: policy, images and target nodes are all read from
   caches.  It ends at once when there is nothing to do. *)
Take(d) ==
  /\ pc = "idle" /\ d \in queue
  /\ Lag \/ cache[d] = store[d]
  /\ queue' = queue \ {d}

Watched(d) == cache[d].exists /\ getMatchingPolicy(d) # {}
Changed(d) == findChangedImages(cache[d].last, extractImages(cache[d].template))

NothingToDo(d) ==
  /\ Take(d)
  /\ \/ ~Watched(d)
     \/ Watched(d) /\ cache[d].last = extractImages(cache[d].template)
  /\ UNCHANGED <<store, ppis, settled, cache, ppiCache, timer, workVars, envVars>>

(* A Get or List fails. *)
ReadFails(d) ==
  /\ Take(d) /\ Fault
  /\ timer' = timer \cup {d}
  /\ UNCHANGED <<store, ppis, settled, cache, ppiCache, workVars, userVars, outages,
                 restarts>>

(* No ready and schedulable node is selected: the reconcile ends without
   requeue, and the images stay unrecorded. *)
NoTargetNodes(d) ==
  /\ Take(d) /\ Watched(d) /\ Changed(d) # {}
  /\ outages < MaxOutages /\ outages' = outages + 1
  /\ UNCHANGED <<store, ppis, settled, cache, ppiCache, timer, workVars,
                 userVars, faults, restarts>>

Begin(d, step) ==
  /\ pc' = step /\ cur' = d /\ work' = cache[d] /\ todo' = Changed(d)
  /\ at' = NoKey
  /\ UNCHANGED <<store, ppis, settled, cache, ppiCache, timer, envVars>>

OnlyRemovals(d) ==
  /\ Take(d) /\ Watched(d) /\ Changed(d) = {}
  /\ cache[d].last # extractImages(cache[d].template)
  /\ Begin(d, "update")

ImagesChanged(d) ==
  /\ Take(d) /\ Watched(d) /\ Changed(d) # {}
  /\ Begin(d, "images")

Return(again) ==
  /\ pc' = "idle" /\ cur' = NoDeployment /\ work' = Gone(0, 0) /\ todo' = {}
  /\ at' = NoKey
  /\ timer' = IF again THEN timer \cup {cur} ELSE timer

-----------------------------------------------------------------------------
(* createPrePullImage for the changed images, in any order (Go map). *)
image(k) == extractImages(work.template)[k]
ppiKey(k) == generatePrePullImageName(cur, image(k))
existing(k) == (IF Lag THEN ppiCache ELSE imagesOfPPIs)[ppiKey(k)]

(* The cache has a PrePullImage for the same image: nothing is created. *)
AlreadyExists_AnyImage(k) ==
  /\ pc = "images" /\ k \in todo
  /\ existing(k) # NoPPI
  /\ todo' = todo \ {k}
  /\ UNCHANGED <<store, ppis, settled, cache, ppiCache, queue, timer, pc, cur,
                 work, at, envVars>>

AlreadyExists(k) ==
  /\ pc = "images" /\ k \in todo
  /\ existing(k) = image(k)
  /\ todo' = todo \ {k}
  /\ UNCHANGED <<store, ppis, settled, cache, ppiCache, queue, timer, pc, cur,
                 work, at, envVars>>

(* API server (external): a delete marks an object that has a finalizer. *)
Deleted(ppi) == IF ppi.fin THEN [ppi EXCEPT !.del = TRUE] ELSE NoPPI

(* The cache has one for another image: it is deleted first; a PrePullImage
   that is not there any more is an error. *)
DeleteOther(k) ==
  /\ pc = "images" /\ k \in todo
  /\ existing(k) \notin {NoPPI, image(k)}
  /\ \/ /\ ppis[ppiKey(k)] # NoPPI
        /\ ppis' = [ppis EXCEPT ![ppiKey(k)] = Deleted(@)]
        /\ pc' = "create" /\ at' = k
        /\ UNCHANGED <<cur, work, todo, timer>>
     \/ /\ ppis[ppiKey(k)] = NoPPI
        /\ Return(TRUE) /\ UNCHANGED ppis
  /\ UNCHANGED <<store, settled, cache, ppiCache, queue, envVars>>

(* The Create: after that Delete, or because the cache has no PrePullImage of
   this name. *)
ToCreate(k) ==
  \/ pc = "create" /\ at = k
  \/ pc = "images" /\ k \in todo /\ existing(k) = NoPPI

CreatePPI(k) ==
  /\ ToCreate(k) /\ Accepted(cur, ppiKey(k)) /\ ppis[ppiKey(k)] = NoPPI
  /\ ppis' = [ppis EXCEPT ![ppiKey(k)] = PPI(cur, work.uid, image(k))]
  /\ todo' = todo \ {k} /\ pc' = "images" /\ at' = NoKey
  /\ UNCHANGED <<store, settled, cache, ppiCache, queue, timer, cur, work, envVars>>

(* It is refused: the name is invalid, or taken in the API server, also by an
   object that waits for its finalizer. *)
CreateRefused_Dropped(k) ==
  /\ ToCreate(k)
  /\ ~Accepted(cur, ppiKey(k)) \/ ppis[ppiKey(k)] # NoPPI
  /\ Return(FALSE)
  /\ UNCHANGED <<store, ppis, settled, cache, ppiCache, queue, envVars>>

CreateRefused(k) ==
  /\ ToCreate(k)
  /\ ~Accepted(cur, ppiKey(k)) \/ ppis[ppiKey(k)] # NoPPI
  /\ Return(TRUE)
  /\ UNCHANGED <<store, ppis, settled, cache, ppiCache, queue, envVars>>

(* A call fails on its own; a Create or a Delete may have taken effect all the
   same. *)
CallFails(k) ==
  /\ \/ pc = "images" /\ k \in todo
     \/ pc = "create" /\ at = k
  /\ Fault
  /\ \/ UNCHANGED ppis
     \/ /\ ToCreate(k)
        /\ Accepted(cur, ppiKey(k)) /\ ppis[ppiKey(k)] = NoPPI
        /\ ppis' = [ppis EXCEPT ![ppiKey(k)] = PPI(cur, work.uid, image(k))]
     \/ /\ ~ToCreate(k)
        /\ existing(k) # image(k) /\ ppis[ppiKey(k)] # NoPPI
        /\ ppis' = [ppis EXCEPT ![ppiKey(k)] = Deleted(@)]
  /\ Return(TRUE)
  /\ UNCHANGED <<store, settled, cache, ppiCache, queue, userVars, outages,
                 restarts>>

AllCreated_Early ==
  /\ pc = "images"
  /\ pc' = "update"
  /\ UNCHANGED <<store, ppis, settled, cache, ppiCache, queue, timer, cur, work,
                 todo, at, envVars>>

AllCreated ==
  /\ pc = "images" /\ todo = {}
  /\ pc' = "update"
  /\ UNCHANGED <<store, ppis, settled, cache, ppiCache, queue, timer, cur, work,
                 todo, at, envVars>>

-----------------------------------------------------------------------------
(* updateLastImagesAnnotation: an Update that carries the resourceVersion the
   Deployment was read at. *)
CanWrite == store[cur].exists /\ store[cur].rv = work.rv

updateLastImages ==
  store' = [store EXCEPT ![cur].last = extractImages(work.template),
                         ![cur].rv = @ + 1]

UpdateWritten_Refetched ==
  /\ pc = "update" /\ store[cur].exists
  /\ store' = [store EXCEPT ![cur].last = extractImages(store[cur].template),
                            ![cur].rv = @ + 1]
  /\ Return(FALSE)
  /\ UNCHANGED <<ppis, settled, cache, ppiCache, queue, envVars>>

UpdateWritten ==
  /\ pc = "update" /\ CanWrite
  /\ updateLastImages /\ Return(FALSE)
  /\ UNCHANGED <<ppis, settled, cache, ppiCache, queue, envVars>>

UpdateRejected ==
  /\ pc = "update" /\ ~CanWrite
  /\ Return(TRUE)
  /\ UNCHANGED <<store, ppis, settled, cache, ppiCache, queue, envVars>>

UpdateFails ==
  /\ pc = "update" /\ CanWrite /\ Fault
  /\ updateLastImages \/ UNCHANGED store
  /\ Return(TRUE)
  /\ UNCHANGED <<ppis, settled, cache, ppiCache, queue, userVars, outages, restarts>>

-----------------------------------------------------------------------------
(* Users and other controllers. *)
Create(d) ==
  /\ ~store[d].exists /\ store[d].uid < MaxCreates
  /\ \E t \in Templates :
       store' = [store EXCEPT ![d] = Deployment(@.uid + 1, @.rv + 1, t, NoImages)]
  /\ UNCHANGED <<ppis, settled, cache, ppiCache, queue, timer, workVars, envVars>>

Delete(d) ==
  /\ store[d].exists /\ store[d].uid <= MaxDeletes
  /\ store' = [store EXCEPT ![d] = Gone(@.uid, @.rv + 1)]
  /\ UNCHANGED <<ppis, settled, cache, ppiCache, queue, timer, workVars, envVars>>

(* A rollout; an annotation that is dropped, a status update. *)
Edit(d) ==
  /\ store[d].exists /\ edits < MaxEdits /\ edits' = edits + 1
  /\ \/ \E t \in Templates \ {store[d].template} :
          store' = [store EXCEPT ![d].template = t, ![d].rv = @ + 1]
     \/ /\ Touches
        /\ \E last \in {store[d].last, NoImages} :
             store' = [store EXCEPT ![d].last = last, ![d].rv = @ + 1]
  /\ UNCHANGED <<ppis, settled, cache, ppiCache, queue, timer, workVars, policies,
                 policyEdits, faults, outages, restarts>>

(* A policy comes or goes: that wakes nobody. *)
EditPolicy(policy) ==
  /\ policyEdits < MaxPolicyEdits /\ policyEdits' = policyEdits + 1
  /\ policies' = IF policy \in policies THEN policies \ {policy}
                                       ELSE policies \cup {policy}
  /\ UNCHANGED <<store, ppis, settled, cache, ppiCache, queue, timer, workVars,
                 edits, faults, outages, restarts>>

(* The PrePullImage controller: finalizer, terminal phase, deletion by TTL,
   finalizer off. *)
PPIStep(k) ==
  /\ ppis[k] # NoPPI
  /\ \/ /\ ~ppis[k].fin /\ ~ppis[k].del
        /\ ppis' = [ppis EXCEPT ![k].fin = TRUE] /\ UNCHANGED settled
     \/ /\ ppis[k].fin /\ ~ppis[k].del /\ ~ppis[k].done
        /\ ppis' = [ppis EXCEPT ![k].done = TRUE]
        /\ settled' = settled \cup {<<ppis[k].owner, ppis[k].image>>}
     \/ /\ ppis[k].done /\ ~ppis[k].del
        /\ ppis' = [ppis EXCEPT ![k] = Deleted(@)] /\ UNCHANGED settled
     \/ /\ ppis[k].del
        /\ ppis' = [ppis EXCEPT ![k] = NoPPI] /\ UNCHANGED settled
  /\ UNCHANGED <<store, cache, ppiCache, queue, timer, workVars, envVars>>

(* The garbage collector deletes what a Deployment that is gone has owned. *)
CollectGarbage(k) ==
  /\ ppis[k] # NoPPI /\ ~ppis[k].del
  /\ LET owner == store[ppis[k].owner] IN ~owner.exists \/ owner.uid # ppis[k].uid
  /\ ppis' = [ppis EXCEPT ![k] = Deleted(@)]
  /\ UNCHANGED <<store, settled, cache, ppiCache, queue, timer, workVars, envVars>>

(* Informers and timers.  Only Deployment events queue a key. *)
SyncDeployment(d) ==
  /\ cache[d] # store[d]
  /\ cache' = [cache EXCEPT ![d] = store[d]]
  /\ queue' = queue \cup {d}
  /\ UNCHANGED <<store, ppis, settled, ppiCache, timer, workVars, envVars>>

SyncPPI(k) ==
  /\ Lag /\ ppiCache[k] # imagesOfPPIs[k]
  /\ ppiCache' = [ppiCache EXCEPT ![k] = imagesOfPPIs[k]]
  /\ UNCHANGED <<store, ppis, settled, cache, queue, timer, workVars, envVars>>

TimerFires(d) ==
  /\ d \in timer
  /\ timer' = timer \ {d} /\ queue' = queue \cup {d}
  /\ UNCHANGED <<store, ppis, settled, cache, ppiCache, workVars, envVars>>

(* The manager crashes and comes back. *)
Restart ==
  /\ restarts < MaxRestarts /\ restarts' = restarts + 1
  /\ cache' = store /\ ppiCache' = IF Lag THEN imagesOfPPIs ELSE ppiCache
  /\ queue' = {d \in Deployments : store[d].exists} /\ timer' = {}
  /\ pc' = "idle" /\ cur' = NoDeployment /\ work' = Gone(0, 0)
  /\ todo' = {} /\ at' = NoKey
  /\ UNCHANGED <<store, ppis, settled, userVars, faults, outages>>

-----------------------------------------------------------------------------
Reconcile(d) ==
  \/ NothingToDo(d) \/ ReadFails(d) \/ NoTargetNodes(d)
  \/ OnlyRemovals(d) \/ ImagesChanged(d)

Keys == {Key[c] : c \in Containers \cup InitContainers}

WorkStep ==
  \/ \E k \in Keys : \/ AlreadyExists(k) \/ DeleteOther(k) \/ CreatePPI(k)
                    \/ CreateRefused(k) \/ CallFails(k)
  \/ AllCreated \/ UpdateWritten \/ UpdateRejected \/ UpdateFails

Users ==
  \/ \E d \in Deployments : Create(d) \/ Delete(d) \/ Edit(d)
  \/ \E policy \in Policies : EditPolicy(policy)

Informers ==
  \/ \E d \in Deployments : SyncDeployment(d) \/ TimerFires(d)
  \/ \E k \in PPIKeys : SyncPPI(k)

PPIController == \E k \in PPIKeys : PPIStep(k)
Collector     == \E k \in PPIKeys : CollectGarbage(k)

(* Nothing is left to happen. *)
Quiet ==
  /\ pc = "idle" /\ queue = {} /\ timer = {} /\ cache = store
  /\ UNCHANGED vars

Next ==
  \/ \E d \in Deployments : Reconcile(d)
  \/ WorkStep \/ Users \/ Informers \/ PPIController \/ Collector \/ Restart \/ Quiet

Spec == Init /\ [][Next]_vars

(* The worker, the informers, the delays, the PrePullImage controller and the
   garbage collector keep going. *)
Fairness ==
  /\ WF_vars(WorkStep)
  /\ \A d \in Deployments : /\ SF_vars(Reconcile(d))
                           /\ WF_vars(SyncDeployment(d)) /\ WF_vars(TimerFires(d))
  /\ \A k \in PPIKeys : /\ WF_vars(PPIStep(k)) /\ WF_vars(CollectGarbage(k))
                        /\ WF_vars(SyncPPI(k))

FairSpec == Spec /\ Fairness

-----------------------------------------------------------------------------
(* Properties. *)

PPIObject == [owner : Deployments, uid : Nat, image : Images,
              fin : BOOLEAN, del : BOOLEAN, done : BOOLEAN]
Recorded  == {NoImages} \cup UNION {[S -> Images] : S \in SUBSET Keys}
Object    == [exists : BOOLEAN, uid : Nat, rv : Nat, template : Templates, last : Recorded]

ASSUME NoPPIIsAbsent == NoPPI \notin PPIObject \cup Images
ASSUME NoImagesIsAbsent == \A t \in Templates : extractImages(t) # NoImages

(* The shape of the state.  What a reconcile still has to handle are keys of the
   images it has read, and nothing is left when it records them. *)
TypeOK ==
  /\ store \in [Deployments -> Object] /\ cache \in [Deployments -> Object]
  /\ ppis \in [PPIKeys -> PPIObject \cup {NoPPI}]
  /\ ppiCache \in [PPIKeys -> Images \cup {NoPPI}]
  /\ settled \subseteq Deployments \X Images
  /\ queue \subseteq Deployments /\ timer \subseteq Deployments
  /\ pc \in {"idle", "images", "create", "update"}
  /\ cur \in Deployments \cup {NoDeployment} /\ (pc = "idle" <=> cur = NoDeployment)
  /\ work \in Object /\ todo \subseteq DOMAIN extractImages(work.template)
  /\ pc = "create" => at \in todo
  /\ pc \in {"idle", "update"} => todo = {}
  /\ policies \subseteq Policies
  /\ {edits, policyEdits, faults, outages, restarts} \subseteq Nat

ImagesOf(template) == {template[c] : c \in DOMAIN template}

(* The image has a PrePullImage that lasts until it is settled, or had one. *)
Covered(d, img) ==
  \/ <<d, img>> \in settled
  \/ \E k \in PPIKeys : /\ ppis[k] # NoPPI
                        /\ ppis[k].owner = d /\ ppis[k].uid = store[d].uid
                        /\ ppis[k].image = img /\ ~ppis[k].del

(* Once the annotation of a Deployment says that its images are known, every
   one of them has been handed to a PrePullImage that will see it through:
   whatever failed, conflicted or crashed in between, no image is recorded
   unpulled - for nothing would ever pull it afterwards. *)
RecordedMeansCovered ==
  \A d \in Deployments :
    /\ store[d].exists /\ getMatchingPolicy(d) # {}
    /\ store[d].last = extractImages(store[d].template)
    => \A img \in ImagesOf(store[d].template) : Covered(d, img)

(* Every image of a Deployment that some policy matches is pulled, or given up
   after the retries, unless the Deployment moves on. *)
ImagesArePulled ==
  \A d \in Deployments, img \in Images :
    (store[d].exists /\ getMatchingPolicy(d) # {} /\ img \in ImagesOf(store[d].template))
      ~> \/ <<d, img>> \in settled
         \/ ~store[d].exists \/ img \notin ImagesOf(store[d].template)
         \/ getMatchingPolicy(d) = {}
=============================================================================
