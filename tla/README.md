# Verification of KWarm

KWarm is a Kubernetes operator that pulls container images to nodes before they
are needed. This directory holds TLA+ models of its controllers, the TLC
configurations that check them on small clusters, and TLAPS proofs of what
holds for every cluster. Paths below are relative to the repository, mostly
`internal/`.

## The system

| Part | State it keeps | Operations | Talks to |
|---|---|---|---|
| Rate limiter `ratelimiter/ratelimiter.go` | `currentPulls`, `nodeCurrentPulls`, in memory, under a mutex | `TryAcquire`, `Release` | called by the PrePullImage controller |
| Puller `puller/job.go` | none; Jobs in namespace `kwarm-system` | name, create, read, delete, list, clean up pull Jobs | API server |
| PrePullImage controller `controller/prepullimage_controller.go` | status of PrePullImages (phase, one entry per node, summary) | `Reconcile` and its handlers: finalizer, Pending, InProgress, Completed/Failed (TTL), deletion | limiter, puller, gauge, API server through caches |
| Deployment controller `controller/deployment_controller.go` | annotation `kwarm.io/last-images` | compare images, create PrePullImages, record | API server through caches; PrePullImage controller through the objects it creates |
| PrePullPolicy controller `controller/prepullpolicy_controller.go` | policy status (count, `LastUpdated`, condition Ready), gauge `kwarm_watched_deployments` | count matching Deployments, write the status, come back in five minutes | API server through caches; its own status writes wake it |
| Metrics `metrics/metrics.go` | Prometheus gauges and counters | `Increment/DecrementActivePulls`, `SetWatchedDeployments`, ... | called by the controllers |
| Manager `cmd/main.go` | one limiter, three controllers, one worker each | start, crash, change of leader | |

What makes it hard:

* **Two kinds of state.** Slots are taken and released in memory in the middle
  of a reconcile; the status that says so is written once, at its end, under
  optimistic locking. Conflict, failed call and crash separate the two.
* **Stale reads.** Objects and Jobs are read from informer caches that may lag
  behind the controller's own writes.
* **Others interfere**: users delete, edit and re-create objects between any
  two API calls; the Job controller finishes and removes Jobs; the garbage
  collector deletes PrePullImages.
* **Progress** hangs on requeues alone: pull Jobs have no owner reference, so
  `Owns(&batchv1.Job{})` never wakes the controller; policies do not wake the
  Deployment controller, nor Deployments the policy controller.
* **Two controllers, one object**: the Deployment controller deletes and
  re-creates PrePullImages while the other one is reconciling them, and a Job
  outlives the object it was created for.
* **Names** are cut at 63 characters, which loses the hash that tells nodes or
  images apart.

What must hold, part by part: the limiter never exceeds its limits (`LimitsHold`);
a node is called Completed only after a pull (`CompletedMeansPulled`); statuses
only move forward and retries are bounded (`LifecycleSpec`); a retry should follow a
failure (`RetryOnlyAfterFailure`, which late Job caches break); a summary counts its
nodes (`SummaryMatchesNodes`), and the TTL deletes only what is done (`DeletesOnlyDone`); every slot taken is
returned, once (`SlotsMatchPulling`, `SlotsReturned`); the Jobs at work respect
the limits (`JobsWithinLimit`); every PrePullImage ends and is removed
(`Settles`, `IsCleanedUp`); a recorded image has been handed to a PrePullImage
(`RecordedMeansCovered`) and is pulled in the end (`ImagesArePulled`); a Job
that succeeded is not reported as failed (`FailedMeansNotSucceeded`), Completed
stands for the image of this object, not of its predecessor (`CompletedHasImage`),
and no Job is left behind by its object (`NoJobOutlivesOwner`);
what one controller takes for granted of the other is so (`RolloutSpec`); a
policy is Ready only with the count of its own selector (`ReadyMeansCounted`), its
controller does not keep itself busy (`SelfWakeEnds`), and status and gauge come
to show the truth (`CountSettles`, `GaugeSettles`).

## Modules

| Module | Models | Notes |
|---|---|---|
| `RateLimiter` | `ratelimiter.go` | a method is an action; the map is a total function |
| `PullJob` | constant-level part of `job.go` | a name is its first 52 characters and its length; job names keep what truncation leaves |
| `PullLifecycle` | what a watcher of PrePullImages may rely on | abstract specification |
| `PrePullImage` | PrePullImage controller with store, caches, workqueue, limiter, gauge, Jobs | INSTANCEs `RateLimiter` (its own state) and `PullLifecycle` (refinement) |
| `DeploymentController` | Deployment controller; the PrePullImage controller reduced to `PPIStep` | |
| `PolicySelector` | which Deployments a policy selects, as each of the two controllers decides it | constant level |
| `PrePullPolicy` | PrePullPolicy controller with store, caches, workqueue, gauge | |
| `Kwarm` | the manager: the Deployment and the PrePullImage controller on the same objects | EXTENDS `PrePullImage`, INSTANCEs `DeploymentController` |
| `MCRateLimiter`, `MCPrePullImage`, `MCDeployment`, `MCKwarm`, `MCPolicy` | constants of the runs | |
| `RateLimiterProofs`, `PolicyProofs`, `DeploymentProofs` | theorems about the module of that name | |
| `PrePullImageProofs` | theorems: types, gauge; what updates of objects, entries and summaries keep | EXTENDS `PrePullImage` |
| `LifecycleProofs` | theorems: `PullLifecycle` is implemented, summaries, TTL deletion | EXTENDS `PrePullImageProofs` |
| `CompletionProofs` | theorems: what Completed and Failed stand for, cleanup | EXTENDS `LifecycleProofs` |
| `SlotProofs` | theorems: slots, limits | EXTENDS `CompletionProofs` |
| `KwarmProofs` | theorems: the composition implements `DeploymentController`; Completed stands for the object's own image; Jobs go before their object | EXTENDS `Kwarm`, `CompletionProofs` |

**`PrePullImage`.** `store` and `jobs` are the API server, `cache` and
`jobCache` the informers' copies, `queue` and `timer` the workqueue. One worker
takes a key (`Take`), copies the cached object to `work` (variable `ppi` in the
code) and goes through one step per API call or loop iteration; `pc` says where
it is:

    idle -> nodes -> update -> idle        handleInProgress: startPullJob, RateLimited,
                                           PullSucceeded, PullRetried, PullExhausted,
                                           PullRunning, NodeDone; FinishNodes; UpdateX
    idle -> update -> idle                 AddFinalizer, handlePending
    idle -> ttlDelete -> idle              handleCompleted, handleFailed
    idle -> release -> cleanup -> update   handleDeletion: ReleaseNode, ListJobs,
                                           CleanupJob, CleanupEnds

Creation of a Job and the return of `TryAcquire` are one step: only this
worker uses the limiter. The limiter is restored before `startPullJob` returns
an error (`startPullJobFails`), so the failing case leaves it alone. A call may
fail with or without having taken effect (`Fault`). `Restart` drops everything
that is in memory. The ghost variables are `pulled` (which node really has
whose image, and how the Job that pulled it ended), `lost` (a reconcile that
touched the limiter could not store its status) and the bound counters.

A pull and the end of its Job are two things. The pod runs `sh -c "... exit 0"` in the
image it has pulled (`job.go:131`), so in `JobMoves` a Job whose pod has started can
fail before the pull or after it: the image has no `sh`, or
`activeDeadlineSeconds` ends the pod when the image is already there. A pull of
a Job that is deleted before it ends is not recorded; no property speaks of it.

Abstractions: conditions, events, error texts and timestamps other than
CompletionTime are left out; `aged` stands for the passing of CompletedTTL;
`ReadInTime` says that nobody is kept from looking at a finished Job for the 300
seconds of its TTL (polls are 5 seconds apart); users edit metadata only, so
`spec` is constant for an object's life; the lag of a cache is arbitrary, but each object is seen in the order it was
written; when `JobLag` is FALSE a reconcile reads `jobs` itself. The gauge
saturates at `-GaugeBound` to keep the state space finite. Of the validation of Jobs
only what the length of a name decides is kept (`Accepted`): that a name cut
elsewhere may end in '-' or '.', and that a node name above 63 characters is no
label value, are left out, and so are they from what `Settles` says. An error of
`getTargetNodes`, which for a malformed selector comes back for ever, is one of the
bounded `Fault`s. A release of a slot and the decrement of the gauge are one step:
both are in memory, and only this worker makes either.

**`DeploymentController`.** Policies, nodes and the annotation are read at the
start of a reconcile; then one step per changed container key
(`AlreadyExists`, `DeleteOther`, `CreatePPI`, `CreateRefused`, `CallFails`) in
any order, as Go iterates over a map, and one for the annotation. Secrets,
resources, retry and timeout are copied data and left out. `settled` records
that a PrePullImage ended, `PPIStep` is what module `PrePullImage` shows in
detail: finalizer, end, TTL, removal. Policies come and go (`EditPolicy`); their
informer is not modelled, as a policy that is read late is one that came late.

**`PrePullPolicy`.** A reconcile lists the Deployments of one namespace after the
other (`ListDeployments`), each List from a cache that may be late, then writes
the status and sets the gauge, in this order:

    idle -> count -> update -> idle       BeginCount, ListDeployments, Counted, UpdateX
    idle -> count -> error -> idle        ListFails, ErrorReported

`now` is the clock at the resolution of `LastUpdated`, which is stored in whole
seconds. A status equal to the stored one leaves the resourceVersion alone and
sends no event: this is what ends the loop of write and wake-up, and `writes`,
which is not in the code, counts the writes since anything else happened.
`counted`, not in the code either, remembers the selector of a count.

**`Kwarm`.** The steps of both controllers, unchanged, on one set of PrePullImages:
`store` of module `PrePullImage` is the truth, and what the Deployment controller
sees of it (`ppis`) is a state function, so a step of one is also a step of the
other's environment. `specs` adds what `PrePullImage` leaves out of an object
(owner and image, life by life), `jobImages` and `pulledImages` which image a
Job has and has pulled. `PPIStep` has no part in the next-state relation: that
the real controller does nothing `PPIStep` does not allow is the refinement
`RolloutSpec`. The liveness result is put together from parts: `Replace` shows
`ImagesArePulled` provided `PPIStep` keeps going, and `Recovery` and `Contention`
show that it does (`Settles`: an object ends; `IsCleanedUp`: it goes).

## Runs

All with two workers; deadlock is checked in every passing run of a controller
(`Quiet` is the only state that may stop).

| Run | Instance | Shows |
|---|---|---|
| `Limiter` | 4 nodes, callers free to release too much | `TypeOK`, `LimitsHold`, `ClusterWithinNodes` |
| `Faults` | 1 PrePullImage created twice under its name, 1 selected node; late caches, 1 failed call, 1 edit, deletions | `TypeOK`, `SlotsMatchPulling`, `CompletedMeansPulled`, `GaugeWithinLimiter`, `DeletesOnlyDone`, `LifecycleSpec` |
| `Limits` | 2 PrePullImages, 3 pulls, 1 slot per node | `SlotsMatchPulling`, `JobsWithinLimit`, `SummaryMatchesNodes`, `CleanupSparesOthers` |
| `Contention` | 2 PrePullImages, 1 slot in the cluster, fair | `JobsWithinLimit`, `Settles`, `SlotsReturned` |
| `Recovery` | 1 PrePullImage, 1 node, 1 retry, 1 crash, 2 failed calls, fair | `FailedMeansNotSucceeded`, `Settles`, `IsCleanedUp`, `LifecycleSpec` |
| `Rollout` | 1 Deployment with a container and an init container, 3 templates, late caches, 1 edit, 1 failed call, 1 crash, 1 time without nodes, a policy that is deleted | `TypeOK`, `RecordedMeansCovered` |
| `Replace` | 63-character name, so consecutive images share a PrePullImage name; 1 edit, 1 failed call, 1 crash, 1 deletion, fair | `RecordedMeansCovered`, `ImagesArePulled` |
| `Together` | both controllers; 63-character name, 2 images, 1 rollout at any time, 1 crash | `CompletedHasImage`, `NoJobOutlivesOwner`, `RolloutSpec` |
| `Policy` | 1 policy with 2 selectors, 2 Deployments in 2 namespaces, 2 edits, 1 change of a Deployment, 2 seconds, 1 failed call, 1 crash, fair | `TypeOK`, `ReadyMeansCounted`, `SelfWakeEnds`, `CountSettles`, `GaugeSettles` |

Bounds. Two nodes and two objects are what the limiter tells apart: a shared
and a private node, a full cluster and a full node. One retry distinguishes
first, last and middle attempt. One fault, crash or edit can fall between any
two steps, and each loses at most one result; a second life of an object
is what a late cache can confuse with the first. Limits of three in `Recovery` and
two in `Together` leave room for the slots that failed calls and restarts leak
(see `SlotLeak`). Six creations in `Together` are more than its
Deployment can bring about; PrePullImages are deleted there by the Deployment
controller and by their TTL, not by users (`Faults` has those). Two seconds tell a second write in the
same second from one in the next. Symmetry is used in `Together` only, between
its two images: nothing but their equality matters there, as the names keep
no digit of their hashes, and the run checks safety. No action reads the ghost
`pulled`, so the safety runs tell apart (`VIEW`) only as much of it as a property
reads: nothing in `Limits` and `Together`, the Jobs that succeeded in `Faults`.

Fairness. The worker never stops in the middle of a reconcile and Go keeps it
scheduled (`WF(WorkStep)`); the workqueue is first in, first out and a reconcile
ends, so a key that becomes ready again and again is taken
(`SF(Reconcile(p))`, per key; weak fairness would allow one busy key to starve
another); informers deliver and delays end (`WF` of `SyncPPI`, `SyncJob`,
`TimerFires`). Outside the program: Jobs end by `activeDeadlineSeconds` and are
removed by `ttlSecondsAfterFinished`, both set by `CreatePullJob`; the garbage
collector works. Users, faults, edits and crashes are not fair. The 10-hour
resync of the informers is not modelled, so no property leans on it. The same
holds of the policy controller: `WF(WorkStep)`, `SF(Reconcile(p))` per policy,
informers and the five-minute requeue; the clock need not move.

### Where the code departs from its documentation

Three runs keep a counterexample each (two more departures, of images without `sh` and
of Jobs left behind, are the first two of the boundaries below):

* `SlotLeak` (`SlotsReturned`): after a conflict in `Status().Update` a slot is
  acquired twice for one pull and released once. With a limit of one, nothing is
  ever pulled again until a restart (`Recovery.cfg` with `maxConcurrent = 1`
  violates `Settles`).
* `LongName` (`CompletedMeansPulled`): from 52 characters on, the Jobs of all nodes
  have one name; nodes are Completed without a pull. The name in the repository's
  own test (`puller/job_test.go`, "long ppi name") has 53.
* `JobCacheLag` (`RetryOnlyAfterFailure`): a Job the cache does not show yet counts
  as failed and is given up while it runs.

### Boundaries of the checks

Each of these violates the property named, which the passing runs either do not
check (the first) or keep by avoiding the case; the constant to change is given:

* the Job of an image without `sh` fails after the pull, is retried, and the node is
  called Failed although it has the image, where `docs/architecture.md:73` says "Once
  the image is pulled, the job exits successfully.": `Recovery.cfg` as it is,
  `FailedMeansNotPulled`;
* a finished Job that its TTL removes between the List and the Delete of a cleanup
  ends it with NotFound (`CleanupJobsForPrePullImage`, `job.go:251`), and the Job of
  the other node goes on pulling without object and slot, where
  `docs/architecture.md:114` says "PrePullImages use finalizers to ensure Jobs are
  cleaned up before deletion": `LongName.cfg`, `Name <- Distinct`, `maxConcurrent = 2`,
  `ReadInTime = TRUE`, `UserDeletes = {a}`, `NoJobOutlivesOwner`;
* a deletion that arrives between the read and the write of a reconcile makes
  `handleDeletion` release a slot a second time, and one Job more than the limit is
  let in, against `docs/configuration.md:166` ("Maximum number of concurrent pull
  jobs"): `Limits.cfg`, `maxConcurrent = 1`, `maxPerNode = 2`, `UserDeletes = {a}`,
  `JobsWithinLimit`; a slot lost for good: `Contention.cfg`, `UserDeletes = {a}`,
  `SlotsReturned`;
* restarts forget the slots of running Jobs: `Limits.cfg`, `MaxRestarts = 1`,
  `JobsWithinLimit`. For the same reason the gauge can be negative after a
  restart; `GaugeWithinLimiter` is what remains true.
* a manager that is away for longer than the TTL of a finished Job, and takes the
  pull for failed: `Recovery.cfg`, `ReadInTime = FALSE`, `FailedMeansNotSucceeded`;
* a PrePullImage name of 51 characters gives a Job name that ends in '-':
  `Recovery.cfg`, `Name <- DashLeft`, `Settles`;
* equal names in two namespaces: `Limits.cfg`, `Name <- SameName`,
  `CleanupSparesOthers`;
* no target nodes, hence no CompletionTime: `Recovery.cfg`, `NodeNames <- Selected`,
  `IsCleanedUp`;
* a Deployment deleted and created again adopts the PrePullImage of the old one:
  `Replace.cfg`, `MaxCreates = 2`, `RecordedMeansCovered`;
* a container named like the key of an init container: `Rollout.cfg`,
  `Key <- SharedKey`, `RecordedMeansCovered`;
* a 63-character Deployment name and two images, or one image and late caches:
  `Rollout.cfg`, `Name <- LongName`, or `Replace.cfg`, `Lag = TRUE`,
  `RecordedMeansCovered`;
* a rollback to an image whose PrePullImage is being deleted: `Replace.cfg`,
  `MaxEdits = 2`, `RecordedMeansCovered`;
* a moment without ready nodes, after which nothing wakes the Deployment
  controller: `Replace.cfg`, `MaxOutages = 1`, `ImagesArePulled`;
* a policy deleted and created again, or created after the Deployment:
  `Replace.cfg`, `MaxPolicyEdits = 2`, `ImagesArePulled`;
* `CleanupJobsForPrePullImage` stops at any other error as well, and a Job may outlive
  its PrePullImage; the next one of the same name adopts it and reports
  an image Completed that was never pulled, as the annotation
  `kwarm.io/prepullimage-uid` is not compared: `Together.cfg`, `MaxFaults = 1` or
  `JobLag = TRUE`, `NoJobOutlivesOwner` and `CompletedHasImage`. With a second node
  (`Nodes = {n1, n2}`, both in `NodeNames`, a name short enough for their hashes)
  `CompletedHasImage` needs no fault either, by the NotFound above;
* a namespace listed twice in a policy, or the empty name, is counted otherwise
  than the Deployment controller selects: `Policy.cfg`, `Selectors <- Repeated` or
  `Selectors <- WithEmpty`, `CountSettles`;
* several policies overwrite each other's gauge, which the repository's README
  (line 126) calls "Watched deployments per policy": `Policy.cfg`,
  `Policies = {pol, other}`, `GaugeSettles`.

## Proofs

`tlapm` checks these for every value of the constants that satisfies the named
assumptions of the modules. They say what kind of thing each constant is:
`LimiterFlags` (the flags are integers), `ConstantsOK`, `DeploymentConstantsOK`,
`PolicyConstantsOK` (finite sets, functions of the right shape, natural bounds, at
least one selector), `SameObjects` (both controllers speak of the same names), and
`NoJobIsNone`, `NoPPIIsNone`, `NoPPIIsAbsent`, `NoImagesIsAbsent`,
`NoPPIIsNoObject` (the value for "absent" is none of the values it stands beside).
TLC evaluates them in every run. The last column lists what a theorem assumes
beyond that; all other bounds, flags and faults are arbitrary.

| Theorem | Says | Provided |
|---|---|---|
| `LimiterTypeCorrect`, `LimiterKeepsLimits` (`RateLimiterProofs`) | `TypeOK`, `LimitsHold`: under arbitrary callers no counter is negative or above its limit | |
| `ClusterStaysWithinNodes` (`RateLimiterProofs`) | `ClusterWithinNodes` | finitely many nodes |
| `TypeCorrect` (`PrePullImageProofs`) | `TypeOK` of the controller and its cluster | |
| `GaugeStaysWithinLimiter` (`PrePullImageProofs`) | `GaugeWithinLimiter` | |
| `SummaryIsRight` (`LifecycleProofs`) | `SummaryMatchesNodes` | |
| `ImplementsLifecycle` (`LifecycleProofs`) | `LifecycleSpec`: `PrePullImage` implements `PullLifecycle` | |
| `TTLDeletesDone` (`LifecycleProofs`) | `DeletesOnlyDone` | |
| `CompletedIsPulled` (`CompletionProofs`) | `CompletedMeansPulled` | `NamesDistinct` |
| `CleanupTakesOwnJobs` (`CompletionProofs`) | `CleanupSparesOthers` | `NamesDistinct` |
| `FailedIsNotSucceeded` (`CompletionProofs`) | `FailedMeansNotSucceeded` | `ResultsRead` (`NamesDistinct`, `ReadInTime`, no `JobLag`), `OneLife`, `NamedOnce` |
| `SlotsAreAccounted` (`SlotProofs`) | `SlotsMatchPulling` | |
| `JobsStayWithinLimit` (`SlotProofs`) | `JobsWithinLimit` | `Undisturbed`: prompt caches; no user deletion, edit, failed call, restart |
| `DeploymentTypeCorrect` (`DeploymentProofs`) | `TypeOK` of the Deployment controller and its cluster | |
| `RecordedIsCovered` (`DeploymentProofs`) | `RecordedMeansCovered` | `OneLife`, `KeysDistinct`, `PPINamesDistinct` |
| `ImplementsRollouts` (`KwarmProofs`) | `RolloutSpec`: `Kwarm` implements `DeploymentController` | |
| `CompletedHasItsImage` (`KwarmProofs`) | `CompletedHasImage` | `CleanupWorks`: `MaxFaults = 0`, no `JobLag`, `NamesDistinct`, one target node per PrePullImage (`OneNode`) |
| `JobsGoFirst` (`KwarmProofs`) | `NoJobOutlivesOwner` | `CleanupWorks` |
| `PolicyTypeCorrect` (`PolicyProofs`) | `TypeOK` of the policy controller and its cluster | |
| `ReadyIsCounted` (`PolicyProofs`) | `ReadyMeansCounted` | |
| `SelfWakingEnds` (`PolicyProofs`) | `SelfWakeEnds` | |

How they go. `TypeOK` is inductive in each module; every other invariant needs
more, and it is this that explains why the code works:

* The sum over the nodes (`ClusterWithinNodes`): `SumFunction` is a fold. That
  the recursion behind it has a solution (`SumsExist`) and that one term can be
  changed at a time (`SumChanges`) is shown by induction over the size of a set, by way
  of a least counterexample (`LeastNatural`, from the library's `WFMin`), since the
  provers cannot instantiate the library's induction rules.
* The gauge: lemma `LimiterMoves` lists how a step can move limiter and gauge
  (both up, both down, both to zero, neither). `GaugeWithinLimiter` is inductive with
  `TypeOK`, because a release that is clamped at zero still lowers the gauge.
* Life cycle, summary (`SoundInv`): resource versions tell the states of an object
  apart, so a copy with the version of the stored object is that object
  (`CacheVersions`, `WorkVersion`). A reconcile whose write can succeed has
  therefore begun from what is stored, and `WorkSound` says how far it has got:
  the nodes behind `idx` are one `NodeStep` on, the others as stored
  (`Halfway`); before the write the copy is one step of the life cycle ahead
  (`Writable`). What a stale reconcile computes does not matter, for it is
  never written. `TallyCounts` ties the counters of the loop to the nodes met.
* TTL deletion (`HoldInv`): the Delete names an object and carries no
  precondition, and the cache may be late. But only the worker takes the finalizer
  off, and only having seen the deletion mark. As long as the cache shows an
  object unmarked and with the finalizer, that very object is there
  (`FinalizerStays`), with a phase that is final if the cached one is.
* Slots (`SlotInv`): while no result is lost and no reconcile that touched a slot
  is stale, limiter and gauge count the entries that hold a slot, where the
  entries of the object being reconciled are read from the copy and those of
  the others from the store (`Held`). Each action moves one entry and one slot,
  or none.
* The limit (`LimitInv`): the limiter keeps its own limits, so it suffices that
  every unfinished Job has an entry that holds a slot (`UnfinishedHeld`). This takes
  `NothingLost` (no write is refused) and that neither the store nor the copy has
  anything Pulling once an object is deleted or done (`StoreSettled`,
  `WorkSettled`), for then no release precedes the end of a Job. Each hypothesis
  of `Undisturbed` is there because its absence violates the property, see the
  boundaries above and run `SlotLeak`.
* Completion: `CompletedMeansPulled` speaks of the API server only, and a status
  gets there by way of the cache and the reconcile's copy. `Honest` states it of
  all three and adds what the decision rests on: a Job under some name,
  in the API server or a cache, belongs to the pair it was named for, and if it
  succeeded it has pulled. What was pulled stays pulled, so late copies stay true.
  `NamesDistinct` is used in one place (`SucceededMeansPulled`): the Job found
  under the name of a pair is that pair's. Run `LongName` shows that it is needed;
  `ShortNamesDistinct` proves it for different names of at most 43 characters
  and different node hashes.
* Failure: that no Job has succeeded is not stable, as one can succeed after the
  node was called Failed, so `FailedDead` and `WorkDead` say that a node given up has no Job that
  could still pull, and `AwaitedKept` that a success nobody has read yet still
  shows in its Job. The PrePullImage may be read late: at most one write of
  the worker is missing from the cache (`CacheTold`, `WorkTold`), which is too
  little to make it create a Job for a node it has given up. A node listed twice
  in `spec.nodes.names` has two entries and one Job (`NamedOnce` excludes it), and
  the ghost `pulled` does not tell the lives of an object apart (`OneLife`). A
  late Job cache is what run `JobCacheLag` shows.
* Cleanup: the list taken by `ListJobs` holds Jobs labelled with the name of the
  object being deleted (`TodoOwn`), and by `Honest` these are its own.
* Recorded images (`RecordInv`): that an image was handed over (`HandedOver`) stays
  true once it is true, so it may be concluded from late copies: every cached
  PrePullImage was handed over (`CacheOwned`), and so is every image of the
  template that the reconcile has behind it (`Progress`). Under `PPINamesDistinct` no
  PrePullImage is replaced for another image; `OneLife` lets uids be compared
  (`BornOnce`). The boundaries list a counterexample for each hypothesis.
* The composition (`KwarmInv`: `SoundInv`, `HoldInv`, and each life of an object has
  its spec, `SpecsOK`): each change the PrePullImage controller makes to the
  store is one disjunct of `PPIStep` or invisible to the Deployment controller.
  `SoundInv` shows that a phase never leaves a final one and that the
  finalizer comes first, `HoldInv` that no write revives an object. Unlike run
  `Together`, the theorem allows the caches of both controllers to be late, calls
  to fail, and any number of edits and Deployments. An invariant of `DeploymentController` therefore holds of
  the composition as well, `RecordedMeansCovered` under its hypotheses
  included; that last inference is not machine-checked, since `tlapm` does not
  import theorems through INSTANCE.
* Whose image (`ImageInv`, on top of `KwarmInv` and `JobsHonest`): a Job belongs
  to the life of its owner that is there now, and that life has its finalizer
  (`JobsRight`). So the finalizer must not go while a Job is left: the cleanup lists
  every Job of the object, and with one node there is only one, whose NotFound
  means that none is left (`CleansAll`). The loop in turn creates Jobs only for
  the life that is there, however late its copy, since that copy shows the
  finalizer and no deletion mark (`LoopHolds`, from `FinalizerStays`). Each
  status then stands for the image of the uid it was read with, in store, cache and
  the reconcile's copy (`ObjectRight`). Run `Together` satisfies `CleanupWorks`; the
  theorem goes beyond it with late caches, any number of edits, crashes,
  Deployments, PrePullImages and retries. The boundaries above and
  run `LongName` show why each part of `CleanupWorks` is there. `JobsGoFirst`
  is a consequence: a Job's owner has its finalizer (`JobsRight`), and what has a
  finalizer is there (`FinalizerStays`).
* Policies: `Counts` states `ReadyMeansCounted` of store, cache and the reconcile's
  copy, adds that no generation is observed before it exists (else an
  edit could make an old count look current), and that a copy with the
  stored resourceVersion has the stored selector and generation, which is what
  the optimistic lock is worth.
* The controller that wakes itself (`Wakes`): a reconcile whose write can succeed
  after another has succeeded began after that one, so it saw the same
  Deployments, second and selector, and ends with the one status they
  determine (`Fresh`); a second write of that status changes nothing (`FreshAgain`).
  The sum over the namespaces is given by the set of its intermediate
  results (`Tallies`), all of which end with the same number.

Only model-checked is liveness (`Settles`, `SlotsReturned`, `IsCleanedUp`,
`ImagesArePulled`, `CountSettles`, `GaugeSettles`): fairness is out of the prover's
reach.

## Not modelled

Metrics other than the two gauges above (counters, histograms, and gauges every
reconcile sets from a fresh List: output nothing depends on), CRD schemas and generated code, flag parsing, TLS, probes and
leases of `cmd/main.go`, Helm chart and manifests. `retry.backoffSeconds` is in the
CRD but no code reads it when it retries, so the model retries at the next
reconcile, as the code does.

## Plan

1. Done: limiter, pull Jobs, PrePullImage controller, its abstract life cycle,
   Deployment controller, PrePullPolicy controller, the composition of the
   Deployment and the PrePullImage controller.
2. Done, proofs: type correctness of all components, both refinements, and
   every safety property of the runs.
3. Next: the action properties the invariants now suggest (a finalizer is taken
   off after the cleanup, an annotation changes only with nothing left to do).
