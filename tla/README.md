# Infrakube: a verification project

TLA+ models, TLC runs and TLAPS proofs for Infrakube, a Kubernetes operator that
runs Terraform and OpenTofu workflows as pods.  Paths below are relative to the
repository (`pkg/...` is under `src/`); line numbers without a file are those of
`pkg/controllers/tf_controller.go`.

## 1. Inventory

| Part | State | Operations | What is hard |
|---|---|---|---|
| Workflow reconcile (`tf_controller.go:598-1064`) | `status` of the resource (phase, stage, retry), task pods, finalizer | one reconcile per event: finalizers, first stage, next stage, pod creation, pod observation | every reconcile is several API calls; reads are cached; users, pods and crashes interleave |
| Task order (`1107-1132, 1303-1370`, `tf_types.go:271-345`) | none | `getConfiguredTasks`, `nextTask`, `isTaskInterruptable` | optional tasks, two workflows in one type |
| Status updates (`1748-1831`) | none | blind write with retries, wait for the cache, give up after ten rounds | lost updates, stale confirmation, a reconcile from a cache that is behind the last write |
| Old-generation reaper (`1372-1498`) | a goroutine | delete pods, list, delete config maps, secrets, roles | runs beside the reconcile, acts on what it read before |
| Resource setup (`1915-3130`) | volume, config map, secrets, roles of a generation | `setupAndRun`, `run`, `create*`, `check*` | eight requests, each of which can fail; reads of a cache that lags |
| Plugins (`896-945, 1500-1628`) | `status.pluginsStarted`, jobs, sidecars | start at, after or in a task, reap | deferred writes of the status, goroutines |
| Git secret finalizers (`1669-1746`) | finalizers of secrets | lock, unlock | a missing secret blocks the deletion |
| Requests over clusters (`598-651`) | work queues, the reconcile lock | `Reconcile`, two lookups, lock, read | clusters are replaced under a reconcile; the lock is not atomic and its key shared by two kinds |
| Tofu controller (`tofu_controller.go`) | as above, for `Tofu` | copies of the functions above | the two copies must not drift apart |
| Cluster provider (`pkg/multicluster/provider.go`) | clusters by name, secret to cluster | secret events, `Get`, goroutines that run clusters | events against lookups; failures after the old cluster is gone |
| Manager (`pkg/multicluster/manager.go`) | two goroutines | `Start` | which of two errors wins, who is waited for |
| Pod generation (`367-589, 2364-2990`) | none | `newTaskOptions`, `generatePod`, `validateVolume` | several options, plugins and sidecars meet in one pod |
| Task runner entrypoint (`task-container-build-tools/scripts/entrypoint/src/main.rs`) | log files of earlier runs | rerun number, script choice | retries and restarts in any order |
| Task scripts (`.../extract-terraform.sh`, `.../extract-tofu.sh`) | a binary | image, cache, URL, download site | several sources, one cache |
| Cache server (`pkg/controllers/cache_server.go`) | files | upload, download, list | uploads in place, beside downloads and other uploads |

The controller talks to API servers only: it learns of changes by watches that
fill a cache and queue the resource, and its own writes come back the same way.
The provider hands the two controllers one client per registered workload cluster.
The user acts by creating, updating, labelling and deleting resources and secrets
and by deleting pods; pods act by fetching a binary, running a script and ending.
`PROJECT.json` lists every part with its status, and under `hazards` what can go
wrong in it at which line.

What makes the parts correct:

* workflow: nothing is destroyed that was not deleted; a task runs only when the
  tasks before it have succeeded in its generation; a resource reported as
  completed (deleted) was applied (destroyed); a failed apply is planned again;
  one pod per task; stages only move forward; it comes to an end;
* reaper: it takes nothing from a generation whose pods may still need it;
* setup: a pod finds what it mounts and runs as; setup gets through whatever failed
  before; a plugin runs once; git secrets are released with the resource;
* Tofu controller: it does nothing that the Terraform controller would not do;
* provider: registry and record agree, and what is engaged is what the secrets say;
* requests: no lock is left behind and no change is lost while clusters come and go;
* pods: the right script runs, a plan that needs approval has a container that
  holds it, the controller finds its pods by their labels, run numbers grow;
* cache server: what is served is a complete binary.

## 2. Modules

| Module | Models |
|---|---|
| `Tasks` | task names, `TaskName.ID`, `getConfiguredTasks`, `nextTask`, `isTaskInterruptable` |
| `Workflow` | one Terraform resource: its reconcile, status updates, reaper, users, pods, watches, crashes and failed requests |
| `Lifecycle` | the abstract promise: the phases a user sees and when the finalizer is held |
| `WorkflowLifecycle` | `Workflow` with the refinement mapping to `Lifecycle` |
| `TofuWorkflow` | the Tofu controller, translated from its own file, and that it implements `Workflow` |
| `ResourceSetup` | the requests of `setupAndRun` and `run` in both controllers, one at a time; git secrets, plugin jobs |
| `ClusterProvider` | secrets, their events, the registry of clusters and the goroutines that run them |
| `Multicluster` | `ClusterProvider` composed with the work queues, reconcile locks and lookups of both controllers |
| `TaskPods` | task options, config map, pod, sidecars, the choice of the script and the number of the run |
| `Binaries` | the scripts that fetch a binary, beside each other, and the cache server |
| `TasksProofs` | lemmas about the task order |
| `WorkflowProofs`, `StageProofs` | theorems about `Workflow` |
| `RefinementProofs` | the refinements of `Lifecycle` by `Workflow` and of `Workflow` by `TofuWorkflow` |
| `ClusterProofs`, `SetupProofs`, `PodProofs`, `BinariesProofs` | theorems about `ClusterProvider` with `Multicluster`, `ResourceSetup`, `TaskPods`, `Binaries` |

### How `Workflow` corresponds to the code

* `tf` and `pods` are the objects in the API server, `tfCache` and `podCache` the
  controller's cache, `queued` the work queue, `worker` the reconcile in progress,
  `reaper` the goroutine.  `prepared` holds the generations whose config map,
  secret, service account and roles exist.
* One reconcile is up to four steps: read and decide, with the pod creations and
  deletions of the decision (`ReconcileNotFound` ... `ObservePod`, one action per
  return of `reconcile`), write the status (`WriteStatus`), wait for the cache
  (`ConfirmStatus` or `GiveUp`), delete the completed pod (`DeleteCompletedPod`).  A read that
  is older than a write in the same step is the same as a cache that was not
  synchronised in between, so reads need no step of their own.
* `Intake` is the code before `checkSetNewStage` (deletion time stamp, retry label),
  `checkSetNewStage` its branches in their order, `StagePods` the pod list with its
  name prefix, labels and retry time stamp.
* `UpdateFinalizer` is `Update` of the object, which the API server refuses for an
  outdated version; `WriteStatus` is blind, because a conflict is answered by a
  fresh read and the same status.  `Confirmed` leaves out the stage's state as
  `Stage.IsEqual` does.
* `updateStatusWithRetry` waits for the cache to show what it wrote, and writes the
  same again when it does not.  After ten rounds it returns: with an error, which
  queues the resource again (`onError`), when the last round ended in a conflict, and
  without one when the update was accepted.  In both cases the status is in the API
  server and the cache may still show the version before it (`GiveUp`), from which the
  next reconcile then decides.  When no attempt to write was accepted nothing is written
  (`WriteStatusFails`).  The cache goes from any version to the latest in one step
  (`SyncResource`); the versions between are among those that the next reconcile may
  find, in other interleavings.
* The reaper is read, delete pods, list pods, clean up; the attempts end at
  `MaxReapAttempts` (20 in the code).
* External: deletion sets the time stamp and increments `metadata.generation` while
  there is a finalizer; pods go away at once when they are deleted; a pod is
  `Pending`, `Running`, then `Succeeded` or `Failed`.

Abstractions: start and stop times, messages and names are left out or are numbers;
only the operator's own finalizer exists; the resources of a generation are one set
(`ResourceSetup` takes it apart); `spec.plugins` and the git secrets are empty (also
there); outputs are not copied to the status; one reaper is followed at a time.

Three history variables serve the properties only.  `done` has the tasks that have
succeeded.  `gaveUp` is set by `GiveUp` and says that the cache may be behind; it is
cleared once cache and API server agree and no reconcile that read the older version is
about to write (`CatchesUp`).  `replan` has the applies that the cache has shown as
failed and that have had no new plan since.  It is the cache that counts: before it
shows the failure, a reconcile knows nothing of it and may write over it.

### `TofuWorkflow`

It extends `Workflow` for the resource, the queue, the API server and the task order,
which both controllers use, and translates everything that `tofu_controller.go` has
a copy of: the finalizers, the intake of labels and deletions, the stage logic, the
selection of pods, the status write, its confirmation and when it is given up
(`TofuGivesUp`), the reaper.  None of its
decisions uses one of `Workflow`'s: `TofuIsTerraform == Spec` compares two
translations of two files.  The state is the same, so the refinement mapping is the
identity.

### `ResourceSetup`

`Workflow` starts a task in one step; here every request of that step is an action.
`worker.pc` is the place in `setupAndRun` and `run`, `worker.step` the place in the
order of `run` (`RunOrder`, and `tofuRunOrder` for the other file), `objects` what
exists and `stale` the objects whose last change the cache has not seen: `Cached` is
what a lookup answers.  `CreateObject` tolerates an object that is there already,
`DeleteOld` and `TofuDeleteOld` the two treatments of one that is not,
`CheckObjects` the branch for stages that only look up, `CreatePVC` the error that
counts as found.  The calls of `createPluginJob` are deferred, so `Fail` runs them
also when the reconcile stops with an error; the job is a goroutine of its own
(`CreateJob`), as are the reapers of old plugins.  Two tasks of each workflow are
kept, the setup that creates and the apply that only looks up; there is one git
secret and one plugin, and no retry (see the list of observations below).  Pods do not
fail and are not lost here, and a pod's phase is not written over `in-progress`: these
are `Workflow`'s, and no property of this module turns on them.

### `ClusterProvider` and `Multicluster`

The informer calls one handler after the other.  A handler that registers a cluster
is five steps (`HandleSecret` disengages the secret's cluster, `DisengageName` the
cluster of that name, then `NewCluster`, `Register`, `Engage`), since the lookups of
the controllers take the same mutex in between and since the middle ones can fail.
`HandleOther` is a deletion, a secret that does not match or a kubeconfig that cannot
be parsed.  `StartCluster` is the goroutine that fills the caches or stops.

`Multicluster` adds, per controller, the queue, the delayed requests, the one worker
and its place in `Reconcile` and `reconcile`: `Take` is the lookup of the client,
`GetRecorder` that of the event recorder, then `TestLock`, `SetLock`, `Read` and the
deferred `Release`.  `news` is what informers have to deliver, `unseen` a history of
changes that no reconcile has read.  A reconcile knows its cluster by a number.  When the
cluster is replaced the number goes out of use and the reconcile that still has the
client holds `Cancelled` (`KeepClient`): it reads nothing of the replacement, under
whatever name and number that is engaged.  What a runtime does with a request for a cluster
that is not found depends on its version, so both answers are possible.

### `TaskPods`

One generation with its options, plugin and approval.  `newTaskOptions` returns where
a script comes from by the number of its option, `ConfigMapData` what the first task
of the generation writes, `generatePod` the containers, volumes, mounts and labels,
`Malformed` what an API server refuses.  `ChooseScript` and `get_current_rerun` are
the entrypoint's.  Pods run one at a time; retries start from setup or init.  There is
one plugin, whose name is its own or that of the approval sidecar; a container is known
by its name and by whose it is, the controller's or the plugin's.  `Sidecars` leaves the
approval out when a sidecar of its name is there (955-963).  The same check among
plugins (927-936) has nothing to compare with one plugin.

### `Binaries`

One script per pod (`pc`), and the server's requests in progress (`upload`,
`download`).  The server opens the file of the cache with truncation (`PutOpens`),
and removes the path when the copy fails (`Remove`): an upload under way then goes on
into a file that has no name.  A pod that reads while another writes gets a part or
the whole.  `cut` and `mixed` say why a file is not what one upload wrote.

## 3. Runs

| Run | Question | Bounds | Distinct states |
|---|---|---|---|
| `lifecycle` | are the types right; is nothing destroyed that was not deleted; are pods found again; do stages move forward; does `Workflow` implement `Lifecycle` | updates that change `ignoreDelete`, deletion at any time; a failed task or request, a crash or a confirmation given up | 12.3 million |
| `recovery` | order of tasks; completed means applied; no second pod; a failed apply is planned again; stages go back only while the cache is behind a write that was given up | a retry or a failed request, or three of a failed task, a deleted pod, a crash and two confirmations given up; kept pods | 6.1 million |
| `reap` | the reaper waits for pods; no second pod; deleted means destroyed | two generations; a failed task or request, a crash or a confirmation given up | 5.7 million |
| `watch_lag` | tasks run in order though the pod watch is late | four pods, enough to reach an apply | 2.5 million |
| `settles` | a workflow ends and a deletion completes | fair, one deleted pod and one confirmation given up | 1.1 million |
| `tofu` | the Tofu controller implements `Workflow` | one trouble of any kind, five pods, reaper of one round | 3.7 million |
| `setup` | pods find their objects; a plugin runs once; tasks start; deletion ends; secrets are released | both controllers, two generations; a failed request or a deleted git secret, or two of a late cache and a crash | 0.6 million |
| `clusters` | the registry is consistent; engaged is as described; what a secret registers gets to run | two secrets that may share a name, two API servers, two changes, two failures | 160 thousand |
| `requests` | no lock is left behind; no change is lost | one secret that is touched, changed or deleted, one failure, both controllers, two changes | 326 thousand |
| `pods` | the right script; no pod refused but for repeats; plans await approval; labels; run numbers; the walk over the tasks against the loops of the source | two options of every kind, or one and a retry, or three retries; a plugin, also one called `require-approval`; an approval | 636 thousand |
| `binaries` | what the cache serves; who has a broken binary | three pods, two of which may die, one crash | 69 thousand |
| `deleted_by_retry` | see below: TLC finds a violation | a deletion and a retry | |

All runs of `Workflow` have one resource and no extra tasks: setup, init, plan, apply
and their destroy counterparts.  A deletion adds a generation, so `MaxGeneration = 1`
still has two.  Every kind of trouble (label changes, deleted pods, failed pods,
crashes, failed requests, confirmations given up) has a bound of its own and the
troubles together have `MaxTroubles`, where label changes and failed requests count
`Weight`. `CHECK_DEADLOCK FALSE` everywhere because a workflow that has ended, a script
that is over and a provider with nothing to deliver rest.

Why the bounds are enough: one trouble can happen at every point of a workflow, and the
properties relate at most two attempts of a task or two neighbouring generations. Two
overlapping retries are not covered.  One confirmation given up lets one write go out
of date; it takes two to write an older task over a newer one.  In `setup` one failed
request reaches every combination of objects that exist and do not, and the second
generation the case of objects of an old one.  In `clusters` two secrets are enough to
take a name from each other, and two changes to give it back. `clusters` and `requests`
are separate because two secrets beside two controllers take too long.  In `pods` two
options are the smallest case of one overriding the other.  In `binaries` three pods
are two that write and one that reads.

Conditions of the properties:

* `DeletedMeansDestroyed` is checked where users delete after the first stage is set
  and do not retry; `deleted_by_retry` shows that it fails otherwise, and so does a
  deletion before the first stage (`DeleteUnstaged = TRUE`).
* `OneLivePodPerTask` is checked with a pod watch that is on time: with
  `PodWatchLag = TRUE` a stage that is in progress and has no pod in the cache yet is
  started again, and TLC shows the second pod.
* `FailedApplyIsPlannedAgain` excuses one step: the code drops the error of
  `removeOldPlan` (781, with a TODO), so a refused removal lets the old plan be
  applied again.  It is about failures that the cache has shown: when the confirmation
  of a failure is given up and the pod is deleted, a reconcile that still reads
  `in-progress` starts the apply again without a plan.  It is checked with at most one
  retry or three other troubles; a retry in the
  second of the pods before it takes their plan for its own (section 4).
* `StageMovesForward` and `ImplementsLifecycle` let a controller whose confirmation was
  given up write an older stage or report an older phase again, until its cache has caught
  up.  Even then no delete phase is reported of a resource that is not deleted
  (`Repeat`), and the finalizer is let go under the same conditions as always.
* `OneLivePodPerTask` holds with a retry, or with confirmations given up.  With a retry
  and two of them TLC finds a second pod: the retry is taken in twice, at two times, a
  write of the first puts its time stamp back, and a reconcile that still reads the
  later one does not find the pod from between and starts another.
* `ScriptsFollowPrecedence` takes the URL from the last option that names the task only,
  whether it has one or not: a source given earlier is lost (see below).
* `PlansAwaitApproval` wants the controller's container, unless a sidecar plugin of the
  plan has its name (see below).
* `TasksAreStarted` and `DeletedIsRemoved` excuse a git secret that is gone, and
  `PodsFindTheirObjects` a lookup of the volume that fails: there the code does stop,
  or does go on without a volume.
* `CachedBinariesAreWhole` excuses a file that is being written, a crash in the
  middle of an upload, and uploads of different binaries of one version at once
  (some pods have a URL of their own): in these cases a partial or mixed file stays.
* `RegisteredRuns` and `ChangesAreRead` are about a secret that keeps a name for
  itself in the end; of two secrets that keep one name the last event wins.

Fairness.  `settles`: the queue is worked off, the watches deliver, the scheduler
starts pods and pods end.  The controller's own steps are one fair disjunction: it has
one worker, and a reconcile that waits for its cache is enabled when the cache is
there.  It need not give up.  `setup`: requests are made, goroutines run, caches catch
up, pods move. `clusters` and `requests`: the informer delivers, goroutines run, delays
expire; strong fairness stands for two things the code has: the work queue is first in,
first out (`Take`), and the informer delivers every secret again every ten hours
(`Resync`).  That is longer than anything else takes, so it waits until the rest is
quiet, and since other work may start again and again weak fairness would never oblige
it to come.  Nowhere are users, crashes, failures or the clock fair.

### Where the code disagrees with itself

`deleted_by_retry` ends in a violation and is listed under `findings`: a retry resets
the phase of a resource that is being deleted (773), so it runs a create workflow and
ends as deleted with no destroy task run.

Observed while modelling, in the models but without a run of their own:

* The pod's phase overwrites `in-progress` (1051), with which 1186 compares, so a new
  generation starts beside an uninterruptible pod once that pod was seen.
* A label that is there before the first task has started replaces the stage's
  reason, and 1919 then looks the generation's resources up for ever.
* The reaper deletes the resources of a generation that started after it read the
  resource (1400-1497).
* `tf_types.go:540` and `:554` say of the lock of git secrets "Works only with
  `spec.ignoreDelete = true`"; `getGitSecrets` locks when it is not set.  Setting it
  during a deletion removes the resource's finalizer with the git secret still locked,
  and so does dropping the reference to the secret.
* A secret that is missing blocks the removal of the resource for ever (1735).
* Deleting an object that the stale cache still shows is an error in one controller
  and tolerated in the other.  Their environment config maps have the same name for a
  Terraform and a Tofu of one name.
* The reconcile lock is tested and set in two calls, and whoever releases it releases
  the other kind's too; two secrets for one API server have different locks.
* A task option without a `source` takes the source of an earlier option for the same
  task away (421), so the default script runs, although the doc of `StageScript`
  (`tf_types.go:437-441`) knows no such case.  The inline script and the selector of the
  earlier option stay.
* A plugin called `require-approval` that is a sidecar of the plan takes the place of
  the controller's sidecar (955), so the plan runs with the user's image and is held only
  if that image holds it.  Line 87 says "The require-approval image is not modifiable via
  the Tf Resource".
* After a confirmation is given up the phase or the stage may go back for a while, for
  example from `deleting` to `initializing-delete`, and a failed apply whose failure the
  cache has not shown runs again (1789-1830).
* Scripts of options for `*` are never used, and the policy rules of the first task only are
  added to a role that all pods of the generation share.
* `validateVolume` lets two options add a volume of one name, which the API server
  refuses.  A sidecar's own `config-map-source` volume is dropped when
  the task has one.
* The goroutine of a plugin's job uses the pod of `generatePod` without looking at its
  error (2404).
* The number of a run is not one number per workflow: after a restart from plan, a
  task before it may have a lower number than the tasks around it.
* The URL that a user gives for a binary comes after the cache, which may hold the
  binary of another URL (`extract-terraform.sh:86`).

## 4. Proofs

What TLC checks on the instances of section 3, TLAPS proves for every value of the
constants.  Each property that is an invariant or forbids steps has a theorem of its
own.  All are about the specification of their module, and none assumes fairness.

| Module | Theorem | States |
|---|---|---|
| `WorkflowProofs` | `TypeInvariant` | `TypeOK` |
| | `DestroySafety` | `DestroyOnlyWhenDeleted` |
| | `TaskOrder` | `TasksRunInOrder` |
| | `CompletedIsApplied` | `CompletedMeansApplied` |
| | `PodsAreNamedForTheirStage` | `PodsAreFound` |
| `StageProofs` | `StageForward` | `StageMovesForward` |
| | `ReaperIsPatient` | `ReaperWaitsForPods`, conditional |
| | `DeletedIsDestroyed` | `DeletedMeansDestroyed`, conditional |
| | `OnePodAtATime` | `OneLivePodPerTask`, conditional |
| | `FailedApplyIsReplanned` | `FailedApplyIsPlannedAgain`, conditional |
| `RefinementProofs` | `WorkflowFollowsLifecycle` | `ImplementsLifecycle` |
| | `TofuRefinesTerraform` | `TofuIsTerraform` |
| | `TofuIsSafe` | safety of Tofu resources |
| `ClusterProofs` | `ProviderTypes` | `ProviderTypeOK` |
| | `RegistriesAgree` | `RegistryAgrees` |
| | `EngagedIsDescribed` | `EngagedAsDescribed` |
| | `RequestTypes` | `Multicluster!TypeOK` |
| | `LocksReleased` | `LocksAreReleased` |
| `SetupProofs` | `SetupTypes` | `ResourceSetup!TypeOK` |
| | `PodsFindObjects` | `PodsFindTheirObjects` |
| | `PluginIsRunOnce` | `PluginRunsOnce` |
| | `GitSecretIsReleased` | `GitSecretsReleased` |
| `PodProofs` | `PodTypes` | `TaskPods!TypeOK` |
| | `ScriptsAreRanked` | `ScriptsFollowPrecedence` |
| | `RunsAreNumbered` | `RunNumbersGrow` |
| | `PlansWait` | `PlansAwaitApproval` |
| | `LabelsAreTheSystems` | `PodsBearTheirLabels` |
| | `RejectedPodsRepeat` | `OnlyRepeatsAreRejected` |
| | `LoopFindsNextTask` | `NextTaskIsTheLoop` |
| `BinariesProofs` | `BinariesTypes` | `Binaries!TypeOK` |
| | `CacheIsWhole` | `CachedBinariesAreWhole` |
| | `OnlyTornAreBroken` | `OnlyTornBinariesAreBroken` |

### Assumptions

Those of the constants, one named `ASSUME` per module that declares them: bounds are
natural numbers, flags are Booleans, labels are not the mark of a missing label,
extra tasks are tasks, the values that stand for "no secret" or "deleted" are no
secrets or API servers.  `ClusterAssumption` wants finitely many secrets (the
informer's first list is a finite sequence of events), `TaskPodsAssumption` at least
one kind of resource (without one there is no initial state).

Four theorems about `Workflow` have hypotheses, which the `cfg` of a run can satisfy:

* `PodWatchLag = FALSE` (`ReaperIsPatient`, `OnePodAtATime`, `FailedApplyIsReplanned`):
  pods are listed from a cache that a watch of its own fills, and nothing in the code
  waits for it.  When it is late a pod in the API server is not on the list: TLC then
  finds the first two properties violated.  The third is not known to fail, but its
  proof needs that an apply has one pod.
* `Labels = {}` (`DeletedIsDestroyed`, `FailedApplyIsReplanned`, and `OnePodAtATime`
  unless `MaxGiveUps = 0`): nobody asks for a retry.  All three properties fail
  otherwise, the last as in section 3.  For the first the run `deleted_by_retry`
  shows it.  For the second TLC finds it with a retry, a failed and a deleted pod in
  one second: pods that are not older than the retry count as its own, in whole
  seconds, so the retry takes over the init and the plan from before it and starts the
  apply on the old plan.
* `DeleteUnstaged = FALSE` (`DeletedIsDestroyed`): nobody deletes a resource before
  its first stage is stored; `checkSetNewStage` then starts a create workflow which
  ends as deleted.

### Arguments

`Workflow`.  What the properties say is not inductive, because the next status is
computed from copies of the resource: the cache, the status in the worker, the
labels of pods in a cache.  Each invariant extends the property to those copies.

* `DestroyInv`: the cached resource and the status in the worker are safe for the
  deletion they were computed from, and a deletion that the cache has seen is in the
  API server.  The heart is `NewStageIsSafe`: no branch of `checkSetNewStage` leads
  from a create workflow to a destroy task, by `NextTaskIsLater` for the branches
  that walk the task order.
* `OrderInv` (on top of it): every pod in the API server and in the pod cache, and
  every status in the API server, its cache and the worker is sound for `done`, the
  tasks that succeeded: those before it are done, and a stage that is complete or in
  phase `completed` is done itself.  `done` only grows, so copies stay sound however
  old they get.
* `ForwardInv`: the status write is blind, so the stage moves forward only if the
  reconcile that computed it saw the last one.  That is what waiting for the
  confirmation is for.  No stage, in any copy, is of a generation that its resource has
  not reached; and unless a confirmation was given up (`~gaveUp`), while no write waits
  for its confirmation the cache shows the generation and task of the API server's stage,
  and the pending write follows it (`Follows`).  The other invariants do without the
  last part: they are about each version of the resource, the outdated ones too.
* `BegunInv` (on top of it): a resource gets its first stage after its first reconcile,
  and a reconcile that still reads it without one is not about to write over a stage.
* `ReaperInv`: the generation that the reaper read is not above the one in the cache,
  so pods that are created later are not older than it; when it cleans up, no older
  pod is left.
* `DeletedInv` (on top of `BegunInv`): a deletion raises the generation, a stage of a
  deleted resource's generation is a destroy task, and the phase `deleted` in any copy
  means that the apply of the destroy workflow has succeeded.
* `RetryInv`: a status is written after its pod was created, and perhaps never, so only
  the list of the next reconcile keeps it from creating the pod again.  The list leaves
  out pods from before the last retry.  A task has one pod since the retry that the API
  server, the cache or the pending write shows (`OnePodSince`), and that is inductive
  only if the cache shows the retry of the API server.  It need not: the confirmation
  of a write does not compare the time of the retry (`Stage.IsEqual`).  `Precedes` and
  `CachePrecedes` say when they differ: while no task of the retry has started, or
  while the next reconcile will see the retry again.  This needs that confirmations are
  waited for.  Without retries the list leaves out no pod, and `OnceInv`, that no task
  has two pods, holds whatever is given up.
* `PlanInv` (on top of `OnceInv` and `ForwardInv`): in the API server, the cache and the
  pending write alike (`Owed`), a stage of a generation whose apply
  was seen to fail is that apply, still failed, or a task up to the plan (`Awaits`), and
  then no pod of the plan is there that has succeeded (`NoPlan`), so the plan cannot
  be taken for complete; the restart deletes the old one.  The message of a stage tells
  its state (`Told`), which carries this over from the API server to a cache that
  confirms a write although it may show another state.  A stage names its pod, which has
  failed if it says so (`Linked`), so the reconcile of a failed apply finds the pod and
  starts none.

`Lifecycle`.  `LifeInv` relates the phase in the cache to the one that the pending
write overwrites (`PhaseStep`) unless a confirmation was given up, and says which
phases any copy may have, also while a deletion is not taken in yet (`Alive`).  `InitMaps`
and `StepMaps` then map the initial states and every step, most of them to a stutter.
While a confirmation is given up a write is a `Repeat`, and `GiveUp` and the step that
catches up are the abstract `FallBehind` and `CatchUp` (`UnsureMaps`).

`TofuWorkflow`.  First each operator of `tofu_controller.go` equals its
counterpart of `tf_controller.go` on values of their types (`SameFinalizer`, `SameIntake`,
`SameNewStage`, `SamePods`, `SameOldPlan`, `SameConfirmation`), then there is one
lemma per action.  The types are `TypeOK`, which holds along a Tofu execution because
each step up to there is one of `Workflow`.  So every theorem about `Spec` applies to
Tofu resources; `TofuIsSafe` spells out those without a hypothesis.

`ClusterProvider`, `Multicluster`.  `RegistryAgrees` and `EngagedAsDescribed` say
little while a handler runs, between whose steps everything else may happen.
`ProviderInv` adds what the handler holds at each of its places (`InHand`), that the
last pending event of a secret says what the secret says now (`LastIsCurrent`), and
that what is registered but not engaged belongs to the handler.  `RequestInv` puts
the place of each worker and the locks beside it; neither changes when a cluster goes
and its number with it.

`ResourceSetup`.  `SetupInv` follows the place in `run`: the objects of the steps
behind it exist for the generation in hand (`ObjectsInv`), pods of the current
generation exist only when all do (`PodsInv`), the number of jobs of a generation is at
most one plus the troubles, and one less while it is about to be made, or may be made
again because neither the status nor the worker's copy notes that the plugin has
started (`PluginInv`), and the git secret is unlocked when the resource's own finalizer is
about to go (`GitInv`).

`TaskPods`.  `PodInv`: once the config map is there it is the one made from the
spec, and a pod is the one `generatePod` makes for the stage (`SidecarsAre` for its
containers).  What a pod bears then follows from the operators for any options of a
spec.  `LogsInv` bounds the numbers
of the log files, so that the maximum in `get_current_rerun` is defined
(`BoundedHasMax`, by well-founded descent).  Two loops of the source are folds, and a
fold is a recursive function that has to be shown to exist.  `FoldOfSidecars` gives it
for the sidecars, of which a pod has at most two: what makes a pod malformed is then
traced through `AddVolumes` back to two volumes of one name in the options of one task
(`MalformedRepeats`), for any options of a spec.  For the loop of `nextTask` the
state after any set of positions is written down (`Walked`), shown to follow the body
of the loop from one position to the next (`WalkOn`), and so to be what the fold
computes (`ScanIs`); after all ten positions it holds the first of the later
configured tasks (`LoopIsNextTask`), as which the other modules take it.

`Binaries`.  `BinariesInv` adds that a pod that stores holds a binary of its own
source, that only a crash cuts a file off, and that only different sources mix.

### Only model-checked

Liveness: `WorkflowSettles`, `DeletionCompletes`, `TasksAreStarted`,
`DeletedIsRemoved`, `RegisteredRuns`, `ChangesAreRead`.  Fairness is a statement about
`ENABLED`, which is outside the reach of the prover.

The theorems are about the models: they rest on the abstractions of section 2, above
all that one reaper is followed at a time.

## 5. Not modelled

* `pkg/multicluster/manager.go`: `Start` runs the provider and the runtime's manager
  until one stops, after which the process exits; the rest forwards calls.
* The node selector cache reads the controller's own deployment once; nothing that is
  modelled depends on when it succeeds.
* Module addresses and the SSH detector, string utilities: parsing, for which unit
  tests are the better tool.
* Environment variables, images, credentials, roles' rules and outputs: data that no
  decision of the controller reads again.
* What the setup and task scripts do in the volume of the resource: a pod that
  succeeds or fails.  `cleanupDisk`, which removes old files beside a pod that may
  write its log, is part of this.
* The list of versions of the cache server only reads.
* Generated code, flags and wiring.

## 6. Plan

What is left, in this order:

1. `FailedApplyIsPlannedAgain` with retries that are a second apart from the pods before
   them: the clock would have to move between a pod and a retry, and `Awaits` to allow
   every task from the one the retry starts with.
2. Two reapers at a time, whose old one may be behind the new one by a generation.
3. The lists of pods that fail without an error (`867`), which no property covers: a
   workflow then waits for its next event.
