------------------------------ MODULE Workflow ------------------------------
(***************************************************************************)
(* One Terraform resource, the reconcile loop that drives its workflow,    *)
(* and the cluster around them (pkg/controllers/tf_controller.go; the Tofu *)
(* controller is its twin).                                                *)
(*                                                                         *)
(* The controller reads from a cache that follows the API server and       *)
(* writes to the API server.  One reconcile is several steps: it reads and *)
(* decides (and creates the task pod, or deletes old ones), it writes the  *)
(* status, it waits for its cache to confirm the write, and it may delete  *)
(* the pod that completed.  Users, pods, the watches and a crash of the    *)
(* controller interleave with these steps.                                 *)
(*                                                                         *)
(* A read that is older than the write that follows it is the same as a    *)
(* cache that was not synchronised in between, so the reads of a reconcile *)
(* are one step.  spec.plugins is empty here and time stamps other than    *)
(* retryTimestamp are left out.                                            *)
(***************************************************************************)
EXTENDS Tasks, FiniteSets

CONSTANTS
    Flags,           \* the sets of flags of the spec that users may set
    Labels,          \* values of the label kubernetes.io/change-cause
    SetupLabels,     \* those with the suffix ".setup"
    PodWatchLag,     \* FALSE: the pod watch delivers every change at once
    DeleteUnstaged,  \* FALSE: no user deletes before the first stage is set
    MaxGeneration,   \* no spec update from this generation on
    MaxRelabels,     \* label changes by users
    MaxPodDeletions, \* task pods deleted by users
    MaxFailedPods,   \* task pods that fail
    MaxCrashes,      \* crashes of the controller in the middle of its work
    MaxFaults,       \* requests the API server fails
    MaxGiveUps,      \* confirmations that are given up
    MaxTroubles,     \* the last six together, where a label change or a
    Weight,          \* failed request counts for this many
    MaxPods,         \* task pods ever created
    MaxReapAttempts, \* 20 in the code
    MaxClock         \* seconds that pass

NoLabel == ""

\* The boolean fields of the spec that the reconcile looks at.
FlagName == {"ignoreDelete", "keepCompletedPods", "keepLatestPodsOnly"}

ASSUME FlagsAssumption ==
    /\ {PodWatchLag, DeleteUnstaged} \subseteq BOOLEAN
    /\ Flags \subseteq SUBSET FlagName
ASSUME LabelsAssumption ==
    /\ NoLabel \notin Labels
    /\ SetupLabels \subseteq Labels
ASSUME BoundsAssumption ==
    {MaxGeneration, MaxRelabels, MaxPodDeletions, MaxFailedPods, MaxCrashes,
     MaxFaults, MaxGiveUps, MaxTroubles, Weight, MaxPods, MaxReapAttempts,
     MaxClock} \subseteq Nat

VARIABLES
    tf,        \* the resource in the API server
    tfCache,   \* the resource in the controller's cache
    pods,      \* the task pods in the API server
    podCache,  \* the task pods in the controller's cache
    prepared,  \* generations whose config map, secret and roles exist
    queued,    \* the resource is in the work queue
    worker,    \* the reconcile in progress
    reaper,    \* the goroutine that reaps old generations
    clock,     \* the time, in seconds
    podsCreated,
    used,      \* how much of each bound is used up
    gaveUp,    \* history: a confirmation was given up and the cache is behind
    done,      \* history: <<generation, task>> of the pods that succeeded
    replan     \* history: <<generation, task>> of an apply that the cache has
               \* shown as failed and that was not planned again

cluster == <<tf, pods, prepared>>
caches  == <<tfCache, podCache>>
bounds  == <<clock, podsCreated, used>>
history == <<gaveUp, done, replan>>
vars    == <<cluster, caches, queued, worker, reaper, bounds, history>>
-----------------------------------------------------------------------------
(***************************************************************************)
(* The resource.                                                           *)
(***************************************************************************)
DeletePhase == {"initializing-delete", "deleting", "deleted"}
Phase       == {"", "initializing", "running", "completed"} \union DeletePhase
PodPhase    == {"Pending", "Running", "Succeeded", "Failed"}
State       == {"", "initializing", "in-progress", "complete", "failed",
                "Pending", "Running"}
\* The reason of a stage: a retry's is its label, COMPLETED_X is written X.
Reason == {"", "TF_RESOURCE_CREATED", "GENERATION_CHANGE",
           "TF_RESOURCE_DELETED", "RESTARTED_WORKFLOW",
           "RESTARTED_DELETE_WORKFLOW"} \union Labels \union TaskName

Stage == [generation : Nat, task : TaskName, reason : Reason,
          interruptible : BOOLEAN, state : State,
          podName : Nat, message : PodPhase \union {""}]

Status == [prefix : BOOLEAN, phase : Phase, stage : Stage,
           retryReason : Labels \union {NoLabel}, retryTimestamp : Nat]

Resource == [exists : BOOLEAN, generation : Nat, deleting : BOOLEAN,
             finalizer : BOOLEAN, flags : SUBSET FlagName,
             label : Labels \union {NoLabel}, status : Status]

Pod == [uid : Nat, generation : Nat, version : Nat, task : Task,
        phase : PodPhase, created : Nat]

NoStage == [generation |-> 0, task |-> RunNil, reason |-> "",
            interruptible |-> FALSE, state |-> "", podName |-> 0,
            message |-> ""]

NoStatus == [prefix |-> FALSE, phase |-> "", stage |-> NoStage,
             retryReason |-> NoLabel, retryTimestamp |-> 0]

NewResource(flags) ==
    [exists |-> TRUE, generation |-> 1, deleting |-> FALSE,
     finalizer |-> FALSE, flags |-> flags, label |-> NoLabel,
     status |-> NoStatus]

IgnoresDelete(t)       == "ignoreDelete" \in t.flags
KeepsCompletedPods(t)  == "keepCompletedPods" \in t.flags
KeepsLatestPodsOnly(t) == "keepLatestPodsOnly" \in t.flags

Worker == [pc : {"idle", "write", "confirm", "deletePod"}, status : Status,
           onError : BOOLEAN, then : {"return", "deletePod", "reap"},
           pod : Nat]

Idle == [pc |-> "idle", status |-> NoStatus, onError |-> FALSE,
         then |-> "return", pod |-> 0]

Reaper == [pc : {"off", "read", "delete", "list", "cleanup"}, generation : Nat,
           attempt : Nat]

NoReaper == [pc |-> "off", generation |-> 0, attempt |-> 0]

Counters == {"relabels", "podDeletions", "failedPods", "crashes", "faults",
             "giveUps"}

Cost(counter) == IF counter \in {"relabels", "faults"} THEN Weight ELSE 1

Troubles == used["podDeletions"] + used["failedPods"] + used["crashes"]
            + used["giveUps"] + Weight * (used["relabels"] + used["faults"])

Uses(counter, max) == /\ used[counter] < max
                      /\ Troubles + Cost(counter) <= MaxTroubles
                      /\ used' = [used EXCEPT ![counter] = @ + 1]

\* A request that the API server fails.
Fault == Uses("faults", MaxFaults)

TypeOK ==
    /\ tf \in Resource
    /\ tfCache \in Resource
    /\ pods \subseteq Pod
    /\ podCache \subseteq Pod
    /\ prepared \subseteq Nat
    /\ queued \in BOOLEAN
    /\ worker \in Worker
    /\ reaper \in Reaper
    /\ clock \in Nat
    /\ podsCreated \in Nat
    /\ gaveUp \in BOOLEAN
    /\ used \in [Counters -> Nat]
    /\ done \subseteq Nat \X Task
    /\ replan \subseteq Nat \X Task

Init ==
    /\ \E f \in Flags : tf = NewResource(f)
    /\ tfCache = tf
    /\ pods = {}
    /\ podCache = {}
    /\ prepared = {}
    /\ queued = TRUE
    /\ worker = Idle
    /\ reaper = NoReaper
    /\ clock = 0
    /\ podsCreated = 0
    /\ used = [c \in Counters |-> 0]
    /\ gaveUp = FALSE
    /\ done = {}
    /\ replan = {}
-----------------------------------------------------------------------------
(***************************************************************************)
(* What a reconcile decides.  t is the resource as it was read, s the      *)
(* status that the reconcile changes in memory.                            *)
(***************************************************************************)
IsRetry(t) == t.label # NoLabel /\ t.status.retryReason # t.label

\* Mutant: the deletion time stamp is not looked at.
IntakeUnasked(t) ==
    IF t.status.phase \notin DeletePhase
    THEN [t.status EXCEPT !.phase = "initializing-delete"]
    ELSE t.status

\* The changes made before checkSetNewStage: a resource that is being deleted
\* enters the delete phases, and a new label is a retry, which puts the phase
\* back to initializing.
Intake(t) ==
    IF IsRetry(t)
    THEN [t.status EXCEPT !.phase = "initializing",
                          !.retryReason = t.label,
                          !.retryTimestamp = clock]
    ELSE IF t.deleting /\ t.status.phase \notin DeletePhase
    THEN [t.status EXCEPT !.phase = "initializing-delete"]
    ELSE t.status

newStage(t, task, reason, interruptible, state) ==
    [generation |-> t.generation, task |-> task, reason |-> reason,
     interruptible |-> interruptible, state |-> state, podName |-> 0,
     message |-> ""]

\* Mutant: a retry starts from the plan.
RetryStageAtPlan(t, s) ==
    newStage(t, "plan", s.retryReason, FALSE, "initializing")

RetryStage(t, s) ==
    LET fromSetup == s.retryReason \in SetupLabels
        task == IF s.phase \in DeletePhase
                THEN IF fromSetup THEN "setup-delete" ELSE "init-delete"
                ELSE IF fromSetup THEN "setup" ELSE "init"
    IN  newStage(t, task, s.retryReason, isTaskInterruptable(task),
                 "initializing")

\* Mutant: the destroy workflow starts with the wrong setup task.
FirstStageCreates(t, s) ==
    IF s.phase \in DeletePhase
    THEN newStage(t, "setup", "TF_RESOURCE_DELETED",
                  s.phase # "initializing-delete", "initializing")
    ELSE newStage(t, "setup", "GENERATION_CHANGE", TRUE, "initializing")

FirstStageOfGeneration(t, s) ==
    IF s.phase \in DeletePhase
    THEN newStage(t, "setup-delete", "TF_RESOURCE_DELETED",
                  s.phase # "initializing-delete", "initializing")
    ELSE newStage(t, "setup", "GENERATION_CHANGE", TRUE, "initializing")

StageAfter(t, s) ==
    LET task == nextTask(s.stage.task, ConfiguredTasks)
    IN  newStage(t, task, s.stage.task, isTaskInterruptable(task),
                 IF task = RunNil THEN "complete" ELSE "initializing")

\* Mutant: a restart runs the failed apply again.
RestartAtApply(t, s) ==
    newStage(t, s.stage.task, "RESTARTED_WORKFLOW", FALSE, "initializing")

RestartStage(t, s) ==
    LET create == s.stage.task = "apply"
        task   == nextTask(IF create THEN "postinit" ELSE "postinit-delete",
                           ConfiguredTasks)
    IN  newStage(t, task,
                 IF create THEN "RESTARTED_WORKFLOW"
                           ELSE "RESTARTED_DELETE_WORKFLOW",
                 isTaskInterruptable(task), "initializing")

\* Mutant: a stage blocks whether or not it runs.
BlockedByTask(s) == ~s.stage.interruptible

\* The stage is running and cannot be interrupted.
Blocked(s) == ~s.stage.interruptible /\ s.stage.state = "in-progress"

\* checkSetNewStage: the stage that replaces the current one, if any.
checkSetNewStage(t, s) ==
    LET isNewGeneration == s.stage.generation # t.generation
        podGone == ~ \E p \in podCache : p.uid = s.stage.podName
    IN  IF IsRetry(t) /\ ~isNewGeneration THEN {RetryStage(t, s)}
        ELSE IF Blocked(s) THEN {}
        ELSE IF isNewGeneration THEN {FirstStageOfGeneration(t, s)}
        ELSE IF s.stage.state = "complete" /\ s.stage.task # RunNil
             THEN {StageAfter(t, s)}
        ELSE IF /\ s.stage.state = "failed"
                /\ s.stage.task \in {"apply", "apply-delete"}
                /\ podGone
             THEN {RestartStage(t, s)}
        ELSE {}

\* Mutants: pods that are not scheduled yet are left out; the name prefix does
\* not hold the task; a pod of the second of the retry is taken for an old one.
StagePodsScheduled(t, s) ==
    {p \in podCache : /\ ~IsRetry(t)
                      /\ p.generation = s.stage.generation
                      /\ p.task = s.stage.task
                      /\ p.phase # "Pending"}
StagePodsOfGeneration(t, s) ==
    {p \in podCache : ~IsRetry(t) /\ p.generation = s.stage.generation}
StagePodsAfterRetry(t, s) ==
    {p \in podCache : /\ ~IsRetry(t)
                      /\ p.generation = s.stage.generation
                      /\ p.task = s.stage.task
                      /\ s.retryReason # NoLabel => p.created > s.retryTimestamp}

\* The pods that the reconcile lists for its stage: by the name prefix, which
\* holds the version, and the labels.  Pods older than the last retry do not
\* count, and in the reconcile that sees the retry every pod is older.
StagePods(t, s) ==
    {p \in podCache : /\ ~IsRetry(t)
                      /\ p.generation = s.stage.generation
                      /\ p.version = s.stage.generation
                      /\ p.task = s.stage.task
                      /\ p.created >= s.retryTimestamp}

\* Mutants: the phase of the pod is stored as it is; a pod that failed completes
\* its stage.
StageStateIsPhase(phase) == phase
StageStateAfterAnyEnd(phase) ==
    IF phase \in {"Succeeded", "Failed"} THEN "complete" ELSE phase

\* The state of a stage whose pod is in the given phase.
StageState(phase) == CASE phase = "Failed" -> "failed"
                       [] phase = "Succeeded" -> "complete"
                       [] OTHER -> phase

\* The stages for which run() creates the generation's resources; the others
\* only check that they exist.
CreatesResources(stage) ==
    stage.reason \in {"TF_RESOURCE_CREATED", "GENERATION_CHANGE",
                      "TF_RESOURCE_DELETED"}

\* The generations whose resources run() has created or finds.
PreparedFor(t, stage) ==
    IF CreatesResources(stage) THEN prepared \union {t.generation} ELSE prepared

\* The pod that createPod creates: its name holds the resource's generation, its
\* label the stage's.
NewPod(t, stage) ==
    [uid |-> podsCreated + 1, version |-> t.generation,
     generation |-> stage.generation, task |-> stage.task,
     phase |-> "Pending", created |-> clock]

\* The pods that removeOldPlan deletes.
OldPlanPods(t, reason) ==
    LET kept == CASE reason = "RESTARTED_WORKFLOW" ->
                       {"setup", "preinit", "init", "postinit"}
                  [] reason = "RESTARTED_DELETE_WORKFLOW" ->
                       {"setup-delete", "preinit-delete", "init-delete",
                        "postinit-delete"}
                  [] OTHER -> {}
    IN  {p \in pods : /\ p.generation = t.generation
                      /\ p.phase # "Running"
                      /\ p.task \notin kept}
-----------------------------------------------------------------------------
(***************************************************************************)
(* The reconcile's first step.                                             *)
(***************************************************************************)
\* The worker takes the resource from the queue.
Takes == /\ worker.pc = "idle"
         /\ queued

\* The reconcile returns; with an error or Requeue it is queued again.
Return(again) == worker' = Idle /\ queued' = again

\* The reconcile goes on to write the status s.
Save(s, onError, then, pod) ==
    /\ worker' = [pc |-> "write", status |-> s, onError |-> onError,
                  then |-> then, pod |-> pod]
    /\ queued' = FALSE

\* Mutant: the update does not check the version.
UpdateFinalizerBlind(t, finalizer) ==
    /\ tf' = [tf EXCEPT !.finalizer = finalizer,
                        !.exists = finalizer \/ ~tf.deleting]
    /\ Return(FALSE)
    /\ UNCHANGED used

\* Update of the object: the API server refuses an outdated version.  Without
\* its finalizer an object that is being deleted is gone.
UpdateFinalizer(t, finalizer) ==
    \/ /\ t = tf
       /\ tf' = [tf EXCEPT !.finalizer = finalizer,
                           !.exists = finalizer \/ ~tf.deleting]
       /\ Return(FALSE)
       /\ UNCHANGED used
    \/ /\ t # tf
       /\ Return(TRUE)
       /\ UNCHANGED <<tf, used>>
    \/ /\ Fault
       /\ Return(TRUE)
       /\ UNCHANGED tf

\* The resource is not found.
ReconcileNotFound ==
    /\ Takes
    /\ ~tfCache.exists
    /\ Return(FALSE)
    /\ UNCHANGED <<cluster, caches, reaper, bounds, history>>

\* The finalizer that updateFinalizer leaves on the resource.
updateFinalizer(t) ==
    ~IgnoresDelete(t) /\ (t.status.phase = "deleted" => ~t.finalizer)

\* The phase is deleted: the finalizer is removed.
ReconcileDeleted ==
    /\ Takes
    /\ tfCache.exists
    /\ tfCache.status.phase = "deleted"
    /\ UpdateFinalizer(tfCache, updateFinalizer(tfCache))
    /\ UNCHANGED <<pods, prepared, caches, reaper, clock, podsCreated, history>>

\* The finalizers of a resource that is not deleted change.
ReconcileFinalizer ==
    /\ Takes
    /\ tfCache.exists
    /\ tfCache.status.phase # "deleted"
    /\ tfCache.finalizer # updateFinalizer(tfCache)
    /\ UpdateFinalizer(tfCache, updateFinalizer(tfCache))
    /\ UNCHANGED <<pods, prepared, caches, reaper, clock, podsCreated, history>>

\* The resource is past the finalizers.
TakesFinalized == /\ Takes
                  /\ tfCache.exists
                  /\ tfCache.status.phase # "deleted"
                  /\ tfCache.finalizer = updateFinalizer(tfCache)

InitializeResource ==
    /\ TakesFinalized
    /\ ~tfCache.status.prefix
    /\ Save([tfCache.status EXCEPT !.prefix = TRUE, !.phase = "initializing"],
            FALSE, "return", 0)
    /\ UNCHANGED <<cluster, caches, reaper, bounds, history>>

AddFirstStage ==
    /\ TakesFinalized
    /\ tfCache.status.prefix
    /\ tfCache.status.stage.generation = 0
    /\ Save([tfCache.status EXCEPT
               !.stage = newStage(tfCache, "setup", "TF_RESOURCE_CREATED",
                                  FALSE, "initializing")],
            TRUE, "return", 0)
    /\ UNCHANGED <<cluster, caches, reaper, bounds, history>>

\* The resource has a stage: the reconcile reaches checkSetNewStage.
TakesStaged == /\ TakesFinalized
               /\ tfCache.status.prefix
               /\ tfCache.status.stage.generation # 0

\* The stage changes.  A restart first removes the old plan's pods (with the
\* reason of the stage it leaves, and an error is ignored).
SetNewStage ==
    LET t == tfCache
        s == Intake(t)
    IN  /\ TakesStaged
        /\ \E stage \in checkSetNewStage(t, s) :
             /\ Save([s EXCEPT
                        !.stage = stage,
                        !.phase = IF stage.reason = "GENERATION_CHANGE"
                                  THEN "initializing" ELSE @],
                     FALSE, IF KeepsLatestPodsOnly(t) THEN "reap" ELSE "return", 0)
             /\ IF stage.reason \in {"RESTARTED_WORKFLOW",
                                     "RESTARTED_DELETE_WORKFLOW"}
                THEN \/ /\ pods' = pods \ OldPlanPods(t, s.stage.reason)
                        /\ UNCHANGED <<used, replan>>
                     \/ /\ Fault
                        /\ replan' = {}
                        /\ UNCHANGED pods
                ELSE UNCHANGED <<pods, used, replan>>
        /\ UNCHANGED <<tf, prepared, caches, reaper, clock, podsCreated, gaveUp, done>>

\* The reconcile keeps its stage.
TakesSameStage(s) == TakesStaged /\ checkSetNewStage(tfCache, s) = {}

\* Mutant: the end of a destroy workflow is not written down.
FinishWorkflowOnce ==
    LET s == Intake(tfCache)
    IN  /\ TakesSameStage(s)
        /\ s.stage.task = RunNil
        /\ IF s.phase = "running"
           THEN Save([s EXCEPT !.phase = "completed"], TRUE, "return", 0)
           ELSE Return(FALSE)
        /\ UNCHANGED <<cluster, caches, reaper, bounds, history>>

\* There is no task left: the phase ends.
FinishWorkflow ==
    LET s == Intake(tfCache)
    IN  /\ TakesSameStage(s)
        /\ s.stage.task = RunNil
        /\ CASE s.phase = "running" ->
                  Save([s EXCEPT !.phase = "completed"], TRUE, "return", 0)
             [] s.phase = "deleting" ->
                  Save([s EXCEPT !.phase = "deleted"], TRUE, "return", 0)
             [] OTHER -> Return(FALSE)
        /\ UNCHANGED <<cluster, caches, reaper, bounds, history>>

\* The list of the stage's pods fails: logged, and not queued again.
ListFails ==
    /\ TakesSameStage(Intake(tfCache))
    /\ tfCache.status.stage.task # RunNil
    /\ Fault
    /\ Return(FALSE)
    /\ UNCHANGED <<cluster, caches, reaper, clock, podsCreated, history>>

\* Mutant: the stage stays in progress.
LosePodForgets ==
    LET s == Intake(tfCache)
    IN  /\ TakesSameStage(s)
        /\ s.stage.task # RunNil
        /\ StagePods(tfCache, s) = {}
        /\ s.stage.state = "in-progress"
        /\ Save(s, TRUE, "return", 0)
        /\ UNCHANGED <<cluster, caches, reaper, bounds, history>>

\* The pod of a stage in progress is gone.
LosePod ==
    LET s == Intake(tfCache)
    IN  /\ TakesSameStage(s)
        /\ s.stage.task # RunNil
        /\ StagePods(tfCache, s) = {}
        /\ s.stage.state = "in-progress"
        /\ Save([s EXCEPT !.stage.state = "initializing"], TRUE, "return", 0)
        /\ UNCHANGED <<cluster, caches, reaper, bounds, history>>

\* setupAndRun: the generation's resources are created or found, and the
\* task's pod is created.
StartTask ==
    LET t == tfCache
        s == Intake(t)
        have == PreparedFor(t, s.stage)
    IN  /\ TakesSameStage(s)
        /\ s.stage.task # RunNil
        /\ StagePods(t, s) = {}
        /\ s.stage.state # "in-progress"
        /\ \/ /\ t.generation \in have
              /\ podsCreated < MaxPods
              /\ pods' = pods \union {NewPod(t, s.stage)}
              /\ podsCreated' = podsCreated + 1
              /\ prepared' = have
              /\ Save([s EXCEPT
                         !.stage.state = "in-progress",
                         !.phase = CASE @ = "initializing" -> "running"
                                     [] @ = "initializing-delete" -> "deleting"
                                     [] OTHER -> @],
                      TRUE, "return", 0)
              /\ UNCHANGED used
           \/ \* a resource is missing, or a request fails
              /\ \/ t.generation \notin have /\ UNCHANGED used
                 \/ Fault
              /\ prepared' \in {prepared, have}
              /\ Return(TRUE)
              /\ UNCHANGED <<pods, podsCreated>>
        /\ UNCHANGED <<tf, caches, reaper, clock, history>>

\* A pod of the stage is found.
ObservePod ==
    LET t == tfCache
        s == Intake(t)
    IN  /\ TakesSameStage(s)
        /\ s.stage.task # RunNil
        /\ \E p \in StagePods(t, s) :
             Save([s EXCEPT
                     !.stage.podName = p.uid,
                     !.stage.message = p.phase,
                     !.stage.state = StageState(p.phase)],
                  TRUE,
                  IF /\ p.phase = "Succeeded"
                     /\ ~KeepsCompletedPods(t) /\ ~KeepsLatestPodsOnly(t)
                  THEN "deletePod" ELSE "return",
                  p.uid)
        /\ UNCHANGED <<cluster, caches, reaper, bounds, history>>
-----------------------------------------------------------------------------
(***************************************************************************)
(* The reconcile's later steps.                                            *)
(***************************************************************************)
\* go backgroundReapOldGenerationPods.  One goroutine is followed at a time.
StartsReaper ==
    reaper' = IF worker.then = "reap" /\ reaper.pc = "off"
              THEN [NoReaper EXCEPT !.pc = "read"] ELSE reaper

\* The apply that a stage reports as failed.
FailedApply(stage) ==
    IF stage.state = "failed" /\ stage.task \in {"apply", "apply-delete"}
    THEN {<<stage.generation, stage.task>>} ELSE {}

\* The cache is no longer behind, and no reconcile that read it before is about
\* to write: every decision from now on is made on the resource as it is.
CatchesUp == /\ gaveUp' = FALSE
             /\ replan' = replan \union FailedApply(tf.status.stage)

\* updateStatusWithRetry: a conflict is retried with the same status, so the
\* write is blind.  It is confirmed by the cache later.
WriteStatus ==
    /\ worker.pc = "write"
    /\ tf.exists
    /\ tf' = [tf EXCEPT !.status = worker.status]
    /\ worker' = [worker EXCEPT !.pc = "confirm"]
    /\ UNCHANGED <<pods, prepared, caches, queued, reaper, bounds, history>>

\* The ten attempts to write fail, or the resource is gone.
WriteStatusFails ==
    /\ worker.pc = "write"
    /\ \/ ~tf.exists /\ UNCHANGED used
       \/ Fault
    /\ worker' = Idle
    /\ queued' = (queued \/ worker.onError)
    /\ StartsReaper
    /\ IF tfCache = tf THEN CatchesUp ELSE UNCHANGED <<gaveUp, replan>>
    /\ UNCHANGED <<cluster, caches, clock, podsCreated, done>>

\* What updateStatusWithRetry compares: not the state of the stage.
Confirmed(have, want) ==
    /\ have.prefix = want.prefix
    /\ have.phase = want.phase
    /\ [have.stage EXCEPT !.state = ""] = [want.stage EXCEPT !.state = ""]

\* updateStatusWithRetry returns no error.
Written == /\ worker' = IF worker.then = "deletePod"
                        THEN [worker EXCEPT !.pc = "deletePod"] ELSE Idle
           /\ UNCHANGED queued

\* It returns an error.
NotWritten == /\ worker' = Idle
              /\ queued' = (queued \/ worker.onError)

\* Mutant: the reconcile returns as soon as the status is written.
ConfirmStatusUnread ==
    /\ worker.pc = "confirm"
    /\ Written
    /\ StartsReaper
    /\ UNCHANGED <<cluster, caches, bounds, history>>

ConfirmStatus ==
    /\ worker.pc = "confirm"
    /\ \/ /\ tfCache.exists
          /\ Confirmed(tfCache.status, worker.status)
          /\ Written
       \/ /\ ~tfCache.exists
          /\ NotWritten
    /\ StartsReaper
    /\ UNCHANGED <<cluster, caches, bounds, history>>

\* The ten rounds are over and the cache is still behind: an error when the last
\* update met a conflict, none when it was accepted and is not confirmed.  In
\* both cases the status is written.
GiveUp ==
    /\ worker.pc = "confirm"
    /\ tfCache.exists
    /\ tfCache # tf
    /\ Uses("giveUps", MaxGiveUps)
    /\ \/ NotWritten
       \/ /\ ~Confirmed(tfCache.status, worker.status)
          /\ Written
    /\ StartsReaper
    /\ gaveUp' = TRUE
    /\ UNCHANGED <<cluster, caches, clock, podsCreated, done, replan>>

\* The pod that succeeded is deleted; an error is only logged.
DeleteCompletedPod ==
    /\ worker.pc = "deletePod"
    /\ \/ /\ pods' = {p \in pods : p.uid # worker.pod}
          /\ UNCHANGED used
       \/ /\ Fault
          /\ UNCHANGED pods
    /\ worker' = Idle
    /\ UNCHANGED <<tf, prepared, caches, queued, reaper, clock, podsCreated, history>>
-----------------------------------------------------------------------------
(***************************************************************************)
(* backgroundReapOldGenerationPods: it reads the resource and deletes the  *)
(* pods of other generations that do not run; it tries again while any is  *)
(* left and then deletes the resources of other generations.               *)
(***************************************************************************)
ReaperReads ==
    /\ reaper.pc = "read"
    /\ reaper' = IF tfCache.exists /\ reaper.attempt <= MaxReapAttempts
                 THEN [reaper EXCEPT !.pc = "delete",
                                     !.generation = tfCache.generation]
                 ELSE NoReaper
    /\ UNCHANGED <<cluster, caches, queued, worker, bounds, history>>

ReaperDeletesPods ==
    /\ reaper.pc = "delete"
    /\ pods' = {p \in pods : \/ p.generation = reaper.generation
                              \/ p.phase = "Running"}
    /\ reaper' = [reaper EXCEPT !.pc = "list"]
    /\ UNCHANGED <<tf, prepared, caches, queued, worker, bounds, history>>

\* Mutant: the reaper does not wait.
ReaperListsNothing ==
    /\ reaper.pc = "list"
    /\ reaper' = [reaper EXCEPT !.pc = "cleanup"]
    /\ UNCHANGED <<cluster, caches, queued, worker, bounds, history>>

ReaperListsPods ==
    /\ reaper.pc = "list"
    /\ reaper' = IF \E p \in podCache : p.generation # reaper.generation
                 THEN [reaper EXCEPT !.pc = "read", !.attempt = @ + 1]
                 ELSE [reaper EXCEPT !.pc = "cleanup"]
    /\ UNCHANGED <<cluster, caches, queued, worker, bounds, history>>

ReaperCleansUp ==
    /\ reaper.pc = "cleanup"
    /\ prepared' = prepared \intersect {reaper.generation}
    /\ reaper' = NoReaper
    /\ UNCHANGED <<tf, pods, caches, queued, worker, bounds, history>>

\* A request of the reaper fails: it gives up, and the clean-up may be partial.
ReaperFails ==
    /\ reaper.pc # "off"
    /\ Fault
    /\ reaper' = NoReaper
    /\ \/ UNCHANGED prepared
       \/ /\ reaper.pc = "cleanup"
          /\ prepared' = prepared \intersect {reaper.generation}
    /\ UNCHANGED <<tf, pods, caches, queued, worker, clock, podsCreated, history>>
-----------------------------------------------------------------------------
(***************************************************************************)
(* The cluster: users, pods, watches, and crashes of the controller.       *)
(***************************************************************************)
UserUpdatesSpec ==
    /\ tf.exists
    /\ tf.generation < MaxGeneration
    /\ \E f \in Flags : tf' = [tf EXCEPT !.generation = @ + 1, !.flags = f]
    /\ UNCHANGED <<pods, prepared, caches, queued, worker, reaper, bounds, history>>

\* The API server keeps an object that has a finalizer, sets its deletion
\* time stamp and increments its generation.
UserDeletes ==
    /\ tf.exists
    /\ ~tf.deleting
    /\ DeleteUnstaged \/ tf.status.stage.generation # 0
    /\ tf' = IF tf.finalizer
             THEN [tf EXCEPT !.deleting = TRUE, !.generation = @ + 1]
             ELSE [tf EXCEPT !.exists = FALSE]
    /\ UNCHANGED <<pods, prepared, caches, queued, worker, reaper, bounds, history>>

UserRelabels ==
    /\ tf.exists
    /\ \E l \in Labels \ {tf.label} : tf' = [tf EXCEPT !.label = l]
    /\ Uses("relabels", MaxRelabels)
    /\ UNCHANGED <<pods, prepared, caches, queued, worker, reaper, clock,
                   podsCreated, history>>

UserDeletesPod ==
    /\ \E p \in pods : pods' = pods \ {p}
    /\ Uses("podDeletions", MaxPodDeletions)
    /\ UNCHANGED <<tf, prepared, caches, queued, worker, reaper, clock,
                   podsCreated, history>>

\* The pods of a resource that is gone are garbage.
GarbageCollect ==
    /\ ~tf.exists
    /\ pods # {}
    /\ pods' = {}
    /\ UNCHANGED <<tf, prepared, caches, queued, worker, reaper, bounds, history>>

PodRuns ==
    /\ \E p \in pods :
         /\ p.phase = "Pending"
         /\ pods' = (pods \ {p}) \union {[p EXCEPT !.phase = "Running"]}
    /\ UNCHANGED <<tf, prepared, caches, queued, worker, reaper, bounds, history>>

ApplyOf(task) == IF task = "plan" THEN "apply" ELSE "apply-delete"

PodSucceeds ==
    /\ \E p \in pods :
         /\ p.phase = "Running"
         /\ pods' = (pods \ {p}) \union {[p EXCEPT !.phase = "Succeeded"]}
         /\ done' = done \union {<<p.generation, p.task>>}
         /\ replan' = IF p.task \in {"plan", "plan-delete"}
                      THEN replan \ {<<p.generation, ApplyOf(p.task)>>}
                      ELSE replan
    /\ UNCHANGED <<tf, prepared, caches, queued, worker, reaper, bounds, gaveUp>>

PodFails ==
    /\ \E p \in pods :
         /\ p.phase = "Running"
         /\ pods' = (pods \ {p}) \union {[p EXCEPT !.phase = "Failed"]}
    /\ Uses("failedPods", MaxFailedPods)
    /\ UNCHANGED <<tf, prepared, caches, queued, worker, reaper, clock,
                   podsCreated, history>>

\* Time is read when a reconcile starts, and compared with that of a retry, so
\* it need not pass at other moments or before a label asks for one.
Tick ==
    /\ Takes
    /\ tf.label # NoLabel
    /\ clock < MaxClock
    /\ clock' = clock + 1
    /\ UNCHANGED <<cluster, caches, queued, worker, reaper, podsCreated, used,
                   history>>

\* The watches: a change reaches the cache and queues the resource.
SyncResource ==
    /\ tfCache # tf
    /\ tfCache' = tf
    /\ queued' = TRUE
    /\ IF worker.pc = "write" THEN UNCHANGED <<gaveUp, replan>> ELSE CatchesUp
    /\ UNCHANGED <<cluster, podCache, worker, reaper, bounds, done>>

SyncPods ==
    /\ podCache # pods
    /\ podCache' = pods
    /\ queued' = TRUE
    /\ UNCHANGED <<cluster, tfCache, worker, reaper, bounds, history>>

\* The controller stops in the middle of its work; the next one starts with
\* new caches and queues every resource.
Crash ==
    /\ worker.pc # "idle" \/ reaper.pc # "off"
    /\ Uses("crashes", MaxCrashes)
    /\ worker' = Idle
    /\ reaper' = NoReaper
    /\ tfCache' = tf
    /\ podCache' = pods
    /\ queued' = tf.exists
    /\ CatchesUp
    /\ UNCHANGED <<cluster, clock, podsCreated, done>>
-----------------------------------------------------------------------------
Reconcile ==
    \/ ReconcileNotFound \/ ReconcileDeleted \/ ReconcileFinalizer
    \/ InitializeResource \/ AddFirstStage \/ SetNewStage \/ FinishWorkflow
    \/ ListFails \/ LosePod \/ StartTask \/ ObservePod
    \/ WriteStatus \/ WriteStatusFails \/ ConfirmStatus \/ GiveUp
    \/ DeleteCompletedPod

Reap == \/ ReaperReads \/ ReaperDeletesPods \/ ReaperListsPods
        \/ ReaperCleansUp \/ ReaperFails

User == UserUpdatesSpec \/ UserDeletes \/ UserRelabels \/ UserDeletesPod

Environment == \/ GarbageCollect \/ PodRuns \/ PodSucceeds \/ PodFails
               \/ Tick \/ SyncResource \/ Crash

\* Without PodWatchLag nothing happens between a change of the pods and its
\* arrival in the cache.
PodsKnown == PodWatchLag \/ podCache = pods

Next == \/ SyncPods
        \/ PodsKnown /\ (Reconcile \/ Reap \/ User \/ Environment)

Spec == Init /\ [][Next]_vars

\* The controller works as long as there is work, the watches deliver, and
\* pods are scheduled and terminate.  Users, crashes and faults are not fair.
Fairness ==
    /\ WF_vars(SyncPods)
    /\ WF_vars(PodsKnown /\ SyncResource)
    /\ WF_vars(PodsKnown /\ Reconcile)
    /\ WF_vars(PodsKnown /\ Reap)
    /\ WF_vars(PodsKnown /\ PodRuns)
    /\ WF_vars(PodsKnown /\ (PodSucceeds \/ PodFails))

FairSpec == Spec /\ Fairness

-----------------------------------------------------------------------------
(***************************************************************************)
(* Properties.                                                             *)
(***************************************************************************)
\* No destroy task runs, and no delete phase is entered, unless a user has
\* deleted the resource: whatever the order of retries, updates, crashes and
\* outdated reads, the controller never destroys infrastructure on its own.
DestroyOnlyWhenDeleted ==
    /\ \A p \in pods : p.task \in DeleteTask => tf.deleting
    /\ tf.status.stage.task \in DeleteTask => tf.deleting
    /\ tf.status.phase \in DeletePhase => tf.deleting

\* The tasks from which a retry or a first stage may start.
Before(task) == IF task \in CreateTask
                THEN {u \in Earlier(task, ConfiguredTasks) : ID[u] >= ID["init"]}
                ELSE Earlier(task, ConfiguredTasks)

\* A task of a generation only runs when every configured task before it has
\* succeeded in that generation (a retry may leave out setup): an apply never
\* runs without an init and a plan of its own generation.
TasksRunInOrder ==
    \A p \in pods : \A u \in Before(p.task) : <<p.generation, u>> \in done

\* A resource that says it is completed has been applied, in the generation
\* of its stage.
CompletedMeansApplied ==
    tf.status.phase = "completed" =>
        <<tf.status.stage.generation, "apply">> \in done

\* A resource whose deletion is reported as done has been destroyed.
DeletedMeansDestroyed ==
    tf.status.phase = "deleted" =>
        <<tf.status.stage.generation, "apply-delete">> \in done

IsLive(p) == p.phase \in {"Pending", "Running"}

\* Since the last retry a task of a generation never has two live pods: a pod
\* that was created is found again, after a crash between its creation and the
\* status update as well.  With two confirmations given up around a retry it may
\* not be: the runs with retries give up one.
OneLivePodPerTask ==
    \A p, q \in pods :
        /\ IsLive(p) /\ IsLive(q)
        /\ p.created >= tf.status.retryTimestamp
        /\ q.created >= tf.status.retryTimestamp
        /\ p.generation = q.generation
        /\ p.task = q.task
        => p = q

\* The name and the labels of every pod agree, so that the list of a later
\* reconcile finds it: newTaskOptions names a pod after the generation of the
\* resource, the list asks for the generation of the stage.
PodsAreFound == \A p \in pods : p.version = p.generation

\* Once the controller's cache has shown an apply as failed, the next apply of
\* the same generation waits for a new plan, unless the request that removes the
\* old one was refused: the code ignores that error (its own TODO), and the old
\* plan is applied again.  A failure that was written and not confirmed may be
\* forgotten: a reconcile that still reads the older status writes over it.
FailedApplyIsPlannedAgain ==
    [][\A p \in pods' : \/ p.uid <= podsCreated
                        \/ <<p.generation, p.task>> \notin replan]_vars

\* The reaper takes the config map, secret and roles of an older generation away
\* only when no pod of that generation is left that could still use them.
ReaperWaitsForPods ==
    [][reaper.pc = "cleanup" =>
          \A g \in prepared \ prepared' : g < reaper.generation =>
             \A p \in pods : p.generation # g]_prepared

\* The stage new may replace the stage old.
Follows(old, new) ==
    \/ new.generation > old.generation
    \/ /\ new.generation = old.generation
       /\ \/ new.task = old.task
          \/ new.task = RunNil
          \/ new.reason \in Labels
          \/ new.reason \in {"RESTARTED_WORKFLOW", "RESTARTED_DELETE_WORKFLOW"}
          \/ ID[new.task] > ID[old.task]

\* The stage never returns to an older generation, and within a generation it
\* only goes back for a retry or a restart, as long as the confirmation of
\* updateStatusWithRetry is waited for.  Once it is given up a reconcile may
\* write an older stage over the newer one, until the cache has caught up.
StageMovesForward ==
    [][gaveUp \/ Follows(tf.status.stage, tf'.status.stage)]_(tf.status.stage)

\* A task failed, or the resource waits for nothing: its workflow is complete.
Settled ==
    \/ ~tf.exists
    \/ tf.status.stage.state = "failed"
    \/ /\ tf.status.phase = "completed"
       /\ tf.status.stage.generation = tf.generation

\* When users stop changing the resource, its workflow comes to an end.
WorkflowSettles == <>[]Settled

\* A resource that is being deleted goes away, unless a task fails.
DeletionCompletes ==
    tf.deleting ~> ~tf.exists \/ tf.status.stage.state = "failed"
=============================================================================
