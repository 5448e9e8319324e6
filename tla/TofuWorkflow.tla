---------------------------- MODULE TofuWorkflow ----------------------------
(***************************************************************************)
(* The Tofu controller (pkg/controllers/tofu_controller.go).  It is a copy *)
(* of the Terraform controller for a resource kind of its own, with its    *)
(* own labels, reconcile, stage logic, status updates and reaper.  This    *)
(* module translates that copy; the resource, the queue, the cluster and   *)
(* the task order (which the controllers do share) are those of Workflow.  *)
(* tf stands for the Tofu resource here.                                   *)
(***************************************************************************)
EXTENDS Workflow

-----------------------------------------------------------------------------
(***************************************************************************)
(* What a reconcile decides.                                               *)
(***************************************************************************)
updateTofuFinalizer(t) ==
    IF t.status.phase = "deleted" /\ t.finalizer THEN FALSE
    ELSE ~IgnoresDelete(t)

\* A label that is not the reason of the last retry.
isTofuRetry(t) == t.label # NoLabel /\ t.label # t.status.retryReason

TofuIntake(t) ==
    LET s == [t.status EXCEPT
                !.phase = IF t.deleting /\ @ \notin DeletePhase
                          THEN "initializing-delete" ELSE @]
    IN  IF isTofuRetry(t)
        THEN [s EXCEPT !.retryReason = t.label, !.retryTimestamp = clock,
                       !.phase = "initializing"]
        ELSE s

newTofuStage(t, task, reason, interruptible, state) ==
    [generation |-> t.generation, task |-> task, reason |-> reason,
     interruptible |-> interruptible, state |-> state,
     podName |-> 0, message |-> ""]

\* The stage that starts a task of its own accord.
TofuTask(t, task, reason) ==
    newTofuStage(t, task, reason, isTaskInterruptable(task), "initializing")

\* Mutant: a stage that is not complete is taken to be running.
tofuBlocksTillComplete(stage) == ~stage.interruptible /\ stage.state # "complete"

\* The stage is not to be interrupted.
tofuBlocks(stage) == ~stage.interruptible /\ stage.state = "in-progress"

tofuCheckSetNewStage(t, s) ==
    LET stage == s.stage
        toDelete == s.phase \in DeletePhase
        isNewGeneration == stage.generation # t.generation
        \* the pod that failed is looked up by its name
        isPodGone == \A p \in podCache : p.uid # stage.podName
        next == nextTask(stage.task, ConfiguredTasks)
        retryFrom ==
          CASE ~toDelete /\ s.retryReason \in SetupLabels    -> "setup"
            [] ~toDelete /\ s.retryReason \notin SetupLabels -> "init"
            [] toDelete /\ s.retryReason \in SetupLabels     -> "setup-delete"
            [] toDelete /\ s.retryReason \notin SetupLabels  -> "init-delete"
    IN  CASE isTofuRetry(t) /\ ~isNewGeneration ->
               {TofuTask(t, retryFrom, s.retryReason)}
          [] /\ ~(isTofuRetry(t) /\ ~isNewGeneration)
             /\ tofuBlocks(stage) -> {}
          [] /\ isNewGeneration
             /\ ~tofuBlocks(stage) ->
               IF toDelete
               THEN {newTofuStage(t, "setup-delete", "TF_RESOURCE_DELETED",
                                  s.phase # "initializing-delete",
                                  "initializing")}
               ELSE {newTofuStage(t, "setup", "GENERATION_CHANGE", TRUE,
                                  "initializing")}
          [] /\ ~isTofuRetry(t) /\ ~isNewGeneration
             /\ stage.state = "complete" ->
               IF stage.task = RunNil THEN {}
               ELSE IF next = RunNil
               THEN {newTofuStage(t, RunNil, stage.task,
                                  isTaskInterruptable(RunNil), "complete")}
               ELSE {TofuTask(t, next, stage.task)}
          [] /\ ~isTofuRetry(t) /\ ~isNewGeneration
             /\ stage.state = "failed" ->
               CASE stage.task = "apply" /\ isPodGone ->
                      {TofuTask(t, nextTask("postinit", ConfiguredTasks),
                                "RESTARTED_WORKFLOW")}
                 [] stage.task = "apply-delete" /\ isPodGone ->
                      {TofuTask(t, nextTask("postinit-delete", ConfiguredTasks),
                                "RESTARTED_DELETE_WORKFLOW")}
                 [] OTHER -> {}
          [] OTHER -> {}

\* The pods listed for the stage: by generateName and the label of the
\* generation, without those created before the last retry.
TofuStagePods(t, s) ==
    {p \in podCache :
        /\ p.version = s.stage.generation /\ p.task = s.stage.task
        /\ p.generation = s.stage.generation
        /\ ~isTofuRetry(t) /\ p.created >= s.retryTimestamp}

\* removeOldPlan: the pods of the generation that do not run, without those
\* of the tasks up to postinit when the stage it leaves was a restart.
TofuOldPlanPods(t, reason) ==
    LET before(task) == {u \in Task : ID[u] <= ID[task] /\ Family(u) = Family(task)}
    IN  {p \in pods :
           /\ p.generation = t.generation
           /\ p.phase # "Running"
           /\ reason = "RESTARTED_WORKFLOW" => p.task \notin before("postinit")
           /\ reason = "RESTARTED_DELETE_WORKFLOW"
                => p.task \notin before("postinit-delete")}

TofuStageState(phase) ==
    CASE phase = "Succeeded" -> "complete"
      [] phase = "Failed" -> "failed"
      [] phase \in {"Pending", "Running"} -> phase
-----------------------------------------------------------------------------
(***************************************************************************)
(* The first step of a reconcile.  What it leaves alone in every case:     *)
(***************************************************************************)
TofuUntouched == UNCHANGED <<caches, reaper, clock, history>>
OnlyStatus    == UNCHANGED <<cluster, caches, reaper, bounds, history>>

TofuNotFound == /\ Takes /\ ~tfCache.exists
                /\ Return(FALSE)
                /\ OnlyStatus

\* The finalizers are updated: of a deleted resource always, of another one
\* when that changes them.
TofuFinalizers ==
    /\ Takes /\ tfCache.exists
    /\ \/ tfCache.status.phase = "deleted"
       \/ tfCache.finalizer # updateTofuFinalizer(tfCache)
    /\ UpdateFinalizer(tfCache, updateTofuFinalizer(tfCache))
    /\ UNCHANGED <<pods, prepared, podsCreated>> /\ TofuUntouched

\* The resource has its finalizers.
TofuHeld == /\ Takes /\ tfCache.exists
            /\ tfCache.status.phase # "deleted"
            /\ tfCache.finalizer = updateTofuFinalizer(tfCache)

TofuInitialize ==
    /\ TofuHeld /\ ~tfCache.status.prefix
    /\ Save([tfCache.status EXCEPT !.phase = "initializing", !.prefix = TRUE],
            FALSE, "return", 0)
    /\ OnlyStatus

TofuFirstStage ==
    /\ TofuHeld /\ tfCache.status.prefix
    /\ tfCache.status.stage.generation = 0
    /\ Save([tfCache.status EXCEPT
               !.stage = newTofuStage(tfCache, "setup", "TF_RESOURCE_CREATED",
                                      FALSE, "initializing")],
            TRUE, "return", 0)
    /\ OnlyStatus

TofuStaged == /\ TofuHeld /\ tfCache.status.prefix
              /\ tfCache.status.stage.generation # 0

\* The stage changes; a restart removes the old plan first and ignores an
\* error.  newTofuStage sets the phase of a new generation.
TofuSetNewStage ==
    LET t == tfCache
        s == TofuIntake(t)
    IN  /\ TofuStaged
        /\ \E stage \in tofuCheckSetNewStage(t, s) :
             /\ Save([s EXCEPT !.stage = stage,
                               !.phase = IF stage.reason = "GENERATION_CHANGE"
                                         THEN "initializing" ELSE s.phase],
                     FALSE, IF KeepsLatestPodsOnly(t) THEN "reap" ELSE "return",
                     0)
             /\ \/ /\ stage.reason \notin {"RESTARTED_WORKFLOW",
                                           "RESTARTED_DELETE_WORKFLOW"}
                   /\ UNCHANGED <<pods, used, replan>>
                \/ /\ stage.reason \in {"RESTARTED_WORKFLOW",
                                        "RESTARTED_DELETE_WORKFLOW"}
                   /\ \/ /\ pods' = pods \ TofuOldPlanPods(t, s.stage.reason)
                         /\ UNCHANGED <<used, replan>>
                      \/ /\ Fault
                         /\ replan' = {}
                         /\ UNCHANGED pods
        /\ UNCHANGED <<tf, prepared, caches, reaper, clock, podsCreated,
                       gaveUp, done>>

TofuKeepsStage(s) == TofuStaged /\ tofuCheckSetNewStage(tfCache, s) = {}

\* The workflow is at its end.
TofuFinish ==
    LET s == TofuIntake(tfCache)
    IN  /\ TofuKeepsStage(s)
        /\ s.stage.task = RunNil
        /\ \/ /\ s.phase = "running"
              /\ Save([s EXCEPT !.phase = "completed"], TRUE, "return", 0)
           \/ /\ s.phase = "deleting"
              /\ Save([s EXCEPT !.phase = "deleted"], TRUE, "return", 0)
           \/ /\ s.phase \notin {"running", "deleting"}
              /\ Return(FALSE)
        /\ OnlyStatus

\* The stage has a task, whose pods are listed; the request may fail.
TofuListFails ==
    /\ TofuKeepsStage(TofuIntake(tfCache))
    /\ tfCache.status.stage.task # RunNil
    /\ Fault
    /\ Return(FALSE)
    /\ UNCHANGED <<cluster, podsCreated>> /\ TofuUntouched

\* There is no pod: it is gone, or it has to be created.
TofuNoPod(s) == /\ TofuKeepsStage(s)
                /\ s.stage.task # RunNil
                /\ TofuStagePods(tfCache, s) = {}

TofuLosesPod ==
    LET s == TofuIntake(tfCache)
    IN  /\ TofuNoPod(s)
        /\ s.stage.state = "in-progress"
        /\ Save([s EXCEPT !.stage.state = "initializing"], TRUE, "return", 0)
        /\ OnlyStatus

\* setupAndRun and the status after it.
TofuStartsTask ==
    LET t == tfCache
        s == TofuIntake(t)
        creates == s.stage.reason \in {"GENERATION_CHANGE",
                                       "TF_RESOURCE_DELETED",
                                       "TF_RESOURCE_CREATED"}
        have == prepared \union (IF creates THEN {t.generation} ELSE {})
        phase == CASE s.phase = "initializing" -> "running"
                   [] s.phase = "initializing-delete" -> "deleting"
                   [] OTHER -> s.phase
    IN  /\ TofuNoPod(s)
        /\ s.stage.state # "in-progress"
        /\ \/ /\ creates \/ t.generation \in prepared
              /\ podsCreated < MaxPods
              /\ podsCreated' = podsCreated + 1
              /\ pods' = pods \union
                   {[uid |-> podsCreated', generation |-> s.stage.generation,
                     version |-> t.generation, task |-> s.stage.task,
                     phase |-> "Pending", created |-> clock]}
              /\ prepared' = have
              /\ Save([s EXCEPT !.stage.state = "in-progress",
                                !.phase = phase], TRUE, "return", 0)
              /\ UNCHANGED used
           \/ \* an error on the way, or a resource that is not there
              /\ \/ /\ ~creates /\ t.generation \notin prepared
                    /\ UNCHANGED used
                 \/ Fault
              /\ prepared' \in {prepared, have}
              /\ Return(TRUE)
              /\ UNCHANGED <<pods, podsCreated>>
        /\ UNCHANGED tf /\ TofuUntouched

\* The first pod of the list tells the state of the stage.
TofuSeesPod ==
    LET t == tfCache
        s == TofuIntake(t)
    IN  /\ TofuKeepsStage(s)
        /\ s.stage.task # RunNil
        /\ \E p \in TofuStagePods(t, s) :
             LET deletes == /\ p.phase = "Succeeded"
                            /\ ~KeepsCompletedPods(t)
                            /\ ~KeepsLatestPodsOnly(t)
             IN  Save([s EXCEPT !.stage.state = TofuStageState(p.phase),
                                !.stage.podName = p.uid,
                                !.stage.message = p.phase],
                      TRUE, IF deletes THEN "deletePod" ELSE "return", p.uid)
        /\ OnlyStatus
-----------------------------------------------------------------------------
(***************************************************************************)
(* The later steps, and the goroutine that reaps old generations.          *)
(***************************************************************************)
TofuStartsReaper ==
    reaper' = IF worker.then = "reap" /\ reaper.pc = "off"
              THEN [pc |-> "read", generation |-> 0, attempt |-> 0]
              ELSE reaper

\* One round of updateStatusWithRetry: the status is written over whatever
\* is there.
TofuWritesStatus ==
    /\ worker.pc = "write"
    /\ tf.exists
    /\ tf' = [tf EXCEPT !.status = worker.status]
    /\ worker' = [worker EXCEPT !.pc = "confirm"]
    /\ UNCHANGED <<pods, prepared, caches, queued, reaper, bounds, history>>

\* The write fails for good, or the resource is gone.
TofuWriteFails ==
    /\ worker.pc = "write"
    /\ \/ Fault
       \/ ~tf.exists /\ UNCHANGED used
    /\ worker' = Idle
    /\ queued' = (queued \/ worker.onError)
    /\ TofuStartsReaper
    /\ \/ tfCache = tf /\ CatchesUp
       \/ tfCache # tf /\ UNCHANGED <<gaveUp, replan>>
    /\ UNCHANGED <<cluster, caches, clock, podsCreated, done>>

\* The cache shows a status that is equal but for the state of the stage.
TofuConfirmed ==
    LET have == tfCache.status
        want == worker.status
    IN  /\ [have.stage EXCEPT !.state = want.stage.state] = want.stage
        /\ have.phase = want.phase
        /\ have.prefix = want.prefix

TofuConfirms ==
    /\ worker.pc = "confirm"
    /\ \/ /\ ~tfCache.exists
          /\ worker' = Idle
          /\ queued' = (queued \/ worker.onError)
       \/ /\ tfCache.exists /\ TofuConfirmed
          /\ worker' = IF worker.then = "deletePod"
                       THEN [worker EXCEPT !.pc = "deletePod"] ELSE Idle
          /\ UNCHANGED queued
    /\ TofuStartsReaper
    /\ UNCHANGED <<cluster, caches, bounds, history>>

\* The last round is over before the cache shows the status: the last update
\* was refused (the reconcile returns an error), or it is not confirmed.
TofuGivesUp ==
    /\ worker.pc = "confirm"
    /\ tfCache.exists /\ tfCache # tf
    /\ Uses("giveUps", MaxGiveUps)
    /\ \/ /\ worker' = Idle
          /\ queued' = (queued \/ worker.onError)
       \/ /\ ~TofuConfirmed
          /\ worker' = IF worker.then = "deletePod"
                       THEN [worker EXCEPT !.pc = "deletePod"] ELSE Idle
          /\ UNCHANGED queued
    /\ TofuStartsReaper
    /\ gaveUp' = TRUE
    /\ UNCHANGED <<cluster, caches, clock, podsCreated, done, replan>>

TofuDeletesPod ==
    /\ worker.pc = "deletePod"
    /\ \/ /\ pods' = {p \in pods : p.uid # worker.pod}
          /\ UNCHANGED used
       \/ Fault /\ UNCHANGED pods
    /\ worker' = Idle
    /\ UNCHANGED <<tf, prepared, queued, podsCreated>> /\ TofuUntouched

TofuReaper ==
    /\ \/ /\ reaper.pc = "read"
          /\ tfCache.exists /\ reaper.attempt <= MaxReapAttempts
          /\ reaper' = [reaper EXCEPT !.pc = "delete",
                                      !.generation = tfCache.generation]
          /\ UNCHANGED <<pods, prepared>>
       \/ /\ reaper.pc = "read"
          /\ ~tfCache.exists \/ reaper.attempt > MaxReapAttempts
          /\ reaper' = NoReaper
          /\ UNCHANGED <<pods, prepared>>
       \/ /\ reaper.pc = "delete"
          /\ pods' = pods \ {p \in pods : /\ p.generation # reaper.generation
                                          /\ p.phase # "Running"}
          /\ reaper' = [reaper EXCEPT !.pc = "list"]
          /\ UNCHANGED prepared
       \/ /\ reaper.pc = "list"
          /\ reaper' = IF \A p \in podCache : p.generation = reaper.generation
                       THEN [reaper EXCEPT !.pc = "cleanup"]
                       ELSE [reaper EXCEPT !.pc = "read",
                                           !.attempt = reaper.attempt + 1]
          /\ UNCHANGED <<pods, prepared>>
       \/ /\ reaper.pc = "cleanup"
          /\ prepared' = {g \in prepared : g = reaper.generation}
          /\ reaper' = NoReaper
          /\ UNCHANGED pods
    /\ UNCHANGED <<tf, caches, queued, worker, bounds, history>>

TofuReaperFails ==
    /\ reaper.pc # "off"
    /\ Fault
    /\ reaper' = NoReaper
    /\ \/ UNCHANGED prepared
       \/ /\ reaper.pc = "cleanup"
          /\ prepared' = {g \in prepared : g = reaper.generation}
    /\ UNCHANGED <<tf, pods, caches, queued, worker, clock, podsCreated, history>>
-----------------------------------------------------------------------------
TofuReconcile ==
    \/ TofuNotFound \/ TofuFinalizers \/ TofuInitialize \/ TofuFirstStage
    \/ TofuSetNewStage \/ TofuFinish \/ TofuListFails \/ TofuLosesPod
    \/ TofuStartsTask \/ TofuSeesPod
    \/ TofuWritesStatus \/ TofuWriteFails \/ TofuConfirms \/ TofuGivesUp
    \/ TofuDeletesPod

TofuNext ==
    \/ SyncPods
    \/ PodsKnown /\ (\/ TofuReconcile \/ TofuReaper \/ TofuReaperFails
                     \/ User \/ Environment)

TofuSpec == Init /\ [][TofuNext]_vars

\* The twins have not drifted apart: every step of the Tofu controller is one
\* that the Terraform controller could take in the same state, so what is true
\* of all executions of Workflow is true of Tofu resources.
TofuIsTerraform == Spec
=============================================================================
