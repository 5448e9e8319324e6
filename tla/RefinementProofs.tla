-------------------------- MODULE RefinementProofs --------------------------
(***************************************************************************)
(* Two refinements of the workflow, one operation after the other.         *)
(*                                                                         *)
(* The Tofu controller takes only steps that the Terraform controller      *)
(* could take: what is proved of all executions of Workflow is so proved   *)
(* of Tofu resources.  And the workflow keeps what Lifecycle promises of   *)
(* status.phase and the finalizer.                                         *)
(***************************************************************************)
EXTENDS TofuWorkflow, WorkflowLifecycle, StageProofs

-----------------------------------------------------------------------------
(***************************************************************************)
(* What a reconcile decides                                                *)
(***************************************************************************)
LEMMA SameFinalizer ==
    ASSUME NEW t \in Resource
    PROVE  updateTofuFinalizer(t) = updateFinalizer(t)
<1>1. updateTofuFinalizer(t) \in BOOLEAN /\ updateFinalizer(t) \in BOOLEAN
  BY DEF updateTofuFinalizer, updateFinalizer, IgnoresDelete
<1>2. updateTofuFinalizer(t) <=> updateFinalizer(t)
  BY DEF updateTofuFinalizer, updateFinalizer
<1>3. QED
  BY <1>1, <1>2

LEMMA SameRetry == \A t : isTofuRetry(t) <=> IsRetry(t)
  BY DEF isTofuRetry, IsRetry

LEMMA SameIntake ==
    ASSUME NEW t \in Resource
    PROVE  TofuIntake(t) = Intake(t)
<1>1. t.status \in Status /\ t.deleting \in BOOLEAN
  BY DEF Resource
<1> DEFINE s == [t.status EXCEPT
                   !.phase = IF t.deleting /\ @ \notin DeletePhase
                             THEN "initializing-delete" ELSE @]
<1>2. TofuIntake(t) = IF isTofuRetry(t)
                      THEN [s EXCEPT !.retryReason = t.label, !.retryTimestamp = clock,
                                     !.phase = "initializing"]
                      ELSE s
  BY DEF TofuIntake
<1>3. CASE IsRetry(t)
  <2>1. TofuIntake(t) = [s EXCEPT !.retryReason = t.label, !.retryTimestamp = clock,
                                  !.phase = "initializing"]
    BY <1>2, <1>3, SameRetry
  <2>2. Intake(t) = [t.status EXCEPT !.phase = "initializing", !.retryReason = t.label,
                                     !.retryTimestamp = clock]
    BY <1>3 DEF Intake
  <2>3. QED
    BY <1>1, <2>1, <2>2 DEF Status
<1>4. CASE ~IsRetry(t)
  <2>1. TofuIntake(t) = s
    BY <1>2, <1>4, SameRetry
  <2>2. Intake(t) = IF t.deleting /\ t.status.phase \notin DeletePhase
                    THEN [t.status EXCEPT !.phase = "initializing-delete"] ELSE t.status
    BY <1>4 DEF Intake
  <2>3. QED
    BY <1>1, <2>1, <2>2 DEF Status
<1>5. QED
  BY <1>3, <1>4

LEMMA SameStages ==
    \A t, task, reason, interruptible, state :
        newTofuStage(t, task, reason, interruptible, state) =
            newStage(t, task, reason, interruptible, state)
  BY DEF newTofuStage, newStage

LEMMA SameNewStage ==
    ASSUME NEW t \in Resource, NEW s \in Status
    PROVE  tofuCheckSetNewStage(t, s) = checkSetNewStage(t, s)
<1> DEFINE stage   == s.stage
           newer   == stage.generation # t.generation
           running == stage.state = "in-progress"
           toDelete == s.phase \in DeletePhase
           podGone == ~ \E p \in podCache : p.uid = stage.podName
           isPodGone == \A p \in podCache : p.uid # stage.podName
           next == nextTask(stage.task, ConfiguredTasks)
           fromSetup == s.retryReason \in SetupLabels
<1>1. isPodGone <=> podGone
  OBVIOUS
<1>2. isTofuRetry(t) <=> IsRetry(t)
  BY SameRetry
<1>3. checkSetNewStage(t, s) =
        IF IsRetry(t) /\ ~newer THEN {RetryStage(t, s)}
        ELSE IF Blocked(s) THEN {}
        ELSE IF newer THEN {FirstStageOfGeneration(t, s)}
        ELSE IF stage.state = "complete" /\ stage.task # RunNil THEN {StageAfter(t, s)}
        ELSE IF stage.state = "failed" /\ stage.task \in {"apply", "apply-delete"} /\ podGone
        THEN {RestartStage(t, s)}
        ELSE {}
  BY DEF checkSetNewStage
<1> DEFINE retryTask == CASE ~toDelete /\ fromSetup -> "setup"
                          [] ~toDelete /\ ~fromSetup -> "init"
                          [] toDelete /\ fromSetup -> "setup-delete"
                          [] toDelete /\ ~fromSetup -> "init-delete"
           first == IF toDelete
                    THEN {newTofuStage(t, "setup-delete", "TF_RESOURCE_DELETED",
                                       s.phase # "initializing-delete", "initializing")}
                    ELSE {newTofuStage(t, "setup", "GENERATION_CHANGE", TRUE, "initializing")}
           after == IF stage.task = RunNil THEN {}
                    ELSE IF next = RunNil
                    THEN {newTofuStage(t, RunNil, stage.task, isTaskInterruptable(RunNil),
                                       "complete")}
                    ELSE {TofuTask(t, next, stage.task)}
           restart == CASE stage.task = "apply" /\ isPodGone ->
                             {TofuTask(t, nextTask("postinit", ConfiguredTasks),
                                       "RESTARTED_WORKFLOW")}
                        [] stage.task = "apply-delete" /\ isPodGone ->
                             {TofuTask(t, nextTask("postinit-delete", ConfiguredTasks),
                                       "RESTARTED_DELETE_WORKFLOW")}
                        [] OTHER -> {}
<1>4. tofuCheckSetNewStage(t, s) =
        CASE isTofuRetry(t) /\ ~newer -> {TofuTask(t, retryTask, s.retryReason)}
          [] /\ ~(isTofuRetry(t) /\ ~newer)
             /\ ~stage.interruptible /\ running -> {}
          [] newer /\ (stage.interruptible \/ ~running) -> first
          [] ~isTofuRetry(t) /\ ~newer /\ stage.state = "complete" -> after
          [] ~isTofuRetry(t) /\ ~newer /\ stage.state = "failed" -> restart
          [] OTHER -> {}
  BY Zenon DEF tofuCheckSetNewStage, tofuBlocks
<1>5. TofuTask(t, retryTask, s.retryReason) = RetryStage(t, s)
  <2> DEFINE task == IF toDelete
                     THEN IF fromSetup THEN "setup-delete" ELSE "init-delete"
                     ELSE IF fromSetup THEN "setup" ELSE "init"
  <2>1. RetryStage(t, s) = newStage(t, task, s.retryReason, isTaskInterruptable(task),
                                    "initializing")
    BY DEF RetryStage
  <2>2. retryTask = task
    OBVIOUS
  <2> HIDE DEF retryTask, task
  <2>3. QED
    BY <2>1, <2>2, SameStages DEF TofuTask
<1>6. first = {FirstStageOfGeneration(t, s)}
  BY SameStages DEF FirstStageOfGeneration
<1>7. stage.task # RunNil => after = {StageAfter(t, s)}
  <2>1. StageAfter(t, s) = newStage(t, next, stage.task, isTaskInterruptable(next),
                                    IF next = RunNil THEN "complete" ELSE "initializing")
    BY DEF StageAfter
  <2> HIDE DEF next
  <2>2. QED
    BY <2>1, SameStages DEF TofuTask
<1>8. /\ stage.task = RunNil => after = {}
      /\ RunNil \notin {"apply", "apply-delete"}
  BY DEF RunNil
<1>9. restart = IF stage.task \in {"apply", "apply-delete"} /\ podGone
                THEN {RestartStage(t, s)} ELSE {}
  <2>1. CASE stage.task = "apply" /\ podGone
    <3>1. restart = {TofuTask(t, nextTask("postinit", ConfiguredTasks), "RESTARTED_WORKFLOW")}
      BY <1>1, <2>1
    <3>2. QED
      BY <2>1, <3>1, SameStages DEF RestartStage, TofuTask
  <2>2. CASE stage.task = "apply-delete" /\ podGone
    <3>1. restart = {TofuTask(t, nextTask("postinit-delete", ConfiguredTasks),
                              "RESTARTED_DELETE_WORKFLOW")}
      BY <1>1, <2>2
    <3>2. QED
      BY <2>2, <3>1, SameStages DEF RestartStage, TofuTask
  <2>3. CASE ~(stage.task \in {"apply", "apply-delete"} /\ podGone)
    BY <1>1, <2>3
  <2>4. QED
    BY <2>1, <2>2, <2>3
<1>10. Blocked(s) <=> ~stage.interruptible /\ running
  BY DEF Blocked
<1>11. stage.interruptible \in BOOLEAN
  BY DEF Status, Stage
<1> HIDE DEF first, after, restart, retryTask, newer, podGone, isPodGone
<1>12. CASE IsRetry(t) /\ ~newer
  BY <1>2, <1>3, <1>4, <1>5, <1>12
<1>13. CASE ~(IsRetry(t) /\ ~newer) /\ Blocked(s)
  BY <1>2, <1>3, <1>4, <1>10, <1>13
<1>14. CASE ~Blocked(s) /\ newer
  BY <1>2, <1>3, <1>4, <1>6, <1>10, <1>11, <1>14
<1>15. CASE ~IsRetry(t) /\ ~newer /\ ~Blocked(s) /\ stage.state = "complete"
  BY <1>2, <1>3, <1>4, <1>7, <1>8, <1>10, <1>15
<1>16. CASE ~IsRetry(t) /\ ~newer /\ ~Blocked(s) /\ stage.state = "failed"
  BY <1>2, <1>3, <1>4, <1>9, <1>10, <1>16
<1>17. CASE ~IsRetry(t) /\ ~newer /\ ~Blocked(s) /\ stage.state \notin {"complete", "failed"}
  BY <1>2, <1>3, <1>4, <1>10, <1>17
<1>18. QED
  BY <1>12, <1>13, <1>14, <1>15, <1>16, <1>17

LEMMA SamePods ==
    \A t, s : TofuStagePods(t, s) = StagePods(t, s)
  BY SameRetry DEF TofuStagePods, StagePods

LEMMA SameState == \A phase \in PodPhase : TofuStageState(phase) = StageState(phase)
  BY DEF TofuStageState, StageState, PodPhase

LEMMA SameOldPlan ==
    ASSUME TypeOK, NEW t, NEW reason
    PROVE  TofuOldPlanPods(t, reason) = OldPlanPods(t, reason)
<1> DEFINE before(task) == {u \in Task : ID[u] <= ID[task] /\ Family(u) = Family(task)}
           early == {"setup", "preinit", "init", "postinit"}
           earlyDelete == {"setup-delete", "preinit-delete", "init-delete", "postinit-delete"}
           kept == CASE reason = "RESTARTED_WORKFLOW" -> early
                     [] reason = "RESTARTED_DELETE_WORKFLOW" -> earlyDelete
                     [] OTHER -> {}
<1>1. \A u \in CreateTask : u \notin DeleteTask
  BY CreateIsNotDelete
<1>2. CreateTask # DeleteTask
  BY <1>1 DEF CreateTask
<1>3. \A u \in Task : /\ Family(u) = Family("postinit") <=> u \in CreateTask
                      /\ Family(u) = Family("postinit-delete") <=> u \in DeleteTask
  <2>1. "postinit" \in CreateTask /\ "postinit-delete" \in DeleteTask
    BY DEF CreateTask, DeleteTask
  <2>2. Family("postinit") = CreateTask /\ Family("postinit-delete") = DeleteTask
    BY <1>1, <2>1 DEF Family
  <2>3. QED
    BY <1>1, <1>2, <2>2 DEF Family, Task
<1>4. \A u \in Task : u \in before("postinit") <=> u \in early
  <2>1. \A u \in CreateTask : ID[u] <= ID["postinit"] <=> u \in early
    BY IDs DEF CreateTask
  <2>2. \A u \in early : u \in CreateTask
    BY DEF CreateTask
  <2>3. QED
    BY <1>3, <2>1, <2>2
<1>5. \A u \in Task : u \in before("postinit-delete") <=> u \in earlyDelete
  <2>1. \A u \in DeleteTask : ID[u] <= ID["postinit-delete"] <=> u \in earlyDelete
    BY IDs DEF DeleteTask
  <2>2. \A u \in earlyDelete : u \in DeleteTask
    BY DEF DeleteTask
  <2>3. QED
    BY <1>3, <2>1, <2>2
<1>6. \A p \in pods : p.task \in Task
  BY DEF TypeOK, Pod
<1>7. OldPlanPods(t, reason) = {p \in pods : /\ p.generation = t.generation
                                             /\ p.phase # "Running"
                                             /\ p.task \notin kept}
  BY DEF OldPlanPods
<1>8. TofuOldPlanPods(t, reason) =
        {p \in pods : /\ p.generation = t.generation
                      /\ p.phase # "Running"
                      /\ reason = "RESTARTED_WORKFLOW" => p.task \notin before("postinit")
                      /\ reason = "RESTARTED_DELETE_WORKFLOW"
                           => p.task \notin before("postinit-delete")}
  BY DEF TofuOldPlanPods
<1> HIDE DEF before, early, earlyDelete
<1>9. CASE reason = "RESTARTED_WORKFLOW"
  BY <1>4, <1>6, <1>7, <1>8, <1>9
<1>10. CASE reason = "RESTARTED_DELETE_WORKFLOW"
  BY <1>5, <1>6, <1>7, <1>8, <1>10
<1>11. CASE reason \notin {"RESTARTED_WORKFLOW", "RESTARTED_DELETE_WORKFLOW"}
  BY <1>7, <1>8, <1>11
<1>12. QED
  BY <1>9, <1>10, <1>11

-----------------------------------------------------------------------------
(***************************************************************************)
(* The first step of a reconcile                                           *)
(***************************************************************************)
LEMMA SameDecision ==
    ASSUME TypeOK
    PROVE  /\ tfCache \in Resource /\ Intake(tfCache) \in Status
           /\ TofuIntake(tfCache) = Intake(tfCache)
           /\ updateTofuFinalizer(tfCache) = updateFinalizer(tfCache)
           /\ tofuCheckSetNewStage(tfCache, Intake(tfCache)) =
                checkSetNewStage(tfCache, Intake(tfCache))
           /\ TofuHeld <=> TakesFinalized
           /\ TofuStaged <=> TakesStaged
           /\ TofuKeepsStage(Intake(tfCache)) <=> TakesSameStage(Intake(tfCache))
<1>1. tfCache \in Resource /\ Intake(tfCache) \in Status
  BY IntakeType DEF TypeOK
<1>2. updateTofuFinalizer(tfCache) = updateFinalizer(tfCache)
  BY <1>1, SameFinalizer
<1>3. tofuCheckSetNewStage(tfCache, Intake(tfCache)) =
        checkSetNewStage(tfCache, Intake(tfCache))
  BY <1>1, SameNewStage
<1>4. TofuHeld <=> TakesFinalized
  BY <1>2, Zenon DEF TofuHeld, TakesFinalized
<1>5. TofuStaged <=> TakesStaged
  BY <1>4 DEF TofuStaged, TakesStaged
<1>6. TofuKeepsStage(Intake(tfCache)) <=> TakesSameStage(Intake(tfCache))
  BY <1>3, <1>5 DEF TofuKeepsStage, TakesSameStage
<1>7. QED
  BY <1>1, <1>2, <1>3, <1>4, <1>5, <1>6, SameIntake

LEMMA NotFoundStep == TofuNotFound => ReconcileNotFound
  BY DEF TofuNotFound, ReconcileNotFound, OnlyStatus

LEMMA FinalizersStep ==
    ASSUME TypeOK, TofuFinalizers
    PROVE  ReconcileDeleted \/ ReconcileFinalizer
<1>1. /\ Takes /\ tfCache.exists
      /\ \/ tfCache.status.phase = "deleted"
         \/ tfCache.finalizer # updateFinalizer(tfCache)
      /\ UpdateFinalizer(tfCache, updateFinalizer(tfCache))
      /\ UNCHANGED <<pods, prepared, podsCreated, caches, reaper, clock, history>>
  BY SameDecision DEF TofuFinalizers, TofuUntouched
<1>2. UNCHANGED <<pods, prepared, caches, reaper, clock, podsCreated, history>>
  BY <1>1
<1>3. CASE tfCache.status.phase = "deleted"
  BY <1>1, <1>2, <1>3, Zenon DEF ReconcileDeleted
<1>4. CASE tfCache.status.phase # "deleted"
  BY <1>1, <1>2, <1>4, Zenon DEF ReconcileFinalizer
<1>5. QED
  BY <1>3, <1>4

LEMMA InitializeStep ==
    ASSUME TypeOK, TofuInitialize
    PROVE  InitializeResource
<1>1. tfCache.status \in Status
  BY DEF TypeOK, Resource
<1>2. [tfCache.status EXCEPT !.phase = "initializing", !.prefix = TRUE] =
        [tfCache.status EXCEPT !.prefix = TRUE, !.phase = "initializing"]
  BY <1>1 DEF Status
<1>3. QED
  BY <1>2, SameDecision, Zenon DEF TofuInitialize, InitializeResource, OnlyStatus

LEMMA FirstStageStep ==
    ASSUME TypeOK, TofuFirstStage
    PROVE  AddFirstStage
<1>1. newTofuStage(tfCache, "setup", "TF_RESOURCE_CREATED", FALSE, "initializing") =
        newStage(tfCache, "setup", "TF_RESOURCE_CREATED", FALSE, "initializing")
  BY SameStages
<1>2. QED
  BY <1>1, SameDecision, Zenon DEF TofuFirstStage, AddFirstStage, OnlyStatus

LEMMA SetNewStageStep ==
    ASSUME TypeOK, TofuSetNewStage
    PROVE  SetNewStage
<1> DEFINE t == tfCache
           s == Intake(t)
           Restarts(stage) == stage.reason \in {"RESTARTED_WORKFLOW",
                                                "RESTARTED_DELETE_WORKFLOW"}
           phase(stage) == IF stage.reason = "GENERATION_CHANGE"
                           THEN "initializing" ELSE s.phase
           Saved(stage) == Save([s EXCEPT !.stage = stage, !.phase = phase(stage)], FALSE,
                                IF KeepsLatestPodsOnly(t) THEN "reap" ELSE "return", 0)
           Removes == \/ /\ pods' = pods \ OldPlanPods(t, s.stage.reason)
                         /\ UNCHANGED <<used, replan>>
                      \/ /\ Fault
                         /\ replan' = {}
                         /\ UNCHANGED pods
           Rest == UNCHANGED <<tf, prepared, caches, reaper, clock, podsCreated,
                             gaveUp, done>>
<1>1. TofuIntake(t) = s /\ s \in Status
  BY SameDecision
<1>2. TofuOldPlanPods(t, s.stage.reason) = OldPlanPods(t, s.stage.reason)
  BY SameOldPlan
<1>3. /\ TakesStaged /\ Rest
      /\ \E stage \in checkSetNewStage(t, s) :
           /\ Saved(stage)
           /\ \/ ~Restarts(stage) /\ UNCHANGED <<pods, used, replan>>
              \/ Restarts(stage) /\ Removes
  BY <1>1, <1>2, SameDecision, Zenon DEF TofuSetNewStage
<1>4. \A stage : [s EXCEPT !.stage = stage,
                           !.phase = IF stage.reason = "GENERATION_CHANGE"
                                     THEN "initializing" ELSE @] =
                 [s EXCEPT !.stage = stage, !.phase = phase(stage)]
  BY <1>1 DEF Status
<1>5. PICK stage \in checkSetNewStage(t, s) :
        /\ Saved(stage)
        /\ \/ ~Restarts(stage) /\ UNCHANGED <<pods, used, replan>>
           \/ Restarts(stage) /\ Removes
  BY <1>3
<1>6. IF Restarts(stage) THEN Removes ELSE UNCHANGED <<pods, used, replan>>
  BY <1>5, Zenon
<1>7. Save([s EXCEPT !.stage = stage,
                     !.phase = IF stage.reason = "GENERATION_CHANGE"
                               THEN "initializing" ELSE @],
           FALSE, IF KeepsLatestPodsOnly(t) THEN "reap" ELSE "return", 0)
  BY <1>4, <1>5, Zenon
<1>8. QED
  BY <1>3, <1>6, <1>7, Zenon DEF SetNewStage

LEMMA FinishStep ==
    ASSUME TypeOK, TofuFinish
    PROVE  FinishWorkflow
<1> DEFINE s == Intake(tfCache)
           Completes == Save([s EXCEPT !.phase = "completed"], TRUE, "return", 0)
           Deletes == Save([s EXCEPT !.phase = "deleted"], TRUE, "return", 0)
<1>1. /\ TakesSameStage(s) /\ s.stage.task = RunNil
      /\ \/ s.phase = "running" /\ Completes
         \/ s.phase = "deleting" /\ Deletes
         \/ s.phase \notin {"running", "deleting"} /\ Return(FALSE)
      /\ UNCHANGED <<cluster, caches, reaper, bounds, history>>
  BY SameDecision, Zenon DEF TofuFinish, OnlyStatus
<1> HIDE DEF Completes, Deletes
<1>2. (CASE s.phase = "running" -> Completes
         [] s.phase = "deleting" -> Deletes
         [] OTHER -> Return(FALSE))
  BY <1>1
<1>3. QED
  BY <1>1, <1>2, Zenon DEF FinishWorkflow, Completes, Deletes

LEMMA ListFailsStep ==
    ASSUME TypeOK, TofuListFails
    PROVE  ListFails
<1>1. /\ TakesSameStage(Intake(tfCache)) /\ tfCache.status.stage.task # RunNil
      /\ Fault /\ Return(FALSE)
      /\ UNCHANGED <<cluster, podsCreated, caches, reaper, clock, history>>
  BY SameDecision, Zenon DEF TofuListFails, TofuUntouched
<1>2. QED
  BY <1>1, Zenon DEF ListFails

LEMMA SameNoPod ==
    ASSUME TypeOK
    PROVE  TofuNoPod(Intake(tfCache)) <=> /\ TakesSameStage(Intake(tfCache))
                                          /\ Intake(tfCache).stage.task # RunNil
                                          /\ StagePods(tfCache, Intake(tfCache)) = {}
  BY SameDecision, SamePods DEF TofuNoPod

LEMMA LosesPodStep ==
    ASSUME TypeOK, TofuLosesPod
    PROVE  LosePod
  BY SameDecision, SameNoPod, Zenon DEF TofuLosesPod, LosePod, OnlyStatus

LEMMA StartsTaskStep ==
    ASSUME TypeOK, TofuStartsTask
    PROVE  StartTask
<1> DEFINE t == tfCache
           s == Intake(t)
           creates == s.stage.reason \in {"GENERATION_CHANGE", "TF_RESOURCE_DELETED",
                                          "TF_RESOURCE_CREATED"}
           have == prepared \union (IF creates THEN {t.generation} ELSE {})
           phase == CASE s.phase = "initializing" -> "running"
                      [] s.phase = "initializing-delete" -> "deleting"
                      [] OTHER -> s.phase
           pod(uid) == [uid |-> uid, generation |-> s.stage.generation,
                        version |-> t.generation, task |-> s.stage.task,
                        phase |-> "Pending", created |-> clock]
           running == [s EXCEPT !.stage.state = "in-progress", !.phase = phase]
           Creates == /\ creates \/ t.generation \in prepared
                      /\ podsCreated < MaxPods
                      /\ podsCreated' = podsCreated + 1
                      /\ pods' = pods \union {pod(podsCreated')}
                      /\ prepared' = have
                      /\ Save(running, TRUE, "return", 0)
                      /\ UNCHANGED used
           Errs == /\ \/ /\ ~creates /\ t.generation \notin prepared
                         /\ UNCHANGED used
                      \/ Fault
                   /\ prepared' \in {prepared, have}
                   /\ Return(TRUE)
                   /\ UNCHANGED <<pods, podsCreated>>
<1>1. TofuIntake(t) = s /\ s \in Status
  BY SameDecision
<1>2. /\ TakesSameStage(s) /\ s.stage.task # RunNil /\ StagePods(t, s) = {}
      /\ s.stage.state # "in-progress"
      /\ Creates \/ Errs
      /\ UNCHANGED <<tf, caches, reaper, clock, history>>
  <2>1. /\ TofuNoPod(s) /\ s.stage.state # "in-progress"
        /\ Creates \/ Errs
        /\ UNCHANGED tf /\ UNCHANGED <<caches, reaper, clock, history>>
    BY <1>1, Zenon DEF TofuStartsTask, TofuUntouched
  <2>2. QED
    BY <2>1, SameNoPod, Zenon
<1>3. have = PreparedFor(t, s.stage)
  BY DEF PreparedFor, CreatesResources
<1>4. t.generation \in have <=> creates \/ t.generation \in prepared
  OBVIOUS
<1>5. [s EXCEPT !.stage.state = "in-progress",
                !.phase = CASE @ = "initializing" -> "running"
                            [] @ = "initializing-delete" -> "deleting"
                            [] OTHER -> @] = running
  BY <1>1 DEF Status
<1>6. pod(podsCreated + 1) = NewPod(t, s.stage)
  BY DEF NewPod
<1> HIDE DEF have, running, pod, creates
<1>7. CASE Creates
  <2>1. /\ t.generation \in PreparedFor(t, s.stage)
        /\ podsCreated < MaxPods
        /\ pods' = pods \union {NewPod(t, s.stage)}
        /\ podsCreated' = podsCreated + 1
        /\ prepared' = PreparedFor(t, s.stage)
        /\ UNCHANGED used
    BY <1>3, <1>4, <1>6, <1>7
  <2>2. Save([s EXCEPT !.stage.state = "in-progress",
                       !.phase = CASE @ = "initializing" -> "running"
                                   [] @ = "initializing-delete" -> "deleting"
                                   [] OTHER -> @], TRUE, "return", 0)
    BY <1>5, <1>7, Zenon
  <2>3. QED
    BY <1>2, <2>1, <2>2, Zenon DEF StartTask
<1>8. CASE Errs
  <2>1. /\ \/ t.generation \notin PreparedFor(t, s.stage) /\ UNCHANGED used
           \/ Fault
        /\ prepared' \in {prepared, PreparedFor(t, s.stage)}
        /\ Return(TRUE)
        /\ UNCHANGED <<pods, podsCreated>>
    BY <1>3, <1>4, <1>8, Zenon
  <2>2. QED
    BY <1>2, <2>1, Zenon DEF StartTask
<1>9. QED
  BY <1>2, <1>7, <1>8

LEMMA SeesPodStep ==
    ASSUME TypeOK, TofuSeesPod
    PROVE  ObservePod
<1> DEFINE t == tfCache
           s == Intake(t)
           then(p) == IF /\ p.phase = "Succeeded"
                         /\ ~KeepsCompletedPods(t) /\ ~KeepsLatestPodsOnly(t)
                      THEN "deletePod" ELSE "return"
           tofu(p) == [s EXCEPT !.stage.state = TofuStageState(p.phase),
                                !.stage.podName = p.uid,
                                !.stage.message = p.phase]
           terraform(p) == [s EXCEPT !.stage.podName = p.uid,
                                     !.stage.message = p.phase,
                                     !.stage.state = StageState(p.phase)]
<1>1. TofuIntake(t) = s /\ s \in Status
  BY SameDecision
<1>2. /\ TakesSameStage(s) /\ s.stage.task # RunNil
      /\ \E p \in StagePods(t, s) : Save(tofu(p), TRUE, then(p), p.uid)
      /\ UNCHANGED <<cluster, caches, reaper, bounds, history>>
  BY <1>1, SameDecision, SamePods, Zenon DEF TofuSeesPod, OnlyStatus
<1>3. \A p \in StagePods(t, s) : tofu(p) = terraform(p)
  <2> SUFFICES ASSUME NEW p \in StagePods(t, s) PROVE tofu(p) = terraform(p)
    OBVIOUS
  <2>1. p.phase \in PodPhase
    BY DEF StagePods, TypeOK, Pod
  <2>2. TofuStageState(p.phase) = StageState(p.phase)
    BY <2>1, SameState
  <2>3. tofu(p) = [s EXCEPT !.stage.state = StageState(p.phase),
                            !.stage.podName = p.uid,
                            !.stage.message = p.phase]
    BY <2>2
  <2>4. s.stage \in Stage
    BY <1>1 DEF Status
  <2>5. QED
    BY <1>1, <2>3, <2>4 DEF Status, Stage
<1> HIDE DEF tofu
<1>4. \E p \in StagePods(t, s) : Save(terraform(p), TRUE, then(p), p.uid)
  BY <1>2, <1>3
<1>5. QED
  BY <1>2, <1>4, Zenon DEF ObservePod

-----------------------------------------------------------------------------
(***************************************************************************)
(* The later steps and the reaper                                          *)
(***************************************************************************)
LEMMA StartsReaperStep == TofuStartsReaper => StartsReaper
  BY DEF TofuStartsReaper, StartsReaper, NoReaper

LEMMA WritesStatusStep == TofuWritesStatus => WriteStatus
  BY Zenon DEF TofuWritesStatus, WriteStatus

LEMMA WriteFailsStep ==
    ASSUME TofuWriteFails
    PROVE  WriteStatusFails
<1>1. /\ worker.pc = "write"
      /\ (~tf.exists /\ UNCHANGED used) \/ Fault
      /\ worker' = Idle /\ queued' = (queued \/ worker.onError)
      /\ StartsReaper
      /\ \/ tfCache = tf /\ CatchesUp
         \/ tfCache # tf /\ UNCHANGED <<gaveUp, replan>>
      /\ UNCHANGED <<cluster, caches, clock, podsCreated, done>>
  BY StartsReaperStep, Zenon DEF TofuWriteFails
<1>2. IF tfCache = tf THEN CatchesUp ELSE UNCHANGED <<gaveUp, replan>>
  BY <1>1, Zenon
<1>3. QED
  BY <1>1, <1>2, Zenon DEF WriteStatusFails

LEMMA SameConfirmation ==
    ASSUME TypeOK
    PROVE  TofuConfirmed <=> Confirmed(tfCache.status, worker.status)
<1> DEFINE have == tfCache.status.stage
           want == worker.status.stage
<1>1. have \in Stage /\ want \in Stage
  BY DEF TypeOK, Resource, Worker, Status
<1> HIDE DEF have, want
<1>2. [have EXCEPT !.state = want.state] = want
        <=> [have EXCEPT !.state = ""] = [want EXCEPT !.state = ""]
  <2>1. [have EXCEPT !.state = want.state] = want
          => [have EXCEPT !.state = ""] = [want EXCEPT !.state = ""]
    BY <1>1 DEF Stage
  <2>2. ASSUME [have EXCEPT !.state = ""] = [want EXCEPT !.state = ""]
        PROVE  [have EXCEPT !.state = want.state] = want
    <3>1. /\ have.generation = want.generation /\ have.task = want.task
          /\ have.reason = want.reason /\ have.podName = want.podName
          /\ have.message = want.message /\ have.interruptible = want.interruptible
      BY <1>1, <2>2 DEF Stage
    <3>2. QED
      BY <1>1, <3>1 DEF Stage
  <2>3. QED
    BY <2>1, <2>2
<1>3. QED
  BY <1>2, Zenon DEF TofuConfirmed, Confirmed, have, want

LEMMA ConfirmsStep ==
    ASSUME TypeOK, TofuConfirms
    PROVE  ConfirmStatus
BY SameConfirmation, StartsReaperStep, Zenon
   DEF TofuConfirms, ConfirmStatus, Written, NotWritten

LEMMA GivesUpStep ==
    ASSUME TypeOK, TofuGivesUp
    PROVE  GiveUp
BY SameConfirmation, StartsReaperStep, Zenon
   DEF TofuGivesUp, GiveUp, Written, NotWritten

LEMMA DeletesPodStep ==
    ASSUME TofuDeletesPod
    PROVE  DeleteCompletedPod
<1>1. /\ worker.pc = "deletePod"
      /\ \/ pods' = {p \in pods : p.uid # worker.pod} /\ UNCHANGED used
         \/ Fault /\ UNCHANGED pods
      /\ worker' = Idle
      /\ UNCHANGED <<tf, prepared, queued, podsCreated, caches, reaper, clock, history>>
  BY Zenon DEF TofuDeletesPod, TofuUntouched
<1>2. QED
  BY <1>1, Zenon DEF DeleteCompletedPod

LEMMA ReaperStep ==
    ASSUME TypeOK, TofuReaper
    PROVE  Reap
<1>1. /\ cluster = <<tf, pods, prepared>> /\ cluster' = <<tf', pods', prepared'>>
  BY DEF cluster
<1>2. UNCHANGED <<tf, caches, queued, worker, bounds, history>>
  BY Zenon DEF TofuReaper
<1>3. CASE /\ reaper.pc = "read"
           /\ tfCache.exists /\ reaper.attempt <= MaxReapAttempts
           /\ reaper' = [reaper EXCEPT !.pc = "delete", !.generation = tfCache.generation]
           /\ UNCHANGED <<pods, prepared>>
  BY <1>1, <1>2, <1>3, Zenon DEF Reap, ReaperReads
<1>4. CASE /\ reaper.pc = "read"
           /\ ~tfCache.exists \/ reaper.attempt > MaxReapAttempts
           /\ reaper' = NoReaper
           /\ UNCHANGED <<pods, prepared>>
  <2>1. reaper.attempt \in Nat /\ MaxReapAttempts \in Nat
    BY BoundsAssumption DEF TypeOK, Reaper
  <2>2. ~(reaper.attempt > MaxReapAttempts /\ reaper.attempt <= MaxReapAttempts)
    BY <2>1
  <2>3. QED
    BY <1>1, <1>2, <1>4, <2>2, Zenon DEF Reap, ReaperReads
<1>5. CASE /\ reaper.pc = "delete"
           /\ pods' = pods \ {p \in pods : /\ p.generation # reaper.generation
                                           /\ p.phase # "Running"}
           /\ reaper' = [reaper EXCEPT !.pc = "list"]
           /\ UNCHANGED prepared
  <2>1. pods' = {p \in pods : \/ p.generation = reaper.generation
                              \/ p.phase = "Running"}
    BY <1>5
  <2>2. QED
    BY <1>2, <1>5, <2>1, Zenon DEF Reap, ReaperDeletesPods
<1>6. CASE /\ reaper.pc = "list"
           /\ reaper' = IF \A p \in podCache : p.generation = reaper.generation
                        THEN [reaper EXCEPT !.pc = "cleanup"]
                        ELSE [reaper EXCEPT !.pc = "read",
                                            !.attempt = reaper.attempt + 1]
           /\ UNCHANGED <<pods, prepared>>
  <2>1. reaper \in Reaper
    BY DEF TypeOK
  <2>2. [reaper EXCEPT !.pc = "read", !.attempt = reaper.attempt + 1] =
          [reaper EXCEPT !.pc = "read", !.attempt = @ + 1]
    BY <2>1 DEF Reaper
  <2>3. reaper' = IF \E p \in podCache : p.generation # reaper.generation
                  THEN [reaper EXCEPT !.pc = "read", !.attempt = @ + 1]
                  ELSE [reaper EXCEPT !.pc = "cleanup"]
    BY <1>6, <2>2
  <2>4. QED
    BY <1>1, <1>2, <1>6, <2>3, Zenon DEF Reap, ReaperListsPods
<1>7. CASE /\ reaper.pc = "cleanup"
           /\ prepared' = {g \in prepared : g = reaper.generation}
           /\ reaper' = NoReaper
           /\ UNCHANGED pods
  <2>1. prepared' = prepared \intersect {reaper.generation}
    BY <1>7
  <2>2. QED
    BY <1>2, <1>7, <2>1, Zenon DEF Reap, ReaperCleansUp
<1>8. QED
  BY <1>3, <1>4, <1>5, <1>6, <1>7, Zenon DEF TofuReaper

LEMMA ReaperFailsStep ==
    ASSUME TofuReaperFails
    PROVE  Reap
<1>1. {g \in prepared : g = reaper.generation} = prepared \intersect {reaper.generation}
  OBVIOUS
<1>2. QED
  BY <1>1, Zenon DEF TofuReaperFails, Reap, ReaperFails

-----------------------------------------------------------------------------
LEMMA TofuReconcileStep ==
    ASSUME TypeOK, TofuReconcile
    PROVE  Reconcile
BY NotFoundStep, FinalizersStep, InitializeStep, FirstStageStep, SetNewStageStep,
   FinishStep, ListFailsStep, LosesPodStep, StartsTaskStep, SeesPodStep, WritesStatusStep,
   WriteFailsStep, ConfirmsStep, GivesUpStep, DeletesPodStep, Zenon
   DEF TofuReconcile, Reconcile

LEMMA TofuStep ==
    ASSUME TypeOK, TofuNext
    PROVE  Next
BY TofuReconcileStep, ReaperStep, ReaperFailsStep, Zenon DEF TofuNext, Next

\* The two controllers have not drifted apart: every step of the Tofu controller
\* (tofu_controller.go), from a state that it can reach, is one that the Terraform
\* controller (tf_controller.go) could take there.
THEOREM TofuRefinesTerraform == TofuSpec => TofuIsTerraform
<1>1. TypeOK /\ [TofuNext]_vars => [Next]_vars
  BY TofuStep
<1>2. TypeOK /\ [TofuNext]_vars => TypeOK'
  BY <1>1, TypeNext
<1>3. TofuSpec => []TypeOK
  BY <1>2, TypeInit, PTL DEF TofuSpec
<1>4. QED
  BY <1>1, <1>3, PTL DEF TofuSpec, TofuIsTerraform, Spec

-----------------------------------------------------------------------------
(***************************************************************************)
(* The lifecycle.  A reconcile computes the next phase from its cache and  *)
(* writes it blindly; LifeInv says that the cache then shows the phase     *)
(* that it overwrites, unless a confirmation was given up before, that a   *)
(* resource being deleted keeps its finalizer, and which phases a resource *)
(* has while its deletion is not yet taken in.                             *)
(***************************************************************************)
\* The phase may change from old to new, the deletion left out.
PhaseStep(old, new) ==
    \/ new = old
    \/ old # "deleted" /\ new = "initializing"
    \/ old = "initializing" /\ new = "running"
    \/ old = "running" /\ new = "completed"
    \/ old \notin DeletePhase \union {""} /\ new = "initializing-delete"
    \/ old \in {"initializing", "initializing-delete"} /\ new = "deleting"
    \/ old = "deleting" /\ new = "deleted"

\* The phase of a resource of this generation that is being deleted or not.
Alive(s, generation, deleting) ==
    /\ s.prefix => s.phase # ""
    /\ s.prefix /\ s.stage.generation = 0 => s.phase = "initializing"
    /\ deleting /\ s.phase \notin DeletePhase /\ s.stage.generation = generation
         => s.phase = "initializing"

LifeInv ==
    /\ BegunInv /\ DestroyInv
    /\ tf.exists /\ tf.deleting => tf.finalizer
    /\ tf.deleting /\ ~tfCache.deleting => tfCache.generation < tf.generation
    /\ Alive(tf.status, tf.generation, tf.deleting)
    /\ Alive(tfCache.status, tfCache.generation, tfCache.deleting)
    /\ worker.pc = "write" => Alive(worker.status, tf.generation, tf.deleting)
    /\ ~gaveUp /\ tf.exists =>
         /\ worker.pc # "confirm" => tfCache.status.phase = tf.status.phase
         /\ worker.pc = "write" => PhaseStep(tf.status.phase, worker.status.phase)

LEMMA LifeInit == Init => LifeInv
<1> SUFFICES ASSUME Init PROVE LifeInv
  OBVIOUS
<1>1. /\ tfCache = tf /\ tf.deleting = FALSE /\ tf.status = NoStatus
      /\ worker.pc = "idle"
  BY DEF Init, NewResource, Idle
<1>2. NoStatus.prefix = FALSE
  BY DEF NoStatus
<1>3. QED
  BY <1>1, <1>2, BegunInit, DestroyInit DEF LifeInv, Alive

\* A step that changes neither the resource nor its cache.
LEMMA LifeLocalStep ==
    ASSUME LifeInv, BegunInv', DestroyInv', UNCHANGED <<tf, tfCache>>,
           UNCHANGED gaveUp,
           \/ worker' = worker
           \/ /\ worker'.pc \in {"idle", "deletePod"}
              /\ ~gaveUp /\ tf.exists => tfCache.status.phase = tf.status.phase
           \/ /\ worker.pc = "idle" /\ worker'.pc = "write"
              /\ PhaseStep(tfCache.status.phase, worker'.status.phase)
              /\ Alive(worker'.status, tfCache.generation, tfCache.deleting)
    PROVE  LifeInv'
<1>1. CASE worker' = worker
  BY <1>1 DEF LifeInv
<1>2. CASE worker'.pc \in {"idle", "deletePod"}
           /\ (~gaveUp /\ tf.exists => tfCache.status.phase = tf.status.phase)
  BY <1>2 DEF LifeInv
<1>3. CASE /\ worker.pc = "idle" /\ worker'.pc = "write"
           /\ PhaseStep(tfCache.status.phase, worker'.status.phase)
           /\ Alive(worker'.status, tfCache.generation, tfCache.deleting)
  <2> DEFINE g == worker'.status.stage.generation
  <2>1. g \in Nat /\ tfCache.generation \in Nat /\ tf.generation \in Nat
    <3>1. TypeOK /\ TypeOK'
      BY DEF LifeInv, BegunInv, ForwardInv
    <3>2. worker'.status.stage \in Stage
      BY <3>1 DEF TypeOK, Worker, Status
    <3>3. QED
      BY <3>1, <3>2 DEF TypeOK, Resource, Stage
  <2>2. g <= tfCache.generation /\ tfCache.generation <= tf.generation
    BY <1>3 DEF LifeInv, BegunInv, ForwardInv
  <2> HIDE DEF g
  <2>3. tf.deleting /\ g = tf.generation => tfCache.deleting /\ g = tfCache.generation
    <3>1. g = tf.generation => tfCache.generation = tf.generation
      BY <2>1, <2>2
    <3>2. tfCache.generation = tf.generation => ~(tfCache.generation < tf.generation)
      BY <2>1
    <3>3. QED
      BY <3>1, <3>2, Zenon DEF LifeInv
  <2>4. Alive(worker'.status, tf.generation, tf.deleting)
    BY <1>3, <2>3, Zenon DEF Alive, g
  <2>5. ~gaveUp /\ tf.exists => PhaseStep(tf.status.phase, worker'.status.phase)
    BY <1>3 DEF LifeInv
  <2>6. QED
    BY <1>3, <2>4, <2>5 DEF LifeInv
<1>4. QED
  BY <1>1, <1>2, <1>3

\* The changes made before checkSetNewStage.
LEMMA IntakeIsAlive ==
    ASSUME NEW t \in Resource, t.status.prefix, t.status.stage.generation # 0,
           t.status.phase # "deleted",
           Alive(t.status, t.generation, t.deleting)
    PROVE  LET s == Intake(t) IN
           /\ PhaseStep(t.status.phase, s.phase)
           /\ s.phase # "" /\ s.phase # "deleted"
           /\ t.deleting => s.phase \in DeletePhase \union {"initializing"}
           /\ ~IsRetry(t) => /\ t.deleting => s.phase \in DeletePhase
                             /\ \/ s.phase = t.status.phase
                                \/ /\ s.phase = "initializing-delete"
                                   /\ t.deleting /\ t.status.phase \notin DeletePhase
           /\ IsRetry(t) => s.phase = "initializing"
<1> DEFINE s == Intake(t)
<1>1. t.status \in Status /\ t.status.phase # "" /\ t.status.phase \in Phase
  BY DEF Resource, Status, Alive
<1>2. CASE IsRetry(t)
  <2>1. s.phase = "initializing"
    BY <1>1, <1>2 DEF Intake, Status
  <2>2. QED
    BY <1>1, <1>2, <2>1 DEF PhaseStep
<1>3. CASE ~IsRetry(t) /\ t.deleting /\ t.status.phase \notin DeletePhase
  <2>1. s.phase = "initializing-delete"
    BY <1>1, <1>3 DEF Intake, Status
  <2>2. QED
    BY <1>1, <1>3, <2>1 DEF PhaseStep, DeletePhase
<1>4. CASE ~IsRetry(t) /\ ~(t.deleting /\ t.status.phase \notin DeletePhase)
  <2>1. s = t.status
    BY <1>4 DEF Intake
  <2>2. QED
    BY <1>1, <1>4, <2>1 DEF PhaseStep
<1>5. QED
  BY <1>2, <1>3, <1>4

\* A stage that is kept and does not run is not retried and of this generation.
LEMMA KeptStage ==
    ASSUME NEW t, NEW s, checkSetNewStage(t, s) = {}
    PROVE  /\ s.stage.state # "in-progress" =>
                ~IsRetry(t) /\ s.stage.generation = t.generation
  BY DEF checkSetNewStage, Blocked

LEMMA LifeReconcile == LifeInv /\ BegunInv' /\ DestroyInv' /\ Reconcile => LifeInv'
<1> SUFFICES ASSUME LifeInv, BegunInv', DestroyInv', Reconcile PROVE LifeInv'
  OBVIOUS
<1> USE DEF cluster, caches, bounds, history
<1> DEFINE t == tfCache
           s == Intake(t)
           old == t.status.phase
           Here == UNCHANGED <<tf, tfCache>> /\ UNCHANGED gaveUp
<1>0. /\ TypeOK /\ t \in Resource /\ t.status \in Status /\ s \in Status
      /\ Reached(t) /\ s.stage = t.status.stage
      /\ Alive(t.status, t.generation, t.deleting)
      /\ ForwardInv /\ DestroyInv
  BY IntakeType, IntakeKeepsStage DEF LifeInv, BegunInv, ForwardInv, TypeOK, Resource
<1>1. ASSUME Here, worker.pc = "idle", worker' = Idle PROVE LifeInv'
  <2>1. worker'.pc = "idle"
    BY <1>1 DEF Idle
  <2>2. QED
    BY <1>1, <2>1, LifeLocalStep DEF LifeInv
<1>2. ASSUME Here, worker.pc = "idle", worker'.pc = "write", NEW new, worker'.status = new,
             PhaseStep(old, new.phase), Alive(new, t.generation, t.deleting)
      PROVE  LifeInv'
  BY <1>2, LifeLocalStep
<1>3. ASSUME TakesStaged
      PROVE  /\ worker.pc = "idle" /\ t.status.prefix /\ s.prefix /\ s.stage.generation # 0
             /\ PhaseStep(old, s.phase)
             /\ old # "deleted" /\ s.phase # "" /\ s.phase # "deleted"
             /\ t.deleting => s.phase \in DeletePhase \union {"initializing"}
             /\ ~IsRetry(t) => /\ t.deleting => s.phase \in DeletePhase
                               /\ \/ s.phase = old
                                  \/ /\ s.phase = "initializing-delete"
                                     /\ t.deleting /\ old \notin DeletePhase
             /\ IsRetry(t) => s.phase = "initializing"
  <2>1. /\ worker.pc = "idle" /\ t.status.prefix /\ t.status.stage.generation # 0
        /\ old # "deleted"
    BY <1>3 DEF TakesStaged, TakesFinalized, Takes
  <2>2. s.prefix = t.status.prefix
    BY <1>0 DEF Intake, Status
  <2>3. QED
    BY <1>0, <2>1, <2>2, IntakeIsAlive
\* The stage is kept, and so is the phase that Intake computes.
<1>4. ASSUME Here, TakesStaged, worker'.pc = "write", NEW new, worker'.status = new,
             new.prefix = s.prefix, new.phase = s.phase,
             new.stage.generation = s.stage.generation
      PROVE  LifeInv'
  <2>1. Alive(new, t.generation, t.deleting)
    BY <1>3, <1>4 DEF Alive
  <2>2. QED
    BY <1>2, <1>3, <1>4, <2>1
<1>5. CASE ReconcileNotFound \/ ListFails
  BY <1>1, <1>5 DEF ReconcileNotFound, ListFails, Return, Takes, TakesSameStage,
                    TakesStaged, TakesFinalized
<1>6. CASE ReconcileDeleted \/ ReconcileFinalizer
  <2>1. /\ worker.pc = "idle" /\ worker'.pc = "idle" /\ UNCHANGED <<tfCache, gaveUp>>
        /\ tfCache.exists
    BY <1>6 DEF ReconcileDeleted, ReconcileFinalizer, UpdateFinalizer, Return,
                Takes, Idle
  <2> DEFINE f == updateFinalizer(tfCache)
  <2>2. \/ tf' = tf
        \/ t = tf /\ tf' = [tf EXCEPT !.finalizer = f, !.exists = f \/ ~tf.deleting]
    BY <1>6 DEF ReconcileDeleted, ReconcileFinalizer, UpdateFinalizer
  <2>3. CASE tf' = tf
    BY <1>1, <2>1, <2>3, LifeLocalStep DEF LifeInv
  <2>4. CASE t = tf /\ tf' = [tf EXCEPT !.finalizer = f, !.exists = f \/ ~tf.deleting]
    <3>1. tf \in Resource
      BY <1>0 DEF TypeOK
    <3> HIDE DEF f
    <3>2. /\ tf'.status = tf.status /\ tf'.generation = tf.generation
          /\ tf'.deleting = tf.deleting /\ tf'.finalizer = f
          /\ tf'.exists = (f \/ ~tf.deleting)
      BY <2>4, <3>1 DEF Resource
    <3>3. tf'.exists /\ tf'.deleting => tf'.finalizer
      BY <3>2, Zenon
    <3>4. tfCache' = tfCache /\ tfCache.status.phase = tf.status.phase
      BY <2>1, <2>4
    <3>5. QED
      BY <2>1, <3>2, <3>3, <3>4, Zenon DEF LifeInv
  <2>5. QED
    BY <2>2, <2>3, <2>4
<1>7. CASE InitializeResource
  <2> DEFINE new == [t.status EXCEPT !.prefix = TRUE, !.phase = "initializing"]
  <2>1. /\ Here /\ worker.pc = "idle" /\ worker'.pc = "write" /\ worker'.status = new
        /\ old # "deleted"
    BY <1>7 DEF InitializeResource, Save, TakesFinalized, Takes
  <2>2. new.phase = "initializing"
    BY <1>0 DEF Status
  <2> HIDE DEF new
  <2>3. PhaseStep(old, new.phase) /\ Alive(new, t.generation, t.deleting)
    BY <2>1, <2>2 DEF PhaseStep, Alive
  <2>4. QED
    BY <1>2, <2>1, <2>3
<1>8. CASE AddFirstStage
  <2> DEFINE first == newStage(t, "setup", "TF_RESOURCE_CREATED", FALSE,
                               "initializing")
             new == [t.status EXCEPT !.stage = first]
  <2>1. /\ Here /\ worker.pc = "idle" /\ worker'.pc = "write" /\ worker'.status = new
        /\ t.status.prefix /\ t.status.stage.generation = 0
    BY <1>8 DEF AddFirstStage, Save, TakesFinalized, Takes
  <2>2. old = "initializing"
    BY <1>0, <2>1 DEF Alive
  <2>3. new.phase = old
    BY <1>0 DEF Status
  <2> HIDE DEF new
  <2>4. PhaseStep(old, new.phase) /\ Alive(new, t.generation, t.deleting)
    BY <2>2, <2>3 DEF PhaseStep, Alive
  <2>5. QED
    BY <1>2, <2>1, <2>4
<1>9. CASE SetNewStage
  <2>1. PICK stage \in checkSetNewStage(t, s) :
             Save(NextStatus(s, stage), FALSE,
                  IF KeepsLatestPodsOnly(t) THEN "reap" ELSE "return", 0)
    BY <1>9 DEF SetNewStage, NextStatus
  <2> DEFINE new == NextStatus(s, stage)
  <2>2. /\ Here /\ TakesStaged /\ worker.pc = "idle" /\ worker'.pc = "write"
        /\ worker'.status = new
    BY <1>9, <2>1 DEF SetNewStage, Save, TakesStaged, TakesFinalized, Takes
  <2>3. new.stage = stage /\ new.phase \in {"initializing", s.phase}
    BY <1>0 DEF NextStatus, Status
  <2>4. stage.generation = t.generation /\ t.generation # 0
    BY <1>0, NewStageFollows DEF Reached
  <2> HIDE DEF new
  <2>5. PhaseStep(old, new.phase)
    BY <1>3, <2>2, <2>3 DEF PhaseStep
  <2>6. Alive(new, t.generation, t.deleting)
    BY <1>3, <2>2, <2>3, <2>4 DEF Alive
  <2>7. QED
    BY <1>2, <2>2, <2>5, <2>6
<1>10. CASE FinishWorkflow
  <2>1. /\ Here /\ TakesStaged
        /\ \/ /\ s.phase = "running" /\ worker'.pc = "write"
              /\ worker'.status = [s EXCEPT !.phase = "completed"]
           \/ /\ s.phase = "deleting" /\ worker'.pc = "write"
              /\ worker'.status = [s EXCEPT !.phase = "deleted"]
           \/ worker' = Idle
    BY <1>10 DEF FinishWorkflow, Save, Return, TakesSameStage
  <2>2. CASE worker' = Idle
    BY <1>1, <1>3, <2>1, <2>2
  <2>3. CASE /\ s.phase = "running" /\ worker'.pc = "write"
             /\ worker'.status = [s EXCEPT !.phase = "completed"]
    <3> DEFINE new == [s EXCEPT !.phase = "completed"]
    <3>1. /\ new.phase = "completed" /\ new.stage = s.stage
      BY <1>0 DEF Status
    <3>2. old = "running" /\ ~t.deleting
      BY <1>3, <2>1, <2>3 DEF DeletePhase
    <3> HIDE DEF new
    <3>3. PhaseStep(old, new.phase) /\ Alive(new, t.generation, t.deleting)
      BY <1>3, <2>1, <3>1, <3>2 DEF PhaseStep, Alive
    <3>4. QED
      BY <1>2, <1>3, <2>1, <2>3, <3>3 DEF new
  <2>4. CASE /\ s.phase = "deleting" /\ worker'.pc = "write"
             /\ worker'.status = [s EXCEPT !.phase = "deleted"]
    <3> DEFINE new == [s EXCEPT !.phase = "deleted"]
    <3>1. /\ new.phase = "deleted" /\ new.stage = s.stage
      BY <1>0 DEF Status
    <3>2. old = "deleting"
      BY <1>3, <2>1, <2>4 DEF DeletePhase
    <3> HIDE DEF new
    <3>3. PhaseStep(old, new.phase) /\ Alive(new, t.generation, t.deleting)
      BY <1>3, <2>1, <3>1, <3>2 DEF PhaseStep, Alive, DeletePhase
    <3>4. QED
      BY <1>2, <1>3, <2>1, <2>4, <3>3 DEF new
  <2>5. QED
    BY <2>1, <2>2, <2>3, <2>4
<1>11. CASE LosePod
  <2> DEFINE new == [s EXCEPT !.stage.state = "initializing"]
  <2>1. Here /\ TakesStaged /\ worker'.pc = "write" /\ worker'.status = new
    BY <1>11 DEF LosePod, Save, TakesSameStage
  <2>2. /\ new.prefix = s.prefix /\ new.phase = s.phase
        /\ new.stage.generation = s.stage.generation
    BY <1>0 DEF Status, Stage
  <2>3. QED
    BY <1>4, <2>1, <2>2
<1>12. CASE StartTask
  <2> DEFINE phase == CASE s.phase = "initializing" -> "running"
                        [] s.phase = "initializing-delete" -> "deleting"
                        [] OTHER -> s.phase
             new == [s EXCEPT
                        !.stage.state = "in-progress",
                        !.phase = CASE @ = "initializing" -> "running"
                                    [] @ = "initializing-delete" -> "deleting"
                                    [] OTHER -> @]
  <2>1. /\ Here /\ TakesStaged /\ checkSetNewStage(t, s) = {}
        /\ s.stage.state # "in-progress"
    BY <1>12 DEF StartTask, TakesSameStage
  <2>2. (worker'.pc = "write" /\ worker'.status = new) \/ worker' = Idle
    BY <1>12 DEF StartTask, Save, Return
  <2>3. /\ new.prefix = s.prefix /\ new.phase = phase
        /\ new.stage.generation = s.stage.generation
    BY <1>0 DEF Status, Stage
  <2>4. ~IsRetry(t) /\ s.stage.generation = t.generation
    BY <2>1, KeptStage
  <2> HIDE DEF new
  <2>5. CASE s.phase = "initializing"
    <3>1. old = "initializing" /\ ~t.deleting
      BY <1>3, <2>1, <2>4, <2>5 DEF DeletePhase
    <3>2. new.phase = "running"
      BY <2>3, <2>5
    <3>3. PhaseStep(old, new.phase) /\ Alive(new, t.generation, t.deleting)
      BY <1>3, <2>1, <2>3, <3>1, <3>2 DEF PhaseStep, Alive
    <3>4. QED
      BY <1>1, <1>2, <1>3, <2>1, <2>2, <3>3
  <2>6. CASE s.phase = "initializing-delete"
    <3>1. old \in {"initializing", "initializing-delete"}
      BY <1>0, <1>3, <2>1, <2>4, <2>6 DEF Alive
    <3>2. new.phase = "deleting"
      BY <2>3, <2>6
    <3>3. PhaseStep(old, new.phase) /\ Alive(new, t.generation, t.deleting)
      BY <1>3, <2>1, <2>3, <3>1, <3>2 DEF PhaseStep, Alive, DeletePhase
    <3>4. QED
      BY <1>1, <1>2, <1>3, <2>1, <2>2, <3>3
  <2>7. CASE s.phase \notin {"initializing", "initializing-delete"}
    <3>1. new.phase = s.phase
      BY <2>3, <2>7
    <3>2. QED
      BY <1>1, <1>3, <1>4, <2>1, <2>2, <2>3, <3>1
  <2>8. QED
    BY <2>5, <2>6, <2>7
<1>13. CASE ObservePod
  <2> DEFINE New(p) == [s EXCEPT !.stage.podName = p.uid,
                                 !.stage.message = p.phase,
                                 !.stage.state = StageState(p.phase)]
  <2>1. PICK p \in StagePods(t, s), then \in {"return", "deletePod"} :
           Save(New(p), TRUE, then, p.uid)
    BY <1>13 DEF ObservePod
  <2>2. worker'.pc = "write" /\ worker'.status = New(p)
    <3> HIDE DEF New
    <3>1. QED
      BY <2>1 DEF Save
  <2>3. Here /\ TakesStaged
    BY <1>13 DEF ObservePod, TakesSameStage
  <2>4. /\ New(p).prefix = s.prefix /\ New(p).phase = s.phase
        /\ New(p).stage.generation = s.stage.generation
    BY <1>0 DEF Status, Stage
  <2> HIDE DEF New
  <2>5. QED
    BY <1>4, <2>2, <2>3, <2>4
<1>14. CASE WriteStatus
  <2>1. /\ tf'.status = worker.status /\ tf'.generation = tf.generation
        /\ tf'.exists = tf.exists /\ tf'.deleting = tf.deleting
        /\ tf'.finalizer = tf.finalizer
        /\ worker'.pc = "confirm"
        /\ worker.pc = "write" /\ UNCHANGED <<tfCache, gaveUp>>
    BY <1>0, <1>14 DEF WriteStatus, TypeOK, Resource, Worker
  <2>2. QED
    BY <2>1, Zenon DEF LifeInv
<1>15. CASE WriteStatusFails
  <2>1. /\ UNCHANGED <<tf, tfCache>> /\ worker.pc = "write" /\ worker'.pc = "idle"
        /\ gaveUp' = gaveUp \/ tfCache = tf
    BY <1>15 DEF WriteStatusFails, CatchesUp, Idle
  <2>2. QED
    BY <2>1 DEF LifeInv
<1>16. CASE ConfirmStatus
  <2>1. Here /\ worker.pc = "confirm" /\ worker.status = tf.status
    BY <1>0, <1>16 DEF ConfirmStatus, ForwardInv
  <2>2. worker'.pc \in {"idle", "deletePod"}
    BY <1>0, <1>16 DEF ConfirmStatus, Written, NotWritten, Idle, TypeOK, Worker
  <2>3. tf.exists => tfCache.status.phase = tf.status.phase
    BY <1>0, <1>16, <2>1 DEF ConfirmStatus, Confirmed, ForwardInv
  <2>4. QED
    BY <2>1, <2>2, <2>3, LifeLocalStep
<1>17. CASE GiveUp
  <2>1. /\ UNCHANGED <<tf, tfCache>> /\ gaveUp'
        /\ worker'.pc \in {"idle", "deletePod"}
    BY <1>0, <1>17 DEF GiveUp, Written, NotWritten, Idle, TypeOK, Worker
  <2>2. QED
    BY <2>1 DEF LifeInv
<1>18. CASE DeleteCompletedPod
  BY <1>18, LifeLocalStep DEF DeleteCompletedPod, Idle, LifeInv
<1>19. QED
  BY <1>5, <1>6, <1>7, <1>8, <1>9, <1>10, <1>11, <1>12, <1>13, <1>14,
     <1>15, <1>16, <1>17, <1>18 DEF Reconcile

LEMMA LifeNext == LifeInv /\ [Next]_vars => LifeInv'
<1> SUFFICES ASSUME LifeInv, [Next]_vars PROVE LifeInv'
  OBVIOUS
<1> USE DEF cluster, caches, bounds, history
<1>0. /\ TypeOK /\ ForwardInv /\ DestroyInv /\ BegunInv' /\ DestroyInv'
  BY BegunNext, DestroyNext DEF LifeInv, BegunInv, ForwardInv
<1>1. CASE Reconcile
  BY <1>0, <1>1, LifeReconcile
<1>2. ASSUME UNCHANGED <<tf, tfCache, worker, gaveUp>> PROVE LifeInv'
  BY <1>0, <1>2, LifeLocalStep
<1>3. CASE Reap
  BY <1>2, <1>3 DEF Reap, ReaperReads, ReaperDeletesPods, ReaperListsPods,
                    ReaperCleansUp, ReaperFails
<1>4. CASE UserDeletesPod \/ GarbageCollect \/ Tick \/ SyncPods
  BY <1>2, <1>4 DEF UserDeletesPod, GarbageCollect, Tick, SyncPods
<1>5. CASE PodRuns \/ PodSucceeds \/ PodFails
  BY <1>2, <1>5 DEF PodRuns, PodSucceeds, PodFails
<1>6. CASE UserRelabels
  <2>1. /\ tf'.status = tf.status /\ tf'.generation = tf.generation
        /\ tf'.deleting = tf.deleting /\ tf'.exists = tf.exists
        /\ tf'.finalizer = tf.finalizer
        /\ UNCHANGED <<tfCache, worker, gaveUp>>
    BY <1>0, <1>6 DEF UserRelabels, TypeOK, Resource
  <2>2. QED
    BY <1>0, <2>1, Zenon DEF LifeInv
\* The generation grows beyond that of every stage.
<1>7. ASSUME tf'.status = tf.status, tf'.generation = tf.generation + 1,
             tf'.exists /\ tf'.deleting => tf'.finalizer,
             tf'.exists => tf.exists, UNCHANGED <<tfCache, worker, gaveUp>>
      PROVE  LifeInv'
  <2>1. /\ tf.generation \in Nat /\ tfCache.generation \in Nat
        /\ tf.status.stage.generation \in Nat
        /\ worker.status.stage.generation \in Nat
    BY <1>0 DEF TypeOK, Resource, Worker, Status, Stage
  <2>2. /\ tf.status.stage.generation <= tf.generation
        /\ tfCache.generation <= tf.generation
        /\ worker.pc = "write" => worker.status.stage.generation <= tfCache.generation
    BY <1>0 DEF ForwardInv, Reached
  <2>3. /\ tf.status.stage.generation # tf'.generation
        /\ tfCache.generation < tf'.generation
        /\ worker.pc = "write" => worker.status.stage.generation # tf'.generation
    BY <1>7, <2>1, <2>2
  <2>4. Alive(tf.status, tf'.generation, tf'.deleting)
    BY <2>3 DEF LifeInv, Alive
  <2>5. worker.pc = "write" => Alive(worker.status, tf'.generation, tf'.deleting)
    BY <2>3 DEF LifeInv, Alive
  <2>6. QED
    BY <1>0, <1>7, <2>3, <2>4, <2>5, Zenon DEF LifeInv
<1>8. CASE UserUpdatesSpec
  <2>1. /\ tf'.status = tf.status /\ tf'.generation = tf.generation + 1
        /\ tf'.deleting = tf.deleting /\ tf'.exists = tf.exists
        /\ tf'.finalizer = tf.finalizer
        /\ UNCHANGED <<tfCache, worker, gaveUp>>
    BY <1>0, <1>8 DEF UserUpdatesSpec, TypeOK, Resource
  <2>2. tf'.exists /\ tf'.deleting => tf'.finalizer
    BY <2>1, Zenon DEF LifeInv
  <2>3. QED
    BY <1>7, <2>1, <2>2, Zenon
<1>9. CASE UserDeletes
  <2>1. CASE tf.finalizer
    <3>1. /\ tf'.status = tf.status /\ tf'.generation = tf.generation + 1
          /\ tf'.deleting = TRUE /\ tf'.exists = tf.exists
          /\ tf'.finalizer = tf.finalizer
          /\ UNCHANGED <<tfCache, worker, gaveUp>>
      BY <1>0, <1>9, <2>1 DEF UserDeletes, TypeOK, Resource
    <3>2. tf'.exists /\ tf'.deleting => tf'.finalizer
      BY <2>1, <3>1, Zenon
    <3>3. QED
      BY <1>7, <3>1, <3>2, Zenon
  <2>2. CASE ~tf.finalizer
    <3>1. /\ tf'.status = tf.status /\ tf'.generation = tf.generation
          /\ tf'.deleting = tf.deleting /\ tf'.exists = FALSE
          /\ UNCHANGED <<tfCache, worker, gaveUp>>
      BY <1>0, <1>9, <2>2 DEF UserDeletes, TypeOK, Resource
    <3>2. QED
      BY <1>0, <3>1, Zenon DEF LifeInv
  <2>3. QED
    BY <2>1, <2>2
\* The cache catches up, unless a reconcile is about to write what it decided.
<1>10. ASSUME tfCache' = tf, UNCHANGED tf,
              \/ worker' = worker /\ (worker.pc = "write" => UNCHANGED gaveUp)
              \/ worker'.pc = "idle"
       PROVE  LifeInv'
  BY <1>0, <1>10, Zenon DEF LifeInv
<1>11. CASE SyncResource
  BY <1>10, <1>11 DEF SyncResource
<1>12. CASE Crash
  BY <1>10, <1>12 DEF Crash, Idle
<1>13. CASE UNCHANGED vars
  BY <1>2, <1>13 DEF vars
<1>14. QED
  BY <1>1, <1>3, <1>4, <1>5, <1>6, <1>8, <1>9, <1>11, <1>12, <1>13
     DEF Next, User, Environment

-----------------------------------------------------------------------------
(***************************************************************************)
(* The steps of the lifecycle                                              *)
(***************************************************************************)
LEMMA InitMaps == Init => Lifecycle!Init
<1> SUFFICES ASSUME Init PROVE Lifecycle!Init
  OBVIOUS
<1>1. PICK f \in Flags : tf = NewResource(f)
  BY DEF Init
<1>2. /\ tf.exists = TRUE /\ tf.deleting = FALSE /\ tf.finalizer = FALSE
      /\ tf.status.phase = ""
  BY <1>1 DEF NewResource, NoStatus
<1>3. IgnoresDelete(tf) \in BOOLEAN /\ gaveUp = FALSE
  BY DEF IgnoresDelete, Init
<1>4. QED
  BY <1>2, <1>3 DEF Lifecycle!Init

LEMMA LifeStutters ==
    ASSUME UNCHANGED <<tf.exists, tf.deleting, tf.flags, tf.finalizer, tf.status.phase>>,
           UNCHANGED gaveUp
    PROVE  UNCHANGED Lifecycle!vars
BY DEF Lifecycle!vars, IgnoresDelete

\* Steps that leave the resource alone and with which the controller falls behind
\* it, or catches up.
LEMMA UnsureMaps ==
    ASSUME TypeOK', UNCHANGED tf
    PROVE  [Lifecycle!Next]_(Lifecycle!vars)
<1>1. /\ UNCHANGED <<tf.exists, tf.deleting, tf.flags, tf.finalizer, tf.status.phase>>
      /\ IgnoresDelete(tf)' = IgnoresDelete(tf)
  BY DEF IgnoresDelete
<1>2. gaveUp' = TRUE \/ gaveUp' = FALSE
  BY DEF TypeOK
<1>3. CASE gaveUp' = TRUE
  BY <1>1, <1>3, Zenon DEF Lifecycle!FallBehind, Lifecycle!Next
<1>4. CASE gaveUp' = FALSE
  BY <1>1, <1>4, Zenon DEF Lifecycle!CatchUp, Lifecycle!Next
<1>5. QED
  BY <1>2, <1>3, <1>4

\* The write of a status.
LEMMA WriteProceeds ==
    ASSUME LifeInv, WriteStatus
    PROVE  [Lifecycle!Next]_(Lifecycle!vars)
<1>1. tf \in Resource /\ TypeOK
  BY DEF LifeInv, BegunInv, ForwardInv, TypeOK
<1>2. /\ worker.pc = "write" /\ tf.exists
      /\ tf'.exists = tf.exists /\ tf'.deleting = tf.deleting /\ tf'.flags = tf.flags
      /\ tf'.finalizer = tf.finalizer /\ tf'.status = worker.status
      /\ UNCHANGED gaveUp
  BY <1>1 DEF WriteStatus, Resource, history
<1>3. tf'.status.phase \in DeletePhase => tf.deleting
  BY <1>2, Zenon DEF LifeInv, DestroyInv, SafeStatus
<1>4. IgnoresDelete(tf)' = IgnoresDelete(tf)
  BY <1>2 DEF IgnoresDelete
<1>5. Lifecycle!DeletePhase = DeletePhase
  BY DEF Lifecycle!DeletePhase, DeletePhase
<1>6. CASE gaveUp
  <2>1. tf'.status.phase \in Phase /\ tf'.status.phase # ""
    <3>1. worker.status.prefix /\ Alive(worker.status, tf.generation, tf.deleting)
      BY <1>2 DEF LifeInv, BegunInv
    <3>2. worker.status.phase \in Phase
      BY <1>1 DEF TypeOK, Worker, Status
    <3>3. QED
      BY <1>2, <3>1, <3>2 DEF Alive
  <2>2. tf'.status.phase \in {"initializing", "running", "completed"} \union
                            (IF tf.deleting THEN DeletePhase ELSE {})
    BY <1>3, <2>1 DEF Phase
  <2>3. Lifecycle!Repeat
    BY <1>2, <1>4, <1>5, <1>6, <2>2, Zenon DEF Lifecycle!Repeat
  <2>4. QED
    BY <2>3 DEF Lifecycle!Next
<1>7. CASE ~gaveUp
  <2>1. PhaseStep(tf.status.phase, tf'.status.phase)
    BY <1>2, <1>7 DEF LifeInv
  <2>2. {"initializing-delete", "deleting", "deleted"} \subseteq DeletePhase
    BY DEF DeletePhase
  <2>3. \/ tf'.status.phase = tf.status.phase
        \/ Lifecycle!Follows(tf.status.phase, tf'.status.phase)
    BY <1>3, <1>5, <2>1, <2>2, Zenon DEF PhaseStep, Lifecycle!Follows
  <2>4. CASE tf'.status.phase = tf.status.phase
    BY <1>2, <2>4, LifeStutters
  <2>5. CASE Lifecycle!Follows(tf.status.phase, tf'.status.phase)
    <3>1. Lifecycle!Proceed
      BY <1>2, <1>4, <2>5, Zenon DEF Lifecycle!Proceed
    <3>2. QED
      BY <3>1 DEF Lifecycle!Next
  <2>6. QED
    BY <2>3, <2>4, <2>5
<1>8. QED
  BY <1>6, <1>7

\* The update of the finalizer.
LEMMA FinalizerMaps ==
    ASSUME LifeInv, ReconcileDeleted \/ ReconcileFinalizer
    PROVE  [Lifecycle!Next]_(Lifecycle!vars)
<1> DEFINE f == updateFinalizer(tfCache)
<1>1. tf \in Resource /\ f \in BOOLEAN /\ UNCHANGED gaveUp
  BY DEF LifeInv, BegunInv, ForwardInv, TypeOK, updateFinalizer, IgnoresDelete,
         ReconcileDeleted, ReconcileFinalizer, history
<1>2. \/ UNCHANGED tf
      \/ /\ tfCache = tf /\ tf.exists
         /\ tf' = [tf EXCEPT !.finalizer = f, !.exists = f \/ ~tf.deleting]
  BY DEF ReconcileDeleted, ReconcileFinalizer, UpdateFinalizer
<1>3. CASE UNCHANGED tf
  BY <1>1, <1>3, LifeStutters
<1>4. CASE /\ tfCache = tf /\ tf.exists
           /\ tf' = [tf EXCEPT !.finalizer = f, !.exists = f \/ ~tf.deleting]
  <2>1. /\ f <=> updateFinalizer(tf)
        /\ tf.deleting => tf.finalizer
        /\ tf.status.phase = "deleted" => tf.deleting
    <3>1. "deleted" \in DeletePhase
      BY DEF DeletePhase
    <3>2. QED
      BY <1>4, <3>1, Zenon DEF LifeInv, DestroyInv, SafeStatus
  <2> HIDE DEF f
  <2>2. /\ tf'.exists = (f \/ ~tf.deleting) /\ tf'.deleting = tf.deleting
        /\ tf'.flags = tf.flags /\ tf'.finalizer = f /\ tf'.status = tf.status
    BY <1>1, <1>4 DEF Resource
  <2>3. IgnoresDelete(tf)' = IgnoresDelete(tf) /\ tf'.status.phase = tf.status.phase
    BY <2>2 DEF IgnoresDelete
  <2>4. tf.finalizer \in BOOLEAN /\ tf.exists \in BOOLEAN /\ tf.deleting \in BOOLEAN
    BY <1>1 DEF Resource
  <2>5. CASE f <=> tf.finalizer
    <3>1. tf'.finalizer = tf.finalizer
      BY <1>1, <2>2, <2>4, <2>5
    <3>2. f \/ ~tf.deleting
      BY <2>1, <2>5, Zenon
    <3>3. tf'.exists = tf.exists
      BY <1>4, <2>2, <2>4, <3>2
    <3>4. QED
      BY <1>1, <2>2, <3>1, <3>3, LifeStutters
  <2>6. CASE f /\ ~tf.finalizer
    <3>1. ~tf.deleting /\ ~IgnoresDelete(tf)
      BY <2>1, <2>6, Zenon DEF updateFinalizer
    <3>2. tf'.finalizer = TRUE
      BY <1>1, <2>2, <2>6
    <3>3. tf'.exists = tf.exists
      BY <1>4, <2>2, <2>4, <2>6
    <3>4. Lifecycle!Hold
      BY <1>1, <1>4, <2>2, <2>3, <2>6, <3>1, <3>2, <3>3, Zenon DEF Lifecycle!Hold
    <3>5. QED
      BY <3>4 DEF Lifecycle!Next
  <2>7. CASE ~f /\ tf.finalizer
    <3>1. tf.status.phase = "deleted" \/ IgnoresDelete(tf)
      BY <2>1, <2>7, Zenon DEF updateFinalizer
    <3>2. tf'.finalizer = FALSE /\ tf'.exists = ~tf.deleting
      BY <1>1, <2>2, <2>7
    <3>3. Lifecycle!Release
      BY <1>1, <1>4, <2>2, <2>3, <2>7, <3>1, <3>2, Zenon DEF Lifecycle!Release
    <3>4. QED
      BY <3>3 DEF Lifecycle!Next
  <2>8. QED
    BY <2>5, <2>6, <2>7
<1>5. QED
  BY <1>2, <1>3, <1>4

LEMMA UserMaps ==
    ASSUME LifeInv, UserUpdatesSpec \/ UserDeletes \/ UserRelabels
    PROVE  [Lifecycle!Next]_(Lifecycle!vars)
<1>1. tf \in Resource /\ UNCHANGED gaveUp
  BY DEF LifeInv, BegunInv, ForwardInv, TypeOK, UserUpdatesSpec, UserDeletes,
         UserRelabels, history
<1>2. CASE UserUpdatesSpec
  <2>1. /\ tf.exists /\ tf'.exists = tf.exists /\ tf'.deleting = tf.deleting
        /\ tf'.finalizer = tf.finalizer /\ tf'.status = tf.status
    BY <1>1, <1>2 DEF UserUpdatesSpec, Resource
  <2>2. IgnoresDelete(tf)' \in BOOLEAN
    BY DEF IgnoresDelete
  <2>3. Lifecycle!EditSpec
    BY <1>1, <2>1, <2>2, Zenon DEF Lifecycle!EditSpec
  <2>4. QED
    BY <2>3 DEF Lifecycle!Next
<1>3. CASE UserDeletes
  <2>1. /\ tf.exists /\ ~tf.deleting
        /\ tf'.flags = tf.flags /\ tf'.finalizer = tf.finalizer /\ tf'.status = tf.status
        /\ tf'.exists = tf.finalizer /\ tf'.deleting = tf.finalizer
    <3>1. tf.exists = TRUE /\ tf.deleting = FALSE /\ tf.finalizer \in BOOLEAN
      BY <1>1, <1>3 DEF UserDeletes, Resource
    <3>2. CASE tf.finalizer
      BY <1>1, <1>3, <3>1, <3>2 DEF UserDeletes, Resource
    <3>3. CASE ~tf.finalizer
      BY <1>1, <1>3, <3>1, <3>3 DEF UserDeletes, Resource
    <3>4. QED
      BY <3>2, <3>3
  <2>2. IgnoresDelete(tf)' = IgnoresDelete(tf)
    BY <2>1 DEF IgnoresDelete
  <2>3. Lifecycle!AskDelete
    BY <1>1, <2>1, <2>2, Zenon DEF Lifecycle!AskDelete
  <2>4. QED
    BY <2>3 DEF Lifecycle!Next
<1>4. CASE UserRelabels
  <2>1. UNCHANGED <<tf.exists, tf.deleting, tf.flags, tf.finalizer, tf.status.phase>>
    BY <1>1, <1>4 DEF UserRelabels, Resource
  <2>2. QED
    BY <1>1, <2>1, LifeStutters
<1>5. QED
  BY <1>2, <1>3, <1>4

LEMMA StepMaps ==
    LifeInv /\ [Next]_vars => [Lifecycle!Next]_(Lifecycle!vars)
<1> SUFFICES ASSUME LifeInv, [Next]_vars PROVE [Lifecycle!Next]_(Lifecycle!vars)
  OBVIOUS
<1> USE DEF cluster, caches, bounds, history
<1>0. TypeOK'
  BY TypeNext DEF LifeInv, BegunInv, ForwardInv
<1>1. CASE UNCHANGED tf
  BY <1>0, <1>1, UnsureMaps
<1>2. CASE Reconcile
  BY <1>1, <1>2, WriteProceeds, FinalizerMaps
     DEF Reconcile, ReconcileNotFound, InitializeResource, AddFirstStage,
         SetNewStage, FinishWorkflow, ListFails, LosePod, StartTask, ObservePod,
         WriteStatusFails, ConfirmStatus, GiveUp, DeleteCompletedPod
<1>3. CASE Reap
  BY <1>1, <1>3 DEF Reap, ReaperReads, ReaperDeletesPods, ReaperListsPods,
                    ReaperCleansUp, ReaperFails
<1>4. CASE User \/ Environment \/ SyncPods
  BY <1>1, <1>4, UserMaps
     DEF User, Environment, UserDeletesPod, GarbageCollect, PodRuns, PodSucceeds,
         PodFails, Tick, SyncResource, SyncPods, Crash
<1>5. QED
  BY <1>1, <1>2, <1>3, <1>4 DEF Next, vars

\* Every step of the reconcile loop, of the users and of the cluster is a step of
\* the lifecycle or leaves the reported status as it is (tf_controller.go:
\* 669-852, 1764-1831): phases follow each other as Lifecycle says, and an older
\* one is only reported again by a controller that gave up the confirmation of
\* its last write and whose cache has not caught up; at all times the destroy
\* phases come only after a deletion, and the finalizer of a resource that is
\* being deleted is only let go when its phase is deleted or the deletion is
\* ignored.
THEOREM WorkflowFollowsLifecycle == Spec => ImplementsLifecycle
<1>1. Spec => []LifeInv
  BY LifeInit, LifeNext, PTL DEF Spec
<1>2. QED
  BY <1>1, InitMaps, StepMaps, PTL DEF Spec, ImplementsLifecycle, Lifecycle!Spec

\* What is proved of the workflow holds of Tofu resources: they are destroyed
\* only when a user deletes them, run their tasks in order and report the phases
\* of the lifecycle, with the same excuse for a confirmation that the Tofu
\* controller gives up (tofu_controller.go:1332-1370).
THEOREM TofuIsSafe ==
    TofuSpec => [](DestroyOnlyWhenDeleted /\ TasksRunInOrder /\ CompletedMeansApplied)
                /\ StageMovesForward /\ ImplementsLifecycle
<1>1. TofuSpec => Spec
  BY TofuRefinesTerraform DEF TofuIsTerraform
<1>2. QED
  BY <1>1, DestroySafety, TaskOrder, CompletedIsApplied, StageForward,
     WorkflowFollowsLifecycle, PTL
=============================================================================
