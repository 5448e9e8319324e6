--------------------------- MODULE WorkflowProofs ---------------------------
(***************************************************************************)
(* The workflow for every set of configured tasks, every set of labels,    *)
(* every flag of the spec and every bound: its types, the safety of its    *)
(* destroy tasks, and that what it says of its tasks is true: they run in  *)
(* their order, a resource is completed only when it was applied, and the  *)
(* pods that are created are found again.                                  *)
(***************************************************************************)
EXTENDS Workflow, TasksProofs

-----------------------------------------------------------------------------
(***************************************************************************)
(* Types of what a reconcile computes.                                     *)
(***************************************************************************)
LEMMA ConstantTypes ==
    /\ NoStatus \in Status
    /\ Idle \in Worker
    /\ NoReaper \in Reaper
    /\ \A f \in SUBSET FlagName : NewResource(f) \in Resource
<1>1. NoStage \in Stage
  BY DEF NoStage, Stage, TaskName, RunNil, Reason, State
<1>2. NoStatus \in Status
  BY <1>1 DEF NoStatus, Status, Phase, NoLabel
<1>3. QED
  BY <1>2 DEF Idle, Worker, NoReaper, Reaper, NewResource, Resource, NoLabel

LEMMA IntakeType ==
    ASSUME TypeOK, NEW t \in Resource
    PROVE  Intake(t) \in Status
  BY DEF TypeOK, Resource, Intake, Status, Phase, DeletePhase

LEMMA NewStageType ==
    ASSUME NEW t \in Resource, NEW task \in TaskName, NEW reason \in Reason,
           NEW interruptible \in BOOLEAN, NEW state \in State
    PROVE  newStage(t, task, reason, interruptible, state) \in Stage
  BY DEF newStage, Stage, Resource

LEMMA CheckSetNewStageType ==
    ASSUME NEW t \in Resource, NEW s \in Status
    PROVE  checkSetNewStage(t, s) \subseteq Stage
<1>1. /\ s.phase \in Phase
      /\ s.retryReason \in Reason
      /\ s.stage.task \in TaskName
      /\ s.stage.task \in Reason
  BY DEF Status, Stage, Reason, NoLabel
<1>2. ConfiguredTasks \subseteq Task
  BY ExtraTasksAssumption
     DEF ConfiguredTasks, DefaultTasks, Task, CreateTask, DeleteTask
<1>3. \A x \in TaskName : isTaskInterruptable(x) \in BOOLEAN
  BY DEF isTaskInterruptable
<1>4. RetryStage(t, s) \in Stage
  <2> DEFINE fromSetup == s.retryReason \in SetupLabels
             task == IF s.phase \in DeletePhase
                     THEN IF fromSetup THEN "setup-delete" ELSE "init-delete"
                     ELSE IF fromSetup THEN "setup" ELSE "init"
  <2>1. task \in TaskName /\ "initializing" \in State
    BY DEF TaskName, Task, CreateTask, DeleteTask, State
  <2>2. isTaskInterruptable(task) \in BOOLEAN
    BY <1>3, <2>1
  <2> HIDE DEF task
  <2>3. newStage(t, task, s.retryReason, isTaskInterruptable(task),
                 "initializing") \in Stage
    BY <1>1, <2>1, <2>2, NewStageType
  <2>4. QED
    BY <2>3 DEF RetryStage, task
<1>5. FirstStageOfGeneration(t, s) \in Stage
  BY NewStageType
     DEF FirstStageOfGeneration, TaskName, Task, CreateTask, DeleteTask,
         Reason, State
<1>6. StageAfter(t, s) \in Stage
  BY <1>1, <1>2, <1>3, NextTaskType, NewStageType DEF StageAfter, State
<1>7. RestartStage(t, s) \in Stage
  <2> DEFINE create == s.stage.task = "apply"
             from   == IF create THEN "postinit" ELSE "postinit-delete"
             task   == nextTask(from, ConfiguredTasks)
             reason == IF create THEN "RESTARTED_WORKFLOW"
                                 ELSE "RESTARTED_DELETE_WORKFLOW"
  <2>1. from \in TaskName /\ reason \in Reason /\ "initializing" \in State
    BY DEF TaskName, Task, CreateTask, DeleteTask, Reason, State
  <2>2. task \in TaskName
    BY <1>2, <2>1, NextTaskType
  <2>3. isTaskInterruptable(task) \in BOOLEAN
    BY <1>3, <2>2
  <2> HIDE DEF task, reason
  <2>4. newStage(t, task, reason, isTaskInterruptable(task), "initializing")
            \in Stage
    BY <2>1, <2>2, <2>3, NewStageType
  <2>5. QED
    BY <2>4 DEF RestartStage, task, reason
<1>8. QED
  BY <1>4, <1>5, <1>6, <1>7 DEF checkSetNewStage

LEMMA SaveType ==
    ASSUME NEW s \in Status, NEW onError \in BOOLEAN,
           NEW then \in {"return", "deletePod", "reap"}, NEW pod \in Nat,
           Save(s, onError, then, pod)
    PROVE  worker' \in Worker /\ queued' \in BOOLEAN
  BY DEF Save, Worker

LEMMA ReturnType ==
    ASSUME NEW again \in BOOLEAN, Return(again)
    PROVE  worker' \in Worker /\ queued' \in BOOLEAN
  BY ConstantTypes DEF Return

LEMMA UsesType ==
    ASSUME TypeOK, NEW c \in Counters, NEW max, Uses(c, max)
    PROVE  used' \in [Counters -> Nat]
  BY DEF TypeOK, Uses

LEMMA FaultType ==
    ASSUME TypeOK, Fault
    PROVE  used' \in [Counters -> Nat]
  BY UsesType DEF Fault, Counters

\* The cache has caught up.
LEMMA CatchesUpType ==
    ASSUME TypeOK, CatchesUp
    PROVE  gaveUp' \in BOOLEAN /\ replan' \subseteq Nat \X Task
<1> DEFINE stage == tf.status.stage
<1>1. stage.generation \in Nat
  BY DEF TypeOK, Resource, Status, Stage
<1>2. {"apply", "apply-delete"} \subseteq Task
  BY DEF Task, CreateTask, DeleteTask
<1>3. FailedApply(stage) \subseteq Nat \X Task
  BY <1>1, <1>2 DEF FailedApply
<1>4. QED
  BY <1>3 DEF CatchesUp, TypeOK

\* The update of the finalizers.
LEMMA UpdateFinalizerType ==
    ASSUME TypeOK, NEW t, NEW f \in BOOLEAN, UpdateFinalizer(t, f)
    PROVE  /\ tf' \in Resource /\ worker' \in Worker /\ queued' \in BOOLEAN
           /\ used' \in [Counters -> Nat]
<1>1. CASE Return(FALSE) /\ UNCHANGED used
           /\ tf' = [tf EXCEPT !.finalizer = f, !.exists = f \/ ~tf.deleting]
  BY <1>1, ReturnType DEF TypeOK, Resource
<1>2. CASE Return(TRUE) /\ UNCHANGED <<tf, used>>
  BY <1>2, ReturnType DEF TypeOK
<1>3. CASE Fault /\ Return(TRUE) /\ UNCHANGED tf
  BY <1>3, ReturnType, FaultType DEF TypeOK
<1>4. QED
  BY <1>1, <1>2, <1>3 DEF UpdateFinalizer

-----------------------------------------------------------------------------
(***************************************************************************)
(* The type invariant: one step per action.                                *)
(***************************************************************************)
LEMMA TypeInit == Init => TypeOK
<1> SUFFICES ASSUME Init PROVE TypeOK
  OBVIOUS
<1>1. tf \in Resource /\ tfCache \in Resource
  BY ConstantTypes, FlagsAssumption DEF Init
<1>2. used \in [Counters -> Nat]
  BY DEF Init
<1>3. QED
  BY <1>1, <1>2, ConstantTypes DEF Init, TypeOK

LEMMA TypeReconcile == TypeOK /\ Reconcile => TypeOK'
<1> SUFFICES ASSUME TypeOK, Reconcile PROVE TypeOK'
  OBVIOUS
<1> USE DEF cluster, caches, bounds, history
<1>1. CASE ReconcileNotFound
  BY <1>1, ReturnType DEF TypeOK, ReconcileNotFound
<1>2. CASE ReconcileDeleted
  BY <1>2, UpdateFinalizerType DEF TypeOK, ReconcileDeleted, updateFinalizer
<1>3. CASE ReconcileFinalizer
  <2>1. updateFinalizer(tfCache) \in BOOLEAN
    BY DEF updateFinalizer
  <2>2. QED
    BY <1>3, <2>1, UpdateFinalizerType DEF TypeOK, ReconcileFinalizer
<1>4. CASE InitializeResource
  <2>1. [tfCache.status EXCEPT !.prefix = TRUE, !.phase = "initializing"]
           \in Status
    BY DEF TypeOK, Resource, Status, Phase
  <2>2. QED
    BY <1>4, <2>1, SaveType DEF TypeOK, InitializeResource
<1>5. CASE AddFirstStage
  <2>1. newStage(tfCache, "setup", "TF_RESOURCE_CREATED", FALSE, "initializing")
           \in Stage
    BY NewStageType
       DEF TypeOK, TaskName, Task, CreateTask, Reason, State
  <2> DEFINE new == [tfCache.status EXCEPT
                       !.stage = newStage(tfCache, "setup",
                                          "TF_RESOURCE_CREATED", FALSE,
                                          "initializing")]
  <2>2. new \in Status
    BY <2>1 DEF TypeOK, Resource, Status
  <2>3. Save(new, TRUE, "return", 0)
    BY <1>5 DEF AddFirstStage
  <2> HIDE DEF new
  <2>4. worker' \in Worker /\ queued' \in BOOLEAN
    BY <2>2, <2>3, SaveType
  <2>5. QED
    BY <1>5, <2>4 DEF TypeOK, AddFirstStage
<1> DEFINE t == tfCache
           s == Intake(t)
<1>6. t \in Resource /\ s \in Status
  BY IntakeType DEF TypeOK
<1>7. CASE SetNewStage
  <2>1. PICK stage \in checkSetNewStage(t, s) :
          /\ Save([s EXCEPT !.stage = stage,
                            !.phase = IF stage.reason = "GENERATION_CHANGE"
                                      THEN "initializing" ELSE @],
                  FALSE, IF KeepsLatestPodsOnly(t) THEN "reap" ELSE "return", 0)
          /\ \/ pods' = pods \ OldPlanPods(t, s.stage.reason) /\ UNCHANGED used
             \/ Fault /\ UNCHANGED pods
             \/ UNCHANGED <<pods, used>>
    BY <1>7 DEF SetNewStage
  <2>2. stage \in Stage
    BY <1>6, <2>1, CheckSetNewStageType
  <2>3. [s EXCEPT !.stage = stage,
                  !.phase = IF stage.reason = "GENERATION_CHANGE"
                            THEN "initializing" ELSE @] \in Status
    BY <1>6, <2>2 DEF Status, Phase
  <2>4. worker' \in Worker /\ queued' \in BOOLEAN
    BY <2>1, <2>3, SaveType
  <2>5. pods' \subseteq Pod /\ used' \in [Counters -> Nat]
    BY <2>1, FaultType DEF TypeOK
  <2>6. QED
    BY <1>7, <2>4, <2>5 DEF TypeOK, SetNewStage
<1>8. CASE FinishWorkflow
  <2>1. /\ [s EXCEPT !.phase = "completed"] \in Status
        /\ [s EXCEPT !.phase = "deleted"] \in Status
    BY <1>6 DEF Status, Phase, DeletePhase
  <2>2. \/ Save([s EXCEPT !.phase = "completed"], TRUE, "return", 0)
        \/ Save([s EXCEPT !.phase = "deleted"], TRUE, "return", 0)
        \/ Return(FALSE)
    BY <1>8 DEF FinishWorkflow
  <2>3. worker' \in Worker /\ queued' \in BOOLEAN
    BY <2>1, <2>2, SaveType, ReturnType
  <2>4. QED
    BY <1>8, <2>3 DEF TypeOK, FinishWorkflow
<1>9. CASE ListFails
  BY <1>9, ReturnType, FaultType DEF TypeOK, ListFails
<1>10. CASE LosePod
  <2>1. [s EXCEPT !.stage.state = "initializing"] \in Status
    BY <1>6 DEF Status, Stage, State
  <2>2. QED
    BY <1>10, <2>1, SaveType DEF TypeOK, LosePod
<1>11. CASE StartTask
  <2> DEFINE p == NewPod(t, s.stage)
             next == [s EXCEPT
                         !.stage.state = "in-progress",
                         !.phase = CASE @ = "initializing" -> "running"
                                     [] @ = "initializing-delete" -> "deleting"
                                     [] OTHER -> @]
  <2>1. prepared' \subseteq Nat
    BY <1>6, <1>11 DEF TypeOK, StartTask, PreparedFor, Resource
  <2>2. next \in Status
    BY <1>6 DEF Status, Stage, State, Phase, DeletePhase
  <2>3. p \in Pod
    <3>1. s.stage.task \in Task /\ s.stage.generation \in Nat
      BY <1>6, <1>11 DEF StartTask, Status, Stage, TaskName
    <3>2. /\ podsCreated + 1 \in Nat /\ clock \in Nat /\ t.generation \in Nat
          /\ "Pending" \in PodPhase
      BY DEF TypeOK, Resource, PodPhase
    <3>3. QED
      BY <3>1, <3>2 DEF Pod, NewPod
  <2> HIDE DEF p, next
  <2>4. \/ /\ pods' = pods \union {p}
           /\ podsCreated' = podsCreated + 1
           /\ Save(next, TRUE, "return", 0)
           /\ UNCHANGED used
        \/ /\ Return(TRUE)
           /\ UNCHANGED <<pods, podsCreated>>
           /\ UNCHANGED used \/ Fault
    BY <1>11 DEF StartTask, p, next
  <2>5. worker' \in Worker /\ queued' \in BOOLEAN
    BY <2>2, <2>4, SaveType, ReturnType
  <2>6. pods' \subseteq Pod /\ podsCreated' \in Nat
    <3>1. pods \subseteq Pod /\ podsCreated \in Nat
      BY DEF TypeOK
    <3>2. podsCreated' = podsCreated + 1 \/ podsCreated' = podsCreated
      BY <2>4
    <3>3. pods' \subseteq Pod
      BY <2>3, <2>4, <3>1
    <3>4. podsCreated' \in Nat
      BY <3>1, <3>2
    <3>5. QED
      BY <3>3, <3>4
  <2>7. used' \in [Counters -> Nat]
    BY <2>4, FaultType DEF TypeOK
  <2>8. QED
    BY <1>11, <2>1, <2>5, <2>6, <2>7 DEF TypeOK, StartTask
<1>12. CASE ObservePod
  <2>1. PICK p \in StagePods(t, s) :
          Save([s EXCEPT !.stage.podName = p.uid,
                         !.stage.message = p.phase,
                         !.stage.state = StageState(p.phase)],
               TRUE,
               IF /\ p.phase = "Succeeded"
                  /\ ~KeepsCompletedPods(t) /\ ~KeepsLatestPodsOnly(t)
               THEN "deletePod" ELSE "return",
               p.uid)
    BY <1>12 DEF ObservePod
  <2>2. p \in Pod
    BY <2>1 DEF StagePods, TypeOK
  <2>3. p.uid \in Nat /\ p.phase \in PodPhase /\ StageState(p.phase) \in State
    BY <2>2 DEF Pod, PodPhase, StageState, State
  <2>4. [s EXCEPT !.stage.podName = p.uid,
                  !.stage.message = p.phase,
                  !.stage.state = StageState(p.phase)] \in Status
    BY <1>6, <2>3 DEF Status, Stage
  <2>5. worker' \in Worker /\ queued' \in BOOLEAN
    BY <2>1, <2>3, <2>4, SaveType
  <2>6. QED
    BY <1>12, <2>5 DEF TypeOK, ObservePod
<1>13. CASE WriteStatus
  <2>1. tf' \in Resource /\ worker' \in Worker
    BY <1>13 DEF WriteStatus, TypeOK, Resource, Worker
  <2>2. QED
    BY <1>13, <2>1 DEF WriteStatus, TypeOK
<1>14. StartsReaper => reaper' \in Reaper
  BY DEF StartsReaper, TypeOK, NoReaper, Reaper
<1>15. (Written \/ NotWritten) => worker' \in Worker /\ queued' \in BOOLEAN
  BY ConstantTypes DEF Written, NotWritten, TypeOK, Worker
<1>16. CASE WriteStatusFails
  <2>1. used' \in [Counters -> Nat] /\ worker' \in Worker /\ queued' \in BOOLEAN
    BY <1>16, FaultType, ConstantTypes DEF WriteStatusFails, TypeOK, Worker
  <2>2. gaveUp' \in BOOLEAN /\ replan' \subseteq Nat \X Task
    <3>1. CASE CatchesUp
      BY <3>1, CatchesUpType
    <3>2. CASE UNCHANGED <<gaveUp, replan>>
      BY <3>2 DEF TypeOK
    <3>3. QED
      BY <1>16, <3>1, <3>2 DEF WriteStatusFails
  <2>3. QED
    BY <1>14, <1>16, <2>1, <2>2 DEF WriteStatusFails, TypeOK
<1>17. CASE ConfirmStatus
  <2>1. worker' \in Worker /\ queued' \in BOOLEAN
    BY <1>15, <1>17 DEF ConfirmStatus
  <2>2. QED
    BY <1>14, <1>17, <2>1 DEF ConfirmStatus, TypeOK
<1>18. CASE GiveUp
  <2>1. worker' \in Worker /\ queued' \in BOOLEAN
    BY <1>15, <1>18 DEF GiveUp
  <2>2. used' \in [Counters -> Nat]
    BY <1>18, UsesType DEF GiveUp, Counters
  <2>3. QED
    BY <1>14, <1>18, <2>1, <2>2 DEF GiveUp, TypeOK
<1>19. CASE DeleteCompletedPod
  <2>1. used' \in [Counters -> Nat] /\ pods' \subseteq Pod /\ worker' \in Worker
    BY <1>19, FaultType, ConstantTypes DEF DeleteCompletedPod, TypeOK
  <2>2. QED
    BY <1>19, <2>1 DEF DeleteCompletedPod, TypeOK
<1>20. QED
  BY <1>1, <1>2, <1>3, <1>4, <1>5, <1>7, <1>8, <1>9, <1>10, <1>11, <1>12,
     <1>13, <1>16, <1>17, <1>18, <1>19 DEF Reconcile

LEMMA TypeNext == TypeOK /\ [Next]_vars => TypeOK'
<1> SUFFICES ASSUME TypeOK, [Next]_vars PROVE TypeOK'
  OBVIOUS
<1> USE DEF cluster, caches, bounds, history
<1>1. CASE Reconcile
  BY <1>1, TypeReconcile
<1>2. CASE Reap
  <2>1. ReaperFails => used' \in [Counters -> Nat] /\ prepared' \subseteq Nat
    BY FaultType DEF ReaperFails, TypeOK
  <2>2. reaper' \in Reaper
    <3>1. reaper \in Reaper /\ tfCache.generation \in Nat
      BY DEF TypeOK, Resource
    <3>2. CASE ReaperReads
      BY <3>1, <3>2, ConstantTypes DEF ReaperReads, Reaper
    <3>3. CASE ReaperDeletesPods
      BY <3>1, <3>3 DEF ReaperDeletesPods, Reaper
    <3>4. CASE ReaperListsPods
      <4>1. reaper.attempt + 1 \in Nat
        BY <3>1 DEF Reaper
      <4>2. \/ reaper' = [reaper EXCEPT !.pc = "read", !.attempt = @ + 1]
            \/ reaper' = [reaper EXCEPT !.pc = "cleanup"]
        BY <3>4 DEF ReaperListsPods
      <4>3. QED
        BY <3>1, <4>1, <4>2 DEF Reaper
    <3>5. CASE ReaperCleansUp \/ ReaperFails
      <4>1. reaper' = NoReaper
        BY <3>5 DEF ReaperCleansUp, ReaperFails
      <4>2. QED
        BY <4>1, ConstantTypes
    <3>6. QED
      BY <1>2, <3>2, <3>3, <3>4, <3>5 DEF Reap
  <2>3. QED
    BY <1>2, <2>1, <2>2
       DEF Reap, ReaperReads, ReaperDeletesPods, ReaperListsPods,
           ReaperCleansUp, ReaperFails, TypeOK
<1>3. CASE UserUpdatesSpec
  <2>1. tf' \in Resource
    <3>1. PICK f \in Flags :
             tf' = [tf EXCEPT !.generation = @ + 1, !.flags = f]
      BY <1>3 DEF UserUpdatesSpec
    <3>2. tf \in Resource /\ tf.generation + 1 \in Nat /\ f \in SUBSET FlagName
      BY FlagsAssumption DEF TypeOK, Resource
    <3>3. QED
      BY <3>1, <3>2 DEF Resource
  <2>2. QED
    BY <1>3, <2>1 DEF UserUpdatesSpec, TypeOK
<1>4. CASE UserDeletes
  <2>1. tf' \in Resource
    <3>1. tf \in Resource /\ tf.generation + 1 \in Nat
      BY DEF TypeOK, Resource
    <3>2. QED
      BY <1>4, <3>1 DEF UserDeletes, Resource
  <2>2. QED
    BY <1>4, <2>1 DEF UserDeletes, TypeOK
<1>5. CASE UserRelabels
  <2>1. tf' \in Resource
    BY <1>5 DEF UserRelabels, TypeOK, Resource
  <2>2. used' \in [Counters -> Nat]
    BY <1>5, UsesType DEF UserRelabels, Counters
  <2>3. QED
    BY <1>5, <2>1, <2>2 DEF UserRelabels, TypeOK
<1>6. CASE UserDeletesPod
  <2>1. used' \in [Counters -> Nat]
    BY <1>6, UsesType DEF UserDeletesPod, Counters
  <2>2. QED
    BY <1>6, <2>1 DEF UserDeletesPod, TypeOK
<1>7. CASE GarbageCollect
  BY <1>7 DEF GarbageCollect, TypeOK
<1> DEFINE Becomes(phase) ==
             \E p \in pods : pods' = (pods \ {p})
                                   \union {[p EXCEPT !.phase = phase]}
<1>8. ASSUME NEW phase \in PodPhase, Becomes(phase) PROVE pods' \subseteq Pod
  BY <1>8 DEF TypeOK, Pod
<1>9. CASE PodRuns
  <2>1. pods' \subseteq Pod
    BY <1>8, <1>9 DEF PodRuns, PodPhase
  <2>2. QED
    BY <1>9, <2>1 DEF PodRuns, TypeOK
<1>10. CASE PodSucceeds
  <2>1. pods' \subseteq Pod
    BY <1>8, <1>10 DEF PodSucceeds, PodPhase
  <2>2. done' \subseteq Nat \X Task /\ replan' \subseteq Nat \X Task
    BY <1>10 DEF PodSucceeds, TypeOK, Pod
  <2>3. QED
    BY <1>10, <2>1, <2>2 DEF PodSucceeds, TypeOK
<1>11. CASE PodFails
  <2>1. pods' \subseteq Pod
    BY <1>8, <1>11 DEF PodFails, PodPhase
  <2>2. used' \in [Counters -> Nat]
    BY <1>11, UsesType DEF PodFails, Counters
  <2>3. QED
    BY <1>11, <2>1, <2>2 DEF PodFails, TypeOK
<1>12. CASE Tick
  BY <1>12 DEF Tick, TypeOK
<1>13. CASE SyncResource
  <2>1. (CatchesUp \/ UNCHANGED <<gaveUp, replan>>)
           => gaveUp' \in BOOLEAN /\ replan' \subseteq Nat \X Task
    BY CatchesUpType DEF TypeOK
  <2>2. QED
    BY <1>13, <2>1 DEF SyncResource, TypeOK
<1>14. CASE SyncPods
  BY <1>14 DEF SyncPods, TypeOK
<1>15. CASE Crash
  <2>1. used' \in [Counters -> Nat]
    BY <1>15, UsesType DEF Crash, Counters
  <2>2. tf.exists \in BOOLEAN
    BY DEF TypeOK, Resource
  <2>3. gaveUp' \in BOOLEAN /\ replan' \subseteq Nat \X Task
    BY <1>15, CatchesUpType DEF Crash
  <2>4. QED
    BY <1>15, <2>1, <2>2, <2>3, ConstantTypes DEF Crash, TypeOK
<1>16. CASE UNCHANGED vars
  BY <1>16 DEF vars, TypeOK
<1>17. QED
  BY <1>1, <1>2, <1>3, <1>4, <1>5, <1>6, <1>7, <1>9, <1>10, <1>11, <1>12,
     <1>13, <1>14, <1>15, <1>16 DEF Next, User, Environment

\* Every variable keeps its type: in particular a reconcile never stores a stage
\* with an unknown task, state or reason (tf_types.go:271-345, 705-792).
THEOREM TypeInvariant == Spec => []TypeOK
<1>1. QED
  BY TypeInit, TypeNext, PTL DEF Spec

-----------------------------------------------------------------------------
(***************************************************************************)
(* The controller never destroys infrastructure on its own.                *)
(*                                                                         *)
(* DestroyOnlyWhenDeleted is not inductive: it says nothing of the copies  *)
(* of the resource from which the next status and the next pod come, the   *)
(* cache and the status that the worker is about to write.  DestroyInv     *)
(* adds that each copy is safe for the deletion that it was computed from, *)
(* and that a deletion the cache has seen is never taken back.             *)
(***************************************************************************)
\* A status that says or does something about a destroy workflow belongs to a
\* resource that was deleted.
SafeStatus(s, deleted) == \/ s.stage.task \notin DeleteTask /\ s.phase \notin DeletePhase
                          \/ deleted

DestroyInv ==
    /\ TypeOK
    /\ tfCache.deleting => tf.deleting
    /\ SafeStatus(tf.status, tf.deleting)
    /\ SafeStatus(tfCache.status, tfCache.deleting)
    /\ SafeStatus(worker.status, tf.deleting)
    /\ \A p \in pods : p.task \in DeleteTask => tf.deleting

\* setup is not a destroy task, and neither is the end of a workflow.
LEMMA DeleteTasks == /\ "setup" \notin DeleteTask /\ "init" \notin DeleteTask
                     /\ RunNil \notin DeleteTask /\ "apply" \notin DeleteTask
                     /\ "apply-delete" \in DeleteTask
                     /\ "postinit" \notin DeleteTask
                     /\ "postinit-delete" \in DeleteTask
  BY DEF DeleteTask, RunNil

LEMMA IntakeIsSafe ==
    ASSUME TypeOK, NEW t \in Resource, SafeStatus(t.status, t.deleting)
    PROVE  SafeStatus(Intake(t), t.deleting)
<1>1. CASE IsRetry(t)
  BY <1>1 DEF Intake, SafeStatus, DeletePhase, Resource, Status
<1>2. CASE ~IsRetry(t)
  BY <1>2 DEF Intake, SafeStatus, Resource, Status
<1>3. QED
  BY <1>1, <1>2

\* The stage that checkSetNewStage returns is a destroy task only when the
\* status it is computed from is already in the destroy workflow.
LEMMA NewStageIsSafe ==
    ASSUME NEW t \in Resource, NEW s \in Status, SafeStatus(s, t.deleting),
           NEW stage \in checkSetNewStage(t, s)
    PROVE  stage.task \in DeleteTask => t.deleting
<1> SUFFICES ASSUME stage.task \in DeleteTask, ~t.deleting PROVE FALSE
  OBVIOUS
<1>1. s.stage.task \notin DeleteTask /\ s.phase \notin DeletePhase
  BY DEF SafeStatus
<1>2. ConfiguredTasks \subseteq Task
  BY ExtraTasksAssumption
     DEF ConfiguredTasks, DefaultTasks, Task, CreateTask, DeleteTask
<1>3. CASE stage = RetryStage(t, s)
  BY <1>1, <1>3, DeleteTasks DEF RetryStage, newStage
<1>4. CASE stage = FirstStageOfGeneration(t, s)
  BY <1>1, <1>4, DeleteTasks DEF FirstStageOfGeneration, newStage
<1>5. CASE stage = StageAfter(t, s)
  <2>1. stage.task = nextTask(s.stage.task, ConfiguredTasks)
    BY <1>5 DEF StageAfter, newStage
  <2>2. s.stage.task \in TaskName
    BY DEF Status, Stage
  <2>3. QED
    BY <1>1, <1>2, <2>1, <2>2, NextTaskType
<1>6. CASE stage = RestartStage(t, s) /\ s.stage.task \in {"apply", "apply-delete"}
  <2>1. s.stage.task = "apply"
    BY <1>1, <1>6, DeleteTasks
  <2>2. stage.task = nextTask("postinit", ConfiguredTasks)
    BY <1>6, <2>1 DEF RestartStage, newStage
  <2>3. "postinit" \in TaskName
    BY DEF TaskName, Task, CreateTask
  <2>4. QED
    BY <1>2, <2>2, <2>3, NextTaskType, DeleteTasks
<1>7. QED
  BY <1>3, <1>4, <1>5, <1>6 DEF checkSetNewStage

LEMMA DestroyInit == Init => DestroyInv
<1> SUFFICES ASSUME Init PROVE DestroyInv
  OBVIOUS
<1>1. SafeStatus(NoStatus, FALSE)
  BY DEF SafeStatus, NoStatus, NoStage, DeletePhase, RunNil, DeleteTask
<1>2. /\ tf.status = NoStatus /\ tf.deleting = FALSE /\ tfCache = tf
      /\ worker.status = NoStatus /\ pods = {}
  BY DEF Init, NewResource, Idle
<1>3. QED
  BY <1>1, <1>2, TypeInit DEF DestroyInv

-----------------------------------------------------------------------------
(***************************************************************************)
(* The steps.  Most leave the cache alone, and the worker with a status    *)
(* that is safe for it.                                                    *)
(***************************************************************************)
\* A step that does not change the resource or its cache.
LEMMA LocalStep ==
    ASSUME DestroyInv, TypeOK', UNCHANGED <<tf, tfCache>>,
           SafeStatus(worker'.status, tf.deleting),
           \A p \in pods' : p.task \in DeleteTask => tf.deleting
    PROVE  DestroyInv'
  BY DEF DestroyInv, SafeStatus

LEMMA IdleIsSafe == ASSUME NEW d PROVE SafeStatus(Idle.status, d)
  BY DEF SafeStatus, Idle, NoStatus, NoStage, DeletePhase, RunNil, DeleteTask

\* The update of the finalizers.
LEMMA FinalizerStep ==
    ASSUME DestroyInv, TypeOK', UNCHANGED <<tfCache, pods>>, NEW t, NEW f,
           UpdateFinalizer(t, f)
    PROVE  DestroyInv'
<1>1. worker' = Idle
  BY DEF UpdateFinalizer, Return
<1>2. tf'.deleting = tf.deleting /\ tf'.status = tf.status
  BY DEF UpdateFinalizer, DestroyInv, TypeOK, Resource
<1>3. QED
  BY <1>1, <1>2, IdleIsSafe DEF DestroyInv

LEMMA DestroyReconcile == DestroyInv /\ TypeOK' /\ Reconcile => DestroyInv'
<1> SUFFICES ASSUME DestroyInv, TypeOK', Reconcile PROVE DestroyInv'
  OBVIOUS
<1> USE DEF cluster, caches, bounds, history
<1> DEFINE t == tfCache
           s == Intake(t)
           Decides(status) == /\ worker'.status = status
                              /\ UNCHANGED <<tf, tfCache>>
<1>0. TypeOK /\ t \in Resource /\ t.status \in Status /\ s \in Status
  BY IntakeType DEF DestroyInv, TypeOK, Resource
<1>1. SafeStatus(s, t.deleting) /\ SafeStatus(s, tf.deleting)
  BY <1>0, IntakeIsSafe DEF DestroyInv, SafeStatus
<1>2. ASSUME NEW status, Decides(status), SafeStatus(status, tf.deleting),
             \A p \in pods' : p \in pods \/ (p.task \in DeleteTask => tf.deleting)
      PROVE  DestroyInv'
  BY <1>2, LocalStep DEF DestroyInv
<1>3. ASSUME UNCHANGED <<tf, tfCache>>, worker' = Idle, pods' \subseteq pods
      PROVE  DestroyInv'
  BY <1>3, <1>2, IdleIsSafe
<1>4. CASE ReconcileNotFound \/ ListFails
  BY <1>3, <1>4 DEF ReconcileNotFound, ListFails, Return
<1>5. CASE ReconcileDeleted \/ ReconcileFinalizer
  BY <1>5, FinalizerStep DEF ReconcileDeleted, ReconcileFinalizer
<1>6. CASE InitializeResource
  <2> DEFINE new == [t.status EXCEPT !.prefix = TRUE, !.phase = "initializing"]
  <2>1. Decides(new) /\ pods' = pods
    BY <1>6 DEF InitializeResource, Save
  <2>2. SafeStatus(new, tf.deleting)
    BY <1>0 DEF DestroyInv, SafeStatus, Status, DeletePhase
  <2>3. QED
    BY <1>2, <2>1, <2>2
<1>7. CASE AddFirstStage
  <2> DEFINE first == newStage(t, "setup", "TF_RESOURCE_CREATED", FALSE,
                               "initializing")
             new == [t.status EXCEPT !.stage = first]
  <2>1. Decides(new) /\ pods' = pods
    BY <1>7 DEF AddFirstStage, Save
  <2>2. first.task = "setup"
    BY DEF newStage
  <2> HIDE DEF first
  <2>3. SafeStatus(new, tf.deleting)
    BY <1>0, <2>2, DeleteTasks DEF DestroyInv, SafeStatus, Status
  <2>4. QED
    BY <1>2, <2>1, <2>3
<1>8. CASE SetNewStage
  <2> DEFINE New(stage) == [s EXCEPT !.stage = stage,
                                     !.phase = IF stage.reason = "GENERATION_CHANGE"
                                               THEN "initializing" ELSE @]
  <2>1. \E stage \in checkSetNewStage(t, s) :
           Save(New(stage), FALSE, IF KeepsLatestPodsOnly(t) THEN "reap" ELSE "return", 0)
    BY <1>8 DEF SetNewStage
  <2>2. PICK stage \in checkSetNewStage(t, s) : worker'.status = New(stage)
    <3> HIDE DEF New
    <3>1. QED
      BY <2>1 DEF Save
  <2>3. UNCHANGED <<tf, tfCache>> /\ pods' \subseteq pods
    BY <1>8 DEF SetNewStage
  <2>4. stage.task \in DeleteTask => tf.deleting
    BY <1>0, <1>1, <2>2, NewStageIsSafe DEF DestroyInv
  <2>5. SafeStatus(New(stage), tf.deleting)
    BY <1>0, <1>1, <2>4 DEF SafeStatus, Status, DeletePhase
  <2>6. QED
    BY <1>2, <2>2, <2>3, <2>5
<1>9. CASE FinishWorkflow
  <2>1. \/ /\ s.phase = "running"
           /\ Decides([s EXCEPT !.phase = "completed"])
        \/ /\ s.phase = "deleting"
           /\ Decides([s EXCEPT !.phase = "deleted"])
        \/ UNCHANGED <<tf, tfCache>> /\ worker' = Idle
    BY <1>9 DEF FinishWorkflow, Save, Return
  <2>2. pods' = pods
    BY <1>9 DEF FinishWorkflow
  <2>3. /\ SafeStatus([s EXCEPT !.phase = "completed"], tf.deleting)
        /\ s.phase = "deleting" =>
             SafeStatus([s EXCEPT !.phase = "deleted"], tf.deleting)
    BY <1>0, <1>1 DEF SafeStatus, Status, DeletePhase
  <2>4. QED
    BY <1>2, <1>3, <2>1, <2>2, <2>3
<1>10. CASE LosePod
  <2> DEFINE new == [s EXCEPT !.stage.state = "initializing"]
  <2>1. Decides(new) /\ pods' = pods
    BY <1>10 DEF LosePod, Save
  <2>2. SafeStatus(new, tf.deleting)
    BY <1>0, <1>1 DEF SafeStatus, Status, Stage
  <2>3. QED
    BY <1>2, <2>1, <2>2
<1>11. CASE StartTask
  <2> DEFINE p == NewPod(t, s.stage)
             new == [s EXCEPT
                        !.stage.state = "in-progress",
                        !.phase = CASE @ = "initializing" -> "running"
                                    [] @ = "initializing-delete" -> "deleting"
                                    [] OTHER -> @]
  <2>1. \/ Decides(new) /\ pods' = pods \union {p}
        \/ UNCHANGED <<tf, tfCache>> /\ worker' = Idle /\ pods' = pods
    BY <1>11 DEF StartTask, Save, Return
  <2>2. SafeStatus(new, tf.deleting)
    BY <1>0, <1>1 DEF SafeStatus, Status, Stage, DeletePhase
  <2>3. p.task \in DeleteTask => tf.deleting
    BY <1>1 DEF SafeStatus, NewPod
  <2> HIDE DEF p, new
  <2>4. QED
    BY <1>2, <1>3, <2>1, <2>2, <2>3
<1>12. CASE ObservePod
  <2> DEFINE New(p) == [s EXCEPT !.stage.podName = p.uid,
                                 !.stage.message = p.phase,
                                 !.stage.state = StageState(p.phase)]
  <2>1. PICK p \in StagePods(t, s), then \in {"return", "deletePod"} :
           Save(New(p), TRUE, then, p.uid)
    BY <1>12 DEF ObservePod
  <2>2. worker'.status = New(p)
    <3> HIDE DEF New
    <3>1. QED
      BY <2>1 DEF Save
  <2>3. UNCHANGED <<tf, tfCache, pods>>
    BY <1>12 DEF ObservePod
  <2>4. SafeStatus(New(p), tf.deleting)
    BY <1>0, <1>1 DEF SafeStatus, Status, Stage
  <2>5. QED
    BY <1>2, <2>2, <2>3, <2>4
<1>13. CASE WriteStatus
  <2>1. /\ tf'.status = worker.status /\ tf'.deleting = tf.deleting
        /\ worker'.status = worker.status
        /\ UNCHANGED <<tfCache, pods>>
    BY <1>0, <1>13 DEF WriteStatus, TypeOK, Resource, Worker
  <2>2. QED
    BY <2>1 DEF DestroyInv
<1>14. CASE WriteStatusFails
  BY <1>3, <1>14 DEF WriteStatusFails
<1>15. CASE ConfirmStatus \/ GiveUp
  <2>1. worker' = Idle \/ worker'.status = worker.status
    BY <1>0, <1>15
       DEF ConfirmStatus, GiveUp, Written, NotWritten, TypeOK, Worker
  <2>2. UNCHANGED <<tf, tfCache, pods>>
    BY <1>15 DEF ConfirmStatus, GiveUp
  <2>3. QED
    BY <1>3, <2>1, <2>2, LocalStep DEF DestroyInv
<1>16. CASE DeleteCompletedPod
  BY <1>3, <1>16 DEF DeleteCompletedPod
<1>17. QED
  BY <1>4, <1>5, <1>6, <1>7, <1>8, <1>9, <1>10, <1>11, <1>12, <1>13, <1>14,
     <1>15, <1>16 DEF Reconcile

LEMMA DestroyNext == DestroyInv /\ [Next]_vars => DestroyInv'
<1> SUFFICES ASSUME DestroyInv, [Next]_vars PROVE DestroyInv'
  OBVIOUS
<1> USE DEF cluster, caches, bounds, history
<1>0. TypeOK /\ TypeOK'
  BY TypeNext DEF DestroyInv
<1>1. CASE Reconcile
  BY <1>0, <1>1, DestroyReconcile
<1>2. ASSUME UNCHANGED <<tf, tfCache, worker>>, pods' \subseteq pods
      PROVE  DestroyInv'
  BY <1>0, <1>2, LocalStep DEF DestroyInv
<1>3. CASE Reap
  BY <1>2, <1>3 DEF Reap, ReaperReads, ReaperDeletesPods, ReaperListsPods,
                    ReaperCleansUp, ReaperFails
<1>4. ASSUME UNCHANGED <<tfCache, worker, pods>>, tf'.status = tf.status,
             tf.deleting => tf'.deleting
      PROVE  DestroyInv'
  BY <1>0, <1>4 DEF DestroyInv, SafeStatus
<1>5. CASE UserUpdatesSpec
  <2>1. tf'.status = tf.status /\ tf'.deleting = tf.deleting
    BY <1>0, <1>5 DEF UserUpdatesSpec, TypeOK, Resource
  <2>2. QED
    BY <1>4, <1>5, <2>1 DEF UserUpdatesSpec
<1>6. CASE UserDeletes
  <2>1. tf'.status = tf.status /\ (tf.deleting => tf'.deleting)
    BY <1>0, <1>6 DEF UserDeletes, TypeOK, Resource
  <2>2. QED
    BY <1>4, <1>6, <2>1 DEF UserDeletes
<1>7. CASE UserRelabels
  <2>1. tf'.status = tf.status /\ tf'.deleting = tf.deleting
    BY <1>0, <1>7 DEF UserRelabels, TypeOK, Resource
  <2>2. QED
    BY <1>4, <1>7, <2>1 DEF UserRelabels
<1>8. CASE UserDeletesPod \/ GarbageCollect
  BY <1>2, <1>8 DEF UserDeletesPod, GarbageCollect
<1>9. CASE PodRuns \/ PodSucceeds \/ PodFails
  <2>1. PICK phase \in PodPhase, p \in pods :
          pods' = (pods \ {p}) \union {[p EXCEPT !.phase = phase]}
    BY <1>9 DEF PodRuns, PodSucceeds, PodFails, PodPhase
  <2>2. [p EXCEPT !.phase = phase].task = p.task
    BY <1>0 DEF TypeOK, Pod
  <2>3. \A q \in pods' : q.task \in DeleteTask => tf.deleting
    BY <2>1, <2>2 DEF DestroyInv
  <2>4. UNCHANGED <<tf, tfCache, worker>>
    BY <1>9 DEF PodRuns, PodSucceeds, PodFails
  <2>5. QED
    BY <1>0, <2>3, <2>4, LocalStep DEF DestroyInv
<1>10. CASE Tick \/ SyncPods
  BY <1>2, <1>10 DEF Tick, SyncPods
<1>11. CASE SyncResource
  BY <1>0, <1>11 DEF SyncResource, DestroyInv
<1>12. CASE Crash
  <2>1. worker' = Idle /\ tfCache' = tf /\ UNCHANGED <<tf, pods>>
    BY <1>12 DEF Crash
  <2>2. QED
    BY <1>0, <2>1, IdleIsSafe DEF DestroyInv
<1>13. CASE UNCHANGED vars
  BY <1>2, <1>13 DEF vars
<1>14. QED
  BY <1>1, <1>3, <1>5, <1>6, <1>7, <1>8, <1>9, <1>10, <1>11, <1>12, <1>13
     DEF Next, User, Environment

\* No destroy task runs and no delete phase is entered unless a user has deleted
\* the resource, whatever the order of retries, updates, crashes, failed requests
\* and outdated reads (tf_controller.go:740-776, 1159-1253).
THEOREM DestroySafety == Spec => []DestroyOnlyWhenDeleted
<1>1. DestroyInv => DestroyOnlyWhenDeleted
  BY DEF DestroyInv, DestroyOnlyWhenDeleted, SafeStatus
<1>2. QED
  BY <1>1, DestroyInit, DestroyNext, PTL DEF Spec

-----------------------------------------------------------------------------
(***************************************************************************)
(* The order of the tasks.                                                 *)
(***************************************************************************)
LEMMA Configured == ConfiguredTasks \subseteq Task
  BY ExtraTasksAssumption
     DEF ConfiguredTasks, DefaultTasks, Task, CreateTask, DeleteTask

\* The tasks before the next one are those before the current one, and itself.
LEMMA BeforeNext ==
    ASSUME NEW t \in TaskName, nextTask(t, ConfiguredTasks) # RunNil
    PROVE  /\ t \in Task
           /\ Before(nextTask(t, ConfiguredTasks)) \subseteq Before(t) \union {t}
<1> DEFINE n == nextTask(t, ConfiguredTasks)
<1>1. /\ t \in Task /\ n \in Later(t, ConfiguredTasks)
      /\ \A v \in Later(t, ConfiguredTasks) : ID[n] <= ID[v]
  BY Configured, NextTaskIsLater
<1> HIDE DEF n
<1>2. n \in Family(t) /\ ID[n] > ID[t]
  BY <1>1 DEF Later
<1>3. n \in Task /\ Family(n) = Family(t) /\ (n \in CreateTask <=> t \in CreateTask)
  BY <1>1, <1>2, FamilyOf
<1>4. SUFFICES ASSUME NEW u \in Before(n), u # t
               PROVE  u \in Before(t)
  BY <1>1 DEF n
<1>5. /\ u \in ConfiguredTasks /\ u \in Family(t) /\ ID[u] < ID[n]
      /\ n \in CreateTask => ID[u] >= ID["init"]
  BY <1>3, <1>4 DEF Before, Earlier
<1>6. u \in Task
  BY <1>1, <1>5, FamilyOf
<1>7. ID[u] \in Nat /\ ID[t] \in Nat /\ ID[n] \in Nat
  BY <1>1, <1>3, <1>6, IDIsNatural
<1>8. ~ (ID[u] > ID[t])
  BY <1>1, <1>5, <1>7 DEF Later
<1>9. ID[u] < ID[t]
  BY <1>1, <1>4, <1>5, <1>7, <1>8, SameNumber
<1>10. QED
  BY <1>3, <1>5, <1>9 DEF Before, Earlier

\* What a restart leaves out was before the apply.
LEMMA BeforeRestart ==
    /\ /\ nextTask("postinit", ConfiguredTasks) \in CreateTask
       /\ Before(nextTask("postinit", ConfiguredTasks)) \subseteq Before("apply")
    /\ /\ nextTask("postinit-delete", ConfiguredTasks) \in DeleteTask
       /\ Before(nextTask("postinit-delete", ConfiguredTasks))
             \subseteq Before("apply-delete")
<1> DEFINE From(from, plan, apply) ==
             /\ nextTask(from, ConfiguredTasks) \in Family(from)
             /\ Before(nextTask(from, ConfiguredTasks)) \subseteq Before(apply)
<1>1. ASSUME NEW from \in Task, NEW plan \in Family(from), NEW apply \in Family(from),
             plan \in ConfiguredTasks, ID[from] < ID[plan], ID[plan] < ID[apply]
      PROVE  From(from, plan, apply)
  <2> DEFINE n == nextTask(from, ConfiguredTasks)
  <2>1. plan \in Later(from, ConfiguredTasks)
    <3>1. plan \in Task /\ ID[plan] \in Nat /\ ID[from] \in Nat
      BY <1>1, FamilyOf, IDIsNatural
    <3>2. QED
      BY <1>1, <3>1 DEF Later
  <2>3. /\ n \in Later(from, ConfiguredTasks)
        /\ \A v \in Later(from, ConfiguredTasks) : ID[n] <= ID[v]
    BY <1>1, <2>1, Configured, NextTaskExists
  <2> HIDE DEF n
  <2>4. n \in Family(from) /\ ID[n] <= ID[plan]
    BY <2>1, <2>3 DEF Later
  <2>5. /\ n \in Task /\ apply \in Task /\ plan \in Task
        /\ Family(n) = Family(apply)
        /\ n \in CreateTask <=> apply \in CreateTask
    BY <1>1, <2>4, FamilyOf
  <2>6. ASSUME NEW u \in Before(n) PROVE u \in Before(apply)
    <3>1. /\ u \in ConfiguredTasks \intersect Family(apply) /\ ID[u] < ID[n]
          /\ apply \in CreateTask => ID[u] >= ID["init"]
      BY <2>5, <2>6 DEF Before, Earlier
    <3>2. u \in Task
      BY <3>1, Configured
    <3>3. ID[u] < ID[apply]
      BY <1>1, <2>4, <2>5, <3>1, <3>2, IDIsNatural
    <3>4. QED
      BY <3>1, <3>3 DEF Before, Earlier
  <2>7. QED
    BY <2>4, <2>6 DEF n
<1> HIDE DEF From
<1>2. From("postinit", "plan", "apply")
  <2>1. "postinit" \in Task /\ Family("postinit") = CreateTask
    BY DEF Family, Task, CreateTask
  <2>2. "plan" \in CreateTask /\ "apply" \in CreateTask /\ "plan" \in ConfiguredTasks
    BY DEF CreateTask, ConfiguredTasks, DefaultTasks
  <2>3. QED
    BY <1>1, <2>1, <2>2, IDs
<1>3. From("postinit-delete", "plan-delete", "apply-delete")
  <2>1. "postinit-delete" \in Task /\ Family("postinit-delete") = DeleteTask
    BY DEF Family, Task, CreateTask, DeleteTask
  <2>2. /\ "plan-delete" \in DeleteTask /\ "apply-delete" \in DeleteTask
        /\ "plan-delete" \in ConfiguredTasks
    BY DEF DeleteTask, ConfiguredTasks, DefaultTasks
  <2>3. QED
    BY <1>1, <2>1, <2>2, IDs
<1>4. Family("postinit") = CreateTask /\ Family("postinit-delete") = DeleteTask
  BY DEF Family, CreateTask, DeleteTask
<1>5. QED
  BY <1>2, <1>3, <1>4 DEF From

LEMMA NothingBeforeTheFirst ==
    /\ Before("setup") = {} /\ Before("init") = {} /\ Before("setup-delete") = {}
<1>1. \A u \in Task : ID[u] > 0 /\ (u \in DeleteTask => ID[u] > 100) /\ ID[u] \in Nat
  BY IDRange DEF Task
<1>2. \A u \in DeleteTask : ~ (ID[u] < ID["setup-delete"])
  BY IDs DEF DeleteTask
<1>3. /\ "setup" \in CreateTask /\ "init" \in CreateTask
      /\ "setup-delete" \notin CreateTask
  BY DEF CreateTask
<1>4. \A u \in CreateTask : ~ (ID[u] < ID["init"] /\ ID[u] >= ID["init"])
                         /\ ~ (ID[u] < ID["setup"])
  BY <1>1, IDs DEF CreateTask
<1>5. QED
  BY <1>2, <1>3, <1>4 DEF Before, Earlier, Family

\* When no task is left after t in the create workflow, t is the apply or was
\* run after it.
LEMMA LastAfterApply ==
    ASSUME NEW t \in CreateTask, nextTask(t, ConfiguredTasks) = RunNil
    PROVE  t = "apply" \/ "apply" \in Before(t)
<1>1. t \in Task /\ "apply" \in ConfiguredTasks /\ "apply" \in CreateTask
      /\ "apply" \in Family(t)
  BY DEF Task, ConfiguredTasks, DefaultTasks, CreateTask, Family
<1>2. Later(t, ConfiguredTasks) = {}
  BY <1>1, Configured, NextTaskExists DEF Later, RunNil, Task, CreateTask, DeleteTask
<1>3. ~ (ID["apply"] > ID[t]) /\ ID[t] \in Nat /\ ID["apply"] \in Nat
  BY <1>1, <1>2, IDIsNatural, IDs DEF Later
<1>4. CASE ID["apply"] = ID[t]
  BY <1>1, <1>4, SameNumber
<1>5. CASE ID["apply"] < ID[t]
  BY <1>1, <1>5, IDs DEF Before, Earlier
<1>6. QED
  BY <1>3, <1>4, <1>5

-----------------------------------------------------------------------------
(***************************************************************************)
(* The inductive invariant.  The properties speak of the pods and of the   *)
(* status in the API server; the next status comes from copies of it, and  *)
(* a stage completes because a pod of the cache has succeeded.             *)
(***************************************************************************)
\* Here d is the set of pairs of a generation and a task that have succeeded.
\* The tasks before the stage's have succeeded, and its own when it is complete.
Ordered(stage, d) ==
    stage.task \in Task =>
        /\ \A u \in Before(stage.task) : <<stage.generation, u>> \in d
        /\ stage.state = "complete" => <<stage.generation, stage.task>> \in d

\* The phase running is of a create workflow, at the end of which the resource
\* was applied.
Applied(s, d) ==
    /\ s.phase = "running" => s.stage.task \notin DeleteTask
    /\ s.phase = "running" /\ s.stage.task = RunNil =>
         <<s.stage.generation, "apply">> \in d
    /\ s.phase = "completed" =>
         s.stage.task = RunNil /\ <<s.stage.generation, "apply">> \in d
    /\ s.stage.generation = 0 => s.phase \in {"", "initializing"}

Sound(s, d) == Ordered(s.stage, d) /\ Applied(s, d)

\* A pod runs in its order, is found again, and has succeeded if it says so.
SoundPod(p, d) ==
    /\ p.version = p.generation
    /\ \A u \in Before(p.task) : <<p.generation, u>> \in d
    /\ p.phase = "Succeeded" => <<p.generation, p.task>> \in d

OrderInv ==
    /\ DestroyInv
    /\ \A p \in pods \union podCache : SoundPod(p, done)
    /\ Sound(tf.status, done) /\ Sound(tfCache.status, done)
    /\ Sound(worker.status, done)
    /\ tf.generation # 0 /\ tfCache.generation # 0

\* What succeeded stays so.
LEMMA MoreIsDone ==
    ASSUME NEW d, NEW e, d \subseteq e
    PROVE  /\ \A s : Sound(s, d) => Sound(s, e)
           /\ \A p : SoundPod(p, d) => SoundPod(p, e)
<1>1. ASSUME NEW s, Sound(s, d) PROVE Sound(s, e)
  BY <1>1 DEF Sound, Ordered, Applied
<1>2. ASSUME NEW p, SoundPod(p, d) PROVE SoundPod(p, e)
  BY <1>2 DEF SoundPod
<1>3. QED
  BY <1>1, <1>2

LEMMA IntakeIsSound ==
    ASSUME TypeOK, NEW d, NEW t \in Resource, Sound(t.status, d),
           t.status.stage.generation # 0
    PROVE  Sound(Intake(t), d) /\ Intake(t).stage = t.status.stage
<1>1. CASE IsRetry(t)
  BY <1>1 DEF Intake, Sound, Applied, Resource, Status
<1>2. CASE ~IsRetry(t)
  BY <1>2 DEF Intake, Sound, Applied, Resource, Status
<1>3. QED
  BY <1>1, <1>2

\* A reconcile that keeps a stage that is not in progress has seen no retry, and
\* the stage is of the resource's generation.
LEMMA SameStage ==
    ASSUME NEW t \in Resource, NEW s, checkSetNewStage(t, s) = {},
           s.stage.state # "in-progress"
    PROVE  ~IsRetry(t) /\ s.stage.generation = t.generation
  BY DEF checkSetNewStage, Blocked

\* The status of a new stage, as SetNewStage saves it.
NextStatus(s, stage) ==
    [s EXCEPT !.stage = stage,
              !.phase = IF stage.reason = "GENERATION_CHANGE"
                        THEN "initializing" ELSE @]

\* The branches of checkSetNewStage, one step each.
LEMMA NewStageIsSound ==
    ASSUME TypeOK, NEW d, NEW t \in Resource, t.generation # 0,
           NEW s, s = Intake(t), s \in Status, Sound(s, d),
           s.stage.generation # 0,
           NEW stage \in checkSetNewStage(t, s)
    PROVE  Sound(NextStatus(s, stage), d)
<1> DEFINE new == NextStatus(s, stage)
<1>1. stage \in Stage
  BY CheckSetNewStageType
<1>2. /\ new.stage = stage
      /\ new.phase = IF stage.reason = "GENERATION_CHANGE" THEN "initializing"
                                                           ELSE s.phase
  BY DEF NextStatus, Status
<1>3. stage.generation = t.generation
  <2>1. /\ RetryStage(t, s).generation = t.generation
        /\ FirstStageOfGeneration(t, s).generation = t.generation
        /\ StageAfter(t, s).generation = t.generation
        /\ RestartStage(t, s).generation = t.generation
    BY DEF newStage, RetryStage, FirstStageOfGeneration, StageAfter, RestartStage
  <2>2. stage \in {RetryStage(t, s), FirstStageOfGeneration(t, s),
                   StageAfter(t, s), RestartStage(t, s)}
    BY DEF checkSetNewStage
  <2>3. QED
    BY <2>1, <2>2
<1>4. CASE stage = RetryStage(t, s) /\ IsRetry(t)
  <2>1. s.phase = "initializing"
    BY <1>4 DEF Intake, Resource, Status
  <2>2. /\ stage.task = "setup" \/ stage.task = "init"
        /\ stage.state = "initializing"
    BY <1>4, <2>1 DEF RetryStage, newStage, DeletePhase
  <2>3. new.phase = "initializing"
    BY <1>2, <2>1
  <2>4. QED
    BY <1>2, <2>2, <2>3, NothingBeforeTheFirst DEF Sound, Ordered, Applied
<1>5. CASE stage = FirstStageOfGeneration(t, s)
  <2>1. /\ stage.task = "setup" \/ stage.task = "setup-delete"
        /\ stage.state = "initializing"
        /\ s.phase \in DeletePhase \/ stage.reason = "GENERATION_CHANGE"
    BY <1>5 DEF FirstStageOfGeneration, newStage
  <2>2. new.phase \in DeletePhase \/ new.phase = "initializing"
    BY <1>2, <2>1
  <2>3. QED
    BY <1>2, <1>3, <2>1, <2>2, NothingBeforeTheFirst
       DEF Sound, Ordered, Applied, DeletePhase
<1>6. CASE /\ stage = StageAfter(t, s)
           /\ s.stage.state = "complete" /\ s.stage.task # RunNil
           /\ s.stage.generation = t.generation
  <2> DEFINE n == nextTask(s.stage.task, ConfiguredTasks)
  <2>1. s.stage.task \in Task /\ s.stage.task \in TaskName
    BY <1>6 DEF Status, Stage, TaskName
  <2>2. /\ stage.task = n /\ stage.reason = s.stage.task
        /\ n # RunNil => stage.state = "initializing"
    BY <1>6 DEF StageAfter, newStage
  <2>3. /\ \A u \in Before(s.stage.task) : <<t.generation, u>> \in d
        /\ <<t.generation, s.stage.task>> \in d
    BY <1>6, <2>1 DEF Sound, Ordered
  <2>4. new.phase = s.phase
    BY <1>2, <2>1, <2>2 DEF Task, CreateTask, DeleteTask
  <2>5. Ordered(stage, d)
    <3>1. CASE n = RunNil
      BY <2>2, <3>1 DEF Ordered, RunNil, Task, CreateTask, DeleteTask
    <3>2. CASE n # RunNil
      BY <1>3, <2>1, <2>2, <2>3, <3>2, BeforeNext DEF Ordered
    <3>3. QED
      BY <3>1, <3>2
  <2>6. s.phase # "completed"
    BY <1>6 DEF Sound, Applied
  <2>7. s.phase = "running" => n \notin DeleteTask
    BY <2>1, Configured, NextTaskType DEF Sound, Applied
  <2>8. ASSUME s.phase = "running", n = RunNil
        PROVE  <<t.generation, "apply">> \in d
    <3>1. s.stage.task \in CreateTask
      BY <2>1, <2>8 DEF Sound, Applied, Task
    <3>2. QED
      BY <2>3, <2>8, <3>1, LastAfterApply
  <2>9. QED
    BY <1>2, <1>3, <2>2, <2>4, <2>5, <2>6, <2>7, <2>8 DEF Sound, Applied
<1>7. CASE /\ stage = RestartStage(t, s)
           /\ s.stage.task \in {"apply", "apply-delete"}
           /\ s.stage.generation = t.generation
  <2>1. s.stage.task \in Task /\ s.stage.task # RunNil
    BY <1>7 DEF Task, CreateTask, DeleteTask, RunNil
  <2>2. \A u \in Before(s.stage.task) : <<t.generation, u>> \in d
    BY <1>7, <2>1 DEF Sound, Ordered
  <2>3. /\ stage.task = nextTask(IF s.stage.task = "apply" THEN "postinit"
                                 ELSE "postinit-delete", ConfiguredTasks)
        /\ stage.state = "initializing"
        /\ stage.reason # "GENERATION_CHANGE"
    BY <1>7 DEF RestartStage, newStage
  <2>4. /\ Before(stage.task) \subseteq Before(s.stage.task)
        /\ stage.task \in DeleteTask <=> s.stage.task \in DeleteTask
        /\ stage.task # RunNil
    BY <1>7, <2>3, BeforeRestart, CreateIsNotDelete, DeleteTasks
       DEF CreateTask, DeleteTask, RunNil
  <2>5. s.phase # "completed"
    BY <2>1 DEF Sound, Applied
  <2>6. QED
    BY <1>2, <1>3, <2>2, <2>3, <2>4, <2>5 DEF Sound, Ordered, Applied
<1>8. QED
  BY <1>4, <1>5, <1>6, <1>7 DEF checkSetNewStage, new

-----------------------------------------------------------------------------
(***************************************************************************)
(* The steps.                                                              *)
(***************************************************************************)
LEMMA NothingIsSound == \A d : Sound(NoStatus, d) /\ Idle.status = NoStatus
<1>1. RunNil \notin Task
  BY DEF RunNil, Task, CreateTask, DeleteTask
<1>2. QED
  BY <1>1 DEF Sound, Ordered, Applied, NoStatus, NoStage, Idle

LEMMA OrderInit == Init => OrderInv
<1> SUFFICES ASSUME Init PROVE OrderInv
  OBVIOUS
<1>1. /\ tf.status = NoStatus /\ tf.generation = 1 /\ tfCache = tf
      /\ worker = Idle /\ pods = {} /\ podCache = {}
  BY DEF Init, NewResource
<1>2. QED
  BY <1>1, DestroyInit, NothingIsSound DEF OrderInv

\* A reconcile's step leaves the resource and the caches alone; a pod that it
\* creates is sound, and so is the status that it goes on to write.
LEMMA OrderLocalStep ==
    ASSUME OrderInv, DestroyInv', UNCHANGED <<tf, caches, done>>,
           Sound(worker'.status, done),
           \A p \in pods' : p \in pods \/ SoundPod(p, done)
    PROVE  OrderInv'
  BY DEF OrderInv, caches

LEMMA OrderFinalizerStep ==
    ASSUME OrderInv, DestroyInv', UNCHANGED <<caches, pods, done>>, NEW t, NEW f,
           UpdateFinalizer(t, f)
    PROVE  OrderInv'
<1>1. worker' = Idle
  BY DEF UpdateFinalizer, Return
<1>2. tf'.generation = tf.generation /\ tf'.status = tf.status
  BY DEF UpdateFinalizer, OrderInv, DestroyInv, TypeOK, Resource
<1>3. QED
  BY <1>1, <1>2, NothingIsSound DEF OrderInv, caches

LEMMA OrderReconcile == OrderInv /\ DestroyInv' /\ Reconcile => OrderInv'
<1> SUFFICES ASSUME OrderInv, DestroyInv', Reconcile PROVE OrderInv'
  OBVIOUS
<1> USE DEF cluster, caches, bounds, history
<1> DEFINE t == tfCache
           s == Intake(t)
           Rest == UNCHANGED <<tf, caches, done>>
<1>0. /\ DestroyInv /\ TypeOK /\ t \in Resource /\ t.status \in Status /\ s \in Status
      /\ t.generation # 0 /\ Sound(t.status, done)
      /\ SafeStatus(t.status, t.deleting)
  BY IntakeType DEF OrderInv, DestroyInv, TypeOK, Resource
<1>1. ASSUME TakesStaged
      PROVE  /\ Sound(s, done) /\ s.stage = t.status.stage /\ s.stage.generation # 0
             /\ SafeStatus(s, t.deleting)
  BY <1>0, <1>1, IntakeIsSound, IntakeIsSafe DEF TakesStaged
<1>2. ASSUME NEW status, Rest, worker'.status = status, Sound(status, done),
             \A p \in pods' : p \in pods \/ SoundPod(p, done)
      PROVE  OrderInv'
  BY <1>2, OrderLocalStep
<1>3. ASSUME Rest, worker' = Idle, pods' \subseteq pods
      PROVE  OrderInv'
  BY <1>3, <1>2, NothingIsSound
<1>4. CASE ReconcileNotFound \/ ListFails
  BY <1>3, <1>4 DEF ReconcileNotFound, ListFails, Return
<1>5. CASE ReconcileDeleted \/ ReconcileFinalizer
  BY <1>5, OrderFinalizerStep DEF ReconcileDeleted, ReconcileFinalizer
<1>6. CASE InitializeResource
  <2> DEFINE new == [t.status EXCEPT !.prefix = TRUE, !.phase = "initializing"]
  <2>1. Rest /\ worker'.status = new /\ pods' = pods
    BY <1>6 DEF InitializeResource, Save
  <2>2. new.stage = t.status.stage /\ new.phase = "initializing"
    BY <1>0 DEF Status
  <2>3. Sound(new, done)
    BY <1>0, <2>2 DEF Sound, Applied
  <2>4. QED
    BY <1>2, <2>1, <2>3
<1>7. CASE AddFirstStage
  <2> DEFINE first == newStage(t, "setup", "TF_RESOURCE_CREATED", FALSE,
                               "initializing")
             new == [t.status EXCEPT !.stage = first]
  <2>1. Rest /\ worker'.status = new /\ pods' = pods
    BY <1>7 DEF AddFirstStage, Save
  <2>2. /\ first.task = "setup" /\ first.state = "initializing"
        /\ first.generation = t.generation
    BY DEF newStage
  <2> HIDE DEF first
  <2>3. new.stage = first /\ new.phase \in {"", "initializing"}
    BY <1>0, <1>7 DEF Status, AddFirstStage, Sound, Applied
  <2> HIDE DEF new
  <2>4. Sound(new, done)
    BY <1>0, <2>2, <2>3, NothingBeforeTheFirst DEF Sound, Ordered, Applied
  <2>5. QED
    BY <1>2, <2>1, <2>4
<1>8. CASE SetNewStage
  <2>1. PICK stage \in checkSetNewStage(t, s) :
           worker'.status = NextStatus(s, stage)
    <3>1. PICK stage \in checkSetNewStage(t, s) :
             Save(NextStatus(s, stage), FALSE,
                  IF KeepsLatestPodsOnly(t) THEN "reap" ELSE "return", 0)
      BY <1>8 DEF SetNewStage, NextStatus
    <3>2. QED
      BY <3>1 DEF Save
  <2>2. Rest /\ pods' \subseteq pods /\ TakesStaged
    BY <1>8 DEF SetNewStage
  <2>3. Sound(NextStatus(s, stage), done)
    BY <1>0, <1>1, <2>2, NewStageIsSound
  <2>4. QED
    BY <1>2, <2>1, <2>2, <2>3
<1>9. CASE FinishWorkflow
  <2>1. \/ /\ s.phase = "running"
           /\ worker'.status = [s EXCEPT !.phase = "completed"]
        \/ /\ s.phase = "deleting"
           /\ worker'.status = [s EXCEPT !.phase = "deleted"]
        \/ worker' = Idle
    BY <1>9 DEF FinishWorkflow, Save, Return
  <2>2. pods' = pods /\ Rest /\ TakesStaged /\ s.stage.task = RunNil
    BY <1>9 DEF FinishWorkflow, TakesSameStage
  <2>3. ASSUME s.phase = "running"
        PROVE  Sound([s EXCEPT !.phase = "completed"], done)
    BY <1>0, <1>1, <2>2, <2>3 DEF Sound, Applied, Status
  <2>4. Sound([s EXCEPT !.phase = "deleted"], done)
    BY <1>0, <1>1, <2>2 DEF Sound, Applied, Status
  <2>5. QED
    BY <1>2, <1>3, <2>1, <2>2, <2>3, <2>4
<1>10. CASE LosePod
  <2> DEFINE new == [s EXCEPT !.stage.state = "initializing"]
  <2>1. Rest /\ worker'.status = new /\ pods' = pods /\ TakesStaged
    BY <1>10 DEF LosePod, Save, TakesSameStage
  <2>2. /\ new.phase = s.phase /\ new.stage.task = s.stage.task
        /\ new.stage.generation = s.stage.generation
        /\ new.stage.state = "initializing"
    BY <1>0 DEF Status, Stage
  <2> HIDE DEF new
  <2>3. Sound(new, done)
    BY <1>1, <2>1, <2>2 DEF Sound, Ordered, Applied
  <2>4. QED
    BY <1>2, <2>1, <2>3
<1>11. CASE StartTask
  <2> DEFINE p == NewPod(t, s.stage)
             new == [s EXCEPT
                        !.stage.state = "in-progress",
                        !.phase = CASE @ = "initializing" -> "running"
                                    [] @ = "initializing-delete" -> "deleting"
                                    [] OTHER -> @]
  <2>1. \/ worker'.status = new /\ pods' = pods \union {p}
        \/ worker' = Idle /\ pods' = pods
    BY <1>11 DEF StartTask, Save, Return
  <2>2. /\ Rest /\ TakesStaged /\ s.stage.task # RunNil
        /\ checkSetNewStage(t, s) = {} /\ s.stage.state # "in-progress"
    BY <1>11 DEF StartTask, TakesSameStage
  <2>3. ~IsRetry(t) /\ s.stage.generation = t.generation
    BY <1>0, <2>2, SameStage
  <2>4. s.stage.task \in Task
    BY <1>0, <2>2 DEF Status, Stage, TaskName
  <2>5. SoundPod(p, done)
    BY <1>1, <2>2, <2>3, <2>4 DEF SoundPod, NewPod, Sound, Ordered
  <2>6. /\ new.stage.task = s.stage.task /\ new.stage.state = "in-progress"
        /\ new.stage.generation = s.stage.generation
        /\ new.phase = CASE s.phase = "initializing" -> "running"
                         [] s.phase = "initializing-delete" -> "deleting"
                         [] OTHER -> s.phase
    BY <1>0 DEF Status, Stage
  <2>7. ASSUME s.phase = "initializing" PROVE s.stage.task \notin DeleteTask
    <3>1. ~t.deleting
      BY <1>0, <2>3, <2>7 DEF Intake, DeletePhase, Status, Resource
    <3>2. QED
      BY <1>1, <2>2, <3>1 DEF SafeStatus
  <2> HIDE DEF p, new
  <2>8. Sound(new, done)
    BY <1>1, <2>2, <2>6, <2>7 DEF Sound, Ordered, Applied
  <2>9. QED
    BY <1>2, <1>3, <2>1, <2>2, <2>5, <2>8
<1>12. CASE ObservePod
  <2> DEFINE New(p) == [s EXCEPT !.stage.podName = p.uid,
                                 !.stage.message = p.phase,
                                 !.stage.state = StageState(p.phase)]
  <2>1. PICK p \in StagePods(t, s), then \in {"return", "deletePod"} :
           Save(New(p), TRUE, then, p.uid)
    BY <1>12 DEF ObservePod
  <2>2. worker'.status = New(p)
    <3> HIDE DEF New
    <3>1. QED
      BY <2>1 DEF Save
  <2>3. Rest /\ pods' = pods /\ TakesStaged
    BY <1>12 DEF ObservePod, TakesSameStage
  <2>4. /\ p \in podCache /\ SoundPod(p, done) /\ p.phase \in PodPhase
        /\ p.generation = s.stage.generation /\ p.task = s.stage.task
    BY <1>0, <2>1 DEF StagePods, OrderInv, TypeOK, Pod
  <2>5. StageState(p.phase) = "complete" =>
           <<s.stage.generation, s.stage.task>> \in done
    BY <2>4 DEF StageState, PodPhase, SoundPod
  <2>6. /\ New(p).phase = s.phase /\ New(p).stage.task = s.stage.task
        /\ New(p).stage.generation = s.stage.generation
        /\ New(p).stage.state = StageState(p.phase)
    BY <1>0 DEF Status, Stage
  <2> HIDE DEF New
  <2>7. Sound(New(p), done)
    BY <1>1, <2>3, <2>5, <2>6 DEF Sound, Ordered, Applied
  <2>8. QED
    BY <1>2, <2>2, <2>3, <2>7
<1>13. CASE WriteStatus
  <2>1. /\ tf'.status = worker.status /\ tf'.generation = tf.generation
        /\ worker'.status = worker.status
        /\ UNCHANGED <<caches, pods, done>>
    BY <1>0, <1>13 DEF WriteStatus, TypeOK, Resource, Worker
  <2>2. QED
    BY <2>1 DEF OrderInv
<1>14. CASE WriteStatusFails
  BY <1>3, <1>14 DEF WriteStatusFails
<1>15. CASE ConfirmStatus \/ GiveUp
  <2>1. worker' = Idle \/ worker'.status = worker.status
    BY <1>0, <1>15
       DEF ConfirmStatus, GiveUp, Written, NotWritten, TypeOK, Worker
  <2>2. Rest /\ pods' = pods
    BY <1>15 DEF ConfirmStatus, GiveUp
  <2>3. QED
    BY <1>2, <1>3, <2>1, <2>2 DEF OrderInv
<1>16. CASE DeleteCompletedPod
  BY <1>3, <1>16 DEF DeleteCompletedPod
<1>17. QED
  BY <1>4, <1>5, <1>6, <1>7, <1>8, <1>9, <1>10, <1>11, <1>12, <1>13, <1>14,
     <1>15, <1>16 DEF Reconcile

LEMMA OrderNext == OrderInv /\ [Next]_vars => OrderInv'
<1> SUFFICES ASSUME OrderInv, [Next]_vars PROVE OrderInv'
  OBVIOUS
<1> USE DEF cluster, caches, bounds, history
<1>0. DestroyInv /\ DestroyInv' /\ TypeOK
  BY DestroyNext DEF OrderInv, DestroyInv
<1>1. CASE Reconcile
  BY <1>0, <1>1, OrderReconcile
<1>2. ASSUME UNCHANGED <<tf, tfCache, worker, done>>,
             pods' \union podCache' \subseteq pods \union podCache
      PROVE  OrderInv'
  BY <1>0, <1>2 DEF OrderInv
<1>3. CASE Reap
  BY <1>2, <1>3 DEF Reap, ReaperReads, ReaperDeletesPods, ReaperListsPods,
                    ReaperCleansUp, ReaperFails
<1>4. ASSUME UNCHANGED <<caches, worker, pods, done>>, tf'.status = tf.status,
             tf'.generation # 0
      PROVE  OrderInv'
  BY <1>0, <1>4 DEF OrderInv
<1>5. CASE UserUpdatesSpec \/ UserDeletes \/ UserRelabels
  <2>1. /\ tf'.status = tf.status
        /\ tf'.generation \in {tf.generation, tf.generation + 1}
    BY <1>0, <1>5
       DEF UserUpdatesSpec, UserDeletes, UserRelabels, TypeOK, Resource
  <2>2. tf'.generation # 0
    BY <1>0, <2>1 DEF OrderInv, TypeOK, Resource
  <2>3. QED
    BY <1>4, <1>5, <2>1, <2>2 DEF UserUpdatesSpec, UserDeletes, UserRelabels
<1>6. CASE UserDeletesPod \/ GarbageCollect \/ Tick \/ SyncPods
  BY <1>2, <1>6 DEF UserDeletesPod, GarbageCollect, Tick, SyncPods
<1>7. CASE PodRuns \/ PodSucceeds \/ PodFails
  <2>1. PICK phase \in PodPhase, p \in pods :
          /\ pods' = (pods \ {p}) \union {[p EXCEPT !.phase = phase]}
          /\ done \subseteq done'
          /\ phase = "Succeeded" => <<p.generation, p.task>> \in done'
    BY <1>7 DEF PodRuns, PodSucceeds, PodFails, PodPhase
  <2>2. UNCHANGED <<tf, caches, worker>>
    BY <1>7 DEF PodRuns, PodSucceeds, PodFails
  <2>3. p \in Pod /\ SoundPod(p, done')
    BY <1>0, <2>1, MoreIsDone DEF OrderInv, TypeOK
  <2>4. SoundPod([p EXCEPT !.phase = phase], done')
    BY <2>1, <2>3 DEF SoundPod, Pod
  <2>5. \A q \in pods' \union podCache' : SoundPod(q, done')
    BY <2>1, <2>2, <2>4, MoreIsDone DEF OrderInv
  <2>6. QED
    BY <1>0, <2>1, <2>2, <2>5, MoreIsDone DEF OrderInv
<1>8. CASE SyncResource
  BY <1>0, <1>8 DEF SyncResource, OrderInv
<1>9. CASE Crash
  BY <1>0, <1>9, NothingIsSound DEF Crash, OrderInv
<1>10. CASE UNCHANGED vars
  BY <1>2, <1>10 DEF vars
<1>11. QED
  BY <1>1, <1>3, <1>5, <1>6, <1>7, <1>8, <1>9, <1>10 DEF Next, User, Environment

LEMMA OrderInvariant == Spec => []OrderInv
  BY OrderInit, OrderNext, PTL DEF Spec

\* A task's pod exists only when every configured task before it has succeeded
\* in the pod's own generation: no apply without the init and the plan of its
\* generation, whatever the order of retries, spec updates, lost pods, outdated
\* caches and crashes (tf_controller.go:1159-1253, 1318-1370).
THEOREM TaskOrder == Spec => []TasksRunInOrder
<1>1. OrderInv => TasksRunInOrder
  BY DEF OrderInv, TasksRunInOrder, SoundPod
<1>2. QED
  BY <1>1, OrderInvariant, PTL

\* The phase completed is only ever written after an apply of the generation of
\* the stage has succeeded (tf_controller.go:807-812).
THEOREM CompletedIsApplied == Spec => []CompletedMeansApplied
<1>1. OrderInv => CompletedMeansApplied
  BY DEF OrderInv, CompletedMeansApplied, Sound, Applied
<1>2. QED
  BY <1>1, OrderInvariant, PTL

\* The generation in the name of every pod is the one of its label, so that the
\* list of a later reconcile finds it: newTaskOptions names a pod after the
\* resource that was read and the reconcile labels it after the stage
\* (tf_controller.go:367-373, 804-805, 856-866).
THEOREM PodsAreNamedForTheirStage == Spec => []PodsAreFound
<1>1. OrderInv => PodsAreFound
  BY DEF OrderInv, PodsAreFound, SoundPod
<1>2. QED
  BY <1>1, OrderInvariant, PTL
=============================================================================
