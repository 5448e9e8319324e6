----------------------------- MODULE StageProofs -----------------------------
(***************************************************************************)
(* What the stages of one resource do, for every order of the watches,     *)
(* crashes, failed writes and user actions: the stage in the API server    *)
(* only moves forward, the reaper waits for pods, a deletion that is       *)
(* reported was carried out, no task has two live pods, and an apply that  *)
(* failed waits for a new plan.                                            *)
(*                                                                         *)
(* A reconcile computes the next stage from its cache, and its write does  *)
(* not look at what it overwrites (updateStatusWithRetry).  The reconcile  *)
(* that wrote waits until the cache shows its stage, and while it has not  *)
(* given up waiting the cache is not older than the last write: that is    *)
(* what ForwardInv says.  The other invariants do without it: they are     *)
(* about each version of the resource, the outdated ones too.              *)
(***************************************************************************)
EXTENDS WorkflowProofs

\* Two stages of the same task of the same generation.
SameTask(a, b) == a.generation = b.generation /\ a.task = b.task

\* No stage is of a generation that the resource has not reached.
Reached(t) == t.generation # 0 /\ t.status.stage.generation <= t.generation

ForwardInv ==
    /\ TypeOK
    /\ Reached(tf) /\ Reached(tfCache)
    /\ tfCache.generation <= tf.generation
    /\ tf.exists => tfCache.exists
    /\ worker.pc = "confirm" => worker.status = tf.status
    /\ worker.pc = "write" =>
         worker.status.stage.generation <= tfCache.generation
    /\ ~gaveUp /\ tf.exists =>
         /\ worker.pc \in {"idle", "write", "deletePod"} =>
              SameTask(tfCache.status.stage, tf.status.stage)
         /\ worker.pc = "write" =>
              Follows(tf.status.stage, worker.status.stage)

LEMMA SameTaskFollows ==
    /\ \A a, b : SameTask(a, b) => Follows(a, b)
    /\ \A a, b, c : SameTask(a, b) /\ Follows(b, c) => Follows(a, c)
    /\ \A a, b : SameTask(a, b) => SameTask(b, a)
  BY DEF SameTask, Follows

\* The branches of checkSetNewStage, one step each.
LEMMA NewStageFollows ==
    ASSUME NEW t \in Resource, Reached(t), NEW s \in Status,
           s = Intake(t), s.stage = t.status.stage,
           NEW stage \in checkSetNewStage(t, s)
    PROVE  Follows(s.stage, stage) /\ stage.generation = t.generation
<1>1. /\ t.generation \in Nat /\ s.stage.generation \in Nat
      /\ s.stage.task \in TaskName
      /\ s.stage.generation <= t.generation
  BY DEF Resource, Status, Stage, Reached
<1>2. CASE stage = RetryStage(t, s) /\ IsRetry(t) /\ s.stage.generation = t.generation
  <2>1. s.retryReason \in Labels
    BY <1>2 DEF IsRetry, Intake, Resource, Status
  <2>2. stage.reason = s.retryReason /\ stage.generation = t.generation
    BY <1>2 DEF RetryStage, newStage
  <2>3. QED
    BY <1>2, <2>1, <2>2 DEF Follows
<1>3. CASE stage = FirstStageOfGeneration(t, s) /\ s.stage.generation # t.generation
  <2>1. stage.generation = t.generation
    BY <1>3 DEF FirstStageOfGeneration, newStage
  <2>2. QED
    BY <1>1, <1>3, <2>1 DEF Follows
<1>4. CASE stage = StageAfter(t, s) /\ s.stage.generation = t.generation
  <2>1. /\ stage.task = nextTask(s.stage.task, ConfiguredTasks)
        /\ stage.generation = t.generation
    BY <1>4 DEF StageAfter, newStage
  <2>2. stage.task = RunNil \/ ID[stage.task] > ID[s.stage.task]
    BY <1>1, <2>1, Configured, NextTaskIsLater DEF Later
  <2>3. QED
    BY <1>4, <2>1, <2>2 DEF Follows
<1>5. CASE stage = RestartStage(t, s) /\ s.stage.generation = t.generation
  <2>1. /\ stage.reason \in {"RESTARTED_WORKFLOW", "RESTARTED_DELETE_WORKFLOW"}
        /\ stage.generation = t.generation
    BY <1>5 DEF RestartStage, newStage
  <2>2. QED
    BY <1>5, <2>1 DEF Follows
<1>6. QED
  BY <1>2, <1>3, <1>4, <1>5 DEF checkSetNewStage

LEMMA IntakeKeepsStage ==
    ASSUME NEW t \in Resource
    PROVE  Intake(t).stage = t.status.stage
  BY DEF Intake, Resource, Status

LEMMA IntakeIs ==
    ASSUME NEW t \in Resource
    PROVE  LET s == Intake(t)
           IN  /\ s.stage = t.status.stage /\ s.prefix = t.status.prefix
               /\ IsRetry(t) => /\ s.phase = "initializing"
                                /\ s.retryTimestamp = clock
               /\ ~IsRetry(t) =>
                    /\ s.retryTimestamp = t.status.retryTimestamp
                    /\ s.phase \in {t.status.phase, "initializing-delete"}
  BY DEF Intake, Resource, Status

-----------------------------------------------------------------------------
(***************************************************************************)
(* The steps.                                                              *)
(***************************************************************************)
LEMMA ForwardInit == Init => ForwardInv
<1> SUFFICES ASSUME Init PROVE ForwardInv
  OBVIOUS
<1>1. /\ tfCache = tf /\ tf.generation = 1 /\ tf.status = NoStatus
      /\ worker.pc = "idle"
  BY DEF Init, NewResource, Idle
<1>2. SameTask(tf.status.stage, tf.status.stage)
  BY DEF SameTask
<1>3. NoStatus.stage.generation = 0
  BY DEF NoStatus, NoStage
<1>4. QED
  BY <1>1, <1>2, <1>3, TypeInit DEF ForwardInv, Reached

\* A step that changes neither the resource nor its cache.
LEMMA ForwardLocalStep ==
    ASSUME ForwardInv, TypeOK', UNCHANGED <<tf, tfCache>>, UNCHANGED gaveUp,
           \/ worker' = worker
           \/ /\ worker'.pc \in {"idle", "deletePod"}
              /\ ~gaveUp /\ tf.exists =>
                   SameTask(tfCache.status.stage, tf.status.stage)
           \/ /\ worker.pc = "idle" /\ worker'.pc = "write"
              /\ worker'.status.stage.generation <= tfCache.generation
              /\ Follows(tfCache.status.stage, worker'.status.stage)
    PROVE  ForwardInv'
<1> DEFINE Now == ~gaveUp /\ tf.exists =>
                    SameTask(tfCache.status.stage, tf.status.stage)
<1>1. CASE worker' = worker
  BY <1>1 DEF ForwardInv
<1>2. CASE worker'.pc \in {"idle", "deletePod"} /\ Now
  BY <1>2 DEF ForwardInv
<1>3. CASE /\ worker.pc = "idle" /\ worker'.pc = "write"
           /\ worker'.status.stage.generation <= tfCache.generation
           /\ Follows(tfCache.status.stage, worker'.status.stage)
  <2>1. Now
    BY <1>3 DEF ForwardInv
  <2>2. ~gaveUp /\ tf.exists => Follows(tf.status.stage, worker'.status.stage)
    BY <1>3, <2>1, SameTaskFollows
  <2>3. QED
    BY <1>3, <2>1, <2>2 DEF ForwardInv
<1>4. QED
  BY <1>1, <1>2, <1>3

LEMMA ForwardReconcile == ForwardInv /\ TypeOK' /\ Reconcile => ForwardInv'
<1> SUFFICES ASSUME ForwardInv, TypeOK', Reconcile PROVE ForwardInv'
  OBVIOUS
<1> USE DEF cluster, caches, bounds, history
<1> DEFINE t == tfCache
           s == Intake(t)
           Here == UNCHANGED <<tf, tfCache>> /\ UNCHANGED gaveUp
<1>0. /\ TypeOK /\ t \in Resource /\ t.status \in Status /\ s \in Status
      /\ Reached(t) /\ s.stage = t.status.stage
      /\ t.generation \in Nat /\ s.stage.generation \in Nat
  BY IntakeType, IntakeKeepsStage DEF ForwardInv, TypeOK, Resource, Status, Stage
<1>1. ASSUME Here, worker.pc = "idle", worker' = Idle PROVE ForwardInv'
  <2>1. worker'.pc = "idle"
    BY <1>1 DEF Idle
  <2>2. QED
    BY <1>1, <2>1, ForwardLocalStep DEF ForwardInv
<1>2. ASSUME Here, worker.pc = "idle", worker'.pc = "write", NEW new,
             worker'.status = new, Follows(s.stage, new.stage),
             new.stage.generation \in {t.generation, s.stage.generation}
      PROVE  ForwardInv'
  <2>1. new.stage.generation <= t.generation
    BY <1>0, <1>2 DEF Reached
  <2>2. QED
    BY <1>0, <1>2, <2>1, ForwardLocalStep
<1>3. ASSUME Here, worker.pc = "idle", worker'.pc = "write", NEW new,
             worker'.status = new, SameTask(s.stage, new.stage)
      PROVE  ForwardInv'
  <2>1. new.stage.generation = s.stage.generation
    BY <1>3 DEF SameTask
  <2>2. QED
    BY <1>2, <1>3, <2>1, SameTaskFollows
<1>4. CASE ReconcileNotFound \/ ListFails
  BY <1>1, <1>4 DEF ReconcileNotFound, ListFails, Return, Takes, TakesSameStage,
                    TakesStaged, TakesFinalized
<1>5. CASE ReconcileDeleted \/ ReconcileFinalizer
  <2>1. /\ worker.pc = "idle" /\ worker'.pc = "idle" /\ UNCHANGED <<tfCache, gaveUp>>
        /\ tfCache.exists
    BY <1>5 DEF ReconcileDeleted, ReconcileFinalizer, UpdateFinalizer, Return,
                Takes, Idle
  <2>2. tf'.status = tf.status /\ tf'.generation = tf.generation
    BY <1>0, <1>5 DEF ReconcileDeleted, ReconcileFinalizer, UpdateFinalizer,
                      TypeOK, Resource
  <2>3. tf' = tf \/ t = tf
    BY <1>5 DEF ReconcileDeleted, ReconcileFinalizer, UpdateFinalizer
  <2>4. ~gaveUp /\ tf'.exists => SameTask(t.status.stage, tf.status.stage)
    BY <2>1, <2>3 DEF ForwardInv, SameTask
  <2>5. QED
    BY <2>1, <2>2, <2>4 DEF ForwardInv, Reached
<1>6. CASE InitializeResource
  <2> DEFINE new == [t.status EXCEPT !.prefix = TRUE, !.phase = "initializing"]
  <2>1. Here /\ worker.pc = "idle" /\ worker'.pc = "write" /\ worker'.status = new
    BY <1>6 DEF InitializeResource, Save, TakesFinalized, Takes
  <2>2. SameTask(s.stage, new.stage)
    BY <1>0 DEF SameTask, Status
  <2>3. QED
    BY <1>3, <2>1, <2>2
<1>7. CASE AddFirstStage
  <2> DEFINE first == newStage(t, "setup", "TF_RESOURCE_CREATED", FALSE,
                               "initializing")
             new == [t.status EXCEPT !.stage = first]
  <2>1. Here /\ worker.pc = "idle" /\ worker'.pc = "write" /\ worker'.status = new
    BY <1>7 DEF AddFirstStage, Save, TakesFinalized, Takes
  <2>2. first.generation = t.generation
    BY DEF newStage
  <2> HIDE DEF first
  <2>3. new.stage = first /\ s.stage.generation = 0
    BY <1>0, <1>7 DEF Status, AddFirstStage
  <2>4. Follows(s.stage, new.stage)
    BY <1>0, <2>2, <2>3 DEF Follows, Reached
  <2> HIDE DEF new
  <2>5. QED
    BY <1>2, <2>1, <2>2, <2>3, <2>4
<1>8. CASE SetNewStage
  <2>1. PICK stage \in checkSetNewStage(t, s) :
             Save(NextStatus(s, stage), FALSE,
                  IF KeepsLatestPodsOnly(t) THEN "reap" ELSE "return", 0)
    BY <1>8 DEF SetNewStage, NextStatus
  <2>2. /\ Here /\ worker.pc = "idle" /\ worker'.pc = "write"
        /\ worker'.status = NextStatus(s, stage)
    BY <1>8, <2>1 DEF SetNewStage, Save, TakesStaged, TakesFinalized, Takes
  <2>3. NextStatus(s, stage).stage = stage
    BY <1>0 DEF NextStatus, Status
  <2>4. Follows(s.stage, stage) /\ stage.generation = t.generation
    BY <1>0, NewStageFollows
  <2>5. QED
    BY <1>2, <2>2, <2>3, <2>4
<1>9. CASE FinishWorkflow
  <2>1. /\ Here /\ worker.pc = "idle"
        /\ \/ /\ worker'.pc = "write"
              /\ worker'.status \in {[s EXCEPT !.phase = "completed"],
                                     [s EXCEPT !.phase = "deleted"]}
           \/ worker' = Idle
    BY <1>9 DEF FinishWorkflow, Save, Return, TakesSameStage, TakesStaged,
                TakesFinalized, Takes
  <2>2. /\ SameTask(s.stage, [s EXCEPT !.phase = "completed"].stage)
        /\ SameTask(s.stage, [s EXCEPT !.phase = "deleted"].stage)
    BY <1>0 DEF SameTask, Status
  <2>3. QED
    BY <1>1, <1>3, <2>1, <2>2
<1>10. CASE LosePod
  <2> DEFINE new == [s EXCEPT !.stage.state = "initializing"]
  <2>1. Here /\ worker.pc = "idle" /\ worker'.pc = "write" /\ worker'.status = new
    BY <1>10 DEF LosePod, Save, TakesSameStage, TakesStaged, TakesFinalized, Takes
  <2>2. SameTask(s.stage, new.stage)
    BY <1>0 DEF SameTask, Status, Stage
  <2>3. QED
    BY <1>3, <2>1, <2>2
<1>11. CASE StartTask
  <2> DEFINE new == [s EXCEPT
                        !.stage.state = "in-progress",
                        !.phase = CASE @ = "initializing" -> "running"
                                    [] @ = "initializing-delete" -> "deleting"
                                    [] OTHER -> @]
  <2>1. Here /\ worker.pc = "idle"
    BY <1>11 DEF StartTask, TakesSameStage, TakesStaged, TakesFinalized, Takes
  <2>2. (worker'.pc = "write" /\ worker'.status = new) \/ worker' = Idle
    BY <1>11 DEF StartTask, Save, Return
  <2>3. SameTask(s.stage, new.stage)
    BY <1>0 DEF SameTask, Status, Stage
  <2>4. QED
    BY <1>1, <1>3, <2>1, <2>2, <2>3
<1>12. CASE ObservePod
  <2> DEFINE New(p) == [s EXCEPT !.stage.podName = p.uid,
                                 !.stage.message = p.phase,
                                 !.stage.state = StageState(p.phase)]
  <2>1. PICK p \in StagePods(t, s), then \in {"return", "deletePod"} :
           Save(New(p), TRUE, then, p.uid)
    BY <1>12 DEF ObservePod
  <2>2. worker'.pc = "write" /\ worker'.status = New(p)
    <3> HIDE DEF New
    <3>1. QED
      BY <2>1 DEF Save
  <2>3. Here /\ worker.pc = "idle"
    BY <1>12 DEF ObservePod, TakesSameStage, TakesStaged, TakesFinalized, Takes
  <2>4. SameTask(s.stage, New(p).stage)
    BY <1>0 DEF SameTask, Status, Stage
  <2>5. QED
    BY <1>3, <2>2, <2>3, <2>4
<1>13. CASE WriteStatus
  <2>1. /\ tf'.status = worker.status /\ tf'.generation = tf.generation
        /\ tf'.exists = tf.exists
        /\ worker'.status = worker.status /\ worker'.pc = "confirm"
        /\ worker.pc = "write" /\ UNCHANGED tfCache
    BY <1>0, <1>13 DEF WriteStatus, TypeOK, Resource, Worker
  <2>2. worker.status.stage.generation <= tf.generation
    <3>1. /\ worker.status.stage.generation \in Nat /\ tf.generation \in Nat
          /\ tfCache.generation \in Nat
      BY <1>0 DEF TypeOK, Resource, Worker, Status, Stage
    <3>2. /\ worker.status.stage.generation <= tfCache.generation
          /\ tfCache.generation <= tf.generation
      BY <2>1 DEF ForwardInv
    <3>3. QED
      BY <3>1, <3>2
  <2>3. QED
    BY <2>1, <2>2 DEF ForwardInv, Reached
<1>14. CASE WriteStatusFails
  <2>1. /\ UNCHANGED <<tf, tfCache>> /\ worker.pc = "write" /\ worker'.pc = "idle"
        /\ gaveUp' = gaveUp \/ tfCache = tf
    BY <1>14 DEF WriteStatusFails, CatchesUp, Idle
  <2>2. SameTask(tf.status.stage, tf.status.stage)
    BY DEF SameTask
  <2>3. QED
    BY <2>1, <2>2 DEF ForwardInv
<1>15. CASE ConfirmStatus
  <2>1. Here /\ worker.pc = "confirm" /\ worker.status = tf.status
    BY <1>15 DEF ConfirmStatus, ForwardInv
  <2>2. worker'.pc \in {"idle", "deletePod"}
    BY <1>0, <1>15
       DEF ConfirmStatus, Written, NotWritten, Idle, TypeOK, Worker
  <2>3. CASE Confirmed(t.status, worker.status)
    <3>1. [t.status.stage EXCEPT !.state = ""]
             = [worker.status.stage EXCEPT !.state = ""]
      BY <2>3 DEF Confirmed
    <3>2. t.status.stage \in Stage /\ worker.status.stage \in Stage
      BY <1>0 DEF TypeOK, Worker, Status
    <3>3. \A stage \in Stage :
             /\ [stage EXCEPT !.state = ""].generation = stage.generation
             /\ [stage EXCEPT !.state = ""].task = stage.task
      BY DEF Stage
    <3>4. SameTask(t.status.stage, worker.status.stage)
      BY <3>1, <3>2, <3>3 DEF SameTask
    <3>5. QED
      BY <2>1, <2>2, <3>4, ForwardLocalStep
  <2>4. CASE ~t.exists
    BY <2>1, <2>2, <2>4, ForwardLocalStep DEF ForwardInv
  <2>5. QED
    BY <1>15, <2>3, <2>4 DEF ConfirmStatus
<1>16. CASE GiveUp
  <2>1. /\ UNCHANGED <<tf, tfCache>> /\ gaveUp'
        /\ worker'.pc \in {"idle", "deletePod"}
    BY <1>0, <1>16 DEF GiveUp, Written, NotWritten, Idle, TypeOK, Worker
  <2>2. QED
    BY <2>1 DEF ForwardInv
<1>17. CASE DeleteCompletedPod
  BY <1>17, ForwardLocalStep DEF DeleteCompletedPod, Idle, ForwardInv
<1>18. QED
  BY <1>4, <1>5, <1>6, <1>7, <1>8, <1>9, <1>10, <1>11, <1>12, <1>13, <1>14,
     <1>15, <1>16, <1>17 DEF Reconcile

LEMMA ForwardNext == ForwardInv /\ [Next]_vars => ForwardInv'
<1> SUFFICES ASSUME ForwardInv, [Next]_vars PROVE ForwardInv'
  OBVIOUS
<1> USE DEF cluster, caches, bounds, history
<1>0. TypeOK /\ TypeOK'
  BY TypeNext DEF ForwardInv
<1>1. CASE Reconcile
  BY <1>0, <1>1, ForwardReconcile
<1>2. ASSUME UNCHANGED <<tf, tfCache, worker, gaveUp>> PROVE ForwardInv'
  BY <1>0, <1>2, ForwardLocalStep
<1>3. CASE Reap
  BY <1>2, <1>3 DEF Reap, ReaperReads, ReaperDeletesPods, ReaperListsPods,
                    ReaperCleansUp, ReaperFails
<1>4. CASE UserDeletesPod \/ GarbageCollect \/ Tick \/ SyncPods
  BY <1>2, <1>4 DEF UserDeletesPod, GarbageCollect, Tick, SyncPods
<1>5. CASE PodRuns \/ PodSucceeds \/ PodFails
  BY <1>2, <1>5 DEF PodRuns, PodSucceeds, PodFails
<1>6. CASE UserUpdatesSpec \/ UserDeletes \/ UserRelabels
  <2>1. /\ tf'.status = tf.status /\ tf.exists
        /\ tf'.generation \in {tf.generation, tf.generation + 1}
        /\ UNCHANGED <<tfCache, worker, gaveUp>>
    BY <1>0, <1>6
       DEF UserUpdatesSpec, UserDeletes, UserRelabels, TypeOK, Resource
  <2>2. /\ tf.generation \in Nat /\ tfCache.generation \in Nat
        /\ tf.status.stage.generation \in Nat
    BY <1>0 DEF TypeOK, Resource, Status, Stage
  <2>3. Reached(tf)' /\ tfCache.generation <= tf'.generation
    BY <2>1, <2>2 DEF ForwardInv, Reached
  <2>4. QED
    BY <1>0, <2>1, <2>3 DEF ForwardInv
<1>7. ASSUME tfCache' = tf, UNCHANGED tf,
             \/ worker' = worker /\ (worker.pc = "write" => UNCHANGED gaveUp)
             \/ worker'.pc = "idle"
      PROVE  ForwardInv'
  <2>1. /\ tf.generation \in Nat /\ tfCache.generation \in Nat
        /\ worker.pc = "write" => worker.status.stage.generation \in Nat
    BY <1>0 DEF TypeOK, Resource, Worker, Status, Stage
  <2>2. worker.pc = "write" => worker.status.stage.generation <= tf.generation
    BY <2>1 DEF ForwardInv
  <2>3. SameTask(tf.status.stage, tf.status.stage)
    BY DEF SameTask
  <2>4. QED
    BY <1>0, <1>7, <2>1, <2>2, <2>3 DEF ForwardInv
<1>8. CASE SyncResource
  BY <1>7, <1>8 DEF SyncResource
<1>9. CASE Crash
  BY <1>7, <1>9 DEF Crash, Idle
<1>10. CASE UNCHANGED vars
  BY <1>2, <1>10 DEF vars
<1>11. QED
  BY <1>1, <1>3, <1>4, <1>5, <1>6, <1>8, <1>9, <1>10 DEF Next, User, Environment

\* Only the write of a reconcile changes the stage.
LEMMA StageStep ==
    ForwardInv /\ [Next]_vars =>
       [gaveUp \/ Follows(tf.status.stage, tf'.status.stage)]_(tf.status.stage)
<1> SUFFICES ASSUME ForwardInv, [Next]_vars, tf'.status # tf.status, ~gaveUp
             PROVE  Follows(tf.status.stage, tf'.status.stage)
  OBVIOUS
<1> USE DEF cluster, caches, bounds, history
<1>0. TypeOK
  BY DEF ForwardInv
<1>1. CASE WriteStatus
  BY <1>0, <1>1 DEF WriteStatus, ForwardInv, TypeOK, Resource
<1>2. CASE ReconcileDeleted \/ ReconcileFinalizer
  BY <1>0, <1>2 DEF ReconcileDeleted, ReconcileFinalizer, UpdateFinalizer,
                    TypeOK, Resource
<1>3. CASE UserUpdatesSpec \/ UserDeletes \/ UserRelabels
  BY <1>0, <1>3
     DEF UserUpdatesSpec, UserDeletes, UserRelabels, TypeOK, Resource
<1>4. CASE UNCHANGED tf
  BY <1>4
<1>5. CASE Reconcile
  BY <1>1, <1>2, <1>4, <1>5
     DEF Reconcile, ReconcileNotFound, InitializeResource, AddFirstStage,
         SetNewStage, FinishWorkflow, ListFails, LosePod, StartTask, ObservePod,
         WriteStatusFails, ConfirmStatus, GiveUp,
         DeleteCompletedPod
<1>6. CASE Reap
  BY <1>4, <1>6 DEF Reap, ReaperReads, ReaperDeletesPods, ReaperListsPods,
                    ReaperCleansUp, ReaperFails
<1>7. CASE User \/ Environment \/ SyncPods
  BY <1>3, <1>4, <1>7
     DEF User, Environment, UserDeletesPod, GarbageCollect, PodRuns, PodSucceeds,
         PodFails, Tick, SyncResource, SyncPods, Crash
<1>8. QED
  BY <1>4, <1>5, <1>6, <1>7 DEF Next, vars

\* The stage never goes back to an older generation, and within a generation to
\* an earlier task only for a retry or a restart, although the writes of the
\* status are blind: as long as the confirmation of a write is waited for, and
\* again from the moment on at which the cache has caught up with a write that
\* was given up (tf_controller.go:1159-1253, 1764-1831).
THEOREM StageForward == Spec => StageMovesForward
<1>1. Spec => []ForwardInv
  BY ForwardInit, ForwardNext, PTL DEF Spec
<1>2. QED
  BY <1>1, StageStep, PTL DEF Spec, StageMovesForward

-----------------------------------------------------------------------------
(***************************************************************************)
(* The reaper.  Between its list of the pods and its clean-up the worker   *)
(* may create pods, of the generation in its cache: not an older one than  *)
(* the reaper has read.  That the list is not outdated is an assumption    *)
(* (with PodWatchLag TLC shows the opposite).                              *)
(***************************************************************************)
ReaperInv ==
    /\ ForwardInv
    /\ reaper.pc \in {"delete", "list", "cleanup"} =>
         reaper.generation <= tfCache.generation
    /\ reaper.pc = "cleanup" =>
         \A p \in pods : ~ (p.generation < reaper.generation)

\* The pods that a step creates are of the generation in the cache.
LEMMA CreatedNow ==
    ASSUME TypeOK, Reconcile
    PROVE  \A p \in pods' : p \in pods \/ p.generation = tfCache.generation
<1> USE DEF cluster
<1>1. CASE StartTask
  <2> DEFINE t == tfCache
             s == Intake(t)
  <2>1. t \in Resource /\ checkSetNewStage(t, s) = {} /\ s.stage.state # "in-progress"
    BY <1>1 DEF StartTask, TakesSameStage, TypeOK
  <2>2. s.stage.generation = t.generation
    BY <2>1, SameStage
  <2>3. pods' \in {pods, pods \union {NewPod(t, s.stage)}}
    BY <1>1 DEF StartTask
  <2>4. NewPod(t, s.stage).generation = s.stage.generation
    BY DEF NewPod
  <2>5. QED
    BY <2>2, <2>3, <2>4
<1>2. CASE ~StartTask
  BY <1>2 DEF Reconcile, ReconcileNotFound, ReconcileDeleted, ReconcileFinalizer,
              InitializeResource, AddFirstStage, SetNewStage, FinishWorkflow,
              ListFails, LosePod, ObservePod, WriteStatus, WriteStatusFails,
              ConfirmStatus, GiveUp, DeleteCompletedPod
<1>3. QED
  BY <1>1, <1>2

LEMMA ReaperInit == Init => ReaperInv
  BY ForwardInit DEF ReaperInv, Init, NoReaper

LEMMA ReaperNext ==
    ASSUME PodWatchLag = FALSE, ReaperInv, [Next]_vars
    PROVE  ReaperInv'
<1> USE DEF cluster, caches, bounds, history
<1>0. /\ ForwardInv' /\ TypeOK /\ TypeOK'
      /\ tfCache.generation \in Nat /\ tf.generation \in Nat
      /\ reaper.generation \in Nat /\ tfCache.generation <= tf.generation
  BY ForwardNext DEF ReaperInv, ForwardInv, TypeOK, Resource, Reaper
<1>1. ASSUME UNCHANGED reaper, tfCache' \in {tfCache, tf},
             \A p \in pods' : \/ \E q \in pods : p.generation = q.generation
                              \/ p.generation = tfCache.generation
      PROVE  ReaperInv'
  <2>1. reaper.generation <= tfCache.generation =>
           /\ reaper.generation <= tfCache'.generation
           /\ ~ (tfCache.generation < reaper.generation)
    BY <1>0, <1>1
  <2>2. QED
    BY <1>0, <1>1, <2>1 DEF ReaperInv
<1>2. ASSUME reaper'.pc \in {"off", "read"} PROVE ReaperInv'
  BY <1>0, <1>2 DEF ReaperInv
<1>3. CASE Reap /\ PodsKnown
  <2>1. CASE ReaperReads
    <3>1. \/ reaper'.pc = "off"
          \/ reaper'.pc = "delete" /\ reaper'.generation = tfCache.generation
      BY <1>0, <2>1 DEF ReaperReads, NoReaper, TypeOK, Reaper
    <3>2. UNCHANGED <<tfCache, pods>>
      BY <2>1 DEF ReaperReads
    <3>3. QED
      BY <1>0, <1>2, <3>1, <3>2 DEF ReaperInv
  <2>2. CASE ReaperDeletesPods
    <3>1. /\ reaper'.pc = "list" /\ reaper'.generation = reaper.generation
          /\ reaper.pc = "delete" /\ UNCHANGED tfCache
      BY <1>0, <2>2 DEF ReaperDeletesPods, TypeOK, Reaper
    <3>2. QED
      BY <1>0, <3>1 DEF ReaperInv
  <2>3. CASE ReaperListsPods
    <3>1. podCache = pods
      BY <1>3 DEF PodsKnown
    <3>2. UNCHANGED <<tfCache, pods>> /\ reaper.pc = "list"
      BY <2>3 DEF ReaperListsPods
    <3>3. CASE \E p \in podCache : p.generation # reaper.generation
      <4>1. reaper'.pc = "read"
        BY <1>0, <2>3, <3>3 DEF ReaperListsPods, TypeOK, Reaper
      <4>2. QED
        BY <1>2, <4>1
    <3>4. CASE \A p \in podCache : p.generation = reaper.generation
      <4>1. reaper'.pc = "cleanup" /\ reaper'.generation = reaper.generation
        BY <1>0, <2>3, <3>4 DEF ReaperListsPods, TypeOK, Reaper
      <4>2. QED
        BY <1>0, <3>1, <3>2, <3>4, <4>1 DEF ReaperInv
    <3>5. QED
      BY <3>3, <3>4
  <2>4. CASE ReaperCleansUp \/ ReaperFails
    BY <1>2, <2>4 DEF ReaperCleansUp, ReaperFails, NoReaper
  <2>5. QED
    BY <1>3, <2>1, <2>2, <2>3, <2>4 DEF Reap
<1>4. CASE Reconcile
  <2>1. \A p \in pods' : p \in pods \/ p.generation = tfCache.generation
    BY <1>0, <1>4, CreatedNow
  <2>2. UNCHANGED tfCache
    BY <1>4 DEF Reconcile, ReconcileNotFound, ReconcileDeleted, ReconcileFinalizer,
                InitializeResource, AddFirstStage, SetNewStage, FinishWorkflow,
                ListFails, LosePod, StartTask, ObservePod, WriteStatus,
                WriteStatusFails, ConfirmStatus, GiveUp, DeleteCompletedPod
  <2>3. UNCHANGED reaper \/ reaper'.pc = "read"
    BY <1>4 DEF Reconcile, ReconcileNotFound, ReconcileDeleted, ReconcileFinalizer,
                InitializeResource, AddFirstStage, SetNewStage, FinishWorkflow,
                ListFails, LosePod, StartTask, ObservePod, WriteStatus,
                WriteStatusFails, ConfirmStatus, GiveUp, DeleteCompletedPod, StartsReaper,
                NoReaper
  <2>4. QED
    BY <1>1, <1>2, <2>1, <2>2, <2>3
<1>5. CASE PodRuns \/ PodSucceeds \/ PodFails
  <2>1. PICK phase \in PodPhase, p \in pods :
          pods' = (pods \ {p}) \union {[p EXCEPT !.phase = phase]}
    BY <1>5 DEF PodRuns, PodSucceeds, PodFails, PodPhase
  <2>2. [p EXCEPT !.phase = phase].generation = p.generation
    BY <1>0 DEF TypeOK, Pod
  <2>3. UNCHANGED <<reaper, tfCache>>
    BY <1>5 DEF PodRuns, PodSucceeds, PodFails
  <2>4. QED
    BY <1>1, <2>1, <2>2, <2>3
<1>6. CASE User \/ GarbageCollect \/ Tick \/ SyncPods \/ SyncResource
  <2>1. UNCHANGED reaper /\ tfCache' \in {tfCache, tf} /\ pods' \subseteq pods
    BY <1>6 DEF User, UserUpdatesSpec, UserDeletes, UserRelabels, UserDeletesPod,
                GarbageCollect, Tick, SyncPods, SyncResource
  <2>2. QED
    BY <1>1, <2>1
<1>7. CASE Crash
  BY <1>2, <1>7 DEF Crash, NoReaper
<1>8. CASE UNCHANGED vars
  BY <1>1, <1>8 DEF vars
<1>9. QED
  BY <1>3, <1>4, <1>5, <1>6, <1>7, <1>8 DEF Next, Environment

\* Where the pod watch is not late the reaper takes the config map, secret and
\* roles of an older generation away only when no pod of that generation is
\* left, whatever the worker creates meanwhile (tf_controller.go:1372-1498).
THEOREM ReaperIsPatient ==
    ASSUME PodWatchLag = FALSE
    PROVE  Spec => ReaperWaitsForPods
<1>1. ReaperInv /\ [Next]_vars => ReaperInv'
  BY ReaperNext
<1>2. ReaperInv /\ [Next]_vars =>
        [reaper.pc = "cleanup" =>
            \A g \in prepared \ prepared' : g < reaper.generation =>
               \A p \in pods : p.generation # g]_prepared
  BY DEF ReaperInv
<1>3. Spec => []ReaperInv
  BY <1>1, ReaperInit, PTL DEF Spec
<1>4. QED
  BY <1>2, <1>3, PTL DEF Spec, ReaperWaitsForPods

-----------------------------------------------------------------------------
(***************************************************************************)
(* What a reconcile decides to write.                                      *)
(***************************************************************************)
\* The stage is kept, or it is the first one.
Keeps(w) ==
    LET t == tfCache
        s == Intake(t)
    IN  \/ /\ ~t.status.prefix
           /\ w = [t.status EXCEPT !.prefix = TRUE, !.phase = "initializing"]
        \/ /\ t.status.prefix
           /\ t.status.stage.generation = 0
           /\ w = [t.status EXCEPT
                     !.stage = newStage(t, "setup", "TF_RESOURCE_CREATED",
                                        FALSE, "initializing")]
        \/ /\ t.status.prefix
           /\ t.status.stage.generation # 0
           /\ \/ /\ s.stage.task = RunNil
                 /\ \/ s.phase = "running" /\ w = [s EXCEPT !.phase = "completed"]
                    \/ s.phase = "deleting" /\ w = [s EXCEPT !.phase = "deleted"]
              \/ /\ s.stage.state = "in-progress"
                 /\ w = [s EXCEPT !.stage.state = "initializing"]
              \/ /\ StagePods(t, s) = {}
                 /\ s.stage.state # "in-progress"
                 /\ checkSetNewStage(t, s) = {}
                 /\ w = [s EXCEPT
                           !.stage.state = "in-progress",
                           !.phase = CASE @ = "initializing" -> "running"
                                       [] @ = "initializing-delete" -> "deleting"
                                       [] OTHER -> @]
              \/ /\ checkSetNewStage(t, s) = {}
                 /\ \E p \in StagePods(t, s) :
                      w = [s EXCEPT !.stage.podName = p.uid,
                                    !.stage.message = p.phase,
                                    !.stage.state = StageState(p.phase)]

\* The stage is replaced.
Moves(w) ==
    /\ tfCache.status.prefix
    /\ \E stage \in checkSetNewStage(tfCache, Intake(tfCache)) :
          w = NextStatus(Intake(tfCache), stage)

Decides(w) == Keeps(w) \/ Moves(w)

\* What the first step of a reconcile leaves to its later steps.
LEMMA Decision ==
    ASSUME Reconcile, worker.pc = "idle", worker' # Idle
    PROVE  /\ tfCache.exists /\ worker'.pc = "write"
           /\ UNCHANGED <<tf, tfCache, clock>>
           /\ \/ /\ Keeps(worker'.status)
                 /\ replan' = replan
                 /\ UNCHANGED <<pods, podsCreated>> \/ StartTask
              \/ Moves(worker'.status) /\ SetNewStage
<1> USE DEF cluster, caches, bounds, history
<1> DEFINE t == tfCache
           s == Intake(t)
<1>1. ASSUME NEW w, NEW onError, NEW then, NEW pod, Save(w, onError, then, pod)
      PROVE  worker'.pc = "write" /\ worker'.status = w
  BY <1>1 DEF Save
<1>2. CASE InitializeResource
  BY <1>1, <1>2 DEF InitializeResource, TakesFinalized, Keeps
<1>3. CASE AddFirstStage
  BY <1>1, <1>3 DEF AddFirstStage, TakesFinalized, Keeps
<1>4. CASE SetNewStage
  <2>1. PICK stage \in checkSetNewStage(t, s) :
             Save(NextStatus(s, stage), FALSE,
                  IF KeepsLatestPodsOnly(t) THEN "reap" ELSE "return", 0)
    BY <1>4 DEF SetNewStage, NextStatus
  <2>2. worker'.pc = "write" /\ worker'.status = NextStatus(s, stage)
    BY <1>1, <2>1
  <2>3. t.exists /\ t.status.prefix /\ UNCHANGED <<tf, tfCache, clock>>
    BY <1>4 DEF SetNewStage, TakesStaged, TakesFinalized
  <2>4. QED
    BY <1>4, <2>2, <2>3 DEF Moves
<1>5. CASE FinishWorkflow
  <2>1. /\ t.exists /\ t.status.prefix /\ UNCHANGED <<tf, tfCache, clock, pods, podsCreated, replan>>
        /\ s.stage.task = RunNil /\ t.status.stage.generation # 0
    BY <1>5 DEF FinishWorkflow, TakesSameStage, TakesStaged, TakesFinalized
  <2>2. \/ /\ s.phase = "running"
           /\ Save([s EXCEPT !.phase = "completed"], TRUE, "return", 0)
        \/ /\ s.phase = "deleting"
           /\ Save([s EXCEPT !.phase = "deleted"], TRUE, "return", 0)
    BY <1>5 DEF FinishWorkflow, Return
  <2>3. QED
    BY <1>1, <2>1, <2>2 DEF Keeps
<1>6. CASE LosePod
  BY <1>1, <1>6 DEF LosePod, TakesSameStage, TakesStaged, TakesFinalized, Keeps
<1>7. CASE StartTask
  BY <1>1, <1>7 DEF StartTask, Return, TakesSameStage, TakesStaged,
                    TakesFinalized, Keeps
<1>8. CASE ObservePod
  <2>1. PICK p \in StagePods(t, s), then \in {"return", "deletePod"} :
           Save([s EXCEPT !.stage.podName = p.uid,
                          !.stage.message = p.phase,
                          !.stage.state = StageState(p.phase)], TRUE, then, p.uid)
    BY <1>8 DEF ObservePod
  <2>2. /\ t.exists /\ t.status.prefix /\ checkSetNewStage(t, s) = {}
        /\ t.status.stage.generation # 0
        /\ UNCHANGED <<tf, tfCache, clock, pods, podsCreated, replan>>
    BY <1>8 DEF ObservePod, TakesSameStage, TakesStaged, TakesFinalized
  <2>3. QED
    BY <1>1, <2>1, <2>2 DEF Keeps
<1>9. QED
  BY <1>2, <1>3, <1>4, <1>5, <1>6, <1>7, <1>8
     DEF Reconcile, ReconcileNotFound, ReconcileDeleted, ReconcileFinalizer,
         UpdateFinalizer, ListFails, Return, WriteStatus, WriteStatusFails,
         ConfirmStatus, GiveUp, DeleteCompletedPod

\* A resource has its first stage only after its first reconcile, and a reconcile
\* that still reads it without is not about to write over a stage.
BegunInv ==
    /\ ForwardInv
    /\ worker.pc = "write" => worker.status.prefix
    /\ tfCache.status.prefix => tf.status.prefix
    /\ ~tfCache.status.prefix =>
         /\ tfCache.status.stage.generation = 0 /\ tf.status.stage.generation = 0
         /\ worker.pc = "write" => worker.status.stage.generation = 0
    /\ worker.pc = "write" /\ worker.status.stage.generation = 0 =>
         tf.status.stage.generation = 0

LEMMA BegunInit == Init => BegunInv
<1> SUFFICES ASSUME Init PROVE BegunInv
  OBVIOUS
<1>1. tfCache = tf /\ tf.status = NoStatus /\ worker.pc = "idle"
  BY DEF Init, NewResource, Idle
<1>2. NoStatus.stage.generation = 0
  BY DEF NoStatus, NoStage
<1>3. QED
  BY <1>1, <1>2, ForwardInit DEF BegunInv

\* A status that is written has its prefix, and no stage only when the cache
\* shows the resource before its first reconcile.
LEMMA DecidedIsBegun ==
    ASSUME BegunInv, NEW w \in Status, Decides(w)
    PROVE  w.prefix /\ (~tfCache.status.prefix <=> w.stage.generation = 0)
<1> DEFINE t == tfCache
           s == Intake(t)
<1>0. /\ t \in Resource /\ t.status \in Status /\ s \in Status
      /\ t.status.stage \in Stage
      /\ s.stage = t.status.stage /\ s.prefix = t.status.prefix
      /\ Reached(t)
  BY IntakeType, IntakeIs DEF BegunInv, ForwardInv, TypeOK, Resource, Status
<1>1. CASE ~t.status.prefix
  <2>1. w = [t.status EXCEPT !.prefix = TRUE, !.phase = "initializing"]
    BY <1>1 DEF Decides, Keeps, Moves
  <2>2. QED
    BY <1>0, <1>1, <2>1 DEF Status, BegunInv
<1>2. CASE t.status.prefix /\ Moves(w)
  <2>1. PICK stage \in checkSetNewStage(t, s) : w = NextStatus(s, stage)
    BY <1>2 DEF Moves
  <2>2. stage.generation = t.generation
    BY <1>0, NewStageFollows
  <2>3. w.prefix = s.prefix /\ w.stage = stage
    BY <1>0, <2>1 DEF NextStatus, Status
  <2>4. QED
    BY <1>0, <1>2, <2>2, <2>3 DEF Reached
<1>3. CASE t.status.prefix /\ Keeps(w)
  <2> DEFINE first == newStage(t, "setup", "TF_RESOURCE_CREATED", FALSE,
                               "initializing")
  <2>1. CASE w = [t.status EXCEPT !.stage = first]
    <3>1. first.generation # 0
      BY <1>0 DEF newStage, Reached
    <3>2. w.prefix = t.status.prefix /\ w.stage = first
      BY <1>0, <2>1 DEF Status
    <3>3. QED
      BY <1>3, <3>1, <3>2
  <2>2. CASE t.status.stage.generation # 0 /\ w.prefix = s.prefix
             /\ w.stage.generation = s.stage.generation
    BY <1>0, <1>3, <2>2
  <2>3. CASE t.status.stage.generation # 0
    <3>0. CASE w = [s EXCEPT !.phase = "completed"]
               \/ w = [s EXCEPT !.phase = "deleted"]
      <4>1. w.prefix = s.prefix /\ w.stage = s.stage
        BY <1>0, <3>0 DEF Status
      <4>2. QED
        BY <2>2, <2>3, <4>1
    <3>1. CASE w = [s EXCEPT !.stage.state = "initializing"]
      <4>1. w.prefix = s.prefix /\ w.stage.generation = s.stage.generation
        BY <1>0, <3>1 DEF Status, Stage
      <4>2. QED
        BY <2>2, <2>3, <4>1
    <3>2. CASE w = [s EXCEPT
                      !.stage.state = "in-progress",
                      !.phase = CASE @ = "initializing" -> "running"
                                  [] @ = "initializing-delete" -> "deleting"
                                  [] OTHER -> @]
      <4>1. w.prefix = s.prefix /\ w.stage.generation = s.stage.generation
        BY <1>0, <3>2 DEF Status, Stage
      <4>2. QED
        BY <2>2, <2>3, <4>1
    <3>3. ASSUME NEW p \in StagePods(t, s),
                 w = [s EXCEPT !.stage.podName = p.uid,
                               !.stage.message = p.phase,
                               !.stage.state = StageState(p.phase)]
          PROVE  w.prefix /\ (~tfCache.status.prefix <=> w.stage.generation = 0)
      <4>1. w.prefix = s.prefix /\ w.stage.generation = s.stage.generation
        BY <1>0, <3>3 DEF Status, Stage
      <4>2. QED
        BY <2>2, <2>3, <4>1
    <3>4. QED
      BY <1>3, <2>3, <3>0, <3>1, <3>2, <3>3 DEF Keeps
  <2>4. CASE t.status.stage.generation = 0
    BY <1>3, <2>1, <2>4 DEF Keeps
  <2>5. QED
    BY <2>3, <2>4
<1>4. QED
  BY <1>1, <1>2, <1>3 DEF Decides, Keeps

LEMMA BegunNext == BegunInv /\ [Next]_vars => BegunInv'
<1> SUFFICES ASSUME BegunInv, [Next]_vars PROVE BegunInv'
  OBVIOUS
<1> USE DEF cluster, caches, bounds, history
<1>0. ForwardInv' /\ TypeOK /\ TypeOK'
  BY ForwardNext DEF BegunInv, ForwardInv
<1>1. ASSUME tf'.status = tf.status, UNCHANGED tfCache,
             worker' = worker \/ worker'.pc # "write"
      PROVE  BegunInv'
  BY <1>0, <1>1 DEF BegunInv
<1>2. ASSUME UNCHANGED tf, tfCache' = tf, worker' = worker \/ worker'.pc = "idle"
      PROVE  BegunInv'
  BY <1>0, <1>2 DEF BegunInv
<1>3. CASE WriteStatus
  <2>1. /\ tf'.status = worker.status /\ UNCHANGED tfCache
        /\ worker.pc = "write" /\ worker'.pc = "confirm"
    BY <1>0, <1>3 DEF WriteStatus, TypeOK, Resource, Worker
  <2>2. QED
    BY <1>0, <2>1 DEF BegunInv
<1>4. ASSUME Reconcile, worker.pc = "idle", worker' # Idle PROVE BegunInv'
  <2>1. /\ worker'.pc = "write" /\ UNCHANGED <<tf, tfCache>>
        /\ Decides(worker'.status)
    BY <1>4, Decision DEF Decides
  <2>2. worker'.status \in Status
    BY <1>0 DEF TypeOK, Worker
  <2>3. /\ worker'.status.prefix
        /\ ~tfCache.status.prefix <=> worker'.status.stage.generation = 0
    BY <2>1, <2>2, DecidedIsBegun
  <2>4. QED
    BY <1>0, <2>1, <2>3 DEF BegunInv
<1>7. ASSUME worker' = Idle, UNCHANGED <<tf, tfCache>> PROVE BegunInv'
  BY <1>1, <1>7 DEF Idle
<1>8. CASE WriteStatusFails \/ DeleteCompletedPod
  BY <1>7, <1>8 DEF WriteStatusFails, DeleteCompletedPod
<1>9. CASE ConfirmStatus \/ GiveUp
  <2>1. UNCHANGED <<tf, tfCache>> /\ worker'.pc # "write"
    BY <1>0, <1>9 DEF ConfirmStatus, GiveUp, Written, NotWritten, Idle, TypeOK,
                      Worker
  <2>2. QED
    BY <1>1, <2>1
<1>10. CASE Reconcile
  <2>1. \/ worker.pc = "idle"
        \/ WriteStatus \/ WriteStatusFails \/ ConfirmStatus \/ GiveUp
        \/ DeleteCompletedPod
    BY <1>10 DEF Reconcile, ReconcileNotFound, ReconcileDeleted,
                 ReconcileFinalizer, InitializeResource, AddFirstStage,
                 SetNewStage, FinishWorkflow, ListFails, LosePod, StartTask,
                 ObservePod, TakesSameStage, TakesStaged, TakesFinalized, Takes
  <2>3. CASE worker.pc = "idle" /\ worker' = Idle
    <3>1. tf'.status = tf.status /\ UNCHANGED tfCache
      BY <1>0, <1>10, <2>3
         DEF Reconcile, ReconcileNotFound, ReconcileDeleted, ReconcileFinalizer,
             UpdateFinalizer, InitializeResource, AddFirstStage, SetNewStage,
             FinishWorkflow, ListFails, LosePod, StartTask, ObservePod,
             WriteStatus, WriteStatusFails, ConfirmStatus, GiveUp,
             DeleteCompletedPod, TypeOK, Resource
    <3>2. QED
      BY <1>1, <2>3, <3>1 DEF Idle
  <2>4. QED
    BY <1>3, <1>4, <1>8, <1>9, <1>10, <2>1, <2>3
<1>11. CASE Reap \/ UserDeletesPod \/ GarbageCollect \/ Tick \/ SyncPods
            \/ PodRuns \/ PodSucceeds \/ PodFails
  BY <1>1, <1>11 DEF Reap, ReaperReads, ReaperDeletesPods, ReaperListsPods,
                     ReaperCleansUp, ReaperFails, UserDeletesPod, GarbageCollect,
                     Tick, SyncPods, PodRuns, PodSucceeds, PodFails
<1>12. CASE UserUpdatesSpec \/ UserDeletes \/ UserRelabels
  <2>1. tf'.status = tf.status /\ UNCHANGED <<tfCache, worker>>
    BY <1>0, <1>12
       DEF UserUpdatesSpec, UserDeletes, UserRelabels, TypeOK, Resource
  <2>2. QED
    BY <1>1, <2>1
<1>13. CASE SyncResource
  BY <1>2, <1>13 DEF SyncResource
<1>14. CASE Crash
  BY <1>2, <1>14 DEF Crash, Idle
<1>15. CASE UNCHANGED vars
  BY <1>1, <1>15 DEF vars
<1>16. QED
  BY <1>10, <1>11, <1>12, <1>13, <1>14, <1>15 DEF Next, User, Environment

-----------------------------------------------------------------------------
(***************************************************************************)
(* A deletion that is reported as done was carried out, when no label asks *)
(* for a retry and the resource was deleted after its first stage was set: *)
(* a label that is set on a resource that is being deleted restarts the    *)
(* create workflow in a delete phase, and that is what refutes the         *)
(* property otherwise.                                                     *)
(*                                                                         *)
(* A deletion increments the generation, so a stage of the generation of a *)
(* resource that is being deleted was chosen by a reconcile that saw the   *)
(* deletion.                                                               *)
(***************************************************************************)
\* The stage belongs to a destroy workflow; at its end the destroy was applied.
Destroying(stage, d) ==
    \/ stage.task \in DeleteTask
    \/ stage.task = RunNil /\ <<stage.generation, "apply-delete">> \in d

WillDestroy(t, stage, d) ==
    t.deleting /\ stage.generation = t.generation => Destroying(stage, d)

\* The end of a workflow is not in progress, and it is reported as a deletion
\* only when the destroy was applied.
Destroyed(s, d) ==
    /\ s.stage.task = RunNil => s.stage.state # "in-progress"
    /\ s.phase = "deleted" => <<s.stage.generation, "apply-delete">> \in d

Staged(t) == t.deleting => t.status.stage.generation # 0

DeletedInv ==
    /\ OrderInv /\ BegunInv
    /\ Staged(tf) /\ Staged(tfCache)
    /\ tf.deleting /\ ~tfCache.deleting => tfCache.generation < tf.generation
    /\ WillDestroy(tf, tf.status.stage, done)
    /\ WillDestroy(tfCache, tfCache.status.stage, done)
    /\ worker.pc = "write" => WillDestroy(tf, worker.status.stage, done)
    /\ Destroyed(tf.status, done) /\ Destroyed(tfCache.status, done)
    /\ Destroyed(worker.status, done)

\* When no task is left after t in the destroy workflow, t is the apply or was
\* run after it.
LEMMA LastAfterApplyDelete ==
    ASSUME NEW t \in DeleteTask, nextTask(t, ConfiguredTasks) = RunNil
    PROVE  t = "apply-delete" \/ "apply-delete" \in Before(t)
<1>1. t \in Task /\ t \notin CreateTask /\ "apply-delete" \in ConfiguredTasks
      /\ "apply-delete" \in Task /\ "apply-delete" \in Family(t)
  BY CreateIsNotDelete DEF Task, ConfiguredTasks, DefaultTasks, DeleteTask, Family
<1>2. Later(t, ConfiguredTasks) = {}
  BY <1>1, Configured, NextTaskExists DEF Later, RunNil, Task, CreateTask, DeleteTask
<1>3. ~ (ID["apply-delete"] > ID[t]) /\ ID[t] \in Nat /\ ID["apply-delete"] \in Nat
  BY <1>1, <1>2, IDIsNatural DEF Later
<1>4. CASE ID["apply-delete"] = ID[t]
  BY <1>1, <1>4, SameNumber
<1>5. CASE ID["apply-delete"] < ID[t]
  BY <1>1, <1>5 DEF Before, Earlier
<1>6. QED
  BY <1>3, <1>4, <1>5

\* A reconcile that sees the deletion and no retry chooses a destroy task.
LEMMA NewStageDestroys ==
    ASSUME Labels = {}, NEW d, NEW t \in Resource, t.deleting, NEW s \in Status,
           s = Intake(t), Sound(s, d), WillDestroy(t, s.stage, d),
           NEW stage \in checkSetNewStage(t, s)
    PROVE  Destroying(stage, d)
<1>1. ~IsRetry(t)
  BY DEF IsRetry, Resource
<1>2. s.phase \in DeletePhase
  BY <1>1 DEF Intake, Resource, Status, DeletePhase
<1>3. CASE stage = FirstStageOfGeneration(t, s)
  BY <1>2, <1>3 DEF FirstStageOfGeneration, newStage, Destroying, DeleteTask
<1>4. CASE /\ stage = StageAfter(t, s)
           /\ s.stage.state = "complete" /\ s.stage.task # RunNil
           /\ s.stage.generation = t.generation
  <2> DEFINE n == nextTask(s.stage.task, ConfiguredTasks)
  <2>1. s.stage.task \in DeleteTask
    BY <1>4 DEF WillDestroy, Destroying
  <2>2. stage.task = n /\ stage.generation = t.generation
    BY <1>4 DEF StageAfter, newStage
  <2>3. CASE n = RunNil
    <3>1. <<t.generation, "apply-delete">> \in d
      BY <1>4, <2>1, <2>3, LastAfterApplyDelete DEF Sound, Ordered, Task
    <3>2. QED
      BY <2>2, <2>3, <3>1 DEF Destroying
  <2>4. CASE n # RunNil
    <3>1. s.stage.task \in TaskName /\ s.stage.task \notin CreateTask
      BY <2>1, CreateIsNotDelete DEF TaskName, Task
    <3>2. n \in Task
      BY <2>4, <3>1, Configured, NextTaskType DEF TaskName
    <3>3. n \in DeleteTask
      BY <3>1, <3>2, Configured, NextTaskType DEF Task
    <3>4. QED
      BY <2>2, <3>3 DEF Destroying
  <2>5. QED
    BY <2>3, <2>4
<1>5. CASE /\ stage = RestartStage(t, s)
           /\ s.stage.task \in {"apply", "apply-delete"}
           /\ s.stage.generation = t.generation
  <2>1. s.stage.task = "apply-delete"
    BY <1>5, DeleteTasks DEF WillDestroy, Destroying, RunNil
  <2>2. stage.task = nextTask("postinit-delete", ConfiguredTasks)
    BY <1>5, <2>1 DEF RestartStage, newStage
  <2>3. QED
    BY <2>2, BeforeRestart DEF Destroying
<1>6. QED
  BY <1>1, <1>3, <1>4, <1>5 DEF checkSetNewStage

\* A reconcile's step that leaves the resource and its cache alone.
LEMMA DeletedLocalStep ==
    ASSUME DeletedInv, OrderInv', BegunInv', UNCHANGED <<tf, tfCache, done>>,
           \/ worker' = worker
           \/ worker'.pc # "write" /\ worker'.status \in {worker.status, NoStatus}
           \/ /\ worker'.pc = "write"
              /\ WillDestroy(tfCache, worker'.status.stage, done)
              /\ Destroyed(worker'.status, done)
    PROVE  DeletedInv'
<1>1. Destroyed(NoStatus, done)
  BY DEF Destroyed, NoStatus, NoStage
<1>2. CASE worker' = worker
  BY <1>2 DEF DeletedInv
<1>3. CASE worker'.pc # "write" /\ worker'.status \in {worker.status, NoStatus}
  BY <1>1, <1>3 DEF DeletedInv
<1>4. CASE /\ worker'.pc = "write"
           /\ WillDestroy(tfCache, worker'.status.stage, done)
           /\ Destroyed(worker'.status, done)
  <2>1. /\ worker'.status.stage.generation <= tfCache.generation
        /\ tfCache.generation <= tf.generation
        /\ worker'.status.stage.generation \in Nat
        /\ tfCache.generation \in Nat /\ tf.generation \in Nat
        /\ tfCache.deleting \in BOOLEAN
    BY <1>4 DEF DeletedInv, BegunInv, ForwardInv, TypeOK, Worker, Resource, Status, Stage
  <2>2. ASSUME tf.deleting, worker'.status.stage.generation = tf.generation
        PROVE  Destroying(worker'.status.stage, done)
    <3>1. tfCache.generation = tf.generation
      BY <2>1, <2>2
    <3>2. tfCache.deleting
      BY <2>1, <2>2, <3>1 DEF DeletedInv
    <3>3. QED
      BY <1>4, <2>2, <3>1, <3>2 DEF WillDestroy
  <2>3. WillDestroy(tf, worker'.status.stage, done)
    BY <2>2 DEF WillDestroy
  <2>4. QED
    BY <1>4, <2>3 DEF DeletedInv
<1>5. QED
  BY <1>2, <1>3, <1>4

\* A new stage is not in progress.
LEMMA NewStageIsNotRunning ==
    ASSUME NEW t, NEW s, NEW stage \in checkSetNewStage(t, s)
    PROVE  stage.state # "in-progress"
<1>1. /\ RetryStage(t, s).state # "in-progress"
      /\ FirstStageOfGeneration(t, s).state # "in-progress"
      /\ StageAfter(t, s).state # "in-progress"
      /\ RestartStage(t, s).state # "in-progress"
  BY DEF newStage, RetryStage, FirstStageOfGeneration, StageAfter, RestartStage
<1>2. QED
  BY <1>1 DEF checkSetNewStage

LEMMA DeletedReconcile ==
    ASSUME Labels = {}, DeletedInv, OrderInv', BegunInv', Reconcile
    PROVE  DeletedInv'
<1> USE DEF cluster, caches, bounds, history
<1> DEFINE t == tfCache
           s == Intake(t)
           Rest == UNCHANGED <<tf, tfCache, done>>
<1>0. /\ TypeOK /\ t \in Resource /\ t.status \in Status /\ s \in Status
      /\ s.stage = t.status.stage /\ Sound(t.status, done)
      /\ WillDestroy(t, s.stage, done)
      /\ s.stage.task = RunNil => s.stage.state # "in-progress"
  BY IntakeType, IntakeKeepsStage
     DEF Destroyed, DeletedInv, OrderInv, BegunInv, ForwardInv, TypeOK, Resource
<1>1. t.status.phase # "deleted" => s.phase # "deleted"
  BY <1>0 DEF Intake, Resource, Status
<1>2. ASSUME Rest, worker' = Idle PROVE DeletedInv'
  BY <1>2, DeletedLocalStep DEF Idle
\* It keeps the stage, or its task and generation.
<1>3. ASSUME Rest, worker'.pc = "write", NEW new, worker'.status = new,
             SameTask(s.stage, new.stage), new.phase # "deleted",
             new.stage = s.stage \/ s.stage.task # RunNil
      PROVE  DeletedInv'
  <2>1. WillDestroy(t, new.stage, done) /\ Destroyed(new, done)
    BY <1>0, <1>3 DEF WillDestroy, Destroying, SameTask, Destroyed
  <2>2. QED
    BY <1>3, <2>1, DeletedLocalStep
<1>4. CASE ReconcileNotFound \/ ListFails
  BY <1>2, <1>4 DEF ReconcileNotFound, ListFails, Return
<1>5. CASE ReconcileDeleted \/ ReconcileFinalizer
  <2>1. /\ worker' = Idle /\ UNCHANGED <<tfCache, done>>
        /\ tf'.status = tf.status /\ tf'.generation = tf.generation
        /\ tf'.deleting = tf.deleting
    BY <1>0, <1>5 DEF ReconcileDeleted, ReconcileFinalizer, UpdateFinalizer,
                      Return, TypeOK, Resource
  <2>2. Destroyed(Idle.status, done) /\ Idle.pc = "idle"
    BY DEF Destroyed, Idle, NoStatus, NoStage
  <2>3. QED
    BY <2>1, <2>2 DEF DeletedInv, Staged, WillDestroy
<1>6. CASE InitializeResource
  <2> DEFINE new == [t.status EXCEPT !.prefix = TRUE, !.phase = "initializing"]
  <2>1. Rest /\ worker'.pc = "write" /\ worker'.status = new
    BY <1>6 DEF InitializeResource, Save
  <2>2. /\ SameTask(s.stage, new.stage) /\ new.phase = "initializing"
        /\ new.stage = s.stage
    BY <1>0 DEF SameTask, Status
  <2>3. QED
    BY <1>3, <2>1, <2>2
<1>7. CASE AddFirstStage
  <2> DEFINE first == newStage(t, "setup", "TF_RESOURCE_CREATED", FALSE,
                               "initializing")
             new == [t.status EXCEPT !.stage = first]
  <2>1. Rest /\ worker'.pc = "write" /\ worker'.status = new
    BY <1>7 DEF AddFirstStage, Save
  <2> HIDE DEF first
  <2>0. first.task # RunNil
    BY DEF first, newStage, RunNil
  <2>2. new.stage = first /\ new.phase # "deleted"
    BY <1>0, <1>7 DEF Status, AddFirstStage, TakesFinalized
  <2>3. ~t.deleting
    BY <1>7 DEF AddFirstStage, DeletedInv, Staged
  <2> HIDE DEF new
  <2>4. WillDestroy(t, new.stage, done) /\ Destroyed(new, done)
    BY <2>0, <2>2, <2>3 DEF WillDestroy, Destroyed
  <2>5. QED
    BY <2>1, <2>4, DeletedLocalStep
<1>8. CASE SetNewStage
  <2>1. PICK stage \in checkSetNewStage(t, s) :
             Save(NextStatus(s, stage), FALSE,
                  IF KeepsLatestPodsOnly(t) THEN "reap" ELSE "return", 0)
    BY <1>8 DEF SetNewStage, NextStatus
  <2>2. Rest /\ worker'.pc = "write" /\ worker'.status = NextStatus(s, stage)
    BY <1>8, <2>1 DEF SetNewStage, Save
  <2>3. TakesStaged
    BY <1>8 DEF SetNewStage
  <2>4. /\ NextStatus(s, stage).stage = stage
        /\ NextStatus(s, stage).phase # "deleted"
    BY <1>0, <1>1, <2>3 DEF NextStatus, Status, TakesStaged, TakesFinalized
  <2>5. Sound(s, done)
    BY <1>0, <2>3, IntakeIsSound DEF TakesStaged
  <2>6. t.deleting => Destroying(stage, done)
    BY <1>0, <2>5, NewStageDestroys
  <2>7. WillDestroy(t, stage, done)
    BY <2>6 DEF WillDestroy
  <2>8. stage.task = RunNil => stage.state # "in-progress"
    BY NewStageIsNotRunning
  <2>9. Destroyed(NextStatus(s, stage), done)
    BY <2>4, <2>8 DEF Destroyed
  <2>10. QED
    BY <2>2, <2>4, <2>7, <2>9, DeletedLocalStep
<1>9. CASE FinishWorkflow
  <2>1. /\ Rest /\ TakesStaged /\ checkSetNewStage(t, s) = {}
        /\ s.stage.task = RunNil
        /\ \/ worker'.pc = "write" /\ worker'.status = [s EXCEPT !.phase = "completed"]
           \/ /\ worker'.pc = "write" /\ worker'.status = [s EXCEPT !.phase = "deleted"]
              /\ s.phase = "deleting"
           \/ worker' = Idle
    BY <1>9 DEF FinishWorkflow, Save, Return, TakesSameStage
  <2>2. CASE worker'.pc = "write" /\ worker'.status = [s EXCEPT !.phase = "completed"]
    BY <1>0, <1>3, <2>1, <2>2 DEF SameTask, Status
  <2>3. CASE /\ worker'.pc = "write" /\ worker'.status = [s EXCEPT !.phase = "deleted"]
             /\ s.phase = "deleting"
    <3> DEFINE new == [s EXCEPT !.phase = "deleted"]
    <3>1. new.stage = s.stage
      BY <1>0 DEF Status
    <3>2. SafeStatus(s, t.deleting)
      BY <1>0, IntakeIsSafe DEF DeletedInv, OrderInv, DestroyInv
    <3>3. t.deleting
      BY <2>3, <3>2 DEF SafeStatus, DeletePhase
    <3>5. s.stage.generation = t.generation
      BY <1>0, <2>1, SameStage
    <3>6. <<s.stage.generation, "apply-delete">> \in done
      BY <1>0, <2>1, <3>3, <3>5, DeleteTasks DEF WillDestroy, Destroying
    <3> HIDE DEF new
    <3>7. WillDestroy(t, new.stage, done) /\ Destroyed(new, done)
      BY <1>0, <2>1, <3>1, <3>6 DEF Destroyed
    <3>8. QED
      BY <2>1, <2>3, <3>7, DeletedLocalStep DEF new
  <2>4. QED
    BY <1>2, <2>1, <2>2, <2>3
<1>10. CASE LosePod
  <2> DEFINE new == [s EXCEPT !.stage.state = "initializing"]
  <2>1. /\ Rest /\ worker'.pc = "write" /\ worker'.status = new
        /\ s.stage.task # RunNil /\ t.status.phase # "deleted"
    BY <1>10 DEF LosePod, Save, TakesSameStage, TakesStaged, TakesFinalized
  <2>2. SameTask(s.stage, new.stage) /\ new.phase # "deleted"
    BY <1>0, <1>1, <2>1 DEF SameTask, Status, Stage
  <2>3. QED
    BY <1>3, <2>1, <2>2
<1>11. CASE StartTask
  <2> DEFINE new == [s EXCEPT
                        !.stage.state = "in-progress",
                        !.phase = CASE @ = "initializing" -> "running"
                                    [] @ = "initializing-delete" -> "deleting"
                                    [] OTHER -> @]
  <2>1. /\ Rest /\ s.stage.task # RunNil /\ t.status.phase # "deleted"
        /\ \/ worker'.pc = "write" /\ worker'.status = new
           \/ worker' = Idle
    BY <1>11 DEF StartTask, Save, Return, TakesSameStage, TakesStaged,
                 TakesFinalized
  <2>2. SameTask(s.stage, new.stage) /\ new.phase # "deleted"
    BY <1>0, <1>1, <2>1 DEF SameTask, Status, Stage
  <2>3. QED
    BY <1>2, <1>3, <2>1, <2>2
<1>12. CASE ObservePod
  <2> DEFINE New(p) == [s EXCEPT !.stage.podName = p.uid,
                                 !.stage.message = p.phase,
                                 !.stage.state = StageState(p.phase)]
  <2>1. PICK p \in StagePods(t, s), then \in {"return", "deletePod"} :
           Save(New(p), TRUE, then, p.uid)
    BY <1>12 DEF ObservePod
  <2>2. worker'.pc = "write" /\ worker'.status = New(p)
    <3> HIDE DEF New
    <3>1. QED
      BY <2>1 DEF Save
  <2>3. Rest /\ s.stage.task # RunNil /\ t.status.phase # "deleted"
    BY <1>12 DEF ObservePod, TakesSameStage, TakesStaged, TakesFinalized
  <2>4. SameTask(s.stage, New(p).stage) /\ New(p).phase # "deleted"
    BY <1>0, <1>1, <2>3 DEF SameTask, Status, Stage
  <2>5. QED
    BY <1>3, <2>2, <2>3, <2>4
<1>13. CASE WriteStatus
  <2>1. /\ tf'.status = worker.status /\ tf'.generation = tf.generation
        /\ tf'.deleting = tf.deleting /\ tf.exists
        /\ worker'.status = worker.status /\ worker'.pc = "confirm"
        /\ worker.pc = "write" /\ UNCHANGED <<tfCache, done>>
    BY <1>0, <1>13 DEF WriteStatus, TypeOK, Resource, Worker
  <2>2. tf.deleting => worker.status.stage.generation # 0
    <3>1. /\ tf.status.stage.generation \in Nat
          /\ worker.status.stage.generation \in Nat
      BY <1>0 DEF TypeOK, Resource, Worker, Status, Stage
    <3>2. worker.status.stage.generation = 0 => tf.status.stage.generation = 0
      BY <2>1 DEF DeletedInv, BegunInv
    <3>3. QED
      BY <3>1, <3>2 DEF DeletedInv, Staged
  <2>3. WillDestroy(tf, worker.status.stage, done)
    BY <2>1 DEF DeletedInv
  <2>4. QED
    BY <2>1, <2>2, <2>3 DEF DeletedInv, Staged, WillDestroy
<1>14. CASE WriteStatusFails \/ DeleteCompletedPod
  BY <1>2, <1>14 DEF WriteStatusFails, DeleteCompletedPod
<1>15. CASE ConfirmStatus \/ GiveUp
  <2>1. Rest /\ worker.pc = "confirm"
    BY <1>15 DEF ConfirmStatus, GiveUp
  <2>2. worker'.pc # "write" /\ worker'.status \in {worker.status, NoStatus}
    BY <1>0, <1>15, <2>1
       DEF ConfirmStatus, GiveUp, Written, NotWritten, Idle, TypeOK, Worker
  <2>3. QED
    BY <2>1, <2>2, DeletedLocalStep
<1>16. QED
  BY <1>4, <1>5, <1>6, <1>7, <1>8, <1>9, <1>10, <1>11, <1>12, <1>13, <1>14,
     <1>15 DEF Reconcile

LEMMA DeletedInit == Init => DeletedInv
<1> SUFFICES ASSUME Init PROVE DeletedInv
  OBVIOUS
<1>1. /\ tfCache = tf /\ tf.status = NoStatus /\ tf.deleting = FALSE
      /\ worker = Idle
  BY DEF Init, NewResource
<1>2. Destroyed(NoStatus, done) /\ Idle.status = NoStatus /\ Idle.pc = "idle"
  BY DEF Destroyed, NoStatus, NoStage, Idle
<1>3. QED
  BY <1>1, <1>2, OrderInit, BegunInit DEF DeletedInv, Staged, WillDestroy

LEMMA DeletedNext ==
    ASSUME Labels = {}, DeleteUnstaged = FALSE, DeletedInv, [Next]_vars
    PROVE  DeletedInv'
<1> USE DEF cluster, caches, bounds, history
<1>0. /\ OrderInv' /\ BegunInv' /\ TypeOK
  BY OrderNext, BegunNext DEF DeletedInv, BegunInv, ForwardInv
<1>1. CASE Reconcile
  BY <1>0, <1>1, DeletedReconcile
<1>2. ASSUME UNCHANGED <<tf, tfCache, worker, done>> PROVE DeletedInv'
  BY <1>0, <1>2, DeletedLocalStep
<1>3. CASE Reap
  BY <1>2, <1>3 DEF Reap, ReaperReads, ReaperDeletesPods, ReaperListsPods,
                    ReaperCleansUp, ReaperFails
<1>4. CASE UserDeletesPod \/ GarbageCollect \/ Tick \/ SyncPods \/ PodRuns \/ PodFails
  BY <1>2, <1>4 DEF UserDeletesPod, GarbageCollect, Tick, SyncPods, PodRuns, PodFails
\* More has succeeded.
<1>5. CASE PodSucceeds
  <2>1. UNCHANGED <<tf, tfCache, worker>> /\ done \subseteq done'
    BY <1>5 DEF PodSucceeds
  <2>2. \A t, stage : WillDestroy(t, stage, done) => WillDestroy(t, stage, done')
    BY <2>1 DEF WillDestroy, Destroying
  <2>3. \A s : Destroyed(s, done) => Destroyed(s, done')
    BY <2>1 DEF Destroyed
  <2>4. QED
    BY <1>0, <2>1, <2>2, <2>3 DEF DeletedInv
\* A new generation: no stage is of it yet.
<1>6. ASSUME tf'.status = tf.status, tf'.generation = tf.generation + 1,
             UNCHANGED <<tfCache, worker, done>>,
             tf'.deleting => tf.status.stage.generation # 0
      PROVE  DeletedInv'
  <2>1. /\ tf.generation \in Nat /\ tfCache.generation \in Nat
        /\ tf.status.stage.generation \in Nat
        /\ worker.status.stage.generation \in Nat
    BY <1>0 DEF TypeOK, Resource, Worker, Status, Stage
  <2>2. /\ tfCache.generation <= tf.generation
        /\ tf.status.stage.generation <= tf.generation
        /\ worker.pc = "write" =>
             worker.status.stage.generation <= tfCache.generation
    BY DEF DeletedInv, BegunInv, ForwardInv, Reached
  <2>3. /\ tfCache.generation < tf'.generation
        /\ tf.status.stage.generation # tf'.generation
        /\ worker.pc = "write" =>
             worker.status.stage.generation # tf'.generation
    BY <1>6, <2>1, <2>2
  <2>4. QED
    BY <1>0, <1>6, <2>3 DEF DeletedInv, Staged, WillDestroy
<1>7. ASSUME tf'.status = tf.status, tf'.generation = tf.generation,
             tf'.deleting = tf.deleting, UNCHANGED <<tfCache, worker, done>>
      PROVE  DeletedInv'
  BY <1>0, <1>7 DEF DeletedInv, Staged, WillDestroy
<1>8. CASE UserUpdatesSpec
  BY <1>0, <1>6, <1>8
     DEF UserUpdatesSpec, TypeOK, Resource, DeletedInv, Staged
<1>9. CASE UserDeletes
  <2>1. /\ tf.status.stage.generation # 0 /\ tf'.status = tf.status
        /\ \/ tf'.generation = tf.generation + 1
           \/ tf'.generation = tf.generation /\ tf'.deleting = tf.deleting
        /\ UNCHANGED <<tfCache, worker, done>>
    BY <1>0, <1>9 DEF UserDeletes, TypeOK, Resource
  <2>2. QED
    BY <1>6, <1>7, <2>1
<1>10. CASE UserRelabels
  BY <1>0, <1>7, <1>10 DEF UserRelabels, TypeOK, Resource
<1>11. CASE SyncResource
  BY <1>0, <1>11 DEF SyncResource, DeletedInv
<1>12. CASE Crash
  <2>1. Destroyed(Idle.status, done) /\ Idle.pc = "idle"
    BY DEF Destroyed, NoStatus, NoStage, Idle
  <2>2. QED
    BY <1>0, <1>12, <2>1 DEF Crash, DeletedInv
<1>13. CASE UNCHANGED vars
  BY <1>2, <1>13 DEF vars
<1>14. QED
  BY <1>1, <1>3, <1>4, <1>5, <1>8, <1>9, <1>10, <1>11, <1>12, <1>13
     DEF Next, User, Environment

\* When no label asks for a retry, and no user deletes a resource that has no
\* stage yet, the phase deleted is only written after a destroy of the stage's
\* generation has been applied (tf_controller.go:740-776, 843-852, 1159-1253).
THEOREM DeletedIsDestroyed ==
    ASSUME Labels = {}, DeleteUnstaged = FALSE
    PROVE  Spec => []DeletedMeansDestroyed
<1>1. DeletedInv /\ [Next]_vars => DeletedInv'
  BY DeletedNext
<1>2. DeletedInv => DeletedMeansDestroyed
  BY DEF DeletedInv, DeletedMeansDestroyed, Destroyed
<1>3. QED
  BY <1>1, <1>2, DeletedInit, PTL DEF Spec

-----------------------------------------------------------------------------
(***************************************************************************)
(* No task has two pods, when the pod watch is not late.                   *)
(*                                                                         *)
(* A pod is created and the status written in two steps, and the status    *)
(* may never be written: what keeps the next reconcile from creating the   *)
(* pod again is that its list finds the first.  The list leaves out the    *)
(* pods from before the last retry, and the cache may show an older retry  *)
(* than the API server does, since the confirmation of a write does not    *)
(* compare the time of the retry.  RetryInv says when it does: only while  *)
(* the next reconcile sees a retry again, or while no task has started.    *)
(* It holds as long as every confirmation is waited for; without retries   *)
(* the list leaves out no pod, and OnceInv holds whatever is given up.     *)
(***************************************************************************)
\* No two pods of a task were created at the given time or later.
OnePodSince(S, time) ==
    \A p, q \in S : /\ p.created >= time /\ q.created >= time
                    /\ p.generation = q.generation /\ p.task = q.task
                    => p = q

\* The first task of a retry or of a generation waits to be started.
Fresh(s) == /\ s.phase = "initializing"
            /\ s.stage.state = "initializing"
            /\ s.stage.podName = 0
            /\ s.stage.task # RunNil

\* The phase is left when the first task is started; a pod that was not told of
\* may be seen before.
Starting(s) ==
    /\ ~s.prefix => s.stage = NoStage
    /\ s.phase = "initializing" =>
         /\ s.stage.state # "in-progress"
         /\ s.stage.podName = 0 /\ s.stage.task # RunNil =>
              s.stage.state = "initializing"

\* When the status old confirms the write of new, it is of the same retry, or no
\* task has started.
Precedes(old, new) ==
    Confirmed(old, new) =>
      /\ old.retryTimestamp <= new.retryTimestamp
      /\ old.retryTimestamp = new.retryTimestamp \/ Fresh(old)

\* ... or the next reconcile will see the retry again.
CachePrecedes(new) ==
    \/ Precedes(tfCache.status, new)
    \/ /\ IsRetry(tfCache)
       /\ tfCache.status.retryTimestamp <= new.retryTimestamp

RetryInv ==
    /\ OrderInv
    /\ \A s \in {tf.status, tfCache.status, worker.status} :
         Starting(s) /\ s.retryTimestamp <= clock
    /\ worker.pc # "confirm" /\ tfCache.exists =>
         /\ Confirmed(tfCache.status, tf.status)
         /\ CachePrecedes(tf.status)
    /\ worker.pc = "confirm" => worker.status = tf.status
    /\ worker.pc \in {"write", "confirm"} =>
         CachePrecedes(worker.status)
    /\ worker.pc = "write" =>
         /\ Precedes(tf.status, worker.status)
         /\ OnePodSince(pods, worker.status.retryTimestamp)
    /\ OnePodSince(pods, tf.status.retryTimestamp)
    /\ OnePodSince(pods, tfCache.status.retryTimestamp)
    /\ \A p \in pods : p.uid # 0

LEMMA ConfirmedIs ==
    ASSUME NEW a \in Status, NEW b \in Status
    PROVE  Confirmed(a, b) <=>
             /\ a.prefix = b.prefix
             /\ a.phase = b.phase
             /\ a.stage.generation = b.stage.generation
             /\ a.stage.task = b.stage.task
             /\ a.stage.reason = b.stage.reason
             /\ a.stage.interruptible = b.stage.interruptible
             /\ a.stage.podName = b.stage.podName
             /\ a.stage.message = b.stage.message
<1> DEFINE c == a.stage
           d == b.stage
<1>1. c \in Stage /\ d \in Stage
  BY DEF Status
<1>2. Confirmed(a, b) <=> /\ a.prefix = b.prefix /\ a.phase = b.phase
                          /\ [c EXCEPT !.state = ""] = [d EXCEPT !.state = ""]
  BY DEF Confirmed
<1> HIDE DEF c, d
<1>3. [c EXCEPT !.state = ""] = [d EXCEPT !.state = ""] =>
        /\ c.generation = d.generation /\ c.task = d.task /\ c.reason = d.reason
        /\ c.interruptible = d.interruptible /\ c.podName = d.podName
        /\ c.message = d.message
  BY <1>1 DEF Stage
<1>4. ASSUME c.generation = d.generation, c.task = d.task, c.reason = d.reason,
             c.interruptible = d.interruptible, c.podName = d.podName,
             c.message = d.message
      PROVE  [c EXCEPT !.state = ""] = [d EXCEPT !.state = ""]
  BY <1>1, <1>4 DEF Stage
<1>5. QED
  BY <1>2, <1>3, <1>4 DEF c, d

\* What checkSetNewStage returns for a retry, and for a stage that has not been
\* started.
LEMMA NewStageIs ==
    ASSUME NEW t \in Resource, t.generation # 0, NEW s \in Status, s = Intake(t),
           NEW stage \in checkSetNewStage(t, s)
    PROVE  /\ stage.state = "initializing" \/ stage.task = RunNil
           /\ stage.state # "in-progress"
           /\ stage.podName = 0 /\ stage.generation = t.generation
           /\ IsRetry(t) => /\ stage.state = "initializing"
                            /\ stage.task # RunNil
           /\ ~IsRetry(t) /\ s.stage.state = "initializing" =>
                stage.generation # s.stage.generation
<1>1. CASE IsRetry(t) /\ s.stage.generation = t.generation
  <2>1. stage = RetryStage(t, s)
    BY <1>1 DEF checkSetNewStage
  <2>2. QED
    BY <1>1, <2>1 DEF RetryStage, newStage, RunNil
<1>2. CASE s.stage.generation # t.generation
  <2>1. stage = FirstStageOfGeneration(t, s)
    BY <1>2 DEF checkSetNewStage
  <2>2. QED
    BY <1>2, <2>1 DEF FirstStageOfGeneration, newStage, RunNil
<1>3. CASE ~IsRetry(t) /\ s.stage.generation = t.generation
  <2>1. /\ stage = StageAfter(t, s) \/ stage = RestartStage(t, s)
        /\ s.stage.state \in {"complete", "failed"}
    BY <1>3 DEF checkSetNewStage
  <2>2. CASE stage = StageAfter(t, s)
    BY <1>3, <2>1, <2>2 DEF StageAfter, newStage
  <2>3. CASE stage = RestartStage(t, s)
    BY <1>3, <2>1, <2>3 DEF RestartStage, newStage
  <2>4. QED
    BY <2>1, <2>2, <2>3
<1>4. QED
  BY <1>1, <1>2, <1>3

LEMMA DecidedIsStarting ==
    ASSUME RetryInv, podCache = pods, NEW w \in Status, Decides(w)
    PROVE  Starting(w)
<1> DEFINE t == tfCache
           s == Intake(t)
<1>0. /\ t \in Resource /\ t.status \in Status /\ s \in Status /\ t.generation # 0
      /\ Starting(t.status) /\ TypeOK
  BY IntakeType DEF RetryInv, OrderInv, DestroyInv, TypeOK, Resource
<1>1. /\ s.stage = t.status.stage /\ s.prefix = t.status.prefix
      /\ s.stage \in Stage
  BY <1>0, IntakeIs DEF Status
<1>2. CASE ~t.status.prefix /\ w = [t.status EXCEPT !.prefix = TRUE, !.phase = "initializing"]
  <2>1. w.stage = NoStage /\ w.prefix
    BY <1>0, <1>2 DEF Starting, Status
  <2>2. NoStage.state = "" /\ NoStage.task = RunNil
    BY DEF NoStage
  <2>3. QED
    BY <2>1, <2>2 DEF Starting
<1>3. ASSUME t.status.prefix,
             w = [t.status EXCEPT
                    !.stage = newStage(t, "setup", "TF_RESOURCE_CREATED", FALSE,
                                       "initializing")]
      PROVE  Starting(w)
  <2>1. w.stage.state = "initializing" /\ w.prefix
    BY <1>0, <1>3 DEF Status, newStage
  <2>2. QED
    BY <2>1 DEF Starting
<1>4. ASSUME t.status.prefix, NEW stage \in checkSetNewStage(t, s),
             w = NextStatus(s, stage)
      PROVE  Starting(w)
  <2>1. w.stage = stage /\ w.prefix = s.prefix
    BY <1>0, <1>4 DEF NextStatus, Status
  <2>2. QED
    BY <1>0, <1>1, <1>4, <2>1, NewStageIs DEF Starting
<1>5. CASE t.status.prefix /\ w \in {[s EXCEPT !.phase = "completed"],
                                     [s EXCEPT !.phase = "deleted"]}
  <2>1. w.prefix /\ w.phase # "initializing"
    BY <1>0, <1>1, <1>5 DEF Status
  <2>2. QED
    BY <2>1 DEF Starting
<1>6. CASE t.status.prefix /\ w = [s EXCEPT !.stage.state = "initializing"]
  <2>1. w.prefix /\ w.stage.state = "initializing"
    BY <1>0, <1>1, <1>6 DEF Status, Stage
  <2>2. QED
    BY <2>1 DEF Starting
<1>7. CASE /\ t.status.prefix
           /\ w = [s EXCEPT
                     !.stage.state = "in-progress",
                     !.phase = CASE @ = "initializing" -> "running"
                                 [] @ = "initializing-delete" -> "deleting"
                                 [] OTHER -> @]
  <2>1. w.prefix /\ w.phase # "initializing"
    BY <1>0, <1>1, <1>7 DEF Status
  <2>2. QED
    BY <2>1 DEF Starting
<1>8. ASSUME t.status.prefix, NEW p \in StagePods(t, s),
             w = [s EXCEPT !.stage.podName = p.uid,
                           !.stage.message = p.phase,
                           !.stage.state = StageState(p.phase)]
      PROVE  Starting(w)
  <2>1. p \in pods
    BY <1>8 DEF StagePods
  <2>2. p.uid # 0 /\ p.phase \in PodPhase
    BY <1>0, <2>1 DEF RetryInv, TypeOK, Pod
  <2>3. StageState(p.phase) # "in-progress"
    BY <2>2 DEF StageState, PodPhase
  <2>4. w.prefix /\ w.stage.podName = p.uid /\ w.stage.state = StageState(p.phase)
    BY <1>0, <1>1, <1>8 DEF Status, Stage
  <2>5. QED
    BY <2>2, <2>3, <2>4 DEF Starting
<1>9. QED
  BY <1>2, <1>3, <1>4, <1>5, <1>6, <1>7, <1>8 DEF Decides, Keeps, Moves

LEMMA LaterHasFewer ==
    ASSUME TypeOK, NEW a \in Nat, NEW b \in Nat, a <= b, OnePodSince(pods, a)
    PROVE  OnePodSince(pods, b)
<1>1. \A p \in pods : p.created \in Nat
  BY DEF TypeOK, Pod
<1>2. \A p \in pods : p.created >= b => p.created >= a
  BY <1>1
<1>3. QED
  BY <1>2 DEF OnePodSince

LEMMA DecidedPrecedes ==
    ASSUME RetryInv, podCache = pods, worker.pc = "idle", tfCache.exists,
           NEW w \in Status, Decides(w)
    PROVE  /\ CachePrecedes(w)
           /\ Precedes(tf.status, w)
           /\ w.retryTimestamp <= clock
           /\ OnePodSince(pods, w.retryTimestamp)
           /\ w.retryTimestamp = tfCache.status.retryTimestamp \/ IsRetry(tfCache)
<1> DEFINE t == tfCache
           c == t.status
           f == tf.status
           s == Intake(t)
           Goal == /\ CachePrecedes(w) /\ Precedes(f, w)
                   /\ w.retryTimestamp <= clock
                   /\ OnePodSince(pods, w.retryTimestamp)
                   /\ w.retryTimestamp = c.retryTimestamp \/ IsRetry(t)
<1>0. /\ t \in Resource /\ c \in Status /\ f \in Status /\ s \in Status
      /\ t.generation # 0 /\ TypeOK /\ Starting(c) /\ Starting(f)
      /\ c.stage \in Stage /\ f.stage \in Stage
  BY IntakeType DEF RetryInv, OrderInv, DestroyInv, TypeOK, Resource, Status
<1>1. /\ Confirmed(c, f) /\ CachePrecedes(f)
      /\ c.retryTimestamp <= f.retryTimestamp /\ f.retryTimestamp <= clock
      /\ c.retryTimestamp \in Nat /\ f.retryTimestamp \in Nat
      /\ w.retryTimestamp \in Nat /\ clock \in Nat
  BY <1>0 DEF RetryInv, CachePrecedes, Precedes, Status, TypeOK
<1>2. /\ s.stage = c.stage /\ s.prefix = c.prefix
      /\ IsRetry(t) => s.phase = "initializing" /\ s.retryTimestamp = clock
      /\ ~IsRetry(t) => /\ s.retryTimestamp = c.retryTimestamp
                        /\ s.phase \in {c.phase, "initializing-delete"}
  BY <1>0, IntakeIs
<1>3. ASSUME w.retryTimestamp = c.retryTimestamp,
             IsRetry(t) \/ Fresh(c) => ~Confirmed(c, w)
      PROVE  Goal
  <2>1. CachePrecedes(w)
    BY <1>1, <1>3 DEF CachePrecedes, Precedes
  <2>2. ASSUME Confirmed(f, w) PROVE f.retryTimestamp = w.retryTimestamp
    <3>1. Confirmed(c, w)
      BY <1>0, <1>1, <2>2, ConfirmedIs
    <3>2. QED
      BY <1>1, <1>3, <3>1 DEF CachePrecedes, Precedes
  <2>3. Precedes(f, w)
    BY <1>1, <2>2 DEF Precedes
  <2>4. OnePodSince(pods, w.retryTimestamp) /\ w.retryTimestamp <= clock
    BY <1>1, <1>3 DEF RetryInv
  <2>5. QED
    BY <1>3, <2>1, <2>3, <2>4
<1>4. ASSUME IsRetry(t), w.retryTimestamp = clock, Fresh(w) \/ ~Confirmed(c, w)
      PROVE  Goal
  <2>1. CachePrecedes(w)
    BY <1>1, <1>4 DEF CachePrecedes
  <2>2. ASSUME Confirmed(f, w) PROVE Fresh(f)
    <3>1. Confirmed(c, w)
      BY <1>0, <1>1, <2>2, ConfirmedIs
    <3>2. Fresh(w)
      BY <1>4, <3>1
    <3>3. /\ f.phase = "initializing" /\ f.stage.podName = 0
          /\ f.stage.task # RunNil
      BY <1>0, <2>2, <3>2, ConfirmedIs DEF Fresh
    <3>4. f.prefix
      <4>1. NoStage.task = RunNil
        BY DEF NoStage
      <4>2. QED
        BY <1>0, <3>3, <4>1 DEF Starting
    <3>5. QED
      BY <1>0, <3>3, <3>4 DEF Starting, Fresh
  <2>3. Precedes(f, w)
    BY <1>1, <1>4, <2>2 DEF Precedes
  <2>4. OnePodSince(pods, clock)
    BY <1>0, <1>1, LaterHasFewer DEF RetryInv
  <2>5. QED
    BY <1>1, <1>4, <2>1, <2>3, <2>4
<1> SUFFICES Goal
  OBVIOUS
<1> HIDE DEF Goal
<1>5. CASE ~c.prefix /\ w = [c EXCEPT !.prefix = TRUE, !.phase = "initializing"]
  <2>1. w.prefix # c.prefix /\ w.retryTimestamp = c.retryTimestamp
    BY <1>0, <1>5 DEF Status
  <2>2. ~Confirmed(c, w)
    BY <1>0, <2>1, ConfirmedIs
  <2>3. QED
    BY <1>3, <2>1, <2>2
<1>6. CASE /\ c.stage.generation = 0
           /\ w = [c EXCEPT !.stage = newStage(t, "setup", "TF_RESOURCE_CREATED",
                                               FALSE, "initializing")]
  <2>1. w.stage.generation # c.stage.generation /\ w.retryTimestamp = c.retryTimestamp
    BY <1>0, <1>6 DEF Status, newStage
  <2>2. ~Confirmed(c, w)
    BY <1>0, <2>1, ConfirmedIs
  <2>3. QED
    BY <1>3, <2>1, <2>2
<1>7. ASSUME c.prefix, NEW stage \in checkSetNewStage(t, s), w = NextStatus(s, stage)
      PROVE  Goal
  <2>1. /\ w.stage = stage /\ w.prefix = s.prefix
        /\ w.retryTimestamp = s.retryTimestamp
        /\ w.phase \in {s.phase, "initializing"}
    BY <1>0, <1>7 DEF NextStatus, Status
  <2>2. CASE IsRetry(t)
    <3>1. Fresh(w)
      BY <1>0, <1>2, <1>7, <2>1, <2>2, NewStageIs DEF Fresh
    <3>2. QED
      BY <1>2, <1>4, <2>1, <2>2, <3>1
  <2>3. CASE ~IsRetry(t)
    <3>1. ASSUME Fresh(c) PROVE w.stage.generation # c.stage.generation
      BY <1>0, <1>2, <1>7, <2>1, <2>3, <3>1, NewStageIs DEF Fresh
    <3>2. Fresh(c) => ~Confirmed(c, w)
      BY <1>0, <3>1, ConfirmedIs
    <3>3. QED
      BY <1>2, <1>3, <2>1, <2>3, <3>2
  <2>4. QED
    BY <2>2, <2>3
<1>8. CASE /\ s.stage.task = RunNil
           /\ \/ s.phase = "running" /\ w = [s EXCEPT !.phase = "completed"]
              \/ s.phase = "deleting" /\ w = [s EXCEPT !.phase = "deleted"]
  <2>1. ~IsRetry(t) /\ ~Fresh(c) /\ w.retryTimestamp = c.retryTimestamp
    BY <1>0, <1>2, <1>8 DEF Fresh, Status
  <2>2. QED
    BY <1>3, <2>1
<1>9. CASE /\ s.stage.state = "in-progress"
           /\ w = [s EXCEPT !.stage.state = "initializing"]
  <2>1. /\ w.retryTimestamp = s.retryTimestamp /\ w.phase = s.phase
        /\ c.phase # "initializing" /\ ~Fresh(c)
    BY <1>0, <1>2, <1>9 DEF Starting, Fresh, Status
  <2>2. IsRetry(t) => ~Confirmed(c, w)
    BY <1>0, <1>2, <2>1, ConfirmedIs
  <2>3. CASE IsRetry(t)
    BY <1>2, <1>4, <2>1, <2>2, <2>3
  <2>4. CASE ~IsRetry(t)
    BY <1>2, <1>3, <2>1, <2>4
  <2>5. QED
    BY <2>3, <2>4
<1>10. CASE /\ s.stage.state # "in-progress"
            /\ checkSetNewStage(t, s) = {}
            /\ w = [s EXCEPT
                      !.stage.state = "in-progress",
                      !.phase = CASE @ = "initializing" -> "running"
                                  [] @ = "initializing-delete" -> "deleting"
                                  [] OTHER -> @]
  <2>1. ~IsRetry(t)
    BY <1>0, <1>10, SameStage
  <2>2. w.retryTimestamp = c.retryTimestamp /\ w.phase # "initializing"
    BY <1>0, <1>2, <1>10, <2>1 DEF Status
  <2>3. Fresh(c) => ~Confirmed(c, w)
    BY <1>0, <2>2, ConfirmedIs DEF Fresh
  <2>4. QED
    BY <1>3, <2>1, <2>2, <2>3
<1>11. ASSUME NEW p \in StagePods(t, s),
              w = [s EXCEPT !.stage.podName = p.uid,
                            !.stage.message = p.phase,
                            !.stage.state = StageState(p.phase)]
       PROVE  Goal
  <2>1. ~IsRetry(t) /\ p.uid # 0
    BY <1>11 DEF StagePods, RetryInv
  <2>2. w.retryTimestamp = c.retryTimestamp /\ w.stage.podName = p.uid
    BY <1>0, <1>2, <1>11, <2>1 DEF Status, Stage
  <2>3. Fresh(c) => ~Confirmed(c, w)
    BY <1>0, <2>1, <2>2, ConfirmedIs DEF Fresh
  <2>4. QED
    BY <1>3, <2>1, <2>2, <2>3
<1>12. QED
  BY <1>5, <1>6, <1>7, <1>8, <1>9, <1>10, <1>11 DEF Decides, Keeps, Moves

LEMMA PrecedesItself ==
    ASSUME NEW a \in Status
    PROVE  Confirmed(a, a) /\ Precedes(a, a)
  BY ConfirmedIs DEF Precedes, Status

LEMMA IdleStarts == /\ Starting(Idle.status) /\ Idle.status.retryTimestamp = 0
                    /\ Idle.pc = "idle" /\ Idle.status = NoStatus
<1>1. /\ NoStage.state = "" /\ NoStage.task = RunNil /\ NoStatus.stage = NoStage
      /\ Idle.status = NoStatus /\ NoStatus.retryTimestamp = 0 /\ Idle.pc = "idle"
      /\ NoStatus.phase = "" /\ ~NoStatus.prefix
  BY DEF NoStage, NoStatus, Idle
<1>2. QED
  BY <1>1 DEF Starting

\* A step that changes neither the cached resource nor a status.
LEMMA RetryLocalStep ==
    ASSUME RetryInv, OrderInv', tf'.status = tf.status, tfCache' = tfCache,
           clock <= clock',
           worker' = worker \/ (worker' = Idle /\ worker.pc # "confirm"),
           \A time \in Nat : OnePodSince(pods, time) => OnePodSince(pods', time),
           \A p \in pods' : p.uid # 0
    PROVE  RetryInv'
<1>0. /\ TypeOK /\ TypeOK'
  BY DEF RetryInv, OrderInv, DestroyInv
<1>1. \A s \in {tf.status, tfCache.status, worker.status} :
        s.retryTimestamp \in Nat /\ clock \in Nat /\ clock' \in Nat
  BY <1>0 DEF TypeOK, Resource, Worker, Status
<1>2. \A s \in {tf'.status, tfCache'.status, worker'.status} :
        Starting(s) /\ s.retryTimestamp <= clock'
  BY <1>1, IdleStarts DEF RetryInv
<1>3. CachePrecedes(tf.status)' <=> CachePrecedes(tf.status)
  BY DEF CachePrecedes
<1>4. /\ OnePodSince(pods', tf'.status.retryTimestamp)
      /\ OnePodSince(pods', tfCache'.status.retryTimestamp)
  BY <1>1 DEF RetryInv
<1>5. CASE worker' = worker
  <2>1. CachePrecedes(worker.status)' <=> CachePrecedes(worker.status)
    BY <1>5 DEF CachePrecedes
  <2>2. worker.pc = "write" => OnePodSince(pods', worker.status.retryTimestamp)
    BY <1>1 DEF RetryInv
  <2>3. QED
    BY <1>2, <1>3, <1>4, <1>5, <2>1, <2>2 DEF RetryInv
<1>6. CASE worker' = Idle /\ worker.pc # "confirm"
  BY <1>2, <1>3, <1>4, <1>6, IdleStarts DEF RetryInv
<1>7. QED
  BY <1>5, <1>6

\* The cache catches up.
LEMMA RetrySyncStep ==
    ASSUME RetryInv, OrderInv', UNCHANGED <<tf, pods, clock>>, tfCache' = tf,
           worker' = worker \/ worker' = Idle
    PROVE  RetryInv'
<1>0. tf.status \in Status /\ clock \in Nat
  BY DEF RetryInv, OrderInv, DestroyInv, TypeOK, Resource
<1>1. Confirmed(tf.status, tf.status) /\ Precedes(tf.status, tf.status)
  BY <1>0, PrecedesItself
<1>2. \A s \in {tf'.status, tfCache'.status, worker'.status} :
        Starting(s) /\ s.retryTimestamp <= clock'
  BY <1>0, IdleStarts DEF RetryInv
<1>3. Precedes(tf.status, tf.status) => CachePrecedes(tf.status)'
  BY DEF CachePrecedes, Precedes
<1>4. worker' = worker /\ Precedes(tf.status, worker.status) => CachePrecedes(worker.status)'
  BY DEF CachePrecedes, Precedes
<1>5. CASE worker' = worker
  BY <1>1, <1>2, <1>3, <1>4, <1>5 DEF RetryInv
<1>6. CASE worker' = Idle
  BY <1>1, <1>2, <1>3, <1>6, IdleStarts DEF RetryInv
<1>7. QED
  BY <1>5, <1>6

\* The pod that is started is the only one of its task since the retry that the
\* cache shows: the list would have held another.
LEMMA StartIsFirst ==
    ASSUME OrderInv, podCache = pods, StartTask,
           NEW time \in Nat, tfCache.status.retryTimestamp <= time,
           OnePodSince(pods, time)
    PROVE  OnePodSince(pods', time)
<1> DEFINE t == tfCache
           s == Intake(t)
           new == NewPod(t, s.stage)
<1>0. /\ t \in Resource /\ pods \subseteq Pod /\ clock \in Nat
      /\ \A p \in pods : p.version = p.generation /\ p.created \in Nat
      /\ t.status.retryTimestamp \in Nat
  BY DEF OrderInv, DestroyInv, TypeOK, SoundPod, Pod, Resource, Status
<1>1. ~IsRetry(t) /\ StagePods(t, s) = {}
  BY <1>0, SameStage DEF StartTask, TakesSameStage
<1>2. s.retryTimestamp = t.status.retryTimestamp
  BY <1>0, <1>1, IntakeIs
<1>3. \A p \in pods : p.created >= time =>
         ~ (p.generation = s.stage.generation /\ p.task = s.stage.task)
  BY <1>0, <1>1, <1>2 DEF StagePods
<1>4. new.generation = s.stage.generation /\ new.task = s.stage.task
  BY DEF NewPod
<1>5. pods' = pods \/ pods' = pods \union {new}
  BY DEF StartTask
<1> HIDE DEF new
<1>6. QED
  BY <1>3, <1>4, <1>5 DEF OnePodSince

LEMMA RetryReconcile ==
    ASSUME MaxGiveUps = 0, RetryInv, podCache = pods, OrderInv', Reconcile
    PROVE  RetryInv'
<1> USE DEF cluster, caches, bounds, history
<1>0. /\ TypeOK /\ TypeOK' /\ tf.status \in Status /\ tfCache.status \in Status
      /\ worker.status \in Status /\ worker'.status \in Status
      /\ tfCache.status.retryTimestamp \in Nat /\ tf.status.retryTimestamp \in Nat
      /\ clock \in Nat
  BY DEF RetryInv, OrderInv, DestroyInv, TypeOK, Resource, Worker, Status
<1>1. /\ tf'.status = tf.status \/ WriteStatus
      /\ tfCache' = tfCache /\ clock' = clock
      /\ pods' \subseteq pods \/ StartTask
  BY <1>0 DEF Reconcile, ReconcileNotFound, ReconcileDeleted, ReconcileFinalizer,
              UpdateFinalizer, InitializeResource, AddFirstStage, SetNewStage,
              FinishWorkflow, ListFails, LosePod, StartTask, ObservePod,
              WriteStatus, WriteStatusFails, ConfirmStatus, GiveUp, DeleteCompletedPod,
              TypeOK, Resource
<1>2. \A p \in pods' : p.uid # 0
  <2>1. CASE pods' \subseteq pods
    BY <2>1 DEF RetryInv
  <2>2. CASE StartTask
    <3> DEFINE new == NewPod(tfCache, Intake(tfCache).stage)
    <3>1. pods' = pods \/ pods' = pods \union {new}
      BY <2>2 DEF StartTask
    <3>2. new.uid = podsCreated + 1 /\ podsCreated \in Nat
      BY <1>0 DEF NewPod, TypeOK
    <3> HIDE DEF new
    <3>3. new.uid # 0
      BY <3>2
    <3>4. QED
      BY <3>1, <3>3 DEF RetryInv
  <2>3. QED
    BY <1>1, <2>1, <2>2
<1>3. CASE WriteStatus
  <2>1. /\ tf'.status = worker.status /\ worker'.status = worker.status
        /\ worker.pc = "write" /\ worker'.pc = "confirm"
        /\ pods' = pods /\ tfCache' = tfCache /\ clock' = clock
    BY <1>0, <1>3 DEF WriteStatus, TypeOK, Resource, Worker
  <2>2. CachePrecedes(worker.status)' <=> CachePrecedes(worker.status)
    BY <2>1 DEF CachePrecedes
  <2>3. QED
    BY <2>1, <2>2 DEF RetryInv
<1>4. CASE ConfirmStatus
  <2>1. /\ worker.pc = "confirm" /\ worker.status = tf.status
        /\ UNCHANGED <<tf, tfCache, pods, clock>>
        /\ worker'.pc \in {"idle", "deletePod"}
        /\ worker'.status \in {worker.status, Idle.status}
        /\ tfCache.exists => Confirmed(tfCache.status, worker.status)
    BY <1>0, <1>4
       DEF ConfirmStatus, Written, NotWritten, RetryInv, TypeOK, Worker, Idle
  <2>2. CachePrecedes(tf.status)' <=> CachePrecedes(worker.status)
    BY <2>1 DEF CachePrecedes
  <2>3. \A s \in {tf'.status, tfCache'.status, worker'.status} :
           Starting(s) /\ s.retryTimestamp <= clock'
    BY <1>0, <2>1, IdleStarts DEF RetryInv
  <2>4. QED
    BY <2>1, <2>2, <2>3 DEF RetryInv
<1>5. CASE worker.pc = "idle" /\ worker' # Idle
  <2> DEFINE w == worker'.status
  <2>1. /\ tfCache.exists /\ worker'.pc = "write" /\ Decides(w)
        /\ UNCHANGED <<tf, tfCache, clock>>
    BY <1>5, Decision DEF Decides
  <2> HIDE DEF w
  <2>2. /\ CachePrecedes(w) /\ Precedes(tf.status, w)
        /\ OnePodSince(pods, w.retryTimestamp) /\ w.retryTimestamp <= clock
        /\ w.retryTimestamp = tfCache.status.retryTimestamp \/ IsRetry(tfCache)
        /\ Starting(w)
    BY <1>0, <1>5, <2>1, DecidedPrecedes, DecidedIsStarting DEF w
  <2>3. CachePrecedes(worker.status)' /\ CachePrecedes(tf.status)'
    BY <1>5, <2>1, <2>2 DEF RetryInv, CachePrecedes, w
  <2>4. tfCache.status.retryTimestamp <= tf.status.retryTimestamp
    BY <1>0, <1>5, <2>1 DEF RetryInv, CachePrecedes, Precedes
  <2>5. \A time \in {tf.status.retryTimestamp, tfCache.status.retryTimestamp,
                     w.retryTimestamp} : OnePodSince(pods', time)
    <3>1. \A time \in {tf.status.retryTimestamp, tfCache.status.retryTimestamp,
                       w.retryTimestamp} : OnePodSince(pods, time)
      BY <2>2 DEF RetryInv
    <3>2. CASE pods' \subseteq pods
      BY <3>1, <3>2 DEF OnePodSince
    <3>3. CASE StartTask
      <4>1. ~IsRetry(tfCache)
        BY <1>0, <3>3, SameStage DEF StartTask, TakesSameStage, TypeOK
      <4>2. \A time \in {tf.status.retryTimestamp, tfCache.status.retryTimestamp,
                         w.retryTimestamp} :
               time \in Nat /\ tfCache.status.retryTimestamp <= time
        BY <1>0, <2>2, <2>4, <4>1
      <4>3. OrderInv
        BY DEF RetryInv
      <4>4. QED
        BY <3>1, <3>3, <4>2, <4>3, StartIsFirst
    <3>4. QED
      BY <1>1, <3>2, <3>3
  <2>6. QED
    BY <1>2, <1>5, <2>1, <2>2, <2>3, <2>5 DEF RetryInv, w
<1>6. CASE WriteStatusFails \/ DeleteCompletedPod \/ (worker.pc = "idle" /\ worker' = Idle)
  <2>1. worker' = Idle /\ worker.pc # "confirm" /\ tf'.status = tf.status
    BY <1>1, <1>6 DEF WriteStatusFails, DeleteCompletedPod, WriteStatus
  <2>2. ASSUME NEW time \in Nat, OnePodSince(pods, time) PROVE OnePodSince(pods', time)
    <3>1. CASE pods' \subseteq pods
      BY <2>2, <3>1 DEF OnePodSince
    <3>2. CASE StartTask
      <4>1. pods' = pods
        BY <2>1, <3>2 DEF StartTask, Save, Idle
      <4>2. QED
        BY <2>2, <4>1
    <3>3. QED
      BY <1>1, <3>1, <3>2
  <2>3. QED
    BY <1>0, <1>1, <1>2, <2>1, <2>2, RetryLocalStep
<1>7. ~GiveUp
  <2>1. used["giveUps"] \in Nat
    BY <1>0 DEF TypeOK, Counters
  <2>2. ~ (used["giveUps"] < MaxGiveUps)
    BY <2>1
  <2>3. QED
    BY <2>2 DEF GiveUp, Uses
<1>8. worker.pc = "idle" \/ WriteStatus \/ WriteStatusFails \/ ConfirmStatus \/ DeleteCompletedPod
  BY <1>7 DEF Reconcile, ReconcileNotFound, ReconcileDeleted, ReconcileFinalizer,
         InitializeResource, AddFirstStage, SetNewStage, FinishWorkflow, ListFails,
         LosePod, StartTask, ObservePod, TakesSameStage, TakesStaged,
         TakesFinalized, Takes
<1>9. QED
  BY <1>3, <1>4, <1>5, <1>6, <1>8

LEMMA RetryNext ==
    ASSUME PodWatchLag = FALSE, MaxGiveUps = 0, RetryInv, [Next]_vars
    PROVE  RetryInv'
<1> USE DEF cluster, caches, bounds, history
<1>0. OrderInv' /\ TypeOK /\ TypeOK' /\ clock \in Nat
  BY OrderNext DEF RetryInv, OrderInv, DestroyInv, TypeOK
<1>t. clock' \in Nat
  BY <1>0 DEF TypeOK
<1>1. CASE Reconcile /\ PodsKnown
  BY <1>0, <1>1, RetryReconcile DEF PodsKnown
<1>2. ASSUME tf'.status = tf.status, UNCHANGED <<tfCache, worker>>, clock <= clock',
             pods' \subseteq pods
      PROVE  RetryInv'
  <2>1. /\ \A time \in Nat : OnePodSince(pods, time) => OnePodSince(pods', time)
        /\ \A p \in pods' : p.uid # 0
    BY <1>2 DEF OnePodSince, RetryInv
  <2>2. tfCache' = tfCache /\ worker' = worker
    BY <1>2
  <2>3. QED
    BY <1>0, <1>t, <1>2, <2>1, <2>2, RetryLocalStep
<1>3. CASE Reap
  BY <1>0, <1>2, <1>3 DEF Reap, ReaperReads, ReaperDeletesPods, ReaperListsPods,
                          ReaperCleansUp, ReaperFails
<1>4. CASE User \/ GarbageCollect \/ Tick \/ SyncPods
  <2>1. tf'.status = tf.status /\ UNCHANGED <<tfCache, worker>> /\ pods' \subseteq pods
    BY <1>0, <1>4 DEF User, UserUpdatesSpec, UserDeletes, UserRelabels,
                      UserDeletesPod, GarbageCollect, Tick, SyncPods, TypeOK, Resource
  <2>2. clock <= clock'
    <3>1. clock' = clock \/ Tick
      BY <1>4 DEF User, UserUpdatesSpec, UserDeletes, UserRelabels,
                  UserDeletesPod, GarbageCollect, SyncPods
    <3>2. clock' \in {clock, clock + 1}
      BY <3>1 DEF Tick
    <3>3. QED
      BY <1>0, <3>2
  <2>3. QED
    BY <1>2, <2>1, <2>2
<1>5. CASE PodRuns \/ PodSucceeds \/ PodFails
  <2>1. PICK phase \in PodPhase, p \in pods :
          pods' = (pods \ {p}) \union {[p EXCEPT !.phase = phase]}
    BY <1>5 DEF PodRuns, PodSucceeds, PodFails, PodPhase
  <2> DEFINE new == [p EXCEPT !.phase = phase]
  <2>2. /\ new.generation = p.generation /\ new.task = p.task
        /\ new.created = p.created /\ new.uid = p.uid
    BY <1>0 DEF TypeOK, Pod
  <2>3. /\ tf'.status = tf.status /\ tfCache' = tfCache /\ worker' = worker
        /\ clock' = clock
    BY <1>5 DEF PodRuns, PodSucceeds, PodFails
  <2>4. pods' = (pods \ {p}) \union {new}
    BY <2>1
  <2> HIDE DEF new
  <2>5. /\ \A time \in Nat : OnePodSince(pods, time) => OnePodSince(pods', time)
        /\ \A q \in pods' : q.uid # 0
    BY <2>2, <2>4 DEF RetryInv, OnePodSince
  <2>6. clock <= clock'
    BY <1>0, <2>3
  <2>7. QED
    BY <1>0, <1>t, <2>3, <2>5, <2>6, RetryLocalStep
<1>6. CASE SyncResource \/ Crash
  <2>1. /\ UNCHANGED <<tf, pods, clock>> /\ tfCache' = tf
        /\ worker' = worker \/ worker' = Idle
    BY <1>6 DEF SyncResource, Crash
  <2>2. QED
    BY <1>0, <2>1, RetrySyncStep
<1>7. CASE UNCHANGED vars
  BY <1>0, <1>2, <1>7 DEF vars
<1>8. QED
  BY <1>1, <1>3, <1>4, <1>5, <1>6, <1>7 DEF Next, Environment

LEMMA RetryInit == Init => RetryInv
<1> SUFFICES ASSUME Init PROVE RetryInv
  OBVIOUS
<1>1. /\ tf.status = NoStatus /\ tfCache = tf /\ worker = Idle
      /\ pods = {} /\ clock = 0
  BY DEF Init, NewResource
<1>2. Confirmed(NoStatus, NoStatus) /\ Precedes(NoStatus, NoStatus)
  BY ConstantTypes, PrecedesItself
<1>3. CachePrecedes(tf.status)
  BY <1>1, <1>2 DEF CachePrecedes
<1>4. QED
  BY <1>1, <1>2, <1>3, OrderInit, IdleStarts DEF RetryInv, OnePodSince

\* Without retries: no task has a second pod, whichever version a reconcile reads.
OnceInv ==
    /\ OrderInv
    /\ \A s \in {tf.status, tfCache.status, worker.status} : s.retryTimestamp = 0
    /\ OnePodSince(pods, 0)
    /\ \A p \in pods : p.uid # 0

LEMMA OnceInit == Init => OnceInv
<1> SUFFICES ASSUME Init PROVE OnceInv
  OBVIOUS
<1>1. /\ tf.status = NoStatus /\ tfCache = tf /\ worker.status = NoStatus
      /\ pods = {}
  BY DEF Init, NewResource, Idle
<1>2. NoStatus.retryTimestamp = 0
  BY DEF NoStatus
<1>3. QED
  BY <1>1, <1>2, OrderInit DEF OnceInv, OnePodSince

\* Only a retry changes the time of the last one.
LEMMA DecidedKeepsTime ==
    ASSUME TypeOK, ~IsRetry(tfCache), NEW w \in Status, Decides(w)
    PROVE  w.retryTimestamp = tfCache.status.retryTimestamp
<1> DEFINE t == tfCache
           s == Intake(t)
<1>0. /\ t.status \in Status /\ s \in Status
      /\ s.retryTimestamp = t.status.retryTimestamp
  BY IntakeIs, IntakeType DEF TypeOK, Resource
<1>1. CASE Moves(w)
  <2>1. PICK stage \in checkSetNewStage(t, s) : w = NextStatus(s, stage)
    BY <1>1 DEF Moves
  <2>2. QED
    BY <1>0, <2>1 DEF NextStatus, Status
<1>2. CASE Keeps(w)
  <2>1. CASE \/ w = [t.status EXCEPT !.prefix = TRUE, !.phase = "initializing"]
             \/ w = [t.status EXCEPT
                       !.stage = newStage(t, "setup", "TF_RESOURCE_CREATED",
                                          FALSE, "initializing")]
             \/ w = [s EXCEPT !.phase = "completed"]
             \/ w = [s EXCEPT !.phase = "deleted"]
             \/ w = [s EXCEPT !.stage.state = "initializing"]
    BY <1>0, <2>1 DEF Status
  <2>2. CASE w = [s EXCEPT
                    !.stage.state = "in-progress",
                    !.phase = CASE @ = "initializing" -> "running"
                                [] @ = "initializing-delete" -> "deleting"
                                [] OTHER -> @]
    BY <1>0, <2>2 DEF Status
  <2>3. ASSUME NEW p \in StagePods(t, s),
               w = [s EXCEPT !.stage.podName = p.uid,
                             !.stage.message = p.phase,
                             !.stage.state = StageState(p.phase)]
        PROVE  w.retryTimestamp = t.status.retryTimestamp
    BY <1>0, <2>3 DEF Status
  <2>4. QED
    BY <1>2, <2>1, <2>2, <2>3 DEF Keeps
<1>3. QED
  BY <1>1, <1>2 DEF Decides

\* A reconcile writes what it decided; nothing else makes a status.
LEMMA StatusesStep ==
    ASSUME TypeOK, [Next]_vars
    PROVE  /\ tf'.status \in {tf.status, worker.status}
           /\ tfCache'.status \in {tfCache.status, tf.status}
           /\ \/ worker'.status \in {worker.status, NoStatus}
              \/ tfCache.exists /\ Decides(worker'.status)
<1> USE DEF cluster, caches, bounds, history
<1>1. CASE Reconcile
  <2>1. tf'.status \in {tf.status, worker.status} /\ UNCHANGED tfCache
    BY <1>1 DEF Reconcile, ReconcileNotFound, ReconcileDeleted, ReconcileFinalizer,
                UpdateFinalizer, InitializeResource, AddFirstStage, SetNewStage,
                FinishWorkflow, ListFails, LosePod, StartTask, ObservePod,
                WriteStatus, WriteStatusFails, ConfirmStatus, GiveUp,
                DeleteCompletedPod, TypeOK, Resource
  <2>2. CASE worker.pc = "idle" /\ worker' # Idle
    BY <1>1, <2>1, <2>2, Decision DEF Decides
  <2>3. CASE worker' = Idle
    BY <2>1, <2>3 DEF Idle
  <2>4. CASE worker.pc # "idle"
    <3>1. \/ WriteStatus \/ WriteStatusFails \/ ConfirmStatus \/ GiveUp
          \/ DeleteCompletedPod
      BY <1>1, <2>4
         DEF Reconcile, ReconcileNotFound, ReconcileDeleted, ReconcileFinalizer,
             InitializeResource, AddFirstStage, SetNewStage, FinishWorkflow,
             ListFails, LosePod, StartTask, ObservePod, TakesSameStage,
             TakesStaged, TakesFinalized, Takes
    <3>2. worker' = Idle \/ worker'.status = worker.status
      BY <3>1 DEF WriteStatus, WriteStatusFails, ConfirmStatus, GiveUp, Written,
                  NotWritten, DeleteCompletedPod, TypeOK, Worker
    <3>3. QED
      BY <2>1, <2>3, <3>2
  <2>5. QED
    BY <2>2, <2>3, <2>4
<1>2. CASE ~Reconcile
  <2>1. tf'.status = tf.status
    BY <1>2 DEF Next, User, Environment, Reap, ReaperReads, ReaperDeletesPods,
                ReaperListsPods, ReaperCleansUp, ReaperFails, UserUpdatesSpec,
                UserDeletes, UserRelabels, UserDeletesPod, GarbageCollect, Tick,
                PodRuns, PodSucceeds, PodFails, SyncResource, SyncPods, Crash,
                vars, TypeOK, Resource
  <2>2. /\ tfCache' \in {tfCache, tf}
        /\ worker' \in {worker, Idle}
    BY <1>2 DEF Next, User, Environment, Reap, ReaperReads, ReaperDeletesPods,
                ReaperListsPods, ReaperCleansUp, ReaperFails, UserUpdatesSpec,
                UserDeletes, UserRelabels, UserDeletesPod, GarbageCollect, Tick,
                PodRuns, PodSucceeds, PodFails, SyncResource, SyncPods, Crash,
                vars
  <2>3. QED
    BY <2>1, <2>2 DEF Idle
<1>3. QED
  BY <1>1, <1>2

\* Pods are deleted, or one changes its phase, or a task is started.
LEMMA PodsStep ==
    ASSUME TypeOK, [Next]_vars
    PROVE  \/ pods' \subseteq pods
           \/ StartTask /\ PodsKnown
           \/ \E p \in pods, phase \in PodPhase :
                pods' = (pods \ {p}) \union {[p EXCEPT !.phase = phase]}
<1> USE DEF cluster, caches, bounds, history
<1>1. CASE PodRuns \/ PodSucceeds \/ PodFails
  BY <1>1 DEF PodRuns, PodSucceeds, PodFails, PodPhase
<1>2. CASE StartTask /\ PodsKnown
  BY <1>2
<1>3. CASE Reconcile /\ ~StartTask
  BY <1>3 DEF Reconcile, ReconcileNotFound, ReconcileDeleted, ReconcileFinalizer,
              InitializeResource, AddFirstStage, SetNewStage, FinishWorkflow,
              ListFails, LosePod, ObservePod, WriteStatus, WriteStatusFails,
              ConfirmStatus, GiveUp, DeleteCompletedPod
<1>4. CASE Reap \/ User \/ GarbageCollect \/ Tick \/ SyncResource \/ Crash \/ SyncPods
           \/ UNCHANGED vars
  BY <1>4 DEF Reap, ReaperReads, ReaperDeletesPods, ReaperListsPods,
              ReaperCleansUp, ReaperFails, User, UserUpdatesSpec, UserDeletes,
              UserRelabels, UserDeletesPod, GarbageCollect, Tick, SyncResource,
              Crash, SyncPods, vars
<1>5. QED
  BY <1>1, <1>2, <1>3, <1>4 DEF Next, Environment, Reconcile

LEMMA OnceNext ==
    ASSUME Labels = {}, PodWatchLag = FALSE, OnceInv, [Next]_vars
    PROVE  OnceInv'
<1>0. /\ OrderInv' /\ TypeOK /\ TypeOK' /\ tfCache \in Resource /\ clock \in Nat
      /\ podsCreated \in Nat /\ tfCache.status.retryTimestamp = 0
  BY OrderNext DEF OnceInv, OrderInv, DestroyInv, TypeOK
<1>1. ~IsRetry(tfCache)
  BY <1>0 DEF IsRetry, Resource
<1>2. \A s \in {tf'.status, tfCache'.status, worker'.status} : s.retryTimestamp = 0
  <2>1. NoStatus.retryTimestamp = 0 /\ worker'.status \in Status
    BY <1>0 DEF NoStatus, TypeOK, Worker
  <2>2. worker'.status.retryTimestamp = 0
    BY <1>0, <1>1, <2>1, StatusesStep, DecidedKeepsTime DEF OnceInv
  <2>3. QED
    BY <1>0, <2>2, StatusesStep DEF OnceInv
<1>3. OnePodSince(pods', 0) /\ \A p \in pods' : p.uid # 0
  <2>1. CASE pods' \subseteq pods
    BY <2>1 DEF OnceInv, OnePodSince
  <2>2. CASE StartTask /\ PodsKnown
    <3> DEFINE new == NewPod(tfCache, Intake(tfCache).stage)
    <3>1. new.uid = podsCreated + 1 /\ (pods' = pods \/ pods' = pods \union {new})
      BY <2>2 DEF NewPod, StartTask
    <3> HIDE DEF new
    <3>2. \A p \in pods' : p.uid # 0
      BY <1>0, <3>1 DEF OnceInv
    <3>3. tfCache.status.retryTimestamp <= 0 /\ podCache = pods
      BY <1>0, <2>2 DEF PodsKnown
    <3>4. OnePodSince(pods', 0)
      BY <2>2, <3>3, StartIsFirst DEF OnceInv
    <3>5. QED
      BY <3>2, <3>4
  <2>3. ASSUME NEW p \in pods, NEW phase \in PodPhase,
               pods' = (pods \ {p}) \union {[p EXCEPT !.phase = phase]}
        PROVE  OnePodSince(pods', 0) /\ \A q \in pods' : q.uid # 0
    <3> DEFINE new == [p EXCEPT !.phase = phase]
    <3>1. /\ new.generation = p.generation /\ new.task = p.task
          /\ new.created = p.created /\ new.uid = p.uid
      BY <1>0 DEF TypeOK, Pod
    <3>2. pods' = (pods \ {p}) \union {new}
      BY <2>3
    <3> HIDE DEF new
    <3>3. QED
      BY <3>1, <3>2 DEF OnceInv, OnePodSince
  <2>4. QED
    BY <1>0, <2>1, <2>2, <2>3, PodsStep
<1>4. QED
  BY <1>0, <1>2, <1>3 DEF OnceInv

\* When the pod watch is not late a task of a generation never has two live pods
\* since the last retry: after a crash or a failed write between the creation of
\* the pod and the status, and where a cache that is behind shows an older retry;
\* with retries, as long as updateStatusWithRetry does not give up its
\* confirmation, and without them whatever it gives up
\* (tf_controller.go:751-776, 856-990, 1764-1831).
THEOREM OnePodAtATime ==
    ASSUME PodWatchLag = FALSE, Labels = {} \/ MaxGiveUps = 0
    PROVE  Spec => []OneLivePodPerTask
<1>1. CASE MaxGiveUps = 0
  <2>1. RetryInv /\ [Next]_vars => RetryInv'
    BY <1>1, RetryNext
  <2>2. RetryInv => OneLivePodPerTask
    BY DEF RetryInv, OnePodSince, OneLivePodPerTask
  <2>3. QED
    BY <2>1, <2>2, RetryInit, PTL DEF Spec
<1>2. CASE Labels = {}
  <2>1. OnceInv /\ [Next]_vars => OnceInv'
    BY <1>2, OnceNext
  <2>2. OnceInv => OneLivePodPerTask
    BY DEF OnceInv, OnePodSince, OneLivePodPerTask
  <2>3. QED
    BY <2>1, <2>2, OnceInit, PTL DEF Spec
<1>3. QED
  BY <1>1, <1>2

-----------------------------------------------------------------------------
(***************************************************************************)
(* An apply that the cache has shown as failed is not tried again before   *)
(* there is a new plan, when no user asks for a retry and the pod watch is *)
(* not late, whatever confirmations are given up.                          *)
(*                                                                         *)
(* What a stage of the generation of such an apply must then be is what    *)
(* Awaits says: the failed apply itself, or a task up to the plan, and the *)
(* plan is not complete.  That no plan completes without its pod having    *)
(* succeeded since, NoPlan, needs the old pod of the plan to be gone: the  *)
(* restart deletes it.  That the failed apply is not started again while   *)
(* its pod is there needs the stage to name the pod, Linked.               *)
(***************************************************************************)
Applies == {"apply", "apply-delete"}

PlanOf(a) == IF a = "apply" THEN "plan" ELSE "plan-delete"

\* The message is the phase of the pod that the state was taken from.
Told(stage) ==
    /\ stage.task \in Applies => (stage.state = "failed" <=> stage.message = "Failed")
    /\ stage.task # RunNil => (stage.state = "complete" <=> stage.message = "Succeeded")

\* The pod that the stage names is the stage's, and it has failed if it is said
\* to have; n pods have been created.
Linked(stage, S, n) ==
    /\ stage.podName <= n
    /\ \A p \in S : p.uid = stage.podName =>
         /\ p.generation = stage.generation /\ p.task = stage.task
         /\ stage.message = "Failed" => p.phase = "Failed"

\* The plan for the apply a is still to come.
Planning(stage, a) ==
    /\ stage.task \in Task
    /\ ID[stage.task] <= ID[PlanOf(a)]
    /\ ~ (stage.task = PlanOf(a) /\ stage.state = "complete")

\* The stage is of the workflow that the failed apply r belongs to.
Concerns(r, stage) == stage.generation = r[1] /\ stage.task \in Family(r[2])

Awaits(stage, R) ==
    \A r \in R : Concerns(r, stage) =>
      \/ stage.task = r[2] /\ stage.state = "failed"
      \/ Planning(stage, r[2])

NoPlan(stage, R, S) ==
    \A r \in R : Concerns(r, stage) =>
      \/ stage.task = r[2]
      \/ \A p \in S : p.generation = r[1] /\ p.task = PlanOf(r[2])
                      => p.phase # "Succeeded"

\* What the plans that are still to come say of a version of the stage.
Owed(stage, R, S) ==
    /\ Awaits(stage, R) /\ NoPlan(stage, R, S)
    /\ \A r \in R : r[1] <= stage.generation

PlanInv ==
    /\ OnceInv /\ ForwardInv
    /\ \A p \in pods : p.uid <= podsCreated
    /\ \A p, q \in pods : p.uid = q.uid => p = q
    /\ \A s \in {tf.status, tfCache.status, worker.status} :
         Told(s.stage) /\ Linked(s.stage, pods, podsCreated)
    /\ \A r \in replan : r[2] \in Applies
    /\ Owed(tf.status.stage, replan, pods)
    /\ Owed(tfCache.status.stage, replan, pods)
    /\ worker.pc = "write" => Owed(worker.status.stage, replan, pods)

LEMMA Plans ==
    ASSUME NEW a \in Applies
    PROVE  /\ a \in Task /\ a \in Family(a)
           /\ PlanOf(a) \in Family(a) /\ PlanOf(a) \in ConfiguredTasks
           /\ PlanOf(a) \in Task /\ ID[PlanOf(a)] < ID[a] /\ ID[a] \in Nat
           /\ RunNil \notin Family(a) /\ PlanOf(a) \notin Applies
           /\ \A b \in Applies : b \in Family(a) => b = a
  BY IDs DEF Applies, PlanOf, Family, Task, CreateTask, DeleteTask,
             ConfiguredTasks, DefaultTasks, RunNil

\* The task after one before the plan is not past the plan.
LEMMA NextIsPlanning ==
    ASSUME NEW a \in Applies, NEW t \in Task, ID[t] < ID[PlanOf(a)],
           nextTask(t, ConfiguredTasks) \in Family(a)
    PROVE  /\ nextTask(t, ConfiguredTasks) \in Task
           /\ ID[nextTask(t, ConfiguredTasks)] <= ID[PlanOf(a)]
           /\ t \in Family(a)
<1> DEFINE n == nextTask(t, ConfiguredTasks)
<1> HIDE DEF n
<1>1. n \in Later(t, ConfiguredTasks)
      /\ \A v \in Later(t, ConfiguredTasks) : ID[n] <= ID[v]
  BY Configured, NextTaskIsLater, Plans DEF n, TaskName
<1>2. n \in Family(t) /\ n \in Family(a)
  BY <1>1 DEF Later, n
<1>3. Family(t) = Family(a) /\ n \in Task
  BY <1>2, Plans, FamilyOf
<1>4. PlanOf(a) \in Later(t, ConfiguredTasks)
  BY <1>3, Plans, IDIsNatural DEF Later
<1>5. t \in Family(t)
  BY DEF Family, Task
<1>6. QED
  BY <1>1, <1>3, <1>4, <1>5 DEF n

\* The state of a stage is that of the pod it was told of.
LEMMA SameStageAwaits ==
    ASSUME NEW a \in Stage, NEW b \in Stage, NEW R, NEW S,
           \A r \in R : r[2] \in Applies,
           a.generation = b.generation, a.task = b.task
    PROVE  /\ NoPlan(a, R, S) => NoPlan(b, R, S)
           /\ a.message = b.message /\ Told(a) /\ Told(b) /\ Awaits(a, R) =>
                Awaits(b, R)
<1>1. \A r \in R : Concerns(r, a) <=> Concerns(r, b)
  BY DEF Concerns
<1>2. NoPlan(a, R, S) => NoPlan(b, R, S)
  BY <1>1 DEF NoPlan
<1>3. ASSUME a.message = b.message, Told(a), Told(b), Awaits(a, R),
             NEW r \in R, Concerns(r, b)
      PROVE  \/ b.task = r[2] /\ b.state = "failed"
             \/ Planning(b, r[2])
  <2>1. r[2] \in Applies
    BY <1>3
  <2>2. \/ a.task = r[2] /\ a.state = "failed"
        \/ Planning(a, r[2])
    BY <1>1, <1>3 DEF Awaits
  <2>3. RunNil \notin Task
    BY DEF RunNil, Task, CreateTask, DeleteTask
  <2>4. QED
    BY <1>3, <2>1, <2>2, <2>3 DEF Told, Planning
<1>4. QED
  BY <1>2, <1>3 DEF Awaits

\* What a reconcile starts from.
LEMMA PlanIntake ==
    ASSUME Labels = {}, PlanInv, worker.pc = "idle", tfCache.exists
    PROVE  LET t == tfCache
               s == Intake(t)
           IN  /\ TypeOK /\ t \in Resource /\ t.status \in Status /\ s \in Status
               /\ s.stage \in Stage /\ s.stage = t.status.stage /\ ~IsRetry(t)
               /\ s.retryTimestamp = 0
               /\ Told(s.stage) /\ Linked(s.stage, pods, podsCreated)
               /\ Awaits(s.stage, replan) /\ NoPlan(s.stage, replan, pods)
               /\ t.generation \in Nat /\ s.stage.generation <= t.generation
               /\ t.generation # 0
               /\ \A r \in replan : /\ r[2] \in Applies /\ r[1] \in Nat
                                    /\ r[1] <= s.stage.generation
<1> DEFINE t == tfCache
           s == Intake(t)
<1>1. /\ TypeOK /\ t \in Resource /\ t.status \in Status /\ s \in Status
      /\ s.stage \in Stage /\ replan \subseteq Nat \X Task
  BY IntakeType DEF PlanInv, ForwardInv, TypeOK, Resource, Status
<1>2. ~IsRetry(t)
  BY <1>1 DEF IsRetry, Resource
<1>3. /\ s.stage = t.status.stage
      /\ s.retryTimestamp = t.status.retryTimestamp
  BY <1>1, <1>2, IntakeIs
<1>4. t.generation \in Nat /\ s.stage.generation <= t.generation /\ t.generation # 0
  BY <1>1, <1>3 DEF PlanInv, ForwardInv, Reached, Resource
<1>5. \A r \in replan : r[2] \in Applies /\ r[1] \in Nat /\ r[1] <= s.stage.generation
  BY <1>1, <1>3 DEF PlanInv, Owed
<1>6. /\ Told(s.stage) /\ Linked(s.stage, pods, podsCreated)
      /\ Awaits(s.stage, replan) /\ NoPlan(s.stage, replan, pods)
      /\ s.retryTimestamp = 0
  BY <1>3 DEF PlanInv, OnceInv, Owed
<1>7. QED
  BY <1>1, <1>2, <1>3, <1>4, <1>5, <1>6

\* The reconcile that keeps a failed apply has found its pod.
LEMMA FailedIsListed ==
    ASSUME Labels = {}, PlanInv, podCache = pods, worker.pc = "idle",
           tfCache.exists, NEW s, s = Intake(tfCache),
           checkSetNewStage(tfCache, s) = {},
           s.stage.task \in Applies, s.stage.state = "failed"
    PROVE  \E p \in StagePods(tfCache, s) :
              p.uid = s.stage.podName /\ p.phase = "Failed"
<1>1. PICK p \in pods : p.uid = s.stage.podName
  BY DEF checkSetNewStage, Blocked, Applies
<1>2. /\ TypeOK /\ ~IsRetry(tfCache) /\ s.retryTimestamp = 0
      /\ Told(s.stage) /\ Linked(s.stage, pods, podsCreated)
  BY PlanIntake
<1>3. p.generation = s.stage.generation /\ p.task = s.stage.task /\ p.phase = "Failed"
  BY <1>1, <1>2 DEF Linked, Told
<1>4. p.version = p.generation /\ p.created \in Nat
  BY <1>1, <1>2 DEF PlanInv, OnceInv, OrderInv, SoundPod, TypeOK, Pod
<1>5. p \in StagePods(tfCache, s)
  BY <1>1, <1>2, <1>3, <1>4 DEF StagePods
<1>6. QED
  BY <1>1, <1>3, <1>5

\* The new stages.
LEMMA NewStagePlans ==
    ASSUME Labels = {}, PlanInv, worker.pc = "idle", tfCache.exists,
           NEW s, s = Intake(tfCache), NEW stage \in checkSetNewStage(tfCache, s)
    PROVE  /\ Told(stage) /\ stage.podName = 0 /\ Awaits(stage, replan)
           /\ \A r \in replan : r[1] <= stage.generation
           /\ IF stage.reason \in {"RESTARTED_WORKFLOW", "RESTARTED_DELETE_WORKFLOW"}
              THEN NoPlan(stage, replan, pods \ OldPlanPods(tfCache, s.stage.reason))
              ELSE NoPlan(stage, replan, pods)
<1> DEFINE t == tfCache
           S == pods \ OldPlanPods(tfCache, s.stage.reason)
<1>0. /\ TypeOK /\ t \in Resource /\ s \in Status
      /\ s.stage \in Stage /\ ~IsRetry(t)
      /\ Told(s.stage) /\ Awaits(s.stage, replan) /\ NoPlan(s.stage, replan, pods)
      /\ t.generation \in Nat /\ s.stage.generation <= t.generation
      /\ s.stage.generation \in Nat /\ s.stage.task \in TaskName
      /\ \A r \in replan : /\ r[2] \in Applies /\ r[1] \in Nat
                           /\ r[1] <= s.stage.generation
  BY PlanIntake DEF Stage
<1>1. NoPlan(stage, replan, pods) => NoPlan(stage, replan, S)
  BY DEF NoPlan
<1> HIDE DEF S
<1>a. \A r \in replan : r[1] <= stage.generation
  <2>1. stage.generation = t.generation
    BY <1>0, PlanIntake, NewStageIs
  <2>2. QED
    BY <1>0, <2>1
<1>2. CASE stage = FirstStageOfGeneration(t, s) /\ s.stage.generation # t.generation
  <2>1. /\ stage.generation = t.generation /\ stage.podName = 0
        /\ stage.state = "initializing" /\ stage.message = ""
    BY <1>2 DEF FirstStageOfGeneration, newStage
  <2>2. \A r \in replan : ~Concerns(r, stage)
    <3>1. \A r \in replan : r[1] \in Nat /\ r[1] <= s.stage.generation
      BY <1>0
    <3>2. s.stage.generation < t.generation
      BY <1>0, <1>2
    <3>3. \A r \in replan : r[1] # t.generation
      BY <1>0, <3>1, <3>2
    <3>4. QED
      BY <2>1, <3>3 DEF Concerns
  <2>3. QED
    BY <1>1, <1>a, <2>1, <2>2 DEF Told, Awaits, NoPlan, S
<1>3. CASE /\ stage = StageAfter(t, s) /\ s.stage.generation = t.generation
           /\ s.stage.state = "complete" /\ s.stage.task # RunNil
  <2> DEFINE n == nextTask(s.stage.task, ConfiguredTasks)
  <2>1. /\ stage.generation = s.stage.generation /\ stage.podName = 0
        /\ stage.task = n /\ stage.message = ""
        /\ stage.state = "initializing" \/ n = RunNil
        /\ stage.state # "failed"
    BY <1>3 DEF StageAfter, newStage
  <2>2. s.stage.task \in Task
    BY <1>0, <1>3 DEF TaskName
  <2> HIDE DEF n
  <2>3. ASSUME NEW r \in replan, Concerns(r, stage)
        PROVE  /\ stage.task # RunNil /\ Planning(stage, r[2])
               /\ Concerns(r, s.stage) /\ s.stage.task # r[2]
    <3>0. r[2] \in Applies /\ n \in Family(r[2]) /\ stage.state = "initializing"
      BY <1>0, <2>1, <2>3, Plans DEF Concerns
    <3>1. s.stage.task \in Family(r[2])
      <4>1. Family(n) = Family(s.stage.task) /\ n \in Task
        BY <1>0, <2>2, <3>0, Plans, NextTaskIsLater, Configured, FamilyOf DEF Later, n
      <4>2. Family(n) = Family(r[2])
        BY <3>0, Plans, FamilyOf
      <4>3. s.stage.task \in Family(s.stage.task)
        BY <2>2 DEF Family, Task
      <4>4. QED
        BY <4>1, <4>2, <4>3
    <3>2. Concerns(r, s.stage)
      BY <2>1, <2>3, <3>1 DEF Concerns
    <3>3. Planning(s.stage, r[2]) /\ s.stage.task # PlanOf(r[2])
      BY <1>0, <1>3, <3>2 DEF Awaits, Planning
    <3>4. /\ ID[s.stage.task] \in Nat /\ ID[PlanOf(r[2])] \in Nat
          /\ ID[PlanOf(r[2])] < ID[r[2]]
      BY <2>2, <3>0, Plans, IDIsNatural
    <3>5. ID[s.stage.task] # ID[PlanOf(r[2])]
      <4>1. s.stage.task \in Family(PlanOf(r[2])) /\ PlanOf(r[2]) \in Task
        BY <3>0, <3>1, Plans, FamilyOf
      <4>2. QED
        BY <3>3, <4>1, SameNumber
    <3>6. ID[s.stage.task] < ID[PlanOf(r[2])]
      BY <3>3, <3>4, <3>5 DEF Planning
    <3>7. n \in Task /\ ID[n] <= ID[PlanOf(r[2])]
      BY <2>2, <3>0, <3>6, NextIsPlanning DEF n
    <3>8. s.stage.task # r[2]
      BY <3>4, <3>6, IDIsNatural, <3>0, Plans
    <3>9. QED
      BY <2>1, <3>0, <3>2, <3>7, <3>8, Plans DEF Planning
  <2>4. Awaits(stage, replan)
    BY <2>3 DEF Awaits
  <2>5. NoPlan(stage, replan, pods)
    BY <1>0, <2>3 DEF NoPlan
  <2>6. Told(stage)
    BY <2>1, Plans DEF Told, Applies, RunNil
  <2>7. QED
    BY <1>1, <1>a, <2>1, <2>4, <2>5, <2>6 DEF S
<1>4. CASE /\ stage = RestartStage(t, s) /\ s.stage.generation = t.generation
           /\ s.stage.task \in Applies
  <2> DEFINE from == IF s.stage.task = "apply" THEN "postinit" ELSE "postinit-delete"
             n == nextTask(from, ConfiguredTasks)
  <2>1. /\ stage.generation = t.generation /\ stage.podName = 0
        /\ stage.task = n /\ stage.message = ""
        /\ stage.state = "initializing"
        /\ stage.reason \in {"RESTARTED_WORKFLOW", "RESTARTED_DELETE_WORKFLOW"}
    BY <1>4 DEF RestartStage, newStage
  <2>2. from \in Task /\ \A a \in Applies : from \in Family(a) => ID[from] < ID[PlanOf(a)]
    BY IDs DEF Applies, PlanOf, Family, Task, CreateTask, DeleteTask
  <2> HIDE DEF from, n
  <2>3. ASSUME NEW r \in replan, Concerns(r, stage)
        PROVE  Planning(stage, r[2])
    <3>1. r[2] \in Applies /\ n \in Family(r[2])
      BY <1>0, <2>1, <2>3 DEF Concerns
    <3>2. Family(n) = Family(from) /\ n \in Task
      BY <2>2, <3>1, Plans, NextTaskIsLater, Configured, FamilyOf DEF Later, n, TaskName
    <3>3. from \in Family(r[2])
      BY <2>2, <3>1, <3>2, Plans, FamilyOf DEF Family, Task
    <3>4. n \in Task /\ ID[n] <= ID[PlanOf(r[2])]
      BY <2>2, <3>1, <3>3, NextIsPlanning DEF n
    <3>5. QED
      BY <2>1, <3>4 DEF Planning
  <2>4. \A p \in S : p.generation = t.generation /\ p.task \in {"plan", "plan-delete"}
                     => p.phase # "Succeeded"
    BY DEF S, OldPlanPods
  <2>5. NoPlan(stage, replan, S)
    BY <2>1, <2>4 DEF NoPlan, Concerns, PlanOf
  <2>6. Told(stage) /\ Awaits(stage, replan)
    BY <2>1, <2>3 DEF Told, Awaits
  <2>7. QED
    BY <1>a, <2>1, <2>5, <2>6 DEF S
<1>5. QED
  BY <1>0, <1>2, <1>3, <1>4 DEF checkSetNewStage, Applies

\* The stages that are kept.
LEMMA KeptStagePlans ==
    ASSUME Labels = {}, PlanInv, podCache = pods, worker.pc = "idle",
           tfCache.exists, NEW w \in Status, Keeps(w)
    PROVE  /\ Told(w.stage) /\ Linked(w.stage, pods, podsCreated)
           /\ Owed(w.stage, replan, pods)
<1> DEFINE t == tfCache
           s == Intake(t)
           Goal == /\ Told(w.stage) /\ Linked(w.stage, pods, podsCreated)
                   /\ Owed(w.stage, replan, pods)
<1>0. /\ TypeOK /\ t \in Resource /\ t.status \in Status /\ s \in Status
      /\ s.stage \in Stage /\ s.stage = t.status.stage /\ ~IsRetry(t)
      /\ s.retryTimestamp = 0 /\ w.stage \in Stage
      /\ Told(s.stage) /\ Linked(s.stage, pods, podsCreated)
      /\ Awaits(s.stage, replan) /\ NoPlan(s.stage, replan, pods)
      /\ t.generation \in Nat /\ t.generation # 0
      /\ s.stage.generation \in Nat
      /\ \A r \in replan : /\ r[2] \in Applies /\ r[1] \in Nat
                           /\ r[1] <= s.stage.generation
  BY PlanIntake DEF Status, Stage
<1>1. ASSUME w.stage.generation = s.stage.generation, w.stage.task = s.stage.task,
             w.stage.podName = s.stage.podName, w.stage.message = s.stage.message,
             Told(w.stage)
      PROVE  Goal
  <2>1. Linked(w.stage, pods, podsCreated)
    BY <1>0, <1>1 DEF Linked
  <2>2. Awaits(w.stage, replan) /\ NoPlan(w.stage, replan, pods)
    BY <1>0, <1>1, SameStageAwaits
  <2>3. QED
    BY <1>0, <1>1, <2>1, <2>2 DEF Owed
<1> SUFFICES Goal
  OBVIOUS
<1> HIDE DEF Goal
<1>2. CASE \/ w = [t.status EXCEPT !.prefix = TRUE, !.phase = "initializing"]
           \/ w = [s EXCEPT !.phase = "completed"]
           \/ w = [s EXCEPT !.phase = "deleted"]
  <2>1. w.stage = s.stage
    BY <1>0, <1>2 DEF Status
  <2>2. QED
    BY <1>0, <1>1, <2>1
<1>3. CASE /\ t.status.stage.generation = 0
           /\ w = [t.status EXCEPT
                     !.stage = newStage(t, "setup", "TF_RESOURCE_CREATED",
                                        FALSE, "initializing")]
  <2>1. /\ w.stage.generation = t.generation /\ w.stage.podName = 0
        /\ w.stage.state = "initializing" /\ w.stage.message = ""
    BY <1>0, <1>3 DEF newStage, Status
  <2>2. \A r \in replan : r[1] # t.generation /\ r[1] <= t.generation
    BY <1>0, <1>3
  <2>3. Owed(w.stage, replan, pods)
    <3>1. \A r \in replan : ~Concerns(r, w.stage)
      BY <2>1, <2>2 DEF Concerns
    <3>2. QED
      BY <2>1, <2>2, <3>1 DEF Owed, Awaits, NoPlan
  <2>4. Linked(w.stage, pods, podsCreated)
    <3>1. podsCreated \in Nat /\ \A p \in pods : p.uid # 0
      BY <1>0 DEF PlanInv, OnceInv, TypeOK
    <3>2. w.stage.podName = 0
      BY <2>1
    <3>3. w.stage.podName <= podsCreated
      BY <3>1, <3>2
    <3>4. \A p \in pods : p.uid # w.stage.podName
      BY <3>1, <3>2
    <3>5. QED
      BY <3>3, <3>4 DEF Linked
  <2>5. QED
    BY <2>1, <2>3, <2>4 DEF Goal, Told
<1>4. CASE /\ s.stage.state = "in-progress"
           /\ w = [s EXCEPT !.stage.state = "initializing"]
  <2>1. w.stage = [s.stage EXCEPT !.state = "initializing"]
    BY <1>0, <1>4 DEF Status
  <2>2. /\ w.stage.generation = s.stage.generation /\ w.stage.task = s.stage.task
        /\ w.stage.podName = s.stage.podName /\ w.stage.message = s.stage.message
        /\ w.stage.state = "initializing"
    BY <1>0, <2>1 DEF Stage
  <2>3. Told(w.stage)
    BY <1>0, <1>4, <2>2 DEF Told
  <2>4. QED
    BY <1>1, <2>2, <2>3
<1>5. CASE /\ StagePods(t, s) = {}
           /\ s.stage.state # "in-progress"
           /\ checkSetNewStage(t, s) = {}
           /\ w = [s EXCEPT
                     !.stage.state = "in-progress",
                     !.phase = CASE @ = "initializing" -> "running"
                                 [] @ = "initializing-delete" -> "deleting"
                                 [] OTHER -> @]
  <2>1. w.stage = [s.stage EXCEPT !.state = "in-progress"]
    BY <1>0, <1>5 DEF Status
  <2>2. /\ w.stage.generation = s.stage.generation /\ w.stage.task = s.stage.task
        /\ w.stage.podName = s.stage.podName /\ w.stage.message = s.stage.message
        /\ w.stage.state = "in-progress"
    BY <1>0, <2>1 DEF Stage
  <2>3. s.stage.task \in Applies => s.stage.state # "failed"
    BY <1>5, FailedIsListed
  <2>4. s.stage.state = "complete" => s.stage.task = RunNil
    BY <1>0, <1>5 DEF checkSetNewStage, Blocked
  <2>5. Told(w.stage)
    BY <1>0, <2>2, <2>3, <2>4 DEF Told
  <2>6. QED
    BY <1>1, <2>2, <2>5
<1>6. ASSUME checkSetNewStage(t, s) = {}, NEW p \in StagePods(t, s),
             w = [s EXCEPT !.stage.podName = p.uid,
                           !.stage.message = p.phase,
                           !.stage.state = StageState(p.phase)]
      PROVE  Goal
  <2>1. /\ p \in pods /\ p.generation = s.stage.generation
        /\ p.task = s.stage.task /\ p.phase \in PodPhase
    BY <1>0, <1>6 DEF StagePods, TypeOK, Pod
  <2>2. /\ w.stage.generation = s.stage.generation /\ w.stage.task = s.stage.task
        /\ w.stage.podName = p.uid /\ w.stage.message = p.phase
        /\ w.stage.state = StageState(p.phase)
    BY <1>0, <1>6 DEF Status, Stage
  <2>3. /\ StageState(p.phase) = "failed" <=> p.phase = "Failed"
        /\ StageState(p.phase) = "complete" <=> p.phase = "Succeeded"
    BY <2>1 DEF StageState, PodPhase
  <2>4. Told(w.stage)
    BY <2>2, <2>3 DEF Told
  <2>5. Linked(w.stage, pods, podsCreated)
    BY <2>1, <2>2 DEF Linked, PlanInv
  <2>6. NoPlan(w.stage, replan, pods)
    BY <1>0, <2>2, SameStageAwaits
  <2>7. ASSUME NEW r \in replan, Concerns(r, w.stage)
        PROVE  \/ w.stage.task = r[2] /\ w.stage.state = "failed"
               \/ Planning(w.stage, r[2])
    <3>1. Concerns(r, s.stage) /\ r[2] \in Applies
      BY <1>0, <2>2, <2>7 DEF Concerns
    <3>2. CASE s.stage.task = r[2] /\ s.stage.state = "failed"
      \* The pod that failed is the only one of the apply.
      <4>1. PICK q \in StagePods(t, s) : q.phase = "Failed"
        BY <1>6, <3>1, <3>2, FailedIsListed
      <4>2. q \in pods /\ q.generation = p.generation /\ q.task = p.task
        BY <1>6, <2>1 DEF StagePods
      <4>3. p.created >= 0 /\ q.created >= 0
        BY <1>0, <2>1, <4>2 DEF TypeOK, Pod
      <4>4. OnePodSince(pods, 0)
        BY DEF PlanInv, OnceInv
      <4>5. p = q
        BY <2>1, <4>2, <4>3, <4>4 DEF OnePodSince
      <4>6. QED
        BY <2>2, <2>3, <3>2, <4>1, <4>5
    <3>3. CASE Planning(s.stage, r[2])
      <4>1. s.stage.task # r[2]
        <5>1. ID[s.stage.task] <= ID[PlanOf(r[2])] /\ ID[PlanOf(r[2])] < ID[r[2]]
              /\ ID[PlanOf(r[2])] \in Nat /\ ID[r[2]] \in Nat
          BY <3>1, <3>3, Plans, IDIsNatural DEF Planning
        <5>2. ID[s.stage.task] \in Nat
          BY <3>3, IDIsNatural DEF Planning
        <5>3. QED
          BY <5>1, <5>2
      <4>2. s.stage.task = PlanOf(r[2]) => p.phase # "Succeeded"
        BY <1>0, <2>1, <3>1, <4>1 DEF NoPlan, Concerns
      <4>3. QED
        BY <2>2, <2>3, <3>3, <4>2 DEF Planning
    <3>4. QED
      BY <1>0, <3>1, <3>2, <3>3 DEF Awaits
  <2>8. Awaits(w.stage, replan)
    BY <2>7 DEF Awaits
  <2>9. QED
    BY <1>0, <2>2, <2>4, <2>5, <2>6, <2>8 DEF Goal, Owed
<1>7. QED
  BY <1>2, <1>3, <1>4, <1>5, <1>6 DEF Keeps

LEMMA NoStageIsLinked ==
    ASSUME NEW S, NEW n \in Nat, \A p \in S : p.uid # 0
    PROVE  Told(NoStatus.stage) /\ Linked(NoStatus.stage, S, n)
<1>1. Told(NoStage) /\ NoStatus.stage = NoStage /\ NoStage.podName = 0
  BY DEF Told, NoStatus, NoStage, Applies, RunNil
<1>2. QED
  BY <1>1 DEF Linked

\* The pods may run and end, and others be deleted, and fewer plans be owed.
LEMMA PlanLocalStep ==
    ASSUME PlanInv, OnceInv', ForwardInv', tf'.status = tf.status,
           tfCache' = tfCache, podsCreated' = podsCreated,
           \/ worker' = worker
           \/ worker'.pc # "write" /\ worker'.status \in {worker.status, NoStatus},
           replan' \subseteq replan,
           \A p \in pods' : \E q \in pods :
             /\ p.uid = q.uid /\ p.generation = q.generation /\ p.task = q.task
             /\ q.phase = "Failed" => p.phase = "Failed"
             /\ p.phase = "Succeeded" =>
                  \/ q.phase = "Succeeded"
                  \/ \A r \in replan' : ~ (p.generation = r[1] /\ p.task = PlanOf(r[2])),
           \A p, q \in pods' : p.uid = q.uid => p = q
    PROVE  PlanInv'
<1>1. ASSUME NEW stage
      PROVE  /\ Linked(stage, pods, podsCreated) => Linked(stage, pods', podsCreated')
             /\ Owed(stage, replan, pods) => Owed(stage, replan', pods')
  <2>1. Linked(stage, pods, podsCreated) => Linked(stage, pods', podsCreated')
    BY DEF Linked
  <2>2. Awaits(stage, replan) => Awaits(stage, replan')
    BY DEF Awaits
  <2>3. ASSUME NoPlan(stage, replan, pods), NEW r \in replan', Concerns(r, stage),
               stage.task # r[2],
               NEW p \in pods', p.generation = r[1], p.task = PlanOf(r[2]),
               p.phase = "Succeeded"
        PROVE  FALSE
    <3>1. PICK q \in pods : /\ p.generation = q.generation /\ p.task = q.task
                            /\ q.phase = "Succeeded"
      BY <2>3
    <3>2. r \in replan
      BY <2>3
    <3>3. QED
      BY <2>3, <3>1, <3>2 DEF NoPlan
  <2>4. NoPlan(stage, replan, pods) => NoPlan(stage, replan', pods')
    BY <2>3 DEF NoPlan
  <2>5. QED
    BY <2>1, <2>2, <2>4 DEF Owed
<1>2. Told(NoStatus.stage) /\ Linked(NoStatus.stage, pods', podsCreated')
  <2>1. podsCreated' \in Nat /\ \A p \in pods' : p.uid # 0
    BY DEF OnceInv, ForwardInv, TypeOK
  <2>2. QED
    BY <2>1, NoStageIsLinked
<1>3. \A s \in {tf'.status, tfCache'.status, worker'.status} :
        Told(s.stage) /\ Linked(s.stage, pods', podsCreated')
  BY <1>1, <1>2 DEF PlanInv
<1>4. /\ \A p \in pods' : p.uid <= podsCreated'
      /\ \A r \in replan' : r[2] \in Applies
      /\ Owed(tf'.status.stage, replan', pods')
      /\ Owed(tfCache'.status.stage, replan', pods')
  BY <1>1 DEF PlanInv
<1>5. worker'.pc = "write" => Owed(worker'.status.stage, replan', pods')
  BY <1>1 DEF PlanInv
<1>6. QED
  BY <1>3, <1>4, <1>5 DEF PlanInv

\* The cache has caught up: a failed apply of the resource is noted.
LEMMA PlanCatchesUp ==
    ASSUME PlanInv, OnceInv', ForwardInv', CatchesUp, tf' = tf, tfCache' = tf,
           UNCHANGED <<pods, podsCreated>>, worker'.pc # "write",
           worker'.status \in {worker.status, NoStatus}
    PROVE  PlanInv'
<1> DEFINE f == tf.status.stage
           new == <<f.generation, f.task>>
<1>1. /\ Owed(f, replan, pods) /\ f.generation \in Nat
      /\ \A p \in pods : p.uid # 0
      /\ podsCreated \in Nat
  BY DEF PlanInv, OnceInv, ForwardInv, TypeOK, Resource, Status, Stage
<1>2. replan' = replan \union (IF f.state = "failed" /\ f.task \in Applies
                               THEN {new} ELSE {})
  BY DEF CatchesUp, FailedApply, Applies
<1>3. ASSUME NEW r \in replan'
      PROVE  /\ r[2] \in Applies /\ r[1] <= f.generation
             /\ r \in replan \/ (f.task = r[2] /\ f.state = "failed")
  BY <1>1, <1>2 DEF PlanInv, Owed
<1> HIDE DEF f, new
<1>4. Owed(f, replan', pods)
  BY <1>1, <1>3 DEF Owed, Awaits, NoPlan
<1>5. Told(NoStatus.stage) /\ Linked(NoStatus.stage, pods, podsCreated)
  BY <1>1, NoStageIsLinked
<1>6. \A s \in {tf'.status, tfCache'.status, worker'.status} :
        Told(s.stage) /\ Linked(s.stage, pods, podsCreated)
  BY <1>5 DEF PlanInv
<1>7. QED
  BY <1>3, <1>4, <1>6 DEF PlanInv, f

\* The pod of an apply that failed is not started again.
LEMMA StartIsPlanned ==
    ASSUME Labels = {}, PlanInv, podCache = pods, StartTask
    PROVE  LET new == NewPod(tfCache, Intake(tfCache).stage)
           IN  /\ new.uid = podsCreated + 1 /\ new.phase = "Pending"
               /\ \/ UNCHANGED <<pods, podsCreated>>
                  \/ /\ pods' = pods \union {new}
                     /\ podsCreated' = podsCreated + 1
               /\ <<new.generation, new.task>> \notin replan
<1> DEFINE s == Intake(tfCache)
           new == NewPod(tfCache, s.stage)
<1>1. /\ new.uid = podsCreated + 1 /\ new.phase = "Pending"
      /\ new.generation = s.stage.generation /\ new.task = s.stage.task
  BY DEF NewPod
<1>2. /\ worker.pc = "idle" /\ tfCache.exists
      /\ checkSetNewStage(tfCache, s) = {} /\ StagePods(tfCache, s) = {}
      /\ \/ UNCHANGED <<pods, podsCreated>>
         \/ pods' = pods \union {new} /\ podsCreated' = podsCreated + 1
  BY DEF StartTask, TakesSameStage, TakesStaged, TakesFinalized, Takes
<1>3. ASSUME <<s.stage.generation, s.stage.task>> \in replan PROVE FALSE
  <2> DEFINE r == <<s.stage.generation, s.stage.task>>
  <2>1. /\ r[1] = s.stage.generation /\ r[2] = s.stage.task
        /\ s.stage.task \in Applies /\ Awaits(s.stage, replan)
    BY <1>2, <1>3, PlanIntake
  <2>2. s.stage.state = "failed" \/ Planning(s.stage, s.stage.task)
    BY <1>3, <2>1, Plans DEF Awaits, Concerns
  <2>3. s.stage.state # "failed"
    BY <1>2, <2>1, FailedIsListed
  <2>4. ~Planning(s.stage, s.stage.task)
    BY <2>1, Plans, IDIsNatural DEF Planning
  <2>5. QED
    BY <2>2, <2>3, <2>4
<1>4. QED
  BY <1>1, <1>2, <1>3

LEMMA PlanReconcile ==
    ASSUME Labels = {}, PlanInv, podCache = pods, OnceInv', ForwardInv', Reconcile
    PROVE  PlanInv'
<1> USE DEF cluster, caches, bounds, history
<1>0. /\ TypeOK /\ TypeOK' /\ podsCreated \in Nat
      /\ tf.status \in Status /\ tfCache.status \in Status
      /\ tf.status.stage \in Stage /\ tfCache.status.stage \in Stage
  BY DEF PlanInv, ForwardInv, TypeOK, Resource, Status
<1>1. CASE WriteStatus
  <2>1. /\ tf'.status = worker.status /\ worker'.status = worker.status
        /\ worker.pc = "write" /\ worker'.pc = "confirm"
        /\ UNCHANGED <<pods, podsCreated, tfCache, replan>>
    BY <1>0, <1>1 DEF WriteStatus, TypeOK, Resource, Worker
  <2>2. QED
    BY <2>1 DEF PlanInv
<1>2. CASE ConfirmStatus \/ GiveUp
  <2>1. /\ worker'.pc # "write" /\ worker'.status \in {worker.status, NoStatus}
        /\ UNCHANGED <<tf, tfCache, pods, podsCreated, replan>>
    BY <1>0, <1>2
       DEF ConfirmStatus, GiveUp, Written, NotWritten, TypeOK, Worker, Idle
  <2>2. /\ \A p, q \in pods' : p.uid = q.uid => p = q
        /\ \A p \in pods' : p \in pods
    BY <2>1 DEF PlanInv
  <2>3. /\ tf'.status = tf.status /\ tfCache' = tfCache /\ podsCreated' = podsCreated
        /\ replan' \subseteq replan
    BY <2>1
  <2>4. QED
    BY <2>1, <2>2, <2>3, PlanLocalStep
<1>3. ASSUME worker' = Idle, tf'.status = tf.status,
             tfCache' = tfCache, podsCreated' = podsCreated, replan' = replan,
             pods' \subseteq pods
      PROVE  PlanInv'
  <2>1. /\ \A p, q \in pods' : p.uid = q.uid => p = q
        /\ \A p \in pods' : \E q \in pods :
             /\ p.uid = q.uid /\ p.generation = q.generation /\ p.task = q.task
             /\ q.phase = "Failed" => p.phase = "Failed"
             /\ p.phase = "Succeeded" => q.phase = "Succeeded"
    BY <1>3 DEF PlanInv
  <2>2. worker'.pc # "write" /\ worker'.status = NoStatus
    BY <1>3 DEF Idle
  <2>3. QED
    BY <1>3, <2>1, <2>2, PlanLocalStep
<1>4. CASE WriteStatusFails \/ DeleteCompletedPod
  <2>1. /\ worker' = Idle /\ UNCHANGED <<tf, tfCache, podsCreated>>
        /\ pods' \subseteq pods /\ (WriteStatusFails => UNCHANGED pods)
        /\ replan' = replan \/ (WriteStatusFails /\ tfCache = tf /\ CatchesUp)
    BY <1>4 DEF WriteStatusFails, DeleteCompletedPod, Fault, Uses
  <2>2. CASE replan' = replan
    BY <1>3, <2>1, <2>2
  <2>3. CASE WriteStatusFails /\ tfCache = tf /\ CatchesUp
    <3>1. Idle.pc # "write" /\ Idle.status = NoStatus
      BY DEF Idle
    <3>2. QED
      BY <2>1, <2>3, <3>1, PlanCatchesUp
  <2>4. QED
    BY <2>1, <2>2, <2>3
<1>5. CASE worker.pc = "idle" /\ worker' = Idle
  <2>1. Idle.pc # "write" /\ Idle.pc = "idle"
    BY DEF Idle
  <2>2. \A w, onError, then, pod : ~Save(w, onError, then, pod)
    BY <1>5, <2>1 DEF Save
  <2>3. /\ tf'.status = tf.status /\ tfCache' = tfCache
        /\ UNCHANGED <<pods, podsCreated, replan>>
    BY <1>0, <1>5, <2>1, <2>2
       DEF Reconcile, ReconcileNotFound, ReconcileDeleted, ReconcileFinalizer,
           UpdateFinalizer, InitializeResource, AddFirstStage, SetNewStage,
           FinishWorkflow, ListFails, LosePod, StartTask, ObservePod,
           WriteStatus, WriteStatusFails, ConfirmStatus, GiveUp, DeleteCompletedPod,
           TypeOK, Resource
  <2>4. QED
    BY <1>3, <1>5, <2>1, <2>3
<1>6. ASSUME worker.pc = "idle", worker'.pc = "write", tfCache.exists,
             UNCHANGED <<tf, tfCache>>, replan' \subseteq replan,
             podsCreated <= podsCreated',
             \A p \in pods' : p \in pods \/ (p.uid = podsCreated + 1 /\ p.phase = "Pending"),
             \A p \in pods' : p.uid <= podsCreated',
             \A p, q \in pods' : p.uid = q.uid => p = q,
             LET w == worker'.status
             IN  /\ Told(w.stage) /\ Linked(w.stage, pods', podsCreated')
                 /\ Owed(w.stage, replan', pods')
      PROVE  PlanInv'
  <2>1. ASSUME NEW stage, stage.podName \in Nat, Linked(stage, pods, podsCreated)
        PROVE  Linked(stage, pods', podsCreated')
    <3>1. stage.podName <= podsCreated /\ podsCreated' \in Nat
      BY <1>0, <2>1 DEF Linked, TypeOK
    <3>2. stage.podName # podsCreated + 1 /\ stage.podName <= podsCreated'
      BY <1>0, <1>6, <2>1, <3>1
    <3>3. QED
      BY <1>6, <2>1, <3>2 DEF Linked
  <2>2. /\ Linked(tf.status.stage, pods', podsCreated')
        /\ Linked(tfCache.status.stage, pods', podsCreated')
    BY <1>0, <2>1 DEF PlanInv, Stage
  <2>3. ASSUME NEW stage, Owed(stage, replan, pods)
        PROVE  Owed(stage, replan', pods')
    BY <1>6, <2>3 DEF Owed, Awaits, NoPlan
  <2>4. /\ Owed(tf.status.stage, replan', pods')
        /\ Owed(tfCache.status.stage, replan', pods')
    BY <2>3 DEF PlanInv
  <2>5. \A s \in {tf'.status, tfCache'.status, worker'.status} :
           Told(s.stage) /\ Linked(s.stage, pods', podsCreated')
    BY <1>6, <2>2 DEF PlanInv
  <2>6. \A r \in replan' : r[2] \in Applies
    BY <1>6 DEF PlanInv
  <2>7. QED
    BY <1>6, <2>4, <2>5, <2>6 DEF PlanInv
<1>7. CASE worker.pc = "idle" /\ worker' # Idle
  <2> DEFINE w == worker'.status
  <2>1. /\ tfCache.exists /\ worker'.pc = "write"
        /\ UNCHANGED <<tf, tfCache, clock>>
        /\ \/ /\ Keeps(w) /\ replan' = replan
              /\ UNCHANGED <<pods, podsCreated>> \/ StartTask
           \/ Moves(w) /\ SetNewStage
    BY <1>7, Decision
  <2>2. w \in Status /\ w.stage \in Stage
    BY <1>0 DEF TypeOK, Worker, Status
  <2> HIDE DEF w
  <2>4. CASE Keeps(w) /\ replan' = replan /\ (UNCHANGED <<pods, podsCreated>> \/ StartTask)
    <3>1. /\ Told(w.stage) /\ Linked(w.stage, pods, podsCreated)
          /\ Owed(w.stage, replan, pods)
      BY <1>7, <2>1, <2>2, <2>4, KeptStagePlans
    <3>2. CASE UNCHANGED <<pods, podsCreated>>
      <4>1. podsCreated <= podsCreated'
        BY <1>0, <3>2
      <4>2. QED
        BY <1>6, <1>7, <2>1, <2>4, <3>1, <3>2, <4>1 DEF PlanInv, w
    <3>3. CASE StartTask
      <4> DEFINE new == NewPod(tfCache, Intake(tfCache).stage)
      <4>1. /\ new.uid = podsCreated + 1 /\ new.phase = "Pending"
            /\ \/ UNCHANGED <<pods, podsCreated>>
               \/ pods' = pods \union {new} /\ podsCreated' = podsCreated + 1
        BY <3>3, StartIsPlanned
      <4> HIDE DEF new
      <4>2. CASE pods' = pods \union {new} /\ podsCreated' = podsCreated + 1
        <5>1. \A p \in pods : p.uid \in Nat /\ p.uid <= podsCreated
          BY <1>0 DEF PlanInv, TypeOK, Pod
        <5>2. \A p \in pods : p.uid <= podsCreated' /\ p.uid # podsCreated + 1
          BY <1>0, <4>2, <5>1
        <5>3. /\ \A p \in pods' : p.uid <= podsCreated'
              /\ \A p, q \in pods' : p.uid = q.uid => p = q
          BY <1>0, <4>1, <4>2, <5>2 DEF PlanInv
        <5>4. Owed(w.stage, replan', pods')
          BY <2>4, <3>1, <4>1, <4>2 DEF Owed, NoPlan
        <5>5. Linked(w.stage, pods', podsCreated')
          <6>1. w.stage.podName \in Nat /\ w.stage.podName <= podsCreated
            BY <2>2, <3>1 DEF Stage, Linked
          <6>2. w.stage.podName # new.uid /\ w.stage.podName <= podsCreated'
            BY <1>0, <4>1, <4>2, <6>1
          <6>3. QED
            BY <3>1, <4>2, <6>2 DEF Linked
        <5>6. /\ podsCreated <= podsCreated' /\ replan' = replan
              /\ \A p \in pods' : p \in pods \/ (p.uid = podsCreated + 1 /\ p.phase = "Pending")
          BY <1>0, <2>4, <4>1, <4>2
        <5>7. QED
          BY <1>6, <1>7, <2>1, <3>1, <5>3, <5>4, <5>5, <5>6 DEF w
      <4>3. QED
        BY <3>2, <4>1, <4>2
    <3>4. QED
      BY <2>4, <3>2, <3>3
  <2>5. CASE Moves(w) /\ SetNewStage
    <3> DEFINE t == tfCache
               s == Intake(t)
    <3>a. PICK stage \in checkSetNewStage(t, s) :
            /\ Save(NextStatus(s, stage), FALSE,
                    IF KeepsLatestPodsOnly(t) THEN "reap" ELSE "return", 0)
            /\ IF stage.reason \in {"RESTARTED_WORKFLOW", "RESTARTED_DELETE_WORKFLOW"}
               THEN \/ pods' = pods \ OldPlanPods(t, s.stage.reason) /\ replan' = replan
                    \/ replan' = {} /\ pods' = pods
               ELSE pods' = pods /\ replan' = replan
      BY <2>5 DEF SetNewStage, NextStatus
    <3>1. /\ worker'.status = NextStatus(s, stage)
          /\ IF stage.reason \in {"RESTARTED_WORKFLOW", "RESTARTED_DELETE_WORKFLOW"}
             THEN \/ pods' = pods \ OldPlanPods(t, s.stage.reason) /\ replan' = replan
                  \/ replan' = {} /\ pods' = pods
             ELSE pods' = pods /\ replan' = replan
      BY <3>a DEF Save
    <3>2. podsCreated' = podsCreated
      BY <2>5 DEF SetNewStage, Fault, Uses
    <3>3. w.stage = stage
      BY <1>7, <2>1, <3>1, PlanIntake DEF NextStatus, Status, w
    <3>4. /\ Told(stage) /\ stage.podName = 0 /\ Awaits(stage, replan)
          /\ \A r \in replan : r[1] <= stage.generation
          /\ IF stage.reason \in {"RESTARTED_WORKFLOW", "RESTARTED_DELETE_WORKFLOW"}
             THEN NoPlan(stage, replan, pods \ OldPlanPods(t, s.stage.reason))
             ELSE NoPlan(stage, replan, pods)
      BY <1>7, <2>1, NewStagePlans
    <3>5. pods' \subseteq pods /\ replan' \subseteq replan
      BY <3>1
    <3>6. NoPlan(stage, replan', pods')
      BY <3>1, <3>4 DEF NoPlan
    <3>7. Owed(stage, replan', pods')
      BY <3>4, <3>5, <3>6 DEF Owed, Awaits
    <3>8. Linked(stage, pods', podsCreated')
      <4>1. \A p \in pods : p.uid # 0
        BY DEF PlanInv, OnceInv
      <4>2. QED
        BY <1>0, <3>2, <3>4, <3>5, <4>1 DEF Linked
    <3>9. /\ podsCreated <= podsCreated'
          /\ \A p \in pods' : p \in pods /\ p.uid <= podsCreated'
          /\ \A p, q \in pods' : p.uid = q.uid => p = q
      BY <1>0, <3>2, <3>5 DEF PlanInv
    <3>10. QED
      BY <1>6, <1>7, <2>1, <3>3, <3>4, <3>5, <3>7, <3>8, <3>9 DEF w
  <2>6. QED
    BY <2>1, <2>4, <2>5
<1>8. \/ worker.pc = "idle" \/ WriteStatus \/ WriteStatusFails \/ ConfirmStatus
      \/ GiveUp \/ DeleteCompletedPod
  BY DEF Reconcile, ReconcileNotFound, ReconcileDeleted, ReconcileFinalizer,
         InitializeResource, AddFirstStage, SetNewStage, FinishWorkflow, ListFails,
         LosePod, StartTask, ObservePod, TakesSameStage, TakesStaged,
         TakesFinalized, Takes
<1>9. QED
  BY <1>1, <1>2, <1>4, <1>5, <1>7, <1>8

LEMMA PlanNext ==
    ASSUME Labels = {}, PodWatchLag = FALSE, PlanInv, [Next]_vars
    PROVE  PlanInv'
<1> USE DEF cluster, caches, bounds, history
<1>0. OnceInv' /\ ForwardInv' /\ TypeOK
  BY OnceNext, ForwardNext DEF PlanInv, ForwardInv
<1>1. CASE Reconcile /\ PodsKnown
  BY <1>0, <1>1, PlanReconcile DEF PodsKnown
<1>2. ASSUME tf'.status = tf.status, UNCHANGED <<tfCache, worker, podsCreated, replan>>,
             pods' \subseteq pods
      PROVE  PlanInv'
  <2>1. /\ \A p, q \in pods' : p.uid = q.uid => p = q
        /\ \A p \in pods' : \E q \in pods :
             /\ p.uid = q.uid /\ p.generation = q.generation /\ p.task = q.task
             /\ q.phase = "Failed" => p.phase = "Failed"
             /\ p.phase = "Succeeded" => q.phase = "Succeeded"
    BY <1>2 DEF PlanInv
  <2>2. tfCache' = tfCache /\ worker' = worker /\ podsCreated' = podsCreated
        /\ replan' \subseteq replan
    BY <1>2
  <2>3. QED
    BY <1>0, <1>2, <2>1, <2>2, PlanLocalStep
<1>3. CASE Reap
  BY <1>2, <1>3 DEF Reap, ReaperReads, ReaperDeletesPods, ReaperListsPods,
                    ReaperCleansUp, ReaperFails
<1>4. CASE User \/ GarbageCollect \/ Tick \/ SyncPods
  <2>1. /\ tf'.status = tf.status /\ UNCHANGED <<tfCache, worker, podsCreated, replan>>
        /\ pods' \subseteq pods
    BY <1>0, <1>4 DEF User, UserUpdatesSpec, UserDeletes, UserRelabels,
                      UserDeletesPod, GarbageCollect, Tick, SyncPods, TypeOK, Resource
  <2>2. QED
    BY <1>2, <2>1
<1>5. CASE PodRuns \/ PodSucceeds \/ PodFails
  <2>1. PICK p \in pods, phase \in PodPhase :
          /\ pods' = (pods \ {p}) \union {[p EXCEPT !.phase = phase]}
          /\ p.phase \notin {"Failed", "Succeeded"}
          /\ IF phase = "Succeeded" /\ p.task \in {"plan", "plan-delete"}
             THEN replan' = replan \ {<<p.generation, ApplyOf(p.task)>>}
             ELSE replan' = replan
    BY <1>5 DEF PodRuns, PodSucceeds, PodFails, PodPhase
  <2> DEFINE new == [p EXCEPT !.phase = phase]
  <2>2. /\ new.generation = p.generation /\ new.task = p.task
        /\ new.uid = p.uid /\ new.phase = phase
    BY <1>0, <2>1 DEF TypeOK, Pod
  <2>3. /\ tf'.status = tf.status /\ tfCache' = tfCache /\ worker' = worker
        /\ podsCreated' = podsCreated
    BY <1>5 DEF PodRuns, PodSucceeds, PodFails
  <2>4. pods' = (pods \ {p}) \union {new} /\ replan' \subseteq replan
    BY <2>1
  <2> HIDE DEF new
  <2>5. ASSUME phase = "Succeeded", NEW r \in replan',
               p.generation = r[1], p.task = PlanOf(r[2])
        PROVE  FALSE
    <3>1. r \in replan /\ r[2] \in Applies /\ r = <<r[1], r[2]>>
      BY <1>0, <2>4, <2>5 DEF PlanInv, TypeOK
    <3>2. p.task \in {"plan", "plan-delete"} /\ ApplyOf(p.task) = r[2]
      BY <2>5, <3>1 DEF PlanOf, Applies, ApplyOf
    <3>3. QED
      BY <2>1, <2>5, <3>1, <3>2
  <2>6. /\ \A q, u \in pods' : q.uid = u.uid => q = u
        /\ \A q \in pods' : \E u \in pods :
             /\ q.uid = u.uid /\ q.generation = u.generation /\ q.task = u.task
             /\ u.phase = "Failed" => q.phase = "Failed"
             /\ q.phase = "Succeeded" =>
                  \/ u.phase = "Succeeded"
                  \/ \A r \in replan' : ~ (q.generation = r[1] /\ q.task = PlanOf(r[2]))
    <3>1. \A q, u \in pods' : q.uid = u.uid => q = u
      BY <2>1, <2>2, <2>4 DEF PlanInv
    <3>2. ASSUME NEW q \in pods'
          PROVE  \E u \in pods :
             /\ q.uid = u.uid /\ q.generation = u.generation /\ q.task = u.task
             /\ u.phase = "Failed" => q.phase = "Failed"
             /\ q.phase = "Succeeded" =>
                  \/ u.phase = "Succeeded"
                  \/ \A r \in replan' : ~ (q.generation = r[1] /\ q.task = PlanOf(r[2]))
      <4>1. CASE q = new
        <5>1. p.phase # "Failed"
          BY <2>1
        <5>2. QED
          BY <2>1, <2>2, <2>5, <4>1, <5>1
      <4>2. CASE q \in pods
        BY <4>2
      <4>3. QED
        BY <2>4, <3>2, <4>1, <4>2
    <3>3. QED
      BY <3>1, <3>2
  <2>7. QED
    BY <1>0, <2>3, <2>4, <2>6, PlanLocalStep
<1>6. CASE SyncResource
  <2>1. /\ tf' = tf /\ tfCache' = tf /\ worker' = worker
        /\ UNCHANGED <<pods, podsCreated>>
        /\ IF worker.pc = "write" THEN UNCHANGED replan ELSE CatchesUp
    BY <1>6 DEF SyncResource
  <2>2. CASE worker.pc = "write"
    BY <1>0, <2>1, <2>2 DEF PlanInv
  <2>3. CASE worker.pc # "write"
    BY <1>0, <2>1, <2>3, PlanCatchesUp
  <2>4. QED
    BY <2>2, <2>3
<1>7. CASE Crash
  <2>1. /\ tf' = tf /\ tfCache' = tf /\ worker' = Idle
        /\ UNCHANGED <<pods, podsCreated>> /\ CatchesUp
    BY <1>7 DEF Crash
  <2>2. Idle.pc # "write" /\ Idle.status = NoStatus
    BY DEF Idle
  <2>3. QED
    BY <1>0, <2>1, <2>2, PlanCatchesUp
<1>8. CASE UNCHANGED vars
  BY <1>2, <1>8 DEF vars
<1>9. QED
  BY <1>1, <1>3, <1>4, <1>5, <1>6, <1>7, <1>8 DEF Next, Environment

\* The pods a step creates are not of an apply that still waits for its plan.
LEMMA PlanStep ==
    ASSUME Labels = {}, PodWatchLag = FALSE, PlanInv, [Next]_vars
    PROVE  \A p \in pods' : \/ p.uid <= podsCreated
                            \/ <<p.generation, p.task>> \notin replan
<1>1. TypeOK /\ \A p \in pods : p.uid <= podsCreated
  BY DEF PlanInv, ForwardInv
<1>2. CASE pods' \subseteq pods
  BY <1>1, <1>2
<1>3. CASE StartTask /\ PodsKnown
  <2> DEFINE new == NewPod(tfCache, Intake(tfCache).stage)
  <2>1. pods' \subseteq pods \union {new} /\ <<new.generation, new.task>> \notin replan
    BY <1>3, StartIsPlanned DEF PodsKnown
  <2> HIDE DEF new
  <2>2. QED
    BY <1>1, <2>1
<1>4. ASSUME NEW p \in pods, NEW phase \in PodPhase,
             pods' = (pods \ {p}) \union {[p EXCEPT !.phase = phase]}
      PROVE  \A q \in pods' : q.uid <= podsCreated
  <2>1. [p EXCEPT !.phase = phase].uid = p.uid
    BY <1>1 DEF TypeOK, Pod
  <2>2. QED
    BY <1>1, <1>4, <2>1
<1>5. QED
  BY <1>1, <1>2, <1>3, <1>4, PodsStep

\* When no user asks for a retry and the pod watch is not late, an apply that the
\* cache has shown as failed is not started again before a plan of its generation
\* has succeeded: after crashes, failed writes, confirmations that are given up
\* and deleted pods as well.  A request of removeOldPlan that fails is the
\* exception that the property names
\* (tf_controller.go:778-795, 896-990, 1227-1299, 1764-1831).
THEOREM FailedApplyIsReplanned ==
    ASSUME Labels = {}, PodWatchLag = FALSE
    PROVE  Spec => FailedApplyIsPlannedAgain
<1>1. Init => PlanInv
  <2> SUFFICES ASSUME Init PROVE PlanInv
    OBVIOUS
  <2>1. /\ tf.status = NoStatus /\ tfCache = tf /\ worker = Idle
        /\ pods = {} /\ podsCreated = 0 /\ replan = {}
    BY DEF Init, NewResource
  <2>2. Told(NoStatus.stage) /\ Linked(NoStatus.stage, pods, podsCreated)
    BY <2>1, NoStageIsLinked
  <2>3. Owed(NoStatus.stage, replan, pods)
    BY <2>1 DEF Owed, Awaits, NoPlan
  <2>4. OnceInv /\ ForwardInv
    BY OnceInit, ForwardInit
  <2>5. QED
    BY <2>1, <2>2, <2>3, <2>4, IdleStarts DEF PlanInv
<1>2. PlanInv /\ [Next]_vars => PlanInv'
  BY PlanNext
<1>3. PlanInv /\ [Next]_vars =>
        [\A p \in pods' : \/ p.uid <= podsCreated
                          \/ <<p.generation, p.task>> \notin replan]_vars
  BY PlanStep
<1>4. Spec => []PlanInv
  BY <1>1, <1>2, PTL DEF Spec
<1>5. QED
  BY <1>3, <1>4, PTL DEF Spec, FailedApplyIsPlannedAgain
=============================================================================
