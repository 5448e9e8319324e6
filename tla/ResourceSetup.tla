--------------------------- MODULE ResourceSetup ---------------------------
(***************************************************************************)
(* What starting a task does (setupAndRun and run of tf_controller.go and  *)
(* tofu_controller.go), one request to the API server at a time: the git   *)
(* secrets are locked, the volume, the secrets, the config map and the     *)
(* roles of the generation are created or looked up, the pod is created,   *)
(* the status is written, and the plugin's job is started.  The reaper of  *)
(* old plugins, users and crashes of the controller run beside it.         *)
(*                                                                         *)
(* Of the workflow two tasks are kept, the setup and the apply, and their  *)
(* twins of the destroy workflow; module Workflow has them all.  The spec  *)
(* names one git secret and has one plugin.  The cache of the resource, of *)
(* the pods and of the git secret is up to date; that of the other objects *)
(* may lag.                                                                *)
(***************************************************************************)
EXTENDS Naturals, Sequences, FiniteSets

CONSTANTS
    Controllers,     \* the controllers of the resource: "terraform", "tofu"
    Whens,           \* when the plugin is started: "At" or "After"
    PluginTasks,     \* ... which task
    Locks,           \* the values of lockSecretDeletion
    OwnsServiceAccount, \* spec.serviceAccount is empty
    MaxGeneration,   \* no change of the resource from this generation on
    MaxLags,         \* changes that the cache sees late
    MaxCrashes,      \* crashes of the controller
    MaxFaults,       \* requests that the API server fails
    MaxSecretDeletions, \* git secrets deleted by users
    MaxTroubles,     \* the last four together, where a failed request or a
    Weight,          \* deleted git secret counts for this many
    MaxJobs          \* plugin jobs ever started

ASSUME SetupAssumption ==
    /\ Controllers \subseteq {"terraform", "tofu"}
    /\ Whens \subseteq {"At", "After"}
    /\ PluginTasks \subseteq {"setup", "apply"}
    /\ Locks \union {OwnsServiceAccount} \subseteq BOOLEAN
    /\ {MaxGeneration, MaxCrashes, MaxFaults, MaxLags,
        MaxSecretDeletions, MaxTroubles, Weight, MaxJobs} \subseteq Nat

VARIABLES
    tf,            \* the resource in the API server
    objects,       \* the objects of the resource in the API server
    stale,         \* the objects whose last change the cache has not seen
    pods,          \* the task pods
    jobs,          \* the plugin's jobs, those asked for included
    gitSecret,     \* the git secret
    worker,        \* the reconcile in progress
    pluginReapers, \* reapPlugins: the generation each has read, 0 before
    used,          \* how much of each bound is used up
    noVolume       \* history: a volume was not looked up

vars == <<tf, objects, stale, pods, jobs, gitSecret, worker, pluginReapers, used, noVolume>>
-----------------------------------------------------------------------------
RunNil == ""
Task == {"setup", "apply", "setup-delete", "apply-delete"}
ID(task) == CASE task = "setup" -> 1
              [] task = "apply" -> 9
              [] task = "setup-delete" -> 101
              [] task = "apply-delete" -> 109

Kind == {"env", "pvc", "secret", "configMap", "roleBinding", "role",
         "serviceAccount", "outputs"}

\* The name of an object: the volume and the environment have no version.
Name(kind, version) ==
    <<kind, IF kind \in {"env", "pvc"} THEN 0 ELSE version>>

Object == Kind \X Nat

Pod == [generation : Nat, task : Task, phase : {"Pending", "Running", "Succeeded"}]
Job == [number : Nat, generation : Nat, running : BOOLEAN]

Reason == {"", "TF_RESOURCE_CREATED", "GENERATION_CHANGE",
           "TF_RESOURCE_DELETED", "COMPLETED"}

Stage == [generation : Nat, task : Task \union {RunNil}, reason : Reason,
          interruptible : BOOLEAN,
          state : {"", "initializing", "in-progress", "complete"}]

Phase == {"initializing", "running", "completed", "initializing-delete",
          "deleting", "deleted"}

Status == [phase : Phase, stage : Stage, pluginsStarted : BOOLEAN]

Resource == [exists : BOOLEAN, controller : Controllers, when : Whens,
             pluginTask : PluginTasks, generation : Nat, lockSecret : Locks, ignoreDelete : BOOLEAN,
             deleting : BOOLEAN, finalizer : BOOLEAN, status : Status]

NewResource(controller, when, task, lock) ==
    [exists |-> TRUE, controller |-> controller, when |-> when,
     pluginTask |-> task, generation |-> 1, lockSecret |-> lock, ignoreDelete |-> FALSE,
     deleting |-> FALSE, finalizer |-> FALSE,
     status |-> [phase |-> "initializing", pluginsStarted |-> FALSE,
                 stage |-> [generation |-> 0, task |-> RunNil, reason |-> "",
                            interruptible |-> FALSE, state |-> ""]]]

\* Mutant: the service account is created when the spec names one.
RunOrderWithoutAccount ==
    <<"env", "pvc", "secret", "configMap", "roleBinding", "role">>
    \o (IF OwnsServiceAccount THEN <<>> ELSE <<"serviceAccount">>)
    \o <<"outputs">>

\* What run creates, in order.
RunOrder ==
    <<"env", "pvc", "secret", "configMap", "roleBinding", "role">>
    \o (IF OwnsServiceAccount THEN <<"serviceAccount">> ELSE <<>>)
    \o <<"outputs">>

\* The same, of the Tofu controller.
tofuRunOrder ==
    <<"env", "pvc", "secret", "configMap", "roleBinding", "role">>
    \o (IF OwnsServiceAccount THEN <<"serviceAccount">> ELSE <<>>)
    \o <<"outputs">>

WorkerPC == {"idle", "lock", "askpass", "run", "create", "check", "pod",
             "write", "plugin", "unlock", "remove"}

\* A reconcile has a copy of the resource and works on its status; step counts
\* the objects of run; deferred says that createPluginJob is deferred.
NoResource == [exists |-> FALSE]

Worker == [pc : WorkerPC, t : Resource \union {NoResource},
           step : 1 .. Len(RunOrder), deferred : BOOLEAN]

Idle == [pc |-> "idle", t |-> NoResource, step |-> 1, deferred |-> FALSE]

Counters == {"crashes", "faults", "lags", "secretDeletions", "jobs"}

TypeOK ==
    /\ tf \in Resource
    /\ objects \subseteq Object
    /\ stale \subseteq Object
    /\ pods \subseteq Pod
    /\ jobs \subseteq Job
    /\ gitSecret \in [exists : BOOLEAN, locked : BOOLEAN, deleting : BOOLEAN]
    /\ worker \in Worker
    /\ pluginReapers \subseteq Nat
    /\ used \in [Counters -> Nat]
    /\ noVolume \in BOOLEAN

Init ==
    /\ \E c \in Controllers, w \in Whens, p \in PluginTasks, l \in Locks :
         tf = NewResource(c, w, p, l)
    /\ objects = {} /\ stale = {} /\ pods = {} /\ jobs = {}
    /\ gitSecret = [exists |-> TRUE, locked |-> FALSE, deleting |-> FALSE]
    /\ worker = Idle
    /\ pluginReapers = {}
    /\ used = [c \in Counters |-> 0]
    /\ noVolume = FALSE

Cost(counter) == IF counter \in {"faults", "secretDeletions"} THEN Weight ELSE 1

Uses(counter, max) ==
    /\ used[counter] < max
    /\ used["crashes"] + used["lags"]
         + Weight * (used["faults"] + used["secretDeletions"])
         + Cost(counter) <= MaxTroubles
    /\ used' = [used EXCEPT ![counter] = @ + 1]

Fault == Uses("faults", MaxFaults)
-----------------------------------------------------------------------------
(***************************************************************************)
(* The objects and the cache.                                              *)
(***************************************************************************)
\* What the cache says: an object whose last change it has not seen is there
\* when it is gone, and the other way round.
Cached(o) == (o \in objects) # (o \in stale)

\* The objects become new, and the cache sees it now or later.
Change(new) ==
    LET changed == (objects \ new) \union (new \ objects)
    IN  /\ objects' = new
        /\ \/ stale' = stale \ changed /\ UNCHANGED used
           \/ /\ changed # {}
              /\ stale' = (stale \ changed) \union (changed \ stale)
              /\ Uses("lags", MaxLags)

\* What the controllers delete before they create it.
Recreated == {"secret", "configMap", "roleBinding", "role", "serviceAccount"}

\* What run looks for when another stage has created it.
Checked ==
    {"pvc", "configMap", "secret", "roleBinding", "role", "serviceAccount"}

\* The same, of the Tofu controller.
tofuChecked ==
    {"pvc", "configMap", "secret", "roleBinding", "role", "serviceAccount"}

\* What the pod of a generation needs to start: what generatePod mounts or
\* reads the environment from.
Needs(generation) ==
    {Name(k, generation) : k \in {"env", "pvc", "secret", "configMap"}
                         \union (IF OwnsServiceAccount THEN {"serviceAccount"}
                                 ELSE {})}

\* The stages for which the objects are created; the others look them up.
IsChanged(t) == t.status.stage.reason \in
    {"GENERATION_CHANGE", "TF_RESOURCE_DELETED", "TF_RESOURCE_CREATED"}

-----------------------------------------------------------------------------
(***************************************************************************)
(* The reconcile's first step.  It reads the resource and changes it when  *)
(* one request is enough; otherwise it goes on with a copy.                *)
(***************************************************************************)
Takes == worker.pc = "idle" /\ tf.exists

\* The reconcile ends here; what is left to do queues the resource again.
Return == worker' = Idle

Goto(pc) == worker' = [worker EXCEPT !.pc = pc]

\* The finalizer that updateFinalizer leaves on the resource.
WantsFinalizer == ~tf.ignoreDelete

\* The finalizer changes.  Without it a resource that is being deleted is gone.
Finalize(finalizer) ==
    tf' = [tf EXCEPT !.finalizer = finalizer,
                     !.exists = finalizer \/ ~tf.deleting]

ReconcileFinalizer ==
    /\ Takes
    /\ tf.status.phase # "deleted"
    /\ tf.finalizer # WantsFinalizer
    /\ Finalize(WantsFinalizer)
    /\ UNCHANGED <<objects, stale, pods, jobs, gitSecret, worker, pluginReapers, used, noVolume>>

ReconcileDeleted ==
    /\ Takes
    /\ tf.status.phase = "deleted"
    /\ worker' = [Idle EXCEPT !.pc = "unlock", !.t = tf]
    /\ UNCHANGED <<tf, objects, stale, pods, jobs, gitSecret, pluginReapers, used, noVolume>>

\* The reconcile passes the finalizers and takes in a deletion.
TakesFinalized == /\ Takes
                  /\ tf.status.phase # "deleted"
                  /\ tf.finalizer = WantsFinalizer

DeletePhase == {"initializing-delete", "deleting", "deleted"}

Intake == IF /\ tf.deleting
             /\ tf.status.phase \notin DeletePhase
             /\ tf.status.stage.generation # 0
          THEN [tf.status EXCEPT !.phase = "initializing-delete"]
          ELSE tf.status

NewStage(task, reason, interruptible) ==
    [generation |-> tf.generation, task |-> task, reason |-> reason,
     interruptible |-> interruptible,
     state |-> IF task = RunNil THEN "complete" ELSE "initializing"]

\* The stage after a complete one.
StageAfter(s) ==
    LET next == CASE s.stage.task = "setup" -> "apply"
                  [] s.stage.task = "setup-delete" -> "apply-delete"
                  [] OTHER -> RunNil
    IN  [s EXCEPT !.stage = NewStage(next, "COMPLETED", next = RunNil)]

\* The first stage of a generation: the plugins start again with an update, not
\* with a deletion.
StageOfGeneration(s) ==
    IF s.phase \in DeletePhase
    THEN [s EXCEPT !.stage = NewStage("setup-delete", "TF_RESOURCE_DELETED",
                                      s.phase # "initializing-delete")]
    ELSE [phase |-> "initializing", pluginsStarted |-> FALSE,
          stage |-> NewStage("setup", "GENERATION_CHANGE", TRUE)]

\* The status with the next stage, if there is one (the first stage, and
\* checkSetNewStage).
NextStage(s) ==
    IF s.stage.generation = 0
    THEN {[s EXCEPT !.stage = NewStage("setup", "TF_RESOURCE_CREATED", FALSE)]}
    ELSE IF ~s.stage.interruptible /\ s.stage.state = "in-progress" THEN {}
    ELSE IF s.stage.generation # tf.generation THEN {StageOfGeneration(s)}
    ELSE IF s.stage.state = "complete" /\ s.stage.task # RunNil
         THEN {StageAfter(s)} ELSE {}

SetNewStage ==
    /\ TakesFinalized
    /\ \E s \in NextStage(Intake) : tf' = [tf EXCEPT !.status = s]
    /\ UNCHANGED <<objects, stale, pods, jobs, gitSecret, worker,
                   pluginReapers, used, noVolume>>

TakesSameStage == TakesFinalized /\ NextStage(Intake) = {}

StagePods == {p \in pods : /\ p.generation = tf.status.stage.generation
                           /\ p.task = tf.status.stage.task}

\* The workflow ends, or the pod of the stage has succeeded.  Pods do not fail and
\* are not lost here (Workflow has both), and the phase of a pod that has not
\* ended, which the code writes over in-progress (tf_controller.go:1051), is left
\* out: nothing here asks whether a pod is pending or runs but the pod itself.
ObserveStage ==
    /\ TakesSameStage
    /\ LET s == Intake
       IN  \/ /\ s.stage.task = RunNil
              /\ s.phase \in {"running", "deleting"}
              /\ tf' = [tf EXCEPT !.status = [s EXCEPT !.phase =
                          IF @ = "running" THEN "completed" ELSE "deleted"]]
           \/ /\ s.stage.state # "complete"
              /\ \E p \in StagePods : p.phase = "Succeeded"
              /\ tf' = [tf EXCEPT !.status = [s EXCEPT
                                      !.stage.state = "complete"]]
    /\ UNCHANGED <<objects, stale, pods, jobs, gitSecret, worker, pluginReapers, used, noVolume>>

\* The plugin's job is to be started with this task.
DefersPlugin(s) ==
    /\ ~s.pluginsStarted
    /\ \/ tf.when = "After" /\ ID(tf.pluginTask) < ID(s.stage.task)
       \/ tf.when = "At" /\ ID(tf.pluginTask) = ID(s.stage.task)

\* setupAndRun begins.
StartTask ==
    /\ TakesSameStage
    /\ tf.status.stage.task # RunNil
    /\ tf.status.stage.state = "initializing"
    /\ StagePods = {}
    /\ worker' = [pc |-> IF IsChanged(tf) THEN "lock" ELSE "check",
                  t |-> [tf EXCEPT !.status = Intake], step |-> 1,
                  deferred |-> DefersPlugin(Intake)]
    /\ UNCHANGED <<tf, objects, stale, pods, jobs, gitSecret, pluginReapers,
                   used, noVolume>>
-----------------------------------------------------------------------------
(***************************************************************************)
(* The requests of setupAndRun.  worker.t is the copy of the resource.     *)
(***************************************************************************)
\* setupAndRun fails: the deferred createPluginJob still runs.
Fail == worker' = IF worker.deferred THEN [worker EXCEPT !.pc = "plugin"]
                  ELSE Idle

\* Some other step failed.
Fails == /\ Fault
         /\ Fail

\* Mutant: the phase is not looked at.
ShouldLockWhenever(t) == t.lockSecret /\ ~t.ignoreDelete

\* The git secret carries the finalizer.
ShouldBeLocked(t) == /\ t.lockSecret
                     /\ ~t.ignoreDelete
                     /\ t.status.phase # "deleted"

\* The git secret with or without the finalizer; without it a secret that is
\* being deleted is gone.
Locked(lock) ==
    [gitSecret EXCEPT !.locked = lock, !.exists = lock \/ ~gitSecret.deleting]

\* updateSecretFinalizer in setupAndRun: an error is only logged.
LockGitSecret ==
    /\ worker.pc = "lock"
    /\ \/ /\ gitSecret' = IF gitSecret.exists
                          THEN Locked(ShouldBeLocked(worker.t)) ELSE gitSecret
          /\ UNCHANGED used
       \/ Fault /\ UNCHANGED gitSecret
    /\ Goto("askpass")
    /\ pluginReapers' = pluginReapers \union {0}
    /\ UNCHANGED <<tf, objects, stale, pods, jobs, noVolume>>

\* createGitAskpass and formatJobSSHConfig read the secret.
LoadGitSecret ==
    /\ worker.pc = "askpass"
    /\ \/ gitSecret.exists /\ Goto("run") /\ UNCHANGED used
       \/ ~gitSecret.exists /\ Fail /\ UNCHANGED used
       \/ Fails
    /\ UNCHANGED <<tf, objects, stale, pods, jobs, gitSecret, pluginReapers, noVolume>>

\* What the controller of the resource creates, and the object it is at.
Order == IF worker.t.controller = "tofu" THEN tofuRunOrder ELSE RunOrder

Item == Name(Order[worker.step], worker.t.generation)

\* Mutant: one object too many.
AdvanceBeyond == worker' = IF worker.step > Len(Order)
                           THEN [worker EXCEPT !.pc = "pod", !.step = 1]
                           ELSE [worker EXCEPT !.pc = "run", !.step = @ + 1]

\* The next object, or the pod.
Advance == worker' = IF worker.step = Len(Order)
                     THEN [worker EXCEPT !.pc = "pod", !.step = 1]
                     ELSE [worker EXCEPT !.pc = "run", !.step = @ + 1]

At(kinds) == worker.pc = "run" /\ Item[1] \in kinds

\* createEnvFromSources creates the object or updates it.
CreateEnv ==
    /\ At({"env"})
    /\ \/ Change(objects \union {Item}) /\ Advance
       \/ Fails /\ UNCHANGED <<objects, stale>>
    /\ UNCHANGED <<tf, pods, jobs, gitSecret, pluginReapers, noVolume>>

\* createPVC.  When the volume cannot be looked up it is taken to be there.
CreatePVC ==
    /\ At({"pvc"})
    /\ \/ /\ Cached(Item)
          /\ Advance
          /\ UNCHANGED <<objects, stale, used, noVolume>>
       \/ /\ Fault
          /\ Advance
          /\ noVolume' = TRUE
          /\ UNCHANGED <<objects, stale>>
       \/ /\ ~Cached(Item) /\ Item \notin objects
          /\ Change(objects \union {Item})
          /\ Advance
          /\ UNCHANGED noVolume
       \/ /\ ~Cached(Item)
          /\ \/ Item \in objects /\ Fail /\ UNCHANGED used
             \/ Fails
          /\ UNCHANGED <<objects, stale, noVolume>>
    /\ UNCHANGED <<tf, pods, jobs, gitSecret, pluginReapers>>

\* deleteSecretIfExists and its siblings: the old object that the cache holds
\* is deleted; it is an error when it is gone already.
DeleteOld ==
    /\ At(Recreated)
    /\ worker.t.controller = "terraform"
    /\ Cached(Item)
    /\ \/ /\ Item \in objects
          /\ Change(objects \ {Item})
          /\ Goto("create")
       \/ /\ \/ Item \notin objects /\ Fail /\ UNCHANGED used
             \/ Fails
          /\ UNCHANGED <<objects, stale>>
    /\ UNCHANGED <<tf, pods, jobs, gitSecret, pluginReapers, noVolume>>

\* deleteAndCreate of the Tofu controller does not mind.
TofuDeleteOld ==
    /\ At(Recreated)
    /\ worker.t.controller = "tofu"
    /\ Cached(Item)
    /\ \/ /\ Change(objects \ {Item})
          /\ Goto("create")
       \/ /\ Fails
          /\ UNCHANGED <<objects, stale>>
    /\ UNCHANGED <<tf, pods, jobs, gitSecret, pluginReapers, noVolume>>

\* Mutant: the outputs' secret of an earlier attempt is an error, too.
CreateObjectStrictly ==
    /\ \/ worker.pc = "create"
       \/ At(Recreated) /\ ~Cached(Item)
       \/ At({"outputs"})
    /\ \/ /\ Item \notin objects
          /\ Change(objects \union {Item})
          /\ Advance
       \/ /\ \/ Item \in objects /\ Fail /\ UNCHANGED used
             \/ Fails
          /\ UNCHANGED <<objects, stale>>
    /\ UNCHANGED <<tf, pods, jobs, gitSecret, pluginReapers, noVolume>>

\* The object is created; when it is there already this is an error, but for
\* the outputs' secret.
CreateObject ==
    /\ \/ worker.pc = "create"
       \/ At(Recreated) /\ ~Cached(Item)
       \/ At({"outputs"})
    /\ \/ /\ Item \notin objects \/ Item[1] = "outputs"
          /\ Change(objects \union {Item})
          /\ Advance
       \/ /\ \/ /\ Item \in objects /\ Item[1] # "outputs"
                /\ Fail
                /\ UNCHANGED used
             \/ Fails
          /\ UNCHANGED <<objects, stale>>
    /\ UNCHANGED <<tf, pods, jobs, gitSecret, pluginReapers, noVolume>>

\* The later tasks look the objects up in the cache.  A service account that the
\* spec names is the user's, and there.
CheckObjects ==
    LET kinds == IF worker.t.controller = "tofu" THEN tofuChecked ELSE Checked
        owned == IF OwnsServiceAccount THEN kinds
                                       ELSE kinds \ {"serviceAccount"}
    IN  /\ worker.pc = "check"
        /\ IF \A k \in owned : Cached(Name(k, worker.t.generation))
           THEN Goto("pod") ELSE Fail
        /\ UNCHANGED <<tf, objects, stale, pods, jobs, gitSecret,
                       pluginReapers, used, noVolume>>

CreatePod ==
    LET stage == worker.t.status.stage
    IN  /\ worker.pc = "pod"
        /\ \/ /\ pods' = pods \union {[generation |-> stage.generation,
                                       task |-> stage.task,
                                       phase |-> "Pending"]}
              /\ worker' = [worker EXCEPT
                              !.pc = "write",
                              !.t.status.stage.state = "in-progress",
                              !.t.status.phase =
                                 CASE @ = "initializing" -> "running"
                                   [] @ = "initializing-delete" -> "deleting"
                                   [] OTHER -> @]
              /\ UNCHANGED used
           \/ /\ Fails
              /\ UNCHANGED pods
        /\ UNCHANGED <<tf, objects, stale, jobs, gitSecret, pluginReapers, noVolume>>

\* updateStatusWithRetry, after the pod and after the plugin; then the deferred
\* call, if there is one.
WriteStatus ==
    /\ worker.pc = "write"
    /\ \/ /\ tf.exists
          /\ tf' = [tf EXCEPT !.status = worker.t.status]
          /\ UNCHANGED used
       \/ /\ \/ ~tf.exists /\ UNCHANGED used
             \/ Fault
          /\ UNCHANGED tf
    /\ worker' = IF worker.deferred THEN [worker EXCEPT !.pc = "plugin"]
                 ELSE Idle
    /\ UNCHANGED <<objects, stale, pods, jobs, gitSecret, pluginReapers, noVolume>>

\* Mutant: the plugin is not noted in the status.
CreatePluginJobUnnoted ==
    /\ worker.pc = "plugin"
    /\ used["jobs"] < MaxJobs
    /\ used' = [used EXCEPT !["jobs"] = @ + 1]
    /\ jobs' = jobs \union {[number |-> used["jobs"] + 1, running |-> FALSE,
                             generation |-> worker.t.generation]}
    /\ worker' = [worker EXCEPT !.pc = "write", !.deferred = FALSE]
    /\ UNCHANGED <<tf, objects, stale, pods, gitSecret, pluginReapers,
                   noVolume>>

\* createPluginJob: go createJob, then the plugin is noted in the status.
CreatePluginJob ==
    /\ worker.pc = "plugin"
    /\ used["jobs"] < MaxJobs
    /\ used' = [used EXCEPT !["jobs"] = @ + 1]
    /\ jobs' = jobs \union {[number |-> used["jobs"] + 1, running |-> FALSE,
                             generation |-> worker.t.generation]}
    /\ worker' = [worker EXCEPT !.pc = "write", !.deferred = FALSE,
                                !.t.status.pluginsStarted = TRUE]
    /\ UNCHANGED <<tf, objects, stale, pods, gitSecret, pluginReapers,
                   noVolume>>

\* Mutant: the reconcile returns when it has updated the secret.
UnlockGitSecretOnly ==
    /\ worker.pc = "unlock"
    /\ \/ /\ gitSecret' = Locked(FALSE)
          /\ UNCHANGED used
       \/ Fault /\ UNCHANGED gitSecret
    /\ Return
    /\ UNCHANGED <<tf, objects, stale, pods, jobs, pluginReapers, noVolume>>

\* The phase is deleted: the secret's finalizer goes first, and an error keeps
\* the resource.
UnlockGitSecret ==
    /\ worker.pc = "unlock"
    /\ \/ /\ gitSecret.exists
          /\ gitSecret' = Locked(ShouldBeLocked(worker.t))
          /\ Goto("remove")
          /\ UNCHANGED used
       \/ /\ \/ ~gitSecret.exists /\ UNCHANGED used
             \/ Fault
          /\ Return
          /\ UNCHANGED gitSecret
    /\ UNCHANGED <<tf, objects, stale, pods, jobs, pluginReapers, noVolume>>

\* Then the resource's own; an update of an outdated copy is refused.
RemoveFinalizer ==
    /\ worker.pc = "remove"
    /\ worker' = Idle
    /\ \/ /\ worker.t = tf
          /\ Finalize(FALSE)
          /\ UNCHANGED used
       \/ /\ \/ worker.t # tf /\ UNCHANGED used
             \/ Fault
          /\ UNCHANGED tf
    /\ UNCHANGED <<objects, stale, pods, jobs, gitSecret, pluginReapers, noVolume>>
-----------------------------------------------------------------------------
(***************************************************************************)
(* The goroutines beside the reconcile, and a crash.                       *)
(***************************************************************************)
\* The plugin's job is created; an error is only logged.
CreateJob ==
    /\ \E j \in jobs :
         /\ ~j.running
         /\ \/ /\ jobs' = (jobs \ {j}) \union {[j EXCEPT !.running = TRUE]}
               /\ UNCHANGED used
            \/ /\ Fault
               /\ jobs' = jobs \ {j}
    /\ UNCHANGED <<tf, objects, stale, pods, gitSecret, worker, pluginReapers, noVolume>>

\* reapPlugins reads the resource ...
PluginReaperReads ==
    /\ 0 \in pluginReapers
    /\ pluginReapers' = (pluginReapers \ {0})
                        \union (IF tf.exists THEN {tf.generation} ELSE {})
    /\ UNCHANGED <<tf, objects, stale, pods, jobs, gitSecret, worker, used, noVolume>>

\* ... and deletes the jobs of the other generations; an error is only logged.
PluginReaperDeletes ==
    /\ \E g \in pluginReapers \ {0} :
         /\ pluginReapers' = pluginReapers \ {g}
         /\ \/ /\ jobs' = {j \in jobs : j.running => j.generation = g}
               /\ UNCHANGED used
            \/ Fault /\ UNCHANGED jobs
    /\ UNCHANGED <<tf, objects, stale, pods, gitSecret, worker, noVolume>>

\* The controller restarts: the reconcile and the goroutines are lost.
Crash ==
    /\ worker.pc # "idle" \/ pluginReapers # {} \/ \E j \in jobs : ~j.running
    /\ Uses("crashes", MaxCrashes)
    /\ worker' = Idle
    /\ pluginReapers' = {}
    /\ jobs' = {j \in jobs : j.running}
    /\ UNCHANGED <<tf, objects, stale, pods, gitSecret, noVolume>>
-----------------------------------------------------------------------------
(***************************************************************************)
(* The cluster and the users.                                              *)
(***************************************************************************)
CacheCatchesUp ==
    /\ \E o \in stale : stale' = stale \ {o}
    /\ UNCHANGED <<tf, objects, pods, jobs, gitSecret, worker, pluginReapers, used, noVolume>>

\* What a resource that is gone owns is collected.
GarbageCollector ==
    /\ ~tf.exists
    /\ objects # {} \/ pods # {} \/ \E j \in jobs : j.running
    /\ objects' = {} /\ stale' = {} /\ pods' = {}
    /\ jobs' = {j \in jobs : ~j.running}
    /\ UNCHANGED <<tf, gitSecret, worker, pluginReapers, used, noVolume>>

\* A pod starts when all it needs is there, and succeeds.
PodMoves ==
    /\ \E p \in pods :
         \/ /\ p.phase = "Pending"
            /\ Needs(p.generation) \subseteq objects
            /\ pods' = (pods \ {p}) \union {[p EXCEPT !.phase = "Running"]}
         \/ /\ p.phase = "Running"
            /\ pods' = (pods \ {p}) \union {[p EXCEPT !.phase = "Succeeded"]}
    /\ UNCHANGED <<tf, objects, stale, jobs, gitSecret, worker, pluginReapers, used, noVolume>>

UserEdits ==
    /\ tf.exists /\ tf.generation < MaxGeneration
    /\ \E l \in Locks, i \in BOOLEAN :
         tf' = [tf EXCEPT !.generation = @ + 1, !.lockSecret = l,
                          !.ignoreDelete = i]
    /\ UNCHANGED <<objects, stale, pods, jobs, gitSecret, worker, pluginReapers, used, noVolume>>

UserDeletes ==
    /\ tf.exists /\ ~tf.deleting /\ tf.generation < MaxGeneration
    /\ tf' = [tf EXCEPT !.deleting = TRUE, !.generation = @ + 1,
                        !.exists = tf.finalizer]
    /\ UNCHANGED <<objects, stale, pods, jobs, gitSecret, worker, pluginReapers, used, noVolume>>

UserDeletesGitSecret ==
    /\ gitSecret.exists /\ ~gitSecret.deleting
    /\ Uses("secretDeletions", MaxSecretDeletions)
    /\ gitSecret' = [gitSecret EXCEPT !.deleting = TRUE,
                                      !.exists = gitSecret.locked]
    /\ UNCHANGED <<tf, objects, stale, pods, jobs, worker, pluginReapers, noVolume>>
-----------------------------------------------------------------------------
Reconciles ==
    \/ ReconcileFinalizer \/ ReconcileDeleted \/ SetNewStage \/ ObserveStage
    \/ StartTask

Requests ==
    \/ LockGitSecret \/ LoadGitSecret \/ CreateEnv \/ CreatePVC \/ DeleteOld
    \/ TofuDeleteOld \/ CreateObject \/ CheckObjects \/ CreatePod \/ WriteStatus
    \/ CreatePluginJob \/ UnlockGitSecret \/ RemoveFinalizer

Goroutines == CreateJob \/ PluginReaperReads \/ PluginReaperDeletes

Users == UserEdits \/ UserDeletes \/ UserDeletesGitSecret

Next == \/ Reconciles \/ Requests \/ Goroutines \/ Crash
        \/ CacheCatchesUp \/ GarbageCollector \/ PodMoves \/ Users

Fairness == /\ WF_vars(Reconciles \/ Requests)
            /\ WF_vars(CreateJob) /\ WF_vars(PluginReaperReads)
            /\ WF_vars(CacheCatchesUp) /\ WF_vars(PodMoves)

Spec == Init /\ [][Next]_vars
FairSpec == Spec /\ Fairness
-----------------------------------------------------------------------------
(***************************************************************************)
(* Properties.                                                             *)
(***************************************************************************)
\* The pod of the current generation that waits to start finds what it needs,
\* whatever failed, lagged or crashed before run() created it and however often
\* run() deleted and created the objects again.  (createPVC counts a lookup that
\* fails as a volume that is found.)
PodsFindTheirObjects ==
    \A p \in pods :
      (p.generation = tf.generation /\ p.phase = "Pending" /\ tf.exists)
        => Needs(p.generation) \subseteq objects \/ noVolume

\* "Each plugin is run once per generation" (tf_types.go): its job is started
\* twice only if a crash or a failed request kept the note of the first from the
\* status.
PluginRunsOnce ==
    \A g \in 1 .. MaxGeneration :
      Cardinality({j \in jobs : j.generation = g})
        <= 1 + used["crashes"] + used["faults"]

\* A resource that the destroy workflow removes leaves no finalizer on the git
\* secret.
GitSecretsReleased ==
    [][(tf.exists /\ ~tf'.exists /\ tf.status.phase = "deleted")
         => ~gitSecret'.locked]_vars

\* A resource whose destroy workflow is over is removed, unless its git secret
\* is gone: updateSecretFinalizer then fails for ever.
DeletedIsRemoved ==
    tf.status.phase = "deleted" ~> ~tf.exists \/ ~gitSecret.exists

\* A stage that is set is left, or its pod is started: no error, crash or stale
\* cache keeps run() from getting through in the end.  Only a git secret that is
\* gone does.
TasksAreStarted ==
    (tf.exists /\ tf.status.stage.state = "initializing")
      ~> \/ ~tf.exists
         \/ tf.status.stage.state # "initializing"
         \/ ~gitSecret.exists
         \/ noVolume
=============================================================================
