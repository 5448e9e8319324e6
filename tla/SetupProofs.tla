---------------------------- MODULE SetupProofs ----------------------------
(***************************************************************************)
(* What the tasks find when they start, which plugins run and which        *)
(* finalizers stay, for every number of crashes, failed requests, late     *)
(* caches and changes of the resource.                                     *)
(***************************************************************************)
EXTENDS ResourceSetup, FiniteSetTheorems, SequenceTheorems, TLAPS

-----------------------------------------------------------------------------
(***************************************************************************)
(* What run creates, and in which order                                    *)
(***************************************************************************)
LEMMA OrderIs ==
    /\ tofuRunOrder = RunOrder
    /\ Len(RunOrder) = IF OwnsServiceAccount THEN 8 ELSE 7
    /\ \A i \in 1 .. Len(RunOrder) : RunOrder[i] \in Kind
    /\ RunOrder[1] = "env" /\ RunOrder[2] = "pvc" /\ RunOrder[3] = "secret"
    /\ RunOrder[4] = "configMap"
    /\ OwnsServiceAccount => RunOrder[7] = "serviceAccount"
    /\ \A i, j \in 1 .. Len(RunOrder) : RunOrder[i] = RunOrder[j] => i = j
<1>1. CASE OwnsServiceAccount
  BY <1>1 DEF RunOrder, tofuRunOrder, Kind
<1>2. CASE ~OwnsServiceAccount
  BY <1>2 DEF RunOrder, tofuRunOrder, Kind
<1>3. QED
  BY <1>1, <1>2

LEMMA NameIs ==
    ASSUME NEW kind \in Kind, NEW version \in Nat
    PROVE  Name(kind, version) \in Object /\ Name(kind, version)[1] = kind
BY DEF Name, Object

-----------------------------------------------------------------------------
(***************************************************************************)
(* Types                                                                   *)
(***************************************************************************)
LEMMA UsesCounts ==
    ASSUME TypeOK, NEW counter \in Counters, NEW max, Uses(counter, max)
    PROVE  /\ used' \in [Counters -> Nat]
           /\ used'[counter] = used[counter] + 1
           /\ \A c \in Counters \ {counter} : used'[c] = used[c]
BY DEF TypeOK, Uses

UsedGrows == /\ used' \in [Counters -> Nat]
             /\ \A c \in Counters : used'[c] >= used[c]

LEMMA UsesGrows ==
    ASSUME TypeOK, NEW counter \in Counters, NEW max, Uses(counter, max)
    PROVE  UsedGrows
<1>1. \A c \in Counters : used[c] \in Nat
  BY DEF TypeOK
<1>2. QED
  BY <1>1, UsesCounts DEF UsedGrows

LEMMA KeepsGrows == TypeOK /\ UNCHANGED used => UsedGrows
BY DEF TypeOK, UsedGrows

LEMMA CountersAre == {"crashes", "faults", "lags", "secretDeletions", "jobs"} \subseteq Counters
BY DEF Counters

LEMMA FaultGrows == ASSUME TypeOK, Fault PROVE UsedGrows
BY UsesGrows, CountersAre DEF Fault

LEMMA ChangeIs ==
    ASSUME TypeOK, NEW new, new \subseteq Object, Change(new)
    PROVE  /\ objects' = new /\ UsedGrows
           /\ stale' \subseteq Object
           /\ \A o \in stale' : o \in stale \/ ~(o \in objects <=> o \in new)
<1>1. CASE UNCHANGED used
  BY <1>1, KeepsGrows DEF Change, TypeOK
<1>2. CASE Uses("lags", MaxLags)
  BY <1>2, UsesGrows, CountersAre DEF Change, TypeOK
<1>3. QED
  BY <1>1, <1>2 DEF Change

LEMMA ResourceIs ==
    ASSUME NEW r \in Resource
    PROVE  /\ r.exists \in BOOLEAN /\ r.generation \in Nat /\ r.status \in Status
           /\ r.finalizer \in BOOLEAN /\ r.deleting \in BOOLEAN
           /\ r.lockSecret \in BOOLEAN /\ r.ignoreDelete \in BOOLEAN
           /\ r.status.phase \in Phase /\ r.status.pluginsStarted \in BOOLEAN
           /\ r.status.stage \in Stage /\ r.status.stage.generation \in Nat
           /\ r.status.stage.task \in Task \union {RunNil}
           /\ r.status.stage.reason \in Reason
BY SetupAssumption DEF Resource, Status, Stage

\* The status of a resource is written.
LEMMA StatusSet ==
    ASSUME NEW r \in Resource, NEW s \in Status
    PROVE  /\ [r EXCEPT !.status = s] \in Resource
           /\ [r EXCEPT !.status = s].status = s
           /\ [r EXCEPT !.status = s].exists = r.exists
           /\ [r EXCEPT !.status = s].controller = r.controller
           /\ [r EXCEPT !.status = s].generation = r.generation
           /\ [r EXCEPT !.status = s].deleting = r.deleting
           /\ [r EXCEPT !.status = s].finalizer = r.finalizer
BY DEF Resource

LEMMA StageSet ==
    ASSUME NEW s \in Status, NEW g \in Stage
    PROVE  /\ [s EXCEPT !.stage = g] \in Status
           /\ [s EXCEPT !.stage = g].stage = g
           /\ [s EXCEPT !.stage = g].phase = s.phase
           /\ [s EXCEPT !.stage = g].pluginsStarted = s.pluginsStarted
BY DEF Status

LEMMA PhaseSet ==
    ASSUME NEW s \in Status, NEW f \in Phase
    PROVE  /\ [s EXCEPT !.phase = f] \in Status
           /\ [s EXCEPT !.phase = f].stage = s.stage
           /\ [s EXCEPT !.phase = f].phase = f
           /\ [s EXCEPT !.phase = f].pluginsStarted = s.pluginsStarted
BY DEF Status

\* The phase that the reconcile works with.
LEMMA IntakeIs ==
    ASSUME TypeOK
    PROVE  /\ Intake \in Status /\ Intake.stage = tf.status.stage
           /\ Intake.pluginsStarted = tf.status.pluginsStarted
           /\ Intake.phase \in DeletePhase => tf.deleting \/ tf.status.phase \in DeletePhase
           /\ Intake.phase = "deleted" => tf.status.phase = "deleted"
<1>1. tf.status \in Status /\ "initializing-delete" \in Phase
  BY ResourceIs DEF TypeOK, Phase
<1>2. CASE Intake = tf.status
  BY <1>1, <1>2
<1>3. CASE Intake = [tf.status EXCEPT !.phase = "initializing-delete"] /\ tf.deleting
  BY <1>1, <1>3, PhaseSet DEF DeletePhase
<1>4. QED
  BY <1>2, <1>3 DEF Intake

\* The next stage is the first of the resource's generation, and no plugin has
\* been started with it unless the resource is being deleted, or it follows a
\* complete stage.
LEMMA NextStageIs ==
    ASSUME TypeOK, NEW s \in NextStage(Intake)
    PROVE  /\ s \in Status /\ s.stage.generation = tf.generation
           /\ s.phase \in DeletePhase => Intake.phase \in DeletePhase
           /\ \/ /\ s.stage.reason \in {"TF_RESOURCE_CREATED", "GENERATION_CHANGE", "TF_RESOURCE_DELETED"}
                 /\ s.stage.state = "initializing"
                 /\ tf.status.stage.generation = 0 \/ tf.status.stage.generation # tf.generation
              \/ /\ s.stage.reason = "COMPLETED"
                 /\ tf.status.stage.generation = tf.generation
                 /\ tf.status.stage.generation # 0
                 /\ tf.status.stage.state = "complete"
                 /\ s.pluginsStarted = tf.status.pluginsStarted
<1> DEFINE i == Intake
<1>1. /\ i \in Status /\ i.stage = tf.status.stage
      /\ i.pluginsStarted = tf.status.pluginsStarted
  BY IntakeIs
<1>2. {"TF_RESOURCE_CREATED", "GENERATION_CHANGE", "TF_RESOURCE_DELETED", "COMPLETED"} \subseteq Reason
  BY DEF Reason
<1>3. /\ {"setup", "apply", "setup-delete", "apply-delete"} \subseteq Task
      /\ "setup" # RunNil /\ "setup-delete" # RunNil
  BY DEF Task, RunNil
<1>4. tf.generation \in Nat
  BY ResourceIs DEF TypeOK
<1> HIDE DEF i
<1>5. CASE i.stage.generation = 0
  <2> DEFINE new == NewStage("setup", "TF_RESOURCE_CREATED", FALSE)
  <2>1. s = [i EXCEPT !.stage = new]
    BY <1>5 DEF NextStage, i
  <2>2. /\ new \in Stage /\ new.generation = tf.generation
        /\ new.reason = "TF_RESOURCE_CREATED" /\ new.state = "initializing"
    BY <1>2, <1>3, <1>4 DEF NewStage, Stage
  <2> HIDE DEF new
  <2>3. QED
    BY <1>1, <1>5, <2>1, <2>2, StageSet DEF i
<1>6. CASE i.stage.generation # 0 /\ i.stage.generation # tf.generation
  <2>1. s = StageOfGeneration(i)
    BY <1>6 DEF NextStage, i
  <2>2. CASE i.phase \in DeletePhase
    <3> DEFINE new == NewStage("setup-delete", "TF_RESOURCE_DELETED",
                               i.phase # "initializing-delete")
    <3>1. s = [i EXCEPT !.stage = new]
      BY <2>1, <2>2 DEF StageOfGeneration
    <3>2. /\ new \in Stage /\ new.generation = tf.generation
          /\ new.reason = "TF_RESOURCE_DELETED" /\ new.state = "initializing"
      BY <1>2, <1>3, <1>4 DEF NewStage, Stage
    <3> HIDE DEF new
    <3>3. QED
      BY <1>1, <1>6, <3>1, <3>2, StageSet DEF i
  <2>3. CASE i.phase \notin DeletePhase
    <3> DEFINE new == NewStage("setup", "GENERATION_CHANGE", TRUE)
    <3>1. s = [phase |-> "initializing", pluginsStarted |-> FALSE, stage |-> new]
      BY <2>1, <2>3 DEF StageOfGeneration
    <3>2. /\ new \in Stage /\ new.generation = tf.generation
          /\ new.reason = "GENERATION_CHANGE" /\ new.state = "initializing"
      BY <1>2, <1>3, <1>4 DEF NewStage, Stage
    <3> HIDE DEF new
    <3>3. s \in Status /\ s.phase = "initializing" /\ s.stage = new
      BY <3>1, <3>2 DEF Status, Phase
    <3>4. QED
      BY <1>1, <1>6, <3>2, <3>3 DEF DeletePhase
  <2>4. QED
    BY <2>2, <2>3
<1>7. CASE i.stage.generation # 0 /\ i.stage.generation = tf.generation
  <2>1. i.stage.state = "complete" /\ s = StageAfter(i)
    BY <1>7 DEF NextStage, i
  <2>2. PICK task \in Task \union {RunNil} :
          s = [i EXCEPT !.stage = NewStage(task, "COMPLETED", task = RunNil)]
    BY <1>3, <2>1 DEF StageAfter
  <2> DEFINE new == NewStage(task, "COMPLETED", task = RunNil)
  <2>3. /\ new \in Stage /\ new.generation = tf.generation /\ new.reason = "COMPLETED"
    BY <1>2, <1>4, <2>2 DEF NewStage, Stage
  <2> HIDE DEF new
  <2>4. s = [i EXCEPT !.stage = new]
    BY <2>2 DEF new
  <2>5. QED
    BY <1>1, <1>7, <2>1, <2>3, <2>4, StageSet DEF i
<1>8. QED
  BY <1>5, <1>6, <1>7
-----------------------------------------------------------------------------
(***************************************************************************)
(* The inductive invariant                                                 *)
(***************************************************************************)
\* The places of a reconcile that creates the objects of a generation.
Creating == {"lock", "askpass", "run", "create"}

\* A reconcile that removes the resource.
Removing == {"unlock", "remove"}

ResourceInv ==
    /\ tf.generation # 0
    /\ tf.status.stage.generation <= tf.generation
    /\ tf.status.stage.generation # 0 => tf.status.stage.reason # ""
    /\ tf.status.phase \in DeletePhase => tf.deleting

\* The copy of a reconcile has the stage of the resource, for nothing else sets a
\* stage meanwhile.
WorkerInv ==
    /\ worker.pc = "idle" => ~worker.deferred
    /\ worker.pc = "plugin" => worker.deferred
    /\ worker.deferred => ~worker.t.status.pluginsStarted
    /\ worker.pc # "idle" =>
         /\ worker.t \in Resource
         /\ worker.t.status.stage.generation = tf.status.stage.generation
         /\ worker.t.status.stage.task = tf.status.stage.task
         /\ worker.t.status.stage.reason = tf.status.stage.reason
         /\ worker.t.status.phase \in DeletePhase => tf.deleting
         /\ tf.status.pluginsStarted => worker.t.status.pluginsStarted
         /\ worker.t.status.pluginsStarted => tf.status.pluginsStarted \/ worker.pc = "write"
    /\ worker.pc \in Removing => worker.t.status.phase = "deleted" /\ ~worker.deferred
    /\ worker.pc \notin Removing \union {"idle"} =>
         /\ tf.status.stage.generation = worker.t.generation
         /\ worker.t.generation # 0
         /\ tf.status.stage.task # RunNil
         /\ worker.t.status.stage.state # "complete"
    /\ worker.pc \in Creating =>
         /\ IsChanged(tf)
         /\ tf.status.stage.state = "initializing"
    /\ worker.pc = "check" => tf.status.stage.reason = "COMPLETED"

\* A generation's first pod is that of the stage whose reconcile creates the
\* objects; while it does, the generation has no pod.
PodsInv ==
    \A p \in pods :
      /\ p.generation # 0 /\ p.generation <= tf.status.stage.generation
      /\ p.generation = tf.status.stage.generation =>
           /\ IsChanged(tf) => p.task = tf.status.stage.task
           /\ worker.pc \notin Creating

Volume == Name("pvc", 0)

\* What a pod of the generation needs is among the objects; a volume may be
\* missing only when it was not looked up.
Sound(generation, objs, missing) ==
    /\ Needs(generation) \ {Volume} \subseteq objs
    /\ Volume \in objs \/ missing

\* The objects of the stage's generation have been created.
Established ==
    \/ tf.status.stage.reason = "COMPLETED"
    \/ tf.status.stage.state = "complete"
    \/ \E p \in pods : p.generation = tf.status.stage.generation

\* The i-th object of a generation is.
Made(i, generation, objs, missing) ==
    \/ Name(RunOrder[i], generation) \in objs
    \/ Name(RunOrder[i], generation) = Volume /\ missing

ObjectsInv ==
    /\ Volume \in stale => Volume \in objects
    /\ tf.exists =>
         /\ Established \/ worker.pc = "pod" =>
              Sound(tf.status.stage.generation, objects, noVolume)
         /\ worker.pc \in Creating =>
              \A i \in 1 .. Len(RunOrder) : i < worker.step =>
                 Made(i, tf.status.stage.generation, objects, noVolume)

JobsOf(js, generation) == {j \in js : j.generation = generation}

Troubles == used["crashes"] + used["faults"]

\* The stage's generation may still start its plugin.
Unstarted ==
    \/ worker.deferred
    \/ /\ tf.exists /\ ~tf.status.pluginsStarted
       /\ worker.pc # "idle" => ~worker.t.status.pluginsStarted

PluginInv ==
    /\ IsFiniteSet(jobs)
    /\ \A j \in jobs : j.generation <= tf.status.stage.generation
    /\ \A g \in Nat : Cardinality(JobsOf(jobs, g)) <= 1 + Troubles
    /\ Unstarted => Cardinality(JobsOf(jobs, tf.status.stage.generation)) <= Troubles

GitInv == worker.pc = "remove" => ~gitSecret.locked

SetupInv == /\ TypeOK /\ ResourceInv /\ WorkerInv /\ PodsInv /\ ObjectsInv
            /\ PluginInv /\ GitInv

-----------------------------------------------------------------------------
(***************************************************************************)
(* What a request does to the reconcile                                    *)
(***************************************************************************)
LEMMA IdleIsWorker ==
    /\ Idle \in Worker /\ Idle.pc = "idle" /\ ~Idle.deferred /\ Idle.t = NoResource
BY OrderIs DEF Idle, Worker, WorkerPC

LEMMA WorkerIs ==
    ASSUME TypeOK
    PROVE  /\ worker.pc \in WorkerPC /\ worker.deferred \in BOOLEAN
           /\ worker.step \in 1 .. Len(RunOrder)
BY DEF TypeOK, Worker

LEMMA GotoIs ==
    ASSUME TypeOK, NEW pc \in WorkerPC, Goto(pc)
    PROVE  /\ worker' \in Worker /\ worker'.pc = pc /\ worker'.t = worker.t
           /\ worker'.deferred = worker.deferred /\ worker'.step = worker.step
BY DEF TypeOK, Goto, Worker

LEMMA FailIs ==
    ASSUME TypeOK, Fail
    PROVE  /\ worker' \in Worker
           /\ \/ ~worker.deferred /\ worker' = Idle
              \/ /\ worker.deferred /\ worker'.pc = "plugin" /\ worker'.t = worker.t
                 /\ worker'.deferred = worker.deferred /\ worker'.step = worker.step
<1>1. CASE worker.deferred
  <2>1. worker' = [worker EXCEPT !.pc = "plugin"]
    BY <1>1 DEF Fail
  <2>2. QED
    BY <1>1, <2>1 DEF TypeOK, Worker, WorkerPC
<1>2. CASE ~worker.deferred
  BY <1>2, IdleIsWorker DEF Fail
<1>3. QED
  BY <1>1, <1>2

LEMMA AdvanceIs ==
    ASSUME TypeOK, Advance
    PROVE  /\ worker' \in Worker /\ worker'.t = worker.t
           /\ worker'.deferred = worker.deferred
           /\ \/ worker.step = Len(RunOrder) /\ worker'.pc = "pod"
              \/ /\ worker.step # Len(RunOrder) /\ worker'.pc = "run"
                 /\ worker'.step = worker.step + 1
<1>1. Len(Order) = Len(RunOrder) /\ Len(RunOrder) \in Nat /\ Len(RunOrder) > 0
  BY OrderIs DEF Order
<1>2. CASE worker.step = Len(RunOrder)
  <2>1. worker' = [worker EXCEPT !.pc = "pod", !.step = 1]
    BY <1>1, <1>2 DEF Advance
  <2>2. 1 \in 1 .. Len(RunOrder)
    BY <1>1
  <2>3. QED
    BY <1>1, <1>2, <2>1, <2>2 DEF TypeOK, Worker, WorkerPC
<1>3. CASE worker.step # Len(RunOrder)
  <2>1. worker' = [worker EXCEPT !.pc = "run", !.step = @ + 1]
    BY <1>1, <1>3 DEF Advance
  <2>2. worker.step + 1 \in 1 .. Len(RunOrder)
    BY <1>1, <1>3, WorkerIs
  <2>3. QED
    BY <1>3, <2>1, <2>2 DEF TypeOK, Worker, WorkerPC
<1>4. QED
  BY <1>2, <1>3

\* The object that run is at.
LEMMA ItemIs ==
    ASSUME TypeOK, WorkerInv, worker.pc \in {"run", "create"}
    PROVE  /\ Item = Name(RunOrder[worker.step], tf.status.stage.generation)
           /\ Item \in Object /\ Item[1] = RunOrder[worker.step]
           /\ worker.step \in 1 .. Len(RunOrder)
           /\ Item[1] # "pvc" => Item # Volume
<1>1. /\ worker.t \in Resource /\ worker.t.generation = tf.status.stage.generation
      /\ worker.t.generation \in Nat
  BY ResourceIs DEF WorkerInv, Removing
<1>2. worker.step \in 1 .. Len(RunOrder) /\ RunOrder[worker.step] \in Kind
  BY WorkerIs, OrderIs
<1>3. Item = Name(RunOrder[worker.step], tf.status.stage.generation)
  BY <1>1, OrderIs DEF Item, Order
<1>4. Volume[1] = "pvc"
  BY DEF Volume, Name
<1>5. QED
  BY <1>1, <1>2, <1>3, <1>4, NameIs

\* More troubles leave more room for the plugins.
LEMMA TroublesGrow ==
    ASSUME TypeOK, UsedGrows
    PROVE  /\ Troubles \in Nat /\ Troubles' \in Nat /\ Troubles' >= Troubles
BY CountersAre DEF TypeOK, UsedGrows, Troubles

LEMMA JobsCount ==
    ASSUME PluginInv, NEW g
    PROVE  IsFiniteSet(JobsOf(jobs, g)) /\ Cardinality(JobsOf(jobs, g)) \in Nat
BY FS_Subset, FS_CardinalityType DEF PluginInv, JobsOf
-----------------------------------------------------------------------------
(***************************************************************************)
(* The requests of setupAndRun before the pod                              *)
(***************************************************************************)
\* A request that changes neither the resource nor its pods nor its plugins'
\* jobs: the reconcile goes on towards the pod, or it ends.
Proceeds ==
    /\ worker' \in Worker
    /\ \/ ~worker.deferred /\ worker' = Idle
       \/ /\ worker'.t = worker.t /\ worker'.deferred = worker.deferred
          /\ \/ worker'.pc = "pod"
             \/ worker'.pc = "plugin" /\ worker.deferred
             \/ worker'.pc \in Creating /\ worker.pc \in Creating

\* No generation gets more jobs.
JobsFewer ==
    /\ jobs' \subseteq Job /\ IsFiniteSet(jobs')
    /\ \A j \in jobs' : \E i \in jobs : i.generation = j.generation
    /\ \A g \in Nat : /\ Cardinality(JobsOf(jobs', g)) \in Nat
                      /\ Cardinality(JobsOf(jobs', g)) <= Cardinality(JobsOf(jobs, g))

LEMMA SubsetIsFewer == ASSUME TypeOK, PluginInv, jobs' \subseteq jobs PROVE JobsFewer
<1>1. ASSUME NEW g
      PROVE  /\ Cardinality(JobsOf(jobs', g)) \in Nat
             /\ Cardinality(JobsOf(jobs', g)) <= Cardinality(JobsOf(jobs, g))
  <2>1. JobsOf(jobs', g) \subseteq JobsOf(jobs, g)
    BY DEF JobsOf
  <2>2. IsFiniteSet(JobsOf(jobs, g))
    BY JobsCount
  <2>3. QED
    BY <2>1, <2>2, FS_Subset, FS_CardinalityType
<1>2. IsFiniteSet(jobs')
  BY FS_Subset DEF PluginInv
<1>3. QED
  BY <1>1, <1>2 DEF JobsFewer, TypeOK

\* No generation gets more jobs, and that of the stage does not get a new chance
\* to start its plugin, or there was trouble.
LEMMA PluginStays ==
    ASSUME TypeOK, PluginInv, UsedGrows, JobsFewer,
           tf'.status.stage.generation = tf.status.stage.generation,
           Unstarted' => Unstarted \/ Troubles' > Troubles
    PROVE  PluginInv'
<1>1. Troubles \in Nat /\ Troubles' \in Nat /\ Troubles' >= Troubles
  BY TroublesGrow
<1>2. ASSUME NEW g \in Nat
      PROVE  /\ Cardinality(JobsOf(jobs', g)) \in Nat /\ Cardinality(JobsOf(jobs, g)) \in Nat
             /\ Cardinality(JobsOf(jobs', g)) <= Cardinality(JobsOf(jobs, g))
  BY JobsCount DEF JobsFewer
<1>3. IsFiniteSet(jobs') /\ \A j \in jobs' : j.generation <= tf.status.stage.generation
  BY DEF PluginInv, JobsFewer
<1>4. \A g \in Nat : Cardinality(JobsOf(jobs', g)) <= 1 + Troubles'
  BY <1>1, <1>2 DEF PluginInv
<1>5. ASSUME Unstarted'
      PROVE  Cardinality(JobsOf(jobs', tf.status.stage.generation)) <= Troubles'
  <2>1. tf.status.stage.generation \in Nat
    BY ResourceIs DEF TypeOK
  <2>2. CASE Unstarted
    BY <1>1, <1>2, <2>1, <2>2 DEF PluginInv
  <2>3. CASE Troubles' > Troubles
    <3>1. Cardinality(JobsOf(jobs, tf.status.stage.generation)) <= 1 + Troubles
      BY <2>1 DEF PluginInv
    <3>2. QED
      BY <1>1, <1>2, <2>1, <2>3, <3>1
  <2>4. QED
    BY <1>5, <2>2, <2>3
<1>6. QED
  BY <1>3, <1>4, <1>5 DEF PluginInv

LEMMA ObjectsStay ==
    ASSUME ObjectsInv, UNCHANGED <<tf, pods, objects, noVolume>>,
           stale' \subseteq stale,
           \/ worker'.pc \notin Creating \union {"pod"}
           \/ /\ worker'.pc \in Creating /\ worker.pc \in Creating
              /\ worker'.step = worker.step
    PROVE  ObjectsInv'
<1>1. Established' = Established
  BY DEF Established
<1>2. QED
  BY <1>1 DEF ObjectsInv, Creating

LEMMA RequestStays ==
    ASSUME SetupInv, worker.pc \notin Removing \union {"idle", "write"}, Proceeds,
           UNCHANGED <<tf, pods, jobs>>, UsedGrows,
           objects' \subseteq Object, stale' \subseteq Object, noVolume' \in BOOLEAN,
           gitSecret' \in [exists : BOOLEAN, locked : BOOLEAN, deleting : BOOLEAN],
           pluginReapers' \subseteq Nat, ObjectsInv'
    PROVE  SetupInv'
<1>1. TypeOK /\ ResourceInv /\ WorkerInv /\ PodsInv /\ PluginInv
  BY DEF SetupInv
<1>2. TypeOK'
  BY <1>1 DEF TypeOK, Proceeds, UsedGrows
<1>3. ResourceInv'
  BY <1>1 DEF ResourceInv
<1>4. WorkerInv' /\ PodsInv' /\ GitInv' /\ (Unstarted' => Unstarted)
  <2>1. CASE ~worker.deferred /\ worker' = Idle
    <3>1. worker'.pc = "idle" /\ ~worker'.deferred
      BY <2>1, IdleIsWorker
    <3>2. QED
      BY <1>1, <3>1 DEF WorkerInv, PodsInv, GitInv, Unstarted, Creating, Removing, IsChanged
  <2>2. CASE /\ worker'.t = worker.t /\ worker'.deferred = worker.deferred
             /\ \/ worker'.pc = "pod"
                \/ worker'.pc = "plugin" /\ worker.deferred
                \/ worker'.pc \in Creating /\ worker.pc \in Creating
    <3>1. worker'.pc \notin {"idle", "check", "remove", "unlock"}
      BY <2>2 DEF Creating
    <3>2. WorkerInv' /\ GitInv'
      BY <1>1, <2>2, <3>1 DEF WorkerInv, GitInv, Creating, Removing, IsChanged
    <3>3. PodsInv'
      BY <1>1, <2>2 DEF PodsInv, IsChanged, Creating
    <3>4. Unstarted' => Unstarted
      BY <2>2, <3>1 DEF Unstarted
    <3>5. QED
      BY <3>2, <3>3, <3>4
  <2>3. QED
    BY <2>1, <2>2 DEF Proceeds
<1>5. PluginInv'
  BY <1>1, <1>4, PluginStays, SubsetIsFewer
<1>6. QED
  BY <1>2, <1>3, <1>4, <1>5 DEF SetupInv

\* The reconcile is not far enough for the pod of its generation.
LEMMA NotEstablished ==
    ASSUME WorkerInv, PodsInv, worker.pc \in Creating
    PROVE  ~Established
BY DEF WorkerInv, PodsInv, Established, IsChanged

\* The last of the objects makes the generation sound.
LEMMA AllMade ==
    ASSUME NEW g, NEW objs, NEW missing,
           \A i \in 1 .. Len(RunOrder) : Made(i, g, objs, missing)
    PROVE  Sound(g, objs, missing)
<1>1. /\ 1 \in 1 .. Len(RunOrder) /\ 2 \in 1 .. Len(RunOrder)
      /\ 3 \in 1 .. Len(RunOrder) /\ 4 \in 1 .. Len(RunOrder)
      /\ OwnsServiceAccount => 7 \in 1 .. Len(RunOrder)
  BY OrderIs
<1>2. \A i \in 1 .. Len(RunOrder) : \/ Name(RunOrder[i], g) \in objs
                                    \/ Name(RunOrder[i], g) = Volume /\ missing
  BY DEF Made
<1>3. Name("pvc", g) = Volume
  BY DEF Name, Volume
<1>4. \A k \in {"env", "secret", "configMap", "serviceAccount"} : Name(k, g) # Volume
  BY DEF Name, Volume
<1>5. Volume \in objs \/ missing
  BY <1>1, <1>2, <1>3, OrderIs
<1>6. /\ Name("env", g) \in objs /\ Name("secret", g) \in objs
      /\ Name("configMap", g) \in objs
      /\ OwnsServiceAccount => Name("serviceAccount", g) \in objs
  BY <1>1, <1>2, <1>4, OrderIs
<1>7. \A k \in {"env", "pvc", "secret", "configMap"}
              \union (IF OwnsServiceAccount THEN {"serviceAccount"} ELSE {}) :
         Name(k, g) = Volume \/ Name(k, g) \in objs
  BY <1>3, <1>6
<1>8. Needs(g) \ {Volume} \subseteq objs
  BY <1>7 DEF Needs
<1>9. QED
  BY <1>5, <1>8 DEF Sound

\* run creates an object, or finds it.
LEMMA ObjectMade ==
    ASSUME SetupInv, worker.pc \in {"run", "create"}, Advance, UNCHANGED <<tf, pods>>,
           objects \subseteq objects', noVolume => noVolume',
           Item \in objects' \/ (Item = Volume /\ noVolume'),
           Volume \in stale' => Volume \in objects'
    PROVE  ObjectsInv'
<1> DEFINE g == tf.status.stage.generation
<1>1. TypeOK /\ WorkerInv /\ PodsInv /\ ObjectsInv /\ worker.pc \in Creating
  BY DEF SetupInv, Creating
<1>2. Established' = Established /\ ~Established
  BY <1>1, NotEstablished DEF Established
<1>3. \A i : Made(i, g, objects, noVolume) => Made(i, g, objects', noVolume')
  BY DEF Made
<1>4. Made(worker.step, g, objects', noVolume')
  <2>1. Item = Name(RunOrder[worker.step], g)
    BY <1>1, ItemIs
  <2>2. QED
    BY <2>1 DEF Made
<1>5. worker.step \in 1 .. Len(RunOrder) /\ Len(RunOrder) \in Nat
  BY <1>1, WorkerIs, OrderIs
<1>6. tf.exists => \A i \in 1 .. Len(RunOrder) : i <= worker.step =>
                      Made(i, g, objects', noVolume')
  <2> SUFFICES ASSUME tf.exists, NEW i \in 1 .. Len(RunOrder), i <= worker.step
               PROVE  Made(i, g, objects', noVolume')
    OBVIOUS
  <2>1. CASE i = worker.step
    BY <1>4, <2>1
  <2>2. CASE i # worker.step
    <3>1. i < worker.step
      BY <1>5, <2>2
    <3>2. Made(i, g, objects, noVolume)
      BY <1>1, <3>1 DEF ObjectsInv
    <3>3. QED
      BY <1>3, <3>2
  <2>3. QED
    BY <2>1, <2>2
<1> HIDE DEF g
<1>7. CASE worker.step = Len(RunOrder) /\ worker'.pc = "pod"
  <2>1. tf.exists => \A i \in 1 .. Len(RunOrder) : Made(i, g, objects', noVolume')
    <3>1. \A i \in 1 .. Len(RunOrder) : i <= worker.step
      BY <1>5, <1>7
    <3>2. QED
      BY <1>6, <3>1
  <2>2. tf.exists => Sound(g, objects', noVolume')
    BY <2>1, AllMade
  <2>3. QED
    BY <1>7, <2>2 DEF ObjectsInv, Creating, g
<1>8. CASE /\ worker.step # Len(RunOrder) /\ worker'.pc = "run"
           /\ worker'.step = worker.step + 1
  <2>1. \A i \in 1 .. Len(RunOrder) : i < worker'.step => i <= worker.step
    BY <1>5, <1>8
  <2>2. tf.exists => \A i \in 1 .. Len(RunOrder) : i < worker'.step =>
                        Made(i, g, objects', noVolume')
    BY <1>6, <2>1
  <2>3. QED
    BY <1>2, <1>8, <2>2 DEF ObjectsInv, g
<1>9. QED
  BY <1>1, <1>7, <1>8, AdvanceIs
\* run deletes the object that it is about to create again: those that it has
\* created stay.
LEMMA ObjectDeleted ==
    ASSUME SetupInv, worker.pc = "run", Item # Volume,
           UNCHANGED <<tf, pods, noVolume>>, objects' = objects \ {Item},
           Volume \in stale' => Volume \in objects',
           worker'.pc = "create", worker'.step = worker.step
    PROVE  ObjectsInv'
<1> DEFINE g == tf.status.stage.generation
<1>1. TypeOK /\ WorkerInv /\ PodsInv /\ ObjectsInv /\ worker.pc \in Creating
  BY DEF SetupInv, Creating
<1>2. Established' = Established /\ ~Established
  BY <1>1, NotEstablished DEF Established
<1>3. worker.step \in 1 .. Len(RunOrder) /\ Len(RunOrder) \in Nat
  BY <1>1, WorkerIs, OrderIs
<1>4. Item = Name(RunOrder[worker.step], g) /\ Item[1] = RunOrder[worker.step]
  BY <1>1, ItemIs
<1>5. ASSUME tf.exists, NEW i \in 1 .. Len(RunOrder), i < worker.step
      PROVE  Made(i, g, objects', noVolume')
  <2>1. Made(i, g, objects, noVolume)
    BY <1>1, <1>5 DEF ObjectsInv
  <2>2. RunOrder[i] # RunOrder[worker.step]
    BY <1>3, <1>5, OrderIs
  <2>3. Name(RunOrder[i], g)[1] = RunOrder[i]
    BY DEF Name
  <2>4. Name(RunOrder[i], g) # Item
    BY <1>4, <2>2, <2>3
  <2>5. QED
    BY <2>1, <2>4 DEF Made
<1>6. QED
  BY <1>2, <1>5 DEF ObjectsInv


\* A request that fails leaves everything as it is.
LEMMA FailStep ==
    ASSUME SetupInv, worker.pc \notin Removing \union {"idle", "write"}, Fail, UsedGrows,
           UNCHANGED <<tf, objects, stale, pods, jobs, gitSecret, pluginReapers, noVolume>>
    PROVE  SetupInv'
<1>1. TypeOK /\ ObjectsInv
  BY DEF SetupInv
<1>2. Proceeds /\ worker'.pc \in {"idle", "plugin"}
  BY <1>1, FailIs, IdleIsWorker DEF Proceeds
<1>3. ObjectsInv'
  BY <1>1, <1>2, ObjectsStay DEF Creating
<1>4. QED
  BY <1>1, <1>2, <1>3, RequestStays DEF TypeOK

LEMMA LockGitSecretStep == ASSUME SetupInv, LockGitSecret PROVE SetupInv'
<1>1. TypeOK /\ ObjectsInv /\ WorkerInv /\ worker.pc = "lock"
  BY DEF SetupInv, LockGitSecret
<1>2. /\ worker' \in Worker /\ worker'.pc = "askpass" /\ worker'.t = worker.t
      /\ worker'.deferred = worker.deferred /\ worker'.step = worker.step
  BY <1>1, GotoIs DEF LockGitSecret, WorkerPC
<1>3. gitSecret' \in [exists : BOOLEAN, locked : BOOLEAN, deleting : BOOLEAN]
  <2>1. ShouldBeLocked(worker.t) \in BOOLEAN
    BY DEF ShouldBeLocked
  <2>2. QED
    BY <1>1, <2>1 DEF LockGitSecret, TypeOK, Locked
<1>4. UsedGrows
  BY <1>1, KeepsGrows, FaultGrows DEF LockGitSecret
<1>5. ObjectsInv'
  BY <1>1, <1>2, ObjectsStay DEF Creating, LockGitSecret
<1>6. Proceeds
  BY <1>1, <1>2 DEF Proceeds, Creating
<1>7. pluginReapers' \subseteq Nat
  BY <1>1 DEF TypeOK, LockGitSecret
<1>8. QED
  BY <1>1, <1>3, <1>4, <1>5, <1>6, <1>7, RequestStays DEF TypeOK, LockGitSecret, Removing

LEMMA LoadGitSecretStep == ASSUME SetupInv, LoadGitSecret PROVE SetupInv'
<1>1. TypeOK /\ ObjectsInv /\ WorkerInv /\ worker.pc = "askpass"
      /\ UNCHANGED <<tf, objects, stale, pods, jobs, gitSecret, pluginReapers, noVolume>>
  BY DEF SetupInv, LoadGitSecret
<1>2. UsedGrows
  BY <1>1, KeepsGrows, FaultGrows DEF LoadGitSecret, Fails
<1>3. CASE Goto("run")
  <2>1. /\ worker' \in Worker /\ worker'.pc = "run" /\ worker'.t = worker.t
        /\ worker'.deferred = worker.deferred /\ worker'.step = worker.step
    BY <1>1, <1>3, GotoIs DEF WorkerPC
  <2>2. ObjectsInv'
    BY <1>1, <2>1, ObjectsStay DEF Creating
  <2>3. Proceeds
    BY <1>1, <2>1 DEF Proceeds, Creating
  <2>4. QED
    BY <1>1, <1>2, <2>2, <2>3, RequestStays DEF TypeOK, Removing
<1>4. CASE Fail
  BY <1>1, <1>2, <1>4, FailStep DEF Removing
<1>5. QED
  BY <1>3, <1>4 DEF LoadGitSecret, Fails

\* A request of run that creates its object ...
LEMMA CreateStep ==
    ASSUME SetupInv, worker.pc \in {"run", "create"}, Advance,
           Change(objects \union {Item}),
           UNCHANGED <<tf, pods, jobs, gitSecret, pluginReapers, noVolume>>
    PROVE  SetupInv'
<1>1. TypeOK /\ ObjectsInv /\ WorkerInv /\ Item \in Object
  BY ItemIs DEF SetupInv
<1>2. objects \union {Item} \subseteq Object
  BY <1>1 DEF TypeOK
<1>3. /\ objects' = objects \union {Item} /\ UsedGrows /\ stale' \subseteq Object
      /\ \A o \in stale' : o \in stale \/ ~(o \in objects <=> o \in objects \union {Item})
  BY <1>1, <1>2, ChangeIs
<1>4. Volume \in stale' => Volume \in objects'
  BY <1>1, <1>3 DEF ObjectsInv
<1>5. ObjectsInv'
  <2>1. objects \subseteq objects' /\ Item \in objects'
    BY <1>3
  <2>2. QED
    BY <1>4, <2>1, ObjectMade
<1>6. Proceeds
  BY <1>1, AdvanceIs DEF Proceeds, Creating
<1>7. worker.pc \notin Removing \union {"idle", "write"}
  BY DEF Removing
<1>8. QED
  BY <1>1, <1>2, <1>3, <1>5, <1>6, <1>7, RequestStays DEF TypeOK

\* ... or finds it, or takes it to be there.
LEMMA FindStep ==
    ASSUME SetupInv, worker.pc \in {"run", "create"}, Advance, UsedGrows,
           UNCHANGED <<tf, objects, stale, pods, jobs, gitSecret, pluginReapers>>,
           noVolume' \in BOOLEAN, noVolume => noVolume',
           Item \in objects \/ (Item = Volume /\ noVolume')
    PROVE  SetupInv'
<1>1. TypeOK /\ ObjectsInv /\ WorkerInv
  BY DEF SetupInv
<1>2. Volume \in stale' => Volume \in objects'
  BY <1>1 DEF ObjectsInv
<1>3. ObjectsInv'
  BY <1>2, ObjectMade
<1>4. Proceeds
  BY <1>1, AdvanceIs DEF Proceeds, Creating
<1>5. worker.pc \notin Removing \union {"idle", "write"}
  BY DEF Removing
<1>6. QED
  BY <1>1, <1>3, <1>4, <1>5, RequestStays DEF TypeOK

LEMMA CreateEnvStep == ASSUME SetupInv, CreateEnv PROVE SetupInv'
<1>1. TypeOK /\ WorkerInv /\ worker.pc = "run" /\ Item \in Object
      /\ UNCHANGED <<tf, pods, jobs, gitSecret, pluginReapers, noVolume>>
  BY ItemIs DEF SetupInv, CreateEnv, At
<1>2. CASE Change(objects \union {Item}) /\ Advance
  BY <1>1, <1>2, CreateStep
<1>3. CASE Fails /\ UNCHANGED <<objects, stale>>
  BY <1>1, <1>3, FailStep, FaultGrows DEF Fails, Removing
<1>4. QED
  BY <1>2, <1>3 DEF CreateEnv

LEMMA CreatePVCStep == ASSUME SetupInv, CreatePVC PROVE SetupInv'
<1>1. TypeOK /\ WorkerInv /\ ObjectsInv /\ worker.pc = "run" /\ Item \in Object
      /\ UNCHANGED <<tf, pods, jobs, gitSecret, pluginReapers>>
  BY ItemIs DEF SetupInv, CreatePVC, At
<1>2. Item = Volume
  BY <1>1, ItemIs DEF CreatePVC, At, Volume, Name
<1>3. CASE Cached(Item) /\ Advance /\ UNCHANGED <<objects, stale, used, noVolume>>
  <2>1. Item \in objects
    BY <1>1, <1>2, <1>3 DEF Cached, ObjectsInv
  <2>2. noVolume' \in BOOLEAN /\ (noVolume => noVolume')
    BY <1>1, <1>3 DEF TypeOK
  <2>3. UsedGrows
    BY <1>1, <1>3, KeepsGrows
  <2>4. QED
    BY <1>1, <1>3, <2>1, <2>2, <2>3, FindStep
<1>4. CASE Fault /\ Advance /\ noVolume' = TRUE /\ UNCHANGED <<objects, stale>>
  BY <1>1, <1>2, <1>4, FaultGrows, FindStep
<1>5. CASE Change(objects \union {Item}) /\ Advance /\ UNCHANGED noVolume
  BY <1>1, <1>5, CreateStep
<1>6. CASE /\ \/ Item \in objects /\ Fail /\ UNCHANGED used
              \/ Fails
           /\ UNCHANGED <<objects, stale, noVolume>>
  BY <1>1, <1>6, FailStep, FaultGrows, KeepsGrows DEF Fails, Removing
<1>7. QED
  BY <1>3, <1>4, <1>5, <1>6 DEF CreatePVC

LEMMA CreateObjectStep == ASSUME SetupInv, CreateObject PROVE SetupInv'
<1>1. TypeOK /\ WorkerInv /\ worker.pc \in {"run", "create"} /\ Item \in Object
      /\ UNCHANGED <<tf, pods, jobs, gitSecret, pluginReapers, noVolume>>
  BY ItemIs DEF SetupInv, CreateObject, At
<1>2. CASE Change(objects \union {Item}) /\ Advance
  BY <1>1, <1>2, CreateStep
<1>3. CASE /\ \/ Fail /\ UNCHANGED used
              \/ Fails
           /\ UNCHANGED <<objects, stale>>
  BY <1>1, <1>3, FailStep, FaultGrows, KeepsGrows DEF Fails, Removing
<1>4. QED
  BY <1>2, <1>3 DEF CreateObject

\* The same for both controllers: what is deleted is what run will create next.
LEMMA DeleteStep ==
    ASSUME SetupInv, At(Recreated), Change(objects \ {Item}), Goto("create"),
           UNCHANGED <<tf, pods, jobs, gitSecret, pluginReapers, noVolume>>
    PROVE  SetupInv'
<1>1. TypeOK /\ WorkerInv /\ ObjectsInv /\ worker.pc = "run" /\ Item \in Object
  BY ItemIs DEF SetupInv, At
<1>2. Item # Volume
  BY <1>1, ItemIs DEF At, Recreated
<1>3. /\ worker' \in Worker /\ worker'.pc = "create" /\ worker'.t = worker.t
      /\ worker'.deferred = worker.deferred /\ worker'.step = worker.step
  BY <1>1, GotoIs DEF WorkerPC
<1>4. /\ objects' = objects \ {Item} /\ UsedGrows /\ stale' \subseteq Object
      /\ objects' \subseteq Object
      /\ \A o \in stale' : o \in stale \/ ~(o \in objects <=> o \in objects \ {Item})
  BY <1>1, ChangeIs DEF TypeOK
<1>5. Volume \in stale' => Volume \in objects'
  BY <1>1, <1>2, <1>4 DEF ObjectsInv
<1>6. ObjectsInv'
  BY <1>1, <1>2, <1>3, <1>4, <1>5, ObjectDeleted
<1>7. Proceeds
  BY <1>1, <1>3 DEF Proceeds, Creating
<1>8. QED
  BY <1>1, <1>4, <1>6, <1>7, RequestStays DEF TypeOK, Removing

LEMMA DeleteOldStep == ASSUME SetupInv, DeleteOld PROVE SetupInv'
<1>1. TypeOK /\ worker.pc = "run" /\ At(Recreated)
      /\ UNCHANGED <<tf, pods, jobs, gitSecret, pluginReapers, noVolume>>
  BY DEF SetupInv, DeleteOld, At
<1>2. CASE Change(objects \ {Item}) /\ Goto("create")
  BY <1>1, <1>2, DeleteStep
<1>3. CASE /\ \/ Fail /\ UNCHANGED used
              \/ Fails
           /\ UNCHANGED <<objects, stale>>
  BY <1>1, <1>3, FailStep, FaultGrows, KeepsGrows DEF Fails, Removing
<1>4. QED
  BY <1>2, <1>3 DEF DeleteOld

LEMMA TofuDeleteOldStep == ASSUME SetupInv, TofuDeleteOld PROVE SetupInv'
<1>1. TypeOK /\ worker.pc = "run" /\ At(Recreated)
      /\ UNCHANGED <<tf, pods, jobs, gitSecret, pluginReapers, noVolume>>
  BY DEF SetupInv, TofuDeleteOld, At
<1>2. CASE Change(objects \ {Item}) /\ Goto("create")
  BY <1>1, <1>2, DeleteStep
<1>3. CASE Fails /\ UNCHANGED <<objects, stale>>
  BY <1>1, <1>3, FailStep, FaultGrows DEF Fails, Removing
<1>4. QED
  BY <1>2, <1>3 DEF TofuDeleteOld

LEMMA CheckObjectsStep == ASSUME SetupInv, CheckObjects PROVE SetupInv'
<1>1. TypeOK /\ WorkerInv /\ ObjectsInv /\ worker.pc = "check" /\ UsedGrows
      /\ UNCHANGED <<tf, objects, stale, pods, jobs, gitSecret, pluginReapers, noVolume>>
  BY KeepsGrows DEF SetupInv, CheckObjects
<1>2. CASE Goto("pod")
  <2>1. /\ worker' \in Worker /\ worker'.pc = "pod" /\ worker'.t = worker.t
        /\ worker'.deferred = worker.deferred
    BY <1>1, <1>2, GotoIs DEF WorkerPC
  <2>2. Established /\ Established'
    BY <1>1 DEF WorkerInv, Established
  <2>3. ObjectsInv'
    BY <1>1, <2>1, <2>2 DEF ObjectsInv, Creating
  <2>4. Proceeds
    BY <1>1, <2>1 DEF Proceeds
  <2>5. QED
    BY <1>1, <2>3, <2>4, RequestStays DEF TypeOK, Removing
<1>3. CASE Fail
  BY <1>1, <1>3, FailStep DEF Removing
<1>4. QED
  BY <1>2, <1>3 DEF CheckObjects
-----------------------------------------------------------------------------
(***************************************************************************)
(* The pod, the status and the plugin                                      *)
(***************************************************************************)
LEMMA CreatePodStep == ASSUME SetupInv, CreatePod PROVE SetupInv'
<1> DEFINE stage == worker.t.status.stage
           pod == [generation |-> stage.generation, task |-> stage.task, phase |-> "Pending"]
<1>1. TypeOK /\ ResourceInv /\ WorkerInv /\ PodsInv /\ ObjectsInv /\ PluginInv
  BY DEF SetupInv
<1>2. worker.pc = "pod"
      /\ UNCHANGED <<tf, objects, stale, jobs, gitSecret, pluginReapers, noVolume>>
  BY DEF CreatePod
<1>3. CASE Fails /\ UNCHANGED pods
  BY <1>1, <1>2, <1>3, FailStep, FaultGrows DEF Fails, Removing
<1>4. CASE /\ pods' = pods \union {pod}
           /\ worker' = [worker EXCEPT
                           !.pc = "write",
                           !.t.status.stage.state = "in-progress",
                           !.t.status.phase =
                              CASE @ = "initializing" -> "running"
                                [] @ = "initializing-delete" -> "deleting"
                                [] OTHER -> @]
           /\ UNCHANGED used
  <2>1. /\ worker.t \in Resource /\ worker.t.status \in Status /\ stage \in Stage
        /\ worker.t.status.phase \in Phase
        /\ stage.generation = tf.status.stage.generation /\ stage.generation # 0
        /\ stage.task = tf.status.stage.task /\ stage.task \in Task
        /\ stage.reason = tf.status.stage.reason
    BY <1>1, <1>2, ResourceIs DEF WorkerInv, Removing
  <2> DEFINE new == CASE worker.t.status.phase = "initializing" -> "running"
                      [] worker.t.status.phase = "initializing-delete" -> "deleting"
                      [] OTHER -> worker.t.status.phase
             started == [stage EXCEPT !.state = "in-progress"]
             status == [worker.t.status EXCEPT !.stage = started, !.phase = new]
             copy == [worker.t EXCEPT !.status = status]
  <2>2. new \in Phase /\ (new \in DeletePhase => worker.t.status.phase \in DeletePhase)
    BY <2>1 DEF Phase, DeletePhase
  <2>3. /\ started \in Stage /\ started.generation = stage.generation
        /\ started.task = stage.task /\ started.reason = stage.reason
        /\ started.state = "in-progress"
    BY <2>1 DEF Stage
  <2> HIDE DEF new
  <2>4. worker' = [worker EXCEPT !.pc = "write", !.t = copy]
    <3>1. worker' = [worker EXCEPT !.pc = "write",
                                   !.t.status.stage.state = "in-progress",
                                   !.t.status.phase = new]
      BY <1>1, <1>4, <2>1 DEF new, TypeOK, Worker, Resource, Status, Stage
    <3>2. QED
      BY <1>1, <2>1, <3>1 DEF TypeOK, Worker, Resource, Status, Stage
  <2> HIDE DEF started
  <2>5. /\ status \in Status /\ status.stage = started /\ status.phase = new
        /\ status.pluginsStarted = worker.t.status.pluginsStarted
    BY <2>1, <2>2, <2>3 DEF Status
  <2> HIDE DEF status
  <2>6. /\ copy \in Resource /\ copy.status = status
        /\ copy.generation = worker.t.generation
    BY <2>1, <2>5, StatusSet
  <2> HIDE DEF copy
  <2>7. /\ worker' \in Worker /\ worker'.pc = "write" /\ worker'.t = copy
        /\ worker'.deferred = worker.deferred
    BY <1>1, <2>4, <2>6 DEF TypeOK, Worker, WorkerPC
  <2>8. pods' \subseteq Pod
    <3>1. stage.generation \in Nat
      BY <2>1 DEF Stage
    <3>2. pod \in Pod
      BY <2>1, <3>1 DEF Pod
    <3>3. QED
      BY <1>1, <1>4, <3>2 DEF TypeOK
  <2>9. TypeOK'
    BY <1>1, <1>2, <1>4, <2>7, <2>8 DEF TypeOK
  <2>10. ResourceInv' /\ GitInv'
    BY <1>1, <1>2, <2>7 DEF ResourceInv, GitInv
  <2>11. WorkerInv'
    BY <1>1, <1>2, <2>1, <2>2, <2>3, <2>5, <2>6, <2>7 DEF WorkerInv, Removing, Creating
  <2>12. PodsInv'
    <3>1. tf.status.stage.generation \in Nat
      BY <1>1, ResourceIs DEF TypeOK
    <3>2. QED
      BY <1>1, <1>2, <1>4, <2>1, <2>7, <3>1 DEF PodsInv, Creating, IsChanged
  <2>13. ObjectsInv'
    BY <1>1, <1>2, <2>7 DEF ObjectsInv, Creating
  <2>14. PluginInv'
    <3>1. Unstarted' => Unstarted
      BY <1>2, <2>5, <2>6, <2>7 DEF Unstarted
    <3>2. QED
      BY <1>1, <1>2, <1>4, <3>1, KeepsGrows, PluginStays, SubsetIsFewer
  <2>15. QED
    BY <2>9, <2>10, <2>11, <2>12, <2>13, <2>14 DEF SetupInv
<1>5. QED
  BY <1>3, <1>4 DEF CreatePod

LEMMA WriteStatusStep == ASSUME SetupInv, WriteStatus PROVE SetupInv'
<1>1. TypeOK /\ ResourceInv /\ WorkerInv /\ PodsInv /\ ObjectsInv /\ PluginInv
  BY DEF SetupInv
<1>2. worker.pc = "write"
      /\ UNCHANGED <<objects, stale, pods, jobs, gitSecret, pluginReapers, noVolume>>
  BY DEF WriteStatus
<1>3. UsedGrows
  BY <1>1, KeepsGrows, FaultGrows DEF WriteStatus
<1>4. /\ worker' \in Worker
      /\ \/ worker'.pc = "idle" /\ ~worker'.deferred /\ ~worker.deferred
         \/ /\ worker'.pc = "plugin" /\ worker'.t = worker.t
            /\ worker'.deferred /\ worker.deferred
  BY <1>1, FailIs, IdleIsWorker DEF WriteStatus, Fail
<1>5. /\ worker.t \in Resource /\ worker.t.status \in Status
      /\ worker.t.status.stage.generation = tf.status.stage.generation
      /\ worker.t.status.stage.task = tf.status.stage.task
      /\ worker.t.status.stage.reason = tf.status.stage.reason
      /\ worker.t.status.stage.state # "complete"
  BY <1>1, <1>2, ResourceIs DEF WorkerInv, Removing
<1>6. CASE tf.exists /\ tf' = [tf EXCEPT !.status = worker.t.status]
  <2>1. /\ tf' \in Resource /\ tf'.status = worker.t.status /\ tf'.exists = tf.exists
        /\ tf'.generation = tf.generation /\ tf'.deleting = tf.deleting
    BY <1>1, <1>5, <1>6, StatusSet DEF TypeOK
  <2>2. TypeOK'
    BY <1>1, <1>2, <1>3, <1>4, <2>1 DEF TypeOK, UsedGrows
  <2>3. ResourceInv' /\ GitInv'
    BY <1>1, <1>2, <1>4, <1>5, <2>1 DEF ResourceInv, GitInv, WorkerInv
  <2>4. WorkerInv'
    BY <1>1, <1>2, <1>4, <1>5, <2>1 DEF WorkerInv, Removing, Creating
  <2>5. PodsInv'
    BY <1>1, <1>2, <1>4, <1>5, <2>1 DEF PodsInv, Creating, IsChanged
  <2>6. ObjectsInv'
    <3>1. Established' => Established
      BY <1>2, <1>5, <2>1 DEF Established
    <3>2. QED
      BY <1>1, <1>2, <1>4, <1>5, <2>1, <3>1 DEF ObjectsInv, Creating
  <2>7. PluginInv'
    <3>1. Unstarted' => Unstarted
      BY <1>1, <1>2, <1>4, <1>6, <2>1 DEF Unstarted, WorkerInv
    <3>2. QED
      BY <1>1, <1>2, <1>3, <1>5, <2>1, <3>1, PluginStays, SubsetIsFewer
  <2>8. QED
    BY <2>2, <2>3, <2>4, <2>5, <2>6, <2>7 DEF SetupInv
<1>7. CASE (~tf.exists \/ Fault) /\ UNCHANGED tf
  <2>1. TypeOK'
    BY <1>1, <1>2, <1>3, <1>4, <1>7 DEF TypeOK, UsedGrows
  <2>2. ResourceInv' /\ GitInv'
    BY <1>1, <1>2, <1>4, <1>7 DEF ResourceInv, GitInv
  <2>3. WorkerInv'
    BY <1>1, <1>2, <1>4, <1>5, <1>7 DEF WorkerInv, Removing, Creating
  <2>4. PodsInv'
    BY <1>1, <1>2, <1>4, <1>7 DEF PodsInv, Creating, IsChanged
  <2>5. ObjectsInv'
    BY <1>1, <1>2, <1>4, <1>7, ObjectsStay DEF Creating
  <2>6. PluginInv'
    <3>1. CASE Fault
      <4>1. Troubles' > Troubles
        BY <1>1, <3>1, UsesCounts, CountersAre DEF Fault, Troubles, TypeOK
      <4>2. QED
        BY <1>1, <1>2, <1>3, <1>7, <4>1, PluginStays, SubsetIsFewer
    <3>2. CASE ~tf.exists
      <4>1. Unstarted' => Unstarted
        BY <1>4, <1>7, <3>2 DEF Unstarted
      <4>2. QED
        BY <1>1, <1>2, <1>3, <1>7, <4>1, PluginStays, SubsetIsFewer
    <3>3. QED
      BY <1>7, <3>1, <3>2
  <2>7. QED
    BY <2>1, <2>2, <2>3, <2>4, <2>5, <2>6 DEF SetupInv
<1>8. QED
  BY <1>6, <1>7 DEF WriteStatus

LEMMA CreatePluginJobStep == ASSUME SetupInv, CreatePluginJob PROVE SetupInv'
<1> DEFINE g == tf.status.stage.generation
           job == [number |-> used["jobs"] + 1, running |-> FALSE,
                   generation |-> worker.t.generation]
           status == [worker.t.status EXCEPT !.pluginsStarted = TRUE]
           copy == [worker.t EXCEPT !.status = status]
<1>1. TypeOK /\ ResourceInv /\ WorkerInv /\ PodsInv /\ ObjectsInv /\ PluginInv
  BY DEF SetupInv
<1>2. /\ worker.pc = "plugin" /\ jobs' = jobs \union {job}
      /\ used' = [used EXCEPT !["jobs"] = @ + 1]
      /\ UNCHANGED <<tf, objects, stale, pods, gitSecret, pluginReapers, noVolume>>
  BY DEF CreatePluginJob
<1>3. /\ worker.t \in Resource /\ worker.t.status \in Status
      /\ worker.t.generation = g /\ g \in Nat
  BY <1>1, <1>2, ResourceIs DEF WorkerInv, Removing, TypeOK
<1>4. worker' = [worker EXCEPT !.pc = "write", !.deferred = FALSE, !.t = copy]
  BY <1>1, <1>3 DEF CreatePluginJob, TypeOK, Worker, Resource, Status
<1>5. /\ status \in Status /\ status.stage = worker.t.status.stage
      /\ status.phase = worker.t.status.phase /\ status.pluginsStarted
  BY <1>3 DEF Status
<1> HIDE DEF status
<1>6. /\ copy \in Resource /\ copy.status = status /\ copy.generation = worker.t.generation
  BY <1>3, <1>5, StatusSet
<1> HIDE DEF copy
<1>7. /\ worker' \in Worker /\ worker'.pc = "write" /\ worker'.t = copy
      /\ ~worker'.deferred
  BY <1>1, <1>4, <1>6 DEF TypeOK, Worker, WorkerPC
<1>8. /\ used' \in [Counters -> Nat] /\ used["jobs"] \in Nat
      /\ used'["crashes"] = used["crashes"] /\ used'["faults"] = used["faults"]
      /\ Troubles \in Nat /\ Troubles' = Troubles
  BY <1>1, <1>2, CountersAre DEF TypeOK, Troubles
<1>9. TypeOK'
  <2>1. job \in Job
    BY <1>3, <1>8 DEF Job
  <2> HIDE DEF job
  <2>2. QED
    BY <1>1, <1>2, <1>7, <1>8, <2>1 DEF TypeOK
<1>10. ResourceInv' /\ GitInv'
  BY <1>1, <1>2, <1>7 DEF ResourceInv, GitInv
<1>11. WorkerInv'
  BY <1>1, <1>2, <1>3, <1>5, <1>6, <1>7 DEF WorkerInv, Removing, Creating
<1>12. PodsInv'
  BY <1>1, <1>2, <1>7 DEF PodsInv, Creating, IsChanged
<1>13. ObjectsInv'
  BY <1>1, <1>2, <1>7, ObjectsStay DEF Creating
<1>14. PluginInv'
  <2>1. Unstarted /\ ~Unstarted'
    BY <1>1, <1>2, <1>5, <1>6, <1>7 DEF Unstarted, WorkerInv
  <2>2. job.generation = g
    BY <1>3
  <2> HIDE DEF job
  <2>3. IsFiniteSet(jobs') /\ \A j \in jobs' : j.generation <= g
    BY <1>1, <1>2, <1>3, <2>2, FS_AddElement DEF PluginInv
  <2>4. ASSUME NEW h \in Nat
        PROVE  Cardinality(JobsOf(jobs', h)) <= 1 + Troubles
    <3>1. CASE h = g
      <4>1. JobsOf(jobs', h) = JobsOf(jobs, h) \union {job}
        BY <1>2, <2>2, <3>1 DEF JobsOf
      <4>2. /\ IsFiniteSet(JobsOf(jobs, h)) /\ Cardinality(JobsOf(jobs, h)) \in Nat
            /\ Cardinality(JobsOf(jobs, h)) <= Troubles
        BY <1>1, <2>1, <3>1, JobsCount DEF PluginInv
      <4>3. \/ Cardinality(JobsOf(jobs', h)) = Cardinality(JobsOf(jobs, h))
            \/ Cardinality(JobsOf(jobs', h)) = Cardinality(JobsOf(jobs, h)) + 1
        <5>1. CASE job \in JobsOf(jobs, h)
          <6>1. JobsOf(jobs', h) = JobsOf(jobs, h)
            BY <4>1, <5>1
          <6>2. QED
            BY <6>1
        <5>2. CASE job \notin JobsOf(jobs, h)
          BY <4>1, <4>2, <5>2, FS_AddElement
        <5>3. QED
          BY <5>1, <5>2
      <4>4. QED
        BY <1>8, <4>2, <4>3
    <3>2. CASE h # g
      <4>1. JobsOf(jobs', h) = JobsOf(jobs, h)
        BY <1>2, <2>2, <3>2 DEF JobsOf
      <4>2. QED
        BY <1>1, <4>1 DEF PluginInv
    <3>3. QED
      BY <3>1, <3>2
  <2>5. QED
    BY <1>2, <1>8, <2>1, <2>3, <2>4 DEF PluginInv
<1>15. QED
  BY <1>9, <1>10, <1>11, <1>12, <1>13, <1>14 DEF SetupInv

-----------------------------------------------------------------------------
(***************************************************************************)
(* The finalizers and the users: the resource is removed, or its spec      *)
(* changes                                                                 *)
(***************************************************************************)
\* A reconcile that removes the resource begins, goes on or ends.
LEMMA RemovalStays ==
    ASSUME SetupInv, ~worker.deferred, worker.pc \in Removing \union {"idle"},
           worker' \in Worker, ~worker'.deferred,
           \/ worker'.pc = "idle"
           \/ /\ worker'.pc \in Removing /\ worker'.t.status.phase = "deleted"
              /\ worker'.t = tf \/ (worker'.t = worker.t /\ worker.pc \in Removing),
           worker'.pc = "remove" => ~gitSecret'.locked,
           gitSecret' \in [exists : BOOLEAN, locked : BOOLEAN, deleting : BOOLEAN],
           UNCHANGED <<tf, objects, stale, pods, jobs, pluginReapers, noVolume>>,
           UsedGrows
    PROVE  SetupInv'
<1>1. TypeOK /\ ResourceInv /\ WorkerInv /\ PodsInv /\ ObjectsInv /\ PluginInv
  BY DEF SetupInv
<1>2. TypeOK'
  BY <1>1 DEF TypeOK, UsedGrows
<1>3. worker'.pc \in Removing \union {"idle"}
  OBVIOUS
<1>4. ResourceInv' /\ GitInv'
  BY <1>1 DEF ResourceInv, GitInv
<1>5. WorkerInv'
  BY <1>1, <1>3 DEF WorkerInv, Removing, Creating, TypeOK, ResourceInv
<1>6. PodsInv'
  BY <1>1, <1>3 DEF PodsInv, Creating, Removing, IsChanged
<1>7. ObjectsInv'
  BY <1>1, <1>3, ObjectsStay DEF Creating, Removing
<1>8. Unstarted' => Unstarted
  BY <1>1 DEF Unstarted, WorkerInv, Removing
<1>9. PluginInv'
  BY <1>1, <1>8, PluginStays, SubsetIsFewer
<1>10. QED
  BY <1>2, <1>4, <1>5, <1>6, <1>7, <1>9 DEF SetupInv

LEMMA ReconcileDeletedStep == ASSUME SetupInv, ReconcileDeleted PROVE SetupInv'
<1>1. TypeOK /\ WorkerInv /\ worker.pc = "idle" /\ ~worker.deferred
  BY DEF SetupInv, ReconcileDeleted, Takes, WorkerInv
<1>2. /\ worker' \in Worker /\ worker'.pc = "unlock" /\ worker'.t = tf
      /\ ~worker'.deferred
  BY <1>1, IdleIsWorker DEF ReconcileDeleted, TypeOK, Worker, WorkerPC, Idle
<1>3. QED
  BY <1>1, <1>2, KeepsGrows, RemovalStays DEF ReconcileDeleted, Removing, TypeOK

LEMMA UnlockGitSecretStep == ASSUME SetupInv, UnlockGitSecret PROVE SetupInv'
<1>1. /\ TypeOK /\ WorkerInv /\ worker.pc = "unlock" /\ ~worker.deferred
      /\ worker.t.status.phase = "deleted"
      /\ UNCHANGED <<tf, objects, stale, pods, jobs, pluginReapers, noVolume>>
  BY DEF SetupInv, UnlockGitSecret, WorkerInv, Removing
<1>2. UsedGrows
  BY <1>1, KeepsGrows, FaultGrows DEF UnlockGitSecret
<1>3. CASE gitSecret' = Locked(ShouldBeLocked(worker.t)) /\ Goto("remove")
  <2>1. /\ worker' \in Worker /\ worker'.pc = "remove" /\ worker'.t = worker.t
        /\ ~worker'.deferred
    BY <1>1, <1>3, GotoIs DEF WorkerPC
  <2>2. ~ShouldBeLocked(worker.t)
    BY <1>1 DEF ShouldBeLocked
  <2>3. /\ gitSecret' \in [exists : BOOLEAN, locked : BOOLEAN, deleting : BOOLEAN]
        /\ ~gitSecret'.locked
    BY <1>1, <1>3, <2>2 DEF Locked, TypeOK, ShouldBeLocked
  <2>4. QED
    BY <1>1, <1>2, <2>1, <2>3, RemovalStays DEF Removing
<1>4. CASE Return /\ UNCHANGED gitSecret
  BY <1>1, <1>2, <1>4, IdleIsWorker, RemovalStays DEF Return, Removing, TypeOK
<1>5. QED
  BY <1>3, <1>4 DEF UnlockGitSecret

\* The generation of the stage is at most that of the resource.
LEMMA GenerationIs ==
    ASSUME TypeOK, ResourceInv
    PROVE  /\ tf.generation \in Nat /\ tf.status.stage.generation \in Nat
           /\ tf.generation # 0 /\ tf.status.stage.generation <= tf.generation
<1>1. tf.generation \in Nat /\ tf.status.stage.generation \in Nat
  BY ResourceIs DEF TypeOK
<1>2. tf.generation # 0 /\ tf.status.stage.generation <= tf.generation
  BY Zenon DEF ResourceInv
<1>3. QED
  BY <1>1, <1>2

LEMMA GenerationsGrow ==
    ASSUME NEW stage \in Nat, NEW old \in Nat, NEW new \in Nat,
           old # 0, stage <= old, new >= old
    PROVE  new # 0 /\ stage <= new
OBVIOUS

\* The spec, the finalizer or the deletion changes, and the status does not.
LEMMA SpecChanges ==
    ASSUME SetupInv, tf' \in Resource, tf'.status = tf.status,
           tf'.exists => tf.exists, tf.deleting => tf'.deleting,
           tf'.generation >= tf.generation,
           worker' = worker \/ (worker' = Idle /\ worker.pc = "remove"),
           UNCHANGED <<objects, stale, pods, jobs, gitSecret, pluginReapers, used, noVolume>>
    PROVE  SetupInv'
<1>1. TypeOK /\ ResourceInv /\ WorkerInv /\ PodsInv /\ ObjectsInv /\ PluginInv /\ GitInv
  BY DEF SetupInv
<1>2. Idle \in Worker /\ Idle.pc = "idle" /\ ~Idle.deferred
  BY IdleIsWorker
<1>3. TypeOK'
  BY <1>1, <1>2 DEF TypeOK
<1>4. ResourceInv'
  <2>1. tf'.generation \in Nat
    BY ResourceIs
  <2>2. tf'.generation # 0 /\ tf.status.stage.generation <= tf'.generation
    BY <1>1, <2>1, GenerationIs, GenerationsGrow, Zenon
  <2>3. QED
    BY <1>1, <2>2, Zenon DEF ResourceInv
<1>5. WorkerInv' /\ GitInv'
  BY <1>1, <1>2 DEF WorkerInv, GitInv, Removing, Creating, IsChanged
<1>6. PodsInv'
  BY <1>1, <1>2 DEF PodsInv, Creating, IsChanged
<1>7. ObjectsInv'
  <2>1. Established' = Established
    BY DEF Established
  <2>2. QED
    BY <1>1, <1>2, <2>1 DEF ObjectsInv, Creating
<1>8. Unstarted' => Unstarted
  BY <1>1, <1>2 DEF Unstarted, WorkerInv, Removing
<1>9. PluginInv'
  BY <1>1, <1>8, KeepsGrows, PluginStays, SubsetIsFewer
<1>10. QED
  BY <1>3, <1>4, <1>5, <1>6, <1>7, <1>9 DEF SetupInv

\* The finalizer of the resource.
LEMMA FinalizeIs ==
    ASSUME TypeOK, NEW finalizer \in BOOLEAN, Finalize(finalizer)
    PROVE  /\ tf' \in Resource /\ tf'.status = tf.status /\ tf'.deleting = tf.deleting
           /\ tf'.generation = tf.generation
           /\ tf'.exists = (finalizer \/ ~tf.deleting)
BY DEF TypeOK, Finalize, Resource

LEMMA ReconcileFinalizerStep == ASSUME SetupInv, ReconcileFinalizer PROVE SetupInv'
<1>1. TypeOK /\ WantsFinalizer \in BOOLEAN /\ tf.generation \in Nat
  BY ResourceIs DEF SetupInv, WantsFinalizer, TypeOK
<1>2. /\ tf' \in Resource /\ tf'.status = tf.status /\ tf'.deleting = tf.deleting
      /\ tf'.generation = tf.generation
  BY <1>1, FinalizeIs DEF ReconcileFinalizer
<1>3. tf.exists
  BY DEF ReconcileFinalizer, Takes
<1>4. QED
  BY <1>1, <1>2, <1>3, SpecChanges DEF ReconcileFinalizer

LEMMA RemoveFinalizerStep == ASSUME SetupInv, RemoveFinalizer PROVE SetupInv'
<1>1. /\ TypeOK /\ WorkerInv /\ worker.pc = "remove" /\ ~worker.deferred
      /\ worker.t.status.phase = "deleted" /\ tf.generation \in Nat
      /\ worker' = Idle
      /\ UNCHANGED <<objects, stale, pods, jobs, gitSecret, pluginReapers, noVolume>>
  BY ResourceIs DEF SetupInv, RemoveFinalizer, WorkerInv, Removing, TypeOK
<1>2. CASE worker.t = tf /\ Finalize(FALSE) /\ UNCHANGED used
  <2>1. tf.deleting
    BY <1>1, <1>2 DEF WorkerInv, DeletePhase
  <2>2. /\ tf' \in Resource /\ tf'.status = tf.status /\ tf'.deleting = tf.deleting
        /\ tf'.generation = tf.generation /\ ~tf'.exists
    BY <1>1, <1>2, <2>1 DEF TypeOK, Finalize, Resource
  <2>3. QED
    BY <1>1, <1>2, <2>2, SpecChanges
<1>3. CASE UNCHANGED tf /\ (UNCHANGED used \/ Fault)
  BY <1>1, <1>3, IdleIsWorker, KeepsGrows, FaultGrows, RemovalStays DEF Removing, TypeOK
<1>4. QED
  BY <1>2, <1>3 DEF RemoveFinalizer

LEMMA UserEditsStep == ASSUME SetupInv, UserEdits PROVE SetupInv'
<1>1. TypeOK /\ tf.generation \in Nat /\ Locks \subseteq BOOLEAN
  BY ResourceIs, SetupAssumption DEF SetupInv, TypeOK
<1>2. PICK l \in Locks, i \in BOOLEAN :
        tf' = [tf EXCEPT !.generation = @ + 1, !.lockSecret = l, !.ignoreDelete = i]
  BY DEF UserEdits
<1> DEFINE next == tf.generation + 1
<1>3. next \in Nat /\ next >= tf.generation
  BY <1>1
<1>4. tf' = [tf EXCEPT !.generation = next, !.lockSecret = l, !.ignoreDelete = i]
  BY <1>2
<1> HIDE DEF next
<1>5. /\ tf' \in Resource /\ tf'.status = tf.status /\ tf'.deleting = tf.deleting
      /\ tf'.generation = next /\ tf'.exists = tf.exists
  BY <1>1, <1>3, <1>4 DEF TypeOK, Resource
<1>6. QED
  BY <1>3, <1>5, SpecChanges DEF UserEdits

LEMMA UserDeletesStep == ASSUME SetupInv, UserDeletes PROVE SetupInv'
<1>1. TypeOK /\ tf.generation \in Nat /\ tf.exists
  BY ResourceIs DEF SetupInv, TypeOK, UserDeletes
<1> DEFINE next == tf.generation + 1
<1>2. next \in Nat /\ next >= tf.generation /\ tf.finalizer \in BOOLEAN
  BY <1>1, ResourceIs DEF TypeOK
<1>3. tf' = [tf EXCEPT !.deleting = TRUE, !.generation = next, !.exists = tf.finalizer]
  BY DEF UserDeletes
<1> HIDE DEF next
<1>4. /\ tf' \in Resource /\ tf'.status = tf.status /\ tf'.deleting
      /\ tf'.generation = next
  BY <1>1, <1>2, <1>3 DEF TypeOK, Resource
<1>5. QED
  BY <1>1, <1>2, <1>4, SpecChanges DEF UserDeletes

-----------------------------------------------------------------------------
(***************************************************************************)
(* The reconcile's first step                                              *)
(***************************************************************************)
LEMMA SetNewStageStep == ASSUME SetupInv, SetNewStage PROVE SetupInv'
<1>1. TypeOK /\ ResourceInv /\ WorkerInv /\ PodsInv /\ ObjectsInv /\ PluginInv
  BY DEF SetupInv
<1>2. worker.pc = "idle" /\ ~worker.deferred /\ tf.exists
      /\ UNCHANGED <<objects, stale, pods, jobs, gitSecret, worker, pluginReapers, used, noVolume>>
  BY <1>1 DEF SetNewStage, TakesFinalized, Takes, WorkerInv
<1>3. PICK s \in NextStage(Intake) : tf' = [tf EXCEPT !.status = s]
  BY DEF SetNewStage
<1>4. s \in Status /\ s.stage.generation = tf.generation /\ s.stage.reason # ""
  BY <1>1, NextStageIs
<1>5. /\ tf' \in Resource /\ tf'.status = s /\ tf'.exists
      /\ tf'.generation = tf.generation /\ tf'.deleting = tf.deleting
  BY <1>1, <1>2, <1>3, <1>4, StatusSet DEF TypeOK
<1>6. TypeOK'
  BY <1>1, <1>2, <1>5 DEF TypeOK
<1>7. /\ tf.generation \in Nat /\ tf.status.stage.generation \in Nat
      /\ tf.generation # 0 /\ tf.status.stage.generation <= tf.generation
  BY <1>1, GenerationIs
<1>8. ResourceInv' /\ WorkerInv' /\ GitInv'
  <2>1. tf'.generation # 0 /\ tf'.status.stage.generation <= tf'.generation
    <3>1. tf'.status = s /\ tf'.generation = tf.generation
      BY <1>5, Zenon
    <3>2. /\ tf'.generation # 0 /\ tf'.generation \in Nat
          /\ tf'.status.stage.generation = tf'.generation
      BY <1>4, <1>7, <3>1, Zenon
    <3>3. QED
      BY <3>2
  <2>2. s.phase \in DeletePhase => tf.deleting
    BY <1>1, NextStageIs, IntakeIs DEF ResourceInv
  <2>3. ResourceInv'
    BY <1>4, <1>5, <2>1, <2>2, Zenon DEF ResourceInv
  <2>4. QED
    BY <1>1, <1>2, <2>3 DEF WorkerInv, GitInv, Removing, Creating
<1>9. CASE /\ s.stage.reason \in {"TF_RESOURCE_CREATED", "GENERATION_CHANGE", "TF_RESOURCE_DELETED"}
           /\ s.stage.state = "initializing"
           /\ tf.status.stage.generation = 0 \/ tf.status.stage.generation # tf.generation
  <2>1. tf.status.stage.generation < tf.generation
    BY <1>7, <1>9
  <2>2. \A p \in pods : p.generation \in Nat
    BY <1>1 DEF TypeOK, Pod
  <2>3. \A p \in pods : p.generation # 0 /\ p.generation < tf.generation
    BY <1>1, <1>7, <2>1, <2>2 DEF PodsInv
  <2>4. PodsInv'
    <3>1. tf'.status.stage.generation = tf.generation /\ pods' = pods
      BY <1>2, <1>4, <1>5
    <3>2. QED
      BY <1>7, <2>2, <2>3, <3>1 DEF PodsInv
  <2>5. ~Established'
    <3>1. \A p \in pods : p.generation # tf.generation
      BY <1>7, <2>2, <2>3
    <3>2. QED
      BY <1>2, <1>4, <1>5, <1>9, <3>1 DEF Established
  <2>6. ObjectsInv'
    BY <1>1, <1>2, <2>5 DEF ObjectsInv, Creating
  <2>7. \A j \in jobs : j.generation \in Nat /\ j.generation < tf.generation
    BY <1>1, <1>7, <2>1 DEF TypeOK, Job, PluginInv
  <2>8. JobsOf(jobs, tf.generation) = {}
    BY <1>7, <2>7 DEF JobsOf
  <2>9. Cardinality(JobsOf(jobs, tf.generation)) = 0
    BY <2>8, FS_EmptySet
  <2>10. Troubles \in Nat /\ Troubles' = Troubles
    BY <1>1, <1>2, TroublesGrow, KeepsGrows DEF Troubles
  <2>11. PluginInv'
    <3>1. tf'.status.stage.generation = tf.generation /\ jobs' = jobs
      BY <1>2, <1>4, <1>5
    <3>2. /\ IsFiniteSet(jobs)
          /\ \A g \in Nat : Cardinality(JobsOf(jobs, g)) <= 1 + Troubles
      BY <1>1 DEF PluginInv
    <3>3. QED
      BY <1>7, <2>7, <2>9, <2>10, <3>1, <3>2 DEF PluginInv
  <2>12. QED
    BY <1>6, <1>8, <2>4, <2>6, <2>11 DEF SetupInv
<1>10. CASE /\ s.stage.reason = "COMPLETED"
            /\ tf.status.stage.generation = tf.generation
            /\ tf.status.stage.state = "complete"
            /\ s.pluginsStarted = tf.status.pluginsStarted
  <2>1. PodsInv'
    BY <1>1, <1>2, <1>4, <1>5, <1>10 DEF PodsInv, IsChanged, Creating
  <2>2. Established
    BY <1>10 DEF Established
  <2>3. ObjectsInv'
    BY <1>1, <1>2, <1>4, <1>5, <1>10, <2>2 DEF ObjectsInv, Creating
  <2>4. Unstarted' => Unstarted
    BY <1>2, <1>5, <1>10 DEF Unstarted
  <2>5. PluginInv'
    BY <1>1, <1>2, <1>4, <1>5, <1>10, <2>4, KeepsGrows, PluginStays, SubsetIsFewer
  <2>6. QED
    BY <1>6, <1>8, <2>1, <2>3, <2>5 DEF SetupInv
<1>11. QED
  BY <1>1, <1>9, <1>10, NextStageIs

\* The stage goes on, or its pod has succeeded.
LEMMA ObserveStageStep == ASSUME SetupInv, ObserveStage PROVE SetupInv'
<1> DEFINE s == Intake
<1>1. TypeOK /\ ResourceInv /\ WorkerInv /\ PodsInv /\ ObjectsInv /\ PluginInv
  BY DEF SetupInv
<1>2. worker.pc = "idle" /\ ~worker.deferred /\ tf.exists
      /\ UNCHANGED <<objects, stale, pods, jobs, gitSecret, worker, pluginReapers, used, noVolume>>
  BY <1>1 DEF ObserveStage, TakesSameStage, TakesFinalized, Takes, WorkerInv
<1>3. /\ s \in Status /\ s.stage = tf.status.stage
      /\ s.stage \in Stage
      /\ s.pluginsStarted = tf.status.pluginsStarted
      /\ s.phase \in DeletePhase => tf.deleting
  BY <1>1, IntakeIs, ResourceIs DEF ResourceInv, TypeOK
<1> HIDE DEF s
<1>4. PICK new \in Status :
        /\ tf' = [tf EXCEPT !.status = new]
        /\ new.pluginsStarted = s.pluginsStarted
        /\ new.phase \in DeletePhase => s.phase \in DeletePhase
        /\ \/ new.stage = s.stage
           \/ /\ new.stage.generation = s.stage.generation
              /\ new.stage.task = s.stage.task
              /\ new.stage.reason = s.stage.reason
              /\ Established
  <2>1. CASE /\ s.phase \in {"running", "deleting"}
             /\ tf' = [tf EXCEPT !.status = [s EXCEPT !.phase =
                          IF @ = "running" THEN "completed" ELSE "deleted"]]
    <3> DEFINE phase == IF s.phase = "running" THEN "completed" ELSE "deleted"
    <3>1. phase \in Phase /\ (phase \in DeletePhase => s.phase \in DeletePhase)
      BY <2>1 DEF Phase, DeletePhase
    <3>2. tf' = [tf EXCEPT !.status = [s EXCEPT !.phase = phase]]
      BY <2>1
    <3> HIDE DEF phase
    <3>3. /\ [s EXCEPT !.phase = phase] \in Status
          /\ [s EXCEPT !.phase = phase].stage = s.stage
          /\ [s EXCEPT !.phase = phase].phase = phase
          /\ [s EXCEPT !.phase = phase].pluginsStarted = s.pluginsStarted
      BY <1>3, <3>1, PhaseSet
    <3>4. QED
      BY <3>1, <3>2, <3>3
  <2>2. CASE /\ \E p \in StagePods : p.phase = "Succeeded"
             /\ tf' = [tf EXCEPT !.status = [s EXCEPT !.stage.state = "complete"]]
    <3> DEFINE stage == [s.stage EXCEPT !.state = "complete"]
    <3>1. /\ stage \in Stage /\ stage.generation = s.stage.generation
          /\ stage.task = s.stage.task /\ stage.reason = s.stage.reason
      BY <1>3 DEF Stage
    <3>2. tf' = [tf EXCEPT !.status = [s EXCEPT !.stage = stage]]
      BY <1>3, <2>2 DEF Status
    <3> HIDE DEF stage
    <3>3. /\ [s EXCEPT !.stage = stage] \in Status
          /\ [s EXCEPT !.stage = stage].stage = stage
          /\ [s EXCEPT !.stage = stage].phase = s.phase
          /\ [s EXCEPT !.stage = stage].pluginsStarted = s.pluginsStarted
      BY <1>3, <3>1, StageSet
    <3>4. Established
      BY <2>2 DEF Established, StagePods
    <3>5. QED
      BY <3>1, <3>2, <3>3, <3>4
  <2>3. QED
    BY <2>1, <2>2 DEF ObserveStage, s
<1>5. /\ tf' \in Resource /\ tf'.status = new /\ tf'.exists
      /\ tf'.generation = tf.generation /\ tf'.deleting = tf.deleting
  BY <1>1, <1>2, <1>4, StatusSet DEF TypeOK
<1>6. /\ tf'.status.stage.generation = tf.status.stage.generation
      /\ tf'.status.stage.task = tf.status.stage.task
      /\ tf'.status.stage.reason = tf.status.stage.reason
  BY <1>3, <1>4, <1>5
<1>7. TypeOK'
  BY <1>1, <1>2, <1>5 DEF TypeOK
<1>8. ResourceInv' /\ WorkerInv' /\ GitInv'
  <2>1. ResourceInv'
    BY <1>1, <1>3, <1>4, <1>5, <1>6 DEF ResourceInv
  <2>2. QED
    BY <1>1, <1>2, <2>1 DEF WorkerInv, GitInv, Removing, Creating
<1>9. PodsInv'
  BY <1>1, <1>2, <1>6 DEF PodsInv, IsChanged, Creating
<1>10. ObjectsInv'
  <2>1. Established' => Established
    BY <1>2, <1>3, <1>4, <1>5, <1>6 DEF Established
  <2>2. QED
    BY <1>1, <1>2, <1>6, <2>1 DEF ObjectsInv, Creating
<1>11. PluginInv'
  <2>1. Unstarted' => Unstarted
    BY <1>2, <1>3, <1>4, <1>5 DEF Unstarted
  <2>2. QED
    BY <1>1, <1>2, <1>6, <2>1, KeepsGrows, PluginStays, SubsetIsFewer
<1>12. QED
  BY <1>7, <1>8, <1>9, <1>10, <1>11 DEF SetupInv

LEMMA StartTaskStep == ASSUME SetupInv, StartTask PROVE SetupInv'
<1> DEFINE s == Intake
           copy == [tf EXCEPT !.status = s]
<1>1. TypeOK /\ ResourceInv /\ WorkerInv /\ PodsInv /\ ObjectsInv /\ PluginInv
  BY DEF SetupInv
<1>2. /\ worker.pc = "idle" /\ tf.exists /\ NextStage(s) = {}
      /\ tf.status.stage.task # RunNil
      /\ tf.status.stage.state = "initializing"
      /\ StagePods = {}
      /\ UNCHANGED <<tf, objects, stale, pods, jobs, gitSecret, pluginReapers, used, noVolume>>
  BY DEF StartTask, TakesSameStage, TakesFinalized, Takes
<1>3. /\ s \in Status /\ s.stage = tf.status.stage
      /\ s.pluginsStarted = tf.status.pluginsStarted
      /\ s.phase \in DeletePhase => tf.deleting
      /\ tf.status.pluginsStarted \in BOOLEAN /\ tf.status.stage.reason \in Reason
  BY <1>1, IntakeIs, ResourceIs DEF ResourceInv, TypeOK
<1>4. worker' = [pc |-> IF IsChanged(tf) THEN "lock" ELSE "check", t |-> copy,
                 step |-> 1, deferred |-> DefersPlugin(s)]
  BY DEF StartTask
<1>5. DefersPlugin(s) \in BOOLEAN /\ (DefersPlugin(s) => ~tf.status.pluginsStarted)
  BY <1>3 DEF DefersPlugin
<1>6. tf.status.stage.generation = tf.generation /\ tf.generation # 0
  BY <1>1, <1>2, <1>3 DEF NextStage, ResourceInv
<1> HIDE DEF s
<1>7. /\ copy \in Resource /\ copy.status = s /\ copy.generation = tf.generation
  BY <1>1, <1>3, StatusSet DEF TypeOK
<1> HIDE DEF copy
<1>8. /\ worker' \in Worker /\ worker'.t = copy /\ worker'.step = 1
      /\ worker'.pc = (IF IsChanged(tf) THEN "lock" ELSE "check")
      /\ worker'.deferred = DefersPlugin(s)
  BY <1>4, <1>5, <1>7, OrderIs DEF Worker, WorkerPC
<1>9. ~IsChanged(tf) => tf.status.stage.reason = "COMPLETED"
  BY <1>1, <1>3, <1>6 DEF IsChanged, Reason, ResourceInv
<1>10. TypeOK'
  BY <1>1, <1>2, <1>8 DEF TypeOK
<1>11. ResourceInv' /\ GitInv'
  BY <1>1, <1>2, <1>8 DEF ResourceInv, GitInv
<1>12. WorkerInv'
  <2>1. worker'.pc \notin Removing \union {"idle", "plugin"}
    BY <1>8 DEF Removing
  <2>2. worker'.pc \in Creating => IsChanged(tf)
    BY <1>8 DEF Creating
  <2>3. IsChanged(tf)' = IsChanged(tf)
    BY <1>2 DEF IsChanged
  <2>4. worker'.pc = "check" => ~IsChanged(tf)
    BY <1>8
  <2>5. worker'.deferred => ~worker'.t.status.pluginsStarted
    BY <1>3, <1>5, <1>7, <1>8
  <2>6. QED
    BY <1>2, <1>3, <1>6, <1>7, <1>8, <1>9, <2>1, <2>2, <2>3, <2>4, <2>5 DEF WorkerInv
<1>13. PodsInv'
  <2>1. IsChanged(tf) => \A p \in pods : p.generation # tf.status.stage.generation
    BY <1>1, <1>2 DEF PodsInv, StagePods
  <2>2. QED
    BY <1>1, <1>2, <1>8, <2>1 DEF PodsInv, IsChanged, Creating
<1>14. ObjectsInv'
  <2>1. Established' = Established
    BY <1>2 DEF Established
  <2>2. ~\E i \in 1 .. Len(RunOrder) : i < 1
    BY OrderIs
  <2>3. QED
    BY <1>1, <1>2, <1>8, <2>1, <2>2 DEF ObjectsInv
<1>15. PluginInv'
  <2>1. Unstarted' => Unstarted
    BY <1>2, <1>3, <1>5, <1>8 DEF Unstarted
  <2>2. QED
    BY <1>1, <1>2, <2>1, KeepsGrows, PluginStays, SubsetIsFewer
<1>16. QED
  BY <1>10, <1>11, <1>12, <1>13, <1>14, <1>15 DEF SetupInv

-----------------------------------------------------------------------------
(***************************************************************************)
(* What runs beside the reconcile                                          *)
(***************************************************************************)
\* The plugins' jobs, their reapers, the cache and the git secret; the reconcile
\* is lost only in a crash.
LEMMA BesideStays ==
    ASSUME SetupInv, UNCHANGED <<tf, objects, pods, noVolume>>, stale' \subseteq stale,
           worker' = worker \/ (worker' = Idle /\ Troubles' > Troubles),
           UsedGrows, JobsFewer, pluginReapers' \subseteq Nat,
           gitSecret' \in [exists : BOOLEAN, locked : BOOLEAN, deleting : BOOLEAN],
           gitSecret'.locked => gitSecret.locked
    PROVE  SetupInv'
<1>1. TypeOK /\ ResourceInv /\ WorkerInv /\ PodsInv /\ ObjectsInv /\ PluginInv /\ GitInv
  BY DEF SetupInv
<1>2. Idle \in Worker /\ Idle.pc = "idle" /\ ~Idle.deferred
  BY IdleIsWorker
<1>3. worker' \in Worker /\ (worker' = worker \/ worker' = Idle)
  BY <1>1, <1>2 DEF TypeOK
<1>4. TypeOK'
  BY <1>1, <1>3 DEF TypeOK, UsedGrows, JobsFewer
<1>5. ResourceInv' /\ GitInv'
  BY <1>1, <1>2, <1>3 DEF ResourceInv, GitInv
<1>6. WorkerInv' /\ PodsInv'
  BY <1>1, <1>2, <1>3 DEF WorkerInv, PodsInv, Removing, Creating, IsChanged
<1>7. ObjectsInv'
  BY <1>1, <1>2, <1>3, ObjectsStay DEF ObjectsInv, Creating, Established
<1>8. Unstarted' => Unstarted \/ Troubles' > Troubles
  BY <1>1 DEF Unstarted
<1>9. PluginInv'
  BY <1>1, <1>8, PluginStays
<1>10. QED
  BY <1>4, <1>5, <1>6, <1>7, <1>9 DEF SetupInv

LEMMA CreateJobStep == ASSUME SetupInv, CreateJob PROVE SetupInv'
<1>1. TypeOK /\ PluginInv
      /\ UNCHANGED <<tf, objects, stale, pods, gitSecret, worker, pluginReapers, noVolume>>
  BY DEF SetupInv, CreateJob
<1>2. UsedGrows
  BY <1>1, KeepsGrows, FaultGrows DEF CreateJob
<1>3. PICK j \in jobs : \/ jobs' = (jobs \ {j}) \union {[j EXCEPT !.running = TRUE]}
                        \/ jobs' = jobs \ {j}
  BY DEF CreateJob
<1>4. CASE jobs' = (jobs \ {j}) \union {[j EXCEPT !.running = TRUE]}
  <2> DEFINE i == [j EXCEPT !.running = TRUE]
  <2>1. i \in Job /\ i.generation = j.generation
    BY <1>1 DEF TypeOK, Job
  <2> HIDE DEF i
  <2>2. jobs' = (jobs \ {j}) \union {i}
    BY <1>4 DEF i
  <2>3. IsFiniteSet(jobs')
    BY <1>1, <2>2, FS_RemoveElement, FS_AddElement DEF PluginInv
  <2>4. ASSUME NEW g \in Nat
        PROVE  /\ Cardinality(JobsOf(jobs', g)) \in Nat
               /\ Cardinality(JobsOf(jobs', g)) <= Cardinality(JobsOf(jobs, g))
    <3> DEFINE rest == JobsOf(jobs, g) \ {j}
    <3>1. IsFiniteSet(JobsOf(jobs, g)) /\ Cardinality(JobsOf(jobs, g)) \in Nat
      BY <1>1, JobsCount
    <3>2. CASE j.generation = g
      <4>1. j \in JobsOf(jobs, g) /\ JobsOf(jobs', g) = rest \union {i}
        BY <1>3, <2>1, <2>2, <3>2 DEF JobsOf
      <4>2. /\ IsFiniteSet(rest) /\ Cardinality(rest) \in Nat
            /\ Cardinality(rest) = Cardinality(JobsOf(jobs, g)) - 1
        BY <3>1, <4>1, FS_RemoveElement, FS_CardinalityType
      <4> HIDE DEF rest
      <4>3. CASE i \in rest
        <5>1. JobsOf(jobs', g) = rest
          BY <4>1, <4>3
        <5>2. QED
          BY <3>1, <4>2, <5>1
      <4>4. CASE i \notin rest
        <5>1. Cardinality(JobsOf(jobs', g)) = Cardinality(rest) + 1
          BY <4>1, <4>2, <4>4, FS_AddElement
        <5>2. QED
          BY <3>1, <4>2, <5>1
      <4>5. QED
        BY <4>3, <4>4
    <3>3. CASE j.generation # g
      <4>1. JobsOf(jobs', g) = JobsOf(jobs, g)
        BY <1>3, <2>1, <2>2, <3>3 DEF JobsOf
      <4>2. QED
        BY <3>1, <4>1
    <3>4. QED
      BY <3>2, <3>3
  <2>5. JobsFewer
    <3>1. jobs' \subseteq Job /\ \A k \in jobs' : \E l \in jobs : l.generation = k.generation
      BY <1>1, <1>3, <2>1, <2>2 DEF TypeOK
    <3>2. QED
      BY <2>3, <2>4, <3>1 DEF JobsFewer
  <2>6. QED
    BY <1>1, <1>2, <2>5, BesideStays DEF TypeOK
<1>5. CASE jobs' = jobs \ {j}
  BY <1>1, <1>2, <1>5, SubsetIsFewer, BesideStays DEF TypeOK
<1>6. QED
  BY <1>3, <1>4, <1>5

LEMMA PluginReaperStep ==
    ASSUME SetupInv, PluginReaperReads \/ PluginReaperDeletes PROVE SetupInv'
<1>1. TypeOK /\ PluginInv
      /\ UNCHANGED <<tf, objects, stale, pods, gitSecret, worker, noVolume>>
  BY DEF SetupInv, PluginReaperReads, PluginReaperDeletes
<1>2. UsedGrows
  BY <1>1, KeepsGrows, FaultGrows DEF PluginReaperReads, PluginReaperDeletes
<1>3. jobs' \subseteq jobs
  BY DEF PluginReaperReads, PluginReaperDeletes
<1>4. pluginReapers' \subseteq Nat
  <2>1. tf.generation \in Nat
    BY <1>1, ResourceIs DEF TypeOK
  <2>2. QED
    BY <1>1, <2>1 DEF PluginReaperReads, PluginReaperDeletes, TypeOK
<1>5. QED
  BY <1>1, <1>2, <1>3, <1>4, SubsetIsFewer, BesideStays DEF TypeOK

LEMMA CrashStep == ASSUME SetupInv, Crash PROVE SetupInv'
<1>1. TypeOK /\ PluginInv /\ worker' = Idle /\ pluginReapers' = {} /\ jobs' \subseteq jobs
      /\ UNCHANGED <<tf, objects, stale, pods, gitSecret, noVolume>>
  BY DEF SetupInv, Crash
<1>2. Uses("crashes", MaxCrashes) /\ UsedGrows
  BY <1>1, UsesGrows, CountersAre DEF Crash
<1>3. Troubles' > Troubles
  <2>1. used'["crashes"] = used["crashes"] + 1 /\ used'["faults"] = used["faults"]
    BY <1>1, <1>2, UsesCounts, CountersAre
  <2>2. used["crashes"] \in Nat /\ used["faults"] \in Nat
    BY <1>1, CountersAre DEF TypeOK
  <2>3. QED
    BY <2>1, <2>2 DEF Troubles
<1>4. QED
  BY <1>1, <1>2, <1>3, SubsetIsFewer, BesideStays DEF TypeOK

LEMMA CacheCatchesUpStep == ASSUME SetupInv, CacheCatchesUp PROVE SetupInv'
<1>1. TypeOK /\ PluginInv /\ stale' \subseteq stale
      /\ UNCHANGED <<tf, objects, pods, jobs, gitSecret, worker, pluginReapers, used, noVolume>>
  BY DEF SetupInv, CacheCatchesUp
<1>2. QED
  BY <1>1, KeepsGrows, SubsetIsFewer, BesideStays DEF TypeOK

LEMMA UserDeletesGitSecretStep ==
    ASSUME SetupInv, UserDeletesGitSecret PROVE SetupInv'
<1>1. TypeOK /\ PluginInv
      /\ UNCHANGED <<tf, objects, stale, pods, jobs, worker, pluginReapers, noVolume>>
  BY DEF SetupInv, UserDeletesGitSecret
<1>2. UsedGrows
  BY <1>1, UsesGrows, CountersAre DEF UserDeletesGitSecret
<1>3. /\ gitSecret' \in [exists : BOOLEAN, locked : BOOLEAN, deleting : BOOLEAN]
      /\ gitSecret'.locked = gitSecret.locked
  BY <1>1 DEF UserDeletesGitSecret, TypeOK
<1>4. QED
  BY <1>1, <1>2, <1>3, SubsetIsFewer, BesideStays DEF TypeOK

LEMMA GarbageCollectorStep == ASSUME SetupInv, GarbageCollector PROVE SetupInv'
<1>1. TypeOK /\ ResourceInv /\ WorkerInv /\ PluginInv /\ GitInv
  BY DEF SetupInv
<1>2. /\ ~tf.exists /\ objects' = {} /\ stale' = {} /\ pods' = {} /\ jobs' \subseteq jobs
      /\ UNCHANGED <<tf, gitSecret, worker, pluginReapers, used, noVolume>>
  BY DEF GarbageCollector
<1>3. TypeOK'
  BY <1>1, <1>2 DEF TypeOK
<1>4. ResourceInv' /\ GitInv' /\ WorkerInv' /\ PodsInv' /\ ObjectsInv'
  BY <1>1, <1>2 DEF ResourceInv, GitInv, WorkerInv, PodsInv, ObjectsInv, IsChanged
<1>5. Unstarted' => Unstarted
  BY <1>2 DEF Unstarted
<1>6. PluginInv'
  BY <1>1, <1>2, <1>5, KeepsGrows, PluginStays, SubsetIsFewer
<1>7. QED
  BY <1>3, <1>4, <1>6 DEF SetupInv

LEMMA PodMovesStep == ASSUME SetupInv, PodMoves PROVE SetupInv'
<1>1. TypeOK /\ ResourceInv /\ WorkerInv /\ PodsInv /\ ObjectsInv /\ PluginInv /\ GitInv
  BY DEF SetupInv
<1>2. UNCHANGED <<tf, objects, stale, jobs, gitSecret, worker, pluginReapers, used, noVolume>>
  BY DEF PodMoves
<1>3. PICK p \in pods, phase \in {"Running", "Succeeded"} :
        pods' = (pods \ {p}) \union {[p EXCEPT !.phase = phase]}
  BY DEF PodMoves
<1> DEFINE q == [p EXCEPT !.phase = phase]
<1>4. q \in Pod /\ q.generation = p.generation /\ q.task = p.task
  BY <1>1 DEF TypeOK, Pod
<1> HIDE DEF q
<1>5. pods' = (pods \ {p}) \union {q}
  BY <1>3 DEF q
<1>6. TypeOK'
  BY <1>1, <1>2, <1>4, <1>5 DEF TypeOK
<1>7. ResourceInv' /\ GitInv' /\ WorkerInv'
  BY <1>1, <1>2 DEF ResourceInv, GitInv, WorkerInv, IsChanged
<1>8. PodsInv'
  BY <1>1, <1>2, <1>4, <1>5 DEF PodsInv, IsChanged
<1>9. ObjectsInv'
  <2>1. Established' => Established
    BY <1>2, <1>4, <1>5 DEF Established
  <2>2. QED
    BY <1>1, <1>2, <2>1 DEF ObjectsInv
<1>10. Unstarted' => Unstarted
  BY <1>2 DEF Unstarted
<1>11. PluginInv'
  BY <1>1, <1>2, <1>10, KeepsGrows, PluginStays, SubsetIsFewer
<1>12. QED
  BY <1>6, <1>7, <1>8, <1>9, <1>11 DEF SetupInv

-----------------------------------------------------------------------------
(***************************************************************************)
(* The invariant                                                           *)
(***************************************************************************)
LEMMA SetupInvInit == Init => SetupInv
<1> SUFFICES ASSUME Init PROVE SetupInv
  OBVIOUS
<1>1. PICK c \in Controllers, w \in Whens, p \in PluginTasks, l \in Locks :
        tf = NewResource(c, w, p, l)
  BY DEF Init
<1> DEFINE stage == [generation |-> 0, task |-> RunNil, reason |-> "",
                     interruptible |-> FALSE, state |-> ""]
           status == [phase |-> "initializing", pluginsStarted |-> FALSE, stage |-> stage]
<1>2. stage \in Stage
  BY DEF Stage, Reason
<1>3. status \in Status /\ status.stage = stage /\ status.phase = "initializing"
  BY <1>2 DEF Status, Phase
<1>4. stage.generation = 0 /\ stage.reason = "" /\ stage.state = ""
  OBVIOUS
<1>5. /\ tf.status = status /\ tf.generation = 1
  BY <1>1 DEF NewResource
<1> HIDE DEF stage
<1>6. tf \in Resource
  <2>1. l \in BOOLEAN
    BY SetupAssumption
  <2>2. tf = [exists |-> TRUE, controller |-> c, when |-> w, pluginTask |-> p,
              generation |-> 1, lockSecret |-> l, ignoreDelete |-> FALSE,
              deleting |-> FALSE, finalizer |-> FALSE, status |-> status]
    BY <1>1 DEF NewResource, stage
  <2> HIDE DEF status
  <2>3. QED
    BY <1>3, <2>1, <2>2 DEF Resource
<1> HIDE DEF status
<1>7. /\ objects = {} /\ stale = {} /\ pods = {} /\ jobs = {} /\ worker = Idle
      /\ gitSecret = [exists |-> TRUE, locked |-> FALSE, deleting |-> FALSE]
      /\ pluginReapers = {} /\ used = [d \in Counters |-> 0] /\ noVolume = FALSE
  BY DEF Init
<1>8. TypeOK
  BY <1>6, <1>7, IdleIsWorker DEF TypeOK
<1>9. ResourceInv
  <2>1. /\ tf.status.stage.generation = 0 /\ tf.generation = 1
        /\ tf.status.phase = "initializing"
    BY <1>3, <1>4, <1>5
  <2>2. tf.status.phase \notin DeletePhase
    BY <2>1 DEF DeletePhase
  <2>3. /\ tf.generation # 0 /\ tf.status.stage.generation <= tf.generation
        /\ ~(tf.status.stage.generation # 0)
    BY <2>1
  <2>4. QED
    BY <2>2, <2>3, Zenon DEF ResourceInv
<1>10. WorkerInv /\ PodsInv /\ GitInv
  BY <1>7, IdleIsWorker DEF WorkerInv, PodsInv, GitInv, Removing, Creating
<1>11. ObjectsInv
  <2>1. ~Established
    BY <1>3, <1>4, <1>5, <1>7 DEF Established
  <2>2. QED
    BY <1>7, <2>1, IdleIsWorker DEF ObjectsInv, Creating
<1>12. PluginInv
  <2>1. IsFiniteSet(jobs) /\ \A j \in jobs : j.generation <= tf.status.stage.generation
    BY <1>7, FS_EmptySet
  <2>2. \A g : JobsOf(jobs, g) = {}
    BY <1>7 DEF JobsOf
  <2>3. \A g : Cardinality(JobsOf(jobs, g)) = 0
    BY <2>2, FS_EmptySet
  <2>4. Troubles = 0
    BY <1>7, CountersAre DEF Troubles
  <2>5. QED
    BY <2>1, <2>3, <2>4 DEF PluginInv
<1>13. QED
  BY <1>8, <1>9, <1>10, <1>11, <1>12 DEF SetupInv

LEMMA SetupInvNext == SetupInv /\ [Next]_vars => SetupInv'
<1> SUFFICES ASSUME SetupInv, [Next]_vars PROVE SetupInv'
  OBVIOUS
<1>1. CASE Reconciles
  BY <1>1, ReconcileFinalizerStep, ReconcileDeletedStep, SetNewStageStep,
     ObserveStageStep, StartTaskStep DEF Reconciles
<1>2. CASE Requests
  BY <1>2, LockGitSecretStep, LoadGitSecretStep, CreateEnvStep, CreatePVCStep,
     DeleteOldStep, TofuDeleteOldStep, CreateObjectStep, CheckObjectsStep,
     CreatePodStep, WriteStatusStep, CreatePluginJobStep, UnlockGitSecretStep,
     RemoveFinalizerStep DEF Requests
<1>3. CASE Goroutines \/ Crash
  BY <1>3, CreateJobStep, PluginReaperStep, CrashStep DEF Goroutines
<1>4. CASE CacheCatchesUp \/ GarbageCollector \/ PodMoves
  BY <1>4, CacheCatchesUpStep, GarbageCollectorStep, PodMovesStep
<1>5. CASE Users
  BY <1>5, UserEditsStep, UserDeletesStep, UserDeletesGitSecretStep DEF Users
<1>6. CASE UNCHANGED vars
  <2>1. TypeOK /\ PluginInv
    BY DEF SetupInv
  <2>2. UsedGrows /\ JobsFewer
    BY <1>6, <2>1, KeepsGrows, SubsetIsFewer DEF vars
  <2>3. QED
    BY <1>6, <2>1, <2>2, BesideStays DEF vars, TypeOK
<1>7. QED
  BY <1>1, <1>2, <1>3, <1>4, <1>5, <1>6 DEF Next

LEMMA SetupIsInv == Spec => []SetupInv
BY SetupInvInit, SetupInvNext, PTL DEF Spec

\* Every variable keeps its type, whatever fails, lags or crashes between two
\* requests of setupAndRun.
THEOREM SetupTypes == Spec => []TypeOK
<1>1. SetupInv => TypeOK
  BY DEF SetupInv
<1>2. QED
  BY <1>1, SetupIsInv, PTL

\* The pod of the current generation that waits to start finds the environment,
\* the volume, the secret, the config map and the service account that it mounts:
\* setupAndRun creates the pod only after run has created every object of the
\* generation or found it, and what run deletes it creates again before a pod of
\* that generation exists.  Only a volume that createPVC could not look up may be
\* missing.
THEOREM PodsFindObjects == Spec => []PodsFindTheirObjects
<1>1. SetupInv => PodsFindTheirObjects
  <2> SUFFICES ASSUME SetupInv, NEW p \in pods, p.generation = tf.generation, tf.exists
               PROVE  Needs(p.generation) \subseteq objects \/ noVolume
    BY DEF PodsFindTheirObjects
  <2>1. TypeOK /\ ResourceInv /\ PodsInv /\ ObjectsInv
    BY DEF SetupInv
  <2>2. /\ tf.generation \in Nat /\ tf.status.stage.generation \in Nat
        /\ tf.status.stage.generation <= tf.generation
    BY <2>1, GenerationIs
  <2>3. p.generation <= tf.status.stage.generation
    BY <2>1 DEF PodsInv
  <2>4. p.generation = tf.status.stage.generation
    BY <2>2, <2>3
  <2>5. Established
    BY <2>4 DEF Established
  <2>6. Sound(p.generation, objects, noVolume)
    BY <2>1, <2>4, <2>5 DEF ObjectsInv
  <2>7. QED
    BY <2>6 DEF Sound
<1>2. QED
  BY <1>1, SetupIsInv, PTL

\* A generation's plugin is started once, and once more for every crash and every
\* failed request: the reconcile that has asked for the job holds a copy that
\* says so, and only a write of the status that fails or is never made loses it.
THEOREM PluginIsRunOnce == Spec => []PluginRunsOnce
<1>1. SetupInv => PluginRunsOnce
  <2> SUFFICES ASSUME SetupInv, NEW g \in 1 .. MaxGeneration
               PROVE  Cardinality({j \in jobs : j.generation = g})
                        <= 1 + used["crashes"] + used["faults"]
    BY DEF PluginRunsOnce
  <2>1. TypeOK /\ PluginInv
    BY DEF SetupInv
  <2>2. g \in Nat /\ used["crashes"] \in Nat /\ used["faults"] \in Nat
    BY <2>1, SetupAssumption, CountersAre DEF TypeOK
  <2>3. Cardinality(JobsOf(jobs, g)) \in Nat /\ Cardinality(JobsOf(jobs, g)) <= 1 + Troubles
    BY <2>1, <2>2, JobsCount DEF PluginInv
  <2>4. JobsOf(jobs, g) = {j \in jobs : j.generation = g}
    BY DEF JobsOf
  <2>5. QED
    BY <2>2, <2>3, <2>4 DEF Troubles
<1>2. QED
  BY <1>1, SetupIsInv, PTL

\* A resource whose destroy workflow is over goes only after the finalizer of its
\* git secret: updateFinalizer comes after updateSecretFinalizer, nothing locks the
\* secret in between, and no other step removes a resource in that phase.
THEOREM GitSecretIsReleased == Spec => GitSecretsReleased
<1>1. ASSUME SetupInv, [Next]_vars, tf.exists, ~tf'.exists, tf.status.phase = "deleted"
      PROVE  ~gitSecret'.locked
  <2>1. TypeOK /\ ResourceInv /\ GitInv
    BY <1>1 DEF SetupInv
  <2>2. tf.deleting
    BY <1>1, <2>1 DEF ResourceInv, DeletePhase
  <2>3. CASE RemoveFinalizer
    BY <2>1, <2>3 DEF RemoveFinalizer, GitInv
  <2>4. CASE ReconcileFinalizer \/ SetNewStage \/ ObserveStage \/ UserDeletes
    BY <1>1, <2>2, <2>4 DEF ReconcileFinalizer, SetNewStage, ObserveStage, TakesSameStage,
       TakesFinalized, UserDeletes
  <2>5. CASE UserEdits \/ WriteStatus
    <3>1. tf'.exists = tf.exists
      BY <2>1, <2>5 DEF UserEdits, WriteStatus, TypeOK, Resource
    <3>2. QED
      BY <1>1, <3>1
  <2>6. tf' # tf
    BY <1>1
  <2>7. QED
    BY <1>1, <2>3, <2>4, <2>5, <2>6 DEF Next, Reconciles, Requests, Goroutines, Users, vars,
       ReconcileDeleted, StartTask, LockGitSecret, LoadGitSecret, CreateEnv, CreatePVC,
       DeleteOld, TofuDeleteOld, CreateObject, CheckObjects, CreatePod, CreatePluginJob,
       UnlockGitSecret, CreateJob, PluginReaperReads, PluginReaperDeletes, Crash,
       CacheCatchesUp, GarbageCollector, PodMoves, UserDeletesGitSecret
<1>2. SetupInv /\ [Next]_vars =>
        [(tf.exists /\ ~tf'.exists /\ tf.status.phase = "deleted") => ~gitSecret'.locked]_vars
  BY <1>1
<1>3. QED
  BY <1>2, SetupIsInv, PTL DEF Spec, GitSecretsReleased
=============================================================================
