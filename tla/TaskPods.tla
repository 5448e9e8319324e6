------------------------------ MODULE TaskPods ------------------------------
(***************************************************************************)
(* What the spec of a Terraform or Tofu resource makes of its task pods:   *)
(* newTaskOptions gathers the task options of a task, the first task of a  *)
(* generation writes the config map that all its pods share, generatePod   *)
(* puts a pod together from the options, the plugins and the approval      *)
(* sidecar, and the entrypoint of the pod (infrakube-task-entrypoint,      *)
(* main.rs) picks the script to run and numbers the run.  The spec does    *)
(* not change: one generation, one workflow, with retries.  Pods run one   *)
(* at a time here; Workflow has the interleavings of their life.  There is *)
(* one plugin, with a name of its own or with the name of the approval.    *)
(*                                                                         *)
(* A script is known by the number of the task option it comes from.       *)
(***************************************************************************)
EXTENDS Tasks, Integers, SequencesExt

CONSTANTS
    Kinds,     \* "terraform" and "tofu": the controllers
    Fors,      \* the sets of tasks that a task option may be for
    Optional,  \* the tasks whose presence is varied
    Whens,     \* when the plugin may run
    Budget     \* retries and failed tasks; a task option takes two of them

Every    == "*"
Plugin == "scan"
Approval == "require-approval"
Selector == {"none", "whole", "keyless"}
UserLabel == {"generation", "instance", "resourceName", "isPlugin"}

ASSUME TaskPodsAssumption ==
    /\ Kinds # {} /\ Kinds \subseteq {"terraform", "tofu"}
    /\ Fors \subseteq SUBSET (Task \union {Every, Plugin, Approval})
    /\ Optional \subseteq Task
    /\ Whens \subseteq {"At", "After", "Sidecar"}
    /\ Budget \in Nat

VARIABLES
    spec,        \* the kind and the spec, and whether it is being deleted
    stage,       \* status.stage: its task, its reason and its state
    data,        \* the files of the generation's config map, each with the
                 \* number of its option, 0 for the controller's own
    pod,         \* the pod of the stage
    started,     \* the plugin is in status.pluginsStarted
    script,      \* what the last pod ran
    logs,        \* the run numbers of the log files of each task, oldest first
    rejected,    \* history: the task whose pod the API server refused last
    used         \* how much of Budget is used up

vars == <<spec, stage, data, pod, started, script, logs, rejected, used>>
-----------------------------------------------------------------------------
(***************************************************************************)
(* The spec.  An option has a script, or volumes and mounts, or labels.    *)
(***************************************************************************)
Option == [for : SUBSET (Task \union {Every, Plugin, Approval}),
           inline : BOOLEAN, selector : Selector, source : BOOLEAN,
           volumes : SUBSET {"data", "ssh"}, mounts : SUBSET {"data", "ssh"},
           labels : SUBSET UserLabel]

Plain(for) == [for |-> for, inline |-> FALSE, selector |-> "none",
               source |-> FALSE, volumes |-> {}, mounts |-> {}, labels |-> {}]

ScriptOptions ==
    {[Plain(f) EXCEPT !.inline = i, !.selector = s, !.source = u] :
        f \in Fors, i \in BOOLEAN, s \in Selector, u \in BOOLEAN}

\* The right and the wrong ways to add a volume, and labels of the system's.
PodOptions ==
    {[Plain(f) EXCEPT !.volumes = v[1], !.mounts = v[2]] :
        f \in Fors, v \in {<<{"data"}, {"data"}>>, <<{"data"}, {}>>,
                           <<{}, {"data"}>>, <<{"ssh"}, {"ssh"}>>}}
    \union {[Plain(f) EXCEPT !.labels = UserLabel] : f \in Fors}

Lists(S) == {<<>>} \union {<<o>> : o \in S} \union S \X S

NoPlugin == [name |-> Plugin, when |-> "", task |-> RunNil, must |-> FALSE]

\* spec.plugins is a map from names that the user chooses.
PluginConfig ==
    {p \in [name : {Plugin, Approval}, when : Whens, task : {"setup", "plan"},
            must : BOOLEAN] : p.must => p.when = "Sidecar"} \union {NoPlugin}

\* The scripts and the pods are asked about one at a time: an option of the one
\* kind says nothing of the other.
Specs == [kind : Kinds, deleting : BOOLEAN, plugin : {NoPlugin},
          options : Lists(ScriptOptions) \union
                    {<<Plain(S)>> : S \in SUBSET Optional},
          approval : {FALSE}]
         \union
         [kind : {CHOOSE k \in Kinds : TRUE}, deleting : BOOLEAN,
          plugin : PluginConfig, options : Lists(PodOptions),
          approval : BOOLEAN]

\* getConfiguredTasks: the default tasks and those that an option names.
configuredTasks(options) ==
    DefaultTasks \union
    {t \in Task : \E i \in DOMAIN options : t \in options[i].for}
-----------------------------------------------------------------------------
(***************************************************************************)
(* newTaskOptions.                                                         *)
(***************************************************************************)
\* The options that apply to t, and those that name it: only they have its
\* script.
Applying(options, t) ==
    {i \in DOMAIN options : {t, Every} \intersect options[i].for # {}}
Naming(options, t) == {i \in DOMAIN options : t \in options[i].for}

Latest(S) == IF S = {} THEN 0 ELSE Max(S)

\* The class of a task: tfTaskList, scriptTaskList or setupTaskList.
Class(kind, t) ==
    CASE t \in {"init", "plan", "apply",
                "init-delete", "plan-delete", "apply-delete"} -> kind
      [] t \in {"setup", "setup-delete"} -> "setup"
      [] t \in Task -> "noop"
      [] OTHER -> "plugin"

NoFile == <<"none", RunNil>>

\* The source of a task's script.  A later option that names the task sets the
\* URL again, also to nothing, and the name and key of the config map if it has
\* a selector; an inline script of any of them makes the file of the task.
newTaskOptions(s, t) ==
    LET naming == Naming(s.options, t)
        last   == Latest(naming)
        url    == IF last # 0 /\ s.options[last].source THEN last ELSE 0
        chosen == Latest({i \in naming : s.options[i].selector # "none"})
        keyed  == chosen # 0 /\ s.options[chosen].selector = "whole"
        inline == \E i \in naming : s.options[i].inline
        useDefault == ~inline /\ url = 0 /\ ~keyed
    IN  [url |-> url, selector |-> chosen, keyed |-> keyed,
         file |-> IF inline THEN <<"inline", t>>
                  ELSE IF useDefault /\ Class(s.kind, t) # "plugin"
                  THEN <<"default", Class(s.kind, t)>>
                  ELSE NoFile]

\* The config map of the generation: the default files, and the inline scripts
\* under the names of their tasks, a later option over an earlier one.
defaultFiles(kind) == {<<"default", c>> : c \in {kind, "setup", "noop"}}
Files(kind) == defaultFiles(kind) \union
               {<<"inline", t>> : t \in Task \union {Plugin, Approval}}

\* Mutant: the earlier option's script stays.
ConfigMapDataOfFirst(s) ==
    [f \in {x \in Files(s.kind) : x[1] = "inline" =>
               \E i \in Naming(s.options, x[2]) : s.options[i].inline} |->
        IF f[1] = "default" THEN 0
        ELSE Min({i \in Naming(s.options, f[2]) : s.options[i].inline})]

ConfigMapData(s) ==
    [f \in {x \in Files(s.kind) : x[1] = "inline" =>
               \E i \in Naming(s.options, x[2]) : s.options[i].inline} |->
        IF f[1] = "default" THEN 0
        ELSE Max({i \in Naming(s.options, f[2]) : s.options[i].inline})]
-----------------------------------------------------------------------------
(***************************************************************************)
(* generatePod.                                                            *)
(***************************************************************************)
Reserved == {"infrakubehome", "config-map-source", "main-module-addons",
             "gitaskpass", "ssh"}

\* Volumes: each has an entry of its own, with the task and the option that it
\* comes from (0 for the controller's own) and its name.  Their order decides
\* nothing.
Names(volumes) == {v[2] : v \in volumes}

Repeats(volumes) == \E v, w \in volumes : v # w /\ v[2] = w[2]

\* The volumes that the options of the task add, and the names of the mounts.
UserVolumes(s, t) ==
    UNION {{<<t, i>>} \X s.options[i].volumes : i \in Applying(s.options, t)}
UserMounts(s, t) == UNION {s.options[i].mounts : i \in Applying(s.options, t)}

\* validateVolume: no name of the system's own volumes, a mount for each volume
\* and a volume for each mount.
validateVolume(s, t) ==
    /\ Names(UserVolumes(s, t)) \intersect Reserved = {}
    /\ Names(UserVolumes(s, t)) = UserMounts(s, t)

\* The volumes of the pod by themselves: the config map of the script is there
\* only when it has a name and a key.
PodVolumes(s, t) ==
    UserVolumes(s, t) \union
    {<<t, 0>>} \X {v \in Reserved :
                     v = "config-map-source" => newTaskOptions(s, t).keyed}

\* The labels of the pod and where their values come from: the resource's own
\* are written over the user's.
SystemLabels(t) == {"generation", "instance", "resourceName"} \union
                   (IF t \in Task THEN {} ELSE {"isPlugin"})
UserLabels(s, t) == UNION {s.options[i].labels : i \in Applying(s.options, t)}

\* Mutant: the user's labels are written last.
PodLabelsOfUser(s, t) ==
    [l \in SystemLabels(t) \union UserLabels(s, t) |->
        IF l \in UserLabels(s, t) THEN "user" ELSE "system"]

PodLabels(s, t) ==
    [l \in SystemLabels(t) \union UserLabels(s, t) |->
        IF l \in SystemLabels(t) THEN "system" ELSE "user"]

\* Whether the plugin runs in the pod of task t, or as a job beside it.
IsSidecar(s, t) == s.plugin.when = "Sidecar" /\ s.plugin.task = t
IsJob(s, t) == \/ s.plugin.when = "At" /\ s.plugin.task = t
               \/ s.plugin.when = "After" /\ ID[s.plugin.task] < ID[t]

NeedsApproval(s, t) == s.approval /\ t \in {"plan", "plan-delete"}

\* A sidecar without which no pod may be created cannot be generated: the
\* reconcile stops before it sets the pod up and is queued again.
SidecarFails(s, t) ==
    \/ IsSidecar(s, t) /\ s.plugin.must /\ ~validateVolume(s, s.plugin.name)
    \/ NeedsApproval(s, t) /\ ~validateVolume(s, Approval)

\* The containers of a pod: whose image they run, and their names.
TaskContainer     == <<"controller", "task">>
ApprovalContainer == <<"controller", Approval>>

\* The plugin that is a sidecar of the pod of task t.  It is left out when its
\* pod cannot be generated.
PluginSidecars(s, t) ==
    IF IsSidecar(s, t) /\ validateVolume(s, s.plugin.name)
    THEN <<<<"plugin", s.plugin.name>>>>
    ELSE <<>>

\* Mutant: the approval is waited for in create workflows only.
SidecarsOfPlan(s, t) ==
    LET plugins == PluginSidecars(s, t)
    IN  IF s.approval /\ t = "plan" /\ Approval \notin Names(ToSet(plugins))
        THEN plugins \o <<ApprovalContainer>>
        ELSE plugins

\* The sidecars of the pod of task t, in order: none whose container has the
\* name of an earlier one, so that a plugin called require-approval takes the
\* place of the controller's.
Sidecars(s, t) ==
    LET plugins == PluginSidecars(s, t)
    IN  IF NeedsApproval(s, t) /\ Approval \notin Names(ToSet(plugins))
        THEN plugins \o <<ApprovalContainer>>
        ELSE plugins

\* Mutant: a sidecar brings all its volumes.
AddAllVolumes(volumes, more) == volumes \union more

\* The volumes of a sidecar are added to the pod's, except those whose names
\* the pod has.
AddVolumes(volumes, more) ==
    volumes \union {v \in more : v[2] \notin Names(volumes)}

NoPod == [task |-> RunNil]

\* The pod of task t.
generatePod(s, t) ==
    [task |-> t, source |-> newTaskOptions(s, t), labels |-> PodLabels(s, t),
     volumes |-> FoldLeft(LAMBDA v, c : AddVolumes(v, PodVolumes(s, c[2])),
                          PodVolumes(s, t), Sidecars(s, t)),
     mounts |-> UserMounts(s, t) \union
                UNION {UserMounts(s, c[2]) : c \in ToSet(Sidecars(s, t))},
     containers |-> <<TaskContainer>> \o Sidecars(s, t)]

\* The API server refuses a pod with two volumes or two containers of one name,
\* or a mount without a volume.
Malformed(p) == \/ Repeats(p.volumes)
                \/ \E i, j \in DOMAIN p.containers :
                       i # j /\ p.containers[i][2] = p.containers[j][2]
                \/ ~(p.mounts \subseteq Names(p.volumes))
-----------------------------------------------------------------------------
(***************************************************************************)
(* The entrypoint of the pod.                                              *)
(***************************************************************************)
\* The first of the mounted inline file, the mounted file of the selected config
\* map (found: the config map has the key, and not empty) and the URL.
ChooseScript(source, files, found) ==
    IF source.file \in DOMAIN files
    THEN [from |-> source.file[1], option |-> files[source.file]]
    ELSE IF source.keyed /\ found
    THEN [from |-> "configMap", option |-> source.selector]
    ELSE IF source.url # 0 THEN [from |-> "source", option |-> source.url]
    ELSE [from |-> "nothing", option |-> 0]

\* The highest run number in the names of the log files of the tasks of S.
Highest(S) == Max({-1} \union UNION {ToSet(logs[t]) : t \in S})

\* Mutant: a run after a later task's is not a new one.
get_current_rerunOfLater(t) ==
    LET own  == Highest({t})
        prev == Highest(Earlier(t, CreateTask))
        next == Highest(Later(t, CreateTask))
    IN  CASE t \in DeleteTask -> 10
          [] t \in CreateTask /\ next >= own /\ next >= 0 -> next
          [] OTHER -> IF prev > own THEN prev ELSE own + 1

\* get_current_rerun: a run after a later task's is a new one, a run after an
\* earlier task's is the same one; the tasks of a destroy workflow have one
\* number.
get_current_rerun(t) ==
    LET own  == Highest({t})
        prev == Highest(Earlier(t, CreateTask))
        next == Highest(Later(t, CreateTask))
    IN  IF t \in DeleteTask THEN 10
        ELSE IF next > own THEN next + 1
        ELSE IF prev > own THEN prev
        ELSE own + 1
-----------------------------------------------------------------------------
(***************************************************************************)
(* The workflow.                                                           *)
(***************************************************************************)
NoScript == [task |-> RunNil, from |-> "nothing", option |-> 0, found |-> FALSE]

NoData == [f \in {} |-> 0]

TypeOK ==
    /\ spec \in Specs
    /\ stage \in [task : TaskName, changed : BOOLEAN,
                  state : {"initializing", "in-progress", "failed"}]
    /\ DOMAIN data \subseteq Files(spec.kind)
    /\ pod # NoPod <=> stage.state = "in-progress"
    /\ started \in BOOLEAN
    /\ script.task \in TaskName /\ rejected \in TaskName
    /\ logs \in [Task -> Seq(Nat)]
    /\ used \in 0..Budget

Init ==
    /\ spec \in Specs
    /\ used = Min({Budget, 2 * Len(spec.options)})
    /\ stage = [task |-> IF spec.deleting THEN "setup-delete" ELSE "setup",
                changed |-> TRUE, state |-> "initializing"]
    /\ data = NoData
    /\ pod = NoPod
    /\ started = FALSE
    /\ script = NoScript
    /\ logs = [t \in Task |-> <<>>]
    /\ rejected = RunNil

\* The job of the plugin is created by a deferred call, so also when setupAndRun
\* fails, in a goroutine that does not look at generatePod's error: without a pod
\* it panics, and the controller may stop before the plugin is in the status.
CreatePluginJob ==
    IF IsJob(spec, stage.task) /\ ~started
    THEN started' \in IF validateVolume(spec, spec.plugin.name)
                      THEN {TRUE} ELSE BOOLEAN
    ELSE UNCHANGED started

\* setupAndRun and run: the first task of the generation writes the config map,
\* the others find it.
PrepareGeneration ==
    IF stage.changed THEN data' = ConfigMapData(spec)
                     ELSE data # NoData /\ UNCHANGED data

\* The reconcile that finds no pod for its stage: the pod is created.
StartTask ==
    /\ stage.task # RunNil /\ stage.state = "initializing"
    /\ ~SidecarFails(spec, stage.task)
    /\ validateVolume(spec, stage.task)
    /\ ~Malformed(generatePod(spec, stage.task))
    /\ PrepareGeneration
    /\ CreatePluginJob
    /\ pod' = generatePod(spec, stage.task)
    /\ stage' = [stage EXCEPT !.state = "in-progress"]
    /\ UNCHANGED <<spec, script, logs, rejected, used>>

\* The pod cannot be generated, or the API server refuses it: the reconcile
\* returns the error and is tried again.
StartFails ==
    /\ stage.task # RunNil /\ stage.state = "initializing"
    /\ ~SidecarFails(spec, stage.task)
    /\ \/ /\ ~validateVolume(spec, stage.task)
          /\ UNCHANGED rejected
       \/ /\ validateVolume(spec, stage.task)
          /\ Malformed(generatePod(spec, stage.task))
          /\ rejected' = stage.task
    /\ PrepareGeneration
    /\ CreatePluginJob
    /\ UNCHANGED <<spec, stage, pod, script, logs, used>>

\* The entrypoint of the task's container: it numbers the run, finds the script,
\* and leaves a log once the script is started.  A script that cannot be
\* downloaded is not.
RunTask ==
  \E found \in IF pod.source.keyed THEN BOOLEAN ELSE {FALSE} :
    LET choice == ChooseScript(pod.source, data, found)
    IN  /\ script' = [task |-> pod.task, from |-> choice.from,
                      option |-> choice.option, found |-> found]
        /\ \/ /\ choice.from # "nothing"
              /\ logs' = [logs EXCEPT ![pod.task] =
                             Append(@, get_current_rerun(pod.task))]
           \/ /\ choice.from \in {"nothing", "source"}
              /\ UNCHANGED logs

\* The pod succeeds: the next task of the workflow is up.
PodSucceeds ==
    /\ pod # NoPod
    /\ RunTask
    /\ logs' # logs
    /\ stage' = [task |-> nextTask(pod.task, configuredTasks(spec.options)),
                 changed |-> FALSE, state |-> "initializing"]
    /\ pod' = NoPod
    /\ UNCHANGED <<spec, data, started, rejected, used>>

\* Mutant: the stage is not told that its pod failed.
StageAfterFailureOfApply(t) ==
    IF t \notin {"apply", "apply-delete"}
    THEN stage
    ELSE [task |-> nextTask(IF t = "apply" THEN "postinit" ELSE "postinit-delete",
                            configuredTasks(spec.options)),
          changed |-> FALSE, state |-> "initializing"]

\* The stage after the pod of task t failed: a failed apply is planned again,
\* another task waits.
StageAfterFailure(t) ==
    IF t \notin {"apply", "apply-delete"}
    THEN [stage EXCEPT !.state = "failed"]
    ELSE [task |-> nextTask(IF t = "apply" THEN "postinit" ELSE "postinit-delete",
                            configuredTasks(spec.options)),
          changed |-> FALSE, state |-> "initializing"]

PodFails ==
    /\ pod # NoPod
    /\ used < Budget
    /\ RunTask
    /\ stage' = StageAfterFailure(pod.task)
    /\ pod' = NoPod
    /\ used' = used + 1
    /\ UNCHANGED <<spec, data, started, rejected>>

\* A new label starts the workflow again, from init or from setup.
Retry ==
    /\ pod = NoPod
    /\ used < Budget
    /\ \E t \in IF spec.deleting THEN {"setup-delete", "init-delete"}
                ELSE {"setup", "init"} :
          stage' = [task |-> t, changed |-> FALSE, state |-> "initializing"]
    /\ used' = used + 1
    /\ UNCHANGED <<spec, data, pod, started, script, logs, rejected>>

Next == \/ StartTask
        \/ StartFails
        \/ PodSucceeds
        \/ PodFails
        \/ Retry

Spec == Init /\ [][Next]_vars
-----------------------------------------------------------------------------
(***************************************************************************)
(* Properties.                                                             *)
(***************************************************************************)
\* The task options that name a task leave it at most three scripts: the latest
\* inline one, that of the latest selector, and the URL of the last of these
\* options, whose Source replaces an earlier one's also when it is empty
\* (tf_controller.go:421): a source given earlier is then lost, and the default
\* may run in its place.  Of the three scripts that are left, the one that the
\* doc of StageScript ranks first runs (tf_types.go:437-441), the default when
\* there is none.  The options are read when a pod is made and the files when
\* its generation was set up, in another reconcile, and a retry does not write
\* them again.
ScriptsFollowPrecedence ==
    script # NoScript =>
        LET naming   == Naming(spec.options, script.task)
            inlines  == {i \in naming : spec.options[i].inline}
            selector == Latest({i \in naming : spec.options[i].selector # "none"})
            keyed    == selector # 0 /\ spec.options[selector].selector = "whole"
            last     == Latest(naming)
            url      == last # 0 /\ spec.options[last].source
        IN  <<script.from, script.option>> =
                CASE inlines # {} -> <<"inline", Max(inlines)>>
                  [] inlines = {} /\ keyed /\ script.found ->
                        <<"configMap", selector>>
                  [] inlines = {} /\ ~(keyed /\ script.found) /\ url ->
                        <<"source", last>>
                  [] OTHER -> <<IF keyed THEN "nothing" ELSE "default", 0>>

\* A pod is refused only for what its user repeated: the names of the system's
\* volumes, of the options' and of the sidecars' never meet in one pod.
OnlyRepeatsAreRejected ==
    rejected # RunNil => \E t \in {rejected, Plugin, Approval} :
                            Repeats(UserVolumes(spec, t))

\* No plan of a resource that asks for approval starts without a container that
\* holds it, also when the controller's sidecar cannot be generated; and that
\* container is the controller's unless the user called a sidecar of this very
\* plan require-approval (the check at tf_controller.go:955-963).
PlansAwaitApproval ==
    pod # NoPod /\ pod.task \in {"plan", "plan-delete"} /\ spec.approval =>
        \E c \in ToSet(pod.containers) :
            /\ c[2] = Approval
            /\ c = ApprovalContainer \/ (/\ IsSidecar(spec, pod.task)
                                        /\ spec.plugin.name = Approval)

\* The labels by which the reconcile and the reapers select a pod hold what the
\* controller wrote, whatever labels the options ask for.
PodsBearTheirLabels ==
    pod # NoPod => \A l \in {"generation", "instance", "resourceName"} :
                      l \in DOMAIN pod.labels /\ pod.labels[l] = "system"

\* The runs of a task are numbered upwards in the names of its log files,
\* through retries and restarts of the workflow in any order.
RunNumbersGrow ==
    \A t \in CreateTask : \A i, j \in DOMAIN logs[t] :
        i < j => logs[t][i] < logs[t][j]

-----------------------------------------------------------------------------
(***************************************************************************)
(* The order of the tasks, against the loop of the source: it walks the    *)
(* order of the workflow, arms a flag when it meets the current task, and  *)
(* stops at the first configured task it meets with the flag armed.        *)
(***************************************************************************)
TasksInOrder == <<"setup", "preinit", "init", "postinit", "preplan", "plan",
                  "postplan", "preapply", "apply", "postapply">>
DeleteTasksInOrder == <<"setup-delete", "preinit-delete", "init-delete",
                        "postinit-delete", "preplan-delete", "plan-delete",
                        "postplan-delete", "preapply-delete", "apply-delete",
                        "postapply-delete">>

Scan(order, current, conf) ==
    FoldLeft(LAMBDA s, t :
                IF s.next # RunNil THEN s
                ELSE IF t = current THEN [s EXCEPT !.isUpNext = TRUE]
                ELSE IF s.isUpNext /\ t \in conf THEN [s EXCEPT !.next = t]
                ELSE s,
             [isUpNext |-> FALSE, next |-> RunNil], order).next

\* nextTask returns what the loops of tf_controller.go:1318-1370 return.
NextTaskIsTheLoop ==
    LET conf == configuredTasks(spec.options)
    IN  nextTask(stage.task, conf) =
            Scan(IF stage.task \in CreateTask THEN TasksInOrder
                 ELSE DeleteTasksInOrder, stage.task, conf)
=============================================================================
