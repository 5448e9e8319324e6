----------------------------- MODULE PodProofs -----------------------------
(***************************************************************************)
(* What the pods of a workflow run, for every list of task options: the    *)
(* script of a task, its labels, volumes and sidecars, the number of its   *)
(* run and the task after it.                                              *)
(***************************************************************************)
EXTENDS TaskPods, TasksProofs, WellFoundedInduction

-----------------------------------------------------------------------------
(***************************************************************************)
(* Maxima                                                                  *)
(***************************************************************************)
\* A set of numbers with an upper bound has a maximum.
LEMMA BoundedHasMax ==
    ASSUME NEW S, S \subseteq Int, NEW m \in Int, \A x \in S : x <= m, S # {}
    PROVE  Max(S) \in S /\ \A y \in S : y <= Max(S)
<1> DEFINE T == {n \in Nat : m - n \in S}
           R == {p \in Nat \X Nat : p[1] < p[2]}
<1>1. R = OpToRel(<, Nat)
  BY DEF OpToRel
<1>2. IsWellFoundedOn(R, Nat)
  BY <1>1, NatLessThanWellFounded
<1>3. \A j, k \in Nat : j < k => <<j, k>> \in R
  OBVIOUS
<1> HIDE DEF R
<1>4. PICK x \in S : TRUE
  OBVIOUS
<1>5. m - x \in Nat /\ m - (m - x) = x
  BY <1>4
<1>6. T # {} /\ T \subseteq Nat
  BY <1>4, <1>5
<1>7. PICK n \in T : \A k \in T : ~(<<k, n>> \in R)
  BY <1>2, <1>6, WFMin
<1>8. \A k \in T : n <= k
  <2>1. \A k \in T : ~(k < n)
    BY <1>3, <1>6, <1>7
  <2>2. QED
    BY <1>6, <2>1
<1>9. \A y \in S : m - n >= y
  <2> SUFFICES ASSUME NEW y \in S PROVE m - n >= y
    OBVIOUS
  <2>1. m - y \in Nat /\ m - (m - y) = y
    OBVIOUS
  <2>2. n <= m - y
    BY <1>8, <2>1
  <2>3. QED
    BY <2>1, <2>2
<1>10. \E z \in S : \A y \in S : z >= y
  BY <1>9
<1>11. Max(S) \in S /\ \A y \in S : Max(S) >= y
  BY <1>10 DEF Max
<1>12. QED
  BY <1>11

-----------------------------------------------------------------------------
(***************************************************************************)
(* The numbers of the runs                                                 *)
(***************************************************************************)
\* No run has a number above this one.
Highs == {m \in Nat : \A t \in Task : \A i \in DOMAIN logs[t] : logs[t][i] <= m}

LogsInv ==
    /\ logs \in [Task -> Seq(Nat)]
    /\ Highs # {}
    /\ RunNumbersGrow

LEMMA HighestIs ==
    ASSUME LogsInv, NEW S, S \subseteq Task
    PROVE  /\ Highest(S) \in Int /\ Highest(S) >= -1
           /\ \A u \in S : \A i \in DOMAIN logs[u] : logs[u][i] <= Highest(S)
           /\ \A m \in Highs : Highest(S) <= m
<1> DEFINE numbers == UNION {ToSet(logs[t]) : t \in S}
           all == {-1} \union numbers
<1>1. \A t \in Task : logs[t] \in Seq(Nat)
  BY DEF LogsInv
<1>2. \A n \in numbers : \E t \in S : \E i \in DOMAIN logs[t] : n = logs[t][i]
  BY DEF ToSet
<1>3. \A t \in S : \A i \in DOMAIN logs[t] : logs[t][i] \in Nat
  BY <1>1
<1>4. numbers \subseteq Nat
  BY <1>2, <1>3
<1>5. \A m \in Highs : m \in Nat /\ \A n \in numbers : n <= m
  BY <1>2 DEF Highs
<1>6. \A t \in S : \A i \in DOMAIN logs[t] : logs[t][i] \in all
  BY DEF ToSet
<1> HIDE DEF numbers
<1>7. all \subseteq Int /\ -1 \in all /\ \A m \in Highs : m \in Int /\ \A n \in all : n <= m
  BY <1>4, <1>5
<1>8. Highest(S) = Max(all)
  BY DEF Highest, numbers
<1> HIDE DEF all
<1>9. PICK m \in Highs : TRUE
  BY DEF LogsInv
<1>10. Max(all) \in all /\ \A n \in all : n <= Max(all)
  BY <1>7, <1>9, BoundedHasMax
<1>11. QED
  BY <1>6, <1>7, <1>8, <1>10

LEMMA RunIsNew ==
    ASSUME LogsInv, NEW t \in Task
    PROVE  /\ get_current_rerun(t) \in Nat
           /\ \A m \in Highs : get_current_rerun(t) <= m + 10
           /\ t \in CreateTask =>
                \A i \in DOMAIN logs[t] : logs[t][i] < get_current_rerun(t)
<1> DEFINE own == Highest({t})
           prev == Highest(Earlier(t, CreateTask))
           next == Highest(Later(t, CreateTask))
<1>1. CreateTask \subseteq Task
  BY DEF Task
<1>2. {t} \subseteq Task /\ Earlier(t, CreateTask) \subseteq Task /\ Later(t, CreateTask) \subseteq Task
  BY <1>1 DEF Earlier, Later
<1>3. /\ own \in Int /\ own >= -1
      /\ \A i \in DOMAIN logs[t] : logs[t][i] <= own
      /\ \A m \in Highs : own <= m
  BY <1>2, HighestIs
<1>4. prev \in Int /\ prev >= -1 /\ \A m \in Highs : prev <= m
  BY <1>2, HighestIs
<1>5. next \in Int /\ next >= -1 /\ \A m \in Highs : next <= m
  BY <1>2, HighestIs
<1>6. get_current_rerun(t) = IF t \in DeleteTask THEN 10
                             ELSE IF next > own THEN next + 1
                             ELSE IF prev > own THEN prev
                             ELSE own + 1
  BY DEF get_current_rerun
<1> HIDE DEF own, prev, next
<1>7. Highs \subseteq Nat /\ \A i \in DOMAIN logs[t] : logs[t][i] \in Nat
  BY DEF Highs, LogsInv
<1>8. QED
  BY <1>3, <1>4, <1>5, <1>6, <1>7, CreateIsNotDelete

\* The log file of a run.
LEMMA LogsGrow ==
    ASSUME LogsInv, NEW t \in Task,
           logs' = [logs EXCEPT ![t] = Append(@, get_current_rerun(t))]
    PROVE  LogsInv'
<1> DEFINE run == get_current_rerun(t)
<1>1. /\ run \in Nat /\ \A m \in Highs : run <= m + 10
      /\ t \in CreateTask => \A i \in DOMAIN logs[t] : logs[t][i] < run
  BY RunIsNew
<1>2. logs \in [Task -> Seq(Nat)]
  BY DEF LogsInv
<1>3. logs' = [logs EXCEPT ![t] = Append(@, run)]
  OBVIOUS
<1> HIDE DEF run
<1>4. logs' \in [Task -> Seq(Nat)]
  BY <1>1, <1>2, <1>3
<1>5. logs'[t] = Append(logs[t], run) /\ \A u \in Task \ {t} : logs'[u] = logs[u]
  BY <1>2, <1>3
<1>6. /\ Len(logs[t]) \in Nat /\ DOMAIN logs[t] = 1 .. Len(logs[t])
      /\ DOMAIN logs'[t] = 1 .. (Len(logs[t]) + 1)
      /\ \A i \in 1 .. Len(logs[t]) : logs'[t][i] = logs[t][i]
      /\ logs'[t][Len(logs[t]) + 1] = run
  BY <1>1, <1>2, <1>5
<1>7. \A i \in DOMAIN logs'[t] : i \in DOMAIN logs[t] \/ i = Len(logs[t]) + 1
  BY <1>6
<1>8. Highs' # {}
  <2>1. PICK m \in Highs : TRUE
    BY DEF LogsInv
  <2>2. m \in Nat /\ \A u \in Task : \A i \in DOMAIN logs[u] : logs[u][i] <= m
    BY <2>1 DEF Highs
  <2>3. \A u \in Task : \A i \in DOMAIN logs[u] : logs[u][i] \in Nat
    BY <1>2
  <2>4. \A u \in Task : \A i \in DOMAIN logs[u] : logs[u][i] <= m + 10
    BY <2>2, <2>3
  <2>5. \A i \in DOMAIN logs'[t] : logs'[t][i] <= m + 10
    BY <1>1, <1>6, <1>7, <2>4
  <2>6. \A u \in Task : \A i \in DOMAIN logs'[u] : logs'[u][i] <= m + 10
    BY <1>5, <2>4, <2>5
  <2>7. m + 10 \in Nat
    BY <2>2
  <2>8. QED
    BY <2>6, <2>7 DEF Highs
<1>9. RunNumbersGrow'
  <2> SUFFICES ASSUME NEW u \in CreateTask,
                      NEW i \in DOMAIN logs'[u], NEW j \in DOMAIN logs'[u], i < j
               PROVE  logs'[u][i] < logs'[u][j]
    BY DEF RunNumbersGrow
  <2>1. u \in Task /\ RunNumbersGrow
    BY DEF Task, LogsInv
  <2>2. CASE u # t
    BY <1>5, <2>1, <2>2 DEF RunNumbersGrow
  <2>3. CASE u = t
    <3>1. i \in 1 .. Len(logs[t])
      BY <1>6, <2>3
    <3>2. CASE j \in 1 .. Len(logs[t])
      BY <1>6, <2>1, <2>3, <3>1, <3>2 DEF RunNumbersGrow
    <3>3. CASE j = Len(logs[t]) + 1
      BY <1>1, <1>6, <2>3, <3>1, <3>3
    <3>4. QED
      BY <1>6, <2>3, <3>2, <3>3
  <2>4. QED
    BY <2>2, <2>3
<1>10. QED
  BY <1>4, <1>8, <1>9 DEF LogsInv

-----------------------------------------------------------------------------
(***************************************************************************)
(* The pod and its script                                                  *)
(***************************************************************************)
\* generatePod, the volumes left out.
LEMMA PodIs ==
    ASSUME NEW s, NEW t
    PROVE  /\ generatePod(s, t).task = t
           /\ generatePod(s, t).source = newTaskOptions(s, t)
           /\ generatePod(s, t).labels = PodLabels(s, t)
           /\ generatePod(s, t).containers = <<TaskContainer>> \o Sidecars(s, t)
<1> DEFINE volumes == FoldLeft(LAMBDA v, c : AddVolumes(v, PodVolumes(s, c[2])),
                               PodVolumes(s, t), Sidecars(s, t))
           mounts == UserMounts(s, t) \union
                     UNION {UserMounts(s, c[2]) : c \in ToSet(Sidecars(s, t))}
           p == [task |-> t, source |-> newTaskOptions(s, t), labels |-> PodLabels(s, t),
                 volumes |-> volumes, mounts |-> mounts,
                 containers |-> <<TaskContainer>> \o Sidecars(s, t)]
<1>1. generatePod(s, t) = p
  BY DEF generatePod
<1> HIDE DEF volumes, mounts
<1>2. QED
  BY <1>1

\* The class of a task is one that has a default file.
LEMMA ClassOfTask ==
    ASSUME NEW kind \in Kinds, NEW t \in Task
    PROVE  Class(kind, t) \in {kind, "setup", "noop"} /\ Class(kind, t) # "plugin"
<1>1. kind \in {"terraform", "tofu"}
  BY TaskPodsAssumption
<1>2. QED
  BY <1>1 DEF Class

LEMMA SpecIs ==
    ASSUME NEW s \in Specs
    PROVE  /\ s.kind \in Kinds /\ s.approval \in BOOLEAN
           /\ s.plugin.name \in {Plugin, Approval}
           /\ Len(s.options) \in Nat
<1>1. (CHOOSE k \in Kinds : TRUE) \in Kinds
  BY TaskPodsAssumption
<1>2. \A S : \A l \in Lists(S) : Len(l) \in Nat
  BY DEF Lists
<1>3. \A o : Len(<<o>>) \in Nat
  OBVIOUS
<1>4. s.kind \in Kinds /\ s.approval \in BOOLEAN
  BY <1>1 DEF Specs
<1>5. \/ s.options \in Lists(ScriptOptions) \/ s.options \in Lists(PodOptions)
      \/ \E o : s.options = <<o>>
  BY DEF Specs
<1>6. s.plugin.name \in {Plugin, Approval}
  <2>1. s.plugin \in PluginConfig
    <3>1. NoPlugin \in PluginConfig
      BY DEF PluginConfig
    <3>2. s.plugin = NoPlugin \/ s.plugin \in PluginConfig
      BY DEF Specs
    <3>3. QED
      BY <3>1, <3>2
  <2>2. \A p \in PluginConfig : p.name \in {Plugin, Approval}
    <3> DEFINE all == [name : {Plugin, Approval}, when : Whens,
                       task : {"setup", "plan"}, must : BOOLEAN]
    <3>1. PluginConfig \subseteq all \union {NoPlugin}
      BY Zenon DEF PluginConfig
    <3>2. \A p \in all : p.name \in {Plugin, Approval}
      OBVIOUS
    <3>3. NoPlugin.name = Plugin
      BY DEF NoPlugin
    <3> HIDE DEF all
    <3>4. QED
      BY <3>1, <3>2, <3>3
  <2>3. QED
    BY <2>1, <2>2
<1>7. QED
  BY <1>2, <1>3, <1>4, <1>5, <1>6

\* What the entrypoint runs when the files are those that the generation's first
\* task wrote.
Precedence(s, t, choice, found) ==
    LET naming   == Naming(s.options, t)
        inlines  == {i \in naming : s.options[i].inline}
        selector == Latest({i \in naming : s.options[i].selector # "none"})
        keyed    == selector # 0 /\ s.options[selector].selector = "whole"
        last     == Latest(naming)
        url      == last # 0 /\ s.options[last].source
    IN  <<choice.from, choice.option>> =
            CASE inlines # {} -> <<"inline", Max(inlines)>>
              [] inlines = {} /\ keyed /\ found -> <<"configMap", selector>>
              [] inlines = {} /\ ~(keyed /\ found) /\ url -> <<"source", last>>
              [] OTHER -> <<IF keyed THEN "nothing" ELSE "default", 0>>

LEMMA ScriptIsChosen ==
    ASSUME spec.kind \in Kinds, NEW t \in Task, NEW found \in BOOLEAN,
           found => newTaskOptions(spec, t).keyed
    PROVE  Precedence(spec, t, ChooseScript(newTaskOptions(spec, t), ConfigMapData(spec), found),
                      found)
<1> DEFINE naming   == Naming(spec.options, t)
           inlines  == {i \in naming : spec.options[i].inline}
           selector == Latest({i \in naming : spec.options[i].selector # "none"})
           keyed    == selector # 0 /\ spec.options[selector].selector = "whole"
           last     == Latest(naming)
           url      == last # 0 /\ spec.options[last].source
           file     == IF inlines # {} THEN <<"inline", t>>
                       ELSE IF ~url /\ ~keyed /\ Class(spec.kind, t) # "plugin"
                       THEN <<"default", Class(spec.kind, t)>>
                       ELSE NoFile
           source   == newTaskOptions(spec, t)
           files    == ConfigMapData(spec)
           choice   == ChooseScript(source, files, found)
<1>1. /\ source.url = (IF url THEN last ELSE 0) /\ source.selector = selector
      /\ source.keyed <=> keyed
      /\ source.file = file
  BY DEF newTaskOptions
<1>2. <<"inline", t>> \in DOMAIN files <=> inlines # {}
  BY DEF ConfigMapData, Files, defaultFiles
<1>3. inlines # {} => files[<<"inline", t>>] = Max(inlines)
  BY <1>2 DEF ConfigMapData, Files, defaultFiles
<1>4. /\ <<"default", Class(spec.kind, t)>> \in DOMAIN files
      /\ files[<<"default", Class(spec.kind, t)>>] = 0
      /\ Class(spec.kind, t) # "plugin"
  BY ClassOfTask DEF ConfigMapData, Files, defaultFiles
<1>5. NoFile \notin DOMAIN files
  BY DEF ConfigMapData, Files, defaultFiles, NoFile
<1>6. choice = IF source.file \in DOMAIN files
               THEN [from |-> source.file[1], option |-> files[source.file]]
               ELSE IF source.keyed /\ found
               THEN [from |-> "configMap", option |-> source.selector]
               ELSE IF source.url # 0 THEN [from |-> "source", option |-> source.url]
               ELSE [from |-> "nothing", option |-> 0]
  BY DEF ChooseScript
<1>7. ASSUME <<choice.from, choice.option>> =
                CASE inlines # {} -> <<"inline", Max(inlines)>>
                  [] inlines = {} /\ keyed /\ found -> <<"configMap", selector>>
                  [] inlines = {} /\ ~(keyed /\ found) /\ url -> <<"source", last>>
                  [] OTHER -> <<IF keyed THEN "nothing" ELSE "default", 0>>
      PROVE  Precedence(spec, t, choice, found)
  BY <1>7 DEF Precedence
<1>8. url => last # 0
  OBVIOUS
<1> HIDE DEF source, files, choice, inlines, selector, keyed, last, url
<1>9. ASSUME inlines # {} PROVE Precedence(spec, t, choice, found)
  <2>1. source.file = <<"inline", t>>
    BY <1>1, <1>9
  <2>2. choice = [from |-> "inline", option |-> Max(inlines)]
    BY <1>2, <1>3, <1>6, <1>9, <2>1
  <2>3. QED
    BY <1>7, <1>9, <2>2
<1>10. ASSUME inlines = {} /\ keyed /\ found PROVE Precedence(spec, t, choice, found)
  <2>1. source.file = NoFile
    BY <1>1, <1>10
  <2>2. choice = [from |-> "configMap", option |-> selector]
    BY <1>1, <1>5, <1>6, <1>10, <2>1
  <2>3. QED
    BY <1>7, <1>10, <2>2
<1>11. ASSUME inlines = {} /\ ~(keyed /\ found) /\ url PROVE Precedence(spec, t, choice, found)
  <2>1. source.file = NoFile /\ source.url = last
    BY <1>1, <1>11
  <2>2. choice = [from |-> "source", option |-> last]
    BY <1>1, <1>5, <1>6, <1>8, <1>11, <2>1
  <2>3. QED
    BY <1>7, <1>11, <2>2
<1>12. ASSUME inlines = {} /\ ~(keyed /\ found) /\ ~url /\ keyed PROVE Precedence(spec, t, choice, found)
  <2>1. source.file = NoFile /\ source.url = 0
    BY <1>1, <1>12
  <2>2. choice = [from |-> "nothing", option |-> 0]
    BY <1>1, <1>5, <1>6, <1>12, <2>1
  <2>3. QED
    BY <1>7, <1>12, <2>2
<1>13. ASSUME inlines = {} /\ ~(keyed /\ found) /\ ~url /\ ~keyed PROVE Precedence(spec, t, choice, found)
  <2>1. source.file = <<"default", Class(spec.kind, t)>>
    BY <1>1, <1>4, <1>13
  <2>2. choice = [from |-> "default", option |-> 0]
    BY <1>4, <1>6, <2>1
  <2>3. QED
    BY <1>7, <1>13, <2>2
<1>14. Precedence(spec, t, choice, found)
  BY <1>9, <1>10, <1>11, <1>12, <1>13
<1>15. QED
  BY <1>14 DEF choice, source, files

-----------------------------------------------------------------------------
(***************************************************************************)
(* The inductive invariant                                                 *)
(***************************************************************************)
\* The files of the generation are those of the spec as soon as they are there,
\* and the pod is what generatePod makes of the stage and the spec.
PodIsOfStage ==
    \/ pod = NoPod /\ stage.state # "in-progress"
    \/ /\ stage.state = "in-progress" /\ stage.task \in Task
       /\ pod = generatePod(spec, stage.task)
       /\ data = ConfigMapData(spec)

StageType == [task : TaskName, changed : BOOLEAN,
              state : {"initializing", "in-progress", "failed"}]

PodInv ==
    /\ spec \in Specs
    /\ stage \in StageType
    /\ data \in {NoData, ConfigMapData(spec)}
    /\ started \in BOOLEAN
    /\ script.task \in TaskName /\ ScriptsFollowPrecedence
    /\ rejected \in TaskName
    /\ used \in 0 .. Budget
    /\ LogsInv
    /\ PodIsOfStage

LEMMA TaskNames == Task \subseteq TaskName /\ RunNil \in TaskName /\ RunNil \notin Task
BY DEF TaskName, RunNil, Task, CreateTask, DeleteTask

LEMMA PodOrNot ==
    ASSUME PodInv
    PROVE  /\ pod = NoPod => stage.state # "in-progress"
           /\ pod # NoPod => /\ stage.state = "in-progress" /\ stage.task \in Task
                             /\ pod = generatePod(spec, stage.task)
                             /\ pod.task = stage.task
                             /\ pod.source = newTaskOptions(spec, stage.task)
                             /\ pod.labels = PodLabels(spec, stage.task)
                             /\ pod.containers = <<TaskContainer>> \o Sidecars(spec, stage.task)
                             /\ data = ConfigMapData(spec)
<1>1. NoPod.task = RunNil
  BY DEF NoPod
<1>2. CASE pod = NoPod /\ stage.state # "in-progress"
  BY <1>2
<1>3. CASE /\ stage.state = "in-progress" /\ stage.task \in Task
           /\ pod = generatePod(spec, stage.task)
           /\ data = ConfigMapData(spec)
  <2>1. pod.task = stage.task /\ pod # NoPod
    BY <1>1, <1>3, PodIs, TaskNames
  <2>2. QED
    BY <1>3, <2>1, PodIs
<1>4. QED
  BY <1>2, <1>3 DEF PodInv, PodIsOfStage

LEMMA ScriptsFollow == ScriptsFollowPrecedence <=>
                         (script # NoScript => Precedence(spec, script.task, script, script.found))
BY DEF ScriptsFollowPrecedence, Precedence

LEMMA RunTaskIs ==
    ASSUME PodInv, pod # NoPod, RunTask, UNCHANGED spec
    PROVE  script'.task \in TaskName /\ ScriptsFollowPrecedence' /\ LogsInv'
<1> DEFINE source == newTaskOptions(spec, stage.task)
<1>1. /\ spec \in Specs /\ LogsInv /\ stage.task \in Task
      /\ pod.task = stage.task /\ pod.source = source /\ data = ConfigMapData(spec)
  BY PodOrNot DEF PodInv
<1>2. spec.kind \in Kinds
  BY <1>1, SpecIs
<1> HIDE DEF source
<1>3. PICK found \in IF source.keyed THEN BOOLEAN ELSE {FALSE} :
        LET choice == ChooseScript(source, data, found)
        IN  /\ script' = [task |-> stage.task, from |-> choice.from,
                          option |-> choice.option, found |-> found]
            /\ \/ logs' = [logs EXCEPT ![stage.task] =
                              Append(@, get_current_rerun(stage.task))]
               \/ UNCHANGED logs
  BY <1>1 DEF RunTask
<1> DEFINE choice == ChooseScript(source, data, found)
<1>4. /\ script'.task = stage.task /\ script'.from = choice.from
      /\ script'.option = choice.option /\ script'.found = found
  BY <1>3
<1>5. found \in BOOLEAN /\ (found => source.keyed)
  BY <1>3
<1>6. Precedence(spec, stage.task, choice, found)
  BY <1>1, <1>2, <1>5, ScriptIsChosen DEF source
<1>7. Precedence(spec, stage.task, script', found)
  <2>1. <<choice.from, choice.option>> = <<script'.from, script'.option>>
    BY <1>4
  <2> HIDE DEF choice
  <2>2. QED
    BY <1>6, <2>1 DEF Precedence
<1>8. ScriptsFollowPrecedence'
  <2>1. Precedence(spec', script'.task, script', script'.found)
    BY <1>4, <1>7
  <2>2. QED
    BY <2>1, Zenon DEF ScriptsFollowPrecedence, Precedence
<1>9. script'.task \in TaskName
  BY <1>1, <1>4, TaskNames
<1>10. LogsInv'
  <2>1. CASE logs' = [logs EXCEPT ![stage.task] = Append(@, get_current_rerun(stage.task))]
    BY <1>1, <2>1, LogsGrow
  <2>2. CASE UNCHANGED logs
    BY <1>1, <2>2 DEF LogsInv, Highs, RunNumbersGrow
  <2>3. QED
    BY <1>3, <2>1, <2>2
<1>11. QED
  BY <1>8, <1>9, <1>10

-----------------------------------------------------------------------------
(***************************************************************************)
(* The volumes of a pod                                                    *)
(***************************************************************************)
\* The sets of positions that a fold over at most two sidecars meets.
LEMMA MaxOfTwo ==
    /\ Max({1}) = 1 /\ Max({2}) = 2 /\ Max({1, 2}) = 2
    /\ \A w \in SUBSET {1, 2} : w = {} \/ w = {1} \/ w = {2} \/ w = {1, 2}
<1>1. \A S \in {{1}, {2}, {1, 2}} : Max(S) \in S /\ \A y \in S : y <= Max(S)
  <2> SUFFICES ASSUME NEW S \in {{1}, {2}, {1, 2}}
               PROVE  Max(S) \in S /\ \A y \in S : y <= Max(S)
    OBVIOUS
  <2>1. S \subseteq Int /\ S # {} /\ \A x \in S : x <= 2
    OBVIOUS
  <2>2. QED
    BY <2>1, BoundedHasMax
<1>2. Max({1}) = 1 /\ Max({2}) = 2 /\ Max({1, 2}) = 2
  <2>1. Max({1, 2}) \in {1, 2} /\ 2 <= Max({1, 2})
    BY <1>1
  <2>2. QED
    BY <1>1, <2>1
<1>3. QED
  BY <1>2

\* The volumes of a pod with at most two sidecars: those of the task, then what
\* each sidecar adds.
SidecarVolumes(s, base, list) ==
    FoldLeft(LAMBDA v, c : AddVolumes(v, PodVolumes(s, c[2])), base, list)

LEMMA FoldOfSidecars ==
    ASSUME NEW s, NEW base, NEW list, DOMAIN list \subseteq {1, 2}
    PROVE  LET volumes == SidecarVolumes(s, base, list)
               first   == AddVolumes(base, PodVolumes(s, list[1][2]))
           IN  /\ DOMAIN list = {} => volumes = base
               /\ DOMAIN list = {1} => volumes = first
               /\ DOMAIN list = {1, 2} =>
                    volumes = AddVolumes(first, PodVolumes(s, list[2][2]))
<1> DEFINE volumes == SidecarVolumes(s, base, list)
           Step(v, i) == AddVolumes(v, PodVolumes(s, list[i][2]))
           Sets == SUBSET (DOMAIN list)
           Value(g, w) == IF w = {} THEN base ELSE Step(g[w \ {Max(w)}], Max(w))
           fold == CHOOSE g : g = [w \in Sets |-> Value(g, w)]
<1>1. volumes = fold[DOMAIN list]
  BY DEF SidecarVolumes, FoldLeft, MapThenFoldSet
<1> HIDE DEF volumes, Step
<1>2. \E g : g = [w \in Sets |-> Value(g, w)]
  <2> DEFINE g == [w \in Sets |-> IF w = {} THEN base
                                  ELSE IF w = {1} THEN Step(base, 1)
                                  ELSE IF w = {2} THEN Step(base, 2)
                                  ELSE Step(Step(base, 1), 2)]
  <2>1. \A w \in Sets : g[w] = Value(g, w)
    <3> SUFFICES ASSUME NEW w \in Sets PROVE g[w] = Value(g, w)
      OBVIOUS
    <3>1. {} \in Sets /\ g[{}] = base
      OBVIOUS
    <3>2. w = {} \/ w = {1} \/ w = {2} \/ w = {1, 2}
      BY MaxOfTwo
    <3>3. CASE w = {}
      BY <3>1, <3>3
    <3>4. CASE w = {1}
      <4>1. Max(w) = 1 /\ w \ {1} = {}
        BY <3>4, MaxOfTwo
      <4>2. QED
        BY <3>1, <3>4, <4>1
    <3>5. CASE w = {2}
      <4>1. Max(w) = 2 /\ w \ {2} = {}
        BY <3>5, MaxOfTwo
      <4>2. QED
        BY <3>1, <3>5, <4>1
    <3>6. CASE w = {1, 2}
      <4>1. Max(w) = 2 /\ w \ {2} = {1} /\ {1} \in Sets /\ {1} # {} /\ {1} # {2}
        BY <3>6, MaxOfTwo
      <4>2. w # {} /\ w # {1} /\ w # {2}
        BY <3>6
      <4>3. g[{1}] = Step(base, 1) /\ g[w] = Step(Step(base, 1), 2)
        BY <4>1, <4>2
      <4>4. Value(g, w) = Step(g[{1}], 2)
        BY <4>1, <4>2
      <4>5. QED
        BY <4>3, <4>4
    <3>7. QED
      BY <3>2, <3>3, <3>4, <3>5, <3>6
  <2>2. g = [w \in Sets |-> g[w]]
    OBVIOUS
  <2> HIDE DEF g
  <2>3. g = [w \in Sets |-> Value(g, w)]
    BY <2>1, <2>2
  <2>4. QED
    BY <2>3
<1>3. fold = [w \in Sets |-> Value(fold, w)]
  BY <1>2
<1> HIDE DEF fold
<1>4. \A w \in Sets : fold[w] = Value(fold, w)
  BY <1>3
<1>5. fold[{}] = base
  BY <1>4
<1>6. {1} \in Sets => fold[{1}] = Step(base, 1)
  <2>1. {1} # {} /\ {1} \ {1} = {}
    OBVIOUS
  <2>2. QED
    BY <1>4, <1>5, <2>1, MaxOfTwo
<1>7. {1, 2} \in Sets => fold[{1, 2}] = Step(Step(base, 1), 2)
  <2>1. {1, 2} # {} /\ {1, 2} \ {2} = {1} /\ ({1, 2} \in Sets => {1} \in Sets)
    OBVIOUS
  <2>2. QED
    BY <1>4, <1>6, <2>1, MaxOfTwo
<1>8. DOMAIN list \in Sets
  OBVIOUS
<1>9. /\ DOMAIN list = {} => volumes = base
      /\ DOMAIN list = {1} => volumes = Step(base, 1)
      /\ DOMAIN list = {1, 2} => volumes = Step(Step(base, 1), 2)
  BY <1>1, <1>5, <1>6, <1>7, <1>8
<1>10. QED
  BY <1>9 DEF volumes, Step
\* Volumes that are added under names that are not taken repeat none.
LEMMA AddedVolumes ==
    ASSUME NEW volumes, NEW more
    PROVE  /\ Names(AddVolumes(volumes, more)) = Names(volumes) \union Names(more)
           /\ Repeats(AddVolumes(volumes, more)) => Repeats(volumes) \/ Repeats(more)
<1> DEFINE added == {v \in more : v[2] \notin Names(volumes)}
           all   == volumes \union added
<1>1. AddVolumes(volumes, more) = all
  BY DEF AddVolumes
<1>2. Names(all) = Names(volumes) \union Names(more)
  BY DEF Names
<1>3. ASSUME Repeats(all) PROVE Repeats(volumes) \/ Repeats(more)
  <2>1. PICK v \in all, w \in all : v # w /\ v[2] = w[2]
    BY <1>3 DEF Repeats
  <2>2. CASE v \in volumes /\ w \in volumes
    BY <2>1, <2>2 DEF Repeats
  <2>3. CASE v \in added /\ w \in added
    BY <2>1, <2>3 DEF Repeats
  <2>4. ~(v \in volumes /\ w \in added) /\ ~(v \in added /\ w \in volumes)
    BY <2>1 DEF Names
  <2>5. QED
    BY <2>1, <2>2, <2>3, <2>4
<1>4. QED
  BY <1>1, <1>2, <1>3

\* The volumes that generatePod makes for a task repeat a name only when its
\* options do.
LEMMA OwnVolumes ==
    ASSUME NEW s, NEW t, validateVolume(s, t)
    PROVE  /\ Repeats(PodVolumes(s, t)) => Repeats(UserVolumes(s, t))
           /\ UserMounts(s, t) \subseteq Names(PodVolumes(s, t))
<1> DEFINE user   == UserVolumes(s, t)
           system == {<<t, 0>>} \X {v \in Reserved :
                        v = "config-map-source" => newTaskOptions(s, t).keyed}
<1>1. PodVolumes(s, t) = user \union system
  BY DEF PodVolumes
<1>2. /\ \A v \in system : v[1] = <<t, 0>> /\ v[2] \in Reserved /\ v = <<v[1], v[2]>>
      /\ \A v \in user : v[2] \in Names(user)
      /\ Names(user) \intersect Reserved = {} /\ Names(user) = UserMounts(s, t)
  BY DEF validateVolume, Names
<1> HIDE DEF system, user
<1>3. ASSUME Repeats(PodVolumes(s, t)) PROVE Repeats(user)
  <2>1. PICK v \in user \union system, w \in user \union system : v # w /\ v[2] = w[2]
    BY <1>1, <1>3 DEF Repeats
  <2>2. v \in system => w \notin system
    BY <1>2, <2>1
  <2>3. v \in user /\ w \in user
    BY <1>2, <2>1, <2>2
  <2>4. QED
    BY <2>1, <2>3 DEF Repeats
<1>4. Names(user) \subseteq Names(PodVolumes(s, t))
  BY <1>1 DEF Names
<1>5. QED
  BY <1>2, <1>3, <1>4 DEF user

\* The plugin's container and the approval's.
LEMMA TwoInOne == ASSUME NEW a, NEW b PROVE <<a>> \o <<b>> = <<a, b>>
<1> DEFINE both == <<a>> \o <<b>>
           pair == <<a, b>>
<1>1. <<a>> \in Seq({a, b}) /\ <<b>> \in Seq({a, b})
  OBVIOUS
<1>2. both \in Seq({a, b}) /\ Len(both) = 2 /\ both[1] = a /\ both[2] = b
  BY <1>1
<1>3. pair \in Seq({a, b}) /\ Len(pair) = 2 /\ pair[1] = a /\ pair[2] = b
  OBVIOUS
<1> HIDE DEF both, pair
<1>4. \A i \in 1 .. 2 : both[i] = pair[i]
  BY <1>2, <1>3
<1>5. both = [i \in 1 .. 2 |-> both[i]] /\ pair = [i \in 1 .. 2 |-> pair[i]]
  BY <1>2, <1>3
<1>6. both = pair
  BY <1>4, <1>5
<1>7. QED
  BY <1>6 DEF both, pair

\* The sidecars of a pod: the plugin, the approval of the controller, or both
\* when they have different names.
LEMMA SidecarsAre ==
    ASSUME NEW s, NEW t
    PROVE  LET plugin == <<"plugin", s.plugin.name>>
               first  == IsSidecar(s, t) /\ validateVolume(s, s.plugin.name)
               other  == first => s.plugin.name # Approval
           IN  Sidecars(s, t) =
                   IF NeedsApproval(s, t) /\ other
                   THEN IF first THEN <<plugin, ApprovalContainer>>
                                 ELSE <<ApprovalContainer>>
                   ELSE IF first THEN <<plugin>> ELSE <<>>
<1> DEFINE plugin  == <<"plugin", s.plugin.name>>
           plugins == PluginSidecars(s, t)
           first   == IsSidecar(s, t) /\ validateVolume(s, s.plugin.name)
<1>1. plugins = IF first THEN <<plugin>> ELSE <<>>
  BY DEF PluginSidecars
<1>2. Sidecars(s, t) =
        IF NeedsApproval(s, t) /\ Approval \notin Names(ToSet(plugins))
        THEN plugins \o <<ApprovalContainer>>
        ELSE plugins
  BY DEF Sidecars
<1>3. plugin[2] = s.plugin.name
  OBVIOUS
<1> HIDE DEF plugins, plugin, first
<1>4. CASE first
  <2>1. plugins = <<plugin>>
    BY <1>1, <1>4
  <2>2. Names(ToSet(plugins)) = {s.plugin.name}
    BY <1>3, <2>1 DEF ToSet, Names
  <2>3. <<plugin>> \o <<ApprovalContainer>> = <<plugin, ApprovalContainer>>
    BY TwoInOne
  <2>4. QED
    BY <1>2, <1>4, <2>1, <2>2, <2>3 DEF first, plugin
<1>5. CASE ~first
  <2>1. plugins = <<>>
    BY <1>1, <1>5
  <2>2. Names(ToSet(plugins)) = {}
    BY <2>1 DEF ToSet, Names
  <2>3. <<>> \o <<ApprovalContainer>> = <<ApprovalContainer>>
    OBVIOUS
  <2>4. QED
    BY <1>2, <1>5, <2>1, <2>2, <2>3 DEF first, plugin
<1>6. QED
  BY <1>4, <1>5

\* The containers of a pod have different names when its sidecars do.
LEMMA TaskAndSidecars ==
    ASSUME NEW names, "task" \notin names, NEW list \in Seq({"controller", "plugin"} \X names),
           \A i, j \in DOMAIN list : list[i][2] = list[j][2] => i = j
    PROVE  LET all == <<TaskContainer>> \o list
           IN  \A i, j \in DOMAIN all : all[i][2] = all[j][2] => i = j
<1> DEFINE any == {"controller", "plugin"} \X (names \union {"task"})
           all == <<TaskContainer>> \o list
<1>1. /\ TaskContainer[2] = "task" /\ TaskContainer \in any
      /\ {"controller", "plugin"} \X names \subseteq any
      /\ \A i \in DOMAIN list : list[i] \in {"controller", "plugin"} \X names
      /\ \A i \in DOMAIN list : list[i][2] \in names
  BY DEF TaskContainer
<1> HIDE DEF any
<1>2. list \in Seq(any) /\ <<TaskContainer>> \in Seq(any) /\ Len(list) \in Nat
  BY <1>1
<1>3. /\ DOMAIN all = 1 .. (Len(list) + 1) /\ all[1] = TaskContainer
      /\ \A i \in 2 .. (Len(list) + 1) : i - 1 \in DOMAIN list /\ all[i] = list[i - 1]
  BY <1>2
<1> HIDE DEF all
<1>4. \A i, j \in DOMAIN all : all[i][2] = all[j][2] => i = j
  <2> SUFFICES ASSUME NEW i \in DOMAIN all, NEW j \in DOMAIN all, all[i][2] = all[j][2]
               PROVE  i = j
    OBVIOUS
  <2>1. i \in Int /\ j \in Int /\ (i = 1 \/ i \in 2 .. (Len(list) + 1))
        /\ (j = 1 \/ j \in 2 .. (Len(list) + 1))
    BY <1>2, <1>3
  <2>2. CASE i = 1 \/ j = 1
    BY <1>1, <1>3, <2>1, <2>2
  <2>3. CASE i # 1 /\ j # 1
    <3>1. list[i - 1][2] = list[j - 1][2] /\ i - 1 \in DOMAIN list /\ j - 1 \in DOMAIN list
      BY <1>3, <2>1, <2>3
    <3>2. i - 1 = j - 1
      BY <3>1
    <3>3. QED
      BY <2>1, <3>2
  <2>4. QED
    BY <2>2, <2>3
<1>5. QED
  BY <1>4 DEF all

\* A sidecar is among the containers of the pod.
LEMMA InPod ==
    ASSUME NEW S, NEW list \in Seq(S), NEW c \in ToSet(list)
    PROVE  c \in ToSet(<<TaskContainer>> \o list)
<1> DEFINE any == S \union {TaskContainer}
           all == <<TaskContainer>> \o list
<1>1. list \in Seq(any) /\ <<TaskContainer>> \in Seq(any) /\ Len(list) \in Nat
  OBVIOUS
<1>2. PICK i \in DOMAIN list : list[i] = c
  BY DEF ToSet
<1> HIDE DEF any
<1>3. i + 1 \in DOMAIN all /\ all[i + 1] = c
  BY <1>1, <1>2
<1>4. QED
  BY <1>3 DEF ToSet

\* A pod whose sidecars could be generated is malformed only when the options of
\* its task or of a sidecar add two volumes of one name.
LEMMA MalformedRepeats ==
    ASSUME NEW s, NEW t, s.plugin.name \in {Plugin, Approval},
           ~SidecarFails(s, t), validateVolume(s, t),
           Malformed(generatePod(s, t))
    PROVE  \E u \in {t, Plugin, Approval} : Repeats(UserVolumes(s, u))
<1> SUFFICES ASSUME \A u \in {t, Plugin, Approval} : ~Repeats(UserVolumes(s, u))
             PROVE  FALSE
  OBVIOUS
<1> DEFINE list    == Sidecars(s, t)
           base    == PodVolumes(s, t)
           volumes == SidecarVolumes(s, base, list)
           mounts  == UserMounts(s, t) \union UNION {UserMounts(s, c[2]) : c \in ToSet(list)}
           first   == AddVolumes(base, PodVolumes(s, list[1][2]))
           p == [task |-> t, source |-> newTaskOptions(s, t), labels |-> PodLabels(s, t),
                 volumes |-> volumes, mounts |-> mounts, containers |-> <<TaskContainer>> \o list]
<1>1. generatePod(s, t) = p
  BY DEF generatePod, SidecarVolumes
<1> DEFINE plugin == <<"plugin", s.plugin.name>>
<1>2. /\ \/ list = <<>> \/ list = <<plugin>> \/ list = <<ApprovalContainer>>
         \/ list = <<plugin, ApprovalContainer>> /\ s.plugin.name # Approval
      /\ \A i \in DOMAIN list : validateVolume(s, list[i][2])
  <2> DEFINE valid == IsSidecar(s, t) /\ validateVolume(s, s.plugin.name)
             other == valid => s.plugin.name # Approval
  <2>1. list = IF NeedsApproval(s, t) /\ other
               THEN IF valid THEN <<plugin, ApprovalContainer>> ELSE <<ApprovalContainer>>
               ELSE IF valid THEN <<plugin>> ELSE <<>>
    BY SidecarsAre
  <2>2. /\ valid => validateVolume(s, plugin[2])
        /\ NeedsApproval(s, t) => validateVolume(s, ApprovalContainer[2])
    BY DEF SidecarFails, ApprovalContainer
  <2>3. valid /\ other => s.plugin.name # Approval
    OBVIOUS
  <2> HIDE DEF list, plugin, valid, other
  <2>4. QED
    BY <2>1, <2>2, <2>3
<1> HIDE DEF list
<1>3. /\ DOMAIN list \in {{}, {1}, {1, 2}}
      /\ \A i \in DOMAIN list : list[i][2] \in {Plugin, Approval}
      /\ LET all == <<TaskContainer>> \o list
         IN  \A i, j \in DOMAIN all : all[i][2] = all[j][2] => i = j
  <2> DEFINE pairs == {"controller", "plugin"} \X {Plugin, Approval}
  <2>1. /\ plugin \in pairs /\ ApprovalContainer \in pairs
        /\ plugin[2] = s.plugin.name /\ ApprovalContainer[2] = Approval
        /\ "task" \notin {Plugin, Approval}
        /\ \A c \in pairs : c[2] \in {Plugin, Approval}
    BY DEF ApprovalContainer, Plugin, Approval
  <2> HIDE DEF plugin, pairs
  <2>2. /\ DOMAIN list \in {{}, {1}, {1, 2}}
        /\ list \in Seq(pairs)
        /\ \A i \in DOMAIN list : list[i] \in pairs
        /\ \A i, j \in DOMAIN list : list[i][2] = list[j][2] => i = j
    <3>1. CASE list = <<>>
      BY <3>1
    <3>2. CASE list = <<plugin>>
      BY <2>1, <3>2
    <3>3. CASE list = <<ApprovalContainer>>
      BY <2>1, <3>3
    <3>4. CASE list = <<plugin, ApprovalContainer>> /\ s.plugin.name # Approval
      BY <2>1, <3>4
    <3>5. QED
      BY <1>2, <3>1, <3>2, <3>3, <3>4
  <2>3. QED
    BY <2>1, <2>2, TaskAndSidecars DEF pairs
<1>4. /\ ~Repeats(base) /\ UserMounts(s, t) \subseteq Names(base)
      /\ \A i \in DOMAIN list : /\ ~Repeats(PodVolumes(s, list[i][2]))
                                /\ UserMounts(s, list[i][2]) \subseteq Names(PodVolumes(s, list[i][2]))
  BY <1>2, <1>3, OwnVolumes
<1>5. /\ DOMAIN list = {} => volumes = base
      /\ DOMAIN list = {1} => volumes = first
      /\ DOMAIN list = {1, 2} => volumes = AddVolumes(first, PodVolumes(s, list[2][2]))
  <2>1. DOMAIN list \subseteq {1, 2}
    BY <1>3
  <2>2. QED
    BY <2>1, FoldOfSidecars
<1> HIDE DEF volumes, base
<1>6. ~Repeats(volumes)
      /\ Names(base) \subseteq Names(volumes)
      /\ \A i \in DOMAIN list : Names(PodVolumes(s, list[i][2])) \subseteq Names(volumes)
  <2>1. 1 \in DOMAIN list => /\ ~Repeats(first)
                             /\ Names(first) = Names(base) \union Names(PodVolumes(s, list[1][2]))
    BY <1>4, AddedVolumes
  <2> HIDE DEF first
  <2>2. CASE DOMAIN list = {}
    BY <1>4, <1>5, <2>2
  <2>3. CASE DOMAIN list = {1}
    BY <1>5, <2>1, <2>3
  <2>4. CASE DOMAIN list = {1, 2}
    BY <1>4, <1>5, <2>1, <2>4, AddedVolumes
  <2>5. QED
    BY <1>3, <2>2, <2>3, <2>4
<1>7. mounts \subseteq Names(volumes)
  BY <1>4, <1>6 DEF ToSet
<1> HIDE DEF mounts
<1>8. p.volumes = volumes /\ p.mounts = mounts /\ p.containers = <<TaskContainer>> \o list
  OBVIOUS
<1> HIDE DEF p
<1>9. QED
  BY <1>1, <1>3, <1>6, <1>7, <1>8 DEF Malformed

-----------------------------------------------------------------------------
(***************************************************************************)
(* The loop of nextTask                                                    *)
(***************************************************************************)
\* The order of one workflow: its ten tasks by their numbers.
IsOrder(order, tasks, lo) ==
    /\ tasks \in {CreateTask, DeleteTask} /\ lo \in Nat
    /\ DOMAIN order = 1 .. 10
    /\ \A i \in 1 .. 10 : order[i] \in tasks /\ ID[order[i]] = lo + i
    /\ \A t \in tasks : \E i \in 1 .. 10 : order[i] = t

\* The two lists of nextTask.
LEMMA OrdersAreOrders ==
    /\ IsOrder(TasksInOrder, CreateTask, 0)
    /\ IsOrder(DeleteTasksInOrder, DeleteTask, 100)
<1>1. /\ DOMAIN TasksInOrder = 1 .. 10
      /\ TasksInOrder[1] = "setup" /\ TasksInOrder[2] = "preinit"
      /\ TasksInOrder[3] = "init" /\ TasksInOrder[4] = "postinit"
      /\ TasksInOrder[5] = "preplan" /\ TasksInOrder[6] = "plan"
      /\ TasksInOrder[7] = "postplan" /\ TasksInOrder[8] = "preapply"
      /\ TasksInOrder[9] = "apply" /\ TasksInOrder[10] = "postapply"
  BY DEF TasksInOrder
<1>2. /\ DOMAIN DeleteTasksInOrder = 1 .. 10
      /\ DeleteTasksInOrder[1] = "setup-delete" /\ DeleteTasksInOrder[2] = "preinit-delete"
      /\ DeleteTasksInOrder[3] = "init-delete" /\ DeleteTasksInOrder[4] = "postinit-delete"
      /\ DeleteTasksInOrder[5] = "preplan-delete" /\ DeleteTasksInOrder[6] = "plan-delete"
      /\ DeleteTasksInOrder[7] = "postplan-delete" /\ DeleteTasksInOrder[8] = "preapply-delete"
      /\ DeleteTasksInOrder[9] = "apply-delete" /\ DeleteTasksInOrder[10] = "postapply-delete"
  BY DEF DeleteTasksInOrder
<1>3. \A i \in 1 .. 10 : \/ i = 1 \/ i = 2 \/ i = 3 \/ i = 4 \/ i = 5
                         \/ i = 6 \/ i = 7 \/ i = 8 \/ i = 9 \/ i = 10
  OBVIOUS
<1>4. \A i \in 1 .. 10 : TasksInOrder[i] \in CreateTask /\ ID[TasksInOrder[i]] = 0 + i
  BY <1>1, <1>3, IDs DEF CreateTask
<1>5. \A t \in CreateTask : \E i \in 1 .. 10 : TasksInOrder[i] = t
  BY <1>1 DEF CreateTask
<1>6. \A i \in 1 .. 10 : /\ DeleteTasksInOrder[i] \in DeleteTask
                         /\ ID[DeleteTasksInOrder[i]] = 100 + i
  BY <1>2, <1>3, IDs DEF DeleteTask
<1>7. \A t \in DeleteTask : \E i \in 1 .. 10 : DeleteTasksInOrder[i] = t
  BY <1>2 DEF DeleteTask
<1>8. QED
  BY <1>1, <1>2, <1>4, <1>5, <1>6, <1>7 DEF IsOrder

\* The configured tasks that the loop meets with the flag armed, when it walks the
\* positions w of the order, and its state after that.
Met(order, current, conf, w) ==
    {u \in conf : \E x, y \in w : y < x /\ order[y] = current /\ order[x] = u}

\* What nextTask chooses.
FirstOf(S) == CHOOSE u \in S : \A v \in S : ID[u] <= ID[v]

Walked(order, current, conf, w) ==
    IF \E y \in w : order[y] = current
    THEN [isUpNext |-> TRUE,
          next |-> IF Met(order, current, conf, w) = {} THEN RunNil
                   ELSE FirstOf(Met(order, current, conf, w))]
    ELSE [isUpNext |-> FALSE, next |-> RunNil]

\* The body of the loop.
ScanStep(current, conf, s, t) ==
    IF s.next # RunNil THEN s
    ELSE IF t = current THEN [s EXCEPT !.isUpNext = TRUE]
    ELSE IF s.isUpNext /\ t \in conf THEN [s EXCEPT !.next = t]
    ELSE s

\* The two assignments of the loop.
LEMMA FlagIsArmed ==
    ASSUME NEW n
    PROVE  [[isUpNext |-> FALSE, next |-> n] EXCEPT !.isUpNext = TRUE] =
             [isUpNext |-> TRUE, next |-> n]
<1> DEFINE S == [isUpNext : BOOLEAN, next : {n}]
           r == [[isUpNext |-> FALSE, next |-> n] EXCEPT !.isUpNext = TRUE]
<1>1. r \in S /\ r.isUpNext = TRUE /\ r.next = n
  OBVIOUS
<1> HIDE DEF r
<1>2. r = [isUpNext |-> r.isUpNext, next |-> r.next]
  BY <1>1
<1>3. QED
  BY <1>1, <1>2 DEF r

LEMMA NextIsSet ==
    ASSUME NEW n, NEW t
    PROVE  [[isUpNext |-> TRUE, next |-> n] EXCEPT !.next = t] =
             [isUpNext |-> TRUE, next |-> t]
<1> DEFINE S == [isUpNext : BOOLEAN, next : {n, t}]
           r == [[isUpNext |-> TRUE, next |-> n] EXCEPT !.next = t]
<1>1. r \in S /\ r.isUpNext = TRUE /\ r.next = t
  OBVIOUS
<1> HIDE DEF r
<1>2. r = [isUpNext |-> r.isUpNext, next |-> r.next]
  BY <1>1
<1>3. QED
  BY <1>1, <1>2 DEF r

\* No two tasks of an order have one number.
LEMMA FirstIs ==
    ASSUME NEW tasks \in {CreateTask, DeleteTask}, NEW S, S \subseteq tasks,
           NEW u \in S, \A v \in S : ID[u] <= ID[v]
    PROVE  FirstOf(S) = u
<1>1. FirstOf(S) \in S /\ \A v \in S : ID[FirstOf(S)] <= ID[v]
  BY DEF FirstOf
<1> DEFINE first == FirstOf(S)
<1> HIDE DEF first
<1>2. ID[first] <= ID[u] /\ ID[u] <= ID[first]
  BY <1>1 DEF first
<1>3. u \in Task /\ first \in Task /\ first \in Family(u)
  BY <1>1, CreateIsNotDelete DEF first, Task, Family
<1>4. ID[first] = ID[u]
  BY <1>2, <1>3, IDIsNatural
<1>5. QED
  BY <1>3, <1>4, SameNumber DEF first

\* One more turn of the loop, at the last of the positions.
LEMMA WalkOn ==
    ASSUME NEW order, NEW tasks, NEW lo, IsOrder(order, tasks, lo),
           NEW current, NEW conf,
           NEW w \in SUBSET (1 .. 10), NEW x \in w, \A y \in w : y <= x
    PROVE  Walked(order, current, conf, w) =
             ScanStep(current, conf, Walked(order, current, conf, w \ {x}), order[x])
<1> DEFINE v    == w \ {x}
           rest == Met(order, current, conf, v)
           all  == Met(order, current, conf, w)
           t    == order[x]
           s    == Walked(order, current, conf, v)
<1>1. /\ tasks \in {CreateTask, DeleteTask} /\ lo \in Nat
      /\ \A i \in 1 .. 10 : order[i] \in tasks /\ ID[order[i]] = lo + i
  BY DEF IsOrder
<1>2. \A i, j \in 1 .. 10 : order[i] = order[j] => i = j
  <2> SUFFICES ASSUME NEW i \in 1 .. 10, NEW j \in 1 .. 10, order[i] = order[j] PROVE i = j
    OBVIOUS
  <2>1. lo + i = lo + j
    BY <1>1
  <2>2. QED
    BY <1>1, <2>1
<1>3. \A y \in v : y < x /\ y \in 1 .. 10
  OBVIOUS
<1>4. x \in 1 .. 10 /\ t \in tasks /\ w = v \union {x} /\ v \subseteq 1 .. 10
  BY <1>1
<1>5. all \subseteq tasks /\ rest \subseteq tasks /\ rest \subseteq all
  BY <1>1 DEF Met
<1>6. RunNil \notin tasks
  BY <1>1, TaskNames DEF Task
<1> HIDE DEF v, t
<1>7. \A u \in all : u \in rest \/ u = t
  <2> SUFFICES ASSUME NEW u \in all, u # t PROVE u \in rest
    OBVIOUS
  <2>1. PICK i \in w, j \in w : j < i /\ order[j] = current /\ order[i] = u
    BY DEF Met
  <2>2. i \in v /\ u \in conf
    BY <1>4, <2>1 DEF Met, t
  <2>3. j \in v
    BY <1>3, <1>4, <2>1, <2>2
  <2>4. QED
    BY <2>1, <2>2, <2>3 DEF Met
<1>8. t \in all <=> t \in conf /\ \E y \in v : order[y] = current
  <2>1. ASSUME t \in all PROVE t \in conf /\ \E y \in v : order[y] = current
    <3>1. PICK i \in w, j \in w : j < i /\ order[j] = current /\ order[i] = t
      BY <2>1 DEF Met
    <3>2. i = x
      BY <1>2, <1>4, <3>1 DEF t
    <3>3. j \in v
      BY <1>3, <1>4, <3>1, <3>2
    <3>4. QED
      BY <2>1, <3>1, <3>3 DEF Met
  <2>2. ASSUME t \in conf, NEW y \in v, order[y] = current PROVE t \in all
    BY <1>3, <1>4, <2>2 DEF Met, t
  <2>3. QED
    BY <2>1, <2>2
<1>9. \A u \in rest : ID[u] < ID[t]
  <2> SUFFICES ASSUME NEW u \in rest PROVE ID[u] < ID[t]
    OBVIOUS
  <2>1. PICK i \in v : order[i] = u
    BY DEF Met
  <2>2. i < x /\ i \in 1 .. 10 /\ ID[u] = lo + i /\ ID[t] = lo + x
    BY <1>1, <1>3, <1>4, <2>1 DEF t
  <2>3. QED
    BY <1>1, <2>2
<1>10. rest # {} => \E y \in v : order[y] = current
  BY DEF Met
<1>11. s = IF \E y \in v : order[y] = current
           THEN [isUpNext |-> TRUE, next |-> IF rest = {} THEN RunNil ELSE FirstOf(rest)]
           ELSE [isUpNext |-> FALSE, next |-> RunNil]
  BY DEF Walked
<1>12. Walked(order, current, conf, w) =
         IF \E y \in w : order[y] = current
         THEN [isUpNext |-> TRUE, next |-> IF all = {} THEN RunNil ELSE FirstOf(all)]
         ELSE [isUpNext |-> FALSE, next |-> RunNil]
  BY DEF Walked
<1> HIDE DEF s, all, rest
<1>13. ASSUME Walked(order, current, conf, w) = ScanStep(current, conf, s, t) PROVE
         Walked(order, current, conf, w) =
             ScanStep(current, conf, Walked(order, current, conf, w \ {x}), order[x])
  BY <1>13 DEF s, t, v
<1>14. CASE rest # {}
  <2>1. FirstOf(rest) \in rest /\ \A u \in rest : ID[FirstOf(rest)] <= ID[u]
    <3>1. \E u \in rest : \A z \in rest : ID[u] <= ID[z]
      BY <1>1, <1>5, <1>14, FirstTask
    <3>2. QED
      BY <3>1 DEF FirstOf
  <2> DEFINE first == FirstOf(rest)
  <2> HIDE DEF first
  <2>2. first \in all /\ \A u \in all : ID[first] <= ID[u]
    <3>1. first \in rest /\ \A u \in rest : ID[first] <= ID[u]
      BY <2>1 DEF first
    <3>2. ID[first] < ID[t] /\ first \in Task /\ t \in Task
      BY <1>1, <1>4, <1>5, <1>9, <3>1 DEF Task
    <3>3. ID[first] <= ID[t]
      BY <3>2, IDIsNatural
    <3>4. QED
      BY <1>5, <1>7, <3>1, <3>3
  <2>3. FirstOf(all) = first
    BY <1>1, <1>5, <2>2, FirstIs
  <2>4. s = [isUpNext |-> TRUE, next |-> first] /\ first # RunNil
    BY <1>5, <1>6, <1>10, <1>11, <1>14, <2>1 DEF first
  <2>5. Walked(order, current, conf, w) = [isUpNext |-> TRUE, next |-> first]
    BY <1>4, <1>10, <1>12, <1>14, <2>2, <2>3
  <2>6. ScanStep(current, conf, s, t) = s
    BY <2>4 DEF ScanStep
  <2>7. QED
    BY <1>13, <2>4, <2>5, <2>6
<1>15. CASE rest = {} /\ t = current
  <2>1. \A y \in v : order[y] # current
    BY <1>2, <1>3, <1>4, <1>15 DEF t
  <2>2. all = {}
    BY <1>7, <1>8, <1>15, <2>1
  <2>3. s = [isUpNext |-> FALSE, next |-> RunNil]
    BY <1>11, <2>1
  <2>4. Walked(order, current, conf, w) = [isUpNext |-> TRUE, next |-> RunNil]
    BY <1>12, <1>15, <2>2 DEF t
  <2>5. [s EXCEPT !.isUpNext = TRUE] = [isUpNext |-> TRUE, next |-> RunNil]
    BY <2>3, FlagIsArmed
  <2>6. ScanStep(current, conf, s, t) = [s EXCEPT !.isUpNext = TRUE]
    BY <1>15, <2>3 DEF ScanStep
  <2>7. QED
    BY <1>13, <2>4, <2>5, <2>6
<1>16. CASE rest = {} /\ t # current
  <2>1. (\E y \in w : order[y] = current) <=> \E y \in v : order[y] = current
    BY <1>4, <1>16 DEF t
  <2>2. CASE ~ \E y \in v : order[y] = current
    <3>1. s = [isUpNext |-> FALSE, next |-> RunNil]
      BY <1>11, <2>2
    <3>2. Walked(order, current, conf, w) = [isUpNext |-> FALSE, next |-> RunNil]
      BY <1>12, <2>1, <2>2
    <3>3. QED
      BY <1>13, <1>16, <3>1, <3>2 DEF ScanStep
  <2>3. CASE (\E y \in v : order[y] = current) /\ t \notin conf
    <3>1. s = [isUpNext |-> TRUE, next |-> RunNil]
      BY <1>11, <1>16, <2>3
    <3>2. all = {}
      BY <1>7, <1>8, <1>16, <2>3
    <3>3. Walked(order, current, conf, w) = [isUpNext |-> TRUE, next |-> RunNil]
      BY <1>12, <2>1, <2>3, <3>2
    <3>4. QED
      BY <1>13, <1>16, <2>3, <3>1, <3>3 DEF ScanStep
  <2>4. CASE (\E y \in v : order[y] = current) /\ t \in conf
    <3>1. s = [isUpNext |-> TRUE, next |-> RunNil]
      BY <1>11, <1>16, <2>4
    <3>2. all = {t}
      BY <1>7, <1>8, <1>16, <2>4
    <3>3. FirstOf(all) = t
      BY <1>1, <1>4, <3>2, IDIsNatural, FirstIs DEF Task
    <3>4. Walked(order, current, conf, w) = [isUpNext |-> TRUE, next |-> t]
      BY <1>12, <2>1, <2>4, <3>2, <3>3
    <3>5. [s EXCEPT !.next = t] = [isUpNext |-> TRUE, next |-> t]
      BY <3>1, NextIsSet
    <3>6. ScanStep(current, conf, s, t) = [s EXCEPT !.next = t]
      BY <1>16, <2>4, <3>1 DEF ScanStep
    <3>7. QED
      BY <1>13, <3>4, <3>5, <3>6
  <2>5. QED
    BY <2>2, <2>3, <2>4
<1>17. QED
  BY <1>14, <1>15, <1>16
\* What Scan computes: the loop has walked every position.
LEMMA ScanIs ==
    ASSUME NEW order, NEW tasks, NEW lo, IsOrder(order, tasks, lo),
           NEW current, NEW conf
    PROVE  Scan(order, current, conf) = Walked(order, current, conf, 1 .. 10).next
<1> DEFINE Sets == SUBSET (1 .. 10)
           State(w) == Walked(order, current, conf, w)
           Step(s, i) == ScanStep(current, conf, s, order[i])
           start == [isUpNext |-> FALSE, next |-> RunNil]
           Value(g, w) == IF w = {} THEN start ELSE Step(g[w \ {Max(w)}], Max(w))
           fold == CHOOSE g : g = [w \in Sets |-> Value(g, w)]
<1>1. DOMAIN order = 1 .. 10
  BY DEF IsOrder
<1>2. Scan(order, current, conf) = fold[1 .. 10].next
  BY <1>1 DEF Scan, ScanStep, FoldLeft, MapThenFoldSet
<1>3. State({}) = start
  BY DEF Walked
<1>4. \A w \in Sets : w # {} => Max(w) \in w /\ \A y \in w : y <= Max(w)
  <2> SUFFICES ASSUME NEW w \in Sets, w # {}
               PROVE  Max(w) \in w /\ \A y \in w : y <= Max(w)
    OBVIOUS
  <2>1. w \subseteq Int /\ 10 \in Int /\ \A y \in w : y <= 10
    OBVIOUS
  <2>2. QED
    BY <2>1, BoundedHasMax
<1>5. \A w \in Sets : w # {} => State(w) = Step(State(w \ {Max(w)}), Max(w))
  <2> SUFFICES ASSUME NEW w \in Sets, w # {}
               PROVE  State(w) = Step(State(w \ {Max(w)}), Max(w))
    OBVIOUS
  <2> DEFINE x == Max(w)
  <2>1. x \in w /\ \A y \in w : y <= x
    BY <1>4
  <2> HIDE DEF x
  <2>2. State(w) = Step(State(w \ {x}), x)
    BY <2>1, WalkOn
  <2>3. QED
    BY <2>2 DEF x
<1> HIDE DEF State, Step, start
<1>6. \E g : g = [w \in Sets |-> Value(g, w)]
  <2> DEFINE g == [w \in Sets |-> State(w)]
  <2>1. \A w \in Sets : g[w] = Value(g, w)
    <3> SUFFICES ASSUME NEW w \in Sets PROVE g[w] = Value(g, w)
      OBVIOUS
    <3>1. g[w \ {Max(w)}] = State(w \ {Max(w)})
      OBVIOUS
    <3>2. QED
      BY <1>3, <1>5, <3>1
  <2>2. g = [w \in Sets |-> g[w]]
    OBVIOUS
  <2> HIDE DEF g
  <2>3. g = [w \in Sets |-> Value(g, w)]
    BY <2>1, <2>2
  <2>4. QED
    BY <2>3
<1>7. fold = [w \in Sets |-> Value(fold, w)]
  BY <1>6
<1> HIDE DEF fold
<1>8. \A w \in Sets : fold[w] = Value(fold, w)
  BY <1>7
<1>9. \A n \in 0 .. 9 : fold[1 .. n] = State(1 .. n) => fold[1 .. (n + 1)] = State(1 .. (n + 1))
  <2> SUFFICES ASSUME NEW n \in 0 .. 9, fold[1 .. n] = State(1 .. n)
               PROVE  fold[1 .. (n + 1)] = State(1 .. (n + 1))
    OBVIOUS
  <2> DEFINE w == 1 .. (n + 1)
  <2>1. w \in Sets /\ w # {} /\ n + 1 \in w /\ w \ {n + 1} = 1 .. n
    <3>1. n \in Int /\ 0 <= n /\ n <= 9 /\ n + 1 \in Int
      OBVIOUS
    <3>2. n + 1 \in w /\ \A i \in w : i \in 1 .. 10
      BY <3>1
    <3>3. \A i : i \in w \ {n + 1} <=> i \in 1 .. n
      BY <3>1
    <3>4. QED
      BY <3>2, <3>3
  <2>2. Max(w) = n + 1
    <3>1. Max(w) \in w /\ n + 1 <= Max(w)
      BY <1>4, <2>1
    <3>2. QED
      BY <3>1
  <2> HIDE DEF w
  <2>3. fold[w] = Step(fold[w \ {n + 1}], n + 1)
    BY <1>8, <2>1, <2>2
  <2>4. State(w) = Step(State(w \ {n + 1}), n + 1)
    BY <1>5, <2>1, <2>2
  <2>5. QED
    BY <2>1, <2>3, <2>4 DEF w
<1>10. fold[1 .. 0] = State(1 .. 0)
  <2>1. 1 .. 0 = {} /\ {} \in Sets
    OBVIOUS
  <2>2. QED
    BY <1>3, <1>8, <2>1
<1>11. fold[1 .. 10] = State(1 .. 10)
  <2> DEFINE Same(n) == fold[1 .. n] = State(1 .. n)
  <2>1. Same(0) /\ \A n \in 0 .. 9 : Same(n) => Same(n + 1)
    BY <1>9, <1>10
  <2> HIDE DEF Same
  <2>2. Same(1) /\ Same(2) /\ Same(3)
    BY <2>1
  <2>3. Same(4) /\ Same(5) /\ Same(6)
    BY <2>1, <2>2
  <2>4. Same(7) /\ Same(8) /\ Same(9)
    BY <2>1, <2>3
  <2>5. Same(10)
    BY <2>1, <2>4
  <2>6. QED
    BY <2>5 DEF Same
<1>12. QED
  BY <1>2, <1>11 DEF State

\* The loop over the order of the current task's workflow finds what nextTask
\* returns, whatever is configured.
LEMMA LoopIsNextTask ==
    ASSUME NEW current \in TaskName, NEW conf, conf \subseteq Task
    PROVE  nextTask(current, conf) =
             Scan(IF current \in CreateTask THEN TasksInOrder ELSE DeleteTasksInOrder,
                  current, conf)
<1> DEFINE order == IF current \in CreateTask THEN TasksInOrder ELSE DeleteTasksInOrder
           tasks == IF current \in CreateTask THEN CreateTask ELSE DeleteTask
           lo    == IF current \in CreateTask THEN 0 ELSE 100
           met   == Met(order, current, conf, 1 .. 10)
<1>1. IsOrder(order, tasks, lo)
  BY OrdersAreOrders
<1>2. current \in Task => tasks = Family(current) /\ current \in tasks
  BY DEF Family, Task
<1>3. current \notin Task => current \notin tasks
  BY DEF Task
<1> HIDE DEF order, tasks, lo
<1>4. Scan(order, current, conf) = Walked(order, current, conf, 1 .. 10).next
  BY <1>1, ScanIs
<1>5. /\ lo \in Nat /\ tasks \in {CreateTask, DeleteTask}
      /\ \A i \in 1 .. 10 : order[i] \in tasks /\ ID[order[i]] = lo + i
      /\ \A t \in tasks : \E i \in 1 .. 10 : order[i] = t
  BY <1>1 DEF IsOrder
<1>6. CASE current \notin Task
  <2>1. ~ \E y \in 1 .. 10 : order[y] = current
    BY <1>3, <1>5, <1>6
  <2>2. Walked(order, current, conf, 1 .. 10) = [isUpNext |-> FALSE, next |-> RunNil]
    BY <2>1 DEF Walked
  <2>3. nextTask(current, conf) = RunNil
    BY <1>6 DEF nextTask
  <2>4. QED
    BY <1>4, <2>2, <2>3 DEF order
<1>7. CASE current \in Task
  <2>1. PICK y \in 1 .. 10 : order[y] = current
    BY <1>2, <1>5, <1>7
  <2>2. \A z \in 1 .. 10 : order[z] = current => z = y
    BY <1>5, <2>1
  <2>3. met = Later(current, conf)
    <3>1. ASSUME NEW u \in met PROVE u \in Later(current, conf)
      <4>1. PICK i \in 1 .. 10, j \in 1 .. 10 :
              j < i /\ order[j] = current /\ order[i] = u
        BY DEF Met
      <4>2. ID[u] = lo + i /\ ID[current] = lo + j /\ u \in Family(current) /\ u \in conf
        BY <1>2, <1>5, <1>7, <4>1 DEF Met
      <4>3. ID[u] > ID[current]
        BY <1>5, <4>1, <4>2
      <4>4. QED
        BY <4>2, <4>3 DEF Later
    <3>2. ASSUME NEW u \in Later(current, conf) PROVE u \in met
      <4>1. u \in conf /\ u \in tasks /\ ID[u] > ID[current]
        BY <1>2, <1>7 DEF Later
      <4>2. PICK i \in 1 .. 10 : order[i] = u
        BY <1>5, <4>1
      <4>3. ID[u] = lo + i /\ ID[current] = lo + y
        BY <1>5, <2>1, <4>2
      <4>4. y < i
        BY <1>5, <4>1, <4>3
      <4>5. QED
        BY <2>1, <4>1, <4>2, <4>4 DEF Met
    <3>3. QED
      BY <3>1, <3>2
  <2> HIDE DEF met
  <2> DEFINE found == IF met = {} THEN RunNil ELSE FirstOf(met)
  <2>4. Walked(order, current, conf, 1 .. 10) = [isUpNext |-> TRUE, next |-> found]
    BY <2>1 DEF Walked, met
  <2>5. nextTask(current, conf) = found
    BY <1>7, <2>3 DEF nextTask, FirstOf
  <2> HIDE DEF found
  <2>6. QED
    BY <1>4, <2>4, <2>5 DEF order
<1>8. QED
  BY <1>6, <1>7

-----------------------------------------------------------------------------
(***************************************************************************)
(* The steps                                                               *)
(***************************************************************************)
LEMMA PodInvInit == Init => PodInv
<1> SUFFICES ASSUME Init PROVE PodInv
  OBVIOUS
<1>1. /\ spec \in Specs
      /\ used = Min({Budget, 2 * Len(spec.options)})
      /\ stage = [task |-> IF spec.deleting THEN "setup-delete" ELSE "setup",
                  changed |-> TRUE, state |-> "initializing"]
      /\ data = NoData /\ pod = NoPod /\ started = FALSE
      /\ script = NoScript /\ rejected = RunNil
      /\ logs = [t \in Task |-> <<>>]
  BY DEF Init
<1>2. used \in 0 .. Budget
  <2> DEFINE both == {Budget, 2 * Len(spec.options)}
  <2>1. Budget \in Nat /\ 2 * Len(spec.options) \in Nat
    BY <1>1, SpecIs, TaskPodsAssumption
  <2>2. \E x \in both : \A y \in both : x =< y
    BY <2>1
  <2>3. Min(both) \in both /\ \A y \in both : Min(both) =< y
    BY <2>2 DEF Min
  <2>4. QED
    BY <1>1, <2>1, <2>3
<1>3. stage \in StageType /\ stage.state # "in-progress"
  BY <1>1 DEF StageType, TaskName, Task, CreateTask, DeleteTask
<1>4. script.task \in TaskName /\ ScriptsFollowPrecedence
  BY <1>1, TaskNames DEF NoScript, ScriptsFollowPrecedence
<1>5. LogsInv
  <2>1. logs \in [Task -> Seq(Nat)] /\ \A t \in Task : logs[t] = <<>>
    BY <1>1
  <2>2. \A t \in Task : DOMAIN logs[t] = {}
    BY <2>1
  <2>3. 0 \in Highs
    BY <2>2 DEF Highs
  <2>4. RunNumbersGrow
    BY <2>2 DEF RunNumbersGrow, Task
  <2>5. QED
    BY <2>1, <2>3, <2>4 DEF LogsInv
<1>6. PodIsOfStage
  BY <1>1, <1>3 DEF PodIsOfStage
<1>7. QED
  BY <1>1, <1>2, <1>3, <1>4, <1>5, <1>6, TaskNames DEF PodInv

\* What the reconcile does before the pod.
LEMMA Prepared ==
    ASSUME PodInv, PrepareGeneration, CreatePluginJob
    PROVE  data' = ConfigMapData(spec) /\ started' \in BOOLEAN
BY DEF PodInv, PrepareGeneration, CreatePluginJob

\* What most of the steps leave alone.
LEMMA ScriptAndLogsStay ==
    ASSUME PodInv, UNCHANGED <<spec, script, logs>>
    PROVE  script'.task \in TaskName /\ ScriptsFollowPrecedence' /\ LogsInv'
<1>1. ScriptsFollowPrecedence'
  BY DEF PodInv, ScriptsFollowPrecedence
<1>2. LogsInv'
  BY DEF PodInv, LogsInv, Highs, RunNumbersGrow
<1>3. QED
  BY <1>1, <1>2 DEF PodInv

LEMMA StartTaskStep == ASSUME PodInv, StartTask PROVE PodInv'
<1>1. /\ stage.task # RunNil /\ stage.state = "initializing"
      /\ PrepareGeneration /\ CreatePluginJob
      /\ pod' = generatePod(spec, stage.task)
      /\ stage' = [stage EXCEPT !.state = "in-progress"]
      /\ UNCHANGED <<spec, script, logs, rejected, used>>
  BY DEF StartTask
<1>2. data' = ConfigMapData(spec) /\ started' \in BOOLEAN
  BY <1>1, Prepared
<1>3. /\ stage' \in StageType /\ stage'.state = "in-progress"
      /\ stage'.task = stage.task /\ stage.task \in Task
  BY <1>1 DEF PodInv, StageType, TaskName
<1>4. spec' = spec /\ pod' = generatePod(spec', stage'.task) /\ data' = ConfigMapData(spec')
  BY <1>1, <1>2, <1>3
<1>5. PodIsOfStage'
  BY <1>3, <1>4 DEF PodIsOfStage
<1>6. QED
  BY <1>1, <1>2, <1>3, <1>4, <1>5, ScriptAndLogsStay DEF PodInv

LEMMA StartFailsStep == ASSUME PodInv, StartFails PROVE PodInv'
<1>1. /\ stage.state = "initializing"
      /\ PrepareGeneration /\ CreatePluginJob
      /\ rejected' \in {rejected, stage.task}
      /\ UNCHANGED <<spec, stage, pod, script, logs, used>>
  BY DEF StartFails
<1>2. data' = ConfigMapData(spec) /\ started' \in BOOLEAN
  BY <1>1, Prepared
<1>3. rejected' \in TaskName
  BY <1>1 DEF PodInv, StageType
<1>4. PodIsOfStage'
  BY <1>1 DEF PodInv, PodIsOfStage
<1>5. data' \in {NoData, ConfigMapData(spec')}
  BY <1>1, <1>2
<1>6. QED
  BY <1>1, <1>2, <1>3, <1>4, <1>5, ScriptAndLogsStay DEF PodInv

\* The pod is over and the stage goes on.
LEMMA PodEnds ==
    ASSUME PodInv, pod' = NoPod, stage' \in StageType, stage'.state # "in-progress",
           used' \in 0 .. Budget, UNCHANGED <<spec, data, started, rejected>>,
           script'.task \in TaskName, ScriptsFollowPrecedence', LogsInv'
    PROVE  PodInv'
<1>1. PodIsOfStage'
  BY DEF PodIsOfStage
<1>2. data' \in {NoData, ConfigMapData(spec')}
  BY DEF PodInv
<1>3. QED
  BY <1>1, <1>2 DEF PodInv

LEMMA NextStageType ==
    ASSUME NEW t \in TaskName, NEW options
    PROVE  [task |-> nextTask(t, configuredTasks(options)), changed |-> FALSE,
            state |-> "initializing"] \in StageType
<1>1. configuredTasks(options) \subseteq Task
  BY DEF configuredTasks, DefaultTasks, Task, CreateTask, DeleteTask
<1>2. nextTask(t, configuredTasks(options)) \in TaskName
  BY <1>1, NextTaskType
<1>3. QED
  BY <1>2 DEF StageType

LEMMA PodSucceedsStep == ASSUME PodInv, PodSucceeds PROVE PodInv'
<1>1. /\ pod # NoPod /\ RunTask /\ pod' = NoPod
      /\ stage' = [task |-> nextTask(pod.task, configuredTasks(spec.options)),
                   changed |-> FALSE, state |-> "initializing"]
      /\ UNCHANGED <<spec, data, started, rejected, used>>
  BY DEF PodSucceeds
<1>2. pod.task \in TaskName
  BY <1>1, PodOrNot, TaskNames
<1>3. stage' \in StageType /\ stage'.state # "in-progress"
  BY <1>1, <1>2, NextStageType
<1>4. used' \in 0 .. Budget
  BY <1>1 DEF PodInv
<1>5. QED
  BY <1>1, <1>3, <1>4, RunTaskIs, PodEnds

LEMMA PodFailsStep == ASSUME PodInv, PodFails PROVE PodInv'
<1>1. /\ pod # NoPod /\ RunTask /\ pod' = NoPod
      /\ stage' = StageAfterFailure(pod.task)
      /\ used < Budget /\ used' = used + 1
      /\ UNCHANGED <<spec, data, started, rejected>>
  BY DEF PodFails
<1>2. used' \in 0 .. Budget
  BY <1>1, TaskPodsAssumption DEF PodInv
<1>3. stage' \in StageType /\ stage'.state # "in-progress"
  <2>1. "postinit" \in TaskName /\ "postinit-delete" \in TaskName
    BY DEF TaskName, Task, CreateTask, DeleteTask
  <2>2. [stage EXCEPT !.state = "failed"] \in StageType
    BY DEF PodInv, StageType
  <2>3. [stage EXCEPT !.state = "failed"].state = "failed"
    BY DEF PodInv, StageType
  <2>4. CASE pod.task \notin {"apply", "apply-delete"}
    BY <1>1, <2>2, <2>3, <2>4 DEF StageAfterFailure
  <2>5. CASE pod.task \in {"apply", "apply-delete"}
    <3>1. PICK t \in TaskName :
            stage' = [task |-> nextTask(t, configuredTasks(spec.options)),
                      changed |-> FALSE, state |-> "initializing"]
      BY <1>1, <2>1, <2>5 DEF StageAfterFailure
    <3>2. QED
      BY <3>1, NextStageType
  <2>6. QED
    BY <2>4, <2>5
<1>4. QED
  BY <1>1, <1>2, <1>3, RunTaskIs, PodEnds

LEMMA RetryStep == ASSUME PodInv, Retry PROVE PodInv'
<1>1. /\ pod' = NoPod /\ used < Budget /\ used' = used + 1
      /\ UNCHANGED <<spec, data, started, script, logs, rejected>>
  BY DEF Retry
<1>2. used' \in 0 .. Budget
  BY <1>1, TaskPodsAssumption DEF PodInv
<1>3. PICK t \in {"setup", "init", "setup-delete", "init-delete"} :
        stage' = [task |-> t, changed |-> FALSE, state |-> "initializing"]
  BY DEF Retry
<1>4. stage' \in StageType /\ stage'.state # "in-progress"
  BY <1>3 DEF StageType, TaskName, Task, CreateTask, DeleteTask
<1>5. QED
  BY <1>1, <1>2, <1>4, ScriptAndLogsStay, PodEnds

LEMMA PodInvNext == PodInv /\ [Next]_vars => PodInv'
<1> SUFFICES ASSUME PodInv, [Next]_vars PROVE PodInv'
  OBVIOUS
<1>1. CASE UNCHANGED vars
  <2>1. UNCHANGED <<spec, stage, data, pod, started, script, logs, rejected, used>>
    BY <1>1 DEF vars
  <2>2. PodIsOfStage'
    BY <2>1 DEF PodInv, PodIsOfStage
  <2>3. data' \in {NoData, ConfigMapData(spec')}
    BY <2>1 DEF PodInv
  <2>4. QED
    BY <2>1, <2>2, <2>3, ScriptAndLogsStay DEF PodInv
<1>2. QED
  BY <1>1, StartTaskStep, StartFailsStep, PodSucceedsStep, PodFailsStep, RetryStep DEF Next

LEMMA PodIsInv == Spec => []PodInv
BY PodInvInit, PodInvNext, PTL DEF Spec

-----------------------------------------------------------------------------
(***************************************************************************)
(* The theorems                                                            *)
(***************************************************************************)
\* Every step of the pods of a workflow (newTaskOptions, generatePod and the
\* entrypoint) leaves the state well formed; in particular there is a pod
\* exactly while the stage is in progress.
THEOREM PodTypes == Spec => []TypeOK
<1>1. ASSUME PodInv PROVE TypeOK
  <2>1. DOMAIN data \subseteq Files(spec.kind)
    BY <1>1 DEF PodInv, NoData, ConfigMapData
  <2>2. pod # NoPod <=> stage.state = "in-progress"
    BY <1>1, PodOrNot
  <2>3. logs \in [Task -> Seq(Nat)] /\ stage \in StageType
    BY <1>1 DEF PodInv, LogsInv
  <2>4. QED
    BY <1>1, <2>1, <2>2, <2>3 DEF PodInv, TypeOK, StageType
<1>2. QED
  BY <1>1, PodIsInv, PTL

\* Of the scripts that newTaskOptions leaves a task (the latest inline script,
\* that of the latest selector, and the URL of the last option that names the
\* task) the entrypoint (main.rs) runs the one that the doc of StageScript ranks
\* first, for any two options of a spec and across retries of the workflow, and
\* the default one only when none is left.
THEOREM ScriptsAreRanked == Spec => []ScriptsFollowPrecedence
<1>1. PodInv => ScriptsFollowPrecedence
  BY DEF PodInv
<1>2. QED
  BY <1>1, PodIsInv, PTL

\* get_current_rerun gives every run of a create task a number above those of
\* the task's earlier log files.
THEOREM RunsAreNumbered == Spec => []RunNumbersGrow
<1>1. PodInv => RunNumbersGrow
  BY DEF PodInv, LogsInv
<1>2. QED
  BY <1>1, PodIsInv, PTL

\* When the spec asks for approval, a pod that generatePod makes for a plan has
\* a container that holds it, the controller's unless a plugin that is a sidecar
\* of this plan is called require-approval (tf_controller.go:955-963).
THEOREM PlansWait == Spec => []PlansAwaitApproval
<1>1. ASSUME PodInv PROVE PlansAwaitApproval
  <2> SUFFICES ASSUME pod # NoPod, pod.task \in {"plan", "plan-delete"}, spec.approval
               PROVE  \E c \in ToSet(pod.containers) :
                         /\ c[2] = Approval
                         /\ c = ApprovalContainer \/ (/\ IsSidecar(spec, pod.task)
                                                     /\ spec.plugin.name = Approval)
    BY DEF PlansAwaitApproval
  <2> DEFINE t      == stage.task
             plugin == <<"plugin", spec.plugin.name>>
             first  == IsSidecar(spec, t) /\ validateVolume(spec, spec.plugin.name)
             other  == first => spec.plugin.name # Approval
             list   == Sidecars(spec, t)
  <2>1. pod.task = t /\ pod.containers = <<TaskContainer>> \o list
    BY <1>1, PodOrNot
  <2>2. NeedsApproval(spec, t)
    BY <2>1 DEF NeedsApproval
  <2>3. list = IF other
               THEN IF first THEN <<plugin, ApprovalContainer>> ELSE <<ApprovalContainer>>
               ELSE IF first THEN <<plugin>> ELSE <<>>
    BY <2>2, SidecarsAre
  <2>4. plugin[2] = spec.plugin.name /\ ApprovalContainer[2] = Approval
    BY DEF ApprovalContainer
  <2>5. ~other => first /\ spec.plugin.name = Approval
    OBVIOUS
  <2>6. first => IsSidecar(spec, t)
    OBVIOUS
  <2> HIDE DEF list, plugin, first, other, t
  <2>7. list \in Seq({plugin, ApprovalContainer})
    <3>1. \A a, b : /\ <<a, b>> \in Seq({a, b}) /\ <<>> \in Seq({a, b})
                    /\ <<a>> \in Seq({a, b}) /\ <<b>> \in Seq({a, b})
      OBVIOUS
    <3>2. \/ list = <<plugin, ApprovalContainer>> \/ list = <<ApprovalContainer>>
          \/ list = <<plugin>> \/ list = <<>>
      BY <2>3
    <3>3. QED
      BY <3>1, <3>2
  <2>8. PICK c \in ToSet(list) : /\ c[2] = Approval
                                 /\ c = ApprovalContainer \/ (/\ IsSidecar(spec, t)
                                                             /\ spec.plugin.name = Approval)
    <3>1. CASE other
      <4>1. \E i \in DOMAIN list : list[i] = ApprovalContainer
        BY <2>3, <3>1
      <4>2. QED
        BY <2>4, <4>1 DEF ToSet
    <3>2. CASE ~other
      <4>1. \E i \in DOMAIN list : list[i] = plugin
        BY <2>3, <2>5, <3>2
      <4>2. QED
        BY <2>4, <2>5, <2>6, <3>2, <4>1 DEF ToSet
    <3>3. QED
      BY <3>1, <3>2
  <2>9. c \in ToSet(pod.containers)
    BY <2>1, <2>7, <2>8, InPod
  <2>10. QED
    BY <2>1, <2>8, <2>9
<1>2. QED
  BY <1>1, PodIsInv, PTL

\* Whatever labels the options ask for, the pod that generatePod makes bears the
\* labels by which the controller selects it with the controller's values.
THEOREM LabelsAreTheSystems == Spec => []PodsBearTheirLabels
<1>1. ASSUME PodInv PROVE PodsBearTheirLabels
  <2> SUFFICES ASSUME pod # NoPod, NEW l \in {"generation", "instance", "resourceName"}
               PROVE  l \in DOMAIN pod.labels /\ pod.labels[l] = "system"
    BY DEF PodsBearTheirLabels
  <2>1. pod.labels = PodLabels(spec, stage.task)
    BY <1>1, PodOrNot
  <2>2. l \in SystemLabels(stage.task)
    BY DEF SystemLabels
  <2>3. QED
    BY <2>1, <2>2 DEF PodLabels
<1>2. QED
  BY <1>1, PodIsInv, PTL

\* The API server refuses a pod that generatePod makes only when the options of
\* its task, of the plugin or of the approval add two volumes of one name: in no
\* other combination of options and sidecars do the names of volumes, containers
\* and mounts clash, since validateVolume keeps the system's names apart and a
\* sidecar adds only the volumes that the pod does not have.
THEOREM RejectedPodsRepeat == Spec => []OnlyRepeatsAreRejected
<1>1. Init => OnlyRepeatsAreRejected
  BY DEF Init, OnlyRepeatsAreRejected
<1>2. ASSUME PodInv, OnlyRepeatsAreRejected, [Next]_vars PROVE OnlyRepeatsAreRejected'
  <2>1. spec' = spec
    BY <1>2 DEF Next, StartTask, StartFails, PodSucceeds, PodFails, Retry, vars
  <2>2. CASE UNCHANGED rejected
    BY <1>2, <2>1, <2>2 DEF OnlyRepeatsAreRejected, UserVolumes
  <2>3. CASE rejected' # rejected
    <3>1. /\ ~SidecarFails(spec, stage.task) /\ validateVolume(spec, stage.task)
          /\ Malformed(generatePod(spec, stage.task)) /\ rejected' = stage.task
      BY <1>2, <2>3 DEF Next, StartTask, StartFails, PodSucceeds, PodFails, Retry, vars
    <3>2. spec.plugin.name \in {Plugin, Approval}
      BY <1>2, SpecIs DEF PodInv
    <3>3. \E t \in {rejected', Plugin, Approval} : Repeats(UserVolumes(spec, t))
      BY <3>1, <3>2, MalformedRepeats
    <3>4. QED
      BY <2>1, <3>3 DEF OnlyRepeatsAreRejected
  <2>4. QED
    BY <2>2, <2>3
<1>3. QED
  BY <1>1, <1>2, PodIsInv, PTL DEF Spec

\* In every state of a workflow and for all the tasks that its options name, the
\* first configured task after the current one is what the loops of nextTask
\* (tf_controller.go:1318-1370) arrive at.
THEOREM LoopFindsNextTask == Spec => []NextTaskIsTheLoop
<1>1. ASSUME PodInv PROVE NextTaskIsTheLoop
  <2>1. configuredTasks(spec.options) \subseteq Task
    BY DEF configuredTasks, DefaultTasks, Task, CreateTask, DeleteTask
  <2>2. stage.task \in TaskName
    BY <1>1 DEF PodInv, StageType
  <2>3. QED
    BY <2>1, <2>2, LoopIsNextTask DEF NextTaskIsTheLoop
<1>2. QED
  BY <1>1, PodIsInv, PTL
=============================================================================
