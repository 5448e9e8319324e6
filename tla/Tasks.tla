------------------------------- MODULE Tasks -------------------------------
(***************************************************************************)
(* The task names of a workflow and the pure functions the controllers use *)
(* to order them: TaskName.ID, getConfiguredTasks, nextTask and            *)
(* isTaskInterruptable.  The Tofu controller has a line-for-line copy of   *)
(* the same functions.                                                     *)
(***************************************************************************)
EXTENDS Naturals

CONSTANT ExtraTasks  \* the tasks that some spec.taskOptions[].for names

(***************************************************************************)
(* TaskName.ID: the create workflow counts from 1, the destroy workflow    *)
(* from 101.                                                               *)
(***************************************************************************)
CreateTask == {"setup", "preinit", "init", "postinit", "preplan", "plan",
               "postplan", "preapply", "apply", "postapply"}

DeleteTask == {"setup-delete", "preinit-delete", "init-delete",
               "postinit-delete", "preplan-delete", "plan-delete",
               "postplan-delete", "preapply-delete", "apply-delete",
               "postapply-delete"}

Task     == CreateTask \union DeleteTask
RunNil   == ""
TaskName == Task \union {RunNil}

ID == [t \in Task |->
         CASE t = "setup"    -> 1  [] t = "setup-delete"    -> 101
           [] t = "preinit"  -> 2  [] t = "preinit-delete"  -> 102
           [] t = "init"     -> 3  [] t = "init-delete"     -> 103
           [] t = "postinit" -> 4  [] t = "postinit-delete" -> 104
           [] t = "preplan"  -> 5  [] t = "preplan-delete"  -> 105
           [] t = "plan"     -> 6  [] t = "plan-delete"     -> 106
           [] t = "postplan" -> 7  [] t = "postplan-delete" -> 107
           [] t = "preapply" -> 8  [] t = "preapply-delete" -> 108
           [] t = "apply"    -> 9  [] t = "apply-delete"    -> 109
           [] t = "postapply"-> 10 [] t = "postapply-delete"-> 110]

ASSUME ExtraTasksAssumption == ExtraTasks \subseteq Task

DefaultTasks == {"setup", "init", "plan", "apply", "setup-delete",
                 "init-delete", "plan-delete", "apply-delete"}

\* getConfiguredTasks: the eight tasks every workflow has, and those that a
\* task option names ("*" names no task).
ConfiguredTasks == DefaultTasks \union ExtraTasks

\* The tasks of t's own workflow.
Family(t) == IF t \in CreateTask THEN CreateTask ELSE DeleteTask

\* The tasks of conf that the workflow of t runs after t.
Later(t, conf) == {u \in conf \intersect Family(t) : ID[u] > ID[t]}

\* The tasks of conf that the workflow of t runs before t.
Earlier(t, conf) == {u \in conf \intersect Family(t) : ID[u] < ID[t]}

\* Mutant: the first task after the current one, configured or not.
nextTaskUnconfigured(t, conf) ==
    IF t \notin Task \/ Later(t, Task) = {}
    THEN RunNil
    ELSE CHOOSE u \in Later(t, Task) : \A v \in Later(t, Task) : ID[u] <= ID[v]

\* Mutant: the first configured task of the order other than t; the flag
\* isUpNext is not looked at.
nextTaskWithoutFlag(t, conf) ==
    LET others == (conf \intersect Family(t)) \ {t}
    IN  IF t \notin Task \/ others = {}
        THEN RunNil
        ELSE CHOOSE u \in others : \A v \in others : ID[u] <= ID[v]

\* nextTask: the first configured task after t, RunNil when t is the last one
\* or is not a task.
nextTask(t, conf) ==
    IF t \notin Task \/ Later(t, conf) = {}
    THEN RunNil
    ELSE CHOOSE u \in Later(t, conf) :
            \A v \in Later(t, conf) : ID[u] <= ID[v]

\* isTaskInterruptable: the tasks known to harm the terraform state when they
\* do not run to completion.
UninterruptibleTasks == {"init", "plan", "apply",
                         "init-delete", "plan-delete", "apply-delete"}

isTaskInterruptable(t) == t \notin UninterruptibleTasks
=============================================================================
