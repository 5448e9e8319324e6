---------------------------- MODULE TasksProofs ----------------------------
(***************************************************************************)
(* What nextTask returns, for every set of configured tasks.               *)
(***************************************************************************)
EXTENDS Tasks, TLAPS

\* The numbers of TaskName.ID, one equation per task.
LEMMA IDs ==
    /\ ID["setup"] = 1 /\ ID["preinit"] = 2 /\ ID["init"] = 3
    /\ ID["postinit"] = 4 /\ ID["preplan"] = 5 /\ ID["plan"] = 6
    /\ ID["postplan"] = 7 /\ ID["preapply"] = 8 /\ ID["apply"] = 9
    /\ ID["postapply"] = 10
    /\ ID["setup-delete"] = 101 /\ ID["preinit-delete"] = 102
    /\ ID["init-delete"] = 103 /\ ID["postinit-delete"] = 104
    /\ ID["preplan-delete"] = 105 /\ ID["plan-delete"] = 106
    /\ ID["postplan-delete"] = 107 /\ ID["preapply-delete"] = 108
    /\ ID["apply-delete"] = 109 /\ ID["postapply-delete"] = 110
  BY DEF ID, Task, CreateTask, DeleteTask

\* The numbers of each workflow are ten consecutive ones.
LEMMA IDRange ==
    /\ \A t \in CreateTask : ID[t] \in Nat /\ 0 < ID[t] /\ ID[t] <= 10
    /\ \A t \in DeleteTask : ID[t] \in Nat /\ 100 < ID[t] /\ ID[t] <= 110
<1>1. \A t \in CreateTask : ID[t] \in Nat /\ 0 < ID[t] /\ ID[t] <= 10
  BY IDs DEF CreateTask
<1>2. \A t \in DeleteTask : ID[t] \in Nat /\ 100 < ID[t] /\ ID[t] <= 110
  BY IDs DEF DeleteTask
<1>3. QED
  BY <1>1, <1>2

\* A non-empty set of tasks with ten consecutive numbers has a first task: if
\* it had none, no task of the set could have the lowest number, so none could
\* have the second, and so on.
LEMMA FirstOfTen ==
    ASSUME NEW S, S # {}, NEW lo \in Nat,
           \A v \in S : ID[v] \in Nat /\ lo < ID[v] /\ ID[v] <= lo + 10
    PROVE  \E u \in S : \A v \in S : ID[u] <= ID[v]
<1> SUFFICES ASSUME ~ \E u \in S : \A v \in S : ID[u] <= ID[v]
             PROVE  FALSE
  OBVIOUS
<1>1. \A u \in S : \E v \in S : ID[v] < ID[u]
  OBVIOUS
<1>2. \A v \in S : ID[v] > lo + 1
  BY <1>1
<1>3. \A v \in S : ID[v] > lo + 2
  BY <1>1, <1>2
<1>4. \A v \in S : ID[v] > lo + 3
  BY <1>1, <1>3
<1>5. \A v \in S : ID[v] > lo + 4
  BY <1>1, <1>4
<1>6. \A v \in S : ID[v] > lo + 5
  BY <1>1, <1>5
<1>7. \A v \in S : ID[v] > lo + 6
  BY <1>1, <1>6
<1>8. \A v \in S : ID[v] > lo + 7
  BY <1>1, <1>7
<1>9. \A v \in S : ID[v] > lo + 8
  BY <1>1, <1>8
<1>10. \A v \in S : ID[v] > lo + 9
  BY <1>1, <1>9
<1>11. \A v \in S : ID[v] > lo + 10
  BY <1>1, <1>10
<1>12. QED
  BY <1>11

\* A non-empty set of tasks of one workflow has a first task.
LEMMA FirstTask ==
    ASSUME NEW S, S # {}, S \subseteq CreateTask \/ S \subseteq DeleteTask
    PROVE  \E u \in S : \A v \in S : ID[u] <= ID[v]
<1>1. CASE S \subseteq CreateTask
  <2>1. \A v \in S : ID[v] \in Nat /\ 0 < ID[v] /\ ID[v] <= 0 + 10
    BY <1>1, IDRange
  <2>2. QED
    BY <2>1, FirstOfTen
<1>2. CASE S \subseteq DeleteTask
  <2>1. \A v \in S : ID[v] \in Nat /\ 100 < ID[v] /\ ID[v] <= 100 + 10
    BY <1>2, IDRange
  <2>2. QED
    BY <2>1, FirstOfTen
<1>3. QED
  BY <1>1, <1>2

\* nextTask (tf_controller.go:1318-1370) returns RunNil or the first configured
\* task of the same workflow that comes after the current one: no step of a
\* workflow goes back or changes from the create to the destroy workflow.
LEMMA NextTaskIsLater ==
    ASSUME NEW conf, conf \subseteq Task, NEW t \in TaskName
    PROVE  \/ nextTask(t, conf) = RunNil
           \/ /\ t \in Task
              /\ nextTask(t, conf) \in Later(t, conf)
              /\ \A v \in Later(t, conf) : ID[nextTask(t, conf)] <= ID[v]
<1>1. CASE t \notin Task \/ Later(t, conf) = {}
  BY <1>1 DEF nextTask
<1>2. CASE t \in Task /\ Later(t, conf) # {}
  <2>1. Later(t, conf) \subseteq CreateTask \/ Later(t, conf) \subseteq DeleteTask
    BY DEF Later, Family
  <2>2. \E u \in Later(t, conf) : \A v \in Later(t, conf) : ID[u] <= ID[v]
    BY <1>2, <2>1, FirstTask
  <2>3. nextTask(t, conf) = CHOOSE u \in Later(t, conf) :
                              \A v \in Later(t, conf) : ID[u] <= ID[v]
    BY <1>2 DEF nextTask
  <2>4. QED
    BY <1>2, <2>2, <2>3
<1>3. QED
  BY <1>1, <1>2

\* The next task is a task name, and of the workflow of the current task.
LEMMA NextTaskType ==
    ASSUME NEW conf, conf \subseteq Task, NEW t \in TaskName
    PROVE  /\ nextTask(t, conf) \in TaskName
           /\ nextTask(t, conf) \in DeleteTask => t \in DeleteTask
           /\ nextTask(t, conf) \in CreateTask => t \in CreateTask
  BY NextTaskIsLater DEF Later, Family, TaskName, Task, RunNil, CreateTask, DeleteTask

\* When a configured task is left, nextTask returns one.
LEMMA NextTaskExists ==
    ASSUME NEW conf, conf \subseteq Task, NEW t \in Task, Later(t, conf) # {}
    PROVE  /\ nextTask(t, conf) \in Later(t, conf)
           /\ \A v \in Later(t, conf) : ID[nextTask(t, conf)] <= ID[v]
<1>1. Later(t, conf) \subseteq CreateTask \/ Later(t, conf) \subseteq DeleteTask
  BY DEF Later, Family
<1>2. \E u \in Later(t, conf) : \A v \in Later(t, conf) : ID[u] <= ID[v]
  BY <1>1, FirstTask
<1>3. QED
  BY <1>2 DEF nextTask

LEMMA IDIsNatural == \A t \in Task : ID[t] \in Nat
  BY IDRange DEF Task

\* No two tasks of a workflow have the same number.
LEMMA SameNumber ==
    ASSUME NEW t \in Task, NEW u \in Family(t), ID[u] = ID[t]
    PROVE  u = t
<1>1. CASE t \in CreateTask
  BY <1>1, IDs DEF Family, CreateTask
<1>2. CASE t \notin CreateTask
  <2>1. t \in DeleteTask /\ u \in DeleteTask
    BY <1>2 DEF Family, Task
  <2>2. QED
    BY <2>1, IDs DEF DeleteTask
<1>3. QED
  BY <1>1, <1>2

LEMMA CreateIsNotDelete == CreateTask \intersect DeleteTask = {}
  BY DEF CreateTask, DeleteTask

LEMMA FamilyOf ==
    ASSUME NEW t \in Task, NEW u \in Family(t)
    PROVE  /\ u \in Task /\ Family(u) = Family(t)
           /\ u \in CreateTask <=> t \in CreateTask
  BY CreateIsNotDelete DEF Family, Task
==============================================================================
