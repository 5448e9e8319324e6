---------------------------- MODULE Multicluster ----------------------------
(***************************************************************************)
(* The requests of the two controllers over the clusters of the provider:  *)
(* the Terraform and the Tofu controller each take requests of their own   *)
(* queue, look the cluster up, test and set the reconcile lock, read the   *)
(* resource and release the lock (Reconcile and reconcile of               *)
(* tf_controller.go and tofu_controller.go).  What the reconcile does with *)
(* the resource is module Workflow's.                                      *)
(*                                                                         *)
(* Every workload cluster has one Terraform and one Tofu of the same name, *)
(* so that both have the same lock.  Each controller has the one worker of *)
(* --max-concurrent-reconciles=1, the default.                             *)
(***************************************************************************)
EXTENDS ClusterProvider

CONSTANTS
    Controllers,  \* "terraform", "tofu"
    MaxAsks       \* changes of the resources in the workload clusters, and
                  \* reconciles that ask to be run again

ASSUME RequestAssumption == MaxAsks \in Nat

VARIABLES
    queue,    \* the work queue of each controller: cluster names
    delayed,  \* ... those that wait to be queued again
    worker,   \* the reconcile of each controller
    locks,    \* the reconcile lock of each cluster name
    news,     \* what the informers of a cluster have still to deliver
    unseen,   \* history: changes no reconcile has read
    asked     \* how much of the bound is used up

requestVars == <<queue, delayed, worker, locks, news, unseen, asked>>
vars == <<providerVars, requestVars>>

Change == Remotes \X Controllers

\* The cluster whose client a reconcile has, by its number; Cancelled, when that
\* cluster is registered and engaged no more.
Cancelled == 0

Worker == [pc : {"idle", "recorder", "lock", "set", "read", "release"},
           name : Names \union {None}, cluster : Nat, outcome : {"done", "again"}]

Idle == [pc |-> "idle", name |-> None, cluster |-> Cancelled, outcome |-> "done"]

TypeOK ==
    /\ ProviderTypeOK
    /\ queue \in [Controllers -> SUBSET Names]
    /\ delayed \in [Controllers -> SUBSET Names]
    /\ worker \in [Controllers -> Worker]
    /\ locks \in [Names -> Controllers \union {None}]
    /\ news \subseteq Nat \X Controllers
    /\ unseen \subseteq Change
    /\ asked \in Nat

Init ==
    /\ ProviderInit
    /\ queue = [k \in Controllers |-> {}]
    /\ delayed = [k \in Controllers |-> {}]
    /\ worker = [k \in Controllers |-> Idle]
    /\ locks = [n \in Names |-> None]
    /\ news = {}
    /\ unseen = Change
    /\ asked = 0
-----------------------------------------------------------------------------
(***************************************************************************)
(* The workload clusters                                                   *)
(***************************************************************************)
Running == {e \in engaged : e.state = "running"}

\* A cluster that starts to run lists its resources; a cluster whose context is
\* cancelled delivers nothing more.
NewsOf(clustersAfter) ==
    LET ids == {e.id : e \in Running}
        after == {e \in clustersAfter : e.state = "running"}
    IN  {n \in news : \E e \in after : e.id = n[1]}
        \union {<<e.id, k>> : e \in {r \in after : r.id \notin ids},
                              k \in Controllers}

Asks == asked < MaxAsks /\ asked' = asked + 1

InUse == {c.id : c \in engaged \union {clusters[n] : n \in Names}}

\* The client outlives its cluster in the reconcile that has it, and reads
\* nothing of the cluster that takes the name.
KeepClient(w, inUse) ==
    IF w.cluster \in inUse THEN w ELSE [w EXCEPT !.cluster = Cancelled]

Provide == /\ ProviderStep
           /\ news' = NewsOf(engaged')
           /\ worker' = [k \in Controllers |-> KeepClient(worker[k], InUse')]
           /\ UNCHANGED <<queue, delayed, locks, unseen, asked>>

\* A user or a pod changes a resource.
UpdateResource(remote, k) ==
    /\ Asks
    /\ unseen' = unseen \union {<<remote, k>>}
    /\ news' = news \union {<<e.id, k>> : e \in {r \in Running : r.remote = remote}}
    /\ UNCHANGED <<providerVars, queue, delayed, worker, locks>>

\* Mutant: the request does not say which cluster it is of.
DeliverLocal(e, k) ==
    /\ <<e.id, k>> \in news
    /\ news' = news \ {<<e.id, k>>}
    /\ queue' = [queue EXCEPT ![k] = @ \union {None}]
    /\ UNCHANGED <<providerVars, delayed, worker, locks, unseen, asked>>

\* An informer updates its cache and queues the request.
Deliver(e, k) ==
    /\ <<e.id, k>> \in news
    /\ news' = news \ {<<e.id, k>>}
    /\ queue' = [queue EXCEPT ![k] = @ \union {e.name}]
    /\ UNCHANGED <<providerVars, delayed, worker, locks, unseen, asked>>
-----------------------------------------------------------------------------
(***************************************************************************)
(* A reconcile                                                             *)
(***************************************************************************)
Set(k, value) == worker' = [worker EXCEPT ![k] = value]

\* The reconcile ends and its request is queued again later.
Retry(k) == /\ Set(k, Idle)
            /\ delayed' = [delayed EXCEPT ![k] = @ \union {worker[k].name}]

\* The queue gives a request to one worker at a time, and keeps what is queued
\* meanwhile (external).  The first lookup is that of the client.
Take(k, name) ==
    /\ worker[k].pc = "idle" /\ name \in queue[k]
    /\ queue' = [queue EXCEPT ![k] = @ \ {name}]
    /\ IF Get(name) # NoCluster
       THEN /\ Set(k, [Idle EXCEPT !.pc = "recorder", !.name = name,
                                   !.cluster = Get(name).id])
            /\ UNCHANGED delayed
       ELSE /\ UNCHANGED worker
            /\ \/ delayed' = [delayed EXCEPT ![k] = @ \union {name}]
               \/ UNCHANGED delayed
    /\ UNCHANGED <<providerVars, locks, news, unseen, asked>>

\* The second is that of the event recorder.  The runtime drops a request for
\* a cluster that is not found, or queues it again, by its version (external).
GetRecorder(k) ==
    /\ worker[k].pc = "recorder"
    /\ IF Get(worker[k].name) # NoCluster
       THEN Set(k, [worker[k] EXCEPT !.pc = "lock"]) /\ UNCHANGED delayed
       ELSE \/ Retry(k)
            \/ Set(k, Idle) /\ UNCHANGED delayed
    /\ UNCHANGED <<providerVars, queue, locks, news, unseen, asked>>

\* Mutant: a request that finds the lock set is not queued again.
TestLockDrops(k) ==
    /\ worker[k].pc = "lock"
    /\ IF locks[worker[k].name] = None
       THEN Set(k, [worker[k] EXCEPT !.pc = "set"])
       ELSE Set(k, Idle)
    /\ UNCHANGED <<providerVars, queue, delayed, locks, news, unseen, asked>>

TestLock(k) ==
    /\ worker[k].pc = "lock"
    /\ IF locks[worker[k].name] = None
       THEN Set(k, [worker[k] EXCEPT !.pc = "set"]) /\ UNCHANGED delayed
       ELSE Retry(k)
    /\ UNCHANGED <<providerVars, queue, locks, news, unseen, asked>>

SetLock(k) ==
    /\ worker[k].pc = "set"
    /\ locks' = [locks EXCEPT ![worker[k].name] = k]
    /\ Set(k, [worker[k] EXCEPT !.pc = "read"])
    /\ UNCHANGED <<providerVars, queue, delayed, news, unseen, asked>>

\* The cluster that the client reads, while its caches are filled and its context
\* is not cancelled.
Reads(k) == {e \in Running : e.id = worker[k].cluster}

\* Mutant: an error returns before the lock's release is deferred.
ReadKeepsLock(k) ==
    /\ worker[k].pc = "read"
    /\ IF Reads(k) # {}
       THEN /\ unseen' = unseen \ {<<e.remote, k>> : e \in
                            {r \in Reads(k) : <<r.id, k>> \notin news}}
            /\ Set(k, [worker[k] EXCEPT !.pc = "release"])
       ELSE Set(k, Idle) /\ UNCHANGED unseen
    /\ UNCHANGED <<providerVars, queue, delayed, locks, news, asked>>

\* The resource is read from the client's cache: what its informers have not
\* delivered is not there.  The cache of a cluster that does not run yet fails,
\* and that of one that was cancelled says what it said then.
Read(k) ==
    /\ worker[k].pc = "read"
    /\ IF Reads(k) # {}
       THEN /\ unseen' = unseen \ {<<e.remote, k>> : e \in
                            {r \in Reads(k) : <<r.id, k>> \notin news}}
            /\ Set(k, [worker[k] EXCEPT !.pc = "release"])
       ELSE /\ UNCHANGED unseen
            /\ \E outcome \in {"done", "again"} :
                 Set(k, [worker[k] EXCEPT !.pc = "release", !.outcome = outcome])
    /\ UNCHANGED <<providerVars, queue, delayed, locks, news, asked>>

\* The deferred release: the lock goes, whoever has set it.
Release(k) ==
    /\ worker[k].pc = "release"
    /\ locks' = [locks EXCEPT ![worker[k].name] = None]
    /\ \/ worker[k].outcome = "again" /\ Retry(k) /\ UNCHANGED asked
       \/ /\ worker[k].outcome = "done"
          /\ Set(k, Idle)
          /\ UNCHANGED <<delayed, asked>>
       \/ /\ worker[k].outcome = "done"
          /\ Asks
          /\ Retry(k)
    /\ UNCHANGED <<providerVars, queue, news, unseen>>

\* The 30 seconds or the backoff are over.
Expire(k, name) ==
    /\ name \in delayed[k]
    /\ delayed' = [delayed EXCEPT ![k] = @ \ {name}]
    /\ queue' = [queue EXCEPT ![k] = @ \union {name}]
    /\ UNCHANGED <<providerVars, worker, locks, news, unseen, asked>>

\* Ten hours are longer than anything else here takes; only requests for a
\* cluster that does not run may be retried all the time.
Quiet == /\ \A k \in Controllers, e \in Running :
              worker[k].name # e.name /\ e.name \notin queue[k] \union delayed[k]
         /\ news = {}

ResyncWhenQuiet(s) ==
    /\ Quiet
    /\ Resync(s)
    /\ UNCHANGED requestVars

Step(k) == \/ \E n \in Names : Take(k, n)
           \/ GetRecorder(k) \/ TestLock(k) \/ SetLock(k) \/ Read(k) \/ Release(k)

Next == \/ Provide
        \/ \E r \in Remotes, k \in Controllers : UpdateResource(r, k)
        \/ \E e \in engaged, k \in Controllers : Deliver(e, k)
        \/ \E k \in Controllers : Step(k)
        \/ \E k \in Controllers, n \in Names : Expire(k, n)
        \/ \E s \in Secrets : ResyncWhenQuiet(s)

Spec == Init /\ [][Next]_vars

\* The informer delivers its events, the goroutines run, the workers go on, a
\* queue is first in, first out, and time passes; nobody has to change anything
\* and nothing has to fail.
Fairness ==
    /\ WF_vars(HandlerStep /\ Provide)
    /\ WF_vars((\E e \in engaged : StartCluster(e)) /\ Provide)
    /\ \A k \in Controllers :
         /\ WF_vars(\E e \in engaged : Deliver(e, k))
         /\ WF_vars(Step(k))
         /\ \A n \in Names : SF_vars(Take(k, n)) /\ WF_vars(Expire(k, n))
    /\ \A s \in Secrets : SF_vars(ResyncWhenQuiet(s))

FairSpec == Spec /\ Fairness
-----------------------------------------------------------------------------
(***************************************************************************)
(* Properties                                                              *)
(***************************************************************************)
\* A lock that is set has a reconcile that will release it: the entry of the
\* cache never expires, so that a lock left behind would stop the resource for
\* ever (reconcile, tf_controller.go 640-648, on every return).
LocksAreReleased ==
    \A n \in Names : locks[n] # None =>
        \E k \in Controllers : /\ worker[k].name = n
                               /\ worker[k].pc \in {"read", "release"}

\* A change of a resource is read by a reconcile of its controller, as long as
\* its cluster goes on being registered under a name of its own: neither a
\* lookup while the cluster is replaced, nor a reconcile with the client of the
\* old cluster, nor a request that finds the lock set loses it ("reconciles
\* resources in every registered cluster", docs/multicluster-setup.md:12).
ChangesAreRead ==
    \A s \in Secrets, r \in Remotes, k \in Controllers :
        <>[](Registers(s) /\ secrets[s].kubeconfig = r)
            => []<>(<<r, k>> \notin unseen)
=============================================================================
