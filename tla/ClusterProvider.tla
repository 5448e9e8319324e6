--------------------------- MODULE ClusterProvider ---------------------------
(***************************************************************************)
(* The kubeconfig cluster provider (pkg/multicluster/provider.go): secrets *)
(* of the host cluster register workload clusters.  The informer of the    *)
(* secrets calls one handler after the other; a handler takes the old      *)
(* cluster out of the registry, creates the new one, registers it, engages *)
(* it in the manager and starts it, and the lookups of the controllers     *)
(* fall between these steps.                                               *)
(*                                                                         *)
(* A cluster is a record of what a reconcile can tell apart: the secret it *)
(* comes from, the API server its kubeconfig leads to and a number, for    *)
(* the context that cancels it.                                            *)
(***************************************************************************)
EXTENDS Naturals, Sequences, FiniteSets

CONSTANTS
    Secrets,          \* the secrets, by name; their namespace is the provider's
    Labels,           \* the values of the cluster name label
    Remotes,          \* the API servers of workload clusters
    MaxSecretChanges, \* changes of the secrets by users
    MaxFailures       \* clusters that cannot be created, engaged or started

ASSUME ClusterAssumption ==
    /\ IsFiniteSet(Secrets)
    /\ "none" \notin Secrets \union Labels
    /\ Remotes \intersect {"unusable", "deleted"} = {}
    /\ {MaxSecretChanges, MaxFailures} \subseteq Nat

VARIABLES
    secrets,       \* the secrets in the host cluster
    events,        \* what the informer has still to deliver, in order
    handler,       \* the handler in progress
    clusters,      \* p.clusters: the registered cluster of each name
    secretCluster, \* p.secretCluster: the cluster name of each secret
    engaged,       \* the clusters whose context is not cancelled
    spent          \* how much of each bound is used up

providerVars ==
    <<secrets, events, handler, clusters, secretCluster, engaged, spent>>

Names == Secrets \union Labels

None == "none"
NoSecret == [name |-> None, kubeconfig |-> "deleted"]
Unusable == [name |-> None, kubeconfig |-> "unusable"]

\* clusterName: the label, or the name of the secret.
clusterName(s) == {s} \union Labels

\* What a secret says: the cluster it registers, or nothing, when the selector
\* does not match it, or it has no kubeconfig or one that cannot be parsed.
Content(s) == {Unusable} \union [name : clusterName(s), kubeconfig : Remotes]

Secret == (UNION {Content(s) : s \in Secrets}) \union {NoSecret}

Event == [secret : Secrets, content : Secret]

Cluster == [id : Nat, name : Names, secret : Secrets, remote : Remotes,
            state : {"created", "starting", "running", "stopped"}]

NoCluster == [id |-> 0]

NoEvent == [secret |-> None, content |-> NoSecret]

Handler == [pc : {"idle", "disengage", "new", "register", "engage"},
            event : Event \union {NoEvent}, cluster : Cluster \union {NoCluster}]

Resting == [pc |-> "idle", event |-> NoEvent, cluster |-> NoCluster]

ProviderTypeOK ==
    /\ secrets \in [Secrets -> Secret]
    /\ events \in Seq(Event)
    /\ handler \in Handler
    /\ clusters \in [Names -> Cluster \union {NoCluster}]
    /\ \A n \in Names : clusters[n] # NoCluster => clusters[n].name = n
    /\ secretCluster \in [Secrets -> Names \union {None}]
    /\ engaged \subseteq Cluster
    /\ spent \in [{"changes", "failures"} -> Nat]

\* The provider starts beside any secrets; their Add events are in no particular
\* order.
ProviderInit ==
    /\ secrets \in [Secrets -> Secret]
    /\ \A s \in Secrets : secrets[s] \in Content(s) \union {NoSecret}
    /\ LET present == {s \in Secrets : secrets[s] # NoSecret}
       IN  \E order \in [1 .. Cardinality(present) -> present] :
             /\ \A s \in present : \E i \in DOMAIN order : order[i] = s
             /\ events = [i \in DOMAIN order |->
                            [secret |-> order[i], content |-> secrets[order[i]]]]
    /\ handler = Resting
    /\ clusters = [n \in Names |-> NoCluster]
    /\ secretCluster = [s \in Secrets |-> None]
    /\ engaged = {}
    /\ spent = [b \in {"changes", "failures"} |-> 0]
-----------------------------------------------------------------------------
\* The selector matches and the kubeconfig can be parsed.
IsCluster(content) == content.kubeconfig \in Remotes

Fails == /\ spent["failures"] < MaxFailures
         /\ spent' = [spent EXCEPT !["failures"] = @ + 1]

\* Mutant: the secrets of the cluster stay recorded.
disengageKeepsSecrets(name) ==
    /\ clusters' = [clusters EXCEPT ![name] = NoCluster]
    /\ engaged' = {e \in engaged : e.id # clusters[name].id}
    /\ UNCHANGED secretCluster

\* The cluster leaves the registry with its secrets, and its context is
\* cancelled.
disengage(name) ==
    /\ clusters' = [clusters EXCEPT ![name] = NoCluster]
    /\ engaged' = {e \in engaged : e.id # clusters[name].id}
    /\ secretCluster' = IF clusters[name] = NoCluster THEN secretCluster
                        ELSE [s \in Secrets |-> IF secretCluster[s] = name
                                                THEN None ELSE secretCluster[s]]

\* Mutant: a secret is looked up by its own name.
disengageSecretByName(s) ==
    IF s \in Names /\ secretCluster[s] = s THEN disengage(s)
    ELSE UNCHANGED <<clusters, engaged, secretCluster>>

disengageSecret(s) ==
    IF secretCluster[s] # None THEN disengage(secretCluster[s])
    ELSE UNCHANGED <<clusters, engaged, secretCluster>>

\* The secret is deleted, does not match any more, or has no usable kubeconfig.
HandleOther ==
    /\ handler.pc = "idle" /\ events # <<>>
    /\ ~IsCluster(Head(events).content)
    /\ events' = Tail(events)
    /\ disengageSecret(Head(events).secret)
    /\ UNCHANGED <<secrets, handler, spent>>

\* Mutant: a cluster that is registered is not replaced by the same one.
HandleSecretOnce ==
    /\ handler.pc = "idle" /\ events # <<>>
    /\ IsCluster(Head(events).content)
    /\ events' = Tail(events)
    /\ LET e == Head(events)
           c == secretCluster[e.secret]
       IN  IF c = e.content.name /\ clusters[c].remote = e.content.kubeconfig
           THEN UNCHANGED <<clusters, engaged, secretCluster, handler>>
           ELSE /\ disengageSecret(e.secret)
                /\ handler' = [Resting EXCEPT !.pc = "disengage", !.event = e]
    /\ UNCHANGED <<secrets, spent>>

HandleSecret ==
    /\ handler.pc = "idle" /\ events # <<>>
    /\ IsCluster(Head(events).content)
    /\ events' = Tail(events)
    /\ disengageSecret(Head(events).secret)
    /\ handler' = [Resting EXCEPT !.pc = "disengage", !.event = Head(events)]
    /\ UNCHANGED <<secrets, spent>>

HandledName == handler.event.content.name

\* The cluster of this name goes, whatever its secret.
DisengageName ==
    /\ handler.pc = "disengage"
    /\ disengage(HandledName)
    /\ handler' = [handler EXCEPT !.pc = "new"]
    /\ UNCHANGED <<secrets, events, spent>>

\* A number no cluster in use has.  A cluster that is cancelled is never used
\* again: whoever still has it may forget its number.
FreshId == CHOOSE i \in 1 .. 2 * Cardinality(Secrets) + 1 :
                \A e \in engaged \union {clusters[n] : n \in Names} : e.id # i

\* Mutant: the cluster is known by the name of its secret.
NewClusterOfSecret ==
    /\ handler.pc = "new"
    /\ \/ /\ handler' = [handler EXCEPT
              !.pc = "register",
              !.cluster = [id |-> FreshId, name |-> handler.event.secret,
                           secret |-> handler.event.secret,
                           remote |-> handler.event.content.kubeconfig,
                           state |-> "created"]]
          /\ UNCHANGED spent
       \/ Fails /\ handler' = Resting
    /\ UNCHANGED <<secrets, events, clusters, secretCluster, engaged>>

\* The cluster is created and its fields are indexed, which asks the remote API
\* server for its kinds.
NewCluster ==
    /\ handler.pc = "new"
    /\ \/ /\ handler' = [handler EXCEPT
              !.pc = "register",
              !.cluster = [id |-> FreshId, name |-> HandledName,
                           secret |-> handler.event.secret,
                           remote |-> handler.event.content.kubeconfig,
                           state |-> "created"]]
          /\ UNCHANGED spent
       \/ Fails /\ handler' = Resting
    /\ UNCHANGED <<secrets, events, clusters, secretCluster, engaged>>

Register ==
    /\ handler.pc = "register"
    /\ clusters' = [clusters EXCEPT ![HandledName] = handler.cluster]
    /\ secretCluster' = [secretCluster EXCEPT
                           ![handler.event.secret] = HandledName]
    /\ handler' = [handler EXCEPT !.pc = "engage"]
    /\ UNCHANGED <<secrets, events, engaged, spent>>

\* The controllers of the manager watch the cluster from here on, or the
\* registration is undone.
Engage ==
    /\ handler.pc = "engage"
    /\ handler' = Resting
    /\ \/ /\ engaged' = engaged \union
                          {[handler.cluster EXCEPT !.state = "starting"]}
          /\ UNCHANGED <<clusters, secretCluster, spent>>
       \/ /\ Fails
          /\ clusters' = [clusters EXCEPT ![HandledName] = NoCluster]
          /\ secretCluster' = [secretCluster EXCEPT
                                 ![handler.event.secret] = None]
          /\ UNCHANGED engaged
    /\ UNCHANGED <<secrets, events>>

\* The goroutine that runs the cluster: its caches are filled, or it stops and
\* the cluster stays registered.
StartCluster(e) ==
    /\ e.state = "starting"
    /\ \/ /\ engaged' = (engaged \ {e}) \union {[e EXCEPT !.state = "running"]}
          /\ UNCHANGED spent
       \/ /\ Fails
          /\ engaged' = (engaged \ {e}) \union {[e EXCEPT !.state = "stopped"]}
    /\ UNCHANGED <<secrets, events, handler, clusters, secretCluster>>

\* Get, for the controllers: what is registered, engaged or not.
Get(name) == clusters[name]
-----------------------------------------------------------------------------
\* A user creates, changes, touches or deletes a secret.
ChangeSecret(s) ==
    /\ spent["changes"] < MaxSecretChanges
    /\ spent' = [spent EXCEPT !["changes"] = @ + 1]
    /\ \E content \in Content(s) \union {NoSecret} :
         /\ ~(secrets[s] = NoSecret /\ content = NoSecret)
         /\ secrets' = [secrets EXCEPT ![s] = content]
         /\ events' = Append(events, [secret |-> s, content |-> content])
    /\ UNCHANGED <<handler, clusters, secretCluster, engaged>>

\* Every ten hours the informer delivers each secret again.  It waits here until
\* the provider has nothing else to do.
Resync(s) ==
    /\ events = <<>> /\ handler = Resting
    /\ \A e \in engaged : e.state # "starting"
    /\ secrets[s] # NoSecret
    /\ events' = <<[secret |-> s, content |-> secrets[s]]>>
    /\ UNCHANGED <<secrets, handler, clusters, secretCluster, engaged, spent>>

HandlerStep == \/ HandleOther \/ HandleSecret \/ DisengageName \/ NewCluster
               \/ Register \/ Engage

ProviderStep == \/ HandlerStep
                \/ \E e \in engaged : StartCluster(e)
                \/ \E s \in Secrets : ChangeSecret(s)

ProviderNext == ProviderStep \/ \E s \in Secrets : Resync(s)

ProviderSpec == ProviderInit /\ [][ProviderNext]_providerVars

\* The informer delivers what it has, the goroutines run, and the resync comes
\* whenever there is nothing else to do; users need not do anything.
ProviderFairness ==
    /\ WF_providerVars(HandlerStep)
    /\ WF_providerVars(\E e \in engaged : StartCluster(e))
    /\ \A s \in Secrets : SF_providerVars(Resync(s))

FairProviderSpec == ProviderSpec /\ ProviderFairness
-----------------------------------------------------------------------------
(***************************************************************************)
(* Properties                                                              *)
(***************************************************************************)
\* The registry and the record of the secrets say the same, and whatever is
\* engaged can be found in the registry: otherwise nothing could cancel it when
\* its secret is deleted (handleSecret and disengage, provider.go 136-220).
RegistryAgrees ==
    /\ \A s \in Secrets : secretCluster[s] # None =>
         /\ clusters[secretCluster[s]] # NoCluster
         /\ clusters[secretCluster[s]].secret = s
    /\ \A n \in Names : clusters[n] # NoCluster =>
         secretCluster[clusters[n].secret] = n
    /\ \A e \in engaged : clusters[e.name].id = e.id
    /\ handler.pc = "idle" =>
         \A n \in Names : clusters[n] # NoCluster =>
            \E e \in engaged : e.id = clusters[n].id

\* Once the events of a secret are handled, a cluster that is engaged for it is
\* the one the secret describes now: "Delete the cluster Secret ... The
\* controller stops watching that workload cluster"
\* (docs/multicluster-setup.md), and the same for every other change.
EngagedAsDescribed ==
    \A e \in engaged :
       \/ \E i \in DOMAIN events : events[i].secret = e.secret
       \/ /\ IsCluster(secrets[e.secret])
          /\ secrets[e.secret].name = e.name
          /\ secrets[e.secret].kubeconfig = e.remote

\* No other secret has this name.
Registers(s) ==
    /\ IsCluster(secrets[s])
    /\ \A o \in Secrets \ {s} :
          IsCluster(secrets[o]) => secrets[o].name # secrets[s].name

IsRunning(s) == \E e \in engaged :
    /\ e.secret = s /\ e.state = "running"
    /\ e.remote = secrets[s].kubeconfig

\* A secret that goes on registering a cluster no other secret names has it
\* engaged and running again and again, whatever failed before and whoever had
\* the name (the only retry is the informer's resync).
RegisteredRuns ==
    \A s \in Secrets : <>[]Registers(s) => []<>IsRunning(s)
=============================================================================
