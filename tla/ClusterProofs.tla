---------------------------- MODULE ClusterProofs ----------------------------
(***************************************************************************)
(* The registry of the cluster provider and the reconcile locks of the     *)
(* requests over it, for every set of secrets, labels, API servers and     *)
(* controllers and every bound.                                            *)
(***************************************************************************)
EXTENDS Multicluster, FiniteSetTheorems, SequenceTheorems, TLAPS

-----------------------------------------------------------------------------
(***************************************************************************)
(* The events of the informer.  A secret has no event left, or its last    *)
(* one says what the secret says now.                                      *)
(***************************************************************************)
Pending(s, evs) == \E i \in 1 .. Len(evs) : evs[i].secret = s

LastIsCurrent(evs, now) ==
    \A i \in 1 .. Len(evs) :
       \/ \E j \in 1 .. Len(evs) : j > i /\ evs[j].secret = evs[i].secret
       \/ evs[i].content = now[evs[i].secret]

LEMMA TakeEvent ==
    ASSUME NEW evs \in Seq(Event), evs # <<>>
    PROVE  /\ Head(evs) \in Event /\ Tail(evs) \in Seq(Event)
           /\ \A s : Pending(s, evs) => Head(evs).secret = s \/ Pending(s, Tail(evs))
           /\ \A now : LastIsCurrent(evs, now) =>
                /\ LastIsCurrent(Tail(evs), now)
                /\ \/ Pending(Head(evs).secret, Tail(evs))
                   \/ Head(evs).content = now[Head(evs).secret]
<1>1. /\ Head(evs) \in Event /\ Tail(evs) \in Seq(Event)
      /\ Len(evs) \in Nat /\ Len(evs) > 0 /\ Len(Tail(evs)) = Len(evs) - 1
      /\ \A i \in 1 .. Len(Tail(evs)) : Tail(evs)[i] = evs[i + 1]
      /\ Head(evs) = evs[1]
  BY HeadTailProperties, LenProperties, EmptySeq
<1>2. \A i \in 2 .. Len(evs) : i - 1 \in 1 .. Len(Tail(evs)) /\ Tail(evs)[i - 1] = evs[i]
  BY <1>1
<1>3. ASSUME NEW s, Pending(s, evs), Head(evs).secret # s
      PROVE  Pending(s, Tail(evs))
  <2>1. PICK i \in 1 .. Len(evs) : evs[i].secret = s
    BY <1>3 DEF Pending
  <2>2. i \in 2 .. Len(evs)
    BY <1>1, <1>3, <2>1
  <2>3. QED
    BY <1>2, <2>1, <2>2 DEF Pending
<1>4. ASSUME NEW now, LastIsCurrent(evs, now)
      PROVE  LastIsCurrent(Tail(evs), now)
  <2> SUFFICES ASSUME NEW i \in 1 .. Len(Tail(evs))
               PROVE  \/ \E j \in 1 .. Len(Tail(evs)) :
                            j > i /\ Tail(evs)[j].secret = Tail(evs)[i].secret
                      \/ Tail(evs)[i].content = now[Tail(evs)[i].secret]
    BY DEF LastIsCurrent
  <2>1. i + 1 \in 1 .. Len(evs) /\ Tail(evs)[i] = evs[i + 1]
    BY <1>1
  <2>2. CASE evs[i + 1].content = now[evs[i + 1].secret]
    BY <2>1, <2>2
  <2>3. CASE \E j \in 1 .. Len(evs) : j > i + 1 /\ evs[j].secret = evs[i + 1].secret
    <3>1. PICK j \in 1 .. Len(evs) : j > i + 1 /\ evs[j].secret = evs[i + 1].secret
      BY <2>3
    <3>2. j - 1 \in 1 .. Len(Tail(evs)) /\ j - 1 > i /\ Tail(evs)[j - 1] = evs[j]
      BY <1>1, <1>2, <3>1
    <3>3. QED
      BY <2>1, <3>1, <3>2
  <2>4. QED
    BY <1>4, <2>1, <2>2, <2>3 DEF LastIsCurrent
<1>5. ASSUME NEW now, LastIsCurrent(evs, now),
             Head(evs).content # now[Head(evs).secret]
      PROVE  Pending(Head(evs).secret, Tail(evs))
  <2>1. 1 \in 1 .. Len(evs)
    BY <1>1
  <2>2. PICK j \in 1 .. Len(evs) : j > 1 /\ evs[j].secret = evs[1].secret
    BY <1>1, <1>5, <2>1 DEF LastIsCurrent
  <2>3. j \in 2 .. Len(evs)
    BY <1>1, <2>2
  <2>4. QED
    BY <1>1, <1>2, <2>2, <2>3 DEF Pending
<1>6. QED
  BY <1>1, <1>3, <1>4, <1>5

LEMMA AddEvent ==
    ASSUME NEW evs \in Seq(Event), NEW e \in Event
    PROVE  /\ Append(evs, e) \in Seq(Event)
           /\ Pending(e.secret, Append(evs, e))
           /\ \A s : Pending(s, evs) => Pending(s, Append(evs, e))
           /\ \A now : LastIsCurrent(evs, now) =>
                \A new : /\ new[e.secret] = e.content
                         /\ \A s \in Secrets \ {e.secret} : new[s] = now[s]
                         => LastIsCurrent(Append(evs, e), new)
<1> DEFINE more == Append(evs, e)
           n == Len(evs) + 1
<1>1. /\ more \in Seq(Event) /\ Len(evs) \in Nat /\ Len(more) = n /\ more[n] = e
      /\ \A i \in 1 .. Len(evs) : more[i] = evs[i] /\ evs[i] \in Event
  BY AppendProperties, LenProperties, ElementOfSeq
<1> HIDE DEF more
<1>2. n \in 1 .. n /\ \A i \in 1 .. Len(evs) : i \in 1 .. n /\ n > i
  BY <1>1
<1>3. Pending(e.secret, more) /\ \A s : Pending(s, evs) => Pending(s, more)
  BY <1>1, <1>2 DEF Pending
<1>4. ASSUME NEW now, LastIsCurrent(evs, now), NEW new, new[e.secret] = e.content,
             \A s \in Secrets \ {e.secret} : new[s] = now[s]
      PROVE  LastIsCurrent(more, new)
  <2> SUFFICES ASSUME NEW i \in 1 .. n
               PROVE  \/ \E j \in 1 .. n : j > i /\ more[j].secret = more[i].secret
                      \/ more[i].content = new[more[i].secret]
    BY <1>1 DEF LastIsCurrent
  <2>1. CASE i = n
    BY <1>1, <1>4, <2>1
  <2>2. CASE i \in 1 .. Len(evs)
    <3>1. CASE evs[i].secret = e.secret
      BY <1>1, <1>2, <2>2, <3>1
    <3>2. CASE evs[i].secret # e.secret
      <4>1. evs[i].secret \in Secrets \ {e.secret}
        BY <1>1, <2>2, <3>2 DEF Event
      <4>2. \/ \E j \in 1 .. Len(evs) : j > i /\ evs[j].secret = evs[i].secret
            \/ evs[i].content = now[evs[i].secret]
        BY <1>4, <2>2 DEF LastIsCurrent
      <4>3. QED
        BY <1>1, <1>2, <1>4, <2>2, <4>1, <4>2
    <3>3. QED
      BY <3>1, <3>2
  <2>3. QED
    BY <1>1, <2>1, <2>2
<1>5. QED
  BY <1>1, <1>3, <1>4 DEF more
-----------------------------------------------------------------------------
(***************************************************************************)
(* The registry of the provider                                            *)
(***************************************************************************)
IsRegistered(n) == clusters[n] # NoCluster

\* The record of the secrets and the registry are inverse to each other, the
\* clusters in the registry have numbers of their own, and an engaged cluster is
\* the one its name is registered with.
Registry ==
    /\ \A s \in Secrets : secretCluster[s] # None =>
         /\ IsRegistered(secretCluster[s])
         /\ clusters[secretCluster[s]].secret = s
    /\ \A n \in Names : IsRegistered(n) =>
         /\ secretCluster[clusters[n].secret] = n
         /\ clusters[n].id # 0
    /\ \A m, n \in Names : IsRegistered(m) /\ clusters[m].id = clusters[n].id => m = n
    /\ \A e \in engaged :
         /\ IsRegistered(e.name)
         /\ e.id = clusters[e.name].id
         /\ e.secret = clusters[e.name].secret

\* Only the cluster the handler has just registered may not be engaged.
Engaged ==
    \A n \in Names : IsRegistered(n) =>
       \/ \E e \in engaged : e.name = n
       \/ handler.pc = "engage" /\ n = HandledName

\* What the handler has achieved before each of its steps.
InHand ==
    handler.pc # "idle" =>
      /\ handler.event \in Event
      /\ IsCluster(handler.event.content)
      /\ \/ Pending(handler.event.secret, events)
         \/ secrets[handler.event.secret] = handler.event.content
      /\ handler.pc # "engage" => secretCluster[handler.event.secret] = None
      /\ handler.pc \in {"new", "register"} => ~IsRegistered(HandledName)
      /\ handler.pc \in {"register", "engage"} =>
           /\ handler.cluster \in Cluster
           /\ handler.cluster.id # 0
           /\ handler.cluster.name = HandledName
           /\ handler.cluster.secret = handler.event.secret
           /\ handler.cluster.remote = handler.event.content.kubeconfig
      /\ handler.pc = "register" =>
           \A n \in Names : clusters[n].id # handler.cluster.id
      /\ handler.pc = "engage" =>
           /\ clusters[HandledName] = handler.cluster
           /\ \A e \in engaged : e.name # HandledName

\* A cluster is engaged for what its secret says, or said before the events
\* that are still to come.
Described ==
    \A e \in engaged :
       \/ Pending(e.secret, events)
       \/ /\ IsCluster(secrets[e.secret])
          /\ secrets[e.secret].name = e.name
          /\ secrets[e.secret].kubeconfig = e.remote

ProviderInv == /\ ProviderTypeOK /\ Registry /\ Engaged /\ InHand
               /\ LastIsCurrent(events, secrets) /\ Described

LEMMA NoneIsNoName == None \notin Names /\ None \notin Secrets
BY ClusterAssumption DEF Names, None

\* Nothing but a usable secret names a cluster.
LEMMA ContentNamesCluster ==
    ASSUME NEW content \in Secret, IsCluster(content)
    PROVE  content.name \in Names /\ content.kubeconfig \in Remotes
<1>1. content.kubeconfig \in Remotes
  BY DEF IsCluster
<1>2. content # NoSecret /\ content # Unusable
  <2>1. NoSecret.kubeconfig = "deleted" /\ Unusable.kubeconfig = "unusable"
    BY DEF NoSecret, Unusable
  <2>2. "deleted" \notin Remotes /\ "unusable" \notin Remotes
    BY ClusterAssumption
  <2>3. QED
    BY <1>1, <2>1, <2>2
<1>3. PICK s \in Secrets : content \in Content(s)
  BY <1>2 DEF Secret
<1>4. content \in [name : {s} \union Labels, kubeconfig : Remotes]
  BY <1>2, <1>3 DEF Content, clusterName
<1>5. content.name \in {s} \union Labels
  BY <1>4
<1>6. QED
  BY <1>1, <1>3, <1>5 DEF Names

LEMMA HandledIsName ==
    ASSUME InHand, handler.pc # "idle"
    PROVE  HandledName \in Names /\ handler.event.secret \in Secrets
<1>1. /\ handler.event.secret \in Secrets /\ handler.event.content \in Secret
      /\ IsCluster(handler.event.content)
  BY DEF InHand, Event
<1>2. QED
  BY <1>1, ContentNamesCluster DEF HandledName

LEMMA RegisteredIsCluster ==
    ASSUME ProviderTypeOK, NEW n \in Names, IsRegistered(n)
    PROVE  /\ clusters[n] \in Cluster /\ clusters[n].secret \in Secrets
           /\ clusters[n].id \in Nat /\ clusters[n].name = n
<1>1. clusters[n] \in Cluster /\ clusters[n].name = n
  BY DEF ProviderTypeOK, IsRegistered
<1>2. QED
  BY <1>1 DEF Cluster

-----------------------------------------------------------------------------
(***************************************************************************)
(* A cluster leaves the registry                                           *)
(***************************************************************************)
\* The clusters registered, recorded and engaged under this name are gone, and
\* no other is.
LEMMA Disengaged ==
    ASSUME ProviderTypeOK, Registry, NEW name \in Names, disengage(name)
    PROVE  /\ clusters' = [clusters EXCEPT ![name] = NoCluster]
           /\ engaged' = {e \in engaged : e.name # name}
           /\ secretCluster' = [s \in Secrets |-> IF secretCluster[s] = name
                                                 THEN None ELSE secretCluster[s]]
<1>1. ASSUME NEW e \in engaged
      PROVE  e.id = clusters[name].id <=> e.name = name
  <2>1. /\ e.name \in Names /\ IsRegistered(e.name)
        /\ e.id = clusters[e.name].id
    BY DEF ProviderTypeOK, Cluster, Registry
  <2>2. QED
    BY <2>1 DEF Registry
<1>2. CASE clusters[name] = NoCluster
  <2>1. \A s \in Secrets : secretCluster[s] # name
    BY <1>2, NoneIsNoName DEF Registry, IsRegistered
  <2>2. secretCluster = [s \in Secrets |-> IF secretCluster[s] = name
                                           THEN None ELSE secretCluster[s]]
    BY <2>1 DEF ProviderTypeOK
  <2>3. QED
    BY <1>1, <1>2, <2>2 DEF disengage
<1>3. CASE clusters[name] # NoCluster
  BY <1>1, <1>3 DEF disengage
<1>4. QED
  BY <1>2, <1>3
\* ... and what that leaves of the invariant, whatever the handler was doing
\* before it registers a cluster.
LEMMA StillAgrees ==
    ASSUME ProviderTypeOK, Registry, Engaged, handler.pc # "engage", NEW name \in Names,
           disengage(name), UNCHANGED secrets,
           \A s \in Secrets : Pending(s, events) /\ secretCluster[s] # name
              => Pending(s, events')
    PROVE  /\ clusters' \in [Names -> Cluster \union {NoCluster}]
           /\ \A n \in Names : clusters'[n] # NoCluster => clusters'[n].name = n
           /\ secretCluster' \in [Secrets -> Names \union {None}]
           /\ engaged' \subseteq Cluster
           /\ Registry' /\ Engaged'
           /\ Described => Described'
           /\ ~IsRegistered(name)'
           /\ \A s \in Secrets : secretCluster'[s] \in {secretCluster[s], None} \ {name}
<1>1. /\ clusters' = [clusters EXCEPT ![name] = NoCluster]
      /\ engaged' = {e \in engaged : e.name # name}
      /\ secretCluster' = [s \in Secrets |-> IF secretCluster[s] = name
                                            THEN None ELSE secretCluster[s]]
  BY Disengaged
<1>2. /\ clusters' \in [Names -> Cluster \union {NoCluster}]
      /\ clusters'[name] = NoCluster
      /\ \A n \in Names \ {name} : clusters'[n] = clusters[n]
  BY <1>1 DEF ProviderTypeOK
<1>3. /\ secretCluster' \in [Secrets -> Names \union {None}]
      /\ engaged' \subseteq Cluster
  BY <1>1 DEF ProviderTypeOK
<1>4. \A s \in Secrets : /\ secretCluster[s] = name => secretCluster'[s] = None
                         /\ secretCluster[s] # name => secretCluster'[s] = secretCluster[s]
  BY <1>1
<1>5. \A n \in Names : clusters'[n] # NoCluster => n # name /\ clusters'[n] = clusters[n]
  BY <1>2
<1>6. \A n \in Names : clusters'[n] # NoCluster => clusters'[n].name = n
  BY <1>5 DEF ProviderTypeOK
<1>7. \A e \in engaged' : e \in engaged /\ e.name # name /\ e.name \in Names
                         /\ clusters'[e.name] = clusters[e.name]
  BY <1>1, <1>2 DEF ProviderTypeOK, Cluster
<1>8. Registry'
  <2>1. ASSUME NEW s \in Secrets, secretCluster'[s] # None
        PROVE  IsRegistered(secretCluster[s])' /\ clusters'[secretCluster'[s]].secret = s
               /\ secretCluster'[s] = secretCluster[s]
    <3>1. secretCluster[s] # name /\ secretCluster'[s] = secretCluster[s]
      BY <1>4, <2>1
    <3>2. secretCluster[s] \in Names
      BY <2>1, <3>1 DEF ProviderTypeOK
    <3>3. QED
      BY <1>2, <2>1, <3>1, <3>2 DEF Registry, IsRegistered
  <2>2. ASSUME NEW n \in Names, clusters'[n] # NoCluster
        PROVE  /\ secretCluster'[clusters'[n].secret] = n
               /\ clusters'[n].id # 0
    <3>1. n # name /\ clusters'[n] = clusters[n] /\ IsRegistered(n)
      BY <1>5, <2>2 DEF IsRegistered
    <3>2. clusters[n].secret \in Secrets
      BY <3>1, RegisteredIsCluster
    <3>3. QED
      BY <1>4, <3>1, <3>2 DEF Registry
  <2>3. ASSUME NEW m \in Names, NEW n \in Names, clusters'[m] # NoCluster,
               clusters'[m].id = clusters'[n].id
        PROVE  m = n
    <3>1. CASE clusters'[n] # NoCluster
      BY <1>5, <2>3, <3>1 DEF Registry, IsRegistered
    <3>2. CASE clusters'[n] = NoCluster
      BY <2>2, <2>3, <3>2 DEF NoCluster
    <3>3. QED
      BY <3>1, <3>2
  <2>4. ASSUME NEW e \in engaged'
        PROVE  /\ clusters'[e.name] # NoCluster
               /\ e.id = clusters'[e.name].id
               /\ e.secret = clusters'[e.name].secret
    BY <1>7, <2>4 DEF Registry, IsRegistered
  <2>5. QED
    BY <2>1, <2>2, <2>3, <2>4 DEF Registry, IsRegistered
<1>9. Engaged'
  <2> SUFFICES ASSUME NEW n \in Names, clusters'[n] # NoCluster
               PROVE  \E e \in engaged' : e.name = n
    BY DEF Engaged, IsRegistered
  <2>1. n # name /\ clusters[n] # NoCluster
    BY <1>5
  <2>2. PICK e \in engaged : e.name = n
    BY <2>1 DEF Engaged, IsRegistered
  <2>3. QED
    BY <1>1, <2>1, <2>2
<1>10. ASSUME Described PROVE Described'
  <2> SUFFICES ASSUME NEW e \in engaged'
               PROVE  \/ Pending(e.secret, events')
                      \/ /\ IsCluster(secrets[e.secret])
                         /\ secrets[e.secret].name = e.name
                         /\ secrets[e.secret].kubeconfig = e.remote
    BY DEF Described, IsCluster
  <2>1. e \in engaged /\ e.name # name /\ e.name \in Names
    BY <1>7
  <2>2. e.secret \in Secrets
    BY <2>1 DEF ProviderTypeOK, Cluster
  <2>3. secretCluster[e.secret] = e.name
    BY <2>1 DEF Registry
  <2>4. QED
    BY <1>10, <2>1, <2>2, <2>3 DEF Described
<1>11. name # None
  BY NoneIsNoName
<1>12. QED
  BY <1>2, <1>3, <1>4, <1>6, <1>8, <1>9, <1>10, <1>11 DEF IsRegistered

-----------------------------------------------------------------------------
(***************************************************************************)
(* A number for a new cluster                                              *)
(***************************************************************************)
\* There are no more numbers in use than secrets, for every secret registers at
\* most one cluster and what is engaged is registered.
LEMMA FreshIdExists ==
    ASSUME ProviderTypeOK, Registry
    PROVE  /\ FreshId \in 1 .. 2 * Cardinality(Secrets) + 1
           /\ \A n \in Names : clusters[n].id # FreshId
           /\ \A e \in engaged : e.id # FreshId
<1> DEFINE Numbers == 1 .. 2 * Cardinality(Secrets) + 1
           Used(i) == \E n \in Names : clusters[n].id = i
<1>1. IsFiniteSet(Secrets) /\ Cardinality(Secrets) \in Nat
  BY ClusterAssumption, FS_CardinalityType
<1>2. /\ IsFiniteSet(Numbers) /\ Cardinality(Numbers) = 2 * Cardinality(Secrets) + 1
      /\ \A i \in Numbers : i \in Nat /\ i # 0
  BY <1>1, FS_Interval
<1> HIDE DEF Numbers
<1>3. \E i \in Numbers : ~Used(i)
  <2> SUFFICES ASSUME \A i \in Numbers : Used(i)
               PROVE  FALSE
    OBVIOUS
  <2> DEFINE of == [i \in Numbers |-> CHOOSE n \in Names : clusters[n].id = i]
             from == [i \in Numbers |-> clusters[of[i]].secret]
  <2>1. \A i \in Numbers : of[i] \in Names /\ clusters[of[i]].id = i
    OBVIOUS
  <2> HIDE DEF of
  <2>2. \A i \in Numbers : IsRegistered(of[i])
    BY <1>2, <2>1 DEF IsRegistered, NoCluster
  <2>3. \A i \in Numbers : clusters[of[i]].secret \in Secrets
    BY <2>1, <2>2, RegisteredIsCluster
  <2>4. from \in [Numbers -> Secrets] /\ \A i \in Numbers : from[i] = clusters[of[i]].secret
    BY <2>3
  <2> HIDE DEF from
  <2>5. Cardinality(Secrets) < Cardinality(Numbers)
    BY <1>1, <1>2
  <2>6. PICK i \in Numbers, j \in Numbers : i # j /\ from[i] = from[j]
    BY <1>1, <1>2, <2>4, <2>5, FS_PigeonHole
  <2>7. of[i] = of[j]
    BY <2>1, <2>2, <2>4, <2>6 DEF Registry
  <2>8. QED
    BY <2>1, <2>6, <2>7
<1>4. \A e \in engaged : Used(e.id)
  <2>1. \A e \in engaged : e.name \in Names /\ clusters[e.name].id = e.id
    BY DEF ProviderTypeOK, Cluster, Registry
  <2>2. QED
    BY <2>1
<1>5. \E i \in Numbers : \A e \in engaged \union {clusters[n] : n \in Names} : e.id # i
  BY <1>3, <1>4
<1>6. /\ FreshId \in Numbers
      /\ \A e \in engaged \union {clusters[n] : n \in Names} : e.id # FreshId
  BY <1>5 DEF FreshId, Numbers
<1>7. QED
  BY <1>6 DEF Numbers
-----------------------------------------------------------------------------
(***************************************************************************)
(* The steps of the handler                                                *)
(***************************************************************************)
\* The event that is handled takes away the cluster of its secret, if any.
LEMMA DisengagedSecret ==
    ASSUME ProviderInv, handler.pc = "idle", UNCHANGED secrets,
           events # <<>>, events' = Tail(events), disengageSecret(Head(events).secret)
    PROVE  /\ clusters' \in [Names -> Cluster \union {NoCluster}]
           /\ \A n \in Names : clusters'[n] # NoCluster => clusters'[n].name = n
           /\ secretCluster' \in [Secrets -> Names \union {None}]
           /\ engaged' \subseteq Cluster
           /\ events' \in Seq(Event)
           /\ Registry' /\ Engaged' /\ Described'
           /\ LastIsCurrent(events', secrets')
           /\ secretCluster'[Head(events).secret] = None
<1> DEFINE s == Head(events).secret
<1>1. /\ s \in Secrets /\ events' \in Seq(Event)
      /\ \A t : Pending(t, events) => t = s \/ Pending(t, events')
      /\ LastIsCurrent(events', secrets')
  BY TakeEvent DEF ProviderInv, ProviderTypeOK, Event
<1> HIDE DEF s
<1>2. CASE secretCluster[s] = None
  <2>1. UNCHANGED <<clusters, engaged, secretCluster>>
    BY <1>2 DEF disengageSecret, s
  <2>2. \A e \in engaged : e.secret # s
    <3>1. \A e \in engaged : /\ e.name \in Names /\ IsRegistered(e.name)
                            /\ e.secret = clusters[e.name].secret
      BY DEF ProviderInv, ProviderTypeOK, Cluster, Registry
    <3>2. \A e \in engaged : secretCluster[e.secret] = e.name
      BY <3>1 DEF ProviderInv, Registry
    <3>3. QED
      BY <1>2, <3>1, <3>2, NoneIsNoName
  <2>3. Registry'
    BY <2>1 DEF ProviderInv, Registry, IsRegistered
  <2>4. Engaged'
    BY <2>1 DEF ProviderInv, Engaged, IsRegistered
  <2>5. Described'
    BY <1>1, <2>1, <2>2 DEF ProviderInv, Described, IsCluster
  <2>6. QED
    BY <1>1, <1>2, <2>1, <2>3, <2>4, <2>5 DEF ProviderInv, ProviderTypeOK, s
<1>3. CASE secretCluster[s] # None
  <2> DEFINE name == secretCluster[s]
  <2>1. name \in Names /\ disengage(name)
    BY <1>1, <1>3 DEF disengageSecret, s, ProviderInv, ProviderTypeOK
  <2>2. \A t \in Secrets : Pending(t, events) /\ secretCluster[t] # name => Pending(t, events')
    BY <1>1
  <2>3. /\ ProviderTypeOK /\ Registry /\ Engaged /\ Described /\ handler.pc # "engage"
    BY DEF ProviderInv
  <2>4. secretCluster'[s] = None
    <3> HIDE DEF name
    <3>1. secretCluster'[s] \in {secretCluster[s], None} \ {name}
      BY <1>1, <2>1, <2>2, <2>3, StillAgrees
    <3>2. QED
      BY <3>1 DEF name
  <2> HIDE DEF name
  <2>5. QED
    BY <1>1, <2>1, <2>2, <2>3, <2>4, StillAgrees DEF s
<1>4. QED
  BY <1>2, <1>3

LEMMA HandleOtherStep ==
    ASSUME ProviderInv, HandleOther PROVE ProviderInv'
<1>1. /\ handler.pc = "idle" /\ events # <<>> /\ events' = Tail(events)
      /\ disengageSecret(Head(events).secret)
      /\ UNCHANGED <<secrets, handler, spent>>
  BY DEF HandleOther
<1>2. InHand'
  BY <1>1 DEF InHand
<1>3. QED
  BY <1>1, <1>2, DisengagedSecret DEF ProviderInv, ProviderTypeOK

LEMMA HandleSecretStep ==
    ASSUME ProviderInv, HandleSecret PROVE ProviderInv'
<1> DEFINE e == Head(events)
<1>1. /\ handler.pc = "idle" /\ events # <<>> /\ events' = Tail(events)
      /\ disengageSecret(e.secret) /\ IsCluster(e.content)
      /\ handler' = [pc |-> "disengage", event |-> e, cluster |-> NoCluster]
      /\ UNCHANGED <<secrets, spent>>
  BY DEF HandleSecret, Resting
<1>2. /\ e \in Event
      /\ Pending(e.secret, events') \/ secrets'[e.secret] = e.content
  BY <1>1, TakeEvent DEF ProviderInv, ProviderTypeOK
<1>3. secretCluster'[e.secret] = None
  BY <1>1, DisengagedSecret
<1> HIDE DEF e
<1>4. handler' \in Handler
  BY <1>1, <1>2 DEF Handler
<1>5. InHand'
  BY <1>1, <1>2, <1>3 DEF InHand, IsCluster
<1>6. QED
  BY <1>1, <1>4, <1>5, DisengagedSecret DEF ProviderInv, ProviderTypeOK, e

LEMMA DisengageNameStep ==
    ASSUME ProviderInv, DisengageName PROVE ProviderInv'
<1>1. /\ handler.pc = "disengage" /\ disengage(HandledName)
      /\ handler' = [handler EXCEPT !.pc = "new"]
      /\ UNCHANGED <<secrets, events, spent>>
  BY DEF DisengageName
<1>2. ProviderTypeOK /\ Registry /\ Engaged /\ InHand /\ Described
  BY DEF ProviderInv
<1>3. HandledName \in Names /\ handler.event.secret \in Secrets
  BY <1>1, <1>2, HandledIsName
<1>4. /\ clusters' \in [Names -> Cluster \union {NoCluster}]
      /\ \A n \in Names : clusters'[n] # NoCluster => clusters'[n].name = n
      /\ secretCluster' \in [Secrets -> Names \union {None}]
      /\ engaged' \subseteq Cluster
      /\ Registry' /\ Engaged' /\ Described'
      /\ clusters'[HandledName] = NoCluster
      /\ \A s \in Secrets : secretCluster'[s] \in {secretCluster[s], None}
  <2> DEFINE name == HandledName
  <2>1. name \in Names /\ disengage(name)
    BY <1>1, <1>3
  <2>2. handler.pc # "engage" /\ \A s \in Secrets : Pending(s, events) => Pending(s, events')
    BY <1>1
  <2>3. /\ clusters' = [clusters EXCEPT ![name] = NoCluster]
    BY <1>2, <2>1, Disengaged
  <2> HIDE DEF name
  <2>4. clusters'[name] = NoCluster
    BY <1>2, <2>1, <2>3 DEF ProviderTypeOK
  <2>5. QED
    BY <1>1, <1>2, <2>1, <2>2, <2>4, StillAgrees DEF name
<1>5. handler' \in Handler /\ handler'.pc = "new" /\ handler'.event = handler.event
  BY <1>1, <1>2 DEF ProviderTypeOK, Handler
<1>6. HandledName' = HandledName
  BY <1>5 DEF HandledName
<1>7. secretCluster'[handler.event.secret] = None
  BY <1>1, <1>2, <1>3, <1>4 DEF InHand
<1>8. InHand'
  BY <1>1, <1>2, <1>4, <1>5, <1>6, <1>7 DEF InHand, IsRegistered, IsCluster
<1>9. QED
  BY <1>1, <1>2, <1>4, <1>5, <1>8 DEF ProviderInv, ProviderTypeOK

\* A handler that gives up.
LEMMA FailsCounts ==
    ASSUME ProviderTypeOK, Fails
    PROVE  spent' \in [{"changes", "failures"} -> Nat]
BY DEF ProviderTypeOK, Fails

LEMMA RestingIsHandler == Resting \in Handler /\ Resting.pc = "idle"
BY DEF Resting, Handler

LEMMA NewClusterStep ==
    ASSUME ProviderInv, NewCluster PROVE ProviderInv'
<1> DEFINE c == [id |-> FreshId, name |-> HandledName, secret |-> handler.event.secret,
                 remote |-> handler.event.content.kubeconfig, state |-> "created"]
<1>1. handler.pc = "new" /\ UNCHANGED <<secrets, events, clusters, secretCluster, engaged>>
  BY DEF NewCluster
<1>2. ProviderTypeOK /\ Registry /\ Engaged /\ InHand /\ Described
  BY DEF ProviderInv
<1>3. Registry' /\ Described'
  BY <1>1, <1>2 DEF Registry, IsRegistered, Described, IsCluster
<1>4. \A n \in Names : IsRegistered(n) => \E e \in engaged : e.name = n
  BY <1>1, <1>2 DEF Engaged
<1>5. Engaged'
  BY <1>1, <1>4 DEF Engaged, IsRegistered
<1>6. CASE /\ handler' = [handler EXCEPT !.pc = "register", !.cluster = c]
           /\ UNCHANGED spent
  <2>1. /\ HandledName \in Names /\ handler.event \in Event
        /\ handler.event.secret \in Secrets
        /\ handler.event.content.kubeconfig \in Remotes
    BY <1>1, <1>2, HandledIsName DEF InHand, IsCluster
  <2>2. FreshId \in Nat /\ FreshId # 0 /\ \A n \in Names : clusters[n].id # FreshId
    <3>1. IsFiniteSet(Secrets) /\ Cardinality(Secrets) \in Nat
      BY ClusterAssumption, FS_CardinalityType
    <3>2. FreshId \in 1 .. 2 * Cardinality(Secrets) + 1
      BY <1>2, FreshIdExists
    <3>3. QED
      BY <1>2, <3>1, <3>2, FreshIdExists
  <2>3. c \in Cluster /\ c.id = FreshId
    BY <2>1, <2>2 DEF Cluster
  <2>4. /\ c.name = HandledName /\ c.secret = handler.event.secret
        /\ c.remote = handler.event.content.kubeconfig
    OBVIOUS
  <2> HIDE DEF c
  <2>5. /\ handler' \in Handler /\ handler'.pc = "register" /\ handler'.cluster = c
        /\ handler'.event = handler.event
    BY <1>2, <1>6, <2>3 DEF ProviderTypeOK, Handler
  <2>6. HandledName' = HandledName
    BY <2>5 DEF HandledName
  <2>7. InHand'
    <3>1. /\ IsCluster(handler.event.content)'
          /\ \/ Pending(handler.event.secret, events)
             \/ secrets[handler.event.secret] = handler.event.content
          /\ secretCluster[handler.event.secret] = None
          /\ ~IsRegistered(HandledName)
      BY <1>1, <1>2, <2>5 DEF InHand, IsCluster
    <3>2. \A n \in Names : clusters'[n].id # c.id
      BY <1>1, <2>2, <2>3
    <3>3. QED
      BY <1>1, <2>1, <2>2, <2>3, <2>4, <2>5, <2>6, <3>1, <3>2 DEF InHand, IsRegistered
  <2>8. QED
    BY <1>1, <1>3, <1>5, <1>6, <2>5, <2>7 DEF ProviderInv, ProviderTypeOK
<1>7. CASE Fails /\ handler' = Resting
  <2>1. InHand'
    BY <1>7, RestingIsHandler DEF InHand
  <2>2. QED
    BY <1>1, <1>2, <1>3, <1>5, <1>7, <2>1, RestingIsHandler, FailsCounts
       DEF ProviderInv, ProviderTypeOK
<1>8. QED
  BY <1>6, <1>7 DEF NewCluster
LEMMA RegisterStep ==
    ASSUME ProviderInv, Register PROVE ProviderInv'
<1> DEFINE name == HandledName
           c == handler.cluster
           t == handler.event.secret
<1>1. /\ handler.pc = "register"
      /\ clusters' = [clusters EXCEPT ![name] = c]
      /\ secretCluster' = [secretCluster EXCEPT ![t] = name]
      /\ handler' = [handler EXCEPT !.pc = "engage"]
      /\ UNCHANGED <<secrets, events, engaged, spent>>
  BY DEF Register
<1>2. ProviderTypeOK /\ Registry /\ Engaged /\ InHand /\ Described
  BY DEF ProviderInv
<1>3. name \in Names /\ t \in Secrets
  BY <1>1, <1>2, HandledIsName
<1>4. /\ c \in Cluster /\ c.id # 0 /\ c.name = name /\ c.secret = t
      /\ secretCluster[t] = None /\ clusters[name] = NoCluster
      /\ \A n \in Names : clusters[n].id # c.id
  BY <1>1, <1>2 DEF InHand, IsRegistered
<1>5. /\ handler' \in Handler /\ handler'.pc = "engage"
      /\ handler'.cluster = c /\ handler'.event = handler.event
  BY <1>1, <1>2 DEF ProviderTypeOK, Handler
<1>6. HandledName' = name
  BY <1>5 DEF HandledName
<1>7. InHand'
  <2>1. /\ handler.event \in Event /\ IsCluster(handler.event.content)'
        /\ Pending(t, events) \/ secrets[t] = handler.event.content
        /\ c.remote = handler.event.content.kubeconfig
    BY <1>1, <1>2 DEF InHand, IsCluster
  <2>2. clusters'[name] = c
    BY <1>1, <1>2, <1>3 DEF ProviderTypeOK
  <2>3. \A e \in engaged : e.name # name
    BY <1>2, <1>4 DEF Registry, IsRegistered
  <2> HIDE DEF name, c, t
  <2>4. QED
    BY <1>1, <1>4, <1>5, <1>6, <2>1, <2>2, <2>3 DEF InHand, t
<1> HIDE DEF name, c, t
<1>8. /\ clusters' \in [Names -> Cluster \union {NoCluster}] /\ clusters'[name] = c
      /\ \A n \in Names \ {name} : clusters'[n] = clusters[n]
      /\ c # NoCluster
  BY <1>1, <1>2, <1>3, <1>4 DEF ProviderTypeOK, NoCluster
<1>9. /\ secretCluster' \in [Secrets -> Names \union {None}] /\ secretCluster'[t] = name
      /\ \A s \in Secrets \ {t} : secretCluster'[s] = secretCluster[s]
  BY <1>1, <1>2, <1>3 DEF ProviderTypeOK
<1>10. \A n \in Names : clusters'[n] # NoCluster => clusters'[n].name = n
  BY <1>2, <1>4, <1>8 DEF ProviderTypeOK
<1>11. Registry'
  <2>1. ASSUME NEW s \in Secrets, secretCluster'[s] # None
        PROVE  /\ clusters'[secretCluster'[s]] # NoCluster
               /\ clusters'[secretCluster'[s]].secret = s
    <3>1. CASE s = t
      BY <1>4, <1>8, <1>9, <3>1
    <3>2. CASE s # t
      <4>1. /\ secretCluster'[s] = secretCluster[s] /\ secretCluster[s] \in Names
            /\ clusters[secretCluster[s]] # NoCluster
            /\ clusters[secretCluster[s]].secret = s
        BY <1>2, <1>9, <2>1, <3>2 DEF Registry, IsRegistered, ProviderTypeOK
      <4>2. QED
        BY <1>4, <1>8, <4>1
    <3>3. QED
      BY <3>1, <3>2
  <2>2. ASSUME NEW n \in Names, clusters'[n] # NoCluster
        PROVE  /\ secretCluster'[clusters'[n].secret] = n
               /\ clusters'[n].id # 0
    <3>1. CASE n = name
      BY <1>4, <1>8, <1>9, <3>1
    <3>2. CASE n # name
      <4>1. clusters'[n] = clusters[n] /\ IsRegistered(n)
        BY <1>8, <2>2, <3>2 DEF IsRegistered
      <4>2. clusters[n].secret \in Secrets /\ secretCluster[clusters[n].secret] = n
            /\ clusters[n].id # 0
        BY <1>2, <4>1, RegisteredIsCluster DEF Registry
      <4>3. clusters[n].secret # t
        BY <1>4, <4>2, NoneIsNoName
      <4>4. QED
        BY <1>9, <4>1, <4>2, <4>3
    <3>3. QED
      BY <3>1, <3>2
  <2>3. ASSUME NEW m \in Names, NEW n \in Names, clusters'[m] # NoCluster,
               clusters'[m].id = clusters'[n].id
        PROVE  m = n
    BY <1>2, <1>4, <1>8, <2>3 DEF Registry, IsRegistered
  <2>4. ASSUME NEW e \in engaged'
        PROVE  /\ clusters'[e.name] # NoCluster
               /\ e.id = clusters'[e.name].id
               /\ e.secret = clusters'[e.name].secret
    <3>1. /\ e \in engaged /\ e.name \in Names
          /\ clusters[e.name] # NoCluster
          /\ e.id = clusters[e.name].id
          /\ e.secret = clusters[e.name].secret
      BY <1>1, <1>2, <2>4 DEF Registry, IsRegistered, ProviderTypeOK, Cluster
    <3>2. e.name # name
      BY <1>4, <3>1
    <3>3. QED
      BY <1>8, <3>1, <3>2
  <2>5. QED
    BY <2>1, <2>2, <2>3, <2>4 DEF Registry, IsRegistered
<1>12. Engaged'
  <2> SUFFICES ASSUME NEW n \in Names, clusters'[n] # NoCluster, n # name
               PROVE  \E e \in engaged' : e.name = n
    BY <1>5, <1>6 DEF Engaged, IsRegistered
  <2>1. IsRegistered(n)
    BY <1>8 DEF IsRegistered
  <2>2. QED
    BY <1>1, <1>2, <2>1 DEF Engaged
<1>13. QED
  BY <1>1, <1>2, <1>5, <1>7, <1>8, <1>9, <1>10, <1>11, <1>12
     DEF ProviderInv, ProviderTypeOK, Described, IsCluster

LEMMA EngageStep ==
    ASSUME ProviderInv, Engage PROVE ProviderInv'
<1> DEFINE name == HandledName
           c == handler.cluster
           t == handler.event.secret
           started == [c EXCEPT !.state = "starting"]
<1>1. /\ handler.pc = "engage" /\ handler' = Resting
      /\ UNCHANGED <<secrets, events>>
  BY DEF Engage
<1>2. ProviderTypeOK /\ Registry /\ Engaged /\ InHand /\ Described
  BY DEF ProviderInv
<1>3. name \in Names /\ t \in Secrets
  BY <1>1, <1>2, HandledIsName
<1>4. /\ c \in Cluster /\ c.id # 0 /\ c.name = name /\ c.secret = t
      /\ clusters[name] = c /\ c.remote = handler.event.content.kubeconfig
      /\ Pending(t, events) \/ secrets[t] = handler.event.content
      /\ IsCluster(handler.event.content)
      /\ \A e \in engaged : e.name # name
  BY <1>1, <1>2 DEF InHand
<1>5. InHand' /\ handler' \in Handler
  BY <1>1, RestingIsHandler DEF InHand
<1>6. handler.event.content.name = name
  BY DEF HandledName
<1>7. CASE /\ engaged' = engaged \union {started}
           /\ UNCHANGED <<clusters, secretCluster, spent>>
  <2>1. /\ started \in Cluster /\ started.id = c.id /\ started.name = name
        /\ started.secret = t /\ started.remote = c.remote
    BY <1>4 DEF Cluster
  <2> HIDE DEF started, name, c, t
  <2>2. Registry'
    <3>1. clusters[name] # NoCluster
      BY <1>4 DEF NoCluster
    <3>2. ASSUME NEW e \in engaged'
          PROVE  /\ clusters'[e.name] # NoCluster
                 /\ e.id = clusters'[e.name].id
                 /\ e.secret = clusters'[e.name].secret
      BY <1>2, <1>4, <1>7, <2>1, <3>1, <3>2 DEF Registry, IsRegistered
    <3>3. QED
      BY <1>2, <1>7, <3>2 DEF Registry, IsRegistered
  <2>3. Engaged'
    <3> SUFFICES ASSUME NEW n \in Names, clusters[n] # NoCluster
                 PROVE  \E e \in engaged' : e.name = n
      BY <1>7 DEF Engaged, IsRegistered
    <3>1. CASE n = name
      BY <1>7, <2>1, <3>1
    <3>2. CASE n # name
      BY <1>2, <1>7, <3>2 DEF Engaged, IsRegistered, name
    <3>3. QED
      BY <3>1, <3>2
  <2>4. Described'
    <3> SUFFICES ASSUME NEW e \in engaged'
                 PROVE  \/ Pending(e.secret, events)
                        \/ /\ IsCluster(secrets[e.secret])
                           /\ secrets[e.secret].name = e.name
                           /\ secrets[e.secret].kubeconfig = e.remote
      BY <1>1 DEF Described, IsCluster
    <3>1. CASE e = started
      <4>1. CASE Pending(t, events)
        BY <2>1, <3>1, <4>1
      <4>2. CASE secrets[t] = handler.event.content
        BY <1>4, <1>6, <2>1, <3>1, <4>2
      <4>3. QED
        BY <1>4, <4>1, <4>2
    <3>2. CASE e \in engaged
      BY <1>2, <3>2 DEF Described
    <3>3. QED
      BY <1>7, <3>1, <3>2
  <2>5. QED
    BY <1>1, <1>2, <1>5, <1>7, <2>1, <2>2, <2>3, <2>4 DEF ProviderInv, ProviderTypeOK
<1>8. CASE /\ Fails
           /\ clusters' = [clusters EXCEPT ![name] = NoCluster]
           /\ secretCluster' = [secretCluster EXCEPT ![t] = None]
           /\ UNCHANGED engaged
  <2> HIDE DEF name, c, t
  <2>1. /\ clusters' \in [Names -> Cluster \union {NoCluster}]
        /\ clusters'[name] = NoCluster
        /\ \A n \in Names \ {name} : clusters'[n] = clusters[n]
        /\ clusters[name] # NoCluster
    BY <1>2, <1>3, <1>4, <1>8 DEF ProviderTypeOK, NoCluster
  <2>2. /\ secretCluster' \in [Secrets -> Names \union {None}]
        /\ secretCluster'[t] = None
        /\ \A s \in Secrets \ {t} : secretCluster'[s] = secretCluster[s]
    BY <1>2, <1>3, <1>8 DEF ProviderTypeOK
  <2>3. secretCluster[t] = name
    BY <1>2, <1>3, <1>4, <2>1 DEF Registry, IsRegistered
  <2>4. \A n \in Names : clusters'[n] # NoCluster =>
           n # name /\ clusters'[n] = clusters[n] /\ clusters'[n].name = n
    BY <1>2, <2>1 DEF ProviderTypeOK
  <2>5. Registry'
    <3>1. ASSUME NEW s \in Secrets, secretCluster'[s] # None
          PROVE  /\ clusters'[secretCluster'[s]] # NoCluster
                 /\ clusters'[secretCluster'[s]].secret = s
      <4>1. s # t
        BY <2>2, <3>1
      <4>2. /\ secretCluster'[s] = secretCluster[s] /\ secretCluster[s] \in Names
            /\ clusters[secretCluster[s]] # NoCluster
            /\ clusters[secretCluster[s]].secret = s
        BY <1>2, <2>2, <3>1, <4>1 DEF Registry, IsRegistered, ProviderTypeOK
      <4>3. secretCluster[s] # name
        BY <1>4, <4>1, <4>2
      <4>4. QED
        BY <2>1, <4>2, <4>3
    <3>2. ASSUME NEW n \in Names, clusters'[n] # NoCluster
          PROVE  /\ secretCluster'[clusters'[n].secret] = n
                 /\ clusters'[n].id # 0
      <4>1. n # name /\ clusters'[n] = clusters[n] /\ IsRegistered(n)
        BY <2>4, <3>2 DEF IsRegistered
      <4>2. clusters[n].secret \in Secrets /\ secretCluster[clusters[n].secret] = n
            /\ clusters[n].id # 0
        BY <1>2, <4>1, RegisteredIsCluster DEF Registry
      <4>3. clusters[n].secret # t
        BY <2>3, <4>1, <4>2
      <4>4. QED
        BY <2>2, <4>1, <4>2, <4>3
    <3>3. ASSUME NEW m \in Names, NEW n \in Names, clusters'[m] # NoCluster,
                 clusters'[m].id = clusters'[n].id
          PROVE  m = n
      <4>1. CASE clusters'[n] # NoCluster
        BY <1>2, <2>4, <3>3, <4>1 DEF Registry, IsRegistered
      <4>2. CASE clusters'[n] = NoCluster
        BY <3>2, <3>3, <4>2 DEF NoCluster
      <4>3. QED
        BY <4>1, <4>2
    <3>4. ASSUME NEW e \in engaged'
          PROVE  /\ clusters'[e.name] # NoCluster
                 /\ e.id = clusters'[e.name].id
                 /\ e.secret = clusters'[e.name].secret
      <4>1. e \in engaged /\ e.name # name /\ e.name \in Names
        BY <1>2, <1>4, <1>8, <3>4 DEF ProviderTypeOK, Cluster
      <4>2. QED
        BY <1>2, <2>1, <4>1 DEF Registry, IsRegistered
    <3>5. QED
      BY <3>1, <3>2, <3>3, <3>4 DEF Registry, IsRegistered
  <2>6. Engaged'
    <3> SUFFICES ASSUME NEW n \in Names, clusters'[n] # NoCluster
                 PROVE  \E e \in engaged : e.name = n
      BY <1>8 DEF Engaged, IsRegistered
    <3>1. n # name /\ IsRegistered(n)
      BY <2>4 DEF IsRegistered
    <3>2. QED
      BY <1>2, <3>1 DEF Engaged, name
  <2>7. Described'
    BY <1>1, <1>2, <1>8 DEF Described, IsCluster
  <2>8. QED
    BY <1>1, <1>2, <1>5, <1>8, <2>1, <2>2, <2>4, <2>5, <2>6, <2>7, FailsCounts
       DEF ProviderInv, ProviderTypeOK
<1>9. QED
  BY <1>7, <1>8 DEF Engage
-----------------------------------------------------------------------------
(***************************************************************************)
(* What happens beside the handler                                         *)
(***************************************************************************)
LEMMA StartClusterStep ==
    ASSUME ProviderInv, NEW e \in engaged, StartCluster(e) PROVE ProviderInv'
<1>1. ProviderTypeOK /\ Registry /\ Engaged /\ InHand /\ Described
  BY DEF ProviderInv
<1>2. UNCHANGED <<secrets, events, handler, clusters, secretCluster>>
  BY DEF StartCluster
<1>3. PICK state \in {"running", "stopped"} :
        engaged' = (engaged \ {e}) \union {[e EXCEPT !.state = state]}
  BY DEF StartCluster
<1> DEFINE f == [e EXCEPT !.state = state]
<1>4. /\ f \in Cluster /\ f.id = e.id /\ f.name = e.name
      /\ f.secret = e.secret /\ f.remote = e.remote
  BY <1>1 DEF ProviderTypeOK, Cluster
<1> HIDE DEF f
<1>5. engaged' = (engaged \ {e}) \union {f}
  BY <1>3 DEF f
<1>6. engaged' \subseteq Cluster
  BY <1>1, <1>4, <1>5 DEF ProviderTypeOK
<1>7. spent' \in [{"changes", "failures"} -> Nat]
  BY <1>1, FailsCounts DEF StartCluster, ProviderTypeOK
<1>8. \A g \in engaged' : \E h \in engaged :
        g.id = h.id /\ g.name = h.name /\ g.secret = h.secret /\ g.remote = h.remote
  BY <1>4, <1>5
<1>9. \A h \in engaged : \E g \in engaged' : g.name = h.name
  BY <1>4, <1>5
<1>10. Registry'
  <2>1. \A g \in engaged' : /\ IsRegistered(g.name)
                           /\ g.id = clusters[g.name].id
                           /\ g.secret = clusters[g.name].secret
    BY <1>1, <1>8 DEF Registry
  <2>2. QED
    BY <1>1, <1>2, <2>1 DEF Registry, IsRegistered
<1>11. Engaged'
  BY <1>1, <1>2, <1>9 DEF Engaged, IsRegistered, HandledName
<1>12. InHand'
  <2>1. HandledName' = HandledName
    BY <1>2 DEF HandledName
  <2>2. ASSUME handler.pc = "engage"
        PROVE  \A g \in engaged' : g.name # HandledName
    <3>1. \A h \in engaged : h.name # HandledName
      BY <1>1, <2>2 DEF InHand
    <3>2. QED
      BY <1>8, <3>1
  <2>3. QED
    BY <1>1, <1>2, <2>1, <2>2 DEF InHand, IsRegistered, IsCluster
<1>13. Described'
  BY <1>1, <1>2, <1>8 DEF Described, IsCluster
<1>14. QED
  BY <1>1, <1>2, <1>6, <1>7, <1>10, <1>11, <1>12, <1>13 DEF ProviderInv, ProviderTypeOK

\* More events may come: the invariant asks for no more than that the last one
\* of a secret is what it says.
LEMMA EventsCome ==
    ASSUME ProviderInv, UNCHANGED <<handler, clusters, secretCluster, engaged>>,
           secrets' \in [Secrets -> Secret], events' \in Seq(Event),
           spent' \in [{"changes", "failures"} -> Nat],
           LastIsCurrent(events', secrets'),
           \A s \in Secrets : Pending(s, events) => Pending(s, events'),
           \A s \in Secrets : secrets'[s] # secrets[s] => Pending(s, events')
    PROVE  ProviderInv'
<1>1. ProviderTypeOK /\ Registry /\ Engaged /\ InHand /\ Described
  BY DEF ProviderInv
<1>2. HandledName' = HandledName
  BY DEF HandledName
<1>3. Registry'
  BY <1>1 DEF Registry, IsRegistered
<1>4. Engaged'
  BY <1>1, <1>2 DEF Engaged, IsRegistered
<1>5. InHand'
  <2>1. ASSUME handler.pc # "idle"
        PROVE  \/ Pending(handler.event.secret, events')
               \/ secrets'[handler.event.secret] = handler.event.content
    <3>1. handler.event.secret \in Secrets
      BY <1>1, <2>1 DEF InHand, Event
    <3>2. \/ Pending(handler.event.secret, events)
          \/ secrets[handler.event.secret] = handler.event.content
      BY <1>1, <2>1 DEF InHand
    <3>3. QED
      BY <3>1, <3>2
  <2>2. QED
    BY <1>1, <1>2, <2>1 DEF InHand, IsRegistered, IsCluster
<1>6. Described'
  <2> SUFFICES ASSUME NEW e \in engaged
               PROVE  \/ Pending(e.secret, events')
                      \/ /\ IsCluster(secrets'[e.secret])
                         /\ secrets'[e.secret].name = e.name
                         /\ secrets'[e.secret].kubeconfig = e.remote
    BY DEF Described, IsCluster
  <2>1. e.secret \in Secrets
    BY <1>1 DEF ProviderTypeOK, Cluster
  <2>2. QED
    BY <1>1, <2>1 DEF Described
<1>7. QED
  BY <1>1, <1>3, <1>4, <1>5, <1>6 DEF ProviderInv, ProviderTypeOK

LEMMA ChangeSecretStep ==
    ASSUME ProviderInv, NEW s \in Secrets, ChangeSecret(s) PROVE ProviderInv'
<1>1. PICK content \in Content(s) \union {NoSecret} :
        /\ secrets' = [secrets EXCEPT ![s] = content]
        /\ events' = Append(events, [secret |-> s, content |-> content])
  BY DEF ChangeSecret
<1>2. /\ spent' = [spent EXCEPT !["changes"] = @ + 1]
      /\ UNCHANGED <<handler, clusters, secretCluster, engaged>>
  BY DEF ChangeSecret
<1> DEFINE e == [secret |-> s, content |-> content]
<1>3. e \in Event /\ e.secret = s /\ e.content = content /\ content \in Secret
  BY DEF Event, Secret
<1> HIDE DEF e
<1>4. /\ secrets \in [Secrets -> Secret] /\ events \in Seq(Event)
      /\ spent \in [{"changes", "failures"} -> Nat]
      /\ LastIsCurrent(events, secrets)
  BY DEF ProviderInv, ProviderTypeOK
<1>5. /\ secrets' \in [Secrets -> Secret] /\ secrets'[e.secret] = e.content
      /\ \A t \in Secrets \ {e.secret} : secrets'[t] = secrets[t]
  BY <1>1, <1>3, <1>4
<1>6. events' = Append(events, e)
  BY <1>1 DEF e
<1>7. /\ events' \in Seq(Event) /\ Pending(s, events')
      /\ \A t : Pending(t, events) => Pending(t, events')
      /\ LastIsCurrent(events', secrets')
  BY <1>3, <1>4, <1>5, <1>6, AddEvent
<1>8. spent' \in [{"changes", "failures"} -> Nat]
  BY <1>2, <1>4
<1>9. QED
  BY <1>2, <1>3, <1>5, <1>7, <1>8, EventsCome

LEMMA ResyncStep ==
    ASSUME ProviderInv, NEW s \in Secrets, Resync(s) PROVE ProviderInv'
<1> DEFINE e == [secret |-> s, content |-> secrets[s]]
<1>1. /\ events = <<>> /\ events' = <<e>>
      /\ UNCHANGED <<secrets, handler, clusters, secretCluster, engaged, spent>>
  BY DEF Resync
<1>2. secrets \in [Secrets -> Secret] /\ spent \in [{"changes", "failures"} -> Nat]
  BY DEF ProviderInv, ProviderTypeOK
<1>3. e \in Event /\ e.content = secrets[e.secret]
  BY <1>2 DEF Event
<1> HIDE DEF e
<1>4. events' \in Seq(Event) /\ Len(events') = 1 /\ events'[1] = e
  BY <1>1, <1>3
<1>5. LastIsCurrent(events', secrets')
  BY <1>1, <1>3, <1>4 DEF LastIsCurrent
<1>6. \A t \in Secrets : Pending(t, events) => Pending(t, events')
  BY <1>1 DEF Pending
<1>7. QED
  BY <1>1, <1>2, <1>4, <1>5, <1>6, EventsCome

LEMMA ProviderStarts == ProviderInit => ProviderInv
<1> SUFFICES ASSUME ProviderInit PROVE ProviderInv
  OBVIOUS
<1>1. /\ secrets \in [Secrets -> Secret] /\ handler = Resting
      /\ clusters = [n \in Names |-> NoCluster]
      /\ secretCluster = [s \in Secrets |-> None] /\ engaged = {}
      /\ spent = [b \in {"changes", "failures"} |-> 0]
  BY DEF ProviderInit
<1> DEFINE present == {s \in Secrets : secrets[s] # NoSecret}
<1>2. PICK order \in [1 .. Cardinality(present) -> present] :
        events = [i \in DOMAIN order |->
                    [secret |-> order[i], content |-> secrets[order[i]]]]
  BY DEF ProviderInit
<1>3. Cardinality(present) \in Nat
  BY ClusterAssumption, FS_Subset, FS_CardinalityType
<1> HIDE DEF present
<1>4. \A i \in 1 .. Cardinality(present) :
        [secret |-> order[i], content |-> secrets[order[i]]] \in Event
  BY <1>1, <1>2 DEF Event, present
<1>5. events \in [1 .. Cardinality(present) -> Event]
  BY <1>2, <1>4
<1>6. events \in Seq(Event) /\ Len(events) = Cardinality(present)
  BY <1>3, <1>5
<1>7. LastIsCurrent(events, secrets)
  BY <1>2, <1>6 DEF LastIsCurrent
<1>8. ProviderTypeOK
  BY <1>1, <1>6, RestingIsHandler DEF ProviderTypeOK
<1>9. Registry /\ Engaged /\ InHand /\ Described
  BY <1>1, RestingIsHandler, NoneIsNoName
     DEF Registry, Engaged, InHand, Described, IsRegistered
<1>10. QED
  BY <1>7, <1>8, <1>9 DEF ProviderInv

LEMMA ProviderSteps ==
    ASSUME ProviderInv, ProviderStep PROVE ProviderInv'
<1>1. CASE HandleOther
  BY <1>1, HandleOtherStep
<1>2. CASE HandleSecret
  BY <1>2, HandleSecretStep
<1>3. CASE DisengageName
  BY <1>3, DisengageNameStep
<1>4. CASE NewCluster
  BY <1>4, NewClusterStep
<1>5. CASE Register
  BY <1>5, RegisterStep
<1>6. CASE Engage
  BY <1>6, EngageStep
<1>7. CASE \E e \in engaged : StartCluster(e)
  BY <1>7, StartClusterStep
<1>8. CASE \E s \in Secrets : ChangeSecret(s)
  BY <1>8, ChangeSecretStep
<1>9. QED
  BY <1>1, <1>2, <1>3, <1>4, <1>5, <1>6, <1>7, <1>8 DEF ProviderStep, HandlerStep

LEMMA ProviderRests ==
    ASSUME ProviderInv, UNCHANGED providerVars PROVE ProviderInv'
BY EventsCome DEF ProviderInv, ProviderTypeOK, providerVars

LEMMA ProviderInductive == ProviderInv /\ [ProviderNext]_providerVars => ProviderInv'
BY ProviderSteps, ResyncStep, ProviderRests DEF ProviderNext

LEMMA ProviderInvHolds == ProviderSpec => []ProviderInv
BY ProviderStarts, ProviderInductive, PTL DEF ProviderSpec

\* The state of the provider has its type: what the handler is about to register
\* has a name and a number, whatever the secrets say and however often they
\* change (runProvider and handleSecret, provider.go 99-220).
THEOREM ProviderTypes == ProviderSpec => []ProviderTypeOK
<1>1. ProviderInv => ProviderTypeOK
  BY DEF ProviderInv
<1>2. QED
  BY <1>1, ProviderInvHolds, PTL

\* The registry and the record of the secrets say the same and what is engaged is
\* registered, for every interleaving of the handler's steps with the changes of
\* the secrets and the failures of the clusters, and also where several secrets
\* claim the same cluster name (handleSecret and disengage, provider.go 136-220).
THEOREM RegistriesAgree == ProviderSpec => []RegistryAgrees
<1>1. ProviderInv => RegistryAgrees
  <2> SUFFICES ASSUME ProviderInv PROVE RegistryAgrees
    OBVIOUS
  <2>1. Registry /\ Engaged
    BY DEF ProviderInv
  <2>2. handler.pc = "idle" => \A n \in Names : clusters[n] # NoCluster =>
           \E e \in engaged : e.id = clusters[n].id
    BY <2>1 DEF Registry, Engaged, IsRegistered
  <2>3. QED
    BY <2>1, <2>2 DEF RegistryAgrees, Registry, IsRegistered
<1>2. QED
  BY <1>1, ProviderInvHolds, PTL

\* An engaged cluster is the one its secret describes, or an event of the secret
\* is still to be handled: a deleted or changed secret leaves no cluster behind
\* that the controllers go on watching (docs/multicluster-setup.md).
THEOREM EngagedIsDescribed == ProviderSpec => []EngagedAsDescribed
<1>1. ProviderInv => EngagedAsDescribed
  <2> SUFFICES ASSUME ProviderInv PROVE EngagedAsDescribed
    OBVIOUS
  <2>1. events \in Seq(Event) /\ Described
    BY DEF ProviderInv, ProviderTypeOK
  <2>2. DOMAIN events = 1 .. Len(events)
    BY <2>1
  <2>3. QED
    BY <2>1, <2>2 DEF EngagedAsDescribed, Described, Pending
<1>2. QED
  BY <1>1, ProviderInvHolds, PTL
-----------------------------------------------------------------------------
(***************************************************************************)
(* The requests of the controllers over these clusters                     *)
(***************************************************************************)
\* A reconcile that has begun is of some cluster.
Holds(w, n) == w.name = n /\ w.pc \in {"read", "release"}

RequestInv ==
    /\ ProviderInv /\ TypeOK
    /\ \A k \in Controllers : worker[k].pc # "idle" => worker[k].name \in Names
    /\ LocksAreReleased

\* A step of the provider, of a user or of an informer changes no lock and no
\* worker's name or place.
LEMMA RequestsStay ==
    ASSUME RequestInv, ProviderInv', UNCHANGED locks,
           worker' \in [Controllers -> Worker],
           \A k \in Controllers : /\ worker'[k].pc = worker[k].pc
                                  /\ worker'[k].name = worker[k].name,
           queue' \in [Controllers -> SUBSET Names],
           delayed' \in [Controllers -> SUBSET Names],
           news' \subseteq Nat \X Controllers, unseen' \subseteq Change, asked' \in Nat
    PROVE  RequestInv'
<1>1. ProviderTypeOK'
  BY DEF ProviderInv
<1>2. TypeOK'
  BY <1>1 DEF RequestInv, TypeOK
<1>3. LocksAreReleased'
  BY DEF RequestInv, LocksAreReleased
<1>4. QED
  BY <1>2, <1>3 DEF RequestInv

\* A reconcile keeps the invariant when it has a name from its beginning to its
\* end and goes on to release the lock that it sets.
LEMMA ReconcileGoesOn ==
    ASSUME RequestInv, UNCHANGED providerVars, NEW k \in Controllers,
           NEW w \in Worker, worker' = [worker EXCEPT ![k] = w],
           w.pc # "idle" => w.name \in Names,
           locks' \in [Names -> Controllers \union {None}],
           \A n \in Names : locks'[n] # None =>
              \/ Holds(w, n)
              \/ locks[n] # None /\ ~Holds(worker[k], n),
           queue' \in [Controllers -> SUBSET Names],
           delayed' \in [Controllers -> SUBSET Names],
           news' \subseteq Nat \X Controllers, unseen' \subseteq Change, asked' \in Nat
    PROVE  RequestInv'
<1>1. ProviderInv'
  BY ProviderRests DEF RequestInv
<1>2. worker \in [Controllers -> Worker]
  BY DEF RequestInv, TypeOK
<1>3. /\ worker' \in [Controllers -> Worker] /\ worker'[k] = w
      /\ \A o \in Controllers \ {k} : worker'[o] = worker[o]
  BY <1>2
<1>4. TypeOK'
  BY <1>1, <1>3 DEF TypeOK, ProviderInv
<1>5. LocksAreReleased'
  <2> SUFFICES ASSUME NEW n \in Names, locks'[n] # None
               PROVE  \E o \in Controllers : Holds(worker'[o], n)
    BY DEF LocksAreReleased, Holds
  <2>1. CASE Holds(w, n)
    BY <1>3, <2>1
  <2>2. CASE locks[n] # None /\ ~Holds(worker[k], n)
    <3>1. PICK o \in Controllers : Holds(worker[o], n)
      BY <2>2 DEF RequestInv, LocksAreReleased, Holds
    <3>2. QED
      BY <1>3, <2>2, <3>1
  <2>3. QED
    BY <2>1, <2>2
<1>6. QED
  BY <1>1, <1>3, <1>4, <1>5 DEF RequestInv

LEMMA IdleIsWorker == Idle \in Worker /\ Idle.pc = "idle" /\ Idle.name = None
BY DEF Idle, Worker, Cancelled

LEMMA ProvideStep ==
    ASSUME RequestInv, Provide PROVE RequestInv'
<1>1. ProviderInv'
  BY ProviderSteps DEF RequestInv, Provide
<1>2. /\ news \subseteq Nat \X Controllers
      /\ \A e \in engaged' : e.id \in Nat
  BY <1>1 DEF RequestInv, TypeOK, ProviderInv, ProviderTypeOK, Cluster
<1>3. news' \subseteq Nat \X Controllers
  BY <1>2 DEF Provide, NewsOf
<1>4. ASSUME NEW w \in Worker
      PROVE  LET v == KeepClient(w, InUse')
             IN  v \in Worker /\ v.pc = w.pc /\ v.name = w.name
  BY DEF KeepClient, Worker, Cancelled
<1>5. /\ worker' = [k \in Controllers |-> KeepClient(worker[k], InUse')]
      /\ UNCHANGED <<queue, delayed, locks, unseen, asked>>
  BY DEF Provide
<1>6. worker \in [Controllers -> Worker]
  BY DEF RequestInv, TypeOK
<1>7. /\ worker' \in [Controllers -> Worker]
      /\ \A k \in Controllers : /\ worker'[k].pc = worker[k].pc
                                /\ worker'[k].name = worker[k].name
  BY <1>4, <1>5, <1>6
<1>8. QED
  BY <1>1, <1>3, <1>5, <1>7, RequestsStay DEF RequestInv, TypeOK

LEMMA UpdateResourceStep ==
    ASSUME RequestInv, NEW r \in Remotes, NEW k \in Controllers, UpdateResource(r, k)
    PROVE  RequestInv'
<1>1. ProviderInv'
  BY ProviderRests DEF RequestInv, UpdateResource
<1>2. news' \subseteq Nat \X Controllers
  BY DEF UpdateResource, Running, RequestInv, TypeOK, ProviderTypeOK, Cluster
<1>3. unseen' \subseteq Change /\ asked' \in Nat
  BY DEF UpdateResource, Change, Asks, RequestInv, TypeOK
<1>4. QED
  BY <1>1, <1>2, <1>3, RequestsStay DEF RequestInv, TypeOK, UpdateResource

LEMMA DeliverStep ==
    ASSUME RequestInv, NEW e \in engaged, NEW k \in Controllers, Deliver(e, k)
    PROVE  RequestInv'
<1>1. ProviderInv'
  BY ProviderRests DEF RequestInv, Deliver
<1>2. e.name \in Names
  BY DEF RequestInv, TypeOK, ProviderTypeOK, Cluster
<1>3. queue' \in [Controllers -> SUBSET Names] /\ news' \subseteq Nat \X Controllers
  BY <1>2 DEF Deliver, RequestInv, TypeOK
<1>4. QED
  BY <1>1, <1>3, RequestsStay DEF RequestInv, TypeOK, Deliver

LEMMA TakeStep ==
    ASSUME RequestInv, NEW k \in Controllers, NEW name \in Names, Take(k, name)
    PROVE  RequestInv'
<1>1. /\ queue' \in [Controllers -> SUBSET Names]
      /\ UNCHANGED <<providerVars, locks, news, unseen, asked>>
      /\ worker[k].pc = "idle"
  BY DEF Take, RequestInv, TypeOK
<1>2. TypeOK /\ ProviderTypeOK
  BY DEF RequestInv, TypeOK
<1>3. CASE Get(name) # NoCluster
  <2> DEFINE w == [Idle EXCEPT !.pc = "recorder", !.name = name, !.cluster = Get(name).id]
  <2>1. Get(name).id \in Nat
    BY <1>2, <1>3 DEF Get, ProviderTypeOK, Cluster
  <2>2. w \in Worker /\ w.name = name /\ w.pc = "recorder"
    BY <2>1 DEF Idle, Worker
  <2>3. worker' = [worker EXCEPT ![k] = w] /\ delayed' = delayed
    BY <1>3 DEF Take, Set
  <2> HIDE DEF w
  <2>4. QED
    BY <1>1, <1>2, <2>2, <2>3, ReconcileGoesOn DEF TypeOK, Holds
<1>4. CASE Get(name) = NoCluster
  <2>1. worker' = worker /\ delayed' \in [Controllers -> SUBSET Names]
    BY <1>2, <1>4 DEF Take, TypeOK
  <2>2. ProviderInv'
    BY <1>1, ProviderRests DEF RequestInv
  <2>3. QED
    BY <1>1, <1>2, <2>1, <2>2, RequestsStay DEF TypeOK
<1>5. QED
  BY <1>3, <1>4

\* A reconcile that has set no lock, or has released it, ends.
LEMMA ReconcileEnds ==
    ASSUME RequestInv, NEW k \in Controllers, worker[k].pc # "idle",
           (Set(k, Idle) /\ UNCHANGED delayed) \/ Retry(k),
           UNCHANGED <<providerVars, queue, news>>,
           unseen' \subseteq Change, asked' \in Nat,
           \/ worker[k].pc \notin {"read", "release"} /\ UNCHANGED locks
           \/ locks' = [locks EXCEPT ![worker[k].name] = None]
    PROVE  RequestInv'
<1>1. TypeOK /\ worker[k].name \in Names
  BY DEF RequestInv
<1>2. worker' = [worker EXCEPT ![k] = Idle]
  BY DEF Set, Retry
<1>3. delayed' \in [Controllers -> SUBSET Names]
  BY <1>1 DEF TypeOK, Retry
<1>4. locks' \in [Names -> Controllers \union {None}]
  BY <1>1 DEF TypeOK
<1>5. \A n \in Names : locks'[n] # None => locks[n] # None /\ ~Holds(worker[k], n)
  BY <1>1 DEF TypeOK, Holds
<1>6. QED
  BY <1>1, <1>2, <1>3, <1>4, <1>5, IdleIsWorker, ReconcileGoesOn DEF TypeOK

LEMMA GetRecorderStep ==
    ASSUME RequestInv, NEW k \in Controllers, GetRecorder(k) PROVE RequestInv'
<1>1. TypeOK /\ worker[k].name \in Names
  BY DEF RequestInv, GetRecorder
<1>2. CASE Get(worker[k].name) # NoCluster
  <2> DEFINE w == [worker[k] EXCEPT !.pc = "lock"]
  <2>1. w \in Worker /\ w.name = worker[k].name
    BY <1>1 DEF TypeOK, Worker
  <2>2. worker' = [worker EXCEPT ![k] = w] /\ delayed' = delayed
    BY <1>2 DEF GetRecorder, Set
  <2> HIDE DEF w
  <2>3. QED
    BY <1>1, <2>1, <2>2, ReconcileGoesOn DEF TypeOK, GetRecorder, Holds
<1>3. CASE Get(worker[k].name) = NoCluster
  BY <1>1, <1>3, ReconcileEnds DEF GetRecorder, TypeOK
<1>4. QED
  BY <1>2, <1>3

LEMMA TestLockStep ==
    ASSUME RequestInv, NEW k \in Controllers, TestLock(k) PROVE RequestInv'
<1>1. TypeOK /\ worker[k].name \in Names
  BY DEF RequestInv, TestLock
<1>2. CASE locks[worker[k].name] = None
  <2> DEFINE w == [worker[k] EXCEPT !.pc = "set"]
  <2>1. w \in Worker /\ w.name = worker[k].name
    BY <1>1 DEF TypeOK, Worker
  <2>2. worker' = [worker EXCEPT ![k] = w] /\ delayed' = delayed
    BY <1>2 DEF TestLock, Set
  <2> HIDE DEF w
  <2>3. QED
    BY <1>1, <2>1, <2>2, ReconcileGoesOn DEF TypeOK, TestLock, Holds
<1>3. CASE locks[worker[k].name] # None
  BY <1>1, <1>3, ReconcileEnds DEF TestLock, TypeOK
<1>4. QED
  BY <1>2, <1>3

LEMMA SetLockStep ==
    ASSUME RequestInv, NEW k \in Controllers, SetLock(k) PROVE RequestInv'
<1>1. TypeOK /\ worker[k].name \in Names
  BY DEF RequestInv, SetLock
<1> DEFINE w == [worker[k] EXCEPT !.pc = "read"]
<1>2. w \in Worker /\ w.name = worker[k].name /\ w.pc = "read"
  BY <1>1 DEF TypeOK, Worker
<1>3. worker' = [worker EXCEPT ![k] = w]
  BY DEF SetLock, Set
<1> HIDE DEF w
<1>4. /\ locks' \in [Names -> Controllers \union {None}]
      /\ \A n \in Names : n # worker[k].name => locks'[n] = locks[n]
  BY <1>1 DEF TypeOK, SetLock
<1>5. /\ worker[k].pc = "set"
      /\ UNCHANGED <<providerVars, queue, delayed, news, unseen, asked>>
  BY DEF SetLock
<1>6. \A n \in Names : locks'[n] # None =>
         \/ Holds(w, n)
         \/ locks[n] # None /\ ~Holds(worker[k], n)
  BY <1>2, <1>4, <1>5 DEF Holds
<1>7. QED
  BY <1>1, <1>2, <1>3, <1>4, <1>5, <1>6, ReconcileGoesOn DEF TypeOK

LEMMA ReadStep ==
    ASSUME RequestInv, NEW k \in Controllers, Read(k) PROVE RequestInv'
<1>1. TypeOK /\ worker[k].name \in Names
  BY DEF RequestInv, Read
<1>2. PICK w \in Worker : /\ worker' = [worker EXCEPT ![k] = w]
                         /\ w.name = worker[k].name /\ w.pc = "release"
  <2>1. worker[k] \in Worker
    BY <1>1 DEF TypeOK
  <2>2. [worker[k] EXCEPT !.pc = "release"] \in Worker
    BY <2>1 DEF Worker
  <2>3. \A outcome \in {"done", "again"} :
          [worker[k] EXCEPT !.pc = "release", !.outcome = outcome] \in Worker
    BY <2>1 DEF Worker
  <2>4. \/ worker' = [worker EXCEPT ![k] = [worker[k] EXCEPT !.pc = "release"]]
        \/ \E outcome \in {"done", "again"} :
             worker' = [worker EXCEPT ![k] =
                          [worker[k] EXCEPT !.pc = "release", !.outcome = outcome]]
    BY DEF Read, Set
  <2>5. QED
    BY <2>1, <2>2, <2>3, <2>4 DEF Worker
<1>3. unseen' \subseteq Change
  BY <1>1 DEF TypeOK, Read
<1>4. worker[k].pc = "read" /\ UNCHANGED <<providerVars, queue, delayed, locks, news, asked>>
  BY DEF Read
<1>5. QED
  BY <1>1, <1>2, <1>3, <1>4, ReconcileGoesOn DEF TypeOK, Holds

LEMMA ReleaseStep ==
    ASSUME RequestInv, NEW k \in Controllers, Release(k) PROVE RequestInv'
<1>1. asked' \in Nat /\ unseen' \subseteq Change
  BY DEF Release, Asks, RequestInv, TypeOK
<1>2. QED
  BY <1>1, ReconcileEnds DEF Release

LEMMA ExpireStep ==
    ASSUME RequestInv, NEW k \in Controllers, NEW name \in Names, Expire(k, name)
    PROVE  RequestInv'
<1>1. ProviderInv'
  BY ProviderRests DEF RequestInv, Expire
<1>2. /\ delayed' \in [Controllers -> SUBSET Names]
      /\ queue' \in [Controllers -> SUBSET Names]
  BY DEF RequestInv, TypeOK, Expire
<1>3. QED
  BY <1>1, <1>2, RequestsStay DEF RequestInv, TypeOK, Expire

LEMMA RequestInductive == RequestInv /\ [Next]_vars => RequestInv'
<1> SUFFICES ASSUME RequestInv, [Next]_vars PROVE RequestInv'
  OBVIOUS
<1>1. ASSUME NEW k \in Controllers, Step(k) PROVE RequestInv'
  BY <1>1, TakeStep, GetRecorderStep, TestLockStep, SetLockStep, ReadStep, ReleaseStep
     DEF Step
<1>2. ASSUME NEW s \in Secrets, ResyncWhenQuiet(s) PROVE RequestInv'
  <2>1. ProviderInv'
    BY <1>2, ResyncStep DEF RequestInv, ResyncWhenQuiet
  <2>2. QED
    BY <1>2, <2>1, RequestsStay DEF RequestInv, TypeOK, ResyncWhenQuiet, requestVars
<1>3. CASE UNCHANGED vars
  <2>1. ProviderInv'
    BY <1>3, ProviderRests DEF RequestInv, vars
  <2>2. QED
    BY <1>3, <2>1, RequestsStay DEF RequestInv, TypeOK, vars, requestVars
<1>4. QED
  BY <1>1, <1>2, <1>3, ProvideStep, UpdateResourceStep, DeliverStep, ExpireStep DEF Next

LEMMA RequestInvHolds == Spec => []RequestInv
<1>1. Init => RequestInv
  <2> SUFFICES ASSUME Init PROVE RequestInv
    OBVIOUS
  <2>1. ProviderInv
    BY ProviderStarts DEF Init
  <2>2. TypeOK
    BY <2>1, IdleIsWorker DEF Init, TypeOK, ProviderInv, Change
  <2>3. QED
    BY <2>1, <2>2, IdleIsWorker DEF Init, RequestInv, LocksAreReleased
<1>2. QED
  BY <1>1, RequestInductive, PTL DEF Spec

\* The state of the requests has its type; above all, no request is ever of a
\* name that no cluster can have (Reconcile, tf_controller.go and
\* tofu_controller.go).
THEOREM RequestTypes == Spec => []TypeOK
<1>1. RequestInv => TypeOK
  BY DEF RequestInv
<1>2. QED
  BY <1>1, RequestInvHolds, PTL

\* A reconcile lock that is set will be released, by a reconcile that is under
\* way: also where both controllers pass the test of the same lock and set it
\* over each other, and whatever happens to the cluster meanwhile (reconcile,
\* tf_controller.go 640-648).
THEOREM LocksReleased == Spec => []LocksAreReleased
<1>1. RequestInv => LocksAreReleased
  BY DEF RequestInv
<1>2. QED
  BY <1>1, RequestInvHolds, PTL
=============================================================================
