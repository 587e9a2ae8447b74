-------------------------- MODULE DiscoveryProofs --------------------------
(***************************************************************************)
(* Theorems about discovery, for every set of namespaces, labels, creation *)
(* times and annotations and for queues of any length.                     *)
(*                                                                         *)
(* The argument: a notification carries the object that the handler last   *)
(* saw of its namespace (EventChain), so the name the handler gives up is  *)
(* the one under which that namespace is listed, and each handler turns    *)
(* the listing into another one that differs in what it was told, and in   *)
(* nothing else (News).                                                    *)
(***************************************************************************)
EXTENDS Discovery, EnvironmentStoreProofs, FiniteSetTheorems, TLAPS

(***************************************************************************)
(* The step from a listing to the next when the service, having last seen  *)
(* old of namespace n, is told of new (as in module Directory).            *)
(***************************************************************************)
News(env, env2, n, old, new) ==
  /\ \A name \in DOMAIN env2 :
       \/ /\ name \in DOMAIN env
          /\ env[name].Namespace # n
          /\ env2[name] = env[name]
       \/ /\ new # Absent
          /\ name = new.Label
          /\ env2[name] = EnvironmentOf(new)
  /\ DOMAIN env \ DOMAIN env2 \subseteq IF old = Absent THEN {} ELSE {old.Label}
  /\ new # Absent /\ IsValid(EnvironmentOf(new)) =>
       /\ new.Label \in DOMAIN env2
       /\ env2[new.Label] = EnvironmentOf(new)

\* NoGhosts of a listing and of the objects d last told of.
GhostFree(env, d) ==
  \A name \in DOMAIN env :
    LET n == env[name].Namespace IN
      /\ n \in Namespaces
      /\ d[n] # Absent
      /\ name = d[n].Label
      /\ env[name] = EnvironmentOf(d[n])

-----------------------------------------------------------------------------
(***************************************************************************)
(* What the handlers do                                                    *)
(***************************************************************************)
\* The identifying fields of the environment of a namespace object.
LEMMA EnvironmentFields ==
  ASSUME NEW ns \in Objects, Empty \notin Labels
  PROVE  LET e == EnvironmentOf(ns) IN
           /\ e.Name = ns.Label /\ e.Name # Empty
           /\ e.Namespace = ns.Name /\ e.Namespace # Empty
           /\ e.CreatedAt = ns.CreatedAt /\ e.CreatedAt # ZeroTime
           /\ Nil \notin {e.URL, e.StatusChecks, e.MetaProbes}
<1>1. ns.Label \in Labels /\ ns.Name \in Namespaces /\ ns.CreatedAt \in CreationTimes
  BY DEF Objects
<1>2. Nil \notin {buildURLMap(ns), buildStatusChecks(ns.Label, ns),
                  buildMetadataProbes(ns.Label, ns)}
  BY BuiltMapsAssumption
<1>3. QED BY <1>1, <1>2, SentinelsAssumption DEF EnvironmentOf

\* An update in place, of an entry made from one object of a namespace by the
\* environment of another, gives that environment.
LEMMA InPlace ==
  ASSUME NEW ns1 \in Objects, NEW ns2 \in Objects, Empty \notin Labels,
         ~ImmutableFieldChanged(EnvironmentOf(ns1), EnvironmentOf(ns2))
  PROVE  /\ ns1.Label = ns2.Label /\ ns1.Name = ns2.Name
         /\ UpdatedEnvironment(EnvironmentOf(ns1), EnvironmentOf(ns2)) = EnvironmentOf(ns2)
<1> DEFINE e1 == EnvironmentOf(ns1)
           e2 == EnvironmentOf(ns2)
<1>1. /\ e2.Name # Empty /\ e2.Namespace # Empty /\ e2.CreatedAt # ZeroTime
      /\ e2.URL # Nil /\ e2.StatusChecks # Nil /\ e2.MetaProbes # Nil
      /\ e1.Name = ns1.Label /\ e1.Namespace = ns1.Name
      /\ e2.Name = ns2.Label /\ e2.Namespace = ns2.Name
  BY EnvironmentFields
<1>2. e1.Name = e2.Name /\ e1.Namespace = e2.Namespace /\ e1.CreatedAt = e2.CreatedAt
  BY <1>1 DEF ImmutableFieldChanged
<1>3. UpdatedEnvironment(e1, e2) =
        [e1 EXCEPT !.URL = e2.URL, !.StatusChecks = e2.StatusChecks, !.MetaProbes = e2.MetaProbes]
  BY <1>1 DEF UpdatedEnvironment, Given
<1>4. [e1 EXCEPT !.URL = e2.URL, !.StatusChecks = e2.StatusChecks, !.MetaProbes = e2.MetaProbes] = e2
  BY <1>2 DEF EnvironmentOf
<1>5. QED BY <1>1, <1>2, <1>3, <1>4

\* No ghosts means that every entry is under its name, and that the entries of
\* a namespace are found under its name only.
LEMMA GhostFreeKeyed ==
  ASSUME NEW env, NEW d \in ObjectOrAbsent, WellNamed(d), Empty \notin Labels,
         GhostFree(env, d)
  PROVE  /\ Keyed(env)
         /\ \A name \in DOMAIN env, n \in Namespaces :
              env[name].Namespace = n =>
                /\ d[n] \in Objects
                /\ name = d[n].Label
                /\ env[name] = EnvironmentOf(d[n])
<1> SUFFICES ASSUME NEW name \in DOMAIN env
             PROVE  /\ env[name].Name = name
                    /\ \A n \in Namespaces :
                         env[name].Namespace = n =>
                           /\ d[n] \in Objects
                           /\ name = d[n].Label
                           /\ env[name] = EnvironmentOf(d[n])
  BY DEF Keyed
<1> DEFINE m == env[name].Namespace
<1>1. m \in Namespaces /\ d[m] # Absent /\ name = d[m].Label /\ env[name] = EnvironmentOf(d[m])
  BY DEF GhostFree
<1>2. d[m] \in Objects
  BY <1>1 DEF ObjectOrAbsent
<1>3. EnvironmentOf(d[m]).Name = d[m].Label
  BY <1>2, EnvironmentFields
<1>4. QED BY <1>1, <1>2, <1>3

\* The entries of namespace n are those of its object old.
OnlyFrom(env, n, old) ==
  \A name \in DOMAIN env :
    env[name].Namespace = n =>
      old # Absent /\ name = old.Label /\ env[name] = EnvironmentOf(old)

\* Adding is a step of the directory when nothing of the namespace is listed.
LEMMA AddNews ==
  ASSUME Empty \notin Labels, NEW s, NEW n, NEW old, NEW new \in Objects,
         \A name \in DOMAIN s.env : s.env[name].Namespace # n
  PROVE  News(s.env, addEnvironment(s, EnvironmentOf(new)).store.env, n, old, new)
<1> DEFINE e  == EnvironmentOf(new)
           s2 == addEnvironment(s, e).store
<1>1. e.Name = new.Label /\ new # Absent
  BY EnvironmentFields, SentinelsAssumption
<1>2. /\ IsValid(e) => /\ DOMAIN s2.env = DOMAIN s.env \cup {e.Name}
                       /\ s2.env[e.Name] = e
                       /\ \A k \in DOMAIN s.env \ {e.Name} : s2.env[k] = s.env[k]
      /\ ~IsValid(e) => s2 = s
  BY AddEffect
<1>3. SUFFICES News(s.env, s2.env, n, old, new)
  OBVIOUS
<1> HIDE DEF s2
<1>4. CASE IsValid(e)
  BY <1>1, <1>2, <1>4 DEF News
<1>5. CASE ~IsValid(e)
  BY <1>1, <1>2, <1>5 DEF News
<1>6. QED BY <1>4, <1>5

\* Removing the name of the namespace is a step of the directory.
LEMMA DeleteNews ==
  ASSUME NEW s, NEW n, NEW old, old # Absent, OnlyFrom(s.env, n, old)
  PROVE  News(s.env, deleteEnvironment(s, old.Label).store.env, n, old, Absent)
BY DeleteEffect DEF News, OnlyFrom

\* Updating is a step of the directory, whichever of its branches is taken.
LEMMA UpdateNews ==
  ASSUME Empty \notin Labels,
         NEW s, NEW d \in ObjectOrAbsent, WellNamed(d), GhostFree(s.env, d),
         NEW n \in Namespaces, NEW old \in Objects, NEW new \in Objects,
         old = d[n], new.Name = n
  PROVE  News(s.env, UpdateEnvironment(s, old.Label, EnvironmentOf(new)).store.env,
              n, old, new)
<1> DEFINE name == old.Label
           e    == EnvironmentOf(new)
           s2   == UpdateEnvironment(s, name, e).store
<1>1. \A k \in DOMAIN s.env \ {name} : s.env[k].Namespace # n
  BY GhostFreeKeyed
<1>2. CASE name \notin DOMAIN s.env
  <2>1. s2 = addEnvironment(s, e).store
    BY <1>2 DEF UpdateEnvironment
  <2>2. QED BY <1>1, <1>2, <2>1, AddNews
<1>3. CASE name \in DOMAIN s.env /\ ImmutableFieldChanged(s.env[name], e)
  <2> DEFINE c == deleteEnvironment(s, name).store
  <2>1. s2 = addEnvironment(c, e).store
    BY <1>3 DEF UpdateEnvironment
  <2>2. /\ DOMAIN c.env = DOMAIN s.env \ {name}
        /\ \A k \in DOMAIN c.env : c.env[k] = s.env[k]
    BY DeleteEffect
  <2> HIDE DEF c
  <2>3. News(c.env, s2.env, n, Absent, new)
    BY <1>1, <2>1, <2>2, AddNews
  <2>4. old # Absent
    BY SentinelsAssumption
  <2> HIDE DEF s2
  <2>5. News(s.env, s2.env, n, old, new)
    BY <2>2, <2>3, <2>4 DEF News
  <2>6. QED BY <2>5 DEF s2
<1>4. CASE name \in DOMAIN s.env /\ ~ImmutableFieldChanged(s.env[name], e)
  <2> DEFINE m == s.env[name].Namespace
  <2>1. m \in Namespaces /\ name = d[m].Label
    BY <1>4 DEF GhostFree
  <2>2. d[m] \in Objects /\ d[m].Name = m /\ s.env[name] = EnvironmentOf(d[m])
    BY <1>4, <2>1, GhostFreeKeyed, SentinelsAssumption DEF WellNamed, Announces
  <2>3. name = new.Label /\ m = n /\ UpdatedEnvironment(s.env[name], e) = e
    BY <1>4, <2>1, <2>2, InPlace
  <2>4. e.Name = name /\ new # Absent /\ old # Absent
    BY <2>3, EnvironmentFields, SentinelsAssumption
  <2>5. s2.env = Put(s.env, name, e)
    BY <1>4, <2>3, <2>4 DEF UpdateEnvironment, Succeed
  <2> HIDE DEF s2
  <2>6. /\ DOMAIN s2.env = DOMAIN s.env
        /\ s2.env[name] = e
        /\ \A k \in DOMAIN s.env \ {name} : s2.env[k] = s.env[k]
    BY <1>4, <2>5 DEF Put
  <2>7. News(s.env, s2.env, n, old, new)
    BY <1>1, <1>4, <2>3, <2>4, <2>6 DEF News
  <2>8. QED BY <2>7 DEF s2
<1>5. QED BY <1>2, <1>3, <1>4

\* A notification carries objects of its namespace, at least one.
LEMMA EventFields ==
  ASSUME NEW event \in EventRecords
  PROVE  /\ event.ns \in Namespaces
         /\ event.old # Absent => event.old \in Objects /\ event.old.Name = event.ns
         /\ event.new # Absent => event.new \in Objects /\ event.new.Name = event.ns
         /\ event.old # Absent \/ event.new # Absent
BY DEF EventRecords

\* Handling a notification is a step of the directory, provided it starts
\* from what the handler last saw of the namespace.
LEMMA HandledNews ==
  ASSUME Empty \notin Labels,
         NEW s, NEW d \in ObjectOrAbsent, WellNamed(d), GhostFree(s.env, d),
         NEW event \in EventRecords, event.old = d[event.ns]
  PROVE  News(s.env, Handled(s, event).store.env, event.ns, event.old, event.new)
<1>1. OnlyFrom(s.env, event.ns, event.old)
  BY EventFields, GhostFreeKeyed, SentinelsAssumption DEF OnlyFrom
<1>2. CASE event.old = Absent
  BY <1>1, <1>2, EventFields, AddNews
     DEF Handled, HandleNamespaceAdd, AddEnvironment, OnlyFrom
<1>3. CASE event.old # Absent /\ event.new = Absent
  BY <1>1, <1>3, DeleteNews DEF Handled, HandleNamespaceDelete, DeleteEnvironment
<1>4. CASE event.old # Absent /\ event.new # Absent
  BY <1>4, EventFields, UpdateNews DEF Handled, HandleNamespaceUpdate
<1>5. QED BY <1>2, <1>3, <1>4

\* A step of the directory that tells of new leaves no ghosts.
LEMMA NewsGhostFree ==
  ASSUME Empty \notin Labels,
         NEW env, NEW env2, NEW d \in ObjectOrAbsent, NEW n \in Namespaces,
         NEW new, new # Absent => new \in Objects /\ new.Name = n,
         GhostFree(env, d), News(env, env2, n, d[n], new)
  PROVE  GhostFree(env2, [d EXCEPT ![n] = new])
<1> SUFFICES ASSUME NEW name \in DOMAIN env2
             PROVE  LET m == env2[name].Namespace
                        d2 == [d EXCEPT ![n] = new] IN
                      /\ m \in Namespaces
                      /\ d2[m] # Absent
                      /\ name = d2[m].Label
                      /\ env2[name] = EnvironmentOf(d2[m])
  BY DEF GhostFree
<1>1. CASE name \in DOMAIN env /\ env[name].Namespace # n /\ env2[name] = env[name]
  BY <1>1 DEF GhostFree, ObjectOrAbsent
<1>2. CASE new # Absent /\ name = new.Label /\ env2[name] = EnvironmentOf(new)
  <2>1. env2[name].Namespace = n
    BY <1>2, EnvironmentFields
  <2>2. QED BY <1>2, <2>1 DEF ObjectOrAbsent
<1>3. QED BY <1>1, <1>2 DEF News

\* Handling a notification keeps the exported series those of the entries.
LEMMA HandledExported ==
  ASSUME Empty \notin Labels,
         NEW s, NEW d \in ObjectOrAbsent, WellNamed(d), GhostFree(s.env, d),
         NEW event \in EventRecords, event.old = d[event.ns], Exported(s)
  PROVE  Exported(Handled(s, event).store)
<1>1. Keyed(s.env)
  BY GhostFreeKeyed
<1>2. CASE event.old = Absent
  BY <1>1, <1>2, AddExported DEF Handled, HandleNamespaceAdd, AddEnvironment
<1>3. CASE event.old # Absent /\ event.new = Absent
  BY <1>1, <1>3, DeleteExported DEF Handled, HandleNamespaceDelete, DeleteEnvironment
<1>4. CASE event.old # Absent /\ event.new # Absent
  <2> DEFINE name == event.old.Label
             e    == EnvironmentOf(event.new)
             s2   == Handled(s, event).store
  <2>1. s2 = UpdateEnvironment(s, name, e).store
    BY <1>4 DEF Handled, HandleNamespaceUpdate
  <2>2. CASE name \notin DOMAIN s.env
    BY <1>1, <2>1, <2>2, AddExported DEF UpdateEnvironment
  <2>3. CASE name \in DOMAIN s.env /\ ImmutableFieldChanged(s.env[name], e)
    <3> DEFINE c == deleteEnvironment(s, name).store
    <3>1. Exported(c) /\ Keyed(c.env)
      BY <1>1, DeleteExported, DeleteEffect DEF Keyed
    <3>2. s2 = addEnvironment(c, e).store
      BY <2>1, <2>3 DEF UpdateEnvironment
    <3>3. QED BY <3>1, <3>2, AddExported
  <2>4. CASE name \in DOMAIN s.env /\ ~ImmutableFieldChanged(s.env[name], e)
    <3> DEFINE current == s.env[name]
    <3>1. e.Name # Empty /\ e.Namespace # Empty
      BY <1>4, EventFields, EnvironmentFields
    <3>2. e.Name = name /\ e.Name = current.Name /\ e.Namespace = current.Namespace
      BY <1>1, <2>4, <3>1 DEF ImmutableFieldChanged, Keyed
    <3>3. s2 = [env     |-> Put(s.env, e.Name, UpdatedEnvironment(current, e)),
                envInfo |-> s.envInfo]
      BY <2>1, <2>4 DEF UpdateEnvironment, Succeed
    <3>4. PICK m \in Namespaces : d[m] \in Objects /\ current = EnvironmentOf(d[m])
      BY <2>4, GhostFreeKeyed DEF GhostFree
    <3>5. UpdatedEnvironment(current, e) = e
      BY <1>4, <2>4, <3>4, EventFields, InPlace
    <3>6. InfoLabels(e) = InfoLabels(current)
      BY <3>2 DEF InfoLabels
    <3> HIDE DEF s2, e, name, current
    <3>7. /\ DOMAIN s2.env = DOMAIN s.env
          /\ \A k \in DOMAIN s.env : InfoLabels(s2.env[k]) = InfoLabels(s.env[k])
          /\ s2.envInfo = s.envInfo
      BY <2>4, <3>2, <3>3, <3>5, <3>6 DEF Put, current
    <3>8. s.envInfo = {InfoLabels(s.env[k]) : k \in DOMAIN s.env}
      BY DEF Exported, GetAllEnvironments
    <3>9. s2.envInfo = {InfoLabels(s2.env[k]) : k \in DOMAIN s2.env}
      BY <3>7, <3>8
    <3>10. Exported(s2)
      BY <3>9 DEF Exported, GetAllEnvironments
    <3>11. QED BY <3>10 DEF s2
  <2>5. QED BY <2>2, <2>3, <2>4
<1>5. QED BY <1>2, <1>3, <1>4

\* The names of the store are those it had and the one just announced.
LEMMA HandledKeys ==
  ASSUME NEW s, NEW event \in EventRecords
  PROVE  LET s2 == Handled(s, event).store IN
           \A k \in DOMAIN s2.env :
             k \in DOMAIN s.env \/ (event.new # Absent /\ k = event.new.Label)
<1>1. EnvironmentOf(event.new).Name = event.new.Label
  BY DEF EnvironmentOf
<1>2. \A s1, e : \A k \in DOMAIN addEnvironment(s1, e).store.env :
        k \in DOMAIN s1.env \cup {e.Name}
  BY AddEffect
<1>3. \A s1, name : DOMAIN deleteEnvironment(s1, name).store.env \subseteq DOMAIN s1.env
  BY DeleteEffect
<1>4. CASE event.old = Absent
  BY <1>1, <1>2, <1>4, EventFields DEF Handled, HandleNamespaceAdd, AddEnvironment
<1>5. CASE event.old # Absent /\ event.new = Absent
  BY <1>3, <1>5 DEF Handled, HandleNamespaceDelete, DeleteEnvironment
<1>6. CASE event.old # Absent /\ event.new # Absent
  BY <1>1, <1>2, <1>3, <1>6
     DEF Handled, HandleNamespaceUpdate, UpdateEnvironment, Succeed, Put
<1>7. QED BY <1>4, <1>5, <1>6

-----------------------------------------------------------------------------
(***************************************************************************)
(* Type correctness                                                        *)
(***************************************************************************)
\* What is kept for a namespace has the right type after one of its objects
\* changed.
LEMMA SetWellNamed ==
  ASSUME NEW d \in ObjectOrAbsent, WellNamed(d), NEW n \in Namespaces,
         NEW object, object # Absent => object \in Objects /\ object.Name = n
  PROVE  /\ [d EXCEPT ![n] = object] \in ObjectOrAbsent
         /\ WellNamed([d EXCEPT ![n] = object])
BY DEF ObjectOrAbsent, WellNamed, Announces

\* The objects of the API server are those of its namespaces.
LEMMA KubeType ==
  ASSUME TypeOK, NEW n \in Namespaces, KubeCreate(n) \/ KubeUpdate(n) \/ KubeDelete(n)
  PROVE  /\ cluster' \in ObjectOrAbsent /\ WellNamed(cluster)'
         /\ changes' \in 0..MaxChanges /\ separate' \in BOOLEAN
         /\ UNCHANGED <<informerVars, events, handlerVars, serving, restarts>>
<1>1. ASSUME NEW object, KubeSet(n, object),
             object # Absent => object \in Objects /\ object.Name = n
      PROVE  /\ cluster' \in ObjectOrAbsent /\ WellNamed(cluster)'
             /\ changes' \in 0..MaxChanges /\ separate' \in BOOLEAN
             /\ UNCHANGED <<informerVars, events, handlerVars, serving, restarts>>
  <2>1. cluster' = [cluster EXCEPT ![n] = object]
    BY <1>1 DEF KubeSet
  <2>2. cluster' \in ObjectOrAbsent /\ WellNamed(cluster')
    BY <1>1, <2>1, SetWellNamed DEF TypeOK
  <2>3. changes' \in 0..MaxChanges
    BY <1>1, BoundsAssumption DEF KubeSet, TypeOK
  <2>4. separate' \in BOOLEAN
    BY <1>1, Zenon DEF KubeSet
  <2>5. QED BY <1>1, <2>2, <2>3, <2>4 DEF KubeSet, WellNamed, Announces
<1>2. CASE KubeCreate(n)
  BY <1>1, <1>2 DEF KubeCreate
<1>3. CASE KubeUpdate(n)
  <2>1. PICK label \in Labels, annotations \in AnnotationSets :
          KubeSet(n, [cluster[n] EXCEPT !.Label = label, !.Annotations = annotations])
    BY <1>3 DEF KubeUpdate
  <2>2. cluster[n] \in Objects /\ cluster[n].Name = n
    BY <1>3 DEF KubeUpdate, TypeOK, ObjectOrAbsent, WellNamed, Announces
  <2>3. /\ [cluster[n] EXCEPT !.Label = label, !.Annotations = annotations] \in Objects
        /\ [cluster[n] EXCEPT !.Label = label, !.Annotations = annotations].Name = n
    BY <2>2 DEF Objects
  <2>4. QED BY <1>1, <2>1, <2>3
<1>4. CASE KubeDelete(n)
  BY <1>1, <1>4 DEF KubeDelete
<1>5. QED BY <1>2, <1>3, <1>4

\* A notification is well typed, and so are the cache and the queue after it.
LEMMA NotifyType ==
  ASSUME TypeOK, NEW n \in Namespaces, NEW object, Notify(n, object),
         object # Absent => object \in Objects /\ object.Name = n,
         object # Absent \/ indexer[n] # Absent
  PROVE  /\ Event(n, indexer[n], object) \in EventRecords
         /\ events' \in Seq(EventRecords)
         /\ indexer' \in ObjectOrAbsent /\ WellNamed(indexer')
<1>1. indexer[n] # Absent => indexer[n] \in Objects /\ indexer[n].Name = n
  BY DEF TypeOK, ObjectOrAbsent, WellNamed, Announces
<1>2. Event(n, indexer[n], object) \in EventRecords
  BY <1>1 DEF Event, EventRecords
<1>3. events' \in Seq(EventRecords)
  BY <1>2 DEF Notify, TypeOK
<1>4. QED BY <1>2, <1>3, SetWellNamed DEF Notify, TypeOK

\* The informer notifies of objects of the namespace it is about.
LEMMA InformerNotifies ==
  ASSUME TypeOK, NEW n \in Namespaces, PopInitial(n) \/ Observe(n) \/ Resync(n)
  PROVE  \E object :
           /\ Notify(n, object)
           /\ object # Absent => object \in Objects /\ object.Name = n
           /\ object # Absent \/ indexer[n] # Absent
<1>1. /\ initial[n] # Absent => initial[n] \in Objects /\ initial[n].Name = n
      /\ indexer[n] # Absent => indexer[n] \in Objects /\ indexer[n].Name = n
      /\ cluster[n] # Absent => cluster[n] \in Objects /\ cluster[n].Name = n
  BY DEF TypeOK, ObjectOrAbsent, WellNamed, Announces
<1>2. CASE PopInitial(n) BY <1>1, <1>2 DEF PopInitial
<1>3. CASE Observe(n) BY <1>1, <1>3 DEF Observe
<1>4. CASE Resync(n) BY <1>1, <1>4 DEF Resync
<1>5. QED BY <1>2, <1>3, <1>4

\* Whatever namespaces, labels and annotations there are, and however the API
\* server, the informer, the handler and restarts interleave, the informer's
\* cache, the queue and the store hold objects of the namespaces they are
\* about, and every stored environment has a label for its name.
THEOREM TypeCorrect == SafetySpec => []TypeOK
<1>1. Init => TypeOK
  <2>1. Nowhere \in ObjectOrAbsent /\ WellNamed(Nowhere)
    BY DEF Nowhere, ObjectOrAbsent, WellNamed, Announces
  <2>2. DOMAIN NewStore.env = {}
    BY DEF NewStore
  <2>3. 0 \in 0..MaxChanges /\ 0 \in 0..MaxRestarts
    BY BoundsAssumption
  <2>4. << >> \in Seq(EventRecords)
    OBVIOUS
  <2>5. Init => separate \in BOOLEAN
    BY DEF Init, DistinctNames
  <2>6. QED BY <2>1, <2>2, <2>3, <2>4, <2>5 DEF Init, TypeOK
<1>2. TypeOK /\ [Next]_vars => TypeOK'
  <2> SUFFICES ASSUME TypeOK, [Next]_vars PROVE TypeOK'
    OBVIOUS
  <2>1. ASSUME NEW n \in Namespaces, KubeCreate(n) \/ KubeUpdate(n) \/ KubeDelete(n)
        PROVE  TypeOK'
    BY <2>1, KubeType DEF TypeOK, informerVars, handlerVars, WellNamed, Announces
  <2>2. ASSUME NEW n \in Namespaces, PopInitial(n) \/ Observe(n) \/ Resync(n)
        PROVE  TypeOK'
    <3>1. events' \in Seq(EventRecords) /\ indexer' \in ObjectOrAbsent /\ WellNamed(indexer')
      BY <2>2, InformerNotifies, NotifyType
    <3>2. initial' \in ObjectOrAbsent /\ WellNamed(initial')
      BY <2>2, SetWellNamed DEF PopInitial, Observe, Resync, TypeOK
    <3>3. UNCHANGED <<cluster, listed, handlerVars, serving, separate, changes, restarts>>
      BY <2>2 DEF PopInitial, Observe, Resync
    <3>4. QED BY <3>1, <3>2, <3>3 DEF TypeOK, handlerVars, WellNamed, Announces
  <2>3. CASE List
    BY <2>3 DEF List, TypeOK, handlerVars, WellNamed, Announces
  <2>4. CASE Handle
    <3> DEFINE event == Head(events)
    <3>1. event \in EventRecords /\ events' \in Seq(EventRecords)
      BY <2>4 DEF Handle, TypeOK
    <3>2. delivered' \in ObjectOrAbsent /\ WellNamed(delivered')
      BY <2>4, <3>1, EventFields, SetWellNamed DEF Handle, TypeOK
    <3>3. DOMAIN store.env' \subseteq Labels
      <4>1. event.new # Absent => event.new.Label \in Labels
        BY <3>1, EventFields DEF Objects
      <4>2. store' = Handled(store, event).store
        BY <2>4 DEF Handle
      <4>3. QED BY <3>1, <4>1, <4>2, HandledKeys DEF TypeOK
    <3>4. UNCHANGED <<cluster, informerVars, serving, separate, changes, restarts>>
      BY <2>4 DEF Handle
    <3>5. QED BY <3>1, <3>2, <3>3, <3>4 DEF TypeOK, informerVars, WellNamed, Announces
  <2>5. CASE StartServing
    BY <2>5 DEF StartServing, TypeOK, informerVars, handlerVars, WellNamed, Announces
  <2>6. CASE Restart
    <3>1. Nowhere \in ObjectOrAbsent /\ WellNamed(Nowhere) /\ DOMAIN NewStore.env = {}
      BY DEF Nowhere, ObjectOrAbsent, WellNamed, Announces, NewStore
    <3>2. restarts' \in 0..MaxRestarts
      BY <2>6, BoundsAssumption DEF Restart, TypeOK
    <3>3. << >> \in Seq(EventRecords)
      OBVIOUS
    <3>4. /\ initial' = Nowhere /\ indexer' = Nowhere /\ delivered' = Nowhere
          /\ events' = << >> /\ store' = NewStore /\ cluster' = cluster
          /\ listed' \in BOOLEAN /\ serving' \in BOOLEAN
          /\ separate' = separate /\ changes' = changes
      BY <2>6 DEF Restart
    <3>5. WellNamed(cluster)'
      BY <3>4 DEF TypeOK, WellNamed, Announces
    <3>6. QED BY <3>1, <3>2, <3>3, <3>4, <3>5 DEF TypeOK
  <2>7. CASE UNCHANGED vars
    BY <2>7 DEF vars, TypeOK, WellNamed, Announces
  <2>8. QED BY <2>1, <2>2, <2>3, <2>4, <2>5, <2>6, <2>7 DEF Next
<1>3. QED BY <1>1, <1>2, PTL DEF SafetySpec

-----------------------------------------------------------------------------
(***************************************************************************)
(* The inductive invariant                                                 *)
(***************************************************************************)
IInv ==
  /\ TypeOK
  /\ EventChain
  /\ NoGhosts
  /\ InfoMatchesStore

\* The properties of the store, as the lemmas state them.
LEMMA StoreProperties ==
  /\ NoGhosts <=> GhostFree(store.env, delivered)
  /\ InfoMatchesStore <=> Exported(store)
BY DEF NoGhosts, GhostFree, Announces, ListsExactly, InfoMatchesStore, Exported

\* What was reported before a position of the queue does not depend on what
\* is added at its end.
LEMMA ReportedAppend ==
  ASSUME NEW q \in Seq(EventRecords), NEW event \in EventRecords, NEW d, NEW n, NEW object,
         NEW i \in 1..(Len(q) + 1), ReportedBefore(q, d, n, i, object)
  PROVE  ReportedBefore(Append(q, event), d, n, i, object)
<1> DEFINE q2 == Append(q, event)
<1>1. \A j \in 1..(i - 1) : q2[j] = q[j]
  OBVIOUS
<1> HIDE DEF q2
<1>2. QED BY <1>1 DEF ReportedBefore

\* What was reported before the end is what the last notification says.
LEMMA ReportedAtEnd ==
  ASSUME NEW q \in Seq(EventRecords), NEW event \in EventRecords, NEW d, NEW n, NEW object,
         IF event.ns = n THEN object = event.new
                         ELSE ReportedBefore(q, d, n, Len(q) + 1, object)
  PROVE  ReportedBefore(Append(q, event), d, n, Len(q) + 2, object)
<1> DEFINE q2  == Append(q, event)
           len == Len(q)
<1>1. (\A j \in 1..len : q2[j] = q[j]) /\ q2[len + 1] = event /\ len \in Nat
  OBVIOUS
<1> HIDE DEF q2, len
<1>2. CASE event.ns = n
  BY <1>1, <1>2 DEF ReportedBefore
<1>3. CASE event.ns # n
  <2>1. ReportedBefore(q, d, n, len + 1, object)
    BY <1>3 DEF len
  <2>2. CASE object = d[n] /\ \A j \in 1..len : q[j].ns # n
    <3>1. \A j \in 1..(len + 1) : q2[j].ns # n
      BY <1>1, <1>3, <2>2
    <3>2. QED BY <1>1, <2>2, <3>1 DEF ReportedBefore, len, q2
  <2>3. ASSUME NEW j \in 1..len, q[j].ns = n, q[j].new = object,
               \A k \in (j + 1)..len : q[k].ns # n
        PROVE  ReportedBefore(q2, d, n, len + 2, object)
    <3>0. ASSUME NEW k \in (j + 1)..(len + 1)
          PROVE  q2[k].ns # n
      <4>1. CASE k = len + 1 BY <1>1, <1>3, <4>1
      <4>2. CASE k # len + 1
        <5>1. k \in (j + 1)..len /\ k \in 1..len
          BY <1>1, <4>2
        <5>2. QED BY <1>1, <2>3, <5>1
      <4>3. QED BY <4>1, <4>2
    <3>1. /\ j \in 1..(len + 1) /\ q2[j].ns = n /\ q2[j].new = object
          /\ \A k \in (j + 1)..(len + 1) : q2[k].ns # n
      BY <1>1, <2>3, <3>0
    <3>2. (len + 2) - 1 = len + 1
      BY <1>1
    <3>3. QED BY <3>1, <3>2 DEF ReportedBefore
  <2>4. (len + 1) - 1 = len
    BY <1>1
  <2>5. QED BY <2>1, <2>2, <2>3, <2>4 DEF ReportedBefore, len, q2
<1>4. QED BY <1>2, <1>3

\* What was reported before a position stays so when the first notification
\* is handled.
LEMMA ReportedTail ==
  ASSUME NEW q \in Seq(EventRecords), q # << >>, NEW d \in ObjectOrAbsent,
         NEW n \in Namespaces, NEW object, Head(q).ns \in Namespaces,
         NEW i \in 2..(Len(q) + 1), ReportedBefore(q, d, n, i, object)
  PROVE  ReportedBefore(Tail(q), [d EXCEPT ![Head(q).ns] = Head(q).new], n, i - 1, object)
<1> DEFINE q2 == Tail(q)
           d2 == [d EXCEPT ![Head(q).ns] = Head(q).new]
<1>1. /\ Len(q) \in Nat /\ i \in Nat /\ i <= Len(q) + 1
      /\ \A j \in 1..(Len(q) - 1) : q2[j] = q[j + 1]
      /\ d2[q[1].ns] = q[1].new
      /\ n # q[1].ns => d2[n] = d[n]
  BY DEF ObjectOrAbsent
<1> HIDE DEF q2, d2
<1>2. SUFFICES ReportedBefore(q2, d2, n, i - 1, object)
  BY DEF q2, d2
<1>3. CASE object = d[n] /\ \A j \in 1..(i - 1) : q[j].ns # n
  <2>1. n # q[1].ns
    <3>1. 1 \in 1..(i - 1)
      BY <1>1
    <3>2. QED BY <1>3, <3>1
  <2>2. ASSUME NEW j \in 1..(i - 2)
        PROVE  q2[j].ns # n
    <3>1. j + 1 \in 1..(i - 1) /\ j \in 1..(Len(q) - 1)
      BY <1>1
    <3>2. QED BY <1>1, <1>3, <3>1
  <2>3. (i - 1) - 1 = i - 2
    BY <1>1
  <2>4. QED BY <1>1, <1>3, <2>1, <2>2, <2>3 DEF ReportedBefore
<1>4. ASSUME NEW j \in 1..(i - 1), q[j].ns = n, q[j].new = object,
             \A k \in (j + 1)..(i - 1) : q[k].ns # n
      PROVE  ReportedBefore(q2, d2, n, i - 1, object)
  <2>1. \A k \in j..(i - 2) : q2[k].ns # n
    BY <1>1, <1>4
  <2>2. CASE j = 1
    BY <1>1, <1>4, <2>1, <2>2 DEF ReportedBefore
  <2>3. CASE j # 1
    <3>1. /\ (j - 1) \in 1..(i - 2) /\ q2[j - 1].ns = n /\ q2[j - 1].new = object
          /\ \A k \in ((j - 1) + 1)..(i - 2) : q2[k].ns # n
      BY <1>1, <1>4, <2>1, <2>3
    <3>2. (i - 1) - 1 = i - 2
      BY <1>1
    <3>3. QED BY <3>1, <3>2 DEF ReportedBefore
  <2>4. QED BY <2>2, <2>3
<1>5. QED BY <1>3, <1>4 DEF ReportedBefore

\* A notification added to the queue continues the chain.
LEMMA ChainNotify ==
  ASSUME TypeOK, EventChain, NEW n \in Namespaces, NEW object,
         Notify(n, object), UNCHANGED delivered,
         Event(n, indexer[n], object) \in EventRecords
  PROVE  EventChain'
<1> DEFINE len   == Len(events)
           event == Event(n, indexer[n], object)
<1>1. /\ events \in Seq(EventRecords) /\ len \in Nat
      /\ event \in EventRecords
      /\ event.ns = n /\ event.old = indexer[n] /\ event.new = object
      /\ events' = Append(events, event) /\ delivered' = delivered
      /\ \A m \in Namespaces : indexer'[m] = IF m = n THEN object ELSE indexer[m]
  BY DEF Notify, Event, TypeOK, ObjectOrAbsent
<1> HIDE DEF event
<1>2. /\ Len(events') = len + 1
      /\ events'[len + 1] = event
      /\ \A i \in 1..len : events'[i] = events[i]
  BY <1>1
<1>3. \A i \in 1..len : ReportedBefore(events', delivered, events'[i].ns, i, events'[i].old)
  BY <1>1, <1>2, ReportedAppend DEF EventChain
<1>4. ReportedBefore(events', delivered, event.ns, len + 1, event.old)
  BY <1>1, ReportedAppend DEF EventChain
<1>5. \A i \in 1..(len + 1) :
        ReportedBefore(events', delivered, events'[i].ns, i, events'[i].old)
  BY <1>1, <1>2, <1>3, <1>4
<1>6. \A m \in Namespaces : ReportedBefore(events', delivered, m, len + 2, indexer'[m])
  BY <1>1, ReportedAtEnd DEF EventChain
<1>7. Len(events') + 1 = len + 2
  BY <1>1, <1>2
<1>8. QED BY <1>1, <1>2, <1>5, <1>6, <1>7 DEF EventChain

\* The notification handled starts from what the handler last saw, and the
\* chain goes on from what it ends with.
LEMMA ChainHandle ==
  ASSUME TypeOK, EventChain, Handle
  PROVE  /\ Head(events) \in EventRecords
         /\ Head(events).old = delivered[Head(events).ns]
         /\ EventChain'
<1> DEFINE len   == Len(events)
           event == Head(events)
<1>1. /\ events \in Seq(EventRecords) /\ events # << >>
      /\ len \in Nat /\ len >= 1
      /\ event = events[1] /\ event \in EventRecords
      /\ events' = Tail(events) /\ Len(events') = len - 1
      /\ \A i \in 1..(len - 1) : events'[i] = events[i + 1] /\ events[i + 1] \in EventRecords
      /\ delivered \in ObjectOrAbsent
      /\ delivered' = [delivered EXCEPT ![event.ns] = event.new]
      /\ indexer' = indexer
  BY DEF Handle, TypeOK, informerVars
<1>2. event.ns \in Namespaces
  BY <1>1, EventFields
<1>3. event.old = delivered[event.ns]
  <2>1. ReportedBefore(events, delivered, event.ns, 1, event.old)
    BY <1>1 DEF EventChain
  <2>2. QED BY <2>1 DEF ReportedBefore
<1>4. \A i \in 2..(len + 1), m \in Namespaces : \A o :
        ReportedBefore(events, delivered, m, i, o)
          => ReportedBefore(events', delivered', m, i - 1, o)
  BY <1>1, <1>2, ReportedTail
<1> HIDE DEF len, event
<1>5. ASSUME NEW i \in 1..(len - 1)
      PROVE  ReportedBefore(events', delivered', events'[i].ns, i, events'[i].old)
  <2>1. /\ i + 1 \in 2..(len + 1) /\ i + 1 \in 1..len /\ (i + 1) - 1 = i
        /\ events[i + 1].ns \in Namespaces
    BY <1>1, EventFields
  <2>2. ReportedBefore(events, delivered, events[i + 1].ns, i + 1, events[i + 1].old)
    BY <2>1 DEF EventChain, len
  <2>3. ReportedBefore(events', delivered', events[i + 1].ns, (i + 1) - 1, events[i + 1].old)
    BY <1>4, <2>1, <2>2
  <2>4. QED BY <1>1, <2>1, <2>3
<1>6. ASSUME NEW m \in Namespaces
      PROVE  ReportedBefore(events', delivered', m, Len(events') + 1, indexer'[m])
  <2>1. /\ len + 1 \in 2..(len + 1) /\ (len + 1) - 1 = Len(events') + 1
    BY <1>1
  <2>2. ReportedBefore(events, delivered, m, len + 1, indexer[m])
    BY DEF EventChain, len
  <2>3. ReportedBefore(events', delivered', m, (len + 1) - 1, indexer[m])
    BY <1>4, <2>1, <2>2
  <2>4. QED BY <1>1, <2>1, <2>3
<1>7. EventChain'
  BY <1>1, <1>5, <1>6 DEF EventChain
<1>8. QED BY <1>1, <1>3, <1>7 DEF event

\* Only handling a notification and a restart change the store; only the
\* informer, handling and a restart change what the chain is about.
LEMMA StepEffect ==
  ASSUME TypeOK, [Next]_vars
  PROVE  \/ Handle
         \/ Restart
         \/ /\ UNCHANGED <<store, delivered>>
            /\ \E n \in Namespaces : \E object :
                 Notify(n, object) /\ Event(n, indexer[n], object) \in EventRecords
         \/ UNCHANGED <<store, delivered, events, indexer>>
<1>1. ASSUME NEW n \in Namespaces, KubeCreate(n) \/ KubeUpdate(n) \/ KubeDelete(n)
      PROVE  UNCHANGED <<store, delivered, events, indexer>>
  BY <1>1, KubeType DEF informerVars, handlerVars
<1>2. ASSUME NEW n \in Namespaces, PopInitial(n) \/ Observe(n) \/ Resync(n)
      PROVE  /\ UNCHANGED <<store, delivered>>
             /\ \E m \in Namespaces : \E object :
                  Notify(m, object) /\ Event(m, indexer[m], object) \in EventRecords
  <2>1. PICK object : Notify(n, object) /\ Event(n, indexer[n], object) \in EventRecords
    BY <1>2, InformerNotifies, NotifyType
  <2>2. QED BY <1>2, <2>1 DEF PopInitial, Observe, Resync, handlerVars
<1>3. CASE List BY <1>3 DEF List, handlerVars
<1>4. CASE StartServing BY <1>4 DEF StartServing, handlerVars, informerVars
<1>5. CASE UNCHANGED vars BY <1>5 DEF vars
<1>6. QED BY <1>1, <1>2, <1>3, <1>4, <1>5 DEF Next

\* The notifications of each namespace chain: the old object of each is the new
\* object of the one before, down to what the handler saw last. Holds whatever
\* the labels are; HandleNamespaceUpdate and HandleNamespaceDelete rely on it
\* when they look up the environment by the old name.
THEOREM EventsChained == SafetySpec => []EventChain
<1>1. Init => EventChain
  BY DEF Init, EventChain, ReportedBefore, Nowhere
<1>2. EventChain /\ TypeOK /\ [Next]_vars => EventChain'
  <2> SUFFICES ASSUME EventChain, TypeOK, [Next]_vars PROVE EventChain'
    OBVIOUS
  <2>1. CASE Handle BY <2>1, ChainHandle
  <2>2. CASE Restart BY <2>2 DEF Restart, EventChain, ReportedBefore, Nowhere
  <2>3. ASSUME NEW n \in Namespaces, NEW object,
               Notify(n, object), Event(n, indexer[n], object) \in EventRecords,
               UNCHANGED <<store, delivered>>
        PROVE  EventChain'
    BY <2>3, ChainNotify
  <2>4. CASE UNCHANGED <<store, delivered, events, indexer>>
    BY <2>4 DEF EventChain
  <2>5. QED BY <2>1, <2>2, <2>3, <2>4, StepEffect
<1>3. QED BY <1>1, <1>2, TypeCorrect, PTL DEF SafetySpec

\* Every step preserves the inductive invariant.
LEMMA Inductive ==
  ASSUME Empty \notin Labels, IInv, TypeOK', [Next]_vars
  PROVE  IInv'
<1> USE DEF IInv
<1>1. CASE Handle
  <2> DEFINE event == Head(events)
  <2>1. /\ event \in EventRecords /\ event.old = delivered[event.ns] /\ EventChain'
    BY <1>1, ChainHandle
  <2>2. /\ store' = Handled(store, event).store
        /\ delivered' = [delivered EXCEPT ![event.ns] = event.new]
        /\ delivered \in ObjectOrAbsent /\ WellNamed(delivered)
    BY <1>1 DEF Handle, TypeOK
  <2>3. /\ event.ns \in Namespaces
        /\ event.new # Absent => event.new \in Objects /\ event.new.Name = event.ns
    BY <2>1, EventFields
  <2>4. GhostFree(store.env, delivered) /\ Exported(store)
    BY StoreProperties
  <2> HIDE DEF event
  <2>5. News(store.env, store'.env, event.ns, event.old, event.new)
    BY <2>1, <2>2, <2>4, HandledNews
  <2>6. GhostFree(store'.env, delivered')
    BY <2>1, <2>2, <2>3, <2>4, <2>5, NewsGhostFree
  <2>7. Exported(store')
    BY <2>1, <2>2, <2>4, HandledExported
  <2>8. NoGhosts' /\ InfoMatchesStore'
    BY <2>6, <2>7
       DEF NoGhosts, GhostFree, Announces, ListsExactly, InfoMatchesStore, Exported
  <2>9. QED BY <2>1, <2>8
<1>2. CASE Restart
  <2>1. /\ store' = NewStore /\ events' = << >> /\ indexer' = Nowhere /\ delivered' = Nowhere
    BY <1>2 DEF Restart
  <2>2. NoGhosts'
    BY <2>1 DEF NoGhosts, NewStore
  <2>3. InfoMatchesStore'
    BY <2>1 DEF InfoMatchesStore, NewStore, GetAllEnvironments
  <2>4. EventChain'
    BY <2>1 DEF EventChain, ReportedBefore, Nowhere
  <2>5. QED BY <2>2, <2>3, <2>4
<1>3. ASSUME NEW n \in Namespaces, NEW object,
             Notify(n, object), Event(n, indexer[n], object) \in EventRecords,
             UNCHANGED <<store, delivered>>
      PROVE  IInv'
  <2>1. EventChain'
    BY <1>3, ChainNotify
  <2>2. NoGhosts' /\ InfoMatchesStore'
    BY <1>3 DEF NoGhosts, Announces, ListsExactly, InfoMatchesStore
  <2>3. QED BY <2>1, <2>2
<1>4. CASE UNCHANGED <<store, delivered, events, indexer>>
  BY <1>4 DEF EventChain, NoGhosts, Announces, ListsExactly, InfoMatchesStore
<1>5. QED BY <1>1, <1>2, <1>3, <1>4, StepEffect

\* The inductive invariant holds initially.
LEMMA InitIInv ==
  ASSUME Init, TypeOK
  PROVE  IInv
<1>1. NoGhosts
  BY DEF Init, NoGhosts, NewStore
<1>2. InfoMatchesStore
  BY DEF Init, InfoMatchesStore, NewStore, GetAllEnvironments
<1>3. EventChain
  BY DEF Init, EventChain, ReportedBefore, Nowhere
<1>4. QED BY <1>1, <1>2, <1>3 DEF IInv

\* The invariant of discovery, when no environment has an empty name.
THEOREM Invariance ==
  ASSUME Empty \notin Labels
  PROVE  SafetySpec => []IInv
<1>1. SafetySpec => []TypeOK
  BY TypeCorrect
<1>2. Init /\ TypeOK => IInv
  BY InitIInv
<1>3. IInv /\ TypeOK' /\ [Next]_vars => IInv'
  BY Inductive
<1>4. QED BY <1>1, <1>2, <1>3, PTL DEF SafetySpec

\* Whatever renames, re-creations, duplicates and invalid environments come,
\* an entry of the store is the environment its namespace was last reported
\* to be, under its present name (UpdateEnvironment, addEnvironment).
THEOREM StoreHasNoGhosts ==
  ASSUME Empty \notin Labels
  PROVE  SafetySpec => []NoGhosts
<1>1. IInv => NoGhosts
  BY DEF IInv
<1>2. QED BY <1>1, Invariance, PTL

\* The series of the gauge ephemeralenv_environment_info are those of the
\* stored environments (addEnvironment, deleteEnvironment).
THEOREM InfoFollowsStore ==
  ASSUME Empty \notin Labels
  PROVE  SafetySpec => []InfoMatchesStore
<1>1. IInv => InfoMatchesStore
  BY DEF IInv
<1>2. QED BY <1>1, Invariance, PTL

\* GetEnvironmentByNamespace has one environment to return at most, so the
\* random order of its iteration never shows.
THEOREM LookupByNamespace ==
  ASSUME Empty \notin Labels
  PROVE  SafetySpec => []LookupByNamespaceDeterministic
<1>1. IInv => LookupByNamespaceDeterministic
  <2> SUFFICES ASSUME IInv, NEW n \in Namespaces
               PROVE  Cardinality(EnvironmentsByNamespace(store, n)) <= 1
    BY DEF LookupByNamespaceDeterministic
  <2>1. EnvironmentsByNamespace(store, n) \subseteq {EnvironmentOf(delivered[n])}
    BY DEF IInv, NoGhosts, ListsExactly, EnvironmentsByNamespace, GetAllEnvironments
  <2>2. IsFiniteSet({EnvironmentOf(delivered[n])}) /\ Cardinality({EnvironmentOf(delivered[n])}) = 1
    BY FS_Singleton
  <2>3. QED BY <2>1, <2>2, FS_Subset
<1>2. QED BY <1>1, Invariance, PTL

\* Discovery implements the directory: each notification handled changes the
\* listing as Directory!Tell allows, a restart forgets everything, and no
\* other step shows.
THEOREM DirectoryImplemented ==
  ASSUME Empty \notin Labels
  PROVE  SafetySpec => ImplementsDirectory
<1>1. Init => AbstractDirectory!Init
  BY DEF Init, AbstractDirectory!Init, Nowhere, NewStore
<1>2. IInv /\ [Next]_vars => [AbstractDirectory!Next]_(AbstractDirectory!dirVars)
  <2> SUFFICES ASSUME IInv, [Next]_vars
               PROVE  [AbstractDirectory!Next]_(AbstractDirectory!dirVars)
    OBVIOUS
  <2>1. CASE Handle
    <3> DEFINE event == Head(events)
    <3>1. /\ event \in EventRecords /\ event.old = delivered[event.ns]
          /\ store' = Handled(store, event).store
          /\ delivered' = [delivered EXCEPT ![event.ns] = event.new]
          /\ delivered \in ObjectOrAbsent /\ WellNamed(delivered)
      BY <2>1, ChainHandle DEF IInv, Handle, TypeOK
    <3>2. event.ns \in Namespaces /\ event.new \in Objects \cup {Absent}
      BY <3>1, EventFields
    <3> HIDE DEF event
    <3>3. News(store.env, store'.env, event.ns, delivered[event.ns], event.new)
      BY <3>1, HandledNews, StoreProperties DEF IInv
    <3>4. AbstractDirectory!Tell(event.ns, event.new)
      BY <3>1, <3>3
         DEF News, AbstractDirectory!Tell, AbstractDirectory!OnlyNews,
             AbstractDirectory!OnlyOwnNameWithdrawn, AbstractDirectory!AnnouncedName,
             AbstractDirectory!ValidNewsListed
    <3>5. QED BY <3>2, <3>4 DEF AbstractDirectory!Next
  <2>2. CASE Restart
    BY <2>2 DEF Restart, Nowhere, NewStore, AbstractDirectory!Next, AbstractDirectory!Forget
  <2>3. CASE UNCHANGED <<store, delivered>>
    BY <2>3 DEF AbstractDirectory!dirVars
  <2>4. QED BY <2>1, <2>2, <2>3, StepEffect DEF IInv
<1>3. QED BY <1>1, <1>2, Invariance, PTL
          DEF SafetySpec, ImplementsDirectory, AbstractDirectory!Spec
=============================================================================
