----------------------------- MODULE Discovery -----------------------------
(***************************************************************************)
(* Discovery of environments: the Kubernetes API server, the informer of   *)
(* client-go that internal/kube sets up, the queue of notifications it     *)
(* keeps for its one handler, and the event handler that maintains the     *)
(* store (cmd/autodiscovery/events.go over internal/store).                *)
(*                                                                         *)
(* The API server and the informer are outside the repository: they are    *)
(* modelled by what internal/kube asks of them.  Of one namespace the      *)
(* informer reports the successive objects it saw, in order, each with the *)
(* object it had reported before; it may miss objects in between (a watch  *)
(* that breaks is followed by a new list), and it promises no order        *)
(* between different namespaces.  Every ten minutes it reports every       *)
(* object again.  The notifications are delivered one at a time, in the    *)
(* order of the queue, some time after the informer's own cache changed.   *)
(***************************************************************************)
EXTENDS EventHandler, Sequences, FiniteSets

CONSTANTS
  Namespaces,      \* names of Kubernetes namespaces
  Labels,          \* values the label envs.sberz.de/name takes
  CreationTimes,   \* creation timestamps
  AnnotationSets,  \* the possible Annotations of a namespace object
  Absent,          \* no such namespace, or not one with the label
  MaxChanges,      \* bound: changes of the cluster
  MaxPending,      \* bound: notifications pending for one namespace
  MaxRestarts      \* bound: restarts of the service

\* The objects the label selector of the informer matches.
Objects == [Name: Namespaces, Label: Labels, CreatedAt: CreationTimes,
            Annotations: AnnotationSets]

ASSUME SentinelsAssumption ==
  /\ Absent \notin Objects
  /\ Empty \notin Namespaces
  /\ ZeroTime \notin CreationTimes

\* A map built with make or a literal is not nil.
ASSUME BuiltMapsAssumption ==
  \A ns \in Objects :
    Nil \notin {buildURLMap(ns), buildStatusChecks(ns.Label, ns),
                buildMetadataProbes(ns.Label, ns)}

ASSUME BoundsAssumption ==
  /\ MaxChanges \in Nat
  /\ MaxPending \in Nat \ {0, 1}
  /\ MaxRestarts \in Nat

VARIABLES
  cluster,    \* the API server's objects, by namespace
  listed,     \* the informer has received its initial list
  initial,    \* objects of that list not yet in the informer's cache
  indexer,    \* the informer's cache
  events,     \* queue of notifications for the handler
  store,      \* the environment store
  serving,    \* WatchNamespaceEvents has returned, the HTTP server runs
  delivered,  \* history: the last object the handler was told of
  separate,   \* history: namespaces have shared no name, see NameFree
  changes,    \* changes of the cluster so far
  restarts    \* restarts of the service so far

informerVars == <<listed, initial, indexer>>
handlerVars  == <<store, delivered>>
vars == <<cluster, listed, initial, indexer, events, store, serving,
          delivered, separate, changes, restarts>>

(***************************************************************************)
(* What is known of each namespace: its object, or Absent.                 *)
(***************************************************************************)
ObjectOrAbsent == [Namespaces -> Objects \cup {Absent}]

Nowhere == [n \in Namespaces |-> Absent]

Announces(objects, n) == objects[n] # Absent

\* What is known of a namespace is an object of that namespace.
WellNamed(objects) ==
  \A n \in Namespaces : Announces(objects, n) => objects[n].Name = n

DistinctNames(objects) ==
  \A n, m \in Namespaces :
    n # m /\ Announces(objects, n) /\ Announces(objects, m)
      => objects[n].Label # objects[m].Label

Pending(n) == {i \in 1..Len(events) : events[i].ns = n}

\* Mutant: the last known object of a deleted namespace is dropped, as when a
\* tombstone is not unwrapped.
EventWithoutTombstone(n, old, new) ==
  [ns |-> n, old |-> IF new = Absent THEN Absent ELSE old, new |-> new]

\* What the informer reports when its cache goes from old to new.
Event(n, old, new) == [ns |-> n, old |-> old, new |-> new]

\* Mutant: the list that has arrived counts, and not what the cache has of it.
HasSyncedListed == listed

HasSynced == listed /\ initial = Nowhere

(***************************************************************************)
(* The API server.  README.md asks for environment names that are unique   *)
(* across namespaces, which nothing enforces.  They are separate as long   *)
(* as a name passes to another namespace only when the service has         *)
(* processed that its last holder gave it up.                              *)
(***************************************************************************)
\* The objects of n that the cluster, the informer or the service still has.
Remembered(n) ==
  {cluster[n], initial[n], indexer[n], delivered[n]}
    \cup UNION {{events[i].old, events[i].new} : i \in Pending(n)}

\* The names they claim.
Claims(n) == {object.Label : object \in Remembered(n) \ {Absent}}

NameFree(n, label) == \A m \in Namespaces \ {n} : label \notin Claims(m)

KubeSet(n, object) ==
  /\ changes < MaxChanges
  /\ object # cluster[n]
  /\ cluster' = [cluster EXCEPT ![n] = object]
  /\ changes' = changes + 1
  /\ separate' = (separate /\ (object # Absent => NameFree(n, object.Label)))
  /\ UNCHANGED <<informerVars, events, handlerVars, serving, restarts>>

\* A namespace is created with the label, or gets the label.
KubeCreate(n) ==
  /\ cluster[n] = Absent
  /\ \E object \in Objects :
       /\ object.Name = n
       /\ KubeSet(n, object)

\* Its label or its annotations change.
KubeUpdate(n) ==
  /\ cluster[n] # Absent
  /\ \E label \in Labels, annotations \in AnnotationSets :
       KubeSet(n, [cluster[n] EXCEPT !.Label = label, !.Annotations = annotations])

\* It is deleted, or loses the label.
KubeDelete(n) ==
  /\ cluster[n] # Absent
  /\ KubeSet(n, Absent)

(***************************************************************************)
(* The informer, from client-go: initial list, watch, periodic resync.     *)
(***************************************************************************)
Notify(n, object) ==
  /\ indexer' = [indexer EXCEPT ![n] = object]
  /\ events' = Append(events, Event(n, indexer[n], object))

List ==
  /\ ~listed
  /\ listed' = TRUE
  /\ initial' = cluster
  /\ UNCHANGED <<cluster, indexer, events, handlerVars, serving, separate, changes, restarts>>

PopInitial(n) ==
  /\ initial[n] # Absent
  /\ Notify(n, initial[n])
  /\ initial' = [initial EXCEPT ![n] = Absent]
  /\ UNCHANGED <<cluster, listed, handlerVars, serving, separate, changes, restarts>>

\* From the watch, or from the list that follows a broken watch.
Observe(n) ==
  /\ listed
  /\ initial[n] = Absent
  /\ indexer[n] # cluster[n]
  /\ Cardinality(Pending(n)) < MaxPending
  /\ Notify(n, cluster[n])
  /\ UNCHANGED <<cluster, listed, initial, handlerVars, serving, separate, changes, restarts>>

\* Mutant: the informer is built without a resync period.
ResyncNever(n) == FALSE /\ UNCHANGED vars

\* The bound leaves the watch a place: resyncs are ten minutes apart and do
\* not crowd out news.
Resync(n) ==
  /\ indexer[n] # Absent
  /\ Cardinality(Pending(n)) < MaxPending - 1
  /\ Notify(n, indexer[n])
  /\ UNCHANGED <<cluster, listed, initial, handlerVars, serving, separate, changes, restarts>>

(***************************************************************************)
(* The service.  The queue has one consumer, so handlers do not overlap;   *)
(* which handler runs depends on the objects the notification carries.     *)
(***************************************************************************)
Handled(s, event) ==
  IF event.old = Absent THEN HandleNamespaceAdd(s, event.new)
  ELSE IF event.new = Absent THEN HandleNamespaceDelete(s, event.old)
  ELSE HandleNamespaceUpdate(s, event.old, event.new)

Handle ==
  /\ events # << >>
  /\ LET event == Head(events) IN
       /\ store' = Handled(store, event).store
       /\ delivered' = [delivered EXCEPT ![event.ns] = event.new]
  /\ events' = Tail(events)
  /\ UNCHANGED <<cluster, informerVars, serving, separate, changes, restarts>>

\* WatchNamespaceEvents returns when WaitForCacheSync does, which waits for
\* the informer's cache and not for the handler; run then starts the server.
StartServing ==
  /\ HasSynced
  /\ ~serving
  /\ serving' = TRUE
  /\ UNCHANGED <<cluster, informerVars, events, handlerVars, separate, changes, restarts>>

\* Nothing is persisted: a restarted process has none of its state.
Restart ==
  /\ restarts < MaxRestarts
  /\ restarts' = restarts + 1
  /\ listed' = FALSE
  /\ initial' = Nowhere
  /\ indexer' = Nowhere
  /\ events' = << >>
  /\ store' = NewStore
  /\ delivered' = Nowhere
  /\ serving' = FALSE
  /\ UNCHANGED <<cluster, separate, changes>>

(***************************************************************************)
(* Specification.  The service starts against a cluster in any state.      *)
(***************************************************************************)
Init ==
  /\ cluster \in ObjectOrAbsent
  /\ WellNamed(cluster)
  /\ separate = DistinctNames(cluster)
  /\ listed = FALSE
  /\ initial = Nowhere
  /\ indexer = Nowhere
  /\ events = << >>
  /\ store = NewStore
  /\ serving = FALSE
  /\ delivered = Nowhere
  /\ changes = 0
  /\ restarts = 0

Next ==
  \/ \E n \in Namespaces :
       \/ KubeCreate(n) \/ KubeUpdate(n) \/ KubeDelete(n)
       \/ PopInitial(n) \/ Observe(n) \/ Resync(n)
  \/ List
  \/ Handle
  \/ StartServing
  \/ Restart

\* The informer runs until the process ends: it delivers its list, follows
\* the watch, and resyncs again and again; its one consumer keeps up.
Fairness ==
  /\ WF_vars(List)
  /\ WF_vars(Handle)
  /\ WF_vars(StartServing)
  /\ \A n \in Namespaces :
       WF_vars(PopInitial(n)) /\ WF_vars(Observe(n)) /\ WF_vars(Resync(n))

SafetySpec == Init /\ [][Next]_vars
Spec == SafetySpec /\ Fairness

-----------------------------------------------------------------------------
(***************************************************************************)
(* Properties                                                              *)
(***************************************************************************)
EventRecords ==
  {event \in [ns: Namespaces, old: Objects \cup {Absent}, new: Objects \cup {Absent}] :
     /\ event.old # Absent \/ event.new # Absent
     /\ event.old # Absent => event.old.Name = event.ns
     /\ event.new # Absent => event.new.Name = event.ns}

\* Type invariant of the informer, the queue, the store and the counters.
TypeOK ==
  /\ cluster \in ObjectOrAbsent   /\ WellNamed(cluster)
  /\ initial \in ObjectOrAbsent   /\ WellNamed(initial)
  /\ indexer \in ObjectOrAbsent   /\ WellNamed(indexer)
  /\ delivered \in ObjectOrAbsent /\ WellNamed(delivered)
  /\ events \in Seq(EventRecords)
  /\ DOMAIN store.env \subseteq Labels
  /\ listed \in BOOLEAN /\ serving \in BOOLEAN
  /\ separate \in BOOLEAN
  /\ changes \in 0..MaxChanges /\ restarts \in 0..MaxRestarts

\* object is what namespace n was reported to be just before position i of the
\* queue: by the last of its notifications before i, or, without any, by the
\* last one handled.
ReportedBefore(queue, handled, n, i, object) ==
  \/ /\ object = handled[n]
     /\ \A j \in 1..(i - 1) : queue[j].ns # n
  \/ \E j \in 1..(i - 1) :
       /\ queue[j].ns = n
       /\ queue[j].new = object
       /\ \A k \in (j + 1)..(i - 1) : queue[k].ns # n

\* Each notification starts from the object the previous one of its namespace
\* ended with, and the informer's cache holds what the last one ended with:
\* what the handlers rely on when they look up the environment by the old name.
EventChain ==
  /\ \A i \in 1..Len(events) :
       ReportedBefore(events, delivered, events[i].ns, i, events[i].old)
  /\ \A n \in Namespaces :
       ReportedBefore(events, delivered, n, Len(events) + 1, indexer[n])

ListsExactly(name, object) ==
  name \in DOMAIN store.env /\ store.env[name] = EnvironmentOf(object)

Valid(objects, n) == Announces(objects, n) /\ IsValid(EnvironmentOf(objects[n]))

\* No ghosts: whatever renames, re-creations, duplicates and failed updates
\* came before, an entry of the store is the environment that the namespace
\* it names was last reported to be, under its present name
\* (Store.UpdateEnvironment, the re-adding branch above all).  Holds when no
\* label is empty.
NoGhosts ==
  \A name \in DOMAIN store.env :
    LET n == store.env[name].Namespace IN
      /\ n \in Namespaces
      /\ Announces(delivered, n)
      /\ name = delivered[n].Label
      /\ ListsExactly(name, delivered[n])

\* A lookup by namespace has at most one environment to find, so the order in
\* which GetEnvironmentByNamespace walks the map, which Go randomises, never
\* shows: a rename removes the entry under the old name in the same step.
LookupByNamespaceDeterministic ==
  \A n \in Namespaces : Cardinality(EnvironmentsByNamespace(store, n)) <= 1

\* The gauge ephemeralenv_environment_info exports one series per stored
\* environment and no other, although overwriting, deleting and re-adding
\* each maintain it on a path of their own.
InfoMatchesStore ==
  store.envInfo = {InfoLabels(e) : e \in GetAllEnvironments(store)}

\* The names of two namespaces are apart at every stage of the pipeline: in
\* the cluster, in the informer, in the queue and in what was handled.
Apart ==
  \A n, m \in Namespaces : n # m => Claims(n) \cap Claims(m) = {}

\* As long as names change hands only after the service has seen their last holder
\* give them up, no valid environment the service was told of is missing, at
\* any time: no event of one namespace costs another its entry.
NothingLost ==
  separate => \A n \in Namespaces :
    Valid(delivered, n) => ListsExactly(delivered[n].Label, delivered[n])

\* When the server answers, all that the informer has received is in the store, or
\* on its way there: of the initial list too, an environment is missing only while a
\* notification of it waits for its handler (kubernetes.go WaitForCacheSync,
\* main.go run).
ServedOrQueued ==
  serving /\ separate => \A n \in Namespaces :
    LET received == IF initial[n] # Absent THEN initial ELSE indexer
    IN  Valid(received, n) =>
          Pending(n) # {} \/ ListsExactly(received[n].Label, received[n])

\* Delivering a notification is a step of the directory the service promises.
AbstractDirectory == INSTANCE Directory WITH told <- delivered, listing <- store.env

ImplementsDirectory == AbstractDirectory!Spec

\* The store lists the cluster: every valid environment, and nothing that is
\* not there.
MirrorsCluster ==
  /\ \A n \in Namespaces :
       Valid(cluster, n) => ListsExactly(cluster[n].Label, cluster[n])
  /\ \A name \in DOMAIN store.env :
       LET n == store.env[name].Namespace IN
         Announces(cluster, n) /\ ListsExactly(name, cluster[n])

\* Once the cluster stops changing with distinct names, the store comes to
\* mirror it and stays so, however many namespaces shared names before: the
\* resync repairs what deletions by name took away.
Converges == <>[](DistinctNames(cluster) => MirrorsCluster)

\* Even a name that namespaces keep sharing is in the end never missing,
\* provided none of them describes an invalid environment.
ContestedNamesListed ==
  <>[]( \A n \in Namespaces :
          (/\ Announces(cluster, n)
           /\ \A m \in Namespaces :
                Announces(cluster, m) /\ cluster[m].Label = cluster[n].Label
                  => Valid(cluster, m))
            => cluster[n].Label \in DOMAIN store.env )

-----------------------------------------------------------------------------
(***************************************************************************)
(* What the source says and the code does not keep.                        *)
(***************************************************************************)
\* store.go: "GetEnvironment retrieves an environment by its name", and
\* environment.go: "Name must be non-empty".
StoredUnderItsName ==
  \A name \in DOMAIN store.env : name # Empty /\ store.env[name].Name = name
=============================================================================
