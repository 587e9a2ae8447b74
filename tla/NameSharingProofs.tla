------------------------- MODULE NameSharingProofs -------------------------
(***************************************************************************)
(* README.md asks for environment names that are unique across namespaces. *)
(* This module proves what that buys, in the form the service needs it: a  *)
(* name that passes to another namespace only when nothing of its last     *)
(* holder is left, neither in the informer nor in the queue nor handled.   *)
(* Then no event of one namespace ever costs another its entry.            *)
(*                                                                         *)
(* The argument: only the API server gives a namespace a new name, all     *)
(* other steps pass on objects that are there already (OnlyCluster);       *)
(* so the names of two namespaces stay apart, and the handler of a         *)
(* notification sets or removes no entry but those under the names in it   *)
(* (HandledEntries).  This holds for any labels, the empty one included.   *)
(*                                                                         *)
(* With the chain of notifications this says what a server that answers    *)
(* has listed (ServedIsListedOrQueued), and that nothing but the queue is  *)
(* between the cluster and the store (SettledMirrorsCluster).              *)
(***************************************************************************)
EXTENDS DiscoveryProofs

\* An environment has the fields of the Go type, no more and no fewer.
WholeEnvironment(e) ==
  e = [Name         |-> e.Name,
       CreatedAt    |-> e.CreatedAt,
       Namespace    |-> e.Namespace,
       URL          |-> e.URL,
       StatusChecks |-> e.StatusChecks,
       MetaProbes   |-> e.MetaProbes]

Whole(env) == \A name \in DOMAIN env : WholeEnvironment(env[name])

SeparateInv ==
  /\ Whole(store.env)
  /\ separate => Apart
  /\ NothingLost

\* A step of the informer, of the handler or of the service remembers no
\* object of a namespace that was not remembered before.
LEMMA OnlyCluster ==
  ASSUME TypeOK, [Next]_vars,
         ~ \E n \in Namespaces : KubeCreate(n) \/ KubeUpdate(n) \/ KubeDelete(n)
  PROVE  \A n \in Namespaces : Remembered(n)' \subseteq Remembered(n) \cup {Absent}
<1> SUFFICES ASSUME NEW n \in Namespaces
             PROVE  Remembered(n)' \subseteq Remembered(n) \cup {Absent}
  OBVIOUS
<1>1. ASSUME NEW m \in Namespaces, PopInitial(m) \/ Observe(m) \/ Resync(m)
      PROVE  Remembered(n)' \subseteq Remembered(n) \cup {Absent}
  <2>1. PICK object \in {initial[m], cluster[m], indexer[m]} : Notify(m, object)
    BY <1>1 DEF PopInitial, Observe, Resync
  <2>2. /\ UNCHANGED <<cluster, delivered>>
        /\ initial'[n] \in {initial[n], Absent}
        /\ indexer'[n] \in {indexer[n], initial[n], cluster[n]}
    BY <1>1, <2>1 DEF PopInitial, Observe, Resync, Notify, TypeOK, ObjectOrAbsent, handlerVars
  <2>3. ASSUME NEW i \in Pending(n)'
        PROVE  {events'[i].old, events'[i].new} \subseteq Remembered(n)
    <3>1. /\ events \in Seq(EventRecords)
          /\ events' = Append(events, Event(m, indexer[m], object))
          /\ i \in 1..Len(events') /\ events'[i].ns = n
      BY <2>1, <2>3 DEF Notify, TypeOK, Pending
    <3>2. CASE i <= Len(events)
      <4>1. i \in Pending(n) /\ events'[i] = events[i]
        BY <3>1, <3>2 DEF Pending
      <4>2. QED BY <4>1 DEF Remembered
    <3>3. CASE i = Len(events) + 1
      <4>1. m = n /\ events'[i].old = indexer[n] /\ events'[i].new = object
        BY <3>1, <3>3 DEF Event
      <4>2. QED BY <2>1, <4>1 DEF Remembered
    <3>4. QED BY <3>1, <3>2, <3>3
  <2>4. QED BY <2>2, <2>3 DEF Remembered
<1>2. CASE List
  BY <1>2 DEF List, handlerVars, Remembered, Pending
<1>3. CASE Handle
  <2>1. /\ events \in Seq(EventRecords) /\ events # << >> /\ events' = Tail(events)
        /\ delivered \in ObjectOrAbsent
        /\ delivered' = [delivered EXCEPT ![Head(events).ns] = Head(events).new]
        /\ UNCHANGED <<cluster, initial, indexer>>
    BY <1>3 DEF Handle, TypeOK, informerVars
  <2>2. delivered'[n] \in Remembered(n)
    <3>1. CASE Head(events).ns = n
      <4>1. 1 \in Pending(n) /\ delivered'[n] = events[1].new
        BY <2>1, <3>1 DEF Pending, ObjectOrAbsent
      <4>2. QED BY <4>1 DEF Remembered
    <3>2. CASE Head(events).ns # n
      BY <2>1, <3>2 DEF Remembered, ObjectOrAbsent
    <3>3. QED BY <3>1, <3>2
  <2>3. ASSUME NEW i \in Pending(n)'
        PROVE  {events'[i].old, events'[i].new} \subseteq Remembered(n)
    <3>1. i + 1 \in Pending(n) /\ events'[i] = events[i + 1]
      BY <2>1, <2>3 DEF Pending
    <3>2. QED BY <3>1 DEF Remembered
  <2>4. {cluster[n], initial[n], indexer[n]}' \subseteq Remembered(n)
    BY <2>1 DEF Remembered
  <2>5. QED BY <2>2, <2>3, <2>4 DEF Remembered
<1>4. CASE StartServing \/ UNCHANGED vars
  BY <1>4 DEF StartServing, vars, informerVars, handlerVars, Remembered, Pending
<1>5. CASE Restart
  BY <1>5 DEF Restart, Nowhere, Remembered, Pending
<1>6. QED BY <1>1, <1>2, <1>3, <1>4, <1>5 DEF Next

\* Names that were shared once count as shared for good.
LEMMA SeparateBefore ==
  ASSUME [Next]_vars, separate'
  PROVE  separate
BY DEF Next, KubeCreate, KubeUpdate, KubeDelete, KubeSet, PopInitial, Observe, Resync,
       List, Handle, StartServing, Restart, vars

\* The names of namespaces stay apart as long as none is shared.
LEMMA ApartInductive ==
  ASSUME TypeOK, Apart, [Next]_vars, separate'
  PROVE  Apart'
<1>1. ASSUME NEW n \in Namespaces, KubeCreate(n) \/ KubeUpdate(n) \/ KubeDelete(n)
      PROVE  Apart'
  <2>1. PICK object :
          /\ cluster' = [cluster EXCEPT ![n] = object]
          /\ object # Absent => NameFree(n, object.Label)
    <3>1. CASE KubeCreate(n)
      BY <3>1 DEF KubeCreate, KubeSet
    <3>2. CASE KubeUpdate(n)
      <4>1. PICK label \in Labels, annotations \in AnnotationSets :
              KubeSet(n, [cluster[n] EXCEPT !.Label = label, !.Annotations = annotations])
        BY <3>2 DEF KubeUpdate
      <4>2. QED BY <4>1 DEF KubeSet
    <3>3. CASE KubeDelete(n)
      BY <3>3 DEF KubeDelete, KubeSet
    <3>4. QED BY <1>1, <3>1, <3>2, <3>3
  <2>2. UNCHANGED <<initial, indexer, delivered, events>>
    BY <1>1, KubeType DEF informerVars, handlerVars
  <2>3. \A m \in Namespaces \ {n} : Claims(m)' = Claims(m)
    BY <2>1, <2>2 DEF Claims, Remembered, Pending, TypeOK, ObjectOrAbsent
  <2>4. \A label \in Claims(n)' :
          label \in Claims(n) \/ (object # Absent /\ label = object.Label)
    BY <2>1, <2>2 DEF Claims, Remembered, Pending, TypeOK, ObjectOrAbsent
  <2>5. \A m \in Namespaces \ {n} : Claims(n)' \cap Claims(m)' = {}
    BY <2>1, <2>3, <2>4 DEF Apart, NameFree
  <2>6. QED BY <2>3, <2>5 DEF Apart
<1>2. CASE ~ \E n \in Namespaces : KubeCreate(n) \/ KubeUpdate(n) \/ KubeDelete(n)
  <2>1. \A n \in Namespaces : Claims(n)' \subseteq Claims(n)
    BY <1>2, OnlyCluster DEF Claims
  <2>2. QED BY <2>1 DEF Apart
<1>3. QED BY <1>1, <1>2

\* An update in place leaves an environment, and the one it is given, if that is
\* valid.
LEMMA WholeUpdate ==
  ASSUME NEW c, WholeEnvironment(c), NEW e
  PROVE  /\ WholeEnvironment(UpdatedEnvironment(c, e))
         /\ WholeEnvironment(e) /\ IsValid(e) /\ ~ImmutableFieldChanged(c, e) =>
              UpdatedEnvironment(c, e) = e
<1> DEFINE u == UpdatedEnvironment(c, e)
<1>1. u = [Name |-> c.Name, CreatedAt |-> c.CreatedAt, Namespace |-> c.Namespace,
           URL |-> Given(e.URL, c.URL), StatusChecks |-> Given(e.StatusChecks, c.StatusChecks),
           MetaProbes |-> Given(e.MetaProbes, c.MetaProbes)]
  <2>1. /\ DOMAIN c = {"Name", "CreatedAt", "Namespace", "URL", "StatusChecks", "MetaProbes"}
        /\ c = [k \in DOMAIN c |-> c[k]]
    BY DEF WholeEnvironment
  <2>2. u = [c EXCEPT !.URL = Given(e.URL, c.URL),
                      !.StatusChecks = Given(e.StatusChecks, c.StatusChecks),
                      !.MetaProbes = Given(e.MetaProbes, c.MetaProbes)]
    BY <2>1 DEF UpdatedEnvironment
  <2>3. QED BY <2>1, <2>2
<1>2. WholeEnvironment(u)
  BY <1>1 DEF WholeEnvironment
<1>3. ASSUME WholeEnvironment(e), IsValid(e), ~ImmutableFieldChanged(c, e)
      PROVE  u = e
  <2>1. c.Name = e.Name /\ c.Namespace = e.Namespace /\ c.CreatedAt = e.CreatedAt
    BY <1>3 DEF IsValid, ImmutableFieldChanged
  <2>2. e.URL # Nil /\ e.StatusChecks # Nil /\ e.MetaProbes # Nil
    BY <1>3 DEF IsValid, WellFormedMap
  <2>3. QED BY <1>1, <1>3, <2>1, <2>2 DEF Given, WholeEnvironment
<1>4. QED BY <1>2, <1>3

\* The handler of a notification sets the entry of what it is told, if that is
\* valid, and leaves all entries but those under the names in the notification:
\* whatever else is in the store, an entry under the wrong name included.
LEMMA HandledEntries ==
  ASSUME NEW s, Whole(s.env), NEW event \in EventRecords
  PROVE  LET s2 == Handled(s, event).store
             e  == EnvironmentOf(event.new) IN
           /\ Whole(s2.env)
           /\ event.new # Absent /\ IsValid(e) =>
                event.new.Label \in DOMAIN s2.env /\ s2.env[event.new.Label] = e
           /\ \A k \in DOMAIN s.env :
                \/ \E object \in {event.old, event.new} \ {Absent} : k = object.Label
                \/ k \in DOMAIN s2.env /\ s2.env[k] = s.env[k]
<1> DEFINE e    == EnvironmentOf(event.new)
           name == event.old.Label
           s2   == Handled(s, event).store
           c    == deleteEnvironment(s, name).store
           Kept(env) == \A k \in DOMAIN s.env :
                          \/ \E object \in {event.old, event.new} \ {Absent} : k = object.Label
                          \/ k \in DOMAIN env /\ env[k] = s.env[k]
<1>1. e.Name = event.new.Label /\ WholeEnvironment(e)
  BY DEF EnvironmentOf, WholeEnvironment
<1>2. DOMAIN c.env = DOMAIN s.env \ {name} /\ \A k \in DOMAIN c.env : c.env[k] = s.env[k]
  BY DeleteEffect
<1>3. Whole(c.env) /\ (event.old # Absent => Kept(c.env))
  BY <1>2 DEF Whole
<1> SUFFICES /\ Whole(s2.env)
             /\ event.new # Absent /\ IsValid(e) => e.Name \in DOMAIN s2.env /\ s2.env[e.Name] = e
             /\ Kept(s2.env)
  BY <1>1
<1> HIDE DEF c, e, s2
<1>4. ASSUME NEW s1, Whole(s1.env), Kept(s1.env), s2 = addEnvironment(s1, e).store,
             event.new # Absent
      PROVE  /\ Whole(s2.env)
             /\ IsValid(e) => e.Name \in DOMAIN s2.env /\ s2.env[e.Name] = e
             /\ Kept(s2.env)
  <2>1. /\ IsValid(e) => /\ DOMAIN s2.env = DOMAIN s1.env \cup {e.Name}
                         /\ s2.env[e.Name] = e
                         /\ \A k \in DOMAIN s1.env \ {e.Name} : s2.env[k] = s1.env[k]
        /\ ~IsValid(e) => s2 = s1
    BY <1>4, AddEffect
  <2>2. QED BY <1>1, <1>4, <2>1 DEF Whole
<1>5. CASE event.old = Absent
  <2>1. s2 = addEnvironment(s, e).store /\ event.new # Absent
    BY <1>5, EventFields DEF s2, e, Handled, HandleNamespaceAdd, AddEnvironment
  <2>2. QED BY <1>4, <2>1
<1>6. CASE event.old # Absent /\ event.new = Absent
  <2>1. s2 = c
    BY <1>6 DEF s2, c, Handled, HandleNamespaceDelete, DeleteEnvironment
  <2>2. QED BY <1>3, <1>6, <2>1
<1>7. CASE event.old # Absent /\ event.new # Absent
  <2>1. s2 = UpdateEnvironment(s, name, e).store
    BY <1>7 DEF s2, e, Handled, HandleNamespaceUpdate
  <2>2. CASE s2 = addEnvironment(s, e).store
    BY <1>4, <1>7, <2>2
  <2>3. CASE s2 = addEnvironment(c, e).store
    BY <1>3, <1>4, <1>7, <2>3
  <2>4. CASE /\ name \in DOMAIN s.env
             /\ ~ImmutableFieldChanged(s.env[name], e)
             /\ DOMAIN s2.env = DOMAIN s.env \cup {e.Name}
             /\ s2.env[e.Name] = UpdatedEnvironment(s.env[name], e)
             /\ \A k \in DOMAIN s.env \ {e.Name} : s2.env[k] = s.env[k]
    <3>1. WholeEnvironment(s.env[name])
      BY <2>4 DEF Whole
    <3>2. WholeEnvironment(UpdatedEnvironment(s.env[name], e))
      BY <3>1, WholeUpdate
    <3>3. IsValid(e) => UpdatedEnvironment(s.env[name], e) = e
      BY <1>1, <2>4, <3>1, WholeUpdate
    <3>4. QED BY <1>1, <1>7, <2>4, <3>2, <3>3 DEF Whole
  <2>5. QED BY <2>1, <2>2, <2>3, <2>4, UpdateEffect DEF c
<1>8. QED BY <1>5, <1>6, <1>7

\* Handling an event keeps the entries of the others, when their names are apart.
LEMMA HandlingLosesNothing ==
  ASSUME TypeOK, Whole(store.env), Apart, separate, NothingLost, Handle
  PROVE  NothingLost'
<1> DEFINE event == Head(events)
           n     == event.ns
<1>1. /\ event \in EventRecords /\ n \in Namespaces
      /\ store' = Handled(store, event).store
      /\ delivered' = [delivered EXCEPT ![n] = event.new]
      /\ delivered \in ObjectOrAbsent
  BY EventFields DEF Handle, TypeOK
<1>2. 1 \in Pending(n) /\ event = events[1]
  BY DEF TypeOK, Handle, Pending
<1>3. \A object \in {event.old, event.new} \ {Absent} : object.Label \in Claims(n)
  BY <1>2 DEF Claims, Remembered
<1> HIDE DEF event, n
<1>4. /\ event.new # Absent /\ IsValid(EnvironmentOf(event.new)) =>
           /\ event.new.Label \in DOMAIN store'.env
           /\ store'.env[event.new.Label] = EnvironmentOf(event.new)
      /\ \A k \in DOMAIN store.env :
           \/ \E object \in {event.old, event.new} \ {Absent} : k = object.Label
           \/ k \in DOMAIN store'.env /\ store'.env[k] = store.env[k]
  BY <1>1, HandledEntries
<1> SUFFICES ASSUME NEW m \in Namespaces, delivered'[m] # Absent,
                    IsValid(EnvironmentOf(delivered'[m]))
             PROVE  /\ delivered'[m].Label \in DOMAIN store.env'
                    /\ store.env'[delivered'[m].Label] = EnvironmentOf(delivered'[m])
  BY DEF NothingLost, Valid, Announces, ListsExactly
<1>5. CASE m = n
  BY <1>1, <1>4, <1>5 DEF ObjectOrAbsent
<1>6. CASE m # n
  <2> DEFINE label == delivered[m].Label
  <2>1. delivered'[m] = delivered[m]
    BY <1>1, <1>6 DEF ObjectOrAbsent
  <2>2. label \in DOMAIN store.env /\ store.env[label] = EnvironmentOf(delivered[m])
    BY <2>1 DEF NothingLost, Valid, Announces, ListsExactly
  <2>3. label \in Claims(m)
    BY <2>1 DEF Claims, Remembered
  <2>4. label \notin Claims(n)
    BY <1>1, <1>6, <2>3 DEF Apart
  <2>5. label \in DOMAIN store'.env /\ store'.env[label] = store.env[label]
    BY <1>3, <1>4, <2>2, <2>4
  <2>6. QED BY <2>1, <2>2, <2>5
<1>7. QED BY <1>5, <1>6

\* Every step preserves the invariant.
LEMMA SeparateInductive ==
  ASSUME TypeOK, SeparateInv, [Next]_vars
  PROVE  SeparateInv'
<1>1. separate' => separate /\ Apart'
  BY SeparateBefore, ApartInductive DEF SeparateInv
<1>2. CASE Handle
  <2>1. separate' => NothingLost'
    BY <1>1, <1>2, HandlingLosesNothing DEF SeparateInv
  <2>2. Head(events) \in EventRecords /\ store' = Handled(store, Head(events)).store
    BY <1>2 DEF Handle, TypeOK
  <2>3. Whole(store'.env)
    BY <2>2, HandledEntries DEF SeparateInv
  <2>4. QED BY <1>1, <2>1, <2>3 DEF SeparateInv, NothingLost
<1>3. CASE Restart
  BY <1>1, <1>3 DEF SeparateInv, Restart, NewStore, Nowhere, Whole, NothingLost, Valid, Announces
<1>4. CASE UNCHANGED <<store, delivered>>
  BY <1>1, <1>4 DEF SeparateInv, NothingLost, Valid, Announces, ListsExactly
<1>5. QED BY <1>2, <1>3, <1>4, StepEffect

\* As long as a name changes hands only after the service is done with its last
\* holder, the store has the environment of every namespace it was told of,
\* as long as that is valid: no deletion, rename, overwriting or refused
\* update of another namespace takes it away.  Labels may be empty: what is then
\* left over in the store (StoredUnderItsName) costs nobody an entry.
THEOREM SeparateNamesLoseNothing == SafetySpec => []NothingLost
<1>1. SafetySpec => []TypeOK
  BY TypeCorrect
<1>2. Init /\ TypeOK => SeparateInv
  <2> SUFFICES ASSUME Init, TypeOK PROVE SeparateInv
    OBVIOUS
  <2>1. Whole(store.env) /\ NothingLost
    BY DEF Init, NewStore, Whole, Nowhere, NothingLost, Valid, Announces
  <2>2. \A n \in Namespaces : Claims(n) \subseteq {object.Label : object \in {cluster[n]} \ {Absent}}
    BY DEF Init, Nowhere, Claims, Remembered, Pending
  <2>3. separate => Apart
    <3>1. ASSUME separate PROVE DistinctNames(cluster)
      BY <3>1, Zenon DEF Init
    <3>2. QED BY <2>2, <3>1 DEF Apart, DistinctNames, Announces
  <2>4. QED BY <2>1, <2>3 DEF SeparateInv
<1>3. TypeOK /\ SeparateInv /\ [Next]_vars => SeparateInv'
  BY SeparateInductive
<1>4. SeparateInv => NothingLost
  BY DEF SeparateInv
<1>5. QED BY <1>1, <1>2, <1>3, <1>4, PTL DEF SafetySpec

-----------------------------------------------------------------------------
\* The server starts when nothing of the initial list is left to pass on, and what
\* has been listed is not listed again before the process ends.
Synced == serving => listed /\ initial = Nowhere

\* Every step keeps it.
LEMMA SyncedInductive ==
  ASSUME Synced, [Next]_vars
  PROVE  Synced'
<1>1. ASSUME NEW n \in Namespaces, PopInitial(n)
      PROVE  Synced'
  <2>1. initial # Nowhere /\ serving' = serving
    BY <1>1 DEF PopInitial, Nowhere
  <2>2. QED BY <2>1 DEF Synced
<1>2. ASSUME NEW n \in Namespaces, KubeCreate(n) \/ KubeUpdate(n) \/ KubeDelete(n)
      PROVE  Synced'
  BY <1>2 DEF KubeCreate, KubeUpdate, KubeDelete, KubeSet, informerVars, Synced, Nowhere
<1>3. ASSUME NEW n \in Namespaces, Observe(n) \/ Resync(n)
      PROVE  Synced'
  BY <1>3 DEF Observe, Resync, Synced, Nowhere
<1>4. CASE List \/ Handle \/ StartServing \/ Restart \/ UNCHANGED vars
  BY <1>4 DEF List, Handle, StartServing, HasSynced, Restart, vars, informerVars, Synced, Nowhere
<1>5. QED BY <1>1, <1>2, <1>3, <1>4 DEF Next

\* A namespace with no notification in the queue was last handled with the object
\* that the informer has of it.
LEMMA NothingPending ==
  ASSUME TypeOK, EventChain, NEW n \in Namespaces, Pending(n) = {}
  PROVE  indexer[n] = delivered[n]
<1> DEFINE len == Len(events)
<1>1. len \in Nat /\ (len + 1) - 1 = len
  BY DEF TypeOK
<1>2. \A j \in 1..len : events[j].ns # n
  BY DEF Pending
<1>3. ReportedBefore(events, delivered, n, len + 1, indexer[n])
  BY DEF EventChain
<1> HIDE DEF len
<1>4. QED BY <1>1, <1>2, <1>3 DEF ReportedBefore

\* As long as names change hands only after their last holder is done with, the
\* server that answers has every valid environment that the informer has, those
\* of the initial list included, but for those with a notification in the queue:
\* although it waited for the informer's cache and not for the handler
\* (WatchNamespaceEvents, run).
THEOREM ServedIsListedOrQueued == SafetySpec => []ServedOrQueued
<1>1. SafetySpec => []Synced
  <2>1. Init => Synced
    BY DEF Init, Synced
  <2>2. QED BY <2>1, SyncedInductive, PTL DEF SafetySpec
<1>2. Synced /\ TypeOK /\ EventChain /\ NothingLost => ServedOrQueued
  <2> SUFFICES ASSUME Synced, TypeOK, EventChain, NothingLost, serving, separate, NEW n \in Namespaces,
                      Pending(n) = {}
               PROVE  LET received == IF initial[n] # Absent THEN initial ELSE indexer
                      IN  Valid(received, n) => ListsExactly(received[n].Label, received[n])
    BY DEF ServedOrQueued
  <2>1. initial[n] = Absent
    BY DEF Synced, Nowhere
  <2>2. indexer[n] = delivered[n]
    BY NothingPending
  <2>3. Valid(indexer, n) => ListsExactly(indexer[n].Label, indexer[n])
    BY <2>2 DEF NothingLost, Valid, Announces
  <2>4. QED BY <2>1, <2>3
<1>3. QED BY <1>1, <1>2, TypeCorrect, EventsChained, SeparateNamesLoseNothing, PTL

\* The informer has seen the cluster, and the handler what the informer has.
Settled == indexer = cluster /\ events = << >>

\* The part of Converges that needs no fairness: under the same condition on names,
\* whenever the pipeline has caught up with the cluster the store mirrors it, with
\* no environment missing and none left over, whatever it went through before
\* (HandleNamespaceAdd, HandleNamespaceUpdate, HandleNamespaceDelete).
THEOREM SettledMirrorsCluster ==
  ASSUME Empty \notin Labels
  PROVE  SafetySpec => [](Settled /\ separate => MirrorsCluster)
<1>1. IInv /\ NothingLost => (Settled /\ separate => MirrorsCluster)
  <2> SUFFICES ASSUME IInv, NothingLost, Settled, separate PROVE MirrorsCluster
    OBVIOUS
  <2>1. \A n \in Namespaces : Pending(n) = {}
    BY DEF Settled, Pending
  <2>2. \A n \in Namespaces : cluster[n] = delivered[n]
    BY <2>1, NothingPending DEF IInv, Settled
  <2>3. \A n \in Namespaces : Valid(cluster, n) => ListsExactly(cluster[n].Label, cluster[n])
    BY <2>2 DEF NothingLost, Valid, Announces
  <2>4. ASSUME NEW name \in DOMAIN store.env
        PROVE  LET n == store.env[name].Namespace
               IN  Announces(cluster, n) /\ ListsExactly(name, cluster[n])
    BY <2>2 DEF IInv, NoGhosts, Announces, ListsExactly
  <2>5. QED BY <2>3, <2>4 DEF MirrorsCluster
<1>2. QED BY <1>1, Invariance, SeparateNamesLoseNothing, PTL
=============================================================================
