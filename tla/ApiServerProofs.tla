--------------------------- MODULE ApiServerProofs --------------------------
(***************************************************************************)
(* Theorems about the HTTP API beside the event handler, for every set of  *)
(* namespaces, calls, queries and requests.  Those that compare an answer  *)
(* with the store are for labels that are not empty: under the empty name  *)
(* the store may keep an entry that bears another one (StoredUnderItsName  *)
(* of Discovery), and then there are two of one namespace.                 *)
(*                                                                         *)
(* The argument: the handler keeps the store a listing of the objects it   *)
(* was told of, one entry for each namespace (Listing), so that what a     *)
(* request copies, and what it goes over while it holds the read lock, is  *)
(* what one state of the store has in its scope (Sourced).  Each entry it  *)
(* has visited is in its answer with all the probes it wants of it, called *)
(* or still to be called, or has failed the filter (Visiting, Resolving),  *)
(* and none is left to call when it responds.                              *)
(*                                                                         *)
(* That nobody waits in a circle follows from who holds which lock: the    *)
(* holder of a bulk query asks and can go on, the holder of an executor    *)
(* asks or waits for a bulk query, and a reader of the store for either.   *)
(***************************************************************************)
EXTENDS ApiServer, EnvironmentStoreProofs, TLAPS

ObjectOrAbsent == [Namespaces -> Objects \cup {Absent}]

\* What is known of a namespace is an object of that namespace.
WellNamed(d) == \A n \in Namespaces : d[n] # Absent => d[n].Name = n

\* Each entry is that of an object in d.
ListingOf(env, d) ==
  \A name \in DOMAIN env : \E n \in Namespaces :
    d[n] # Absent /\ name = d[n].Label /\ env[name] = EnvironmentOf(d[n])

\* What the store knows of each namespace: not yet the event under way.
Known ==
  IF stage = "idle" THEN delivered ELSE [delivered EXCEPT ![Subject] = event.old]

Listing ==
  /\ delivered \in ObjectOrAbsent /\ WellNamed(delivered)
  /\ event \in [old: Objects \cup {Absent}, new: Objects \cup {Absent}]
  /\ stage \in {"idle", "build", "lock", "waiting"}
  /\ stage # "idle" =>
       /\ event.old # Absent \/ event.new # Absent
       /\ event.old # Absent => event.old.Name = Subject
       /\ delivered[Subject] = event.new
  /\ ListingOf(store.env, Known)
  /\ store.envInfo \subseteq Labels \X Namespaces

-----------------------------------------------------------------------------
(***************************************************************************)
(* The event handler                                                       *)
(***************************************************************************)
\* The identifying fields of the environment of a namespace object.
LEMMA EnvironmentFields ==
  ASSUME Empty \notin Labels, NEW ns \in Objects
  PROVE  LET e == EnvironmentOf(ns) IN
           /\ e.Name = ns.Label /\ e.Name \in Labels /\ e.Name # Empty
           /\ e.Namespace = ns.Name /\ e.Namespace \in Namespaces /\ e.Namespace # Empty
           /\ e.CreatedAt = ns.CreatedAt /\ e.CreatedAt # ZeroTime
           /\ Nil \notin {e.URL, e.StatusChecks, e.MetaProbes}
<1>1. ns.Label \in Labels /\ ns.Name \in Namespaces /\ ns.CreatedAt \in CreationTimes
  BY DEF Objects
<1>2. Nil \notin {buildURLMap(ns), buildStatusChecks(ns.Label, ns),
                  buildMetadataProbes(ns.Label, ns)}
  BY BuiltMapsAssumption
<1>3. QED BY <1>1, <1>2, ServerAssumption DEF EnvironmentOf

\* An update in place, of the entry of one object by the environment of another,
\* gives that environment.
LEMMA InPlace ==
  ASSUME Empty \notin Labels, NEW ns1 \in Objects, NEW ns2 \in Objects,
         ~ImmutableFieldChanged(EnvironmentOf(ns1), EnvironmentOf(ns2))
  PROVE  /\ ns1.Label = ns2.Label /\ ns1.Name = ns2.Name
         /\ UpdatedEnvironment(EnvironmentOf(ns1), EnvironmentOf(ns2)) = EnvironmentOf(ns2)
<1> DEFINE e1 == EnvironmentOf(ns1)
           e2 == EnvironmentOf(ns2)
<1>1. /\ e2.Name # Empty /\ e2.Namespace # Empty /\ e2.CreatedAt # ZeroTime
      /\ e2.URL # Nil /\ e2.StatusChecks # Nil /\ e2.MetaProbes # Nil
      /\ e1.Name = ns1.Label /\ e1.Namespace = ns1.Name
      /\ e2.Name = ns2.Label /\ e2.Namespace = ns2.Name
  BY EnvironmentFields
<1>2. e1.Name = e2.Name /\ e1.Namespace = e2.Namespace /\ e1.CreatedAt = e2.CreatedAt
  BY <1>1 DEF ImmutableFieldChanged
<1>3. UpdatedEnvironment(e1, e2) =
        [e1 EXCEPT !.URL = e2.URL, !.StatusChecks = e2.StatusChecks, !.MetaProbes = e2.MetaProbes]
  BY <1>1 DEF UpdatedEnvironment, Given
<1>4. [e1 EXCEPT !.URL = e2.URL, !.StatusChecks = e2.StatusChecks, !.MetaProbes = e2.MetaProbes] = e2
  BY <1>2 DEF EnvironmentOf
<1>5. QED BY <1>1, <1>2, <1>3, <1>4

\* In a listing, every entry is that of an object, under its label, and there is
\* one at most for a namespace.
LEMMA ListingEntries ==
  ASSUME Empty \notin Labels, NEW env, NEW d \in ObjectOrAbsent, WellNamed(d), ListingOf(env, d),
         NEW name \in DOMAIN env
  PROVE  LET n == env[name].Namespace IN
           /\ n \in Namespaces
           /\ d[n] \in Objects /\ d[n].Name = n
           /\ name = d[n].Label
           /\ env[name] = EnvironmentOf(d[n])
           /\ env[name].Name = name
<1>1. PICK n \in Namespaces : d[n] # Absent /\ name = d[n].Label /\ env[name] = EnvironmentOf(d[n])
  BY DEF ListingOf
<1>2. d[n] \in Objects /\ d[n].Name = n
  BY <1>1 DEF ObjectOrAbsent, WellNamed
<1>3. QED BY <1>1, <1>2, EnvironmentFields

\* What is listed after an entry that is not the subject's is added.
LEMMA AddListing ==
  ASSUME Empty \notin Labels, NEW s, NEW d \in ObjectOrAbsent, WellNamed(d), ListingOf(s.env, d),
         NEW n \in Namespaces, NEW new \in Objects, new.Name = n,
         \A k \in DOMAIN s.env : s.env[k].Namespace # n
  PROVE  ListingOf(addEnvironment(s, EnvironmentOf(new)).store.env, [d EXCEPT ![n] = new])
<1> DEFINE e  == EnvironmentOf(new)
           s2 == addEnvironment(s, e).store
           d2 == [d EXCEPT ![n] = new]
<1>1. /\ IsValid(e) => /\ DOMAIN s2.env = DOMAIN s.env \cup {e.Name}
                       /\ s2.env[e.Name] = e
                       /\ \A k \in DOMAIN s.env \ {e.Name} : s2.env[k] = s.env[k]
      /\ ~IsValid(e) => s2 = s
  BY AddEffect
<1>2. e.Name = new.Label /\ new # Absent /\ d2[n] = new
  BY EnvironmentFields, ServerAssumption DEF ObjectOrAbsent
<1>3. ASSUME NEW k \in DOMAIN s.env
      PROVE  \E m \in Namespaces : d2[m] # Absent /\ k = d2[m].Label /\ s.env[k] = EnvironmentOf(d2[m])
  <2> DEFINE m == s.env[k].Namespace
  <2>1. m \in Namespaces /\ d[m] \in Objects /\ k = d[m].Label /\ s.env[k] = EnvironmentOf(d[m])
    BY ListingEntries
  <2>2. m # n /\ d2[m] = d[m]
    BY <2>1 DEF ObjectOrAbsent
  <2>3. QED BY <2>1, <2>2, ServerAssumption
<1> HIDE DEF s2, d2, e
<1>4. ListingOf(s2.env, d2)
  <2>1. CASE ~IsValid(e)
    BY <1>1, <1>3, <2>1 DEF ListingOf
  <2>2. CASE IsValid(e)
    <3> SUFFICES ASSUME NEW k \in DOMAIN s2.env
                 PROVE  \E m \in Namespaces :
                          d2[m] # Absent /\ k = d2[m].Label /\ s2.env[k] = EnvironmentOf(d2[m])
      BY DEF ListingOf
    <3>1. CASE k = e.Name
      BY <1>1, <1>2, <2>2, <3>1 DEF e
    <3>2. CASE k # e.Name
      BY <1>1, <1>3, <2>2, <3>2
    <3>3. QED BY <3>1, <3>2
  <2>3. QED BY <2>1, <2>2
<1>5. QED BY <1>4 DEF s2, d2, e

\* What is listed after the name of the subject's last object is removed: nothing
\* of the subject.
LEMMA DeleteListing ==
  ASSUME Empty \notin Labels, NEW s, NEW d \in ObjectOrAbsent, WellNamed(d), ListingOf(s.env, d),
         NEW n \in Namespaces, d[n] # Absent
  PROVE  LET s2 == deleteEnvironment(s, d[n].Label).store IN
           /\ ListingOf(s2.env, [d EXCEPT ![n] = Absent])
           /\ ListingOf(s2.env, d)
           /\ \A k \in DOMAIN s2.env : s2.env[k].Namespace # n
<1> DEFINE s2 == deleteEnvironment(s, d[n].Label).store
           d2 == [d EXCEPT ![n] = Absent]
<1>1. /\ DOMAIN s2.env = DOMAIN s.env \ {d[n].Label}
      /\ \A k \in DOMAIN s2.env : s2.env[k] = s.env[k]
  BY DeleteEffect
<1> HIDE DEF s2
<1>2. ASSUME NEW k \in DOMAIN s2.env
      PROVE  LET m == s2.env[k].Namespace IN
               /\ m \in Namespaces /\ m # n
               /\ d[m] # Absent /\ k = d[m].Label /\ s2.env[k] = EnvironmentOf(d[m])
  <2>1. k \in DOMAIN s.env /\ k # d[n].Label /\ s2.env[k] = s.env[k]
    BY <1>1
  <2>2. QED BY <2>1, ListingEntries, ServerAssumption
<1>3. \A m \in Namespaces \ {n} : d2[m] = d[m]
  BY DEF ObjectOrAbsent
<1> HIDE DEF d2
<1>4. ListingOf(s2.env, d2) /\ ListingOf(s2.env, d)
  BY <1>2, <1>3 DEF ListingOf
<1>5. QED BY <1>2, <1>4 DEF s2, d2

\* What is listed after an update, whichever of its branches is taken.
LEMMA UpdateListing ==
  ASSUME Empty \notin Labels, NEW s, NEW d \in ObjectOrAbsent, WellNamed(d), ListingOf(s.env, d),
         NEW n \in Namespaces, d[n] # Absent, NEW new \in Objects, new.Name = n
  PROVE  ListingOf(UpdateEnvironment(s, d[n].Label, EnvironmentOf(new)).store.env,
                   [d EXCEPT ![n] = new])
<1> DEFINE name == d[n].Label
           e    == EnvironmentOf(new)
           s2   == UpdateEnvironment(s, name, e).store
           d2   == [d EXCEPT ![n] = new]
<1>1. CASE name \notin DOMAIN s.env /\ s2 = addEnvironment(s, e).store
  <2>1. \A k \in DOMAIN s.env : s.env[k].Namespace # n
    BY <1>1, ListingEntries
  <2>2. QED BY <1>1, <2>1, AddListing
<1>2. CASE s2 = addEnvironment(deleteEnvironment(s, name).store, e).store
  <2> DEFINE c == deleteEnvironment(s, name).store
  <2>1. ListingOf(c.env, d) /\ \A k \in DOMAIN c.env : c.env[k].Namespace # n
    BY DeleteListing
  <2> HIDE DEF c
  <2>2. ListingOf(addEnvironment(c, e).store.env, d2)
    BY <2>1, AddListing
  <2>3. QED BY <1>2, <2>2 DEF c
<1>3. CASE /\ name \in DOMAIN s.env
           /\ ~ImmutableFieldChanged(s.env[name], e)
           /\ DOMAIN s2.env = DOMAIN s.env \cup {e.Name}
           /\ s2.env[e.Name] = UpdatedEnvironment(s.env[name], e)
           /\ \A k \in DOMAIN s.env \ {e.Name} : s2.env[k] = s.env[k]
  <2> DEFINE m == s.env[name].Namespace
  <2>1. m \in Namespaces /\ d[m] \in Objects /\ d[m].Name = m /\ name = d[m].Label
        /\ s.env[name] = EnvironmentOf(d[m])
    BY <1>3, ListingEntries
  <2>2. m = n /\ name = new.Label /\ UpdatedEnvironment(s.env[name], e) = e
    BY <1>3, <2>1, InPlace
  <2>3. e.Name = new.Label /\ new # Absent /\ d2[n] = new
    BY EnvironmentFields, ServerAssumption DEF ObjectOrAbsent
  <2>4. ASSUME NEW k \in DOMAIN s2.env, k # e.Name
        PROVE  \E l \in Namespaces :
                 d2[l] # Absent /\ k = d2[l].Label /\ s2.env[k] = EnvironmentOf(d2[l])
    <3> DEFINE l == s.env[k].Namespace
    <3>1. k \in DOMAIN s.env /\ s2.env[k] = s.env[k] /\ k # name
      BY <1>3, <2>2, <2>3, <2>4
    <3>2. l \in Namespaces /\ d[l] \in Objects /\ k = d[l].Label /\ s.env[k] = EnvironmentOf(d[l])
      BY <3>1, ListingEntries
    <3>3. l # n /\ d2[l] = d[l]
      BY <3>1, <3>2 DEF ObjectOrAbsent
    <3>4. QED BY <3>1, <3>2, <3>3, ServerAssumption
  <2> HIDE DEF s2, d2
  <2>5. s2.env[e.Name] = EnvironmentOf(d2[n])
    BY <1>3, <2>2, <2>3
  <2>6. ListingOf(s2.env, d2)
    BY <2>3, <2>4, <2>5 DEF ListingOf
  <2>7. QED BY <2>6 DEF s2, d2
<1>4. QED BY <1>1, <1>2, <1>3, UpdateEffect

LEMMA ListingInit == Init => Listing
<1> SUFFICES ASSUME Init PROVE Listing
  OBVIOUS
<1>1. delivered \in ObjectOrAbsent /\ WellNamed(delivered)
  BY DEF Init, ObjectOrAbsent, WellNamed
<1>2. ListingOf(store.env, Known) /\ store.envInfo = {}
  BY DEF Init, NewStore, ListingOf
<1>3. QED BY <1>1, <1>2 DEF Init, Listing

\* The handler turns the listing it had into that of what it is told.
LEMMA WriteListing ==
  ASSUME Empty \notin Labels, Listing, Write
  PROVE  Listing'
<1> DEFINE n  == Subject
           s2 == Outcome(event).store
<1>1. /\ stage = "waiting" /\ store' = s2 /\ stage' = "idle"
      /\ UNCHANGED <<delivered, event>>
  BY DEF Write, Change
<1>2. /\ event.old # Absent \/ event.new # Absent
      /\ event.old # Absent => event.old \in Objects /\ event.old.Name = n
      /\ event.new # Absent => event.new \in Objects /\ event.new.Name = n
      /\ delivered[n] = event.new
  BY <1>1 DEF Listing, Subject
<1>3. n \in Namespaces
  BY <1>2 DEF Objects
<1>4. Known \in ObjectOrAbsent /\ WellNamed(Known) /\ Known[n] = event.old
  <2>1. Known = [delivered EXCEPT ![n] = event.old]
    BY <1>1 DEF Known
  <2>2. event.old \in Objects \cup {Absent}
    BY <1>2
  <2>3. QED BY <1>2, <1>3, <2>1, <2>2 DEF Listing, ObjectOrAbsent, WellNamed
<1>5. delivered = [Known EXCEPT ![n] = event.new]
  BY <1>1, <1>2, <1>3 DEF Known, Listing, ObjectOrAbsent
<1>6. ListingOf(store.env, Known)
  BY DEF Listing
<1>7. ListingOf(s2.env, delivered) /\ s2.envInfo \subseteq Labels \X Namespaces
  <2>1. CASE event.new = Absent
    <3>1. s2 = deleteEnvironment(store, Known[n].Label).store /\ Known[n] # Absent
      BY <1>2, <1>4, <2>1 DEF Outcome, HandleNamespaceDelete, DeleteEnvironment
    <3>2. QED BY <1>3, <1>4, <1>5, <1>6, <2>1, <3>1, DeleteListing, InfoEffect DEF Listing
  <2>2. CASE event.new # Absent /\ event.old = Absent
    <3> DEFINE e == EnvironmentOf(event.new)
    <3>1. s2 = addEnvironment(store, e).store
      BY <2>2 DEF Outcome, HandleNamespaceAdd, AddEnvironment
    <3>2. \A k \in DOMAIN store.env : store.env[k].Namespace # n
      BY <1>4, <1>6, <2>2, ListingEntries, ServerAssumption
    <3>3. ListingOf(s2.env, delivered)
      BY <1>2, <1>3, <1>4, <1>5, <1>6, <2>2, <3>1, <3>2, AddListing
    <3>4. s2.envInfo \subseteq store.envInfo \cup {InfoLabels(e)}
      BY <3>1, InfoEffect
    <3>5. InfoLabels(e) \in Labels \X Namespaces
      BY <1>2, <2>2, EnvironmentFields DEF InfoLabels
    <3>6. QED BY <3>3, <3>4, <3>5 DEF Listing
  <2>3. CASE event.new # Absent /\ event.old # Absent
    <3> DEFINE e == EnvironmentOf(event.new)
    <3>1. s2 = UpdateEnvironment(store, Known[n].Label, e).store
      BY <1>4, <2>3 DEF Outcome, HandleNamespaceUpdate
    <3>2. ListingOf(s2.env, delivered)
      BY <1>2, <1>3, <1>4, <1>5, <1>6, <2>3, <3>1, UpdateListing
    <3>3. s2.envInfo \subseteq store.envInfo \cup {InfoLabels(e)}
      BY <3>1, InfoEffect
    <3>4. InfoLabels(e) \in Labels \X Namespaces
      BY <1>2, <2>3, EnvironmentFields DEF InfoLabels
    <3>5. QED BY <3>2, <3>3, <3>4 DEF Listing
  <2>4. QED BY <2>1, <2>2, <2>3
<1>8. ListingOf(store'.env, Known') /\ store'.envInfo \subseteq Labels \X Namespaces
  BY <1>1, <1>7 DEF Known
<1>9. QED BY <1>1, <1>8 DEF Listing, WellNamed

\* A request that calls its probes leaves the store and the handler alone.
LEMMA ServeMoves ==
  ASSUME NEW r \in Requests, Call(r) \/ Sample(r) \/ Answer(r)
  PROVE  UNCHANGED <<store, handlerVars, readers, call, visited, responseVars, seen>>
<1>1. CASE Call(r)
  BY <1>1 DEF Call, Local, Take
<1>2. CASE Hit(r) \/ CacheHit(r) \/ Answer(r)
  BY <1>2 DEF Hit, CacheHit, Answer, Sampled
<1>3. CASE Miss(r) \/ Ask(r)
  BY <1>3 DEF Miss, Ask, progressVars
<1>4. QED BY <1>1, <1>2, <1>3 DEF Sample

LEMMA ListingStep ==
  ASSUME Empty \notin Labels
  PROVE  Listing /\ [Next]_vars => Listing'
<1> SUFFICES ASSUME Listing, [Next]_vars PROVE Listing'
  OBVIOUS
<1>1. ASSUME NEW n \in Namespaces, Notify(n)
      PROVE  Listing'
  <2>1. PICK new \in {object \in Objects : object.Name = n} \cup {Absent} :
          /\ new = Absent => delivered[n] # Absent
          /\ event' = [old |-> delivered[n], new |-> new]
          /\ delivered' = [delivered EXCEPT ![n] = new]
    BY <1>1 DEF Notify
  <2>2. stage = "idle" /\ stage' \in {"build", "lock"} /\ store' = store
    BY <1>1 DEF Notify
  <2>3. delivered' \in ObjectOrAbsent /\ WellNamed(delivered')
    BY <2>1 DEF Listing, ObjectOrAbsent, WellNamed
  <2>4. delivered[n] \in Objects \cup {Absent} /\ (delivered[n] # Absent => delivered[n].Name = n)
    BY DEF Listing, ObjectOrAbsent, WellNamed
  <2>5. event' \in [old: Objects \cup {Absent}, new: Objects \cup {Absent}]
    BY <2>1, <2>4
  <2>6. event'.old = delivered[n] /\ event'.new = new
    BY <2>1
  <2>7. Subject' = n
    BY <2>1, <2>4, <2>6 DEF Subject
  <2>8. Known' = delivered
    BY <2>1, <2>2, <2>6, <2>7 DEF Known, Listing, ObjectOrAbsent
  <2>9. ListingOf(store'.env, Known')
    BY <2>2, <2>8 DEF Listing, Known
  <2>10. delivered'[n] = new
    BY <2>1 DEF Listing, ObjectOrAbsent
  <2>11. stage' # "idle" =>
           /\ event'.old # Absent \/ event'.new # Absent
           /\ event'.old # Absent => event'.old.Name = Subject'
           /\ delivered'[Subject'] = event'.new
    BY <2>1, <2>4, <2>6, <2>7, <2>10
  <2>12. QED BY <2>2, <2>3, <2>5, <2>9, <2>11 DEF Listing
<1>2. CASE Write
  BY <1>2, WriteListing
<1>3. ASSUME UNCHANGED <<store, delivered, event>>,
             stage' = stage \/ (stage # "idle" /\ stage' \in {"build", "lock", "waiting"})
      PROVE  Listing'
  <2>1. Subject' = Subject /\ Known' = Known
    BY <1>3 DEF Subject, Known
  <2>2. stage' \in {"idle", "build", "lock", "waiting"}
    BY <1>3 DEF Listing
  <2>3. QED BY <1>3, <2>1, <2>2 DEF Listing, WellNamed
<1>4. ASSUME NEW q \in Queries, Build(q)
      PROVE  Listing'
  BY <1>3, <1>4 DEF Build
<1>5. CASE Lock
  BY <1>3, <1>5 DEF Lock
<1>6. ASSUME NEW r \in Requests, Receive(r) \/ Serve(r) \/ End(r)
      PROVE  UNCHANGED <<store, delivered, event, stage>>
  BY <1>6, ServeMoves DEF Receive, Serve, Read, Visit, Finish, Respond, Panic, End, handlerVars
<1>7. CASE UNCHANGED vars
  BY <1>3, <1>7 DEF vars, handlerVars
<1>8. QED BY <1>1, <1>2, <1>3, <1>4, <1>5, <1>6, <1>7 DEF Next, Handle

-----------------------------------------------------------------------------
(***************************************************************************)
(* Requests                                                                *)
(***************************************************************************)
Shaped ==
  /\ readers \subseteq Requests
  /\ DOMAIN pc = Requests /\ DOMAIN call = Requests /\ DOMAIN copied = Requests
  /\ DOMAIN visited = Requests /\ DOMAIN todo = Requests /\ DOMAIN asking = Requests
  /\ DOMAIN observed = Requests /\ DOMAIN answer = Requests /\ DOMAIN code = Requests
  /\ DOMAIN status = Requests /\ DOMAIN recorded = Requests /\ DOMAIN seen = Requests
  /\ DOMAIN mutex = Queries /\ DOMAIN used = Requests

\* What a request has, in each place it may be.
Served(r) ==
  /\ pc[r] \in {"idle", "read", "visit", "sample", "match", "query", "respond", "done"}
  /\ call[r] \in Calls \cup {NoCall}
  /\ pc[r] # "idle" => call[r] \in Calls
  /\ pc[r] \in {"read", "visit", "sample", "match", "query"} => call[r].route \in {"names", "one", "all"}
  /\ pc[r] \in {"idle", "read"} =>
       copied[r] = {} /\ visited[r] = {} /\ observed[r] = {} /\ answer[r] = {}
  /\ pc[r] = "read" => code[r] = 200
  /\ pc[r] \notin {"visit", "sample", "match", "query"} => todo[r] = {}
  /\ IF pc[r] \in {"sample", "match", "query"}
     THEN asking[r] \in todo[r] /\ AsksPrometheus(asking[r])
     ELSE asking[r] = None
  /\ r \in readers => ListsByStatus(call[r]) /\ pc[r] \in {"visit", "sample", "match", "query"}
  /\ answer[r] \subseteq visited[r]
  /\ \A p \in todo[r] : p.entry \in answer[r] /\ p \in Wanted(call[r], p.entry)
  /\ \A o \in observed[r] : o.sample \in Samples /\ o.probe.entry \in visited[r]
  /\ code[r] \in {200, 204, 404, 500}
  /\ status[r] \in {0, 200, 204, 404, 500}
  /\ recorded[r] \in {200, 204, 404, 500}

AllServed == \A r \in Requests : Served(r)

\* What a request has read are entries of the listing.
Listed(r) == copied[r] \subseteq Listable /\ visited[r] \subseteq Listable

\* The mutex of a query is held by the request that asks Prometheus for it.
Held ==
  \A q \in Queries :
    /\ mutex[q] \in Requests \cup {None}
    /\ \A r \in Requests : mutex[q] = r <=> pc[r] = "query" /\ q = Query(asking[r])

\* AllOrNothing, from the first environment that is visited.
Resolving(r) ==
  call[r].route \in {"one", "all"} /\ pc[r] \in {"visit", "sample", "match", "query", "respond", "done"} =>
    /\ code[r] = 500 <=> \E o \in observed[r] : o.sample = "error"
    /\ code[r] # 500 =>
         {o.probe : o \in observed[r]} \cup todo[r] = UNION {Wanted(call[r], x) : x \in answer[r]}

\* LogKnowsFailures of a response, in terms of its code.
Logged(r) ==
  pc[r] = "done" =>
    /\ recorded[r] = 200 => code[r] = 200 /\ Encodable(r)
    /\ recorded[r] # status[r] => status[r] = 200 /\ recorded[r] = 500

\* The step that a request takes itself.
Moves(r) == Receive(r) \/ Serve(r) \/ End(r)

\* What a request has is left alone, but for the history of the store.
Same(r) ==
  /\ pc'[r] = pc[r] /\ call'[r] = call[r] /\ copied'[r] = copied[r]
  /\ visited'[r] = visited[r] /\ todo'[r] = todo[r] /\ asking'[r] = asking[r]
  /\ observed'[r] = observed[r] /\ answer'[r] = answer[r] /\ code'[r] = code[r]
  /\ status'[r] = status[r] /\ recorded'[r] = recorded[r]
  /\ r \in readers' <=> r \in readers

LEMMA ShapedStep == Shaped /\ [Next]_vars => Shaped'
<1> SUFFICES ASSUME Shaped, [Next]_vars PROVE Shaped'
  OBVIOUS
<1> USE DEF Shaped, requestVars, progressVars, responseVars
<1>1. CASE \E n \in Namespaces : Notify(n)
  BY <1>1 DEF Notify
<1>2. CASE Handle
  BY <1>2 DEF Handle, Build, Lock, Write, Change
<1>3. ASSUME NEW r \in Requests, Receive(r) \/ Read(r) \/ Visit(r) \/ Finish(r) \/ End(r)
      PROVE  Shaped'
  BY <1>3 DEF Receive, Read, Visit, Finish, End
<1>4. ASSUME NEW r \in Requests, NEW p, NEW sample, Yield(r, p, sample)
      PROVE  /\ DOMAIN copied' = Requests /\ DOMAIN todo' = Requests
             /\ DOMAIN observed' = Requests /\ DOMAIN answer' = Requests
             /\ DOMAIN code' = Requests
  BY <1>4 DEF Yield, Filtered, Resolved
<1>5. ASSUME NEW r \in Requests, Call(r)
      PROVE  Shaped'
  BY <1>4, <1>5 DEF Call, Local, Take
<1>6. ASSUME NEW r \in Requests, Sample(r) \/ Answer(r)
      PROVE  Shaped'
  <2>1. CASE Hit(r) \/ CacheHit(r) \/ Answer(r)
    BY <1>4, <2>1 DEF Hit, CacheHit, Answer, Sampled
  <2>2. CASE Miss(r) \/ Ask(r)
    BY <2>2 DEF Miss, Ask
  <2>3. QED BY <1>6, <2>1, <2>2 DEF Sample
<1>7. ASSUME NEW r \in Requests, Respond(r) \/ Panic(r)
      PROVE  Shaped'
  BY <1>7 DEF Respond, Panic, WriteHeaders
<1>8. CASE UNCHANGED vars
  BY <1>8 DEF vars
<1>9. QED BY <1>1, <1>2, <1>3, <1>5, <1>6, <1>7, <1>8 DEF Next, Serve

\* Another step leaves a request alone; it may add to the stores there were, and
\* changes the store only while no request holds the read lock.
LEMMA Frame ==
  ASSUME Shaped, [Next]_vars, NEW r \in Requests, ~Moves(r)
  PROVE  /\ Same(r)
         /\ pc[r] # "idle" => seen[r] \subseteq seen'[r]
         /\ pc[r] # "idle" /\ store.env \in seen[r] => store'.env \in seen'[r]
         /\ r \in readers => store' = store
<1> USE DEF Shaped, Same, requestVars, progressVars, responseVars
<1>1. CASE (\E n \in Namespaces : Notify(n)) \/ (\E q \in Queries : Build(q)) \/ Lock
           \/ UNCHANGED vars
  BY <1>1 DEF Notify, Build, Lock, vars
<1>2. CASE Write
  <2>1. Same(r) /\ readers = {}
    BY <1>2 DEF Write, Change
  <2>2. seen'[r] = IF pc[r] = "idle" THEN {} ELSE seen[r] \cup {store'.env}
    BY <1>2 DEF Write, Change
  <2>3. QED BY <2>1, <2>2
<1>3. ASSUME NEW u \in Requests, u # r,
             Receive(u) \/ Read(u) \/ Visit(u) \/ Finish(u) \/ End(u)
      PROVE  Same(r) /\ seen'[r] = seen[r] /\ store' = store
  BY <1>3 DEF Receive, Read, Visit, Finish, End
<1>4. ASSUME NEW u \in Requests, u # r, NEW p, NEW sample, Yield(u, p, sample)
      PROVE  /\ copied'[r] = copied[r] /\ todo'[r] = todo[r] /\ observed'[r] = observed[r]
             /\ answer'[r] = answer[r] /\ code'[r] = code[r]
  BY <1>4 DEF Yield, Filtered, Resolved
<1>5. ASSUME NEW u \in Requests, u # r, Call(u)
      PROVE  Same(r) /\ seen'[r] = seen[r] /\ store' = store
  BY <1>4, <1>5 DEF Call, Local, Take
<1>6. ASSUME NEW u \in Requests, u # r, Sample(u) \/ Answer(u)
      PROVE  Same(r) /\ seen'[r] = seen[r] /\ store' = store
  <2>1. CASE Hit(u) \/ CacheHit(u) \/ Answer(u)
    BY <1>4, <1>6, <2>1 DEF Hit, CacheHit, Answer, Sampled
  <2>2. CASE Miss(u) \/ Ask(u)
    BY <1>6, <2>2 DEF Miss, Ask
  <2>3. QED BY <1>6, <2>1, <2>2 DEF Sample
<1>7. ASSUME NEW u \in Requests, u # r, Respond(u) \/ Panic(u)
      PROVE  Same(r) /\ seen'[r] = seen[r] /\ store' = store
  BY <1>7 DEF Respond, Panic, WriteHeaders
<1>8. QED BY <1>1, <1>2, <1>3, <1>5, <1>6, <1>7 DEF Next, Handle, Serve, Moves

\* What a probe that has yielded a sample does to the request.
Yielded(r, p, sample) ==
  /\ p \in todo[r] /\ sample \in Samples
  /\ pc[r] \in {"visit", "sample", "match", "query"} /\ pc'[r] = "visit" /\ asking'[r] = None
  /\ call'[r] = call[r] /\ visited'[r] = visited[r]
  /\ status'[r] = status[r] /\ recorded'[r] = recorded[r]
  /\ store' = store /\ readers' = readers /\ seen' = seen
  /\ observed'[r] = observed[r] \cup {[probe |-> p, sample |-> sample]}
  /\ IF call[r].route = "names"
     THEN /\ copied'[r] = copied[r] /\ code'[r] = code[r]
          /\ IF Passes(sample) = call[r].filter[p.check]
             THEN todo'[r] = todo[r] \ {p} /\ answer'[r] = answer[r]
             ELSE todo'[r] = {} /\ answer'[r] = answer[r] \ {p.entry}
     ELSE /\ answer'[r] = answer[r]
          /\ IF sample = "error"
             THEN todo'[r] = {} /\ copied'[r] = {} /\ code'[r] = 500
             ELSE todo'[r] = todo[r] \ {p} /\ copied'[r] = copied[r] /\ code'[r] = code[r]

\* A step on the way to a sample.
Asked(r) ==
  /\ pc[r] \in {"visit", "sample", "match"} /\ pc'[r] \in {"sample", "match", "query"}
  /\ asking'[r] \in todo[r] /\ AsksPrometheus(asking'[r]) /\ todo'[r] = todo[r]
  /\ call'[r] = call[r] /\ copied'[r] = copied[r] /\ visited'[r] = visited[r]
  /\ observed'[r] = observed[r] /\ answer'[r] = answer[r] /\ code'[r] = code[r]
  /\ status'[r] = status[r] /\ recorded'[r] = recorded[r]
  /\ store' = store /\ readers' = readers /\ seen' = seen

\* A request that is at its probes calls for a sample, or gets one.
LEMMA ProbeEffect ==
  ASSUME Shaped, NEW r \in Requests, Served(r), Call(r) \/ Sample(r) \/ Answer(r)
  PROVE  Asked(r) \/ \E p : \E sample \in Samples : Yielded(r, p, sample)
<1>1. ASSUME NEW p, NEW sample, Yield(r, p, sample)
      PROVE  /\ observed'[r] = observed[r] \cup {[probe |-> p, sample |-> sample]}
             /\ IF call[r].route = "names"
                THEN /\ copied'[r] = copied[r] /\ code'[r] = code[r]
                     /\ IF Passes(sample) = call[r].filter[p.check]
                        THEN todo'[r] = todo[r] \ {p} /\ answer'[r] = answer[r]
                        ELSE todo'[r] = {} /\ answer'[r] = answer[r] \ {p.entry}
                ELSE /\ answer'[r] = answer[r]
                     /\ IF sample = "error"
                        THEN todo'[r] = {} /\ copied'[r] = {} /\ code'[r] = 500
                        ELSE todo'[r] = todo[r] \ {p} /\ copied'[r] = copied[r] /\ code'[r] = code[r]
  BY <1>1 DEF Yield, Filtered, Resolved, Shaped
<1>2. ASSUME NEW p, Local(r, p)
      PROVE  \E sample \in Samples : Yielded(r, p, sample)
  <2>1. PICK sample \in {"missing", "static", "true", "false"} : Yield(r, p, sample)
    BY <1>2 DEF Local
  <2>2. /\ p \in todo[r] /\ pc[r] = "visit" /\ asking[r] = None
        /\ UNCHANGED <<store, readers, seen, pc, call, visited, asking, status, recorded>>
    BY <1>2 DEF Local, Due, responseVars, Served
  <2>3. sample \in Samples
    BY DEF Samples
  <2>4. QED BY <1>1, <2>1, <2>2, <2>3 DEF Yielded
<1>3. ASSUME Hit(r) \/ CacheHit(r) \/ Answer(r)
      PROVE  \E sample \in Samples : Yielded(r, asking[r], sample)
  <2>1. pc[r] \in {"sample", "match", "query"} /\ Sampled(r, Floats \cup {"error"})
    BY <1>3 DEF Hit, CacheHit, Answer, Sampled
  <2>2. PICK sample \in Floats \cup {"error"} : Yield(r, asking[r], sample)
    BY <2>1 DEF Sampled
  <2>3. /\ asking[r] \in todo[r] /\ pc'[r] = "visit" /\ asking'[r] = None
        /\ UNCHANGED <<store, readers, seen, call, visited, status, recorded>>
    BY <2>1 DEF Sampled, responseVars, Served, Shaped
  <2>4. sample \in Samples
    BY DEF Samples
  <2>5. QED BY <1>1, <2>1, <2>2, <2>3, <2>4 DEF Yielded
<1>4. ASSUME NEW p, Take(r, p)
      PROVE  Asked(r)
  BY <1>4 DEF Take, Asked, Due, responseVars, Shaped
<1>5. ASSUME Miss(r) \/ Ask(r)
      PROVE  Asked(r)
  BY <1>5 DEF Miss, Ask, Asked, progressVars, responseVars, Served, Shaped
<1>6. QED BY <1>2, <1>3, <1>4, <1>5 DEF Call, Sample

\* What the listing means for those who read it.
LEMMA StoreEntries ==
  ASSUME Empty \notin Labels, Listing
  PROVE  /\ Entries(store.env) \subseteq Listable
         /\ \A k \in DOMAIN store.env : store.env[k].Name = k
         /\ \A k, l \in DOMAIN store.env :
              store.env[k].Namespace = store.env[l].Namespace => k = l
<1>1. Known \in ObjectOrAbsent /\ WellNamed(Known) /\ ListingOf(store.env, Known)
  <2>1. CASE stage = "idle"
    BY <2>1 DEF Known, Listing
  <2>2. CASE stage # "idle"
    <3>1. Known = [delivered EXCEPT ![Subject] = event.old]
      BY <2>2 DEF Known
    <3>2. event.old \in Objects \cup {Absent} /\ (event.old # Absent => event.old.Name = Subject)
      BY <2>2 DEF Listing
    <3>3. QED BY <3>1, <3>2 DEF Listing, ObjectOrAbsent, WellNamed
  <2>3. QED BY <2>1, <2>2
<1>2. ASSUME NEW k \in DOMAIN store.env
      PROVE  LET n == store.env[k].Namespace IN
               /\ n \in Namespaces /\ Known[n] \in Objects
               /\ k = Known[n].Label /\ store.env[k] = EnvironmentOf(Known[n])
               /\ store.env[k].Name = k
  BY <1>1, ListingEntries
<1>3. Entries(store.env) \subseteq Listable
  BY <1>2 DEF Entries, Listable
<1>4. QED BY <1>2, <1>3

\* What a request copies is what the state of the store has in its scope.
LEMMA CopiesScope ==
  ASSUME Empty \notin Labels, Listing, NEW c, c.route \in {"names", "one", "all"},
         NEW found \in Copies(c)
  PROVE  ListsByStatus(c) \/ found = {x \in Entries(store.env) : InScope(c, x)}
<1>1. CASE c.route = "one"
  BY <1>1 DEF Copies, InScope
<1>2. CASE c.route = "names" /\ c.namespace # Empty
  <2> DEFINE these == EnvironmentsByNamespace(store, c.namespace)
             scope == {x \in Entries(store.env) : InScope(c, x)}
  <2>1. found \in (IF these = {} THEN {{}} ELSE {{<<e.Name, e>>} : e \in these})
    BY <1>2 DEF Copies
  <2>2. scope = {x \in Entries(store.env) : x[2].Namespace = c.namespace}
    BY <1>2 DEF InScope
  <2>3. these = {store.env[k] : k \in {l \in DOMAIN store.env : store.env[l].Namespace = c.namespace}}
    BY DEF EnvironmentsByNamespace, GetAllEnvironments
  <2>4. scope = {<<k, store.env[k]>> : k \in {l \in DOMAIN store.env : store.env[l].Namespace = c.namespace}}
    BY <2>2 DEF Entries
  <2>5. CASE these = {}
    <3>1. scope = {}
      BY <2>3, <2>4, <2>5
    <3>2. QED BY <2>1, <2>5, <3>1
  <2>6. CASE these # {}
    <3>1. PICK e \in these : found = {<<e.Name, e>>}
      BY <2>1, <2>6
    <3>2. PICK k \in DOMAIN store.env : e = store.env[k] /\ e.Namespace = c.namespace
      BY <2>3, <3>1
    <3>3. \A l \in DOMAIN store.env : store.env[l].Namespace = c.namespace => l = k
      BY <3>2, StoreEntries
    <3>4. e.Name = k
      BY <3>2, StoreEntries
    <3>5. scope = {<<k, store.env[k]>>}
      BY <2>4, <3>2, <3>3
    <3>6. QED BY <3>1, <3>2, <3>4, <3>5
  <2>7. QED BY <2>5, <2>6
<1>3. CASE c.route = "all" \/ (c.route = "names" /\ c.namespace = Empty)
  <2>1. found = Entries(store.env)
    BY <1>3 DEF Copies
  <2>2. \A x : InScope(c, x)
    BY <1>3 DEF InScope
  <2>3. QED BY <2>1, <2>2
<1>4. QED BY <1>1, <1>2, <1>3

LEMMA WantedEntry ==
  ASSUME NEW c, c.route \in {"names", "one", "all"}, NEW x, NEW p \in Wanted(c, x)
  PROVE  p.entry = x
BY DEF Wanted, ProbeAt

LEMMA ServedStep == Shaped /\ AllServed /\ [Next]_vars => AllServed'
<1> SUFFICES ASSUME Shaped, AllServed, [Next]_vars, NEW r \in Requests
             PROVE  Served(r)'
  BY DEF AllServed
<1>0. Served(r)
  BY DEF AllServed
<1>1. CASE ~Moves(r)
  <2>1. Same(r)
    BY <1>1, Frame
  <2>2. QED BY <1>0, <2>1 DEF Same, Served
<1>2. CASE Receive(r)
  <2>1. PICK c \in Calls :
          /\ call' = [call EXCEPT ![r] = c]
          /\ pc' = [pc EXCEPT ![r] = IF AnsweredAtOnce(c) THEN "respond" ELSE "read"]
          /\ code' = [code EXCEPT ![r] = IF c.route = "preflight" THEN 204 ELSE 200]
    BY <1>2 DEF Receive
  <2>2. c.route \in Routes
    BY CallsAssumption
  <2>3. pc[r] = "idle" /\ UNCHANGED <<readers, copied, visited, todo, asking, observed, answer,
                                     status, recorded>>
    BY <1>2 DEF Receive, responseVars
  <2>4. QED BY <1>0, <2>1, <2>2, <2>3 DEF Served, Shaped, AnsweredAtOnce, Routes
<1>3. CASE Read(r)
  <2>1. /\ pc[r] = "read" /\ pc' = [pc EXCEPT ![r] = "visit"]
        /\ UNCHANGED <<call, visited, todo, asking, observed, answer, status, recorded>>
    BY <1>3 DEF Read, responseVars
  <2>2. CASE ListsByStatus(call[r])
    <3>1. readers' = readers \cup {r} /\ UNCHANGED <<copied, code>>
      BY <1>3, <2>2 DEF Read
    <3>2. QED BY <1>0, <2>1, <2>2, <3>1 DEF Served, Shaped
  <2>3. CASE ~ListsByStatus(call[r])
    <3>1. PICK found \in Copies(call[r]) :
            /\ copied' = [copied EXCEPT ![r] = found]
            /\ code' = [code EXCEPT ![r] =
                          IF call[r].route = "one" /\ found = {} THEN 404 ELSE 200]
            /\ UNCHANGED readers
      BY <1>3, <2>3 DEF Read
    <3>2. QED BY <1>0, <2>1, <3>1 DEF Served, Shaped
  <2>4. QED BY <2>2, <2>3
<1>4. CASE Visit(r)
  <2>1. PICK x \in Remaining(r) :
          /\ visited' = [visited EXCEPT ![r] = @ \cup {x}]
          /\ answer' = [answer EXCEPT ![r] = @ \cup {x}]
          /\ todo' = [todo EXCEPT ![r] = Wanted(call[r], x)]
    BY <1>4 DEF Visit
  <2>2. /\ pc[r] = "visit"
        /\ UNCHANGED <<readers, pc, call, copied, asking, observed, code, status, recorded>>
    BY <1>4 DEF Visit, responseVars
  <2>3. \A p \in todo'[r] : p.entry = x
    BY <1>0, <2>1, <2>2, WantedEntry DEF Served, Shaped
  <2>4. /\ visited'[r] = visited[r] \cup {x} /\ answer'[r] = answer[r] \cup {x}
        /\ todo'[r] = Wanted(call[r], x)
    BY <2>1 DEF Shaped
  <2>5. QED BY <1>0, <2>2, <2>3, <2>4 DEF Served
<1>5. CASE Finish(r)
  <2>1. /\ pc[r] = "visit" /\ todo[r] = {} /\ readers' = readers \ {r}
        /\ pc' = [pc EXCEPT ![r] = "respond"]
        /\ UNCHANGED <<call, progressVars, status, recorded>>
    BY <1>5 DEF Finish, responseVars
  <2>2. QED BY <1>0, <2>1 DEF Served, Shaped, progressVars
<1>6. CASE Asked(r)
  BY <1>0, <1>6 DEF Asked, Served
<1>7. ASSUME NEW p, NEW sample \in Samples, Yielded(r, p, sample)
      PROVE  Served(r)'
  <2>1. todo'[r] \subseteq todo[r] /\ answer'[r] \subseteq answer[r]
    BY <1>7 DEF Yielded
  <2>2. p.entry \in visited[r]
    BY <1>0, <1>7 DEF Served, Yielded
  <2>3. \A q \in todo'[r] : q.entry \in answer'[r]
    BY <1>0, <1>7 DEF Served, Yielded
  <2>4. \A o \in observed'[r] : o.sample \in Samples /\ o.probe.entry \in visited'[r]
    BY <1>0, <1>7, <2>2 DEF Served, Yielded
  <2>5. code'[r] \in {200, 204, 404, 500}
    BY <1>0, <1>7 DEF Served, Yielded
  <2>6. /\ pc'[r] = "visit" /\ asking'[r] = None /\ pc[r] \in {"visit", "sample", "match", "query"}
        /\ call'[r] = call[r] /\ visited'[r] = visited[r] /\ readers' = readers
        /\ status'[r] = status[r] /\ recorded'[r] = recorded[r]
    BY <1>7 DEF Yielded
  <2>7. QED BY <1>0, <2>1, <2>3, <2>4, <2>5, <2>6 DEF Served
<1>8. CASE Respond(r) \/ Panic(r)
  <2>1. /\ pc[r] = "respond" /\ pc' = [pc EXCEPT ![r] = "done"]
        /\ UNCHANGED <<readers, call, copied, visited, todo, asking, observed, answer, code>>
    BY <1>8 DEF Respond, Panic, progressVars
  <2>2. status'[r] \in {200, 204, 404, 500} /\ recorded'[r] \in {200, 204, 404, 500}
    BY <1>0, <1>8 DEF Respond, Panic, WriteHeaders, Served, Shaped
  <2>3. QED BY <1>0, <2>1, <2>2 DEF Served, Shaped
<1>9. CASE End(r)
  BY <1>0, <1>9 DEF End, Served, Shaped
<1>10. QED
  BY <1>0, <1>1, <1>2, <1>3, <1>4, <1>5, <1>6, <1>7, <1>8, <1>9, ProbeEffect
     DEF Moves, Serve

\* Asking takes a mutex that is free, for the request that asks.
LEMMA AskHolds ==
  ASSUME Shaped, AllServed, Held, NEW u \in Requests, Ask(u)
  PROVE  Held'
<1> SUFFICES ASSUME NEW q \in Queries
             PROVE  /\ mutex'[q] \in Requests \cup {None}
                    /\ \A r \in Requests :
                         mutex'[q] = r <=> pc'[r] = "query" /\ q = Query(asking'[r])
  BY DEF Held, Query
<1>1. /\ pc[u] = "match" /\ mutex[Query(asking[u])] = None
      /\ mutex' = [mutex EXCEPT ![Query(asking[u])] = u]
      /\ pc' = [pc EXCEPT ![u] = "query"] /\ asking' = asking
  BY DEF Ask, progressVars
<1>2. mutex'[q] = IF q = Query(asking[u]) THEN u ELSE mutex[q]
  BY <1>1 DEF Shaped
<1>3. mutex[q] \in Requests \cup {None}
      /\ \A r \in Requests : mutex[q] = r <=> pc[r] = "query" /\ q = Query(asking[r])
  BY DEF Held
<1>4. \A r \in Requests : pc'[r] = IF r = u THEN "query" ELSE pc[r]
  BY <1>1 DEF Shaped
<1>5. mutex'[q] \in Requests \cup {None}
  BY <1>2, <1>3
<1>6. ASSUME NEW r \in Requests
      PROVE  mutex'[q] = r <=> pc'[r] = "query" /\ q = Query(asking[r])
  <2>1. CASE r = u
    BY <1>1, <1>2, <1>3, <1>4, <2>1
  <2>2. CASE r # u
    <3>1. q = Query(asking[u]) => mutex[q] # r
      BY <1>1, ServerAssumption
    <3>2. QED BY <1>2, <1>3, <1>4, <2>2, <3>1
  <2>3. QED BY <2>1, <2>2
<1>7. QED BY <1>1, <1>5, <1>6

\* An answer gives the mutex of the one that asked back.
LEMMA AnswerReleases ==
  ASSUME Shaped, AllServed, Held, NEW u \in Requests, Answer(u)
  PROVE  Held'
<1> SUFFICES ASSUME NEW q \in Queries
             PROVE  /\ mutex'[q] \in Requests \cup {None}
                    /\ \A r \in Requests :
                         mutex'[q] = r <=> pc'[r] = "query" /\ q = Query(asking'[r])
  BY DEF Held, Query
<1>1. /\ pc[u] = "query" /\ mutex' = [mutex EXCEPT ![Query(asking[u])] = None]
      /\ pc' = [pc EXCEPT ![u] = "visit"] /\ asking' = [asking EXCEPT ![u] = None]
  BY DEF Answer, Sampled
<1>2. mutex'[q] = IF q = Query(asking[u]) THEN None ELSE mutex[q]
  BY <1>1 DEF Shaped
<1>3. mutex[q] \in Requests \cup {None}
      /\ \A r \in Requests : mutex[q] = r <=> pc[r] = "query" /\ q = Query(asking[r])
  BY DEF Held
<1>4. mutex'[q] \in Requests \cup {None}
  BY <1>2, <1>3
<1>5. ASSUME NEW r \in Requests
      PROVE  mutex'[q] = r <=> pc'[r] = "query" /\ q = Query(asking'[r])
  <2>1. CASE r = u
    <3>1. pc'[r] = "visit"
      BY <1>1, <2>1 DEF Shaped
    <3>2. mutex'[q] # r
      BY <1>1, <1>2, <1>3, <2>1, ServerAssumption
    <3>3. QED BY <3>1, <3>2
  <2>2. CASE r # u
    <3>1. pc'[r] = pc[r] /\ asking'[r] = asking[r]
      BY <1>1, <2>2 DEF Shaped
    <3>2. q = Query(asking[u]) => mutex[q] = u
      BY <1>1, <1>3
    <3>3. QED BY <1>2, <1>3, <2>2, <3>1, <3>2, ServerAssumption
  <2>3. QED BY <2>1, <2>2
<1>6. QED BY <1>4, <1>5

LEMMA HeldStep == Shaped /\ AllServed /\ Held /\ [Next]_vars => Held'
<1> SUFFICES ASSUME Shaped, AllServed, Held, [Next]_vars PROVE Held'
  OBVIOUS
\* Every other step leaves the mutexes, and who asks.
<1> DEFINE Kept(r) == \/ pc'[r] = pc[r] /\ asking'[r] = asking[r]
                      \/ pc[r] # "query" /\ pc'[r] # "query"
<1>1. ASSUME mutex' = mutex, \A r \in Requests : Kept(r)
      PROVE  Held'
  <2> SUFFICES ASSUME NEW q \in Queries
               PROVE  /\ mutex'[q] \in Requests \cup {None}
                      /\ \A r \in Requests :
                           mutex'[q] = r <=> pc'[r] = "query" /\ q = Query(asking'[r])
    BY DEF Held, Query
  <2>1. QED BY <1>1 DEF Held
<1>2. CASE (\E n \in Namespaces : Notify(n)) \/ Handle \/ UNCHANGED vars
  <2>1. UNCHANGED <<mutex, pc, asking>>
    BY <1>2 DEF Notify, Handle, Build, Lock, Write, Change, vars, requestVars, progressVars
  <2>2. QED BY <1>1, <2>1
<1>3. ASSUME NEW u \in Requests, Receive(u) \/ Read(u) \/ Visit(u) \/ Finish(u)
                                 \/ Respond(u) \/ Panic(u) \/ End(u)
      PROVE  Held'
  <2>1. /\ mutex' = mutex /\ asking' = asking
        /\ \A r \in Requests : pc'[r] = pc[r] \/ (pc[r] # "query" /\ pc'[r] # "query")
    BY <1>3 DEF Receive, Read, Visit, Finish, Respond, Panic, End, progressVars, Shaped
  <2>2. QED BY <1>1, <2>1
<1>4. ASSUME NEW u \in Requests, NEW p, Local(u, p) \/ Take(u, p)
      PROVE  Held'
  <2>1. mutex' = mutex /\ \A r \in Requests : Kept(r)
    BY <1>4 DEF Local, Take, Shaped
  <2>2. QED BY <1>1, <2>1
<1>5. ASSUME NEW u \in Requests, Hit(u) \/ Miss(u) \/ CacheHit(u)
      PROVE  Held'
  <2>1. mutex' = mutex /\ \A r \in Requests : Kept(r)
    BY <1>5 DEF Hit, Miss, CacheHit, Sampled, progressVars, Shaped
  <2>2. QED BY <1>1, <2>1
<1> HIDE DEF Kept
<1>6. QED
  BY <1>2, <1>3, <1>4, <1>5, AskHolds, AnswerReleases DEF Next, Serve, Call, Sample

-----------------------------------------------------------------------------
(***************************************************************************)
(* Values that fail                                                        *)
(***************************************************************************)
LEMMA ResolvingStep ==
  ASSUME Shaped, [Next]_vars, NEW r \in Requests, Served(r), Resolving(r)
  PROVE  Resolving(r)'
<1> DEFINE Failed    == \E o \in observed[r] : o.sample = "error"
           WantedAll == UNION {Wanted(call[r], x) : x \in answer[r]}
           Probed    == {o.probe : o \in observed[r]}
<1>0. Resolving(r)' <=>
        (call'[r].route \in {"one", "all"} /\ pc'[r] \in {"visit", "sample", "match", "query", "respond", "done"} =>
           /\ code'[r] = 500 <=> Failed'
           /\ code'[r] # 500 => Probed' \cup todo'[r] = WantedAll')
  BY DEF Resolving
<1>1. CASE ~Moves(r)
  <2>1. Same(r)
    BY <1>1, Frame
  <2>2. QED BY <2>1 DEF Same, Resolving
<1>2. CASE Receive(r)
  <2>1. PICK c \in Calls :
          /\ call'[r] = c
          /\ pc'[r] = IF AnsweredAtOnce(c) THEN "respond" ELSE "read"
    BY <1>2 DEF Receive, Shaped
  <2>2. QED BY <2>1 DEF AnsweredAtOnce, Resolving
<1>3. CASE Read(r)
  <2>1. /\ observed'[r] = {} /\ todo'[r] = {} /\ answer'[r] = {}
        /\ code'[r] \in {200, 404}
    BY <1>3 DEF Read, Served, Shaped
  <2>2. ~Failed' /\ Probed' = {} /\ WantedAll' = {}
    BY <2>1
  <2>3. QED BY <1>0, <2>1, <2>2
<1>4. CASE Visit(r)
  <2>1. PICK x : /\ answer'[r] = answer[r] \cup {x}
                 /\ todo'[r] = Wanted(call[r], x)
    BY <1>4 DEF Visit, Shaped
  <2>2. /\ pc[r] = "visit" /\ todo[r] = {}
        /\ pc'[r] = pc[r] /\ call'[r] = call[r] /\ observed'[r] = observed[r]
        /\ code'[r] = code[r]
    BY <1>4 DEF Visit
  <2>3. WantedAll' = WantedAll \cup Wanted(call[r], x)
    BY <2>1, <2>2
  <2>4. Failed' = Failed /\ Probed' = Probed
    BY <2>2
  <2>5. call[r].route \in {"one", "all"} =>
          /\ code[r] = 500 <=> Failed
          /\ code[r] # 500 => Probed \cup todo[r] = WantedAll
    BY <2>2 DEF Resolving
  <2>6. QED BY <1>0, <2>1, <2>2, <2>3, <2>4, <2>5
<1>5. ASSUME NEW p, NEW sample \in Samples, Yielded(r, p, sample)
      PROVE  Resolving(r)'
  <2> SUFFICES ASSUME call'[r].route \in {"one", "all"}
               PROVE  /\ code'[r] = 500 <=> Failed'
                      /\ code'[r] # 500 => Probed' \cup todo'[r] = WantedAll'
    BY <1>0
  <2>1. /\ call'[r] = call[r] /\ call[r].route # "names" /\ p \in todo[r]
        /\ answer'[r] = answer[r]
        /\ observed'[r] = observed[r] \cup {[probe |-> p, sample |-> sample]}
        /\ IF sample = "error"
           THEN todo'[r] = {} /\ code'[r] = 500
           ELSE todo'[r] = todo[r] \ {p} /\ code'[r] = code[r]
    BY <1>5 DEF Yielded
  <2>2. /\ code[r] = 500 <=> Failed
        /\ code[r] # 500 => Probed \cup todo[r] = WantedAll
    BY <1>5, <2>1 DEF Resolving, Yielded
  <2> DEFINE new == [probe |-> p, sample |-> sample]
  <2>3. new.probe = p /\ new.sample = sample /\ observed'[r] = observed[r] \cup {new}
    BY <2>1
  <2> HIDE DEF new
  <2>4. Failed' <=> Failed \/ sample = "error"
    BY <2>3
  <2>5. Probed' = Probed \cup {p}
    BY <2>3
  <2>6. WantedAll' = WantedAll
    BY <2>1
  <2>7. QED BY <2>1, <2>2, <2>4, <2>5, <2>6
<1>6. CASE Asked(r)
  BY <1>6 DEF Asked, Resolving
<1>7. CASE Finish(r) \/ Respond(r) \/ Panic(r)
  BY <1>7 DEF Finish, Respond, Panic, progressVars, Resolving, Shaped
<1>8. CASE End(r)
  BY <1>8 DEF End, Resolving, Shaped
<1>9. QED
  BY <1>1, <1>2, <1>3, <1>4, <1>5, <1>6, <1>7, <1>8, ProbeEffect DEF Moves, Serve

LEMMA LoggedStep ==
  ASSUME Shaped, [Next]_vars, NEW r \in Requests, Served(r), Logged(r)
  PROVE  Logged(r)'
<1>1. CASE ~Moves(r)
  <2>1. Same(r)
    BY <1>1, Frame
  <2>2. QED BY <2>1 DEF Same, Logged, Encodable
<1>2. CASE Respond(r)
  <2>1. /\ status'[r] = code[r] /\ recorded'[r] = code[r] /\ code'[r] = code[r]
        /\ observed'[r] = observed[r]
        /\ code[r] = 200 => Encodable(r)
    BY <1>2 DEF Respond, WriteHeaders, progressVars, Shaped
  <2>2. QED BY <2>1 DEF Logged, Encodable
<1>3. CASE Panic(r)
  <2>1. status'[r] = 200 /\ recorded'[r] = 500
    BY <1>3 DEF Panic, WriteHeaders, Shaped
  <2>2. QED BY <2>1 DEF Logged
<1>4. ASSUME pc'[r] # "done"
      PROVE  Logged(r)'
  BY <1>4 DEF Logged
<1>5. CASE Receive(r) \/ Read(r) \/ Visit(r) \/ Finish(r) \/ End(r)
  BY <1>4, <1>5 DEF Receive, Read, Visit, Finish, End, Shaped
<1>6. CASE Asked(r)
  BY <1>4, <1>6 DEF Asked
<1>7. ASSUME NEW p, NEW sample, Yielded(r, p, sample)
      PROVE  Logged(r)'
  BY <1>4, <1>7 DEF Yielded
<1>8. QED
  BY <1>1, <1>2, <1>3, <1>5, <1>6, <1>7, ProbeEffect DEF Moves, Serve

-----------------------------------------------------------------------------
(***************************************************************************)
(* What an answer is of                                                    *)
(***************************************************************************)
Scope(c, env) == {x \in Entries(env) : InScope(c, x)}

Verdict(c, env) == IF c.route = "one" /\ Scope(c, env) = {} THEN 404 ELSE 200

\* What a request goes over.
Source(r) == IF r \in readers THEN Entries(store.env) ELSE copied[r]

Underway(r) == pc[r] \in {"visit", "sample", "match", "query"} /\ code[r] # 500

\* The store as it is, is among the stores there were.
Current(r) == pc[r] # "idle" => store.env \in seen[r]

Sourced(r) ==
  Underway(r) => \E env \in seen[r] : Source(r) = Scope(call[r], env)
                                      /\ code[r] = Verdict(call[r], env)

\* The check k of x was called and said what the filter wants.
Passed(r, x, k) ==
  \E o \in observed[r] : o.probe = ProbeAt(x, "status", k) /\ Passes(o.sample) = call[r].filter[k]

Told(r, x) ==
  IF x \in answer[r]
  THEN call[r].route = "names" =>
         \A k \in DOMAIN call[r].filter : ProbeAt(x, "status", k) \in todo[r] \/ Passed(r, x, k)
  ELSE call[r].route = "names" /\ FailedFilter(r, x)

\* What has been visited has been told, but for the probes still to be called,
\* which are of one environment.
Visiting(r) ==
  Underway(r) =>
    /\ visited[r] \subseteq Source(r)
    /\ \A x \in visited[r] : Told(r, x)
    /\ \A p, q \in todo[r] : p.entry = q.entry

\* The answer is what the state env of the store has to say.
SaysOf(r, env) ==
  /\ code[r] = Verdict(call[r], env)
  /\ answer[r] \subseteq Scope(call[r], env)
  /\ \A x \in Scope(call[r], env) :
       IF x \in answer[r]
       THEN call[r].route = "names" => PassedFilter(r, x)
       ELSE call[r].route = "names" /\ FailedFilter(r, x)

Settled(r) ==
  pc[r] \in {"respond", "done"} /\ call[r].route \in {"names", "one", "all"} /\ code[r] # 500 =>
    \E env \in seen[r] : SaysOf(r, env)

Snapped(r) == Current(r) /\ Sourced(r) /\ Visiting(r) /\ Settled(r)

\* A request reads the store, and none of its steps changes it.
LEMMA MovesKeepStore ==
  ASSUME NEW r \in Requests, Moves(r)
  PROVE  /\ store' = store
         /\ Receive(r) \/ End(r) \/ seen' = seen
BY ServeMoves DEF Moves, Receive, Serve, Read, Visit, Finish, Respond, Panic, End

\* What a request reads is an entry of the listing.
LEMMA ListedStep ==
  ASSUME Empty \notin Labels, Listing, Shaped, [Next]_vars, NEW r \in Requests, Served(r), Listed(r)
  PROVE  Listed(r)'
<1>1. CASE ~Moves(r)
  <2>1. Same(r)
    BY <1>1, Frame
  <2>2. QED BY <2>1 DEF Same, Listed
<1>2. CASE Read(r)
  <2>1. visited'[r] = visited[r] /\ call[r].route \in {"names", "one", "all"}
    BY <1>2 DEF Read, Served
  <2>2. CASE ListsByStatus(call[r])
    BY <1>2, <2>1, <2>2 DEF Read, Listed
  <2>3. CASE ~ListsByStatus(call[r])
    <3>1. copied'[r] \in Copies(call[r])
      BY <1>2, <2>3 DEF Read, Shaped
    <3>2. copied'[r] \subseteq Listable
      BY <2>1, <2>3, <3>1, CopiesScope, StoreEntries
    <3>3. QED BY <2>1, <3>2 DEF Listed
  <2>4. QED BY <2>2, <2>3
<1>3. CASE Visit(r)
  <2>1. PICK x \in Remaining(r) : visited'[r] = visited[r] \cup {x}
    BY <1>3 DEF Visit, Shaped
  <2>2. x \in Listable
    BY StoreEntries DEF Remaining, Listed
  <2>3. QED BY <1>3, <2>1, <2>2 DEF Visit, Listed
<1>4. ASSUME NEW p, NEW sample, Yielded(r, p, sample)
      PROVE  Listed(r)'
  BY <1>4 DEF Yielded, Listed
<1>5. CASE Asked(r)
  BY <1>5 DEF Asked, Listed
<1>6. CASE Receive(r) \/ Finish(r) \/ Respond(r) \/ Panic(r)
  BY <1>6 DEF Receive, Finish, Respond, Panic, progressVars, Listed
<1>7. CASE End(r)
  BY <1>7 DEF End, Shaped, Listed
<1>8. QED BY <1>1, <1>2, <1>3, <1>4, <1>5, <1>6, <1>7, ProbeEffect DEF Moves, Serve

LEMMA CurrentStep ==
  ASSUME Shaped, [Next]_vars, NEW r \in Requests, Served(r), Current(r)
  PROVE  Current(r)'
<1>1. CASE ~Moves(r)
  <2>1. Same(r) /\ (pc[r] # "idle" /\ store.env \in seen[r] => store'.env \in seen'[r])
    BY <1>1, Frame
  <2>2. QED BY <2>1 DEF Same, Current
<1>2. CASE Receive(r)
  BY <1>2 DEF Receive, Current, Shaped
<1>3. CASE End(r)
  BY <1>3 DEF End, Current, Shaped
<1>4. CASE Serve(r)
  <2>1. store' = store /\ seen' = seen
    BY <1>4, ServeMoves DEF Serve, Read, Visit, Finish, Respond, Panic
  <2>2. pc[r] # "idle"
    BY <1>4 DEF Serve, Read, Visit, Finish, Call, Local, Take, Sample, Hit, Miss, CacheHit, Ask,
                Answer, Respond, Panic
  <2>3. QED BY <2>1, <2>2 DEF Current
<1>5. QED BY <1>1, <1>2, <1>3, <1>4 DEF Moves

LEMMA SourcedStep ==
  ASSUME Empty \notin Labels, Listing, Shaped, [Next]_vars, NEW r \in Requests, Served(r), Current(r), Sourced(r)
  PROVE  Sourced(r)'
<1> DEFINE Of(env) == Source(r) = Scope(call[r], env) /\ code[r] = Verdict(call[r], env)
<1>1. CASE ~Moves(r)
  <2>1. Same(r) /\ (r \in readers => store' = store) /\ (pc[r] # "idle" => seen[r] \subseteq seen'[r])
    BY <1>1, Frame
  <2>2. Source(r)' = Source(r) /\ call'[r] = call[r] /\ code'[r] = code[r] /\ pc'[r] = pc[r]
    BY <2>1 DEF Same, Source
  <2>3. QED BY <2>1, <2>2 DEF Sourced, Underway
<1>2. ASSUME ~Underway(r)'
      PROVE  Sourced(r)'
  BY <1>2 DEF Sourced
<1>3. CASE Read(r)
  <2>1. /\ pc[r] = "read" /\ store.env \in seen[r] /\ code[r] = 200
        /\ call'[r] = call[r] /\ store' = store /\ seen' = seen
        /\ call[r].route \in {"names", "one", "all"}
    BY <1>3 DEF Read, Current, Served
  <2>2. CASE ListsByStatus(call[r])
    <3>1. r \in readers' /\ code'[r] = 200
      BY <1>3, <2>1, <2>2 DEF Read
    <3>2. Scope(call[r], store.env) = Entries(store.env) /\ Verdict(call[r], store.env) = 200
      BY <2>2 DEF ListsByStatus, Scope, InScope, Verdict
    <3>3. Source(r)' = Scope(call'[r], store.env) /\ code'[r] = Verdict(call'[r], store.env)
      BY <2>1, <3>1, <3>2 DEF Source
    <3>4. QED BY <2>1, <3>3 DEF Sourced
  <2>3. CASE ~ListsByStatus(call[r])
    <3>1. PICK found \in Copies(call[r]) :
            /\ copied'[r] = found
            /\ code'[r] = IF call[r].route = "one" /\ found = {} THEN 404 ELSE 200
            /\ readers' = readers
      BY <1>3, <2>3 DEF Read, Shaped
    <3>2. found = Scope(call[r], store.env)
      BY <2>1, <2>3, CopiesScope DEF Scope
    <3>3. r \notin readers'
      BY <2>3, <3>1 DEF Served
    <3>4. Source(r)' = Scope(call'[r], store.env) /\ code'[r] = Verdict(call'[r], store.env)
      BY <2>1, <3>1, <3>2, <3>3 DEF Source, Verdict
    <3>5. QED BY <2>1, <3>4 DEF Sourced
  <2>4. QED BY <2>2, <2>3
<1>4. ASSUME pc[r] \in {"visit", "sample", "match", "query"}, call'[r] = call[r], store' = store, seen' = seen,
             readers' = readers, code'[r] = 500 \/ (code'[r] = code[r] /\ copied'[r] = copied[r])
      PROVE  Sourced(r)'
  BY <1>4 DEF Sourced, Underway, Source
<1>5. CASE Visit(r)
  BY <1>4, <1>5 DEF Visit
<1>6. ASSUME NEW p, NEW sample, Yielded(r, p, sample)
      PROVE  Sourced(r)'
  BY <1>4, <1>6 DEF Yielded
<1>7. CASE Asked(r)
  BY <1>4, <1>7 DEF Asked
<1>8. CASE Receive(r) \/ Finish(r) \/ Respond(r) \/ Panic(r) \/ End(r)
  BY <1>2, <1>8 DEF Receive, Finish, Respond, Panic, End, Underway, Shaped
<1>9. QED BY <1>1, <1>3, <1>5, <1>6, <1>7, <1>8, ProbeEffect DEF Moves, Serve

\* A probe of a filter that has yielded a sample has passed, or it has excluded
\* its environment.
LEMMA FilterStep ==
  ASSUME NEW r \in Requests, Served(r), Visiting(r), Underway(r), call[r].route = "names",
         NEW p, NEW sample, Yielded(r, p, sample)
  PROVE  \A x \in visited[r] : Told(r, x)'
<1> DEFINE filter == call[r].filter
           new    == [probe |-> p, sample |-> sample]
<1> SUFFICES ASSUME NEW x \in visited[r]
             PROVE  Told(r, x)'
  OBVIOUS
<1>1. /\ p \in todo[r] /\ call'[r] = call[r]
      /\ observed'[r] = observed[r] \cup {new} /\ new.probe = p /\ new.sample = sample
      /\ IF Passes(sample) = filter[p.check]
         THEN todo'[r] = todo[r] \ {p} /\ answer'[r] = answer[r]
         ELSE todo'[r] = {} /\ answer'[r] = answer[r] \ {p.entry}
  BY DEF Yielded
<1>2. PICK l \in DOMAIN filter : p = ProbeAt(p.entry, "status", l) /\ p.check = l
  BY <1>1 DEF Served, Wanted, ProbeAt
<1>3. Told(r, x) /\ \A q \in todo[r] : q.entry = p.entry
  BY <1>1 DEF Visiting
<1>4. \A k : ProbeAt(x, "status", k).entry = x /\ ProbeAt(x, "status", k).check = k
  BY DEF ProbeAt
<1> HIDE DEF new
<1>5. \A k : Passed(r, x, k) => Passed(r, x, k)'
  BY <1>1 DEF Passed
<1>6. FailedFilter(r, x) => FailedFilter(r, x)'
  BY <1>1 DEF FailedFilter
<1>7. CASE x \notin answer[r]
  BY <1>1, <1>3, <1>6, <1>7 DEF Told
<1>8. CASE x \in answer[r] /\ Passes(sample) = filter[p.check]
  <2>1. \A k \in DOMAIN filter : ProbeAt(x, "status", k) = p => Passed(r, x, k)'
    BY <1>1, <1>4, <1>8 DEF Passed
  <2>2. \A k \in DOMAIN filter : ProbeAt(x, "status", k) \in todo'[r] \/ Passed(r, x, k)'
    BY <1>1, <1>3, <1>5, <1>8, <2>1 DEF Told
  <2>3. QED BY <1>1, <1>8, <2>2 DEF Told
<1>9. CASE x \in answer[r] /\ Passes(sample) # filter[p.check]
  <2>1. CASE x = p.entry
    <3>1. FailedFilter(r, x)'
      BY <1>1, <1>9, <2>1 DEF FailedFilter
    <3>2. QED BY <1>1, <1>9, <2>1, <3>1 DEF Told
  <2>2. CASE x # p.entry
    <3>1. \A k : ProbeAt(x, "status", k) \notin todo[r]
      BY <1>3, <1>4, <2>2
    <3>2. \A k \in DOMAIN filter : Passed(r, x, k)'
      BY <1>3, <1>5, <1>9, <3>1 DEF Told
    <3>3. QED BY <1>1, <1>9, <2>2, <3>2 DEF Told
  <2>3. QED BY <2>1, <2>2
<1>10. QED BY <1>7, <1>8, <1>9

LEMMA VisitingStep ==
  ASSUME Shaped, [Next]_vars, NEW r \in Requests, Served(r), Visiting(r)
  PROVE  Visiting(r)'
<1>1. CASE ~Moves(r)
  <2>1. Same(r) /\ (r \in readers => store' = store)
    BY <1>1, Frame
  <2>2. Source(r)' = Source(r)
    BY <2>1 DEF Same, Source
  <2>3. QED BY <2>1, <2>2 DEF Same, Visiting, Underway, Told, Passed, FailedFilter
<1>2. ASSUME ~Underway(r)'
      PROVE  Visiting(r)'
  BY <1>2 DEF Visiting
<1>3. CASE Read(r)
  BY <1>3 DEF Read, Served, Visiting, Shaped
<1>4. CASE Visit(r)
  <2> SUFFICES ASSUME Underway(r)'
               PROVE  Visiting(r)'
    BY <1>2
  <2>1. PICK x \in Remaining(r) :
          /\ visited'[r] = visited[r] \cup {x}
          /\ answer'[r] = answer[r] \cup {x}
          /\ todo'[r] = Wanted(call[r], x)
    BY <1>4 DEF Visit, Shaped
  <2>2. /\ pc[r] = "visit" /\ todo[r] = {}
        /\ UNCHANGED <<store, readers, pc, call, copied, observed, code>>
    BY <1>4 DEF Visit
  <2>3. Underway(r) /\ Source(r)' = Source(r)
    BY <2>2 DEF Underway, Source
  <2>4. x \in Source(r) /\ x \notin visited[r]
    BY <2>1 DEF Remaining, Source
  <2>5. \A p, q \in todo'[r] : p.entry = q.entry
    BY <2>1, <2>2, WantedEntry DEF Served
  <2>6. Told(r, x)'
    <3>1. call[r].route = "names" =>
            \A k \in DOMAIN call[r].filter : ProbeAt(x, "status", k) \in todo'[r]
      BY <2>1 DEF Wanted
    <3>2. QED BY <2>1, <2>2, <3>1 DEF Told
  <2>7. ASSUME NEW y \in visited[r]
        PROVE  Told(r, y)'
    <3>1. Told(r, y) /\ y # x
      BY <2>3, <2>4 DEF Visiting
    <3>2. y \in answer'[r] <=> y \in answer[r]
      BY <2>1, <3>1
    <3>3. (FailedFilter(r, y) <=> FailedFilter(r, y)') /\ \A k : Passed(r, y, k) <=> Passed(r, y, k)'
      BY <2>2 DEF FailedFilter, Passed
    <3>4. QED BY <2>2, <3>1, <3>2, <3>3 DEF Told
  <2>8. QED BY <2>1, <2>3, <2>4, <2>5, <2>6, <2>7 DEF Visiting
<1>5. ASSUME NEW p, NEW sample, Yielded(r, p, sample)
      PROVE  Visiting(r)'
  <2> SUFFICES ASSUME Underway(r)'
               PROVE  Visiting(r)'
    BY <1>2
  <2>1. /\ Underway(r) /\ call'[r] = call[r] /\ visited'[r] = visited[r]
        /\ copied'[r] = copied[r] /\ todo'[r] \subseteq todo[r]
        /\ readers' = readers /\ store' = store
    BY <1>5 DEF Yielded, Underway
  <2>2. Source(r)' = Source(r)
    BY <2>1 DEF Source
  <2>3. CASE call[r].route = "names"
    BY <1>5, <2>1, <2>2, <2>3, FilterStep DEF Visiting
  <2>4. CASE call[r].route # "names"
    <3>1. answer'[r] = answer[r]
      BY <1>5, <2>4 DEF Yielded
    <3>2. \A x \in visited[r] : Told(r, x)'
      BY <2>1, <2>4, <3>1 DEF Visiting, Told
    <3>3. QED BY <2>1, <2>2, <3>2 DEF Visiting
  <2>5. QED BY <2>3, <2>4
<1>6. CASE Asked(r)
  <2>1. /\ pc[r] \in {"visit", "sample", "match"} /\ UNCHANGED <<store, readers>>
        /\ call'[r] = call[r] /\ copied'[r] = copied[r] /\ visited'[r] = visited[r]
        /\ todo'[r] = todo[r] /\ observed'[r] = observed[r] /\ answer'[r] = answer[r]
        /\ code'[r] = code[r]
    BY <1>6 DEF Asked
  <2>2. Source(r)' = Source(r)
    BY <2>1 DEF Source
  <2>3. QED BY <2>1, <2>2 DEF Visiting, Underway, Told, Passed, FailedFilter
<1>7. CASE Receive(r) \/ Finish(r) \/ Respond(r) \/ Panic(r) \/ End(r)
  BY <1>2, <1>7 DEF Receive, Finish, Respond, Panic, End, Underway, Shaped
<1>8. QED BY <1>1, <1>3, <1>4, <1>5, <1>6, <1>7, ProbeEffect DEF Moves, Serve

LEMMA SettledStep ==
  ASSUME Shaped, [Next]_vars, NEW r \in Requests,
         Served(r), Sourced(r), Visiting(r), Settled(r)
  PROVE  Settled(r)'
<1>1. ASSUME call'[r] = call[r], code'[r] = code[r], answer'[r] = answer[r],
             observed'[r] = observed[r], NEW env, SaysOf(r, env)
      PROVE  SaysOf(r, env)'
  BY <1>1 DEF SaysOf, PassedFilter, FailedFilter
<1>2. CASE ~Moves(r)
  <2>1. Same(r) /\ (pc[r] # "idle" => seen[r] \subseteq seen'[r])
    BY <1>2, Frame
  <2>2. QED BY <1>1, <2>1 DEF Same, Settled
<1>3. CASE Finish(r)
  <2> SUFFICES ASSUME code'[r] # 500, call'[r].route \in {"names", "one", "all"}
               PROVE  \E env \in seen'[r] : SaysOf(r, env)'
    BY DEF Settled
  <2>1. /\ pc[r] = "visit" /\ todo[r] = {} /\ Remaining(r) = {}
        /\ call' = call /\ code' = code /\ answer' = answer /\ observed' = observed
        /\ seen' = seen
    BY <1>3 DEF Finish, progressVars
  <2>2. Underway(r)
    BY <2>1 DEF Underway
  <2>3. PICK env \in seen[r] :
          Source(r) = Scope(call[r], env) /\ code[r] = Verdict(call[r], env)
    BY <2>2 DEF Sourced
  <2>4. visited[r] = Scope(call[r], env)
    <3>1. Remaining(r) = Source(r) \ visited[r]
      BY DEF Remaining, Source
    <3>2. visited[r] \subseteq Source(r)
      BY <2>2 DEF Visiting
    <3>3. QED BY <2>1, <2>3, <3>1, <3>2
  <2>5. answer[r] \subseteq visited[r]
    BY DEF Served
  <2>6. ASSUME NEW x \in visited[r]
        PROVE  IF x \in answer[r]
               THEN call[r].route = "names" => PassedFilter(r, x)
               ELSE call[r].route = "names" /\ FailedFilter(r, x)
    BY <2>1, <2>2 DEF Visiting, Told, Passed, PassedFilter
  <2>7. SaysOf(r, env)
    BY <2>3, <2>4, <2>5, <2>6 DEF SaysOf
  <2>8. QED BY <1>1, <2>1, <2>7
<1>4. CASE Respond(r) \/ Panic(r)
  <2>1. /\ pc[r] = "respond"
        /\ UNCHANGED <<call, code, answer, observed, seen>>
    BY <1>4 DEF Respond, Panic, progressVars
  <2>2. QED BY <1>1, <2>1 DEF Settled
<1>5. CASE Receive(r)
  BY <1>5 DEF Receive, AnsweredAtOnce, Settled, Shaped
<1>6. ASSUME pc'[r] \notin {"respond", "done"}
      PROVE  Settled(r)'
  BY <1>6 DEF Settled
<1>7. CASE Read(r) \/ Visit(r) \/ End(r)
  BY <1>6, <1>7 DEF Read, Visit, End, Shaped
<1>8. CASE Asked(r)
  BY <1>6, <1>8 DEF Asked
<1>9. ASSUME NEW p, NEW sample, Yielded(r, p, sample)
      PROVE  Settled(r)'
  BY <1>6, <1>9 DEF Yielded
<1>10. QED
  BY <1>2, <1>3, <1>4, <1>5, <1>7, <1>8, <1>9, ProbeEffect DEF Moves, Serve

-----------------------------------------------------------------------------
(***************************************************************************)
(* The theorems                                                            *)
(***************************************************************************)
\* What the handler of events counts and has left to build.
Counting ==
  /\ unbuilt \subseteq Queries /\ (unbuilt # {} <=> stage = "build")
  /\ events \in 0..MaxEvents

LEMMA CountingStep == Counting /\ [Next]_vars => Counting'
<1> SUFFICES ASSUME Counting, [Next]_vars PROVE Counting'
  OBVIOUS
<1>1. ASSUME NEW n \in Namespaces, Notify(n)
      PROVE  Counting'
  <2>1. events' \in 0..MaxEvents
    BY <1>1, ServerAssumption DEF Notify, Counting
  <2>2. /\ unbuilt' = {} \/ \E ns : unbuilt' = ProbersOf(ns)
        /\ stage' = IF unbuilt' = {} THEN "lock" ELSE "build"
    BY <1>1 DEF Notify
  <2>3. unbuilt' \subseteq Queries
    BY <2>2 DEF ProbersOf, Queries
  <2>4. QED BY <2>1, <2>2, <2>3 DEF Counting
<1>2. CASE Handle
  BY <1>2 DEF Handle, Build, Buildable, Lock, Write, Change, Counting
<1>3. ASSUME NEW r \in Requests, Moves(r)
      PROVE  UNCHANGED handlerVars
  BY <1>3, ServeMoves DEF Moves, Receive, Serve, Read, Visit, Finish, Respond, Panic, End
<1>4. CASE UNCHANGED vars
  BY <1>4 DEF vars, handlerVars, Counting
<1>5. QED BY <1>1, <1>2, <1>3, <1>4 DEF Next, Moves, handlerVars, Counting

\* The types of what the invariants of a single request say the values of.
Typed ==
  /\ pc \in [Requests -> {"idle", "read", "visit", "sample", "match", "query", "respond", "done"}]
  /\ generation \in [Namespaces -> Nat]
  /\ used \in [Requests -> [Namespaces -> Nat]]
  /\ call \in [Requests -> Calls \cup {NoCall}]
  /\ code \in [Requests -> {200, 204, 404, 500}]
  /\ status \in [Requests -> {0, 200, 204, 404, 500}]
  /\ recorded \in [Requests -> {200, 204, 404, 500}]

LEMMA TypedStep == Typed /\ [Next]_vars => Typed'
<1> SUFFICES ASSUME Typed, [Next]_vars PROVE Typed'
  OBVIOUS
<1>1. CASE UNCHANGED <<pc, call, used, code, status, recorded>> /\ generation' \in [Namespaces -> Nat]
  BY <1>1 DEF Typed
<1>2. CASE (\E n \in Namespaces : Notify(n)) \/ Handle \/ UNCHANGED vars
  <2>1. UNCHANGED <<pc, call, used, code, status, recorded>>
    BY <1>2 DEF Notify, Handle, Build, Lock, Write, Change, vars, requestVars, progressVars,
                responseVars
  <2>2. generation' = generation \/ generation' = [generation EXCEPT ![Subject] = @ + 1]
    BY <1>2 DEF Notify, Handle, Build, Lock, Write, Change, vars, handlerVars
  <2>3. generation' \in [Namespaces -> Nat]
    BY <2>2 DEF Typed
  <2>4. QED BY <1>1, <2>1, <2>3
<1>3. ASSUME NEW r \in Requests, Moves(r)
      PROVE  generation' \in [Namespaces -> Nat]
  BY <1>3, ServeMoves DEF Moves, Serve, Receive, Read, Visit, Finish, Respond, Panic, End,
                          handlerVars, Typed
<1> DEFINE Others == /\ pc' \in [Requests -> {"idle", "read", "visit", "sample", "match", "query",
                                             "respond", "done"}]
                     /\ call' \in [Requests -> Calls \cup {NoCall}]
                     /\ used' \in [Requests -> [Namespaces -> Nat]]
                     /\ code' \in [Requests -> {200, 204, 404, 500}]
                     /\ status' \in [Requests -> {0, 200, 204, 404, 500}]
                     /\ recorded' \in [Requests -> {200, 204, 404, 500}]
<1>4. ASSUME NEW r \in Requests, Receive(r)
      PROVE  Others
  BY <1>4 DEF Receive, responseVars, Typed
<1>5. ASSUME NEW r \in Requests, Read(r)
      PROVE  Others
  <2>1. code' \in [Requests -> {200, 204, 404, 500}]
    BY <1>5 DEF Read, Typed
  <2>2. generation \in [Namespaces -> Nat] /\ used' = [used EXCEPT ![r] = generation]
    BY <1>5 DEF Read, Typed
  <2>3. UNCHANGED <<call, status, recorded>> /\ pc' = [pc EXCEPT ![r] = "visit"]
    BY <1>5 DEF Read, responseVars
  <2>4. used' \in [Requests -> [Namespaces -> Nat]]
    BY <2>2 DEF Typed
  <2>5. QED BY <2>1, <2>3, <2>4 DEF Typed
<1>6. ASSUME NEW r \in Requests, Visit(r) \/ Finish(r)
      PROVE  Others
  BY <1>6 DEF Visit, Finish, progressVars, responseVars, Typed
<1>7. ASSUME NEW r \in Requests, NEW p, NEW sample, Yield(r, p, sample)
      PROVE  code' \in [Requests -> {200, 204, 404, 500}]
  BY <1>7 DEF Yield, Filtered, Resolved, Typed
<1>8. ASSUME NEW r \in Requests, Call(r) \/ Sample(r) \/ Answer(r)
      PROVE  Others
  <2>1. UNCHANGED <<call, used, status, recorded>>
    <3>1. UNCHANGED <<call, status, recorded>>
      BY <1>8, ServeMoves DEF responseVars
    <3>2. used' = used
      BY <1>8 DEF Call, Local, Take, Sample, Hit, Miss, CacheHit, Ask, Answer, Sampled, progressVars
    <3>3. QED BY <3>1, <3>2
  <2>2. code' \in [Requests -> {200, 204, 404, 500}]
    <3>1. CASE (\E p : Local(r, p)) \/ Hit(r) \/ CacheHit(r) \/ Answer(r)
      BY <1>7, <3>1 DEF Local, Hit, CacheHit, Answer, Sampled
    <3>2. CASE (\E p : Take(r, p)) \/ Miss(r) \/ Ask(r)
      BY <3>2 DEF Take, Miss, Ask, progressVars, Typed
    <3>3. QED BY <1>8, <3>1, <3>2 DEF Call, Sample
  <2>3. pc' \in [Requests -> {"idle", "read", "visit", "sample", "match", "query", "respond", "done"}]
    BY <1>8 DEF Call, Local, Take, Sample, Hit, Miss, CacheHit, Ask, Answer, Sampled, Typed
  <2>4. QED BY <2>1, <2>2, <2>3 DEF Typed
<1>9. ASSUME NEW r \in Requests, Respond(r) \/ Panic(r)
      PROVE  Others
  <2>1. /\ status' \in [Requests -> {0, 200, 204, 404, 500}]
        /\ recorded' \in [Requests -> {200, 204, 404, 500}]
    <3>1. CASE Respond(r)
      <4>1. /\ status' = [status EXCEPT ![r] = code[r]]
            /\ recorded' = [recorded EXCEPT ![r] = code[r]]
        BY <3>1 DEF Respond, WriteHeaders
      <4>2. code[r] \in {200, 204, 404, 500}
        BY DEF Typed
      <4>3. QED BY <4>1, <4>2 DEF Typed
    <3>2. CASE Panic(r)
      <4>1. status' = [status EXCEPT ![r] = 200] /\ recorded' = [recorded EXCEPT ![r] = 500]
        BY <3>2 DEF Panic, WriteHeaders
      <4>2. QED BY <4>1 DEF Typed
    <3>3. QED BY <1>9, <3>1, <3>2
  <2>2. UNCHANGED <<call, used, code>> /\ pc' = [pc EXCEPT ![r] = "done"]
    BY <1>9 DEF Respond, Panic, progressVars
  <2>3. QED BY <2>1, <2>2 DEF Typed
<1>10. ASSUME NEW r \in Requests, End(r)
      PROVE  Others
  BY <1>10 DEF End, NoExecutors, Typed
<1>11. ASSUME NEW r \in Requests, Moves(r)
       PROVE  Others
  BY <1>4, <1>5, <1>6, <1>8, <1>9, <1>10, <1>11 DEF Moves, Serve
<1>12. QED BY <1>2, <1>3, <1>11 DEF Next, Moves, Typed

\* What holds whatever the labels are: requests and the handler are in an order,
\* and hold the locks they should, and answers are honest about what failed.
Serving ==
  /\ Counting /\ Shaped /\ Typed /\ AllServed /\ Held
  /\ \A r \in Requests : Resolving(r) /\ Logged(r)

\* In every reachable state, however the steps of the requests and of the handler of
\* events come between one another.
THEOREM ServingInvariance == SafetySpec => []Serving
<1>1. Init => Serving
  <2> SUFFICES ASSUME Init PROVE Serving
    OBVIOUS
  <2>1. Counting /\ Shaped /\ Typed
    BY ServerAssumption DEF Init, NoExecutors, Counting, Shaped, Typed
  <2>2. AllServed
    BY DEF Init, AllServed, Served
  <2>3. Held
    BY ServerAssumption DEF Init, Held
  <2>4. \A r \in Requests : Resolving(r) /\ Logged(r)
    BY DEF Init, NoCall, Resolving, Logged
  <2>5. QED BY <2>1, <2>2, <2>3, <2>4 DEF Serving
<1>2. Serving /\ [Next]_vars => Serving'
  <2> SUFFICES ASSUME Serving, [Next]_vars PROVE Serving'
    OBVIOUS
  <2> USE DEF Serving
  <2>1. Counting' /\ Shaped' /\ Typed' /\ AllServed' /\ Held'
    BY CountingStep, ShapedStep, TypedStep, ServedStep, HeldStep
  <2>2. \A r \in Requests : Resolving(r)' /\ Logged(r)'
    BY ResolvingStep, LoggedStep DEF AllServed
  <2>3. QED BY <2>1, <2>2
<1>3. QED BY <1>1, <1>2, PTL DEF SafetySpec

\* With labels that are not empty, what is read is an entry of the listing, and the
\* answers are of one state of the store.
IInv ==
  /\ Serving /\ Listing
  /\ \A r \in Requests : Listed(r) /\ Snapped(r)

\* The listing and the answers hold together.
THEOREM ServerInvariance ==
  ASSUME Empty \notin Labels
  PROVE  SafetySpec => []IInv
<1>1. Init => Listing /\ \A r \in Requests : Listed(r) /\ Snapped(r)
  <2>1. Init => \A r \in Requests : Listed(r) /\ Snapped(r)
    BY DEF Init, NoCall, Listed, Snapped, Current, Sourced, Visiting, Underway, Settled
  <2>2. QED BY <2>1, ListingInit
<1>2. IInv /\ Serving' /\ [Next]_vars => IInv'
  <2> SUFFICES ASSUME IInv, Serving', [Next]_vars PROVE IInv'
    OBVIOUS
  <2> USE DEF IInv, Serving
  <2>1. Listing'
    BY ListingStep
  <2>2. ASSUME NEW r \in Requests
        PROVE  Listed(r)' /\ Snapped(r)'
    <3>1. Served(r) /\ Listed(r) /\ Snapped(r)
      BY DEF AllServed
    <3>2. QED
      BY <3>1, ListedStep, CurrentStep, SourcedStep, VisitingStep, SettledStep DEF Snapped
  <2>3. QED BY <2>1, <2>2
<1>3. QED BY ServingInvariance, <1>1, <1>2, PTL DEF SafetySpec, IInv

\* The variables of the server keep their types, the read lock is held by requests
\* that list by status, and each mutex by the request that asks (server.go, store.go,
\* bulk.go).
THEOREM ServerTypeCorrect ==
  ASSUME Empty \notin Labels
  PROVE  SafetySpec => []TypeOK
<1>1. IInv => TypeOK
  <2> SUFFICES ASSUME IInv PROVE TypeOK
    OBVIOUS
  <2> USE DEF IInv, Serving
  <2>1. Entries(store.env) \subseteq Listable
    BY StoreEntries
  <2>2. /\ store.envInfo \subseteq Labels \X Namespaces
        /\ delivered \in [Namespaces -> Objects \cup {Absent}]
        /\ event \in [old: Objects \cup {Absent}, new: Objects \cup {Absent}]
        /\ stage \in {"idle", "build", "lock", "waiting"}
    BY DEF Listing, ObjectOrAbsent
  <2>3. readers \subseteq {r \in Requests : ListsByStatus(call[r]) /\ pc[r] \in {"visit", "sample", "match", "query"}}
    BY DEF Shaped, AllServed, Served
  <2>4. /\ \A r \in Requests :
             /\ copied[r] \cup visited[r] \cup answer[r] \subseteq Listable
             /\ IF pc[r] \in {"sample", "match", "query"} THEN asking[r] \in todo[r] ELSE asking[r] = None
             /\ \A o \in observed[r] : o.sample \in Samples /\ o.probe.entry \in visited[r]
    BY DEF AllServed, Served, Listed
  <2>5. QED BY <2>1, <2>2, <2>3, <2>4 DEF TypeOK, Counting, Held, Typed
<1>2. QED BY ServerInvariance, <1>1, PTL

\* An answer is of one state of the store, which it was in while the request ran,
\* whatever events were handled meanwhile (store.go reads, server.go handlers).
THEOREM AnswersAreSnapshots ==
  ASSUME Empty \notin Labels
  PROVE  SafetySpec => []Snapshot
<1>1. IInv => Snapshot
  <2> SUFFICES ASSUME IInv, NEW r \in Requests, pc[r] = "done", code[r] # 500,
                      call[r].route \in {"names", "one", "all"}
               PROVE  \E env \in seen[r] :
                        LET scope == {x \in Entries(env) : InScope(call[r], x)}
                        IN  /\ code[r] = (IF call[r].route = "one" /\ scope = {} THEN 404 ELSE 200)
                            /\ answer[r] \subseteq scope
                            /\ \A x \in scope :
                                 IF x \in answer[r]
                                 THEN call[r].route = "names" => PassedFilter(r, x)
                                 ELSE call[r].route = "names" /\ FailedFilter(r, x)
    BY DEF Snapshot
  <2>1. PICK env \in seen[r] : SaysOf(r, env)
    BY DEF IInv, Snapped, Settled
  <2>2. QED BY <2>1 DEF SaysOf, Scope, Verdict
<1>2. QED BY ServerInvariance, <1>1, PTL

\* A probe of an entry that asks Prometheus is one of a configured query.
LEMMA ConfiguredQuery ==
  ASSUME NEW x \in Listable, NEW c, c.route \in {"names", "one", "all"}, NEW p \in Wanted(c, x),
         AsksPrometheus(p)
  PROVE  Query(p) \in Queries
<1>1. PICK o \in Objects : x = <<o.Label, EnvironmentOf(o)>>
  BY DEF Listable
<1>2. p.entry = x /\ p.kind \in {"status", "metadata"}
      /\ (p.kind = "metadata" => p.check \in DOMAIN x[2].MetaProbes)
  BY DEF Wanted, ProbeAt
<1>3. x[2].StatusChecks = buildStatusChecks(o.Label, o)
      /\ x[2].MetaProbes = buildMetadataProbes(o.Label, o)
  BY <1>1 DEF EnvironmentOf
<1>4. CASE p.kind = "status"
  <2>1. p.check \in DOMAIN x[2].StatusChecks /\ x[2].StatusChecks[p.check].kind = "prometheus"
    BY <1>2, <1>4 DEF AsksPrometheus, Missing, Probe
  <2>2. p.check \in StatusProbers
    BY <1>3, <2>1 DEF buildStatusChecks, StaticProbe
  <2>3. QED BY <1>4, <2>2 DEF Query, Queries
<1>5. CASE p.kind = "metadata"
  <2>1. p.check \in DOMAIN x[2].MetaProbes /\ x[2].MetaProbes[p.check].kind = "prometheus"
    BY <1>2, <1>5 DEF AsksPrometheus, Missing, Probe
  <2>2. p.check \in MetadataProbers
    BY <1>3, <2>1 DEF buildMetadataProbes, parseMetadataAnnotation, StaticProbe
  <2>3. QED BY <1>5, <2>2 DEF Query, Queries
<1>6. QED BY <1>2, <1>4, <1>5

\* However many requests there are, nobody waits in a circle: following who waits for
\* whom, from the handler to the readers of the store, to the holders of executors, to
\* those of bulk queries, one comes to somebody that nothing stops (store.go, query.go
\* sample, bulk.go).
THEOREM NobodyWaitsInACircle ==
  ASSUME Empty \notin Labels
  PROVE  SafetySpec => []NoCircularWait
<1> DEFINE GoesOn(o) == pc[o] \notin {"idle", "done"} /\ ~Stopped(o)
           Someone   == \E o \in Requests : GoesOn(o)
<1>1. IInv => NoCircularWait
  <2> SUFFICES ASSUME IInv, HandlerStopped \/ \E r \in Requests : Stopped(r)
               PROVE  (stage # "idle" /\ ~HandlerStopped) \/ Someone
    BY DEF NoCircularWait
  <2>0. Counting /\ Held /\ AllServed /\ Shaped /\ \A r \in Requests : Listed(r)
    BY DEF IInv, Serving
  <2>1. ASSUME NEW q \in Queries, mutex[q] # None
        PROVE  Someone
    <3>1. PICK o \in Requests : mutex[q] = o
      BY <2>0, <2>1 DEF Held
    <3>2. pc[o] = "query"
      BY <2>0, <3>1 DEF Held
    <3>3. QED BY <3>2 DEF Stopped
  <2>2. ASSUME NEW r \in Requests, pc[r] \in {"match", "query"}
        PROVE  Someone
    <3>1. CASE ~Stopped(r)
      BY <2>2, <3>1
    <3>2. CASE Stopped(r)
      <4>1. pc[r] = "match" /\ mutex[Query(asking[r])] # None
        BY <2>2, <3>2 DEF Stopped
      <4>2. Served(r) /\ Listed(r)
        BY <2>0 DEF AllServed
      <4>3. /\ AsksPrometheus(asking[r]) /\ call[r].route \in {"names", "one", "all"}
            /\ asking[r] \in Wanted(call[r], asking[r].entry) /\ asking[r].entry \in Listable
        BY <4>1, <4>2 DEF Served, Listed
      <4>4. Query(asking[r]) \in Queries
        BY <4>3, ConfiguredQuery
      <4>5. QED BY <2>1, <4>1, <4>4
    <3>3. QED BY <3>1, <3>2
  <2>3. ASSUME NEW r \in Requests, pc[r] \in {"visit", "sample", "match", "query"}
        PROVE  Someone
    <3>1. CASE ~Stopped(r)
      BY <2>3, <3>1
    <3>2. CASE Stopped(r) /\ pc[r] = "sample"
      <4>1. PICK o \in Requests : pc[o] \in {"match", "query"}
        BY <3>2 DEF Stopped, Busy
      <4>2. QED BY <2>2, <4>1
    <3>3. CASE pc[r] \in {"match", "query"}
      BY <2>2, <3>3
    <3>4. CASE pc[r] = "visit"
      BY <3>4 DEF Stopped
    <3>5. QED BY <2>3, <3>1, <3>2, <3>3, <3>4
  <2>4. ASSUME readers # {}
        PROVE  Someone
    <3>1. PICK r \in Requests : r \in readers
      BY <2>0, <2>4 DEF Shaped
    <3>2. pc[r] \in {"visit", "sample", "match", "query"}
      BY <2>0, <3>1 DEF AllServed, Served
    <3>3. QED BY <2>3, <3>2
  <2>5. CASE HandlerStopped
    <3>1. CASE stage = "waiting"
      BY <2>4, <2>5, <3>1 DEF HandlerStopped
    <3>2. CASE stage = "build"
      <4>1. unbuilt # {} /\ unbuilt \subseteq Queries
        BY <2>0, <3>2 DEF Counting
      <4>2. PICK q \in unbuilt : q[1] = "status" \/ \A p \in unbuilt : p[1] # "status"
        BY <4>1
      <4>3. \A p \in unbuilt : p[1] \in {"status", "metadata"}
        BY <4>1 DEF Queries
      <4>4. q \in Buildable
        BY <4>2, <4>3 DEF Buildable
      <4>5. mutex[q] # None /\ q \in Queries
        BY <2>5, <3>2, <4>1, <4>4 DEF HandlerStopped
      <4>6. QED BY <2>1, <4>5
    <3>3. QED BY <2>5, <3>1, <3>2 DEF HandlerStopped
  <2>6. ASSUME NEW r \in Requests, Stopped(r)
        PROVE  (stage # "idle" /\ ~HandlerStopped) \/ Someone
    <3>1. CASE pc[r] = "read"
      BY <2>4, <2>6, <3>1 DEF Stopped, CanRead, HandlerStopped
    <3>2. CASE pc[r] \in {"sample", "match"}
      BY <2>3, <3>2
    <3>3. QED BY <2>6, <3>1, <3>2 DEF Stopped
  <2>7. QED BY <2>5, <2>6
<1>2. QED BY ServerInvariance, <1>1, PTL

\* No environment is reported with a part of its probes, and a request is refused
\* only because a probe failed (environment.go ResolveProbes).
THEOREM ValuesAllOrNothing == SafetySpec => []AllOrNothing
<1>1. Serving => AllOrNothing
  <2> SUFFICES ASSUME Serving, NEW r \in Requests, pc[r] = "done", call[r].route \in {"one", "all"}
               PROVE  /\ code[r] = 500 <=> \E o \in observed[r] : o.sample = "error"
                      /\ code[r] = 200 => {o.probe : o \in observed[r]}
                                            = UNION {Wanted(call[r], x) : x \in answer[r]}
    BY DEF AllOrNothing
  <2>1. Resolving(r) /\ todo[r] = {}
    BY DEF Serving, AllServed, Served
  <2>2. QED BY <2>1 DEF Resolving
<1>2. QED BY ServingInvariance, <1>1, PTL

\* The log has 200 only for a response that is whole (server.go statusRecorder,
\* mustEncodeResponse, middlewarePanicRecovery).
THEOREM LogIsHonest == SafetySpec => []LogKnowsFailures
<1>1. Serving => LogKnowsFailures
  BY DEF Serving, Logged, Resolving, LogKnowsFailures
<1>2. QED BY ServingInvariance, <1>1, PTL
=============================================================================
