--------------------------- MODULE IgnitionProofs ---------------------------
(***************************************************************************)
(* Theorems about ignition triggers, for every set of environments, any    *)
(* number of triggers, and any bound on the changes and on the clock.      *)
(*                                                                         *)
(* The argument: an entry is stored under the name it bears (Listed), so   *)
(* a trigger that finds one has the environment it was asked for, with     *)
(* labels that name had since the request (Labelled).  Its time is read    *)
(* after its start (Sequenced), no trigger writes a time before the start  *)
(* of the oldest one it overlaps (Overlapping), and a series keeps its     *)
(* time when it is made a second time, so what an accepted trigger left in *)
(* the gauge never falls below what it overlapped (Visible).               *)
(***************************************************************************)
EXTENDS Ignition, EnvironmentStoreProofs, FiniteSetTheorems,
        WellFoundedInduction, TLAPS

\* What the store can hold: an update in place takes the fields of another
\* environment, and keeps the labels.
Entries == {e \in Storable : InfoLabels(e) \in Series}

Listed(s) ==
  \A n \in DOMAIN s.env :
    /\ s.env[n] \in Entries
    /\ n # Empty => s.env[n].Name = n

\* The variables have their types.
Typed ==
  /\ Listed(store)
  /\ changes \in 0..MaxChanges
  /\ clock \in 1..MaxTime
  /\ pc \in [Triggers -> {"idle", "lookup", "trigger", "clock", "set", "count", "done"}]
  /\ name \in [Triggers -> Names \cup {Empty}]
  /\ found \in [Triggers -> Entries \cup {Nil}]
  /\ stamp \in [Triggers -> Nat]
  /\ code \in [Triggers -> {0, 202, 404, 500}]
  /\ start \in [Triggers -> Nat]
  /\ oldest \in [Triggers -> Nat]
  /\ bound \in [Triggers -> SUBSET Series]

\* What a trigger knows follows from how far it is.
Sequenced ==
  \A t \in Triggers :
    /\ pc[t] # "idle" => name[t] \in Names
    /\ pc[t] \in {"idle", "lookup"} => found[t] = Nil
    /\ pc[t] \in {"trigger", "clock", "set", "count"} => found[t] \in Entries
    /\ pc[t] = "done" => (code[t] = 404 /\ found[t] = Nil) \/ (code[t] # 404 /\ found[t] \in Entries)
    /\ pc[t] \in {"idle", "lookup", "trigger", "clock", "set"} => code[t] = 0
    /\ pc[t] = "count" => code[t] \in {202, 500}
    /\ pc[t] = "set" => stamp[t] # 0
    /\ start[t] <= clock
    /\ pc[t] \in {"idle", "lookup", "trigger", "clock"} => stamp[t] = 0
    /\ stamp[t] # 0 => start[t] <= stamp[t] /\ stamp[t] <= clock

\* RightSeries, and that a request under way has seen every label of its name.
Labelled ==
  /\ RightSeries
  /\ \A t \in Active : LabelsOf(store, name[t]) \subseteq bound[t]

\* The domains and the values of the metrics.
Measured ==
  /\ DOMAIN gauge \subseteq Series
  /\ \A s \in DOMAIN gauge : gauge[s] \in 0..clock
  /\ DOMAIN counter \subseteq Series \X {"accepted", "error"}

\* CountedHaveTimes, and that a trigger that set its series has a time there.
Counted ==
  /\ CountedHaveTimes
  /\ \A t \in Triggers : pc[t] = "count" => ValueAt(gauge, InfoLabels(found[t])) > 0

\* A trigger that is under way began no earlier than the oldest one that any
\* other has overlapped.
Overlapping ==
  /\ \A t, u \in Triggers : pc[t] # "idle" /\ u \in Active => oldest[t] <= start[u]
  /\ \A t \in Triggers : oldest[t] <= clock

\* AcceptedIsVisible, from the moment the series is set.
Visible ==
  \A t \in Triggers : code[t] = 202 => oldest[t] <= ValueAt(gauge, InfoLabels(found[t]))

IInv == Typed /\ Sequenced /\ Labelled /\ Measured /\ Counted /\ Overlapping /\ Visible

-----------------------------------------------------------------------------
(***************************************************************************)
(* Lemmas about the store and the metrics                                  *)
(***************************************************************************)
\* The environments of events are entries the store can hold.
LEMMA EnvironmentIsEntry == Environments \subseteq Entries
BY EnvironmentsAssumption DEF Entries, Series

\* An entry is not nil.
LEMMA EntryIsNotNil == Nil \notin Entries
BY EnvironmentsAssumption DEF Entries

\* Whichever of its branches an update takes in place, what it stores has the
\* fields of environments, and the labels of the entry it updates.
LEMMA UpdatedIsEntry ==
  ASSUME NEW c \in Entries, NEW e \in Environments
  PROVE  LET u == UpdatedEnvironment(c, e) IN
           u \in Entries /\ u.Name = c.Name
<1> DEFINE u == UpdatedEnvironment(c, e)
<1>1. c \in Storable /\ e \in Storable /\ InfoLabels(c) \in Series
  BY EnvironmentsAssumption DEF Entries
<1>2. /\ Given(e.URL, c.URL) \in {x.URL : x \in Environments}
      /\ Given(e.StatusChecks, c.StatusChecks) \in {x.StatusChecks : x \in Environments}
      /\ Given(e.MetaProbes, c.MetaProbes) \in {x.MetaProbes : x \in Environments}
  BY <1>1 DEF Given, Storable
<1>3. u = [c EXCEPT !.URL = Given(e.URL, c.URL),
                    !.StatusChecks = Given(e.StatusChecks, c.StatusChecks),
                    !.MetaProbes = Given(e.MetaProbes, c.MetaProbes)]
  BY <1>1 DEF UpdatedEnvironment, Storable
<1>4. u \in Storable /\ u.Name = c.Name /\ u.Namespace = c.Namespace
  BY <1>1, <1>2, <1>3 DEF Storable
<1>5. QED BY <1>1, <1>4 DEF Entries, InfoLabels

\* Each mutator keeps every entry under its name.
LEMMA ListedDelete ==
  ASSUME NEW s, NEW n, Listed(s)
  PROVE  Listed(deleteEnvironment(s, n).store)
BY DeleteEffect DEF Listed

LEMMA ListedAdd ==
  ASSUME NEW s, NEW e \in Environments, Listed(s)
  PROVE  Listed(addEnvironment(s, e).store)
<1> DEFINE s2 == addEnvironment(s, e).store
<1>1. CASE IsValid(e)
  <2>1. /\ DOMAIN s2.env = DOMAIN s.env \cup {e.Name}
        /\ s2.env[e.Name] = e
        /\ \A k \in DOMAIN s.env \ {e.Name} : s2.env[k] = s.env[k]
    BY <1>1, AddEffect
  <2> HIDE DEF s2
  <2>2. Listed(s2)
    BY <2>1, EnvironmentIsEntry DEF Listed
  <2>3. QED BY <2>2 DEF s2
<1>2. CASE ~IsValid(e)
  BY <1>2, AddEffect
<1>3. QED BY <1>1, <1>2

LEMMA ListedUpdate ==
  ASSUME NEW s, NEW n, NEW e \in Environments, Listed(s)
  PROVE  Listed(UpdateEnvironment(s, n, e).store)
<1> DEFINE s2 == UpdateEnvironment(s, n, e).store
<1>1. CASE s2 = addEnvironment(s, e).store
  BY <1>1, ListedAdd
<1>2. CASE s2 = addEnvironment(deleteEnvironment(s, n).store, e).store
  BY <1>2, ListedAdd, ListedDelete
<1>3. CASE /\ n \in DOMAIN s.env
           /\ ~ImmutableFieldChanged(s.env[n], e)
           /\ DOMAIN s2.env = DOMAIN s.env \cup {e.Name}
           /\ s2.env[e.Name] = UpdatedEnvironment(s.env[n], e)
           /\ \A k \in DOMAIN s.env \ {e.Name} : s2.env[k] = s.env[k]
  <2> HIDE DEF s2
  <2>1. s2.env[e.Name] \in Entries /\ s2.env[e.Name].Name = s.env[n].Name
    BY <1>3, UpdatedIsEntry DEF Listed
  <2>2. e.Name # Empty => s.env[n].Name = e.Name
    BY <1>3 DEF ImmutableFieldChanged
  <2>3. Listed(s2)
    BY <1>3, <2>1, <2>2 DEF Listed
  <2>4. QED BY <2>3 DEF s2
<1>4. QED BY <1>1, <1>2, <1>3, UpdateEffect

\* A listed name gives the labels of its entry, which bear the name.
LEMMA LabelsAreSeries ==
  ASSUME NEW s, NEW n, Listed(s)
  PROVE  LabelsOf(s, n) \in SUBSET Series
BY DEF Listed, LabelsOf, Entries

\* Assignment to one series leaves the values of the others.
LEMMA PutEffect ==
  ASSUME NEW f, NEW x, NEW v, NEW g, g = Put(f, x, v)
  PROVE  /\ DOMAIN g = DOMAIN f \cup {x}
         /\ g[x] = v
         /\ \A y \in DOMAIN f \ {x} : g[y] = f[y]
BY DEF Put

LEMMA PutValue ==
  ASSUME NEW f, NEW x, NEW v, NEW g, g = Put(f, x, v), NEW y
  PROVE  ValueAt(g, y) = IF y = x THEN v ELSE ValueAt(f, y)
<1>1. /\ DOMAIN g = DOMAIN f \cup {x}
      /\ g[x] = v
      /\ \A z \in DOMAIN f \ {x} : g[z] = f[z]
  BY DEF Put
<1>2. QED BY <1>1 DEF ValueAt

\* A set of numbers with an element has a least one.
LEMMA LeastElement ==
  ASSUME NEW T \in SUBSET Nat, T # {}
  PROVE  \E m \in T : \A k \in T : m <= k
<1> DEFINE Upto(m) == 0..m
           S       == {Upto(m) : m \in T}
           R       == StrictSubsetOrdering(Nat)
<1>1. S \subseteq FiniteSubsetsOf(Nat) /\ S # {}
  <2>1. ASSUME NEW m \in T
        PROVE  Upto(m) \in FiniteSubsetsOf(Nat)
    <3>1. IsFiniteSet(0..m)
      BY FS_Interval
    <3>2. QED BY <3>1 DEF FiniteSubsetsOf
  <2>2. S # {}
    OBVIOUS
  <2>3. QED BY <2>1, <2>2
<1>2. IsWellFoundedOn(R, FiniteSubsetsOf(Nat))
  BY FS_StrictSubsetOrderingWellFounded
<1> HIDE DEF R
<1>3. PICK x \in S : \A y \in S : <<y, x>> \notin R
  BY <1>1, <1>2, WFMin
<1>4. PICK m \in T : x = Upto(m)
  BY <1>3
<1>5. ASSUME NEW k \in T, k < m
      PROVE  FALSE
  <2>1. Upto(k) \subseteq Upto(m) /\ m \in Upto(m) /\ m \notin Upto(k)
    BY <1>5
  <2>2. <<Upto(k), Upto(m)>> \in R
    BY <2>1 DEF R, StrictSubsetOrdering
  <2>3. QED BY <1>3, <1>4, <2>2
<1>6. QED BY <1>4, <1>5

-----------------------------------------------------------------------------
(***************************************************************************)
(* Types                                                                   *)
(***************************************************************************)
\* An event of a namespace leaves a listing, and touches nothing of a trigger
\* but the history of its labels.
LEMMA EventEffect ==
  ASSUME Typed, NamespaceEvent
  PROVE  /\ Listed(store')
         /\ changes < MaxChanges /\ changes' = changes + 1
         /\ bound' = [t \in Triggers |-> IF t \in Active
                                         THEN bound[t] \cup LabelsOf(store', name[t])
                                         ELSE bound[t]]
         /\ UNCHANGED <<clock, metrics, locals, start, oldest>>
<1>1. PICK e \in Environments :
        \/ Change(AddEnvironment(store, e))
        \/ \E old \in Environments : Change(UpdateEnvironment(store, old.Name, e))
        \/ Change(DeleteEnvironment(store, e.Name))
  BY DEF NamespaceEvent
<1>2. PICK outcome : Change(outcome) /\ Listed(outcome.store)
  BY <1>1, ListedAdd, ListedUpdate, ListedDelete
     DEF AddEnvironment, DeleteEnvironment, Typed
<1>3. QED BY <1>2 DEF Change

LEMMA TypedInit == Init => Typed
<1> SUFFICES ASSUME Init PROVE Typed
  OBVIOUS
<1>1. Listed(store)
  BY DEF Init, NewStore, Listed
<1>2. changes \in 0..MaxChanges /\ clock \in 1..MaxTime
  BY IgnitionBounds DEF Init
<1>3. QED BY <1>1, <1>2 DEF Init, Typed

LEMMA TypedStep == Typed /\ Sequenced /\ [Next]_vars => Typed'
<1> SUFFICES ASSUME Typed, Sequenced, [Next]_vars PROVE Typed'
  OBVIOUS
<1>1. CASE NamespaceEvent
  <2>1. Listed(store') /\ changes' \in 0..MaxChanges
    BY <1>1, EventEffect, IgnitionBounds DEF Typed
  <2>2. bound' \in [Triggers -> SUBSET Series]
    <3>1. ASSUME NEW t \in Triggers
          PROVE  /\ bound[t] \in SUBSET Series
                 /\ LabelsOf(store', name[t]) \in SUBSET Series
      BY <2>1, LabelsAreSeries DEF Typed
    <3>2. QED BY <1>1, <3>1, EventEffect
  <2>3. QED BY <1>1, <2>1, <2>2, EventEffect DEF Typed, metrics, locals
<1>2. CASE Tick
  <2>1. clock' \in 1..MaxTime
    BY <1>2, IgnitionBounds DEF Typed, Tick
  <2>2. QED BY <1>2, <2>1 DEF Typed, Tick, metrics, locals, history
<1>3. ASSUME NEW t \in Triggers, NEW n \in Names, Request(t, n)
      PROVE  Typed'
  <2> DEFINE earlier == {start[u] : u \in Active} \cup {clock}
             least   == CHOOSE m \in earlier : \A k \in earlier : m <= k
  <2>1. earlier \in SUBSET Nat /\ earlier # {}
    BY IgnitionBounds DEF Typed, Active
  <2>2. least \in Nat /\ clock \in Nat
    BY <2>1, LeastElement
  <2>3. oldest' = [oldest EXCEPT ![t] = least] /\ start' = [start EXCEPT ![t] = clock]
    BY <1>3 DEF Request
  <2> HIDE DEF least
  <2>4. oldest' \in [Triggers -> Nat] /\ start' \in [Triggers -> Nat]
    BY <2>2, <2>3 DEF Typed
  <2>5. bound' \in [Triggers -> SUBSET Series]
    BY <1>3, LabelsAreSeries DEF Typed, Request
  <2>6. QED BY <1>3, <2>4, <2>5 DEF Typed, Request, metrics
<1>4. ASSUME NEW t \in Triggers, Lookup(t)
      PROVE  Typed'
  <2>1. name[t] \in DOMAIN store.env => store.env[name[t]] \in Entries
    BY DEF Typed, Listed
  <2>2. QED BY <1>4, <2>1 DEF Typed, Lookup, metrics, history
<1>5. ASSUME NEW t \in Triggers, MakeSeries(t)
      PROVE  Typed'
  BY <1>5 DEF Typed, MakeSeries, history
<1>6. ASSUME NEW t \in Triggers, ReadClock(t)
      PROVE  Typed'
  <2>1. clock \in Nat
    BY IgnitionBounds DEF Typed
  <2>2. QED BY <1>6, <2>1 DEF Typed, ReadClock, metrics, history
<1>7. ASSUME NEW t \in Triggers, SetSeries(t)
      PROVE  Typed'
  BY <1>7 DEF Typed, SetSeries, history
<1>8. ASSUME NEW t \in Triggers, Count(t)
      PROVE  Typed'
  BY <1>8 DEF Typed, Count, history
<1>9. CASE UNCHANGED vars
  BY <1>9 DEF Typed, vars, metrics, locals, history
<1>10. QED BY <1>1, <1>2, <1>3, <1>4, <1>5, <1>6, <1>7, <1>8, <1>9 DEF Next, Step

LEMMA SequencedStep == Typed /\ Sequenced /\ [Next]_vars => Sequenced'
<1> SUFFICES ASSUME Typed, Sequenced, [Next]_vars PROVE Sequenced'
  OBVIOUS
<1> USE EntryIsNotNil
<1>0. clock \in Nat /\ clock >= 1
  BY IgnitionBounds DEF Typed
<1>1. CASE NamespaceEvent
  <2>1. UNCHANGED <<clock, pc, name, found, stamp, code, start>>
    BY <1>1, EventEffect DEF locals
  <2>2. QED BY <2>1 DEF Sequenced
<1>2. CASE Tick
  <2>1. clock' = clock + 1 /\ UNCHANGED <<pc, name, found, stamp, code, start>>
    BY <1>2 DEF Tick, locals, history
  <2>2. stamp \in [Triggers -> Nat] /\ start \in [Triggers -> Nat]
    BY DEF Typed
  <2>3. QED BY <1>0, <2>1, <2>2 DEF Sequenced
<1>3. ASSUME NEW t \in Triggers, NEW n \in Names, Request(t, n)
      PROVE  Sequenced'
  <2>1. stamp[t] = 0
    BY <1>3 DEF Sequenced, Request
  <2>2. QED BY <1>0, <1>3, <2>1 DEF Typed, Sequenced, Request
<1>4. ASSUME NEW t \in Triggers, Lookup(t)
      PROVE  Sequenced'
  <2>1. name[t] \in DOMAIN store.env => store.env[name[t]] \in Entries
    BY DEF Typed, Listed
  <2>2. QED BY <1>4, <2>1 DEF Typed, Sequenced, Lookup, history
<1>5. ASSUME NEW t \in Triggers, MakeSeries(t)
      PROVE  Sequenced'
  BY <1>5 DEF Typed, Sequenced, MakeSeries, history
<1>6. ASSUME NEW t \in Triggers, ReadClock(t)
      PROVE  Sequenced'
  BY <1>0, <1>6 DEF Typed, Sequenced, ReadClock, history
<1>7. ASSUME NEW t \in Triggers, SetSeries(t)
      PROVE  Sequenced'
  BY <1>7 DEF Typed, Sequenced, SetSeries, history
<1>8. ASSUME NEW t \in Triggers, Count(t)
      PROVE  Sequenced'
  BY <1>8 DEF Typed, Sequenced, Count, history
<1>9. CASE UNCHANGED vars
  BY <1>9 DEF Sequenced, vars, locals, history
<1>10. QED BY <1>1, <1>2, <1>3, <1>4, <1>5, <1>6, <1>7, <1>8, <1>9 DEF Next, Step

-----------------------------------------------------------------------------
(***************************************************************************)
(* The right series                                                        *)
(***************************************************************************)
\* What follows from a listing of a name that a request can hold.
LEMMA ListedLabels ==
  ASSUME NEW s, NEW n \in Names, Listed(s), n \in DOMAIN s.env
  PROVE  s.env[n].Name = n /\ LabelsOf(s, n) = {InfoLabels(s.env[n])}
BY DEF Listed, Names, LabelsOf

LEMMA LabelledStep ==
  Typed /\ Sequenced /\ Labelled /\ [Next]_vars => Labelled'
<1> SUFFICES ASSUME Typed, Sequenced, Labelled, [Next]_vars PROVE Labelled'
  OBVIOUS
<1> USE EntryIsNotNil
<1>0. \A t \in Triggers : pc[t] # "idle" => name[t] \in Names
  BY DEF Sequenced
<1>1. CASE NamespaceEvent
  <2>1. /\ UNCHANGED <<pc, name, found, code>>
        /\ Active' = Active
        /\ \A t \in Triggers : bound[t] \subseteq bound'[t]
        /\ \A t \in Active : LabelsOf(store', name[t]) \subseteq bound'[t]
    BY <1>1, EventEffect DEF locals, Active
  <2>2. RightSeries'
    BY <2>1 DEF Labelled, RightSeries
  <2>3. QED BY <2>1, <2>2 DEF Labelled
<1>2. ASSUME UNCHANGED <<store, name, found, bound, pc, code>>
      PROVE  Labelled'
  BY <1>2 DEF Labelled, RightSeries, Active, LabelsOf
<1>3. ASSUME NEW t \in Triggers, NEW n \in Names, Request(t, n)
      PROVE  Labelled'
  <2>1. /\ pc[t] = "idle" /\ found[t] = Nil
        /\ pc' = [pc EXCEPT ![t] = "lookup"]
        /\ name' = [name EXCEPT ![t] = n]
        /\ bound' = [bound EXCEPT ![t] = LabelsOf(store, n)]
        /\ UNCHANGED <<store, found, code>>
    BY <1>3 DEF Request, Sequenced
  <2>2. RightSeries'
    BY <2>1 DEF Labelled, RightSeries, Typed
  <2>3. \A u \in Active' : LabelsOf(store', name'[u]) \subseteq bound'[u]
    BY <2>1 DEF Labelled, Typed, Active, LabelsOf
  <2>4. QED BY <2>2, <2>3 DEF Labelled
<1>4. ASSUME NEW t \in Triggers, Lookup(t)
      PROVE  Labelled'
  <2>1. /\ pc[t] = "lookup" /\ name[t] \in Names /\ t \in Active /\ code[t] = 0
        /\ UNCHANGED <<store, name, bound>>
    BY <1>4, <1>0 DEF Lookup, history, Active, Sequenced
  <2>2. CASE name[t] \in DOMAIN store.env
    <3>1. /\ store.env[name[t]].Name = name[t]
          /\ InfoLabels(store.env[name[t]]) \in bound[t]
      BY <2>1, <2>2, ListedLabels DEF Labelled, Typed
    <3>2. /\ found' = [found EXCEPT ![t] = store.env[name[t]]]
          /\ pc' = [pc EXCEPT ![t] = "trigger"]
          /\ code' = code
      BY <1>4, <2>2 DEF Lookup
    <3>3. RightSeries'
      BY <2>1, <3>1, <3>2 DEF Labelled, RightSeries, Typed
    <3>4. QED BY <2>1, <3>2, <3>3 DEF Labelled, Active, LabelsOf, Typed
  <2>3. CASE name[t] \notin DOMAIN store.env
    <3>1. /\ code' = [code EXCEPT ![t] = 404]
          /\ pc' = [pc EXCEPT ![t] = "done"]
          /\ found' = found
      BY <1>4, <2>3 DEF Lookup
    <3>2. RightSeries'
      BY <2>1, <3>1 DEF Labelled, RightSeries, Typed
    <3>3. QED BY <2>1, <3>1, <3>2 DEF Labelled, Active, LabelsOf, Typed
  <2>4. QED BY <2>2, <2>3
<1>5. ASSUME NEW t \in Triggers, MakeSeries(t)
      PROVE  Labelled'
  <2>1. found[t].Name # Empty /\ t \in Active
    BY <1>0, <1>5 DEF MakeSeries, Labelled, RightSeries, Names, Sequenced, Active
  <2>2. /\ pc' = [pc EXCEPT ![t] = "clock"]
        /\ UNCHANGED <<store, name, found, bound, code>>
    BY <1>5, <2>1 DEF MakeSeries, history
  <2>3. QED BY <2>1, <2>2 DEF Labelled, RightSeries, Active, LabelsOf, Typed
<1>6. ASSUME NEW t \in Triggers, ReadClock(t) \/ SetSeries(t) \/ Count(t)
      PROVE  Labelled'
  <2>1. /\ t \in Active /\ Active' \subseteq Active
        /\ UNCHANGED <<store, name, found, bound>>
        /\ code' = code \/ code' = [code EXCEPT ![t] = 202]
    BY <1>6 DEF ReadClock, SetSeries, Count, history, Active, Typed
  <2>2. RightSeries'
    BY <2>1 DEF Labelled, RightSeries, Typed
  <2>3. QED BY <2>1, <2>2 DEF Labelled, LabelsOf
<1>7. CASE Tick
  BY <1>2, <1>7 DEF Tick, locals, history
<1>8. CASE UNCHANGED vars
  BY <1>2, <1>8 DEF vars, locals, history
<1>9. QED BY <1>1, <1>3, <1>4, <1>5, <1>6, <1>7, <1>8 DEF Next, Step

-----------------------------------------------------------------------------
(***************************************************************************)
(* The metrics                                                             *)
(***************************************************************************)
\* What a step does to the gauge: a series made a second time keeps its value,
\* and one that is set gets the time its trigger read.
LEMMA GaugeStep ==
  ASSUME Typed, Sequenced, Labelled, [Next]_vars
  PROVE  \/ gauge' = gauge
         \/ \E t \in Triggers :
              /\ MakeSeries(t) /\ pc' = [pc EXCEPT ![t] = "clock"]
              /\ DOMAIN gauge' = DOMAIN gauge \cup {InfoLabels(found[t])}
              /\ \A s : ValueAt(gauge', s) = ValueAt(gauge, s)
         \/ \E t \in Triggers :
              /\ SetSeries(t)
              /\ DOMAIN gauge' = DOMAIN gauge \cup {InfoLabels(found[t])}
              /\ \A s : ValueAt(gauge', s) = IF s = InfoLabels(found[t])
                                             THEN stamp[t] ELSE ValueAt(gauge, s)
<1>1. CASE NamespaceEvent
  BY <1>1, EventEffect DEF metrics
<1>2. CASE Tick \/ UNCHANGED vars
  BY <1>2 DEF Tick, vars, metrics
<1>3. ASSUME NEW t \in Triggers, Step(t)
      PROVE  \/ gauge' = gauge \/ MakeSeries(t) \/ SetSeries(t)
  BY <1>3 DEF Step, Request, Lookup, ReadClock, Count, metrics
<1>4. ASSUME NEW t \in Triggers, MakeSeries(t)
      PROVE  /\ pc' = [pc EXCEPT ![t] = "clock"]
             /\ DOMAIN gauge' = DOMAIN gauge \cup {InfoLabels(found[t])}
             /\ \A s : ValueAt(gauge', s) = ValueAt(gauge, s)
  <2>1. found[t].Name # Empty
    BY <1>4, EntryIsNotNil DEF MakeSeries, Labelled, RightSeries, Names, Sequenced
  <2>2. gauge' = Put(gauge, InfoLabels(found[t]), ValueAt(gauge, InfoLabels(found[t])))
    BY <1>4, <2>1 DEF MakeSeries
  <2>3. pc' = [pc EXCEPT ![t] = "clock"]
    BY <1>4, <2>1 DEF MakeSeries
  <2>4. DOMAIN gauge' = DOMAIN gauge \cup {InfoLabels(found[t])}
    BY <2>2, PutEffect
  <2>5. ASSUME NEW s
        PROVE  ValueAt(gauge', s) = ValueAt(gauge, s)
    BY <2>2, PutValue
  <2>6. QED BY <2>3, <2>4, <2>5
<1>5. ASSUME NEW t \in Triggers, SetSeries(t)
      PROVE  /\ DOMAIN gauge' = DOMAIN gauge \cup {InfoLabels(found[t])}
             /\ \A s : ValueAt(gauge', s) = IF s = InfoLabels(found[t])
                                            THEN stamp[t] ELSE ValueAt(gauge, s)
  <2>1. gauge' = Put(gauge, InfoLabels(found[t]), stamp[t])
    BY <1>5 DEF SetSeries
  <2>2. DOMAIN gauge' = DOMAIN gauge \cup {InfoLabels(found[t])}
    BY <2>1, PutEffect
  <2>3. ASSUME NEW s
        PROVE  ValueAt(gauge', s) = IF s = InfoLabels(found[t])
                                    THEN stamp[t] ELSE ValueAt(gauge, s)
    BY <2>1, PutValue
  <2>4. QED BY <2>2, <2>3
<1>6. QED BY <1>1, <1>2, <1>3, <1>4, <1>5 DEF Next

\* The clock never goes back.
LEMMA ClockStep ==
  ASSUME Typed, Sequenced, [Next]_vars
  PROVE  clock \in Nat /\ clock' \in Nat /\ clock <= clock'
<1>1. clock \in Nat /\ clock' \in Nat
  BY TypedStep, IgnitionBounds DEF Typed
<1>2. clock' = clock \/ clock' = clock + 1
  BY EventEffect DEF Next, Step, Tick, Request, Lookup, MakeSeries, ReadClock, SetSeries,
                     Count, vars
<1>3. QED BY <1>1, <1>2

LEMMA MeasuredStep ==
  Typed /\ Sequenced /\ Labelled /\ Measured /\ [Next]_vars => Measured'
<1> SUFFICES ASSUME Typed, Sequenced, Labelled, Measured, [Next]_vars PROVE Measured'
  OBVIOUS
<1>1. clock \in Nat /\ clock' \in Nat /\ clock <= clock'
  BY ClockStep
<1>2. \A t \in Triggers : pc[t] \in {"trigger", "set", "count"} =>
        InfoLabels(found[t]) \in Series
  BY DEF Sequenced, Entries
<1>3. DOMAIN gauge' \subseteq Series /\ \A s \in DOMAIN gauge' : gauge'[s] \in 0..clock'
  <2>1. CASE gauge' = gauge
    BY <1>1, <2>1 DEF Measured
  <2>2. ASSUME NEW t \in Triggers, MakeSeries(t),
               DOMAIN gauge' = DOMAIN gauge \cup {InfoLabels(found[t])},
               \A s : ValueAt(gauge', s) = ValueAt(gauge, s)
        PROVE  DOMAIN gauge' \subseteq Series /\ \A s \in DOMAIN gauge' : gauge'[s] \in 0..clock'
    <3>1. DOMAIN gauge' \subseteq Series
      BY <1>2, <2>2 DEF Measured, MakeSeries
    <3>2. \A s : ValueAt(gauge, s) \in 0..clock
      BY <1>1 DEF Measured, ValueAt
    <3>3. \A s \in DOMAIN gauge' : gauge'[s] = ValueAt(gauge', s)
      BY DEF ValueAt
    <3>4. \A s \in DOMAIN gauge' : gauge'[s] \in 0..clock
      BY <2>2, <3>2, <3>3
    <3>5. QED BY <1>1, <3>1, <3>4
  <2>3. ASSUME NEW t \in Triggers, SetSeries(t),
               DOMAIN gauge' = DOMAIN gauge \cup {InfoLabels(found[t])},
               \A s : ValueAt(gauge', s) = IF s = InfoLabels(found[t])
                                           THEN stamp[t] ELSE ValueAt(gauge, s)
        PROVE  DOMAIN gauge' \subseteq Series /\ \A s \in DOMAIN gauge' : gauge'[s] \in 0..clock'
    <3>1. DOMAIN gauge' \subseteq Series
      BY <1>2, <2>3 DEF Measured, SetSeries
    <3>2. \A s : ValueAt(gauge, s) \in 0..clock
      BY <1>1 DEF Measured, ValueAt
    <3>3. \A s \in DOMAIN gauge' : gauge'[s] = ValueAt(gauge', s)
      BY DEF ValueAt
    <3>4. stamp[t] \in 0..clock
      BY <1>1, <2>3 DEF Typed, Sequenced, SetSeries
    <3>5. \A s \in DOMAIN gauge' : gauge'[s] \in 0..clock
      BY <2>3, <3>2, <3>3, <3>4
    <3>6. QED BY <1>1, <3>1, <3>5
  <2>4. QED BY <2>1, <2>2, <2>3, GaugeStep
<1>4. DOMAIN counter' \subseteq Series \X {"accepted", "error"}
  <2>1. CASE counter' = counter
    BY <2>1 DEF Measured
  <2>2. ASSUME NEW t \in Triggers, Count(t)
        PROVE  DOMAIN counter' \subseteq Series \X {"accepted", "error"}
    <3>1. InfoLabels(found[t]) \in Series /\ Status(t) \in {"accepted", "error"}
      BY <1>2, <2>2 DEF Count, Status
    <3>2. DOMAIN counter' = DOMAIN counter \cup {<<InfoLabels(found[t]), Status(t)>>}
      BY <2>2, PutEffect DEF Count
    <3>3. QED BY <3>1, <3>2 DEF Measured
  <2>3. QED
    BY <2>1, <2>2, EventEffect DEF Next, Step, Tick, Request, Lookup, MakeSeries, ReadClock,
                                   SetSeries, vars, metrics
<1>5. QED BY <1>3, <1>4 DEF Measured

LEMMA CountedStep ==
  Typed /\ Sequenced /\ Labelled /\ Measured /\ Counted /\ [Next]_vars => Counted'
<1> SUFFICES ASSUME Typed, Sequenced, Labelled, Measured, Counted, [Next]_vars
             PROVE  Counted'
  OBVIOUS
<1> DEFINE Accepted(s) == <<s, "accepted">> \in DOMAIN counter
           Under(t, s) == /\ pc[t] \in {"clock", "set", "count"}
                          /\ InfoLabels(found[t]) = s
\* Times stay times, and those of triggers are times.
<1>1. \A s : ValueAt(gauge, s) > 0 => ValueAt(gauge', s) > 0
  <2>1. \A t \in Triggers : SetSeries(t) => stamp[t] > 0
    BY DEF Typed, Sequenced, SetSeries
  <2>2. QED BY <2>1, GaugeStep
<1>2. ASSUME NEW t \in Triggers, pc'[t] = "count"
      PROVE  ValueAt(gauge', InfoLabels(found'[t])) > 0
  <2>1. CASE pc[t] = "count" /\ found'[t] = found[t]
    BY <1>1, <2>1 DEF Counted
  <2>2. CASE SetSeries(t)
    <3>1. stamp[t] > 0 /\ found' = found
      BY <2>2 DEF Typed, Sequenced, SetSeries
    <3>2. ValueAt(gauge', InfoLabels(found[t])) = stamp[t]
      BY <2>2, PutValue DEF SetSeries
    <3>3. QED BY <3>1, <3>2
  <2>3. ~(pc[t] = "count" /\ found'[t] = found[t]) => SetSeries(t)
    <3>1. CASE NamespaceEvent \/ Tick \/ UNCHANGED vars
      BY <1>2, <3>1, EventEffect DEF Tick, vars, locals
    <3>2. ASSUME NEW u \in Triggers, Step(u), u # t
          PROVE  pc'[t] = pc[t] /\ found'[t] = found[t]
      BY <3>2 DEF Step, Request, Lookup, MakeSeries, ReadClock, SetSeries, Count, Typed
    <3>3. ASSUME Step(t)
          PROVE  SetSeries(t)
      <4>1. ~MakeSeries(t) \/ found[t].Name # Empty
        BY EntryIsNotNil DEF MakeSeries, Labelled, RightSeries, Names, Sequenced
      <4>2. QED BY <1>2, <3>3, <4>1
               DEF Step, Request, Lookup, MakeSeries, ReadClock, Count, Typed
    <3>4. QED BY <1>2, <3>1, <3>2, <3>3 DEF Next
  <2>4. QED BY <2>1, <2>2, <2>3
\* Each trigger that is counted was accepted, and its series joins the counted.
<1>3. ASSUME NEW t \in Triggers, Count(t)
      PROVE  /\ gauge' = gauge
             /\ DOMAIN counter' = DOMAIN counter \cup {<<InfoLabels(found[t]), "accepted">>}
  <2>1. found[t] # Nil /\ code[t] \in {202, 500}
    BY <1>3, EntryIsNotNil DEF Count, Sequenced
  <2>2. Status(t) = "accepted"
    BY <2>1 DEF Status, Labelled, RightSeries
  <2>3. counter' = Put(counter, <<InfoLabels(found[t]), Status(t)>>,
                       ValueAt(counter, <<InfoLabels(found[t]), Status(t)>>) + 1)
    BY <1>3 DEF Count
  <2>4. DOMAIN counter' = DOMAIN counter \cup {<<InfoLabels(found[t]), "accepted">>}
    BY <2>2, <2>3, PutEffect
  <2>5. QED BY <1>3, <2>4 DEF Count
<1>4. \/ counter' = counter
      \/ \E t \in Triggers : Count(t)
  BY EventEffect DEF Next, Step, Tick, Request, Lookup, MakeSeries, ReadClock, SetSeries,
                     vars, metrics
<1>5. \A s \in Series : Accepted(s)' => ValueAt(gauge', s) > 0
  <2> SUFFICES ASSUME NEW s \in Series, Accepted(s)'
               PROVE  ValueAt(gauge', s) > 0
    OBVIOUS
  <2>1. CASE Accepted(s)
    BY <1>1, <2>1 DEF Counted, CountedHaveTimes
  <2>2. CASE ~Accepted(s)
    <3>1. PICK t \in Triggers : Count(t)
      BY <1>4, <2>2
    <3>2. /\ gauge' = gauge
          /\ DOMAIN counter' = DOMAIN counter \cup {<<InfoLabels(found[t]), "accepted">>}
      BY <1>3, <3>1
    <3>3. InfoLabels(found[t]) = s
      BY <2>2, <3>2
    <3>4. QED BY <3>1, <3>2, <3>3 DEF Counted, Count
  <2>3. QED BY <2>1, <2>2
\* A trigger stays under way until it is counted.
<1>6. ASSUME NEW s, NEW t \in Triggers, Under(t, s)
      PROVE  Accepted(s)' \/ Under(t, s)'
  <2>1. CASE Count(t)
    BY <1>3, <1>6, <2>1
  <2>2. CASE NamespaceEvent \/ Tick \/ UNCHANGED vars
    BY <1>6, <2>2, EventEffect DEF Tick, vars, locals
  <2>3. ASSUME NEW u \in Triggers, Step(u), u # t
        PROVE  pc'[t] = pc[t] /\ found'[t] = found[t]
    BY <2>3 DEF Step, Request, Lookup, MakeSeries, ReadClock, SetSeries, Count, Typed
  <2>4. CASE Step(t) /\ ~Count(t)
    BY <1>6, <2>4 DEF Step, Request, Lookup, MakeSeries, ReadClock, SetSeries, Typed
  <2>5. QED BY <1>6, <2>1, <2>2, <2>3, <2>4 DEF Next
<1>7. \A s \in DOMAIN gauge' : Accepted(s)' \/ \E t \in Triggers : Under(t, s)'
  <2> SUFFICES ASSUME NEW s \in DOMAIN gauge'
               PROVE  Accepted(s)' \/ \E t \in Triggers : Under(t, s)'
    OBVIOUS
  <2>1. CASE s \in DOMAIN gauge
    <3>1. Accepted(s) => Accepted(s)'
      BY <1>3, <1>4
    <3>2. QED BY <1>6, <2>1, <3>1 DEF Counted, CountedHaveTimes
  <2>2. CASE s \notin DOMAIN gauge
    <3>1. PICK t \in Triggers :
            /\ s = InfoLabels(found[t])
            /\ SetSeries(t) \/ (MakeSeries(t) /\ pc' = [pc EXCEPT ![t] = "clock"])
      BY <2>2, GaugeStep
    <3>2. found' = found /\ pc'[t] \in {"clock", "count"}
      BY <3>1 DEF SetSeries, MakeSeries, Typed
    <3>3. QED BY <3>1, <3>2
  <2>3. QED BY <2>1, <2>2
<1>8. CountedHaveTimes'
  <2>1. Series' = Series
    BY DEF Series
  <2>2. QED BY <1>5, <1>7, <2>1 DEF CountedHaveTimes
<1>9. QED BY <1>2, <1>8 DEF Counted

-----------------------------------------------------------------------------
(***************************************************************************)
(* What overlaps                                                           *)
(***************************************************************************)
LEMMA OverlappingStep ==
  Typed /\ Sequenced /\ Overlapping /\ [Next]_vars => Overlapping'
<1> SUFFICES ASSUME Typed, Sequenced, Overlapping, [Next]_vars PROVE Overlapping'
  OBVIOUS
<1>0. clock \in Nat /\ clock' \in Nat /\ clock <= clock'
  BY ClockStep
<1>1. ASSUME UNCHANGED <<start, oldest>>, Active' \subseteq Active,
             \A t \in Triggers : pc'[t] # "idle" => pc[t] # "idle"
      PROVE  Overlapping'
  BY <1>0, <1>1 DEF Overlapping, Typed
<1>2. CASE NamespaceEvent \/ Tick \/ UNCHANGED vars
  <2>1. UNCHANGED <<start, oldest, pc>>
    BY <1>2, EventEffect DEF Tick, vars, locals, history
  <2>2. QED BY <1>1, <2>1 DEF Active
<1>3. ASSUME NEW t \in Triggers, NEW n \in Names, Request(t, n)
      PROVE  Overlapping'
  <2> DEFINE earlier == {start[u] : u \in Active} \cup {clock}
             least   == CHOOSE m \in earlier : \A k \in earlier : m <= k
  <2>1. earlier \in SUBSET Nat /\ clock \in Nat
    BY IgnitionBounds DEF Typed, Active
  <2>2. least \in Nat /\ \A k \in earlier : least <= k
    BY <2>1, LeastElement
  <2>3. /\ start' = [start EXCEPT ![t] = clock]
        /\ oldest' = [oldest EXCEPT ![t] = least]
        /\ pc' = [pc EXCEPT ![t] = "lookup"]
        /\ pc[t] = "idle"
    BY <1>3 DEF Request
  <2>4. \A u \in Active : least <= start[u]
    BY <2>2
  <2>5. least <= clock
    BY <2>2
  <2> HIDE DEF earlier, least
  <2>6. ASSUME NEW u \in Triggers, NEW v \in Active', pc'[u] # "idle"
        PROVE  oldest'[u] <= start'[v]
    <3>1. v \in Triggers /\ (v = t \/ v \in Active)
      BY <2>3, <2>6 DEF Active, Typed
    <3>2. u = t \/ (u # t /\ pc[u] # "idle")
      BY <2>3, <2>6 DEF Typed
    <3>3. start'[v] = IF v = t THEN clock ELSE start[v]
      BY <2>3, <2>6 DEF Typed, Active
    <3>4. oldest'[u] = IF u = t THEN least ELSE oldest[u]
      BY <2>3, <2>6 DEF Typed
    <3>5. CASE u = t
      BY <2>4, <2>5, <3>1, <3>3, <3>4, <3>5
    <3>6. CASE u # t /\ v # t
      BY <3>1, <3>2, <3>3, <3>4, <3>6 DEF Overlapping
    <3>7. CASE u # t /\ v = t
      BY <3>3, <3>4, <3>7 DEF Overlapping
    <3>8. QED BY <3>5, <3>6, <3>7
  <2>7. ASSUME NEW u \in Triggers
        PROVE  oldest'[u] <= clock'
    <3>1. oldest'[u] = IF u = t THEN least ELSE oldest[u]
      BY <2>3 DEF Typed
    <3>2. clock' = clock
      BY <1>3 DEF Request
    <3>3. QED BY <2>5, <3>1, <3>2 DEF Overlapping
  <2>8. QED BY <2>6, <2>7 DEF Overlapping
<1>4. ASSUME NEW t \in Triggers,
             Lookup(t) \/ MakeSeries(t) \/ ReadClock(t) \/ SetSeries(t) \/ Count(t)
      PROVE  Overlapping'
  <2>1. /\ UNCHANGED <<start, oldest>>
        /\ Active' \subseteq Active
        /\ \A u \in Triggers : pc'[u] # "idle" => pc[u] # "idle"
    BY <1>4 DEF Lookup, MakeSeries, ReadClock, SetSeries, Count, history, Active, Typed
  <2>2. QED BY <1>1, <2>1
<1>5. QED BY <1>2, <1>3, <1>4 DEF Next, Step

-----------------------------------------------------------------------------
(***************************************************************************)
(* What accepted triggers leave                                            *)
(***************************************************************************)
LEMMA VisibleStep ==
  Typed /\ Sequenced /\ Labelled /\ Overlapping /\ Visible /\ [Next]_vars => Visible'
<1> SUFFICES ASSUME Typed, Sequenced, Labelled, Overlapping, Visible, [Next]_vars
             PROVE  Visible'
  OBVIOUS
<1> DEFINE Kept(t) == oldest'[t] = oldest[t] /\ found'[t] = found[t]
\* A time that is written is not before what any trigger has overlapped.
<1>1. ASSUME NEW t \in Triggers, pc[t] # "idle",
             oldest[t] <= ValueAt(gauge, InfoLabels(found[t]))
      PROVE  oldest[t] <= ValueAt(gauge', InfoLabels(found[t]))
  <2>1. CASE \A s : ValueAt(gauge', s) = ValueAt(gauge, s)
    BY <1>1, <2>1
  <2>2. ASSUME NEW u \in Triggers, SetSeries(u),
               \A s : ValueAt(gauge', s) = IF s = InfoLabels(found[u])
                                           THEN stamp[u] ELSE ValueAt(gauge, s)
        PROVE  oldest[t] <= ValueAt(gauge', InfoLabels(found[t]))
    <3>1. oldest[t] <= start[u]
      BY <1>1, <2>2 DEF Overlapping, SetSeries, Active
    <3>2. start[u] <= stamp[u]
      BY <2>2 DEF Sequenced, SetSeries
    <3>3. oldest[t] \in Nat /\ start[u] \in Nat /\ stamp[u] \in Nat
      BY DEF Typed
    <3>4. oldest[t] <= stamp[u]
      BY <3>1, <3>2, <3>3
    <3>5. QED BY <1>1, <2>2, <3>4
  <2>3. QED BY <2>1, <2>2, GaugeStep
\* A trigger that was accepted is told nothing more.
<1>2. ASSUME NEW t \in Triggers, code[t] = 202, code'[t] = 202
      PROVE  Kept(t) /\ pc[t] \in {"count", "done"}
  <2>1. pc[t] \in {"count", "done"}
    BY <1>2 DEF Sequenced, Typed
  <2>2. CASE NamespaceEvent \/ Tick \/ UNCHANGED vars
    BY <2>1, <2>2, EventEffect DEF Tick, vars, locals, history
  <2>3. ASSUME NEW u \in Triggers, Step(u), u # t
        PROVE  Kept(t)
    BY <2>3 DEF Step, Request, Lookup, MakeSeries, ReadClock, SetSeries, Count, Typed, history
  <2>4. CASE Step(t)
    BY <2>1, <2>4 DEF Step, Request, Lookup, MakeSeries, ReadClock, SetSeries, Count, history
  <2>5. QED BY <2>1, <2>2, <2>3, <2>4 DEF Next
\* It is accepted when it sets its series, to a time of its own.
<1>3. ASSUME NEW t \in Triggers, code[t] # 202, code'[t] = 202
      PROVE  SetSeries(t)
  <2>1. CASE NamespaceEvent \/ Tick \/ UNCHANGED vars
    BY <1>3, <2>1, EventEffect DEF Tick, vars, locals
  <2>2. ASSUME NEW u \in Triggers, Step(u)
        PROVE  SetSeries(t)
    BY <1>3, <2>2 DEF Step, Request, Lookup, MakeSeries, ReadClock, SetSeries, Count, Typed
  <2>3. QED BY <2>1, <2>2 DEF Next
<1>4. ASSUME NEW t \in Triggers, code'[t] = 202
      PROVE  oldest'[t] <= ValueAt(gauge', InfoLabels(found'[t]))
  <2>1. CASE code[t] = 202
    <3>1. oldest[t] <= ValueAt(gauge, InfoLabels(found[t]))
      BY <2>1 DEF Visible
    <3>2. pc[t] # "idle" /\ Kept(t)
      BY <1>2, <1>4, <2>1
    <3>3. QED BY <1>1, <3>1, <3>2
  <2>2. CASE code[t] # 202
    <3>1. /\ UNCHANGED <<found, oldest>>
          /\ t \in Active /\ pc[t] = "set"
          /\ gauge' = Put(gauge, InfoLabels(found[t]), stamp[t])
      BY <1>3, <1>4, <2>2 DEF SetSeries, Active, history
    <3>2. oldest[t] <= start[t] /\ start[t] <= stamp[t]
      BY <3>1 DEF Overlapping, Sequenced
    <3>3. oldest[t] \in Nat /\ start[t] \in Nat /\ stamp[t] \in Nat
      BY DEF Typed
    <3>4. ValueAt(gauge', InfoLabels(found[t])) = stamp[t]
      BY <3>1, PutValue
    <3>5. oldest[t] <= stamp[t]
      BY <3>2, <3>3
    <3>6. QED BY <3>1, <3>4, <3>5
  <2>3. QED BY <2>1, <2>2
<1>5. QED BY <1>4 DEF Visible

-----------------------------------------------------------------------------
(***************************************************************************)
(* The theorems                                                            *)
(***************************************************************************)
LEMMA InvariantInit == Init => IInv
<1> SUFFICES ASSUME Init PROVE IInv
  OBVIOUS
<1>1. Typed
  BY TypedInit
<1>2. Sequenced
  BY DEF Init, Sequenced
<1>3. Labelled
  BY DEF Init, Labelled, RightSeries, Active
<1>4. Measured /\ Counted
  BY DEF Init, NoSeries, Measured, Counted, CountedHaveTimes
<1>5. Overlapping /\ Visible
  BY DEF Init, Overlapping, Visible
<1>6. QED BY <1>1, <1>2, <1>3, <1>4, <1>5 DEF IInv

\* The parts hold together in every reachable state, whatever events, requests
\* and ticks of the clock come between any two steps of any trigger.
THEOREM IgnitionInvariance == SafetySpec => []IInv
<1>1. IInv /\ [Next]_vars => IInv'
  BY TypedStep, SequencedStep, LabelledStep, MeasuredStep, CountedStep, OverlappingStep,
     VisibleStep DEF IInv
<1>2. QED BY InvariantInit, <1>1, PTL DEF SafetySpec

\* The variables of ignition keep their types and ranges (ignition/provider.go,
\* prometheus_provider.go).
THEOREM IgnitionTypeCorrect == SafetySpec => []TypeOK
<1>1. IInv => TypeOK
  <2> SUFFICES ASSUME IInv PROVE TypeOK
    OBVIOUS
  <2> USE DEF IInv
  <2>1. \A n \in DOMAIN store.env : store.env[n] \in Storable
    BY DEF Typed, Listed, Entries
  <2>2. \A t \in Triggers : found[t] # Nil <=> pc[t] \in {"trigger", "clock", "set", "count"}
                                               \/ (pc[t] = "done" /\ code[t] # 404)
    BY EntryIsNotNil DEF Typed, Sequenced
  <2>3. \A t \in Triggers : stamp[t] # 0 => stamp[t] \in start[t]..clock
    BY IgnitionBounds DEF Typed, Sequenced
  <2>4. QED BY <2>1, <2>2, <2>3 DEF TypeOK, Typed, Measured
<1>2. QED BY IgnitionInvariance, <1>1, PTL

\* A trigger sets the series of the name that was asked for, in a namespace that
\* had that name during the request (server.go handleIgnitionEnvironment).
THEOREM TriggersHitTheirName == SafetySpec => []RightSeries
<1>1. IInv => RightSeries
  BY DEF IInv, Labelled
<1>2. QED BY IgnitionInvariance, <1>1, PTL

\* A series that was counted as triggered has a time, and a series that has not
\* been counted has its trigger under way (provider.go Trigger).
THEOREM CountedHaveTheirTimes == SafetySpec => []CountedHaveTimes
<1>1. IInv => CountedHaveTimes
  BY DEF IInv, Counted
<1>2. QED BY IgnitionInvariance, <1>1, PTL

\* What an accepted trigger wrote is never set back to before the oldest trigger
\* it overlapped (prometheus_provider.go Trigger).
THEOREM AcceptedStaysVisible == SafetySpec => []AcceptedIsVisible
<1>1. IInv => AcceptedIsVisible
  <2> SUFFICES ASSUME IInv, NEW t \in Triggers, code[t] = 202
               PROVE  ValueAt(gauge, InfoLabels(found[t])) >= oldest[t]
    BY DEF AcceptedIsVisible
  <2>1. oldest[t] <= ValueAt(gauge, InfoLabels(found[t]))
    BY DEF IInv, Visible
  <2>2. oldest[t] \in Nat /\ ValueAt(gauge, InfoLabels(found[t])) \in Nat
    BY IgnitionBounds DEF IInv, Typed, Measured, ValueAt
  <2>3. QED BY <2>1, <2>2
<1>2. QED BY IgnitionInvariance, <1>1, PTL
=============================================================================
