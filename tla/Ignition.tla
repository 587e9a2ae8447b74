------------------------------ MODULE Ignition ------------------------------
(***************************************************************************)
(* Ignition triggers (internal/ignition, and the handler of POST           *)
(* /v1/environment/{name}/ignition) while the event handler changes the    *)
(* store.  A trigger reads the environment from the store and from then on *)
(* works with its copy; it makes the series of the environment in the      *)
(* gauge ephemeralenv_last_ignition_requested, reads the clock, sets the   *)
(* series, and counts itself, and any number of triggers may be between    *)
(* any two of these steps.                                                 *)
(***************************************************************************)
EXTENDS EnvironmentStore, Naturals, FiniteSets

CONSTANTS
  Environments,  \* the environments events describe, with or without a name
  Triggers,      \* the triggers there will be
  MaxChanges,    \* bound: changes of the store
  MaxTime        \* bound: the clock

\* The environments that updates can make of these: a field of one, a field of
\* another.
Storable ==
  [Name         : {e.Name : e \in Environments},
   CreatedAt    : {e.CreatedAt : e \in Environments},
   Namespace    : {e.Namespace : e \in Environments},
   URL          : {e.URL : e \in Environments},
   StatusChecks : {e.StatusChecks : e \in Environments},
   MetaProbes   : {e.MetaProbes : e \in Environments}]

\* Environments are records of these fields, and no environment is nil.
ASSUME EnvironmentsAssumption == Environments \subseteq Storable /\ Nil \notin Storable

ASSUME IgnitionBounds == MaxChanges \in Nat /\ MaxTime \in Nat \ {0}

\* The names that the path of a request can hold.
Names == {e.Name : e \in Environments} \ {Empty}

VARIABLES
  store,     \* the environment store
  changes,   \* changes of it so far
  clock,     \* Unix time, in seconds
  gauge,     \* ephemeralenv_last_ignition_requested: function of the series
  counter,   \* ephemeralenv_ignition_triggers_total, of the series and a status
  pc,        \* by trigger: where it is
  name,      \* the name it was requested with
  found,     \* its copy of the environment, or Nil
  stamp,     \* the time it read
  code,      \* the status code it answers with
  start,     \* history: when it began
  oldest,    \* history: when the oldest trigger began that it overlaps
  bound      \* history: the labels the environment of that name had meanwhile

metrics  == <<gauge, counter>>
locals   == <<pc, name, found, stamp, code>>
history  == <<start, oldest, bound>>
vars     == <<store, changes, clock, metrics, locals, history>>

\* The value of a function where it is defined, and 0 elsewhere.
ValueAt(f, x) == IF x \in DOMAIN f THEN f[x] ELSE 0

NoSeries == [s \in {} |-> 0]

Active == {t \in Triggers : pc[t] \notin {"idle", "done"}}

LabelsOf(s, n) == IF n \in DOMAIN s.env THEN {InfoLabels(s.env[n])} ELSE {}

-----------------------------------------------------------------------------
(***************************************************************************)
(* The event handler: what its three handlers do to the store, for any     *)
(* earlier name of the environment.                                        *)
(***************************************************************************)
Change(outcome) ==
  /\ changes < MaxChanges
  /\ changes' = changes + 1
  /\ store' = outcome.store
  /\ bound' = [t \in Triggers |->
                 IF t \in Active THEN bound[t] \cup LabelsOf(store', name[t]) ELSE bound[t]]
  /\ UNCHANGED <<clock, metrics, locals, start, oldest>>

NamespaceEvent ==
  \E e \in Environments :
    \/ Change(AddEnvironment(store, e))
    \/ \E old \in Environments :
         old.Namespace = e.Namespace /\ Change(UpdateEnvironment(store, old.Name, e))
    \/ Change(DeleteEnvironment(store, e.Name))

Tick ==
  /\ clock < MaxTime
  /\ clock' = clock + 1
  /\ UNCHANGED <<store, changes, metrics, locals, history>>

-----------------------------------------------------------------------------
(***************************************************************************)
(* handleIgnitionEnvironment, instrumentedProvider.Trigger and             *)
(* PrometheusProvider.Trigger                                              *)
(***************************************************************************)
Request(t, n) ==
  /\ pc[t] = "idle"
  /\ pc' = [pc EXCEPT ![t] = "lookup"]
  /\ name' = [name EXCEPT ![t] = n]
  /\ start' = [start EXCEPT ![t] = clock]
  /\ LET earlier == {start[u] : u \in Active} \cup {clock}
     IN  oldest' = [oldest EXCEPT ![t] = CHOOSE m \in earlier : \A k \in earlier : m <= k]
  /\ bound' = [bound EXCEPT ![t] = LabelsOf(store, n)]
  /\ UNCHANGED <<store, changes, clock, metrics, found, stamp, code>>

\* Mutant: the handler goes on after it has answered that there is none.
LookupOnwards(t) ==
  /\ pc[t] = "lookup"
  /\ pc' = [pc EXCEPT ![t] = "trigger"]
  /\ IF name[t] \in DOMAIN store.env
     THEN found' = [found EXCEPT ![t] = store.env[name[t]]] /\ UNCHANGED code
     ELSE code' = [code EXCEPT ![t] = 404] /\ UNCHANGED found
  /\ UNCHANGED <<store, changes, clock, metrics, name, stamp, history>>

\* store.GetEnvironment
Lookup(t) ==
  /\ pc[t] = "lookup"
  /\ IF name[t] \in DOMAIN store.env
     THEN /\ found' = [found EXCEPT ![t] = store.env[name[t]]]
          /\ pc' = [pc EXCEPT ![t] = "trigger"]
          /\ UNCHANGED code
     ELSE /\ code' = [code EXCEPT ![t] = 404]
          /\ pc' = [pc EXCEPT ![t] = "done"]
          /\ UNCHANGED found
  /\ UNCHANGED <<store, changes, clock, metrics, name, stamp, history>>

\* Mutant: the series starts anew with each trigger.
MakeSeriesAnew(t) ==
  /\ pc[t] = "trigger"
  /\ gauge' = Put(gauge, InfoLabels(found[t]), 0)
  /\ pc' = [pc EXCEPT ![t] = "clock"]
  /\ UNCHANGED <<store, changes, clock, counter, name, found, stamp, code, history>>

\* ErrEnvironmentRequired, or WithLabelValues, which makes a series of 0 unless
\* there is one.
MakeSeries(t) ==
  /\ pc[t] = "trigger"
  /\ IF found[t].Name = Empty
     THEN /\ code' = [code EXCEPT ![t] = 500]
          /\ pc' = [pc EXCEPT ![t] = "count"]
          /\ UNCHANGED gauge
     ELSE /\ gauge' = Put(gauge, InfoLabels(found[t]), ValueAt(gauge, InfoLabels(found[t])))
          /\ pc' = [pc EXCEPT ![t] = "clock"]
          /\ UNCHANGED code
  /\ UNCHANGED <<store, changes, clock, counter, name, found, stamp, history>>

\* time.Now().Unix()
ReadClock(t) ==
  /\ pc[t] = "clock"
  /\ stamp' = [stamp EXCEPT ![t] = clock]
  /\ pc' = [pc EXCEPT ![t] = "set"]
  /\ UNCHANGED <<store, changes, clock, metrics, name, found, code, history>>

\* Gauge.Set
SetSeries(t) ==
  /\ pc[t] = "set"
  /\ gauge' = Put(gauge, InfoLabels(found[t]), stamp[t])
  /\ code' = [code EXCEPT ![t] = 202]
  /\ pc' = [pc EXCEPT ![t] = "count"]
  /\ UNCHANGED <<store, changes, clock, counter, name, found, stamp, history>>

Status(t) == IF code[t] = 202 THEN "accepted" ELSE "error"

\* The counter, and the response.
Count(t) ==
  /\ pc[t] = "count"
  /\ LET series == <<InfoLabels(found[t]), Status(t)>>
     IN  counter' = Put(counter, series, ValueAt(counter, series) + 1)
  /\ pc' = [pc EXCEPT ![t] = "done"]
  /\ UNCHANGED <<store, changes, clock, gauge, name, found, stamp, code, history>>

-----------------------------------------------------------------------------
Init ==
  /\ store = NewStore
  /\ changes = 0
  /\ clock = 1
  /\ gauge = NoSeries
  /\ counter = NoSeries
  /\ pc = [t \in Triggers |-> "idle"]
  /\ name = [t \in Triggers |-> Empty]
  /\ found = [t \in Triggers |-> Nil]
  /\ stamp = [t \in Triggers |-> 0]
  /\ code = [t \in Triggers |-> 0]
  /\ start = [t \in Triggers |-> 0]
  /\ oldest = [t \in Triggers |-> 0]
  /\ bound = [t \in Triggers |-> {}]

Step(t) ==
  \/ \E n \in Names : Request(t, n)
  \/ Lookup(t) \/ MakeSeries(t) \/ ReadClock(t) \/ SetSeries(t) \/ Count(t)

Next == NamespaceEvent \/ Tick \/ \E t \in Triggers : Step(t)

SafetySpec == Init /\ [][Next]_vars

-----------------------------------------------------------------------------
(***************************************************************************)
(* Properties                                                              *)
(***************************************************************************)
Series == {InfoLabels(e) : e \in Environments}

TypeOK ==
  /\ \A n \in DOMAIN store.env : store.env[n] \in Storable
  /\ changes \in 0..MaxChanges
  /\ clock \in 1..MaxTime
  /\ DOMAIN gauge \subseteq Series /\ \A s \in DOMAIN gauge : gauge[s] \in 0..clock
  /\ DOMAIN counter \subseteq Series \X {"accepted", "error"}
  /\ pc \in [Triggers -> {"idle", "lookup", "trigger", "clock", "set", "count", "done"}]
  /\ \A t \in Triggers : found[t] # Nil <=> pc[t] \in {"trigger", "clock", "set", "count"}
                                              \/ (pc[t] = "done" /\ code[t] # 404)
  /\ \A t \in Triggers : stamp[t] # 0 => stamp[t] \in start[t]..clock
  /\ code \in [Triggers -> {0, 202, 404, 500}]

\* A trigger is for the environment that was asked for: it bears the name of the
\* request, in the namespace that had that name at some moment of the request,
\* whatever was renamed meanwhile; and so none is refused for want of a name
\* (server.go handleIgnitionEnvironment, store.go UpdateEnvironment).
RightSeries ==
  \A t \in Triggers : found[t] # Nil =>
    /\ found[t].Name = name[t]
    /\ InfoLabels(found[t]) \in bound[t]
    /\ code[t] # 500

\* Once a trigger is accepted, its series is at least as late as the oldest
\* trigger it overlapped: a trigger may set it back only if it was already under
\* way, and none sets it back to nothing (prometheus_provider.go Trigger).
AcceptedIsVisible ==
  \A t \in Triggers : pc[t] = "done" /\ code[t] = 202 =>
    ValueAt(gauge, InfoLabels(found[t])) >= oldest[t]

\* Accepted triggers and the series of the gauge tell the same story: what was
\* counted has a time, and a time without a count has its trigger under way
\* (provider.go Trigger).
CountedHaveTimes ==
  /\ \A s \in Series : <<s, "accepted">> \in DOMAIN counter => ValueAt(gauge, s) > 0
  /\ \A s \in DOMAIN gauge : <<s, "accepted">> \in DOMAIN counter
       \/ \E t \in Triggers : /\ pc[t] \in {"clock", "set", "count"}
                            /\ InfoLabels(found[t]) = s
=============================================================================
