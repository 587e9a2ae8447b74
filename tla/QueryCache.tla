----------------------------- MODULE QueryCache -----------------------------
(***************************************************************************)
(* The two caches between a request for an environment's status and        *)
(* Prometheus (internal/prometheus/query.go, bulk.go, single.go, and       *)
(* internal/probe/prometheus.go).                                          *)
(*                                                                         *)
(* Each environment has an executor (environmentQuery) with its last       *)
(* sample, under a mutex of its own that is held while Prometheus is       *)
(* queried.  The executors of a bulk query share one BulkValueQuery, with  *)
(* the samples of all environments, under a second mutex, taken while the  *)
(* first is held, and also held during the query.  Whatever happens to the *)
(* namespace replaces its executor by a new one with an empty cache, while *)
(* requests that read the store before still use the old one.              *)
(*                                                                         *)
(* A status check of a request is three calls one after the other: Value   *)
(* and Text, by PrometheusProbe.Value, each of which takes a sample, and   *)
(* then LastUpdate, by ResolveProbes.                                      *)
(*                                                                         *)
(* The data of a sample is abstracted to whether there is any and to the   *)
(* time at which Prometheus evaluated it.                                  *)
(***************************************************************************)
EXTENDS Integers, FiniteSets, Functions

CONSTANTS
  Kinds,        \* the kinds of query looked at: "bulk", "single"
  Envs,         \* environments
  Requests,     \* concurrent requests for the status of an environment
  None,         \* no request
  Interval,     \* QueryConfig.Interval, in ticks of the clock
  MaxTime,      \* bound: ticks of the clock
  MaxRebuilds,  \* bound: times the executor of an environment is replaced
  MaxFailures   \* bound: failed queries

ASSUME KindAssumption == Kinds \subseteq {"bulk", "single"}

ASSUME NoneAssumption == None \notin Requests

\* QueryConfig.Validate: "interval must be greater than 0".
ASSUME IntervalAssumption == Interval \in Nat \ {0}

ASSUME BoundsAssumption ==
  MaxTime \in Nat /\ MaxRebuilds \in Nat /\ MaxFailures \in Nat

Time == 0..MaxTime

\* The zero time.Time, longer ago than any interval.
Never == -Interval

Executors == Envs \X (0..MaxRebuilds)

VARIABLES
  kind,        \* QueryConfig.Kind, which never changes
  now,         \* the clock
  generation,  \* by environment: which of its executors the store has
  lock,        \* by executor: the request that holds its mutex, or None
  lastStored,  \* by executor: the cached sample
  lastUpdate,  \* by executor: the time of that sample
  bulkLock,    \* the request that holds the mutex of the bulk query, or None
  lastQuery,   \* the time of the last successful bulk query
  valCache,    \* function: environment |-> sample, of the last bulk query
  pc,          \* by request: where it is
  call,        \* by request: which of the two samples it takes
  target,      \* by request: the executor it uses, or None
  start,       \* by request: when its query to Prometheus started
  got,         \* by request: the samples it was given
  failures,    \* failed queries so far
  recent       \* history: the queries that ended less than an interval ago

executorVars == <<generation, lock, lastStored, lastUpdate>>
bulkVars     == <<bulkLock, lastQuery, valCache>>
requestVars  == <<pc, call, target, start, got>>
historyVars  == <<failures, recent>>
vars == <<kind, now, executorVars, bulkVars, requestVars, historyVars>>

\* A sample with a value, evaluated at t.
Sample(t) == [data |-> TRUE, timestamp |-> t]

\* The zero sample that stands for no data, with a timestamp.
NoData(t) == [data |-> FALSE, timestamp |-> t]

Env(r) == target[r][1]

\* Mutant: an interval is up to and including its end.
RecentInclusive(t) == now - t <= Interval

\* time.Since(t) < cfg.Interval
Recent(t) == now - t < Interval

NoSamples == [c \in {"value", "text"} |-> NoData(Never)]

-----------------------------------------------------------------------------
(***************************************************************************)
(* The request                                                             *)
(***************************************************************************)
\* The handler reads the environment, and with it the executor, from the store.
Start(r, e) ==
  /\ pc[r] = "idle"
  /\ pc' = [pc EXCEPT ![r] = "sample"]
  /\ target' = [target EXCEPT ![r] = <<e, generation[e]>>]
  /\ UNCHANGED <<kind, now, executorVars, bulkVars, call, start, got, historyVars>>

\* The request is over, with a value or an error.
End(r) ==
  /\ pc' = [pc EXCEPT ![r] = "idle"]
  /\ call' = [call EXCEPT ![r] = "value"]
  /\ target' = [target EXCEPT ![r] = None]
  /\ start' = [start EXCEPT ![r] = Never]
  /\ got' = [got EXCEPT ![r] = NoSamples]

\* sample() returns: Text follows Value, and LastUpdate follows Text.
Return(r, sample) ==
  /\ got' = [got EXCEPT ![r][call[r]] = sample]
  /\ start' = [start EXCEPT ![r] = Never]
  /\ \/ /\ call[r] = "value"
        /\ call' = [call EXCEPT ![r] = "text"]
        /\ pc' = [pc EXCEPT ![r] = "sample"]
     \/ /\ call[r] = "text"
        /\ pc' = [pc EXCEPT ![r] = "updated"]
        /\ UNCHANGED call
  /\ UNCHANGED target

\* What it returns is lastUpdate[target[r]].
LastUpdate(r) ==
  /\ pc[r] = "updated"
  /\ lock[target[r]] = None
  /\ End(r)
  /\ UNCHANGED <<kind, now, executorVars, bulkVars, historyVars>>

(***************************************************************************)
(* environmentQuery.sample                                                 *)
(***************************************************************************)
Hit(r) ==
  /\ pc[r] = "sample"
  /\ lock[target[r]] = None
  /\ Recent(lastUpdate[target[r]])
  /\ Return(r, lastStored[target[r]])
  /\ UNCHANGED <<kind, now, executorVars, bulkVars, historyVars>>

\* The request to Prometheus goes out.
Ask(r) ==
  /\ pc' = [pc EXCEPT ![r] = "query"]
  /\ start' = [start EXCEPT ![r] = now]
  /\ UNCHANGED <<call, target, got, historyVars>>

\* Mutant: the mutex is released before the query.
MissUnlocked(r) ==
  /\ pc[r] = "sample"
  /\ lock[target[r]] = None
  /\ ~Recent(lastUpdate[target[r]])
  /\ \/ /\ kind = "bulk"
        /\ pc' = [pc EXCEPT ![r] = "match"]
        /\ UNCHANGED <<call, target, start, got, historyVars>>
     \/ /\ kind = "single"
        /\ Ask(r)
  /\ UNCHANGED <<kind, now, executorVars, bulkVars>>

Miss(r) ==
  /\ pc[r] = "sample"
  /\ lock[target[r]] = None
  /\ ~Recent(lastUpdate[target[r]])
  /\ lock' = [lock EXCEPT ![target[r]] = r]
  /\ \/ /\ kind = "bulk"
        /\ pc' = [pc EXCEPT ![r] = "match"]
        /\ UNCHANGED <<call, target, start, got, historyVars>>
     \/ /\ kind = "single"
        /\ Ask(r)
  /\ UNCHANGED <<kind, now, generation, lastStored, lastUpdate, bulkVars>>

\* Mutant: the time the sample was stored is kept, and not its timestamp.
StoreAtNow(x, sample) ==
  /\ lastStored' = [lastStored EXCEPT ![x] = sample]
  /\ lastUpdate' = [lastUpdate EXCEPT ![x] = now]
  /\ lock' = [lock EXCEPT ![x] = None]

\* Mutant: the sample is kept without its time.
StoreUntimed(x, sample) ==
  /\ lastStored' = [lastStored EXCEPT ![x] = sample]
  /\ lock' = [lock EXCEPT ![x] = None]
  /\ UNCHANGED lastUpdate

\* queryForEnvironment returned a sample: it is cached under its timestamp.
Store(x, sample) ==
  /\ lastStored' = [lastStored EXCEPT ![x] = sample]
  /\ lastUpdate' = [lastUpdate EXCEPT ![x] = sample.timestamp]
  /\ lock' = [lock EXCEPT ![x] = None]

(***************************************************************************)
(* BulkValueQuery.queryForEnvironment                                      *)
(***************************************************************************)
\* Mutant: what is not in the cache has no timestamp either, which stands for the
\* Unix epoch and not for the zero time.Time.
CachedWithoutTime(e) ==
  IF e \in DOMAIN valCache THEN valCache[e] ELSE NoData(Never - 1)

Cached(e) == IF e \in DOMAIN valCache THEN valCache[e] ELSE NoData(lastQuery)

CacheHit(r) ==
  /\ pc[r] = "match"
  /\ bulkLock = None
  /\ Recent(lastQuery)
  /\ Store(target[r], Cached(Env(r)))
  /\ Return(r, Cached(Env(r)))
  /\ UNCHANGED <<kind, now, generation, bulkVars, historyVars>>

CacheMiss(r) ==
  /\ pc[r] = "match"
  /\ bulkLock = None
  /\ ~Recent(lastQuery)
  /\ bulkLock' = r
  /\ valCache' = [e \in {} |-> NoData(Never)]
  /\ Ask(r)
  /\ UNCHANGED <<kind, now, executorVars, lastQuery>>

\* Mutant: the bulk query counts as made when it was sent.
BulkAnswerStarted(r, found) ==
  /\ kind = "bulk"
  /\ valCache' = [e \in found |-> Sample(start[r])]
  /\ lastQuery' = start[r]
  /\ bulkLock' = None
  /\ LET sample == IF Env(r) \in found THEN Sample(start[r]) ELSE NoData(now)
     IN  Store(target[r], sample) /\ Return(r, sample)

\* Prometheus has data for the environments in found.
BulkAnswer(r, found) ==
  /\ kind = "bulk"
  /\ valCache' = [e \in found |-> Sample(start[r])]
  /\ lastQuery' = now
  /\ bulkLock' = None
  /\ LET sample == IF Env(r) \in found THEN Sample(start[r]) ELSE NoData(now)
     IN  Store(target[r], sample) /\ Return(r, sample)

(***************************************************************************)
(* SingleValueQuery.queryForEnvironment                                    *)
(***************************************************************************)
SingleAnswer(r, found) ==
  /\ kind = "single"
  /\ found = {Env(r)}
  /\ Store(target[r], Sample(start[r]))
  /\ Return(r, Sample(start[r]))
  /\ UNCHANGED bulkVars

(***************************************************************************)
(* Prometheus: an answer, or an error.  To a single query, no result and   *)
(* too many results are errors too.  Nothing in the program bounds how     *)
(* long either takes.                                                      *)
(***************************************************************************)
Query(r, answered, found) ==
  [env |-> Env(r), start |-> start[r], end |-> now, answered |-> answered, found |-> found]

Answer(r) ==
  /\ pc[r] = "query"
  /\ \E found \in SUBSET Envs :
       /\ BulkAnswer(r, found) \/ SingleAnswer(r, found)
       /\ recent' = recent \cup {Query(r, TRUE, found)}
  /\ UNCHANGED <<kind, now, generation, failures>>

\* Mutant: an error returns without unlocking.
FailureLocked(r) ==
  /\ pc[r] = "query"
  /\ failures < MaxFailures
  /\ failures' = failures + 1
  /\ recent' = recent \cup {Query(r, FALSE, {})}
  /\ End(r)
  /\ UNCHANGED <<kind, now, executorVars, bulkVars>>

Failure(r) ==
  /\ pc[r] = "query"
  /\ failures < MaxFailures
  /\ failures' = failures + 1
  /\ recent' = recent \cup {Query(r, FALSE, {})}
  /\ lock' = [lock EXCEPT ![target[r]] = None]
  /\ bulkLock' = None
  /\ End(r)
  /\ UNCHANGED <<kind, now, generation, lastStored, lastUpdate, lastQuery, valCache>>

(***************************************************************************)
(* The event handler replaces the executor (prober.AddEnvironment and      *)
(* Store.UpdateEnvironment); that of a bulk query is made under its mutex. *)
(***************************************************************************)
Rebuild(e) ==
  /\ generation[e] < MaxRebuilds
  /\ kind = "bulk" => bulkLock = None
  /\ generation' = [generation EXCEPT ![e] = @ + 1]
  /\ UNCHANGED <<kind, now, lock, lastStored, lastUpdate, bulkVars, requestVars, historyVars>>

Tick ==
  /\ now < MaxTime
  /\ now' = now + 1
  /\ recent' = {q \in recent : now' - q.end < Interval}
  /\ UNCHANGED <<kind, executorVars, bulkVars, requestVars, failures>>

-----------------------------------------------------------------------------
Init ==
  /\ kind \in Kinds
  /\ now = 0
  /\ generation = [e \in Envs |-> 0]
  /\ lock = [x \in Executors |-> None]
  /\ lastStored = [x \in Executors |-> NoData(Never)]
  /\ lastUpdate = [x \in Executors |-> Never]
  /\ bulkLock = None
  /\ lastQuery = Never
  /\ valCache = [e \in {} |-> NoData(Never)]
  /\ pc = [r \in Requests |-> "idle"]
  /\ call = [r \in Requests |-> "value"]
  /\ target = [r \in Requests |-> None]
  /\ start = [r \in Requests |-> Never]
  /\ got = [r \in Requests |-> NoSamples]
  /\ failures = 0
  /\ recent = {}

Step(r) == Hit(r) \/ Miss(r) \/ CacheHit(r) \/ CacheMiss(r) \/ LastUpdate(r)

Next ==
  \/ \E r \in Requests :
       \/ \E e \in Envs : Start(r, e)
       \/ Step(r)
       \/ Answer(r)
       \/ Failure(r)
  \/ \E e \in Envs : Rebuild(e)
  \/ Tick

SafetySpec == Init /\ [][Next]_vars

\* A goroutine that waits for a mutex gets it in the end (sync.Mutex serves
\* starving waiters first), and a query ends.
Fairness ==
  \A r \in Requests : SF_vars(Step(r)) /\ WF_vars(Answer(r) \/ Failure(r))

Spec == SafetySpec /\ Fairness

-----------------------------------------------------------------------------
(***************************************************************************)
(* Properties                                                              *)
(***************************************************************************)
Times == Time \cup {Never}

Samples == [data: BOOLEAN, timestamp: Times]

TypeOK ==
  /\ kind \in Kinds
  /\ now \in Time
  /\ generation \in [Envs -> 0..MaxRebuilds]
  /\ lock \in [Executors -> Requests \cup {None}]
  /\ lastStored \in [Executors -> Samples]
  /\ lastUpdate \in [Executors -> Times]
  /\ bulkLock \in Requests \cup {None}
  /\ lastQuery \in Times
  /\ DOMAIN valCache \subseteq Envs /\ \A e \in DOMAIN valCache : valCache[e] \in Samples
  /\ pc \in [Requests -> {"idle", "sample", "match", "query", "updated"}]
  /\ call \in [Requests -> {"value", "text"}]
  /\ target \in [Requests -> Executors \cup {None}]
  /\ start \in [Requests -> Times]
  /\ got \in [Requests -> [{"value", "text"} -> Samples]]
  /\ failures \in 0..MaxFailures
  /\ recent \subseteq [env: Envs, start: Time, end: Time, answered: BOOLEAN, found: SUBSET Envs]

\* The query q is where a sample of environment e comes from.
Yields(q, e, sample) ==
  /\ q.answered
  /\ \/ sample.data /\ e \in q.found /\ q.start = sample.timestamp
     \/ ~sample.data /\ e \notin q.found /\ q.end = sample.timestamp

\* A call of sample() returns to request r in this step.
Returns(r) == pc[r] # "updated" /\ (pc'[r] = "updated" \/ <<call[r], call'[r]>> = <<"value", "text">>)

\* A value, "no data" included, is what Prometheus answered, in an answer that
\* was complete less than one interval before the value is returned: the
\* durations of the two caches do not add up, and a query that failed is never
\* served as "no data" (query.go sample, bulk.go queryForEnvironment).
FreshAndHonest ==
  [][\A r \in Requests :
       Returns(r) => \E q \in recent' :
                       Yields(q, Env(r), got'[r][call[r]]) /\ now - q.end < Interval]_vars

\* However many requests and environments ask, a bulk query is sent at least an
\* interval after the last one was answered (bulk.go queryForEnvironment).
BulkQueriesSpaced ==
  \A r \in Requests :
    kind = "bulk" /\ pc[r] = "query" =>
      \A q \in recent : q.answered => start[r] - q.end >= Interval

\* statusUpdatedAt is never older than a sample it is reported with, although it
\* is read by a call of its own that another request's query may precede
\* (environment.go ResolveProbes, query.go LastUpdate).
UpdatedNotOlder ==
  \A r \in Requests : pc[r] = "updated" =>
    \A c \in {"value", "text"} : lastUpdate[target[r]] >= got[r][c].timestamp

\* The time an executor reports as its last update never goes back (query.go
\* sample, whose timestamps come from the two clocks of query and cache).
LastUpdateMonotone == [][\A x \in Executors : lastUpdate'[x] >= lastUpdate[x]]_vars

\* A request holds the mutex of its executor, and for a bulk query that of the
\* query, exactly while it queries: no path returns without unlocking, and no
\* two requests are in one executor, or in the bulk query, at a time.
LocksHeld ==
  /\ \A x \in Executors : \A r \in Requests :
       lock[x] = r <=> target[r] = x /\ pc[r] \in {"match", "query"}
  /\ \A r \in Requests : bulkLock = r <=> kind = "bulk" /\ pc[r] = "query"

\* Every request ends, whoever holds which mutex: the executor's is always taken
\* before that of the bulk query, and every path releases both.
RequestsEnd == \A r \in Requests : pc[r] # "idle" ~> pc[r] = "idle"

-----------------------------------------------------------------------------
(***************************************************************************)
(* What the source says and the code does not keep.                        *)
(***************************************************************************)
\* query.go: "queries are not executed more frequently than the configured
\* interval".
QueriesSpaced ==
  \A r \in Requests : pc[r] = "query" =>
    \A q \in recent : kind = "bulk" \/ q.env = Env(r) => start[r] - q.start >= Interval
=============================================================================
