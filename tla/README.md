# A verification model of ephemeral-envs

TLA+ modules, TLC configurations and TLAPS proofs about the autodiscovery
service of this repository: how it learns of ephemeral environments from
Kubernetes namespaces, keeps them in a store, and answers for their status from
Prometheus without asking it too often.

## The system

| Component | Source | State | Operations |
|---|---|---|---|
| Environment store | `internal/store` | `env`, a map from name to environment, under an RWMutex; the gauge `ephemeralenv_environment_info` | add (overwrites a namesake), delete, update (in place, or delete and add), reads by name, by namespace, by status |
| Event handler | `cmd/autodiscovery/events.go` | none of its own | namespace added, updated, deleted: builds URLs, status checks and metadata from annotations and configured probers, then calls the store |
| Namespace watch | `internal/kube` | the client-go informer: cache, queue of notifications | registers the handlers, starts the informer with a label selector and a ten-minute resync, waits for the cache |
| Query caches | `internal/prometheus` | per environment and probe: last sample and its time, under a mutex; per bulk query: all samples and the time of the query, under a second mutex | sample, bulk and single query, last update |
| Probes | `internal/probe` | static value, or an executor and a converter | value (two samples of the executor, then conversion), last update |
| HTTP API | `cmd/autodiscovery/server.go` | none | names (filtered by namespace or status), one environment, all environments, ignition, health; middleware for logging, CORS and panics |
| Ignition | `internal/ignition` | a gauge with the time of the last trigger, a counter | trigger |
| Configuration | `cmd/autodiscovery/config.go`, the `Validate` methods, the constructors | read once at start | parse, validate, construct |
| Life cycle | `cmd/autodiscovery/main.go` | two servers, a channel of their errors, the context of the signal | probers, watch, servers, signal, shutdown |

How they interact: the informer runs one goroutine that updates its cache from
list and watch, and a second one, its listener, that calls the handlers one at a
time from an unbounded queue. A handler asks the probers for new probes (a bulk
prober takes the mutex of its bulk query for that) and calls the store under the
write lock. HTTP requests run concurrently; each copies environments out of the
store under the read lock and then calls their probes outside it, except for the
status filter, which calls them under the lock. Nothing is persisted.

What is hard about it, and what makes each part correct:

* *Store and events.* Environments are keyed by a label that the cluster does
  not keep unique, while events are ordered per namespace only. Correct: no entry
  outlives the namespace or the name it stands for; the gauge shows what is
  stored; a valid environment that was reported is found, and if duplicates got in
  the way, found again in the end.
* *Watch.* Missed changes coalesce; the initial list and a relist look alike to
  the handler; the process restarts empty. Correct: notifications of a namespace
  chain, and the store converges.
* *Caches.* Two layers with the same interval, locks held across a network call,
  executors replaced while in use, a status read in three calls. Correct: values
  are as fresh as the interval promises, failures are not taken for data, the
  query rate is bounded, times do not go back, requests end.
* *HTTP API.* A request looks at the environments one after the other, and calls
  their probes one after the other, while the store changes; a listing by status
  holds the store's lock meanwhile, and the event handler needs that lock and the
  mutexes of the bulk queries. Correct: an answer is what one state of the store
  said, nothing is left out silently, and everybody gets through.
* *Ignition.* A trigger works with a copy of an environment that may have been
  renamed or removed since, beside other triggers. Correct: it is recorded for the
  environment that was asked for, and its time is not lost to an older one.
* *Configuration and life cycle.* What is accepted is checked in one place and
  required in another; a signal races a failing server; two servers share one
  deadline for their shutdown. Correct: every entry that was accepted is served, the
  process ends when it should, and it reports success only for a clean end.

## The modules

* `EnvironmentStore` — `store.go` and `environment.go` as operators. A store is a
  record `[env, envInfo]`; every mutator maps the store before the call to
  `[store, err]`, which is sound because each runs under the write lock from
  beginning to end.
* `EventHandler` — `events.go`: the environment a namespace object describes and
  the store operation of each event. A namespace is `[Name, Label, CreatedAt,
  Annotations]`; an annotation key is a pair of its prefix and the rest. JSON
  parsing of metadata is a constant function of the values that are JSON scalars.
* `Discovery` — the pipeline: `cluster` (API server), `listed`, `initial`,
  `indexer` (informer), `events` (queue of the listener), `store`, `serving`, and
  the history variables `delivered`, the last object the handler was told about
  each namespace, and `separate`, whether every name the cluster took so far was
  free of claims anywhere in the pipeline. Actions: `KubeCreate/Update/Delete`, `List`, `PopInitial`,
  `Observe`, `Resync` (informer), `Handle` (dispatch and handler), `StartServing`,
  `Restart`. API server and informer are external; they are modelled by what
  `internal/kube` relies on. `Observe` may skip any number of changes, as a relist
  does; two notifications of different namespaces may come in either order.
* `Directory` — the abstract specification: a directory that, each time it is
  told about one namespace, touches only what that namespace announced before and
  announces now, and lists valid news at once.
* `QueryCache` — requests against executors: `Start` (read the executor from the
  store), `Hit`/`Miss` (`environmentQuery.sample`), `CacheHit`/`CacheMiss`
  (bulk), `Answer`/`Failure` (Prometheus), `LastUpdate`, `Rebuild` (an event
  replaces the executor), `Tick`. The kind of the query is chosen at the start. A sample is whether there is data, and its
  timestamp. `recent` is a history variable: the queries that ended less than an
  interval ago.
* `ApiServer` — `server.go` and the reads of the store, composed with the event
  handler (`EventHandler`, `EnvironmentStore`) by way of their locks. The handler:
  `Notify` (a namespace is reported), `Build` (a probe is made, under the mutex of
  its bulk query), `Lock` (it queues for the store's write lock, which keeps new
  readers out), `Write`. A request: `Receive`, `Read` (copies environments, or
  keeps the read lock for a listing by status), `Visit` (next environment),
  `Local` (a static or a missing probe) or `Take` (a probe of Prometheus), `Finish`,
  `Respond` or `Panic`, `End`. A probe of Prometheus goes the way of
  `environmentQuery.sample`: it waits for the mutex of its executor, and there either
  has a recent sample (`Hit`) or not (`Miss`); then, with that mutex in hand, it waits
  for the mutex of the bulk query, and there either finds a recent cache (`CacheHit`)
  or asks Prometheus (`Ask`, `Answer`). How old a cache is, is the subject of
  `QueryCache` and left open here, but it is decided under the mutex: a request that
  waits for one has no other way. `generation` and `used` tell the executors of an
  environment apart that events replace, because requests keep to the ones they read.
  A number is one of the classes that the conversions tell apart. `seen` and
  `observed` are history variables: the stores there were since the request came in,
  and what the probes yielded.
* `StatusFilter` — `parseStatusFilter`, one token of the query per step, with its
  proofs.
* `Ignition` — triggers step by step (`Request`, `Lookup`, `MakeSeries`,
  `ReadClock`, `SetSeries`, `Count`) over an `EnvironmentStore` that is changed by
  any event, and a clock. `start`, `oldest` and `bound`
  are history variables.
* `Configuration` — operators for the validation of a configuration file and for
  what the constructors ask of it afterwards. A template is the record of whether
  it parses, whether it opens an HTML tag, and the fields it uses for the one
  environment it is tried with: what `text/template` and `html/template` tell apart. Client settings and addresses are sets of
  which some are refused when they are used. `validate`
  yields the set of its outcomes, because it ranges over maps in any order and
  stops at the first error; an entry without a value is a nil pointer, and then the
  outcome is a panic.
* `Process` — `main.go` around them: an action for each part that is set up, in the
  order of `run`; `Bind`, `Fail`, `Accept`, `Answer` of the two servers; `Signal`;
  `Select`, `StopApi`, `StopMetrics`, `Expire`. Every error of the probers ends in
  "failed to set up probers", as `run` reports it; `cause` keeps what it wraps: the
  client, the address, the connection or a prober. `elapsed` and `lost` are history
  variables.
* `MCDiscovery`, `MCQueryCache`, `MCApiServer`, `MCStatusFilter`, `MCIgnition`,
  `MCProcess` — the values for TLC.
* `EnvironmentStoreProofs` — lemmas about the mutators of the store, which the
  proofs of the three modules that own a store rest on.
* `DiscoveryProofs`, `NameSharingProofs`, `QueryCacheProofs`, `ApiServerProofs`,
  `IgnitionProofs`, `ProcessProofs` — theorems and proofs.

Operators named as mutants in the modules are deliberately wrong variants of the
definition that follows them. Each breaks the properties listed with it in
`PROJECT.json`, and so shows that the property depends on that piece of code.

## The runs

| Run | Instance | What it checks |
|---|---|---|
| `discovery_safety` | 2 namespaces, 2 names, 2 creation times, a valid and an invalid set of annotations, any initial cluster, 2 changes, 2 pending notifications per namespace, 1 restart | `TypeOK`, `EventChain`, `NoGhosts`, `LookupByNamespaceDeterministic`, `InfoMatchesStore`, `NothingLost`, `ServedOrQueued`, and that each step refines `Directory` |
| `discovery_liveness` | the same with one creation time and without symmetry | `Converges`, `ContestedNamesListed` |
| `query_bulk` | a bulk query, 2 environments, 2 requests, interval 2, time 0..3, 1 failure, each executor replaced once | `TypeOK`, `FreshAndHonest`, `BulkQueriesSpaced`, `UpdatedNotOlder`, `LastUpdateMonotone`, `LocksHeld` |
| `query_liveness` | a bulk or a single query, 1 environment, 2 requests, interval 2, time 0..3, 1 failure, 1 replacement | `RequestsEnd`, and `FreshAndHonest`, `UpdatedNotOlder`, `LastUpdateMonotone` also for the single query |
| `api_answers` | 2 namespaces that share 2 names, probes that are missing, static or of a bulk query, every kind of request, 3 events at most | `Snapshot`, `AllOrNothing`, `LogKnowsFailures` |
| `api_contention` | 2 requests and the handler over one bulk query and the executors it is asked through | `TypeOK`, `NoCircularWait`, `RequestsAnswered`, `EventsHandled` |
| `status_filter` | every query of up to 4 tokens over two names, one name that begins with `!`, and none | `TypeOK`, `LastMentionWins` |
| `ignition` | 2 triggers, environments of 2 namespaces with shared and with empty names, 3 changes of the store, time 1..3 | `TypeOK`, `RightSeries`, `CountedHaveTimes`, `AcceptedIsVisible` |
| `process` | over a thousand configurations, with each field of an entry at each value that matters; without Prometheus, with it, and with a client or an address that cannot be used; with no metrics server, with one, and with both ports the same; a signal and failures at any moment; 2 open requests per server | `TypeOK`, `AcceptedIsServed`, `SuccessIsClean`, `NothingCutEarly`, `SignalEnds`, `FailureEnds` |
| `empty_name`, `rebuild_spacing`, `text_template` | small | each refutes one statement of the source, see below |

*Why these bounds.* Every step of the store involves one namespace, the name it
had and the name it gets, so an interference needs two namespaces and two names.
Two changes after an arbitrary initial cluster give a swap, a rename into a name
in use, and a deletion with re-creation that arrives as one update; two pending
notifications per namespace let each kind of event wait behind another. The
proofs below remove the bounds for the safety properties. In `QueryCache` an
interval of two ticks tells "just now", "within the interval" and "expired" apart
and lets a query span a tick; two requests are enough for one to hold a mutex
while the other waits, and, with one replacement, for one to use the old executor
of an environment beside one in the new. In `ApiServer` what one request answers does not depend on what others
ask, so the run about answers has one request among events, and the run about
locks two requests that contend, with few values; two namespaces with two names
rename an environment while a listing is between two of them. In `Ignition` two
triggers overlap, and three changes are an addition, a rename and a removal, or
the adoption of a name that another namespace gave up. In `StatusFilter` four tokens
mention one name before and after another. In `Process` one request per server
is enough to keep a shutdown waiting; there are two. `MaxChanges`, `MaxPending`, `MaxRestarts`,
`MaxTime`, `MaxRebuilds`, `MaxFailures`, `MaxEvents`, `MaxTokens` and `MaxOpen`
are the only bounds, each in a guard or in the initial states.

*Symmetry* (namespaces and labels; environments and requests; triggers) is used in
three safety runs and in none with liveness. *Deadlock* is checked in the runs of `QueryCache` and
`ApiServer`, where everyone could wait for everyone. It is not checked where the
system may stop: in the discovery runs, since a service with no namespaces and a
quiet cluster has nothing to do; in `StatusFilter`, which ends with its input; in
`Ignition`, when all triggers are done; in `Process`, when the process has exited.

*Fairness.* In `Discovery` all of `List`, `PopInitial`, `Observe`, `Resync`,
`Handle` and `StartServing` are weakly fair: the informer's goroutines run until
the process ends, the reflector retries a broken list or watch for ever, the
resync timer keeps firing, the listener has one consumer that never waits for
anything but its handler, and `WaitForCacheSync` polls. Nothing is assumed of the
cluster or of restarts. In `QueryCache` the steps of a request are strongly fair,
because they wait for a `sync.Mutex` or `RWMutex`, which hand over to a waiter
that has starved for a millisecond, and `Answer \/ Failure` is weakly fair: a
query ends. The code does not enforce the latter, since `Timeout` is only passed
to the server; a connection that hangs for ever makes the request, and all that
need the same mutex, hang with it. Requests that keep coming are not assumed.

In `ApiServer` likewise: strong fairness for what waits for a lock (`Build`, and the
next step of a request as long as it does not respond), and weak fairness for the rest,
`Answer` included, and for `Write`, which only waits for readers that are in
already. In each place a request waits for one lock or for none, and what it does
under the lock, from a cache or not, is not up to fairness; so no wait is avoided by
it. Clients and namespaces do nothing they do not want to. In `Process` the steps that
only the process takes are weakly fair, the clock is, and the calls that a cancelled context ends (`SetupProbers`,
`Watch`) are fair once there was a signal: nothing is assumed of Kubernetes and
Prometheus, of servers, or of requests, which need not end.

## What the code does not keep

Three statements are refuted by a run each:

* `StoredUnderItsName` (`empty_name`): a label changed to the empty string. The
  in-place update takes an empty name for "unchanged" and writes the old environment
  under the key `""`; the entry under the old name stays for good.
* `QueriesSpaced` (`rebuild_spacing`): the interval is no minimum between executions
  of a query, since each event of the namespace, resyncs included, replaces the
  executor of a single query and its memory. For answered bulk queries the minimum
  holds (`BulkQueriesSpaced`).
* `TextTemplatesAccepted` (`text_template`): queries are executed by `text/template`
  and validated by `html/template`, which refuses some of them.

The models also show the following, which no run is about:

* An in-place update stores what an addition would refuse, such as an empty URL.
* After a duplicate name, the event by which one namespace gives the name up removes
  the other's entry. `NothingLost` states the condition under which this cannot
  happen, and `Converges` that the resync repairs it.
* "Initial sync complete" is logged, and the server started, before the handlers of
  the initial list have run. `ServedOrQueued` says what holds instead.
* A failed query is not remembered, so it is not throttled either: with
  `MaxFailures = 1` and no replacement TLC refutes `QueriesSpaced` by a failure and the
  next request.
* The timeout of a query is a parameter for Prometheus (`bulk.go:102`,
  `single.go:85`) and no deadline of the call.
* A body that cannot be encoded is noticed after the header was sent with 200, and
  the log says 500. `LogKnowsFailures` says what the log can be trusted with.
* Any number but 0 passes a status check, a negative one and NaN included, where
  `examples/config.yaml:16` speaks of "a value > 0".
* Of two triggers that overlap the gauge may keep the earlier time, where the
  repository's README calls it the time of the latest one. `AcceptedIsVisible`
  bounds how far back it may go.
* A query is tried for one environment, named test; one that uses an undefined field
  only for other environments is accepted, where `query.go:160` says it "must [...] only
  use the defined template fields", and then fails for them (`single.go:74`).
  `AcceptedIsServed` says that it executes for the one it was tried with.
* A configuration without an address is accepted with all its entries, and none of
  them has a prober; `AcceptedIsServed` says so.
* Client settings and a malformed address are not looked at when the configuration is
  read; the process ends when it makes its client (`cause`).
* The status check that the chart's `values.yaml` gives as an example has no kind,
  which is refused.

An entry of the configuration without a value, as in `statusChecks: {active: }`,
makes `validate` dereference a nil pointer; the process ends with a panic instead
of an error, which the outcome "panic" of `validate` stands for.

## The proofs

Every safety property of the passing runs, invariant or property of steps, is a theorem
for all values of the constants. The longer invariants (`QueryCacheProofs`,
`IgnitionProofs`) were checked by TLC on the instances of the runs before they were
proved.

### The store (`EnvironmentStoreProofs`)

No theorems about executions, but what the mutators do for any store: which entries
they set, remove and leave (`AddEffect`, `DeleteEffect`, `UpdateEffect`), and which
series (`AddExported`, `DeleteExported`, `InfoEffect`).

### Discovery (`DiscoveryProofs`, `NameSharingProofs`)

* `TypeCorrect`: `SafetySpec => []TypeOK`, and `EventsChained`: `SafetySpec =>
  []EventChain`, from the assumptions of the modules alone.
* `Invariance`: `IInv == TypeOK /\ EventChain /\ NoGhosts /\ InfoMatchesStore` is
  an invariant, if the empty string is not among the labels; `StoreHasNoGhosts`,
  `InfoFollowsStore` and `LookupByNamespace` follow.
* `DirectoryImplemented`: `SafetySpec => ImplementsDirectory`, with
  `told <- delivered` and `listing <- store.env`, under the same condition.

The condition on the labels is needed: with an empty label TLC refutes
`StoredUnderItsName` and each of these properties. `NoGhosts` is not inductive.
That handling an update finds the entry of the namespace under the *old* name of
the notification needs `EventChain`: the old object of each notification is the new
object of the one before it, or what the handler was told last. `EventChain` in
turn talks of the informer's cache, because the next notification will start from
it. Handling is reduced to lemmas about one store operation on a store without
ghosts (`AddNews`, `DeleteNews`, `UpdateNews`), which say what remains of other
namespaces and what is listed of this one; the same lemmas give the step of the
refinement. `deleteEnvironment` and `addEnvironment` keep gauge and map together as
long as each entry is stored under its own name, which is a part of `NoGhosts`.

* `SeparateNamesLoseNothing`: `SafetySpec => []NothingLost`, for any labels. The
  invariant adds `separate => Apart`: as long as names changed hands only when
  nobody claimed them, the names that two namespaces claim anywhere in the pipeline
  are disjoint. It is preserved because only the cluster introduces names. Handling
  a notification touches only entries under the names in it, and lists what is valid
  (`HandledEntries`), whatever else is in the store; so ghosts do no harm here, and
  `NoGhosts` is not used.
* `ServedIsListedOrQueued`: `SafetySpec => []ServedOrQueued`, for any labels. What
  the server waited for is the informer (`Synced`); that the handler has caught up
  with it as soon as the queue has nothing of a namespace is `EventChain` again
  (`NothingPending`).
* `SettledMirrorsCluster`: what is left of `Converges` without fairness. If the
  informer knows the cluster and the queue is empty, the store mirrors the cluster,
  as long as names were kept apart and no label is empty.

### Query caches (`QueryCacheProofs`)

For either kind of query, any environments, requests and interval, and no condition:

* `QueryTypeCorrect`: `[]TypeOK`. `Engaged` is added: a request that is not idle has
  an executor, and only bulk queries have a second cache.
* `LocksAreHeld`: `[]LocksHeld`, inductive with the types. A step of one request
  finds no other in the same executor or bulk query.
* `BulkQueriesAreSpaced`: `[]BulkQueriesSpaced`. The property speaks of queries, the
  code only of its field `lastQuery`; `Throttled` joins them: no answer is later
  than `lastQuery`, and a bulk query that is on its way left an interval after it. An
  answer moves `lastQuery`, which breaks this for every other query on its way;
  `LocksHeld` says there is none.
* `CacheInvariance`: the inductive invariant for the three below. Who queries found
  the sample an interval old, and it still is (`Overdue`), because only the holder of
  the mutex replaces it. No executor is ahead of the bulk query, and while the bulk
  cache counts it is the answer of one query (`Backed`): its entries are dated by the
  start of that query, the executors that were told "no data" by its end, and
  none in between. So whatever replaces a sample is newer (`Fetched`). `recent`
  forgets a query an interval after its *end*, and a sample counts for an interval
  after its *time*, which is the start of the query or its end: while a sample counts,
  the query it came from is not forgotten (`Remembered`).
* `UpdatesNeverGoBack`: `LastUpdateMonotone`; `UpdatesAreNotOlder`:
  `[]UpdatedNotOlder`, from `Received`: what a request was given is no newer than the
  executor it reads the time from at last; `AnswersAreFresh`: `FreshAndHonest`, from
  `Remembered` for an executor's own sample and from `Backed` for the bulk cache.

### HTTP API (`ApiServerProofs`)

* `ServingInvariance`: types, the order of each request's steps (`Served`), the owners
  of the mutexes (`Held`), and per request that its code is 500 exactly if a probe
  failed and that the probes it called or has left to call are those it wants of its
  answer (`Resolving`); for any labels. `ValuesAllOrNothing` (`[]AllOrNothing`) and
  `LogIsHonest` (`[]LogKnowsFailures`) follow.
* `ServerInvariance`: if no label is empty, the store is a listing of what the
  handler was told, without the event under way (`Listing`); what a request copied, or
  goes over while it holds the read lock, is the part in its scope of one state of the
  store in `seen` (`Sourced`); each entry it has visited is told of as the filter
  demands (`Visiting`). `AnswersAreSnapshots` (`[]Snapshot`) and `ServerTypeCorrect`
  (`[]TypeOK`) follow. `NobodyWaitsInACircle` (`[]NoCircularWait`) adds that each probe
  that is asked for has a query (`ConfiguredQuery`): the holder of a bulk query is in
  `Answer`, which waits for nobody, the holder of an executor is there or waits for
  such a holder, and a reader of the store goes on or waits for one of these. The
  steps of all others are dealt with once (`Frame`): they
  leave the request alone, and the store too while it holds the read lock.

The condition on the labels is needed for the second group: an entry left over under
the empty name gives a namespace two entries, of which a look-up by namespace
returns one, and TLC refutes `Snapshot`.

### Ignition (`IgnitionProofs`)

For any environments, the ones without a name included, and any triggers:
`IgnitionTypeCorrect` (`[]TypeOK`), `TriggersHitTheirName` (`[]RightSeries`),
`CountedHaveTheirTimes` (`[]CountedHaveTimes`), `AcceptedStaysVisible`
(`[]AcceptedIsVisible`), from `IgnitionInvariance`. The store is described by what
survives even updates that empty a name: an entry under a name that is not empty
bears it (`Listed`). `AcceptedIsVisible` needs that no trigger writes a time before
its start, that no trigger under way began before the oldest one that any other has
overlapped (`Overlapping`), and that `MakeSeries` keeps the time of a series that
exists.

### Life cycle and configuration (`ProcessProofs`)

For any configurations and any number of open requests: `ProcessTypeCorrect`
(`[]TypeOK`, with as many errors in the channel as servers that failed, `Serving`),
`AcceptedEntriesAreServed` (`[]AcceptedIsServed`: past its reading the configuration
has the outcome "ok", from which each entry is valid, what is valid the constructors
accept and the text template executes, and past their set-up the probers are those of
all entries; client settings and addresses are arbitrary sets), and
`SuccessMeansClean` and `RequestsKeepTheirTime` (`[]SuccessIsClean`: success only after a signal, with nothing open and no server left
starting or listening, though one may have failed; `[]NothingCutEarly`: what was open
was cut off after ten seconds, or because the process ended for a failed server),
from the order of the shutdown (`Stopping`), whose invariance is `ShutdownInvariance`.

### Status filter (`StatusFilter`)

`FilterTypeCorrect`, `Spec => []TypeOK`, and `FilterIsLastMention`, `Spec =>
[]LastMentionWins`, for any names and any number of tokens. `LastMentionWins` is
inductive with the types: a token adds one position to the mentions of its name,
which is the last, and none to those of others.

### Assumptions

On constants, each named where it is declared and evaluated by TLC in the runs:
sentinels are not values (`None` is no request, `Absent` no object, the empty string
no namespace name, the zero time no creation time; `SentinelsAssumption`,
`NoneAssumption`, `ServerAssumption`); maps that were built are not nil
(`BuiltMapsAssumption`); a call has one of the routes (`CallsAssumption`); the
environments of events are records with the fields of the Go type, and none is nil
(`EnvironmentsAssumption`); the interval is positive (`IntervalAssumption`, which
`QueryConfig.Validate` asks for); a query is bulk or single (`KindAssumption`); the
bounds are numbers. `Empty \notin Labels` is a hypothesis of the theorems that need
it, and not an assumption of a module: Kubernetes allows an empty label value.

### What is only model-checked

The liveness properties: `Converges`, `ContestedNamesListed`, `RequestsEnd`,
`RequestsAnswered`, `EventsHandled`, `SignalEnds` and `FailureEnds`, since fairness
and `ENABLED` are out of the provers' reach; and the absence of deadlocks in
`QueryCache`. What absence of deadlocks means for `ApiServer` is `NoCircularWait`,
stated with the guards of the steps, and proved.

## Not modelled, and the plan

The operations that change state of every component of the service are actions of a
module, and the safety properties of the runs are proved. What is left:

1. The absence of circular waits in `QueryCache`, as `NoCircularWait` states it for
   `ApiServer`.
2. An abstract specification of the caches, a register that answers with what some
   query within the interval said, and the refinement by `QueryCache`, whose steps
   `Fetched` and `Remembered` give already.
3. The steps that `Converges` consists of: that a resync of a valid environment with
   no rival lists it, and that what is listed of it stays.

Left out: the Helm chart, examples, scripts and CI, which have no behaviour of the
service; logging, the event counter and `GetEnvironmentCount`, which nothing
depends on; the router of `net/http`; the parsers of flags, YAML, JSON and of the
wire formats of Kubernetes and Prometheus; which client settings and addresses the
HTTP client takes.
