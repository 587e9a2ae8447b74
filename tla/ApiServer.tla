----------------------------- MODULE ApiServer -----------------------------
(***************************************************************************)
(* The HTTP API (cmd/autodiscovery/server.go) over the environment store,  *)
(* beside the event handler that writes to it.                             *)
(*                                                                         *)
(* Three kinds of locks meet here: the store's RWMutex, held by the        *)
(* listing by status (GetEnvironmentNamesWithState) while it calls probes, *)
(* held for a moment by every other read, and taken by the event handler;  *)
(* the mutex of a probe's executor, held from the moment its cache is      *)
(* found too old until there is a sample; and under it the mutex of the    *)
(* bulk query, held while Prometheus answers, and taken for a moment by    *)
(* the event handler when it makes a probe.  A writer that waits for an    *)
(* RWMutex keeps new readers out.                                          *)
(*                                                                         *)
(* QueryCache says how old a cache may be; here any cache may be too old   *)
(* or not, which is found out under its mutex, and what a probe yields is  *)
(* the class of a number, or an error.  The calls of one probe, Value,     *)
(* Text and LastUpdate, take the same locks in the same order and are one  *)
(* call here.  All queries are bulk queries, the kind that shares a mutex  *)
(* with the event handler.                                                 *)
(***************************************************************************)
EXTENDS EventHandler, Naturals, FiniteSets

CONSTANTS
  Namespaces,      \* names of Kubernetes namespaces
  Labels,          \* values of the label envs.sberz.de/name
  CreationTimes,   \* creation timestamps
  AnnotationSets,  \* the possible Annotations of a namespace object
  Absent,          \* no such namespace
  MetadataTypes,   \* function: metadata key |-> its configured type
  Floats,          \* classes of the numbers Prometheus answers with
  Calls,           \* what clients ask for
  Requests,        \* requests served at the same time
  None,            \* no request
  MaxEvents        \* bound: namespace events

Objects == [Name: Namespaces, Label: Labels, CreatedAt: CreationTimes,
            Annotations: AnnotationSets]

ASSUME ServerAssumption ==
  /\ Absent \notin Objects
  /\ Empty \notin Namespaces
  /\ ZeroTime \notin CreationTimes
  /\ None \notin Requests
  /\ Floats \subseteq {"zero", "positive", "negative", "NaN"}
  /\ MaxEvents \in Nat

\* A map built with make or a literal is not nil.
ASSUME BuiltMapsAssumption ==
  \A ns \in Objects :
    Nil \notin {buildURLMap(ns), buildStatusChecks(ns.Label, ns),
                buildMetadataProbes(ns.Label, ns)}

\* What the routes of the server ask for.
Routes == {"names", "one", "all", "health", "preflight"}

ASSUME CallsAssumption == \A c \in Calls : c.route \in Routes

\* The bulk queries that are configured.
Queries == ({"status"} \X StatusProbers) \cup ({"metadata"} \X MetadataProbers)

VARIABLES
  store,      \* the environment store
  delivered,  \* by namespace: the last object the handler was told of, or Absent
  event,      \* the event the handler works on: what it is told, and of what
  stage,      \* where the handler is
  unbuilt,    \* the queries it still has to make a probe for
  events,     \* events so far
  generation, \* by namespace: which of its executors its environment has
  readers,    \* the requests that hold the store's read lock between steps
  mutex,      \* by query: the request that holds its mutex, or None
  pc,         \* by request: where it is
  call,       \* what it asks for
  copied,     \* the entries it copied out of the store
  used,       \* by namespace: which of its executors there were when it read
  visited,    \* the entries it has looked at
  todo,       \* the probes it still has to call for the last of them
  asking,     \* the probe it wants a sample of, or None
  observed,   \* what the probes it called yielded
  answer,     \* the entries that make up its answer
  code,       \* the status code it answers with
  status,     \* the status code that is sent
  recorded,   \* the status code that is logged
  seen        \* history: the stores there were since it came in

handlerVars  == <<delivered, event, stage, unbuilt, events, generation>>
progressVars == <<copied, used, visited, todo, asking, observed, answer, code>>
responseVars == <<status, recorded>>
requestVars  == <<pc, call, progressVars, responseVars>>
vars == <<store, handlerVars, readers, mutex, requestVars, seen>>

Entries(env) == {<<name, env[name]>> : name \in DOMAIN env}

-----------------------------------------------------------------------------
(***************************************************************************)
(* The event handler, one event at a time.                                 *)
(***************************************************************************)
\* The queries of which a namespace gets a probe.
ProbersOf(ns) ==
  ({"status"} \X (StatusProbers \ Annotated(ns, AnnotationEnvStatusCheckPrefix)))
    \cup ({"metadata"} \X (MetadataProbers \ Annotated(ns, AnnotationEnvMetadataPrefix)))

\* A namespace is reported, as it is or as it is no longer.
Notify(n) ==
  /\ stage = "idle"
  /\ events < MaxEvents
  /\ \E new \in {object \in Objects : object.Name = n} \cup {Absent} :
       /\ new = Absent => delivered[n] # Absent
       /\ event' = [old |-> delivered[n], new |-> new]
       /\ delivered' = [delivered EXCEPT ![n] = new]
       /\ unbuilt' = IF new = Absent THEN {} ELSE ProbersOf(new)
  /\ stage' = IF unbuilt' = {} THEN "lock" ELSE "build"
  /\ events' = events + 1
  /\ UNCHANGED <<store, generation, readers, mutex, requestVars, seen>>

\* The probes to make next: status checks are built before metadata.
Buildable ==
  {q \in unbuilt : q[1] = "metadata" => \A p \in unbuilt : p[1] = "metadata"}

\* prober.AddEnvironment, under the mutex of the bulk query.
Build(q) ==
  /\ stage = "build"
  /\ q \in Buildable
  /\ mutex[q] = None
  /\ unbuilt' = unbuilt \ {q}
  /\ stage' = IF unbuilt' = {} THEN "lock" ELSE "build"
  /\ UNCHANGED <<store, delivered, event, events, generation, readers, mutex, requestVars, seen>>

\* The handler waits for the store's lock, and keeps new readers out.
Lock ==
  /\ stage = "lock"
  /\ stage' = "waiting"
  /\ UNCHANGED <<store, delivered, event, unbuilt, events, generation, readers, mutex,
                 requestVars, seen>>

Outcome(e) ==
  IF e.new = Absent THEN HandleNamespaceDelete(store, e.old)
  ELSE IF e.old = Absent THEN HandleNamespaceAdd(store, e.new)
  ELSE HandleNamespaceUpdate(store, e.old, e.new)

\* The namespace of the event.
Subject == IF event.new = Absent THEN event.old.Name ELSE event.new.Name

\* The store is changed, and the environment of the namespace has new executors.
Change ==
  /\ store' = Outcome(event).store
  /\ generation' = [generation EXCEPT ![Subject] = @ + 1]
  /\ seen' = [r \in Requests |-> IF pc[r] = "idle" THEN {} ELSE seen[r] \cup {store'.env}]
  /\ stage' = "idle"
  /\ UNCHANGED <<delivered, event, unbuilt, events, readers, requestVars>>

\* Mutant: the event handler does not wait for the readers.
WriteAtOnce ==
  /\ stage = "waiting"
  /\ Change
  /\ UNCHANGED mutex

Write ==
  /\ stage = "waiting"
  /\ readers = {}
  /\ Change
  /\ UNCHANGED mutex

\* Mutant: the handler keeps the mutexes of the probes it makes until the
\* environment is in the store.
HandleHolding ==
  \/ \E q \in Buildable :
       /\ stage = "build"
       /\ mutex[q] = None
       /\ mutex' = [mutex EXCEPT ![q] = "handler"]
       /\ unbuilt' = unbuilt \ {q}
       /\ stage' = IF unbuilt' = {} THEN "lock" ELSE "build"
       /\ UNCHANGED <<store, delivered, event, events, generation, readers, requestVars, seen>>
  \/ Lock
  \/ /\ stage = "waiting"
     /\ readers = {}
     /\ Change
     /\ mutex' = [q \in Queries |-> IF mutex[q] = "handler" THEN None ELSE mutex[q]]

\* One event of the handler's.
Handle == (\E q \in Queries : Build(q)) \/ Lock \/ Write

-----------------------------------------------------------------------------
(***************************************************************************)
(* A request is read, and what it needs is read from the store.            *)
(***************************************************************************)
NoFilter == [c \in {} |-> TRUE]

\* The requests that are answered without the store.
AnsweredAtOnce(c) == c.route \in {"health", "preflight"}

Receive(r) ==
  /\ pc[r] = "idle"
  /\ \E c \in Calls :
       /\ call' = [call EXCEPT ![r] = c]
       /\ pc' = [pc EXCEPT ![r] = IF AnsweredAtOnce(c) THEN "respond" ELSE "read"]
       /\ code' = [code EXCEPT ![r] = IF c.route = "preflight" THEN 204 ELSE 200]
  /\ seen' = [seen EXCEPT ![r] = {store.env}]
  /\ UNCHANGED <<store, handlerVars, readers, mutex, copied, used, visited, todo, asking,
                 observed, answer, responseVars>>

\* The read lock is free for a new reader.
CanRead == stage # "waiting"

\* The listing by status keeps the read lock; every other read lets it go with a
\* copy of what it found.
ListsByStatus(c) == c.route = "names" /\ c.namespace = Empty /\ c.filter # NoFilter

\* What a request copies from the store, in each case it may find.
Copies(c) ==
  CASE c.route = "one" ->
         {{x \in Entries(store.env) : x[1] = c.name}}
    [] c.route = "names" /\ c.namespace # Empty ->
         LET found == EnvironmentsByNamespace(store, c.namespace)
         IN  IF found = {} THEN {{}} ELSE {{<<e.Name, e>>} : e \in found}
    [] OTHER -> {Entries(store.env)}

Read(r) ==
  /\ pc[r] = "read"
  /\ CanRead
  /\ IF ListsByStatus(call[r])
     THEN readers' = readers \cup {r} /\ UNCHANGED <<copied, code>>
     ELSE \E found \in Copies(call[r]) :
            /\ copied' = [copied EXCEPT ![r] = found]
            /\ code' = [code EXCEPT ![r] =
                          IF call[r].route = "one" /\ found = {} THEN 404 ELSE 200]
            /\ UNCHANGED readers
  /\ used' = [used EXCEPT ![r] = generation]
  /\ pc' = [pc EXCEPT ![r] = "visit"]
  /\ UNCHANGED <<store, handlerVars, mutex, call, visited, todo, asking, observed,
                 answer, responseVars, seen>>

-----------------------------------------------------------------------------
(***************************************************************************)
(* The environments are visited one after the other, and their probes      *)
(* called: by Environment.MatchesStatus for the names, and by              *)
(* Environment.ResolveProbes for the others.                               *)
(***************************************************************************)
ProbeAt(x, kind, check) == [entry |-> x, kind |-> kind, check |-> check]

\* The probes a call needs of an entry.
Wanted(c, x) ==
  CASE c.route = "names" -> {ProbeAt(x, "status", k) : k \in DOMAIN c.filter}
    [] c.route = "one" -> {ProbeAt(x, "status", k) : k \in DOMAIN x[2].StatusChecks}
                            \cup {ProbeAt(x, "metadata", k) : k \in DOMAIN x[2].MetaProbes}
    [] c.route = "all" -> {ProbeAt(x, "status", k) :
                             k \in {l \in DOMAIN x[2].StatusChecks :
                                      l \in DOMAIN c.filter /\ c.filter[l]}}

\* The listing by status goes over the store itself.
Remaining(r) ==
  (IF r \in readers THEN Entries(store.env) ELSE copied[r]) \ visited[r]

\* Mutant: the store is locked again, by a method that is called under the lock.
VisitLocking(r) ==
  /\ pc[r] = "visit"
  /\ todo[r] = {}
  /\ CanRead
  /\ \E x \in Remaining(r) :
       /\ visited' = [visited EXCEPT ![r] = @ \cup {x}]
       /\ answer' = [answer EXCEPT ![r] = @ \cup {x}]
       /\ todo' = [todo EXCEPT ![r] = Wanted(call[r], x)]
  /\ UNCHANGED <<store, handlerVars, readers, mutex, pc, call, copied, used, asking,
                 observed, code, responseVars, seen>>

\* The environment is in the answer unless a probe of it says otherwise.
Visit(r) ==
  /\ pc[r] = "visit"
  /\ todo[r] = {}
  /\ \E x \in Remaining(r) :
       /\ visited' = [visited EXCEPT ![r] = @ \cup {x}]
       /\ answer' = [answer EXCEPT ![r] = @ \cup {x}]
       /\ todo' = [todo EXCEPT ![r] = Wanted(call[r], x)]
  /\ UNCHANGED <<store, handlerVars, readers, mutex, pc, call, copied, used, asking,
                 observed, code, responseVars, seen>>

\* All are visited; the read lock is released, if it was held.
Finish(r) ==
  /\ pc[r] = "visit"
  /\ todo[r] = {}
  /\ Remaining(r) = {}
  /\ readers' = readers \ {r}
  /\ pc' = [pc EXCEPT ![r] = "respond"]
  /\ UNCHANGED <<store, handlerVars, mutex, call, progressVars, responseVars, seen>>

\* Metadata is resolved before the status checks, each in any order.
Due(r) ==
  {p \in todo[r] : p.kind = "status" => \A q \in todo[r] : q.kind = "status"}

\* A check the environment does not have.
Missing(p) == p.kind = "status" /\ p.check \notin DOMAIN p.entry[2].StatusChecks

Probe(p) ==
  IF p.kind = "status" THEN p.entry[2].StatusChecks[p.check] ELSE p.entry[2].MetaProbes[p.check]

AsksPrometheus(p) == ~Missing(p) /\ Probe(p).kind = "prometheus"

PromValToBool(sample) == sample # "zero"

\* The value of a status check; a failing or missing one counts as false.
Passes(sample) == sample = "true" \/ (sample \in Floats /\ PromValToBool(sample))

\* MatchesStatus: the first check that differs from the filter excludes the
\* environment.
Filtered(r, p, sample) ==
  /\ IF Passes(sample) = call[r].filter[p.check]
     THEN todo' = [todo EXCEPT ![r] = @ \ {p}] /\ UNCHANGED answer
     ELSE todo' = [todo EXCEPT ![r] = {}] /\ answer' = [answer EXCEPT ![r] = @ \ {p.entry}]
  /\ UNCHANGED <<copied, code>>

\* Mutant: a probe that fails is left out of the response.
ResolvedSkipping(r, p, sample) ==
  /\ todo' = [todo EXCEPT ![r] = @ \ {p}]
  /\ UNCHANGED <<copied, code, answer>>

\* ResolveProbes: the first probe that fails fails the response, whichever
\* environment it is of.
Resolved(r, p, sample) ==
  /\ IF sample = "error"
     THEN /\ todo' = [todo EXCEPT ![r] = {}]
          /\ copied' = [copied EXCEPT ![r] = {}]
          /\ code' = [code EXCEPT ![r] = 500]
     ELSE todo' = [todo EXCEPT ![r] = @ \ {p}] /\ UNCHANGED <<copied, code>>
  /\ UNCHANGED answer

Yield(r, p, sample) ==
  /\ observed' = [observed EXCEPT ![r] = @ \cup {[probe |-> p, sample |-> sample]}]
  /\ IF call[r].route = "names" THEN Filtered(r, p, sample) ELSE Resolved(r, p, sample)

\* A probe that needs no query: a missing one, or a static one.
Local(r, p) ==
  /\ pc[r] = "visit"
  /\ p \in Due(r)
  /\ ~AsksPrometheus(p)
  /\ \E sample \in {"missing", "static", "true", "false"} :
       /\ sample = (IF Missing(p) THEN "missing"
                    ELSE IF p.kind = "metadata" THEN "static"
                    ELSE IF Probe(p).value THEN "true" ELSE "false")
       /\ Yield(r, p, sample)
  /\ UNCHANGED <<store, handlerVars, readers, mutex, pc, call, used, visited, asking,
                 responseVars, seen>>

-----------------------------------------------------------------------------
(***************************************************************************)
(* A probe of Prometheus: environmentQuery.sample, and under its mutex     *)
(* BulkValueQuery.queryForEnvironment.                                     *)
(***************************************************************************)
Query(p) == <<p.kind, p.check>>

\* The executor is called; from here on the request waits for nothing else.
Take(r, p) ==
  /\ pc[r] = "visit"
  /\ p \in Due(r)
  /\ AsksPrometheus(p)
  /\ asking' = [asking EXCEPT ![r] = p]
  /\ pc' = [pc EXCEPT ![r] = "sample"]
  /\ UNCHANGED <<store, handlerVars, readers, mutex, call, copied, used, visited, todo,
                 observed, answer, code, responseVars, seen>>

\* The executor a request uses: that of the store it read.
Executor(r) == <<asking[r], used[r][asking[r].entry[2].Namespace]>>

\* Another request has the mutex of its executor, which is kept while the bulk query
\* is waited for and asked.
Busy(r) ==
  \E o \in Requests \ {r} : pc[o] \in {"match", "query"} /\ Executor(o) = Executor(r)

\* There is a sample, a number, or an error, and all mutexes are released.
Sampled(r, samples) ==
  /\ \E sample \in samples : Yield(r, asking[r], sample)
  /\ asking' = [asking EXCEPT ![r] = None]
  /\ pc' = [pc EXCEPT ![r] = "visit"]
  /\ UNCHANGED <<store, handlerVars, readers, call, used, visited, responseVars, seen>>

\* The cache of the executor is recent.
Hit(r) ==
  /\ pc[r] = "sample"
  /\ ~Busy(r)
  /\ Sampled(r, Floats)
  /\ UNCHANGED mutex

\* It is too old, and the executor stays locked.
Miss(r) ==
  /\ pc[r] = "sample"
  /\ ~Busy(r)
  /\ pc' = [pc EXCEPT ![r] = "match"]
  /\ UNCHANGED <<store, handlerVars, readers, mutex, call, progressVars, responseVars, seen>>

\* The cache of the bulk query is recent; what it does not have is a zero.
CacheHit(r) ==
  /\ pc[r] = "match"
  /\ mutex[Query(asking[r])] = None
  /\ Sampled(r, Floats)
  /\ UNCHANGED mutex

\* It is too old as well: Prometheus is asked, under the mutex of the query.
Ask(r) ==
  /\ pc[r] = "match"
  /\ mutex[Query(asking[r])] = None
  /\ mutex' = [mutex EXCEPT ![Query(asking[r])] = r]
  /\ pc' = [pc EXCEPT ![r] = "query"]
  /\ UNCHANGED <<store, handlerVars, readers, call, progressVars, responseVars, seen>>

\* Mutant: an error returns without unlocking.
AnswerUnreleased(r) ==
  /\ pc[r] = "query"
  /\ \/ /\ Sampled(r, {"error"})
        /\ UNCHANGED mutex
     \/ /\ Sampled(r, Floats)
        /\ mutex' = [mutex EXCEPT ![Query(asking[r])] = None]

\* Prometheus answers, or the query fails.
Answer(r) ==
  /\ pc[r] = "query"
  /\ Sampled(r, Floats \cup {"error"})
  /\ mutex' = [mutex EXCEPT ![Query(asking[r])] = None]

-----------------------------------------------------------------------------
(***************************************************************************)
(* The response, through the middleware: the header is sent by the first   *)
(* WriteHeader, and the statusRecorder keeps the last one.                 *)
(***************************************************************************)
\* JSON has no number for NaN and the infinities.
Encodable(r) ==
  \A o \in observed[r] :
    o.probe.kind = "metadata" /\ o.sample = "NaN"
      => MetadataTypes[o.probe.check] # "number"

\* statusRecorder: the first code is the one that is sent, the last one is kept.
WriteHeaders(r, first, last) ==
  /\ status' = [status EXCEPT ![r] = first]
  /\ recorded' = [recorded EXCEPT ![r] = last]

\* A response that has no body to encode, or whose body is encoded.
Respond(r) ==
  /\ pc[r] = "respond"
  /\ code[r] = 200 => Encodable(r)
  /\ WriteHeaders(r, code[r], code[r])
  /\ pc' = [pc EXCEPT ![r] = "done"]
  /\ UNCHANGED <<store, handlerVars, readers, mutex, call, progressVars, seen>>

\* Mutant: the recovery finds the header written and leaves it at that.
PanicUnrecorded(r) ==
  /\ pc[r] = "respond"
  /\ code[r] = 200
  /\ WriteHeaders(r, 200, 200)
  /\ pc' = [pc EXCEPT ![r] = "done"]
  /\ UNCHANGED <<store, handlerVars, readers, mutex, call, progressVars, seen>>

\* mustEncodeResponse panics after it has written the header, because the body
\* cannot be encoded, as a time that NaN was converted to may be, or not be
\* written; middlewarePanicRecovery writes another.
Panic(r) ==
  /\ pc[r] = "respond"
  /\ code[r] = 200
  /\ WriteHeaders(r, 200, 500)
  /\ pc' = [pc EXCEPT ![r] = "done"]
  /\ UNCHANGED <<store, handlerVars, readers, mutex, call, progressVars, seen>>

NoCall == [route |-> "none", name |-> Empty, namespace |-> Empty, filter |-> NoFilter]

NoExecutors == [n \in Namespaces |-> 0]

\* The request is over, and forgotten.
End(r) ==
  /\ pc[r] = "done"
  /\ pc' = [pc EXCEPT ![r] = "idle"]
  /\ call' = [call EXCEPT ![r] = NoCall]
  /\ copied' = [copied EXCEPT ![r] = {}]
  /\ used' = [used EXCEPT ![r] = NoExecutors]
  /\ visited' = [visited EXCEPT ![r] = {}]
  /\ observed' = [observed EXCEPT ![r] = {}]
  /\ answer' = [answer EXCEPT ![r] = {}]
  /\ code' = [code EXCEPT ![r] = 200]
  /\ status' = [status EXCEPT ![r] = 0]
  /\ recorded' = [recorded EXCEPT ![r] = 200]
  /\ seen' = [seen EXCEPT ![r] = {}]
  /\ UNCHANGED <<store, handlerVars, readers, mutex, todo, asking>>

-----------------------------------------------------------------------------
Init ==
  /\ store = NewStore
  /\ delivered = [n \in Namespaces |-> Absent]
  /\ event = [old |-> Absent, new |-> Absent]
  /\ stage = "idle"
  /\ unbuilt = {}
  /\ events = 0
  /\ generation = NoExecutors
  /\ readers = {}
  /\ mutex = [q \in Queries |-> None]
  /\ pc = [r \in Requests |-> "idle"]
  /\ call = [r \in Requests |-> NoCall]
  /\ copied = [r \in Requests |-> {}]
  /\ used = [r \in Requests |-> NoExecutors]
  /\ visited = [r \in Requests |-> {}]
  /\ todo = [r \in Requests |-> {}]
  /\ asking = [r \in Requests |-> None]
  /\ observed = [r \in Requests |-> {}]
  /\ answer = [r \in Requests |-> {}]
  /\ code = [r \in Requests |-> 200]
  /\ status = [r \in Requests |-> 0]
  /\ recorded = [r \in Requests |-> 200]
  /\ seen = [r \in Requests |-> {}]

\* The next probe of a request is called.
Call(r) == \E p \in todo[r] : Local(r, p) \/ Take(r, p)

\* What a request does with a probe of Prometheus, before the query.
Sample(r) == Hit(r) \/ Miss(r) \/ CacheHit(r) \/ Ask(r)

Serve(r) ==
  \/ Read(r) \/ Visit(r) \/ Finish(r)
  \/ Call(r) \/ Sample(r) \/ Answer(r)
  \/ Respond(r) \/ Panic(r)

Next ==
  \/ \E n \in Namespaces : Notify(n)
  \/ Handle
  \/ \E r \in Requests : Receive(r) \/ Serve(r) \/ End(r)

SafetySpec == Init /\ [][Next]_vars

\* A goroutine that waits for a mutex or an RWMutex that is free again and again gets
\* it in the end (sync.Mutex serves starving waiters first, RWMutex lets a writer and
\* the readers it kept out take turns); a query ends.  In each place a request waits
\* for one lock, or for none, so that the fairness of its next step lets it go round
\* none.  Nothing is assumed of clients, namespaces, and how old a cache is.
Fairness ==
  /\ \A q \in Queries : SF_vars(Build(q))
  /\ WF_vars(Lock) /\ WF_vars(Write)
  /\ \A r \in Requests : SF_vars(Read(r) \/ Visit(r) \/ Finish(r) \/ Call(r) \/ Sample(r))
  /\ \A r \in Requests : WF_vars(Answer(r)) /\ WF_vars(Respond(r) \/ Panic(r))

Spec == SafetySpec /\ Fairness

-----------------------------------------------------------------------------
(***************************************************************************)
(* Properties                                                              *)
(***************************************************************************)
Samples == {"missing", "static", "true", "false", "error"} \cup Floats

\* The entries the store may have.
Listable == {<<o.Label, EnvironmentOf(o)>> : o \in Objects}

\* The types, and who may hold what: a read lock is held for a listing by status
\* only, and a mutex for the probe that is asked.
TypeOK ==
  /\ Entries(store.env) \subseteq Listable
  /\ store.envInfo \subseteq Labels \X Namespaces
  /\ delivered \in [Namespaces -> Objects \cup {Absent}]
  /\ event \in [old: Objects \cup {Absent}, new: Objects \cup {Absent}]
  /\ stage \in {"idle", "build", "lock", "waiting"}
  /\ unbuilt \subseteq Queries /\ (unbuilt # {} <=> stage = "build")
  /\ events \in 0..MaxEvents
  /\ generation \in [Namespaces -> Nat]
  /\ used \in [Requests -> [Namespaces -> Nat]]
  /\ readers \subseteq
       {r \in Requests : ListsByStatus(call[r]) /\ pc[r] \in {"visit", "sample", "match", "query"}}
  /\ \A q \in Queries : \A r \in Requests :
       mutex[q] = r <=> pc[r] = "query" /\ q = Query(asking[r])
  /\ pc \in [Requests -> {"idle", "read", "visit", "sample", "match", "query", "respond", "done"}]
  /\ call \in [Requests -> Calls \cup {NoCall}]
  /\ \A r \in Requests :
       /\ copied[r] \cup visited[r] \cup answer[r] \subseteq Listable
       /\ IF pc[r] \in {"sample", "match", "query"} THEN asking[r] \in todo[r] ELSE asking[r] = None
       /\ \A o \in observed[r] : o.sample \in Samples /\ o.probe.entry \in visited[r]
  /\ code \in [Requests -> {200, 204, 404, 500}]
  /\ status \in [Requests -> {0, 200, 204, 404, 500}]
  /\ recorded \in [Requests -> {200, 204, 404, 500}]

\* What a call asks about.
InScope(c, x) ==
  /\ c.route = "one" => x[1] = c.name
  /\ c.route = "names" /\ c.namespace # Empty => x[2].Namespace = c.namespace

\* The entry x passed each check of the filter when its probe was called.
PassedFilter(r, x) ==
  \A k \in DOMAIN call[r].filter : \E o \in observed[r] :
    o.probe = ProbeAt(x, "status", k) /\ Passes(o.sample) = call[r].filter[k]

FailedFilter(r, x) ==
  \E o \in observed[r] :
    o.probe.entry = x /\ Passes(o.sample) # call[r].filter[o.probe.check]

\* The answer is what one state of the store, which it was in while the request
\* ran, has to say: no environment is named twice or left out because its
\* namespace was renamed while others were looked at, and those that are named
\* are the ones whose checks, each called once, said what the filter wants
\* (store.go reads, server.go handlers, environment.go MatchesStatus).
Snapshot ==
  \A r \in Requests :
    pc[r] = "done" /\ call[r].route \in {"names", "one", "all"} /\ code[r] # 500 =>
      \E env \in seen[r] :
        LET scope == {x \in Entries(env) : InScope(call[r], x)}
        IN  /\ code[r] = (IF call[r].route = "one" /\ scope = {} THEN 404 ELSE 200)
            /\ answer[r] \subseteq scope
            /\ \A x \in scope :
                 IF x \in answer[r]
                 THEN call[r].route = "names" => PassedFilter(r, x)
                 ELSE call[r].route = "names" /\ FailedFilter(r, x)

\* A response with environments has every value it should have, and is refused
\* only because a probe failed: one failing probe never drops out silently, and
\* no environment is reported with a part of its probes (environment.go
\* ResolveProbes, server.go handleGetAllEnvironments).
AllOrNothing ==
  \A r \in Requests :
    LET failed == \E o \in observed[r] : o.sample = "error"
        wanted == UNION {Wanted(call[r], x) : x \in answer[r]}
    IN  pc[r] = "done" /\ call[r].route \in {"one", "all"} =>
          /\ code[r] = 500 <=> failed
          /\ code[r] = 200 => {o.probe : o \in observed[r]} = wanted

\* A request that cannot take the lock it needs next.
Stopped(r) ==
  \/ pc[r] = "read" /\ ~CanRead
  \/ pc[r] = "sample" /\ Busy(r)
  \/ pc[r] = "match" /\ mutex[Query(asking[r])] # None

\* The handler, when it cannot.
HandlerStopped ==
  \/ stage = "build" /\ \A q \in Buildable : mutex[q] # None
  \/ stage = "waiting" /\ readers # {}

\* Whoever waits for a lock waits for someone that goes on: when a request or the
\* handler cannot take the next lock, some request that is under way or the handler is
\* in a place where nothing stops it.  The locks are taken in one order, the store's
\* first, then an executor's, then the bulk query's, and the handler has none when it
\* waits (store.go, query.go sample, bulk.go).
NoCircularWait ==
  HandlerStopped \/ (\E r \in Requests : Stopped(r)) =>
    \/ stage # "idle" /\ ~HandlerStopped
    \/ \E r \in Requests : pc[r] \notin {"idle", "done"} /\ ~Stopped(r)

\* A request is answered, however many requests hold the store's read lock, an
\* executor or a bulk query, and although the handler of events keeps new readers out
\* while it waits: no request waits for the store while it holds it (store.go
\* GetEnvironmentNamesWithState, query.go sample, bulk.go queryForEnvironment).
RequestsAnswered == \A r \in Requests : pc[r] = "read" ~> pc[r] = "done"

\* A namespace event is worked off, although the handler waits for running bulk
\* queries and then for the readers of the store (events.go, bulk.go
\* AddEnvironment, store.go mutators).
EventsHandled == stage # "idle" ~> stage = "idle"

\* The log knows which responses were good: it has 200 only for one whose probes all
\* answered and whose body could be encoded, and where it differs from the status
\* that was sent, that was the 200 of a body that broke off (server.go
\* statusRecorder, mustEncodeResponse, middlewarePanicRecovery).
LogKnowsFailures ==
  \A r \in Requests : pc[r] = "done" =>
    /\ recorded[r] = 200 =>
         /\ Encodable(r)
         /\ call[r].route \in {"one", "all"} => \A o \in observed[r] : o.sample # "error"
    /\ recorded[r] # status[r] => status[r] = 200 /\ recorded[r] = 500
=============================================================================
