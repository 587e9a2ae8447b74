-------------------------- MODULE QueryCacheProofs --------------------------
(***************************************************************************)
(* Proofs about the query caches, for any environments, requests and       *)
(* interval, and executions of any length: types, the two mutexes, the     *)
(* spacing of bulk queries, and the age and origin of what is returned.    *)
(*                                                                         *)
(* The argument for the latter: a request that holds an executor's mutex   *)
(* found its sample an interval old (Overdue) and nobody replaces it       *)
(* meanwhile (LocksHeld).  No executor is ahead of the bulk query, whose   *)
(* cache is the answer of one query while it counts (Backed), so what      *)
(* replaces the sample is newer (Fetched).  The answer that a cached       *)
(* sample comes from ended no earlier than the time of the sample, so it   *)
(* is not forgotten before the sample expires (Remembered).                *)
(***************************************************************************)
EXTENDS QueryCache, TLAPS

\* A request that is not idle has an executor, one that queries has asked at some
\* time, and only bulk queries have a second cache to look at.
Engaged ==
  \A r \in Requests :
    /\ pc[r] # "idle" => target[r] \in Executors
    /\ pc[r] = "query" => start[r] \in Time
    /\ pc[r] = "match" => kind = "bulk"

\* lastQuery is the time of the last answer, and no bulk query is on its way
\* before an interval has passed since.
Throttled ==
  kind = "bulk" =>
    /\ lastQuery <= now
    /\ \A q \in recent : q.answered => q.end <= lastQuery
    /\ \A r \in Requests : pc[r] = "query" => start[r] - lastQuery >= Interval

Types == TypeOK /\ Engaged

-----------------------------------------------------------------------------
\* What the constants and the samples are made of.
LEMMA Domains ==
  /\ MaxTime \in Nat /\ MaxRebuilds \in Nat /\ MaxFailures \in Nat
  /\ Interval \in Nat /\ Interval >= 1
  /\ Never \in Int /\ Never < 0 /\ Never \in Times
  /\ Time \subseteq Times /\ Time \subseteq Int /\ Times \subseteq Int
  /\ \A t \in Times : Sample(t) \in Samples /\ NoData(t) \in Samples
  /\ \A sample \in Samples : sample.timestamp \in Times
  /\ NoSamples \in [{"value", "text"} -> Samples]
BY IntervalAssumption, BoundsAssumption
   DEF Never, Times, Time, Samples, Sample, NoData, NoSamples

\* The kind of the query is fixed.
LEMMA KindFixed ==
  ASSUME [Next]_vars
  PROVE  kind' = kind
BY DEF Next, Step, Start, Hit, Miss, CacheHit, CacheMiss, LastUpdate, Answer, Failure,
       Rebuild, Tick, vars

\* Returning a sample keeps the types of the request.
LEMMA ReturnTypes ==
  ASSUME Types, NEW r \in Requests, pc[r] # "idle", NEW sample \in Samples, Return(r, sample),
         UNCHANGED kind
  PROVE  /\ pc' \in [Requests -> {"idle", "sample", "match", "query", "updated"}]
         /\ call' \in [Requests -> {"value", "text"}]
         /\ target' \in [Requests -> Executors \cup {None}]
         /\ start' \in [Requests -> Times]
         /\ got' \in [Requests -> [{"value", "text"} -> Samples]]
         /\ Engaged'
<1>1. got' \in [Requests -> [{"value", "text"} -> Samples]]
  BY DEF Return, Types, TypeOK
<1>2. start' \in [Requests -> Times] /\ target' = target
  BY Domains DEF Return, Types, TypeOK
<1>3. /\ pc' \in [Requests -> {"idle", "sample", "match", "query", "updated"}]
      /\ call' \in [Requests -> {"value", "text"}]
      /\ pc'[r] \in {"sample", "updated"}
      /\ \A s \in Requests \ {r} : pc'[s] = pc[s] /\ start'[s] = start[s]
  BY DEF Return, Types, TypeOK
<1>4. Engaged'
  BY <1>2, <1>3 DEF Types, Engaged, Executors, Time
<1>5. QED BY <1>1, <1>2, <1>3, <1>4 DEF Types, TypeOK

\* Ending a request keeps them.
LEMMA EndTypes ==
  ASSUME Types, NEW r \in Requests, End(r), UNCHANGED kind
  PROVE  /\ pc' \in [Requests -> {"idle", "sample", "match", "query", "updated"}]
         /\ call' \in [Requests -> {"value", "text"}]
         /\ target' \in [Requests -> Executors \cup {None}]
         /\ start' \in [Requests -> Times]
         /\ got' \in [Requests -> [{"value", "text"} -> Samples]]
         /\ Engaged'
<1>1. /\ pc' \in [Requests -> {"idle", "sample", "match", "query", "updated"}]
      /\ call' \in [Requests -> {"value", "text"}]
      /\ target' \in [Requests -> Executors \cup {None}]
      /\ start' \in [Requests -> Times]
      /\ got' \in [Requests -> [{"value", "text"} -> Samples]]
  BY Domains DEF End, Types, TypeOK
<1>2. Engaged'
  BY DEF End, Types, TypeOK, Engaged, Executors, Time
<1>3. QED BY <1>1, <1>2

\* Asking Prometheus keeps them.
LEMMA AskTypes ==
  ASSUME Types, NEW r \in Requests, pc[r] # "idle", Ask(r), UNCHANGED kind
  PROVE  /\ pc' \in [Requests -> {"idle", "sample", "match", "query", "updated"}]
         /\ start' \in [Requests -> Times]
         /\ Engaged'
<1>1. now \in Time /\ now \in Times
  BY Domains DEF Types, TypeOK
<1>2. QED BY <1>1 DEF Ask, Types, TypeOK, Engaged, Executors, Time

\* Caching a sample keeps the types of the executors.
LEMMA StoreTypes ==
  ASSUME Types, NEW x \in Executors, NEW sample \in Samples, Store(x, sample)
  PROVE  /\ lastStored' \in [Executors -> Samples]
         /\ lastUpdate' \in [Executors -> Times]
         /\ lock' \in [Executors -> Requests \cup {None}]
<1>1. sample.timestamp \in Times
  BY Domains
<1>2. QED BY <1>1 DEF Store, Types, TypeOK

\* What the bulk query has cached for an environment is a sample.
LEMMA CachedTypes ==
  ASSUME Types, NEW e \in Envs
  PROVE  Cached(e) \in Samples
BY Domains DEF Types, TypeOK, Cached

\* The record of a query that ends now.
LEMMA QueryTypes ==
  ASSUME Types, NEW r \in Requests, pc[r] = "query",
         NEW answered \in BOOLEAN, NEW found \in SUBSET Envs
  PROVE  Query(r, answered, found)
           \in [env: Envs, start: Time, end: Time, answered: BOOLEAN, found: SUBSET Envs]
<1>1. Env(r) \in Envs
  BY DEF Types, Engaged, Executors, Env
<1>2. start[r] \in Time /\ now \in Time
  BY DEF Types, Engaged, TypeOK
<1>3. QED BY <1>1, <1>2 DEF Query

\* Every step keeps the types.
LEMMA TypesInductive ==
  ASSUME Types, [Next]_vars
  PROVE  Types'
<1>0. kind' = kind
  BY KindFixed
<1> USE <1>0
<1>1. ASSUME NEW r \in Requests, NEW e \in Envs, Start(r, e)
      PROVE  Types'
  <2>1. <<e, generation[e]>> \in Executors
    BY <1>1 DEF Types, TypeOK, Executors
  <2>2. QED BY <1>1, <2>1
            DEF Start, Types, TypeOK, Engaged, executorVars, bulkVars, historyVars
<1>2. ASSUME NEW r \in Requests, Hit(r)
      PROVE  Types'
  <2>1. pc[r] # "idle" /\ target[r] \in Executors
    BY <1>2 DEF Hit, Types, Engaged
  <2>2. lastStored[target[r]] \in Samples
    BY <2>1 DEF Types, TypeOK
  <2>3. Return(r, lastStored[target[r]])
    BY <1>2 DEF Hit
  <2>4. QED BY <1>2, <2>1, <2>2, <2>3, ReturnTypes
            DEF Hit, Types, TypeOK, executorVars, bulkVars, historyVars
<1>3. ASSUME NEW r \in Requests, Miss(r)
      PROVE  Types'
  <2>1. /\ pc[r] # "idle" /\ target[r] \in Executors
        /\ lock' \in [Executors -> Requests \cup {None}]
    BY <1>3 DEF Miss, Types, TypeOK, Engaged
  <2>2. CASE Ask(r)
    BY <1>3, <2>1, <2>2, AskTypes DEF Ask, Miss, Types, TypeOK, bulkVars, historyVars
  <2>3. CASE /\ kind = "bulk" /\ pc' = [pc EXCEPT ![r] = "match"]
             /\ UNCHANGED <<call, target, start, got, historyVars>>
    BY <1>3, <2>1, <2>3 DEF Miss, Types, TypeOK, Engaged, bulkVars, historyVars, Executors, Time
  <2>4. QED BY <1>3, <2>2, <2>3 DEF Miss
<1>4. ASSUME NEW r \in Requests, CacheHit(r)
      PROVE  Types'
  <2>1. pc[r] # "idle" /\ target[r] \in Executors /\ Env(r) \in Envs
    BY <1>4 DEF CacheHit, Types, Engaged, Env, Executors
  <2>2. Cached(Env(r)) \in Samples
    BY <2>1, CachedTypes
  <2>3. Store(target[r], Cached(Env(r))) /\ Return(r, Cached(Env(r)))
    BY <1>4 DEF CacheHit
  <2>4. QED BY <1>4, <2>1, <2>2, <2>3, ReturnTypes, StoreTypes
            DEF CacheHit, Types, TypeOK, bulkVars, historyVars
<1>5. ASSUME NEW r \in Requests, CacheMiss(r)
      PROVE  Types'
  <2>1. pc[r] # "idle" /\ Ask(r)
    BY <1>5 DEF CacheMiss
  <2>2. QED BY <1>5, <2>1, AskTypes
            DEF CacheMiss, Ask, Types, TypeOK, executorVars, historyVars
<1>6. ASSUME NEW r \in Requests, LastUpdate(r)
      PROVE  Types'
  <2>1. End(r)
    BY <1>6 DEF LastUpdate
  <2>2. QED BY <1>6, <2>1, EndTypes
            DEF LastUpdate, Types, TypeOK, executorVars, bulkVars, historyVars
<1>7. ASSUME NEW r \in Requests, Answer(r)
      PROVE  Types'
  <2>1. /\ pc[r] # "idle" /\ target[r] \in Executors
        /\ start[r] \in Times /\ now \in Times
    BY <1>7, Domains DEF Answer, Types, TypeOK, Engaged
  <2>2. Sample(start[r]) \in Samples /\ NoData(now) \in Samples
    BY <2>1, Domains
  <2>3. PICK found \in SUBSET Envs :
          /\ BulkAnswer(r, found) \/ SingleAnswer(r, found)
          /\ recent' = recent \cup {Query(r, TRUE, found)}
    BY <1>7 DEF Answer
  <2>4. recent' \subseteq [env: Envs, start: Time, end: Time, answered: BOOLEAN, found: SUBSET Envs]
    BY <1>7, <2>3, QueryTypes DEF Answer, Types, TypeOK
  <2>5. PICK sample \in Samples : Store(target[r], sample) /\ Return(r, sample)
    BY <2>2, <2>3 DEF BulkAnswer, SingleAnswer
  <2>6. /\ bulkLock' \in Requests \cup {None}
        /\ lastQuery' \in Times
        /\ DOMAIN valCache' \subseteq Envs
        /\ \A e \in DOMAIN valCache' : valCache'[e] \in Samples
    BY <2>1, <2>2, <2>3 DEF BulkAnswer, SingleAnswer, bulkVars, Types, TypeOK
  <2>7. QED BY <1>7, <2>1, <2>4, <2>5, <2>6, ReturnTypes, StoreTypes
            DEF Answer, Types, TypeOK
<1>8. ASSUME NEW r \in Requests, Failure(r)
      PROVE  Types'
  <2>1. End(r) /\ recent' = recent \cup {Query(r, FALSE, {})} /\ pc[r] = "query"
    BY <1>8 DEF Failure
  <2>2. recent' \subseteq [env: Envs, start: Time, end: Time, answered: BOOLEAN, found: SUBSET Envs]
    BY <2>1, QueryTypes DEF Types, TypeOK
  <2>3. lock' \in [Executors -> Requests \cup {None}]
    BY <1>8 DEF Failure, Types, TypeOK
  <2>4. failures' \in 0..MaxFailures
    BY <1>8, Domains DEF Failure, Types, TypeOK
  <2>5. QED BY <1>8, <2>1, <2>2, <2>3, <2>4, EndTypes DEF Failure, Types, TypeOK
<1>9. ASSUME NEW e \in Envs, Rebuild(e)
      PROVE  Types'
  <2>1. generation' \in [Envs -> 0..MaxRebuilds]
    BY <1>9, Domains DEF Rebuild, Types, TypeOK
  <2>2. QED BY <1>9, <2>1
            DEF Rebuild, Types, TypeOK, Engaged, bulkVars, requestVars, historyVars
<1>10. CASE Tick
  <2>1. now' \in Time
    BY <1>10, Domains DEF Tick, Types, TypeOK, Time
  <2>2. QED BY <1>10, <2>1 DEF Tick, Types, TypeOK, Engaged, executorVars, bulkVars, requestVars
<1>11. CASE UNCHANGED vars
  BY <1>11 DEF vars, Types, TypeOK, Engaged, executorVars, bulkVars, requestVars, historyVars
<1>12. QED BY <1>1, <1>2, <1>3, <1>4, <1>5, <1>6, <1>7, <1>8, <1>9, <1>10, <1>11 DEF Next, Step

\* The types hold initially.
LEMMA InitTypes == Init => Types
<1> SUFFICES ASSUME Init PROVE Types
  OBVIOUS
<1>1. 0 \in Time /\ 0 \in 0..MaxRebuilds /\ 0 \in 0..MaxFailures
  BY Domains DEF Time
<1>2. NoData(Never) \in Samples
  BY Domains
<1>3. QED BY <1>1, <1>2, Domains DEF Init, Types, TypeOK, Engaged

\* Type correctness of the caches and of the requests that use them
\* (environmentQuery, BulkValueQuery).
THEOREM QueryTypeCorrect == SafetySpec => []TypeOK
<1>1. Types /\ [Next]_vars => Types'
  BY TypesInductive
<1>2. Types => TypeOK
  BY DEF Types
<1>3. QED BY InitTypes, <1>1, <1>2, PTL DEF SafetySpec

-----------------------------------------------------------------------------
\* Every step keeps the account of the two mutexes.
LEMMA LocksInductive ==
  ASSUME Types, LocksHeld, [Next]_vars
  PROVE  LocksHeld'
<1>0. kind' = kind
  BY KindFixed
<1> USE <1>0
<1> USE NoneAssumption
<1>1. ASSUME NEW r \in Requests, NEW e \in Envs, Start(r, e)
      PROVE  LocksHeld'
  BY <1>1 DEF Start, LocksHeld, Types, TypeOK, executorVars, bulkVars
<1>2. ASSUME NEW r \in Requests, Hit(r)
      PROVE  LocksHeld'
  BY <1>2 DEF Hit, Return, LocksHeld, Types, TypeOK, executorVars, bulkVars
<1>3. ASSUME NEW r \in Requests, Miss(r)
      PROVE  LocksHeld'
  <2>1. /\ target[r] \in Executors /\ target' = target
        /\ lock' = [lock EXCEPT ![target[r]] = r] /\ bulkLock' = bulkLock
        /\ \/ pc' = [pc EXCEPT ![r] = "match"]
           \/ kind = "single" /\ pc' = [pc EXCEPT ![r] = "query"]
    BY <1>3 DEF Miss, Ask, Types, Engaged, bulkVars
  <2>2. \A s \in Requests : target[s] = target[r] => pc[s] \notin {"match", "query"}
    BY <1>3, <2>1 DEF Miss, LocksHeld
  <2>3. QED BY <1>3, <2>1, <2>2 DEF Miss, LocksHeld, Types, TypeOK
<1>4. ASSUME NEW r \in Requests, NEW x \in Executors, NEW sample,
             target[r] = x, pc[r] \in {"match", "query"}, Store(x, sample), Return(r, sample),
             bulkLock' = IF kind = "bulk" /\ pc[r] = "query" THEN None ELSE bulkLock
      PROVE  LocksHeld'
  <2>1. /\ lock' = [lock EXCEPT ![x] = None] /\ target' = target
        /\ pc'[r] \in {"sample", "updated"}
        /\ \A s \in Requests \ {r} : pc'[s] = pc[s]
    BY <1>4 DEF Store, Return, Types, TypeOK
  <2>2. \A s \in Requests \ {r} : target[s] = x => pc[s] \notin {"match", "query"}
    BY <1>4 DEF LocksHeld
  <2>3. \A s \in Requests \ {r} :
          kind = "bulk" /\ pc[s] = "query" => bulkLock = s /\ pc[r] # "query"
    BY <1>4 DEF LocksHeld
  <2>4. QED BY <1>4, <2>1, <2>2, <2>3 DEF LocksHeld, Types, TypeOK
<1>5. ASSUME NEW r \in Requests, CacheHit(r)
      PROVE  LocksHeld'
  <2>1. target[r] \in Executors /\ bulkLock' = bulkLock /\ pc[r] = "match"
    BY <1>5 DEF CacheHit, Types, Engaged, bulkVars
  <2>2. QED BY <1>4, <1>5, <2>1 DEF CacheHit
<1>6. ASSUME NEW r \in Requests, CacheMiss(r)
      PROVE  LocksHeld'
  <2>1. kind = "bulk" /\ pc[r] = "match"
    BY <1>6 DEF CacheMiss, Types, Engaged
  <2>2. QED BY <1>6, <2>1 DEF CacheMiss, Ask, LocksHeld, Types, TypeOK, executorVars
<1>7. ASSUME NEW r \in Requests, LastUpdate(r)
      PROVE  LocksHeld'
  <2>1. target[r] \in Executors /\ pc[r] = "updated"
    BY <1>7 DEF LastUpdate, Types, Engaged
  <2>2. QED BY <1>7, <2>1 DEF LastUpdate, End, LocksHeld, Types, TypeOK, executorVars, bulkVars
<1>8. ASSUME NEW r \in Requests, Answer(r)
      PROVE  LocksHeld'
  <2>1. target[r] \in Executors /\ pc[r] = "query"
    BY <1>8 DEF Answer, Types, Engaged
  <2>2. PICK found \in SUBSET Envs : BulkAnswer(r, found) \/ SingleAnswer(r, found)
    BY <1>8 DEF Answer
  <2>3. PICK sample : Store(target[r], sample) /\ Return(r, sample)
    BY <2>2 DEF BulkAnswer, SingleAnswer
  <2>4. bulkLock' = IF kind = "bulk" /\ pc[r] = "query" THEN None ELSE bulkLock
    BY <2>1, <2>2 DEF BulkAnswer, SingleAnswer, bulkVars
  <2>5. QED BY <1>4, <2>1, <2>3, <2>4
<1>9. ASSUME NEW r \in Requests, Failure(r)
      PROVE  LocksHeld'
  <2>1. /\ target[r] \in Executors /\ pc[r] = "query"
        /\ lock' = [lock EXCEPT ![target[r]] = None] /\ bulkLock' = None
        /\ pc' = [pc EXCEPT ![r] = "idle"] /\ target' = [target EXCEPT ![r] = None]
    BY <1>9 DEF Failure, End, Types, Engaged
  <2>2. \A s \in Requests \ {r} : target[s] = target[r] => pc[s] \notin {"match", "query"}
    BY <2>1 DEF LocksHeld
  <2>3. \A s \in Requests \ {r} : ~(kind = "bulk" /\ pc[s] = "query")
    BY <2>1 DEF LocksHeld
  <2>4. QED BY <2>1, <2>2, <2>3 DEF LocksHeld, Types, TypeOK
<1>10. ASSUME NEW e \in Envs, Rebuild(e)
       PROVE  LocksHeld'
  BY <1>10 DEF Rebuild, LocksHeld, bulkVars, requestVars
<1>11. CASE Tick
  BY <1>11 DEF Tick, LocksHeld, executorVars, bulkVars, requestVars
<1>12. CASE UNCHANGED vars
  BY <1>12 DEF vars, LocksHeld, executorVars, bulkVars, requestVars
<1>13. QED BY <1>1, <1>2, <1>3, <1>5, <1>6, <1>7, <1>8, <1>9, <1>10, <1>11, <1>12 DEF Next, Step

\* The mutexes are held exactly during queries (environmentQuery.sample,
\* BulkValueQuery.queryForEnvironment): every path unlocks what it locked.
THEOREM LocksAreHeld == SafetySpec => []LocksHeld
<1>1. Init => LocksHeld
  BY NoneAssumption DEF Init, LocksHeld
<1>2. Types /\ LocksHeld /\ [Next]_vars => LocksHeld' /\ Types'
  BY LocksInductive, TypesInductive
<1>3. QED BY InitTypes, <1>1, <1>2, PTL DEF SafetySpec

-----------------------------------------------------------------------------
\* All times are integers.
LEMMA Numbers ==
  ASSUME Types
  PROVE  /\ now \in Int /\ lastQuery \in Int /\ Interval \in Int /\ Interval >= 1
         /\ \A r \in Requests : start[r] \in Int
         /\ \A q \in recent : q.end \in Int /\ q.start \in Int
         /\ \A x \in Executors : lastUpdate[x] \in Int /\ lastStored[x].timestamp \in Int
         /\ \A e \in DOMAIN valCache : valCache[e].timestamp \in Int
<1> USE Domains DEF Types, TypeOK
<1>1. now \in Int /\ lastQuery \in Int /\ Interval \in Int /\ Interval >= 1
  OBVIOUS
<1>2. \A r \in Requests : start[r] \in Int
  OBVIOUS
<1>3. \A q \in recent : q.end \in Int /\ q.start \in Int
  <2> SUFFICES ASSUME NEW q \in recent PROVE q.end \in Time /\ q.start \in Time
    OBVIOUS
  <2>1. q \in [env: Envs, start: Time, end: Time, answered: BOOLEAN, found: SUBSET Envs]
    OBVIOUS
  <2>2. QED BY <2>1
<1>4. \A x \in Executors : lastUpdate[x] \in Int /\ lastStored[x].timestamp \in Int
  <2> SUFFICES ASSUME NEW x \in Executors
               PROVE  lastUpdate[x] \in Times /\ lastStored[x].timestamp \in Times
    OBVIOUS
  <2>1. lastUpdate[x] \in Times /\ lastStored[x] \in Samples
    OBVIOUS
  <2>2. QED BY <2>1
<1>5. \A e \in DOMAIN valCache : valCache[e].timestamp \in Int
  OBVIOUS
<1>6. QED BY <1>1, <1>2, <1>3, <1>4, <1>5

\* What an answer does, whatever the kind of the query.
LEMMA AnswerEffect ==
  ASSUME Types, NEW r \in Requests, Answer(r)
  PROVE  \E found \in SUBSET Envs, sample \in Samples :
           /\ recent' = recent \cup {Query(r, TRUE, found)}
           /\ Yields(Query(r, TRUE, found), Env(r), sample)
           /\ Store(target[r], sample) /\ Return(r, sample)
           /\ \/ /\ kind = "bulk" /\ lastQuery' = now
                 /\ valCache' = [e \in found |-> Sample(start[r])]
                 /\ sample = IF Env(r) \in found THEN Sample(start[r]) ELSE NoData(now)
              \/ /\ kind = "single" /\ UNCHANGED bulkVars
                 /\ sample = Sample(start[r])
<1>1. start[r] \in Times /\ now \in Times
  BY Domains DEF Answer, Types, TypeOK
<1>2. Sample(start[r]) \in Samples /\ NoData(now) \in Samples
  BY <1>1, Domains
<1>3. PICK found \in SUBSET Envs :
        /\ BulkAnswer(r, found) \/ SingleAnswer(r, found)
        /\ recent' = recent \cup {Query(r, TRUE, found)}
  BY DEF Answer
<1>4. CASE BulkAnswer(r, found)
  <2> DEFINE sample == IF Env(r) \in found THEN Sample(start[r]) ELSE NoData(now)
  <2>1. sample \in Samples /\ Yields(Query(r, TRUE, found), Env(r), sample)
    BY <1>2 DEF Yields, Query, Sample, NoData
  <2>2. QED BY <1>3, <1>4, <2>1 DEF BulkAnswer
<1>5. CASE SingleAnswer(r, found)
  <2>1. Yields(Query(r, TRUE, found), Env(r), Sample(start[r]))
    BY <1>5 DEF SingleAnswer, Yields, Query, Sample
  <2>2. QED BY <1>2, <1>3, <1>5, <2>1 DEF SingleAnswer
<1>6. QED BY <1>3, <1>4, <1>5

\* Every step keeps the throttle: a bulk query leaves an interval after the last
\* answer, and no other answers while it is on its way.
LEMMA ThrottledInductive ==
  ASSUME Types, LocksHeld, Throttled, [Next]_vars
  PROVE  Throttled'
<1>0. kind' = kind
  BY KindFixed
<1> USE <1>0
<1> SUFFICES ASSUME kind = "bulk"
             PROVE  /\ lastQuery' <= now'
                    /\ \A q \in recent' : q.answered => q.end <= lastQuery'
                    /\ \A s \in Requests : pc'[s] = "query" => start'[s] - lastQuery' >= Interval
  BY DEF Throttled
<1>1. /\ now \in Int /\ lastQuery \in Int /\ Interval \in Int
      /\ \A s \in Requests : start[s] \in Int
      /\ \A q \in recent : q.end \in Int /\ q.start \in Int
      /\ pc \in [Requests -> {"idle", "sample", "match", "query", "updated"}]
      /\ start \in [Requests -> Times]
  BY Numbers DEF Types, TypeOK
<1>2. /\ lastQuery <= now
      /\ \A q \in recent : q.answered => q.end <= lastQuery
      /\ \A s \in Requests : pc[s] = "query" => start[s] - lastQuery >= Interval
  BY DEF Throttled
<1>3. ASSUME NEW r \in Requests, UNCHANGED <<now, lastQuery, recent>>,
             \A s \in Requests \ {r} : pc'[s] = pc[s] /\ start'[s] = start[s],
             pc'[r] # "query"
      PROVE  Throttled'
  BY <1>2, <1>3 DEF Throttled
<1>4. ASSUME NEW r \in Requests, (\E e \in Envs : Start(r, e)) \/ Hit(r) \/ CacheHit(r) \/ LastUpdate(r)
      PROVE  Throttled'
  <2>1. /\ UNCHANGED <<now, lastQuery, recent>> /\ pc'[r] # "query"
        /\ \A s \in Requests \ {r} : pc'[s] = pc[s] /\ start'[s] = start[s]
    BY <1>1, <1>4 DEF Start, Hit, CacheHit, LastUpdate, Return, End, bulkVars, historyVars
  <2>2. QED BY <1>3, <2>1
<1>5. ASSUME NEW r \in Requests, Miss(r)
      PROVE  Throttled'
  <2>1. /\ UNCHANGED <<now, lastQuery, recent>> /\ pc'[r] # "query"
        /\ \A s \in Requests \ {r} : pc'[s] = pc[s] /\ start'[s] = start[s]
    BY <1>1, <1>5 DEF Miss, Ask, bulkVars, historyVars
  <2>2. QED BY <1>3, <2>1
<1>6. ASSUME NEW r \in Requests, CacheMiss(r)
      PROVE  Throttled'
  <2>1. /\ UNCHANGED <<now, lastQuery, recent>> /\ start'[r] = now
        /\ now - lastQuery >= Interval
        /\ \A s \in Requests \ {r} : pc'[s] = pc[s] /\ start'[s] = start[s]
    BY <1>1, <1>6 DEF CacheMiss, Ask, Recent, historyVars
  <2>2. QED BY <1>2, <2>1 DEF Throttled
<1>7. ASSUME NEW r \in Requests, Answer(r)
      PROVE  Throttled'
  <2>1. PICK found \in SUBSET Envs, sample \in Samples :
          /\ recent' = recent \cup {Query(r, TRUE, found)}
          /\ Return(r, sample) /\ lastQuery' = now
    BY <1>7, AnswerEffect
  <2>2. now' = now /\ pc[r] = "query"
    BY <1>7 DEF Answer
  <2>3. /\ pc'[r] # "query"
        /\ \A s \in Requests \ {r} : pc'[s] = pc[s]
    BY <1>1, <2>1 DEF Return
  <2>4. \A s \in Requests : pc'[s] # "query"
    BY <2>2, <2>3 DEF LocksHeld
  <2>5. \A q \in recent' : q.answered => q.end <= now
    BY <1>1, <1>2, <2>1 DEF Query
  <2>6. lastQuery' <= now'
    BY <1>1, <2>1, <2>2
  <2>7. \A q \in recent' : q.answered => q.end <= lastQuery'
    BY <2>1, <2>5
  <2>8. \A s \in Requests : pc'[s] = "query" => start'[s] - lastQuery' >= Interval
    BY <2>4
  <2>9. QED BY <2>6, <2>7, <2>8 DEF Throttled
<1>8. ASSUME NEW r \in Requests, Failure(r)
      PROVE  Throttled'
  <2>1. /\ UNCHANGED <<now, lastQuery>> /\ pc'[r] # "query"
        /\ recent' = recent \cup {Query(r, FALSE, {})}
        /\ \A s \in Requests \ {r} : pc'[s] = pc[s] /\ start'[s] = start[s]
    BY <1>1, <1>8 DEF Failure, End
  <2>2. QED BY <1>2, <2>1 DEF Throttled, Query
<1>9. ASSUME NEW e \in Envs, Rebuild(e)
      PROVE  Throttled'
  BY <1>2, <1>9 DEF Rebuild, Throttled, bulkVars, requestVars, historyVars
<1>10. CASE Tick
  <2>1. /\ UNCHANGED <<lastQuery, pc, start>> /\ now' = now + 1 /\ recent' \subseteq recent
    BY <1>10 DEF Tick, bulkVars, requestVars
  <2>2. QED BY <1>1, <1>2, <2>1 DEF Throttled
<1>11. CASE UNCHANGED vars
  BY <1>2, <1>11 DEF vars, Throttled, bulkVars, requestVars, historyVars
<1>12. QED BY <1>4, <1>5, <1>6, <1>7, <1>8, <1>9, <1>10, <1>11 DEF Next, Step, Throttled

\* A bulk query is sent an interval after the last one was answered, however many
\* requests and environments share it (BulkValueQuery.queryForEnvironment).
THEOREM BulkQueriesAreSpaced == SafetySpec => []BulkQueriesSpaced
<1>1. Init => Throttled /\ LocksHeld
  <2> SUFFICES ASSUME Init PROVE Throttled /\ LocksHeld
    OBVIOUS
  <2>1. Throttled
    BY Domains DEF Init, Throttled
  <2>2. LocksHeld
    BY NoneAssumption DEF Init, LocksHeld
  <2>3. QED BY <2>1, <2>2
<1>2. Types /\ LocksHeld /\ Throttled /\ [Next]_vars => Types' /\ LocksHeld' /\ Throttled'
  BY TypesInductive, LocksInductive, ThrottledInductive
<1>3. Types /\ Throttled => BulkQueriesSpaced
  <2> SUFFICES ASSUME Types, Throttled, kind = "bulk",
                      NEW r \in Requests, pc[r] = "query", NEW q \in recent, q.answered
               PROVE  start[r] - q.end >= Interval
    BY DEF BulkQueriesSpaced
  <2>1. start[r] \in Int /\ q.end \in Int /\ lastQuery \in Int /\ Interval \in Int
    BY Numbers
  <2>2. QED BY <2>1 DEF Throttled
<1>4. QED BY InitTypes, <1>1, <1>2, <1>3, PTL DEF SafetySpec

-----------------------------------------------------------------------------
(***************************************************************************)
(* What is cached, how old it is, and where it comes from.                 *)
(***************************************************************************)
\* An executor's last update is the time of the sample it has, nothing is dated in
\* the future, and what is remembered of the queries is no older than an interval.
Dated ==
  /\ \A x \in Executors : lastUpdate[x] = lastStored[x].timestamp /\ lastUpdate[x] <= now
  /\ \A r \in Requests : start[r] <= now
  /\ \A q \in recent : q.start <= q.end /\ now - q.end < Interval

\* Who looks further than the executor's own sample found it an interval old, and
\* asked Prometheus an interval after its time.
Overdue ==
  \A r \in Requests :
    /\ pc[r] = "match" => ~Recent(lastUpdate[target[r]])
    /\ pc[r] = "query" => start[r] - lastUpdate[target[r]] >= Interval

\* No executor is ahead of the bulk query.  While its cache counts, it is the
\* answer of one query, and an executor with a sample that is newer than that
\* query's start was told by its end that there is no data.
Backed ==
  kind = "bulk" =>
    /\ \A x \in Executors : lastUpdate[x] <= lastQuery
    /\ Recent(lastQuery) =>
         \E q \in recent :
           /\ q.answered /\ q.end = lastQuery /\ q.found = DOMAIN valCache
           /\ \A e \in q.found : valCache[e] = Sample(q.start)
           /\ \A x \in Executors : lastUpdate[x] <= q.start \/ lastUpdate[x] = lastQuery

\* While an executor's sample counts, it is what some recent query answered.
Remembered ==
  \A x \in Executors :
    Recent(lastUpdate[x]) => \E q \in recent : Yields(q, x[1], lastStored[x])

\* A request has samples no newer than its executor's.
Received ==
  \A r \in Requests :
    /\ pc[r] = "idle" => got[r] = NoSamples
    /\ pc[r] # "idle" =>
         \A c \in {"value", "text"} : got[r][c].timestamp <= lastUpdate[target[r]]

Sound == Types /\ LocksHeld /\ Throttled

IInv == Sound /\ Dated /\ Overdue /\ Backed /\ Remembered /\ Received

\* A step that neither caches a sample nor moves the clock.
Quiet ==
  /\ UNCHANGED <<now, lastStored, lastUpdate, lastQuery>>
  /\ kind = "bulk" /\ Recent(lastQuery) => UNCHANGED valCache
  /\ recent \subseteq recent'
  /\ \A q \in recent' \ recent : q.start <= now /\ q.end = now
  /\ \A s \in Requests : start'[s] \in {start[s], now, Never}

-----------------------------------------------------------------------------
\* The types, the mutexes and the throttle are kept together.
LEMMA SoundInductive ==
  ASSUME Sound, [Next]_vars
  PROVE  Sound'
BY TypesInductive, LocksInductive, ThrottledInductive DEF Sound

\* A query that is on its way started an interval after the last bulk query was
\* answered, so that one does not count any more.
LEMMA OnItsWay ==
  ASSUME IInv, kind = "bulk", NEW r \in Requests, pc[r] = "query"
  PROVE  ~Recent(lastQuery) /\ lastQuery < start[r]
<1>1. /\ now \in Int /\ lastQuery \in Int /\ start[r] \in Int /\ Interval \in Int
      /\ Interval >= 1
  BY Numbers DEF IInv, Sound
<1>2. start[r] - lastQuery >= Interval /\ start[r] <= now
  BY DEF IInv, Sound, Throttled, Dated
<1>3. QED BY <1>1, <1>2 DEF Recent

\* Every step is a quiet one, one that caches a sample, or a tick of the clock.
LEMMA StepShapes ==
  ASSUME IInv, [Next]_vars
  PROVE  \/ Quiet
         \/ \E r \in Requests : Answer(r) \/ CacheHit(r)
         \/ Tick
<1>1. /\ start \in [Requests -> Times] /\ pc \in [Requests -> {"idle", "sample", "match", "query", "updated"}]
  BY DEF IInv, Sound, Types, TypeOK
<1>2. ASSUME NEW r \in Requests, (\E e \in Envs : Start(r, e)) \/ Hit(r) \/ Miss(r) \/ LastUpdate(r)
      PROVE  Quiet
  <2>1. /\ UNCHANGED <<now, lastStored, lastUpdate, lastQuery, valCache, recent>>
        /\ \/ start' = start
           \/ start' = [start EXCEPT ![r] = now]
           \/ start' = [start EXCEPT ![r] = Never]
    BY <1>2 DEF Start, Hit, Miss, LastUpdate, Return, End, Ask, executorVars, bulkVars, historyVars
  <2>2. QED BY <1>1, <2>1 DEF Quiet
<1>3. ASSUME NEW r \in Requests, CacheMiss(r)
      PROVE  Quiet
  <2>1. /\ UNCHANGED <<now, lastStored, lastUpdate, lastQuery, recent>>
        /\ start' = [start EXCEPT ![r] = now] /\ ~Recent(lastQuery)
    BY <1>3 DEF CacheMiss, Ask, executorVars, historyVars
  <2>2. QED BY <1>1, <2>1 DEF Quiet
<1>4. ASSUME NEW r \in Requests, Failure(r)
      PROVE  Quiet
  <2>1. /\ UNCHANGED <<now, lastStored, lastUpdate, lastQuery, valCache>>
        /\ start' = [start EXCEPT ![r] = Never]
        /\ recent' = recent \cup {Query(r, FALSE, {})}
    BY <1>4 DEF Failure, End
  <2>2. start[r] <= now
    BY DEF IInv, Dated
  <2>3. QED BY <1>1, <2>1, <2>2 DEF Quiet, Query
<1>5. ASSUME NEW e \in Envs, Rebuild(e)
      PROVE  Quiet
  BY <1>1, <1>5 DEF Rebuild, Quiet, bulkVars, requestVars, historyVars
<1>6. CASE UNCHANGED vars
  BY <1>1, <1>6 DEF vars, Quiet, executorVars, bulkVars, requestVars, historyVars
<1>7. QED BY <1>2, <1>3, <1>4, <1>5, <1>6 DEF Next, Step

\* What caching and returning a sample leaves behind.
LEMMA StoredEffect ==
  ASSUME Types, NEW r \in Requests, pc[r] # "idle", NEW sample \in Samples,
         Store(target[r], sample), Return(r, sample)
  PROVE  /\ target[r] \in Executors /\ target' = target
         /\ \A x \in Executors :
              /\ lastStored'[x] = IF x = target[r] THEN sample ELSE lastStored[x]
              /\ lastUpdate'[x] = IF x = target[r] THEN sample.timestamp ELSE lastUpdate[x]
         /\ start'[r] = Never /\ pc'[r] \in {"sample", "updated"}
         /\ \A s \in Requests \ {r} :
              pc'[s] = pc[s] /\ start'[s] = start[s] /\ call'[s] = call[s] /\ got'[s] = got[s]
         /\ \A c \in {"value", "text"} :
              got'[r][c] = IF c = call[r] THEN sample ELSE got[r][c]
<1>1. target[r] \in Executors
  BY DEF Types, Engaged
<1>2. QED BY <1>1 DEF Store, Return, Types, TypeOK

\* The sample that is cached and returned is not older than the one it replaces,
\* is not of the future, and is what a query answered less than an interval ago.
LEMMA Fetched ==
  ASSUME IInv, NEW r \in Requests, Answer(r) \/ CacheHit(r)
  PROVE  \E sample \in Samples :
           /\ Store(target[r], sample) /\ Return(r, sample)
           /\ lastUpdate[target[r]] <= sample.timestamp /\ sample.timestamp <= now
           /\ \E q \in recent' : Yields(q, Env(r), sample) /\ now - q.end < Interval
<1>1. target[r] \in Executors /\ pc[r] \in {"match", "query"}
  BY DEF IInv, Sound, Types, Engaged, Answer, CacheHit
<1>2. /\ now \in Int /\ lastQuery \in Int /\ start[r] \in Int /\ Interval \in Int
      /\ Interval >= 1 /\ lastUpdate[target[r]] \in Int
  BY <1>1, Numbers DEF IInv, Sound
<1>3. CASE Answer(r)
  <2>1. PICK found \in SUBSET Envs, sample \in Samples :
          /\ recent' = recent \cup {Query(r, TRUE, found)}
          /\ Yields(Query(r, TRUE, found), Env(r), sample)
          /\ Store(target[r], sample) /\ Return(r, sample)
          /\ sample \in {Sample(start[r]), NoData(now)}
    BY <1>3, AnswerEffect DEF IInv, Sound
  <2>2. start[r] <= now /\ start[r] - lastUpdate[target[r]] >= Interval
    BY <1>3 DEF IInv, Dated, Overdue, Answer
  <2>3. sample.timestamp \in {start[r], now}
    BY <2>1 DEF Sample, NoData
  <2>4. now - Query(r, TRUE, found).end < Interval
    BY <1>2 DEF Query
  <2>5. lastUpdate[target[r]] <= sample.timestamp /\ sample.timestamp <= now
    BY <1>2, <2>2, <2>3
  <2>6. QED BY <2>1, <2>4, <2>5
<1>4. CASE CacheHit(r)
  <2> DEFINE sample == Cached(Env(r))
  <2>1. /\ kind = "bulk" /\ Recent(lastQuery) /\ ~Recent(lastUpdate[target[r]])
        /\ Store(target[r], sample) /\ Return(r, sample) /\ recent' = recent
    BY <1>4 DEF CacheHit, IInv, Sound, Types, Engaged, Overdue, historyVars
  <2>2. Env(r) \in Envs
    BY <1>1 DEF Executors, Env
  <2>3. sample \in Samples
    BY <2>2, CachedTypes DEF IInv, Sound
  <2>4. PICK q \in recent :
          /\ q.answered /\ q.end = lastQuery /\ q.found = DOMAIN valCache
          /\ \A e \in q.found : valCache[e] = Sample(q.start)
          /\ \A x \in Executors : lastUpdate[x] <= q.start \/ lastUpdate[x] = lastQuery
    BY <2>1 DEF IInv, Backed
  <2>5. /\ lastUpdate[target[r]] <= q.start \/ lastUpdate[target[r]] = lastQuery
        /\ q.start <= q.end /\ now - q.end < Interval /\ q.start \in Int /\ q.end \in Int
        /\ lastQuery <= now
    BY <1>1, <2>1, <2>4, Numbers DEF IInv, Dated, Sound, Throttled
  <2>6. lastUpdate[target[r]] <= q.start /\ lastUpdate[target[r]] <= lastQuery
    BY <1>2, <2>1, <2>4, <2>5 DEF Recent
  <2>7. /\ sample.timestamp \in {q.start, lastQuery}
        /\ Yields(q, Env(r), sample)
    BY <2>4 DEF Cached, Yields, Sample, NoData
  <2>8. lastUpdate[target[r]] <= sample.timestamp /\ sample.timestamp <= now
    BY <1>2, <2>4, <2>5, <2>6, <2>7
  <2> HIDE DEF sample
  <2>9. QED BY <2>1, <2>3, <2>5, <2>7, <2>8
<1>5. QED BY <1>3, <1>4

\* Every step keeps the dates.
LEMMA DatedInductive ==
  ASSUME IInv, [Next]_vars
  PROVE  Dated'
<1>1. /\ now \in Int /\ Interval \in Int /\ Interval >= 1 /\ Never \in Int /\ Never < 0 /\ now >= 0
      /\ \A r \in Requests : start[r] \in Int
      /\ \A q \in recent : q.end \in Int /\ q.start \in Int
      /\ \A x \in Executors : lastUpdate[x] \in Int
  BY Numbers, Domains DEF IInv, Sound, Types, TypeOK, Time
<1>2. /\ \A x \in Executors : lastUpdate[x] = lastStored[x].timestamp /\ lastUpdate[x] <= now
      /\ \A r \in Requests : start[r] <= now
      /\ \A q \in recent : q.start <= q.end /\ now - q.end < Interval
  BY DEF IInv, Dated
<1>3. CASE Quiet
  <2>1. \A r \in Requests : start'[r] <= now
    BY <1>1, <1>2, <1>3 DEF Quiet
  <2>2. \A q \in recent' : q.start <= q.end /\ now - q.end < Interval
    BY <1>1, <1>2, <1>3 DEF Quiet
  <2>3. QED BY <1>2, <1>3, <2>1, <2>2 DEF Dated, Quiet
<1>4. ASSUME NEW r \in Requests, Answer(r) \/ CacheHit(r)
      PROVE  Dated'
  <2>1. PICK sample \in Samples :
          /\ Store(target[r], sample) /\ Return(r, sample) /\ sample.timestamp <= now
    BY <1>4, Fetched
  <2>2. pc[r] # "idle" /\ now' = now
    BY <1>4 DEF Answer, CacheHit
  <2>3. /\ \A x \in Executors :
             /\ lastStored'[x] = IF x = target[r] THEN sample ELSE lastStored[x]
             /\ lastUpdate'[x] = IF x = target[r] THEN sample.timestamp ELSE lastUpdate[x]
        /\ start'[r] = Never
        /\ \A s \in Requests \ {r} : start'[s] = start[s]
    BY <2>1, <2>2, StoredEffect DEF IInv, Sound
  <2>4. \A x \in Executors : lastUpdate'[x] = lastStored'[x].timestamp /\ lastUpdate'[x] <= now
    BY <1>2, <2>1, <2>3
  <2>5. \A s \in Requests : start'[s] <= now
    BY <1>1, <1>2, <2>3
  <2>6. \A q \in recent' : q.start <= q.end /\ now - q.end < Interval
    <3>1. \A q \in recent' : q \in recent \/ (q.start = start[r] /\ q.end = now)
      BY <1>4 DEF Answer, CacheHit, Query, historyVars
    <3>2. QED BY <1>1, <1>2, <3>1
  <2>7. QED BY <2>2, <2>4, <2>5, <2>6 DEF Dated
<1>5. CASE Tick
  <2>1. /\ UNCHANGED <<lastStored, lastUpdate, start>> /\ now' = now + 1
        /\ recent' = {q \in recent : now' - q.end < Interval}
    BY <1>5 DEF Tick, executorVars, requestVars
  <2>2. \A x \in Executors : lastUpdate[x] <= now + 1
    BY <1>1, <1>2
  <2>3. \A r \in Requests : start[r] <= now + 1
    BY <1>1, <1>2
  <2>4. QED BY <1>2, <2>1, <2>2, <2>3 DEF Dated
<1>6. QED BY <1>3, <1>4, <1>5, StepShapes

\* Whoever holds the mutex of an executor is alone in it.
LEMMA AloneInExecutor ==
  ASSUME Types, LocksHeld, NEW r \in Requests, NEW s \in Requests \ {r},
         pc[r] \in {"match", "query"}, pc[s] \in {"match", "query"}
  PROVE  target[s] # target[r]
<1>1. target[r] \in Executors
  BY DEF Types, Engaged
<1>2. QED BY <1>1 DEF LocksHeld

\* Every step keeps it that who looks further is overdue.
LEMMA OverdueInductive ==
  ASSUME IInv, [Next]_vars
  PROVE  Overdue'
<1>1. /\ now \in Int /\ Interval \in Int /\ Interval >= 1
      /\ \A r \in Requests : start[r] \in Int
      /\ \A x \in Executors : lastUpdate[x] \in Int
      /\ start \in [Requests -> Times] /\ target \in [Requests -> Executors \cup {None}]
      /\ pc \in [Requests -> {"idle", "sample", "match", "query", "updated"}]
      /\ \A r \in Requests : pc[r] # "idle" => target[r] \in Executors
  BY Numbers DEF IInv, Sound, Types, TypeOK, Engaged
<1>2. \A r \in Requests :
        /\ pc[r] = "match" => now - lastUpdate[target[r]] >= Interval
        /\ pc[r] = "query" => start[r] - lastUpdate[target[r]] >= Interval
  BY <1>1 DEF IInv, Overdue, Recent
<1>3. ASSUME NEW r \in Requests,
             UNCHANGED <<now, lastUpdate>>,
             \A s \in Requests \ {r} :
               pc'[s] = pc[s] /\ start'[s] = start[s] /\ target'[s] = target[s],
             \/ pc'[r] \notin {"match", "query"}
             \/ /\ target'[r] = target[r] /\ target[r] \in Executors
                /\ now - lastUpdate[target[r]] >= Interval
                /\ pc'[r] = "query" => start'[r] = now
      PROVE  Overdue'
  BY <1>1, <1>2, <1>3 DEF Overdue, Recent
<1>4. ASSUME NEW r \in Requests, (\E e \in Envs : Start(r, e)) \/ Hit(r) \/ LastUpdate(r) \/ Failure(r)
      PROVE  Overdue'
  <2>1. /\ UNCHANGED <<now, lastUpdate>> /\ pc'[r] \notin {"match", "query"}
        /\ \A s \in Requests \ {r} :
             pc'[s] = pc[s] /\ start'[s] = start[s] /\ target'[s] = target[s]
    BY <1>1, <1>4 DEF Start, Hit, LastUpdate, Failure, Return, End, executorVars
  <2>2. QED BY <1>3, <2>1
<1>5. ASSUME NEW r \in Requests, Miss(r) \/ CacheMiss(r)
      PROVE  Overdue'
  <2>1. /\ UNCHANGED <<now, lastUpdate>> /\ target' = target /\ target[r] \in Executors
        /\ pc'[r] = "query" => start'[r] = now
        /\ \A s \in Requests \ {r} : pc'[s] = pc[s] /\ start'[s] = start[s]
    BY <1>1, <1>5 DEF Miss, CacheMiss, Ask, executorVars
  <2>2. now - lastUpdate[target[r]] >= Interval
    BY <1>1, <1>2, <1>5, <2>1 DEF Miss, CacheMiss, Recent
  <2>3. QED BY <1>3, <2>1, <2>2
<1>6. ASSUME NEW r \in Requests, Answer(r) \/ CacheHit(r)
      PROVE  Overdue'
  <2>1. PICK sample \in Samples : Store(target[r], sample) /\ Return(r, sample)
    BY <1>6, Fetched
  <2>2. pc[r] \in {"match", "query"} /\ now' = now
    BY <1>6 DEF Answer, CacheHit
  <2>3. /\ target' = target /\ pc'[r] \in {"sample", "updated"}
        /\ \A x \in Executors : x # target[r] => lastUpdate'[x] = lastUpdate[x]
        /\ \A s \in Requests \ {r} : pc'[s] = pc[s] /\ start'[s] = start[s]
    BY <2>1, <2>2, StoredEffect DEF IInv, Sound
  <2>4. \A s \in Requests : pc'[s] \in {"match", "query"} =>
          pc[s] = pc'[s] /\ lastUpdate'[target'[s]] = lastUpdate[target[s]] /\ start'[s] = start[s]
    BY <1>1, <2>2, <2>3, AloneInExecutor DEF IInv, Sound
  <2>5. \A s \in Requests :
          /\ pc'[s] = "match" => now' - lastUpdate'[target'[s]] >= Interval
          /\ pc'[s] = "query" => start'[s] - lastUpdate'[target'[s]] >= Interval
    BY <1>2, <2>2, <2>4
  <2>6. \A s \in Requests : pc'[s] = "match" => ~Recent(lastUpdate[target[s]])'
    BY <1>1, <1>2, <2>2, <2>4 DEF Recent
  <2>7. QED BY <2>5, <2>6 DEF Overdue
<1>7. ASSUME NEW e \in Envs, Rebuild(e)
      PROVE  Overdue'
  BY <1>7 DEF Rebuild, Overdue, Recent, IInv, requestVars
<1>8. CASE Tick
  <2>1. UNCHANGED <<lastUpdate, pc, start, target>> /\ now' = now + 1
    BY <1>8 DEF Tick, executorVars, requestVars
  <2>2. \A r \in Requests : pc[r] = "match" => ~(now' - lastUpdate[target[r]] < Interval)
    BY <1>1, <1>2, <2>1
  <2>3. \A r \in Requests : pc'[r] = "match" => ~Recent(lastUpdate[target[r]])'
    BY <2>1, <2>2 DEF Recent
  <2>4. QED BY <1>2, <2>1, <2>3 DEF Overdue
<1>9. CASE UNCHANGED vars
  BY <1>9 DEF vars, Overdue, Recent, IInv, executorVars, requestVars
<1>10. QED BY <1>4, <1>5, <1>6, <1>7, <1>8, <1>9 DEF Next, Step

\* Every step keeps it that the cache of the bulk query is the answer of one query.
LEMMA BackedInductive ==
  ASSUME IInv, [Next]_vars
  PROVE  Backed'
<1>0. kind' = kind
  BY KindFixed
<1> USE <1>0
<1> SUFFICES ASSUME kind = "bulk" PROVE Backed'
  BY DEF Backed
<1>1. /\ now \in Int /\ lastQuery \in Int /\ Interval \in Int /\ Interval >= 1
      /\ \A r \in Requests : start[r] \in Int
      /\ \A q \in recent : q.end \in Int /\ q.start \in Int
      /\ \A x \in Executors : lastUpdate[x] \in Int
  BY Numbers DEF IInv, Sound
<1>2. \A x \in Executors : lastUpdate[x] <= lastQuery
  BY DEF IInv, Backed
<1>3. ASSUME Recent(lastQuery)
      PROVE  \E q \in recent :
               /\ q.answered /\ q.end = lastQuery /\ q.found = DOMAIN valCache
               /\ \A e \in q.found : valCache[e] = Sample(q.start)
               /\ \A x \in Executors : lastUpdate[x] <= q.start \/ lastUpdate[x] = lastQuery
  BY <1>3 DEF IInv, Backed
<1>4. CASE Quiet
  <2>1. /\ UNCHANGED <<now, lastUpdate, lastQuery>> /\ recent \subseteq recent'
        /\ Recent(lastQuery) => valCache' = valCache
    BY <1>4 DEF Quiet
  <2>2. QED BY <1>2, <1>3, <2>1 DEF Backed, Recent
<1>5. ASSUME NEW r \in Requests, Answer(r)
      PROVE  Backed'
  <2>1. PICK found \in SUBSET Envs, sample \in Samples :
          /\ recent' = recent \cup {Query(r, TRUE, found)}
          /\ Store(target[r], sample) /\ Return(r, sample)
          /\ lastQuery' = now /\ valCache' = [e \in found |-> Sample(start[r])]
          /\ sample = IF Env(r) \in found THEN Sample(start[r]) ELSE NoData(now)
    BY <1>5, AnswerEffect DEF IInv, Sound
  <2>2. pc[r] = "query" /\ now' = now
    BY <1>5 DEF Answer
  <2>3. \A x \in Executors :
          lastUpdate'[x] = IF x = target[r] THEN sample.timestamp ELSE lastUpdate[x]
    BY <2>1, <2>2, StoredEffect DEF IInv, Sound
  <2>4. sample.timestamp \in {start[r], now}
    BY <2>1 DEF Sample, NoData
  <2>5. lastQuery < start[r] /\ start[r] <= now
    BY <2>2, OnItsWay DEF IInv, Dated
  <2>6. \A x \in Executors : lastUpdate'[x] <= start[r] \/ lastUpdate'[x] = now
    BY <1>1, <1>2, <2>3, <2>4, <2>5
  <2>7. \A x \in Executors : lastUpdate'[x] <= now
    BY <1>1, <1>2, <2>3, <2>4, <2>5
  <2> DEFINE q == Query(r, TRUE, found)
  <2>8. /\ q.answered /\ q.end = lastQuery' /\ q.found = DOMAIN valCache' /\ q.start = start[r]
        /\ \A e \in q.found : valCache'[e] = Sample(q.start)
        /\ q \in recent'
    BY <2>1 DEF Query
  <2> HIDE DEF q
  <2>9. QED BY <2>1, <2>6, <2>7, <2>8 DEF Backed
<1>6. ASSUME NEW r \in Requests, CacheHit(r)
      PROVE  Backed'
  <2> DEFINE sample == Cached(Env(r))
  <2>1. /\ pc[r] = "match" /\ UNCHANGED <<now, lastQuery, valCache, recent>> /\ Recent(lastQuery)
        /\ Store(target[r], sample) /\ Return(r, sample)
    BY <1>6 DEF CacheHit, bulkVars, historyVars
  <2>2. Env(r) \in Envs
    BY <2>1 DEF IInv, Sound, Types, Engaged, Executors, Env
  <2>3. sample \in Samples
    BY <2>2, CachedTypes DEF IInv, Sound
  <2> HIDE DEF sample
  <2>4. \A x \in Executors :
          lastUpdate'[x] = IF x = target[r] THEN sample.timestamp ELSE lastUpdate[x]
    BY <2>1, <2>3, StoredEffect DEF IInv, Sound
  <2>5. PICK q \in recent :
          /\ q.answered /\ q.end = lastQuery /\ q.found = DOMAIN valCache
          /\ \A e \in q.found : valCache[e] = Sample(q.start)
          /\ \A x \in Executors : lastUpdate[x] <= q.start \/ lastUpdate[x] = lastQuery
    BY <1>3, <2>1
  <2>6. sample.timestamp \in {q.start, lastQuery}
    BY <2>5 DEF sample, Cached, Sample, NoData
  <2>7. q.start \in Int /\ q.start <= lastQuery
    BY <1>1, <2>5 DEF IInv, Dated
  <2>8. \A x \in Executors : lastUpdate'[x] <= q.start \/ lastUpdate'[x] = lastQuery
    BY <1>1, <2>4, <2>5, <2>6, <2>7
  <2>9. \A x \in Executors : lastUpdate'[x] <= lastQuery
    BY <1>1, <1>2, <2>4, <2>6, <2>7
  <2>10. QED BY <2>1, <2>5, <2>8, <2>9 DEF Backed
<1>7. CASE Tick
  <2>1. /\ UNCHANGED <<lastUpdate, lastQuery, valCache>> /\ now' = now + 1
        /\ recent' = {q \in recent : now' - q.end < Interval}
    BY <1>7 DEF Tick, executorVars, bulkVars
  <2>2. SUFFICES ASSUME now' - lastQuery < Interval
                 PROVE  \E q \in recent' :
                          /\ q.answered /\ q.end = lastQuery /\ q.found = DOMAIN valCache
                          /\ \A e \in q.found : valCache[e] = Sample(q.start)
                          /\ \A x \in Executors : lastUpdate[x] <= q.start \/ lastUpdate[x] = lastQuery
    BY <1>2, <2>1 DEF Backed, Recent
  <2>3. Recent(lastQuery)
    BY <1>1, <2>1, <2>2 DEF Recent
  <2>4. QED BY <1>3, <2>1, <2>2, <2>3
<1>8. QED BY <1>4, <1>5, <1>6, <1>7, StepShapes

\* Every step keeps it that an executor's sample is what a recent query answered.
LEMMA RememberedInductive ==
  ASSUME IInv, [Next]_vars
  PROVE  Remembered'
<1>1. /\ now \in Int /\ Interval \in Int
      /\ \A q \in recent : q.end \in Int /\ q.start \in Int
      /\ \A x \in Executors : lastUpdate[x] \in Int
  BY Numbers DEF IInv, Sound
<1>2. \A x \in Executors :
        Recent(lastUpdate[x]) => \E q \in recent : Yields(q, x[1], lastStored[x])
  BY DEF IInv, Remembered
<1>3. CASE Quiet
  <2>1. UNCHANGED <<now, lastStored, lastUpdate>> /\ recent \subseteq recent'
    BY <1>3 DEF Quiet
  <2>2. QED BY <1>2, <2>1 DEF Remembered, Recent
<1>4. ASSUME NEW r \in Requests, Answer(r) \/ CacheHit(r)
      PROVE  Remembered'
  <2>1. PICK sample \in Samples :
          /\ Store(target[r], sample) /\ Return(r, sample)
          /\ \E q \in recent' : Yields(q, Env(r), sample)
    BY <1>4, Fetched
  <2>2. pc[r] # "idle" /\ now' = now /\ recent \subseteq recent'
    BY <1>4 DEF Answer, CacheHit, historyVars
  <2>3. \A x \in Executors :
          /\ lastStored'[x] = IF x = target[r] THEN sample ELSE lastStored[x]
          /\ lastUpdate'[x] = IF x = target[r] THEN sample.timestamp ELSE lastUpdate[x]
    BY <2>1, <2>2, StoredEffect DEF IInv, Sound
  <2>4. \A x \in Executors : Recent(lastUpdate[x])' =>
          \E q \in recent' : Yields(q, x[1], lastStored'[x])
    <3> SUFFICES ASSUME NEW x \in Executors, Recent(lastUpdate[x])'
                 PROVE  \E q \in recent' : Yields(q, x[1], lastStored'[x])
      OBVIOUS
    <3>1. CASE x = target[r]
      BY <2>1, <2>3, <3>1 DEF Env
    <3>2. CASE x # target[r]
      BY <1>2, <2>2, <2>3, <3>2 DEF Recent
    <3>3. QED BY <3>1, <3>2
  <2>5. QED BY <2>4 DEF Remembered, Yields
<1>5. CASE Tick
  <2>1. /\ UNCHANGED <<lastStored, lastUpdate>> /\ now' = now + 1
        /\ recent' = {q \in recent : now' - q.end < Interval}
    BY <1>5 DEF Tick, executorVars
  <2> SUFFICES ASSUME NEW x \in Executors, now' - lastUpdate[x] < Interval
               PROVE  \E q \in recent' : Yields(q, x[1], lastStored[x])
    BY <2>1 DEF Remembered, Recent, Yields
  <2>2. Recent(lastUpdate[x])
    BY <1>1, <2>1 DEF Recent
  <2>3. PICK q \in recent : Yields(q, x[1], lastStored[x])
    BY <1>2, <2>2
  <2>4. lastStored[x].timestamp <= q.end
    BY <1>1, <2>3 DEF IInv, Dated, Yields
  <2>5. lastUpdate[x] <= q.end
    BY <2>4 DEF IInv, Dated
  <2>6. now' - q.end < Interval
    BY <1>1, <2>1, <2>5
  <2>7. QED BY <2>1, <2>3, <2>6
<1>6. QED BY <1>3, <1>4, <1>5, StepShapes

\* The last update of an executor never goes back in a step.
LEMMA UpdatesAdvance ==
  ASSUME IInv, [Next]_vars
  PROVE  \A x \in Executors : lastUpdate'[x] >= lastUpdate[x]
<1>1. \A x \in Executors : lastUpdate[x] \in Int
  BY Numbers DEF IInv, Sound
<1>2. CASE Quiet \/ Tick
  BY <1>1, <1>2 DEF Quiet, Tick, executorVars
<1>3. ASSUME NEW r \in Requests, Answer(r) \/ CacheHit(r)
      PROVE  \A x \in Executors : lastUpdate'[x] >= lastUpdate[x]
  <2>1. PICK sample \in Samples :
          /\ Store(target[r], sample) /\ Return(r, sample)
          /\ lastUpdate[target[r]] <= sample.timestamp
    BY <1>3, Fetched
  <2>2. pc[r] # "idle"
    BY <1>3 DEF Answer, CacheHit
  <2>3. \A x \in Executors :
          lastUpdate'[x] = IF x = target[r] THEN sample.timestamp ELSE lastUpdate[x]
    BY <2>1, <2>2, StoredEffect DEF IInv, Sound
  <2>4. sample.timestamp \in Int
    BY Domains
  <2>5. QED BY <1>1, <2>1, <2>3, <2>4
<1>4. QED BY <1>2, <1>3, StepShapes

\* Every step keeps it that a request has nothing newer than its executor.
LEMMA ReceivedInductive ==
  ASSUME IInv, [Next]_vars
  PROVE  Received'
<1>1. /\ target \in [Requests -> Executors \cup {None}]
      /\ pc \in [Requests -> {"idle", "sample", "match", "query", "updated"}]
      /\ got \in [Requests -> [{"value", "text"} -> Samples]]
      /\ \A r \in Requests : pc[r] # "idle" => target[r] \in Executors
  BY DEF IInv, Sound, Types, TypeOK, Engaged
<1>2. /\ \A x \in Executors : lastUpdate[x] \in Int /\ lastUpdate'[x] \in Int /\ Never <= lastUpdate'[x]
      /\ \A r \in Requests, c \in {"value", "text"} : got[r][c].timestamp \in Int
      /\ \A sample \in Samples : sample.timestamp \in Int
  <2>1. Sound'
    BY SoundInductive DEF IInv
  <2>2. \A x \in Executors : lastUpdate[x] \in Times /\ lastUpdate'[x] \in Times
    BY <2>1 DEF IInv, Sound, Types, TypeOK
  <2>3. \A t \in Times : t \in Int /\ Never <= t
    BY Domains DEF Times, Time
  <2>4. \A sample \in Samples : sample.timestamp \in Int
    BY <2>3, Domains
  <2>5. \A r \in Requests, c \in {"value", "text"} : got[r][c] \in Samples
    BY <1>1
  <2>6. QED BY <2>2, <2>3, <2>4, <2>5
<1>3. \A r \in Requests :
        /\ pc[r] = "idle" => got[r] = NoSamples
        /\ pc[r] # "idle" =>
             \A c \in {"value", "text"} : got[r][c].timestamp <= lastUpdate[target[r]]
  BY DEF IInv, Received
<1>4. \A x \in Executors : lastUpdate[x] <= lastUpdate'[x]
  <2>1. \A x \in Executors : lastUpdate'[x] >= lastUpdate[x]
    BY UpdatesAdvance
  <2>2. QED BY <1>2, <2>1
<1>5. ASSUME NEW r \in Requests, UNCHANGED <<pc[r], got[r], target[r]>>
      PROVE  /\ pc'[r] = "idle" => got'[r] = NoSamples
             /\ pc'[r] # "idle" =>
                  \A c \in {"value", "text"} : got'[r][c].timestamp <= lastUpdate'[target'[r]]
  <2>1. CASE pc[r] = "idle"
    BY <1>3, <1>5, <2>1
  <2>2. CASE pc[r] # "idle"
    <3>1. target[r] \in Executors
      BY <1>1, <2>2
    <3>2. \A c \in {"value", "text"} : got[r][c].timestamp <= lastUpdate'[target[r]]
      BY <1>2, <1>3, <1>4, <2>2, <3>1
    <3>3. QED BY <1>5, <2>2, <3>2
  <2>3. QED BY <2>1, <2>2
<1>6. ASSUME NEW r \in Requests,
             \A s \in Requests \ {r} : UNCHANGED <<pc[s], got[s], target[s]>>,
             pc'[r] = "idle" => got'[r] = NoSamples,
             pc'[r] # "idle" =>
               \A c \in {"value", "text"} : got'[r][c].timestamp <= lastUpdate'[target'[r]]
      PROVE  Received'
  BY <1>5, <1>6 DEF Received
<1>7. ASSUME NEW r \in Requests, NEW e \in Envs, Start(r, e)
      PROVE  Received'
  <2>1. <<e, generation[e]>> \in Executors
    BY DEF IInv, Sound, Types, TypeOK, Executors
  <2>2. /\ got' = got /\ pc[r] = "idle" /\ pc'[r] # "idle" /\ target'[r] = <<e, generation[e]>>
        /\ \A s \in Requests \ {r} : pc'[s] = pc[s] /\ target'[s] = target[s]
    BY <1>1, <1>7, <2>1 DEF Start
  <2>3. \A c \in {"value", "text"} : got[r][c].timestamp = Never
    BY <1>3, <2>2 DEF NoSamples, NoData
  <2>4. Never <= lastUpdate'[<<e, generation[e]>>]
    BY <1>2, <2>1
  <2>5. QED BY <1>6, <2>2, <2>3, <2>4
<1>8. ASSUME NEW r \in Requests, LastUpdate(r) \/ Failure(r)
      PROVE  Received'
  <2>1. End(r)
    BY <1>8 DEF LastUpdate, Failure
  <2>2. /\ pc'[r] = "idle" /\ got'[r] = NoSamples
        /\ \A s \in Requests \ {r} : UNCHANGED <<pc[s], got[s], target[s]>>
    BY <1>1, <2>1 DEF End
  <2>3. QED BY <1>6, <2>2
<1>9. ASSUME NEW r \in Requests, Miss(r) \/ CacheMiss(r)
      PROVE  Received'
  <2>1. /\ got' = got /\ target' = target /\ pc[r] # "idle" /\ pc'[r] # "idle" /\ target[r] \in Executors
        /\ \A s \in Requests \ {r} : pc'[s] = pc[s]
    BY <1>1, <1>9 DEF Miss, CacheMiss, Ask
  <2>2. \A c \in {"value", "text"} : got[r][c].timestamp <= lastUpdate'[target[r]]
    BY <1>2, <1>3, <1>4, <2>1
  <2>3. QED BY <1>6, <2>1, <2>2
<1>10. ASSUME NEW r \in Requests, Hit(r)
       PROVE  Received'
  <2> DEFINE sample == lastStored[target[r]]
  <2>1. /\ pc[r] # "idle" /\ target[r] \in Executors /\ Return(r, sample) /\ lastUpdate' = lastUpdate
    BY <1>1, <1>10 DEF Hit, executorVars
  <2>2. sample.timestamp = lastUpdate[target[r]]
    BY <2>1 DEF IInv, Dated
  <2> HIDE DEF sample
  <2>3. /\ target' = target /\ pc'[r] # "idle"
        /\ \A s \in Requests \ {r} : pc'[s] = pc[s] /\ got'[s] = got[s]
        /\ \A c \in {"value", "text"} : got'[r][c] = IF c = call[r] THEN sample ELSE got[r][c]
    BY <1>1, <2>1 DEF Return
  <2>4. \A c \in {"value", "text"} : got'[r][c].timestamp <= lastUpdate'[target'[r]]
    BY <1>2, <1>3, <2>1, <2>2, <2>3
  <2>5. QED BY <1>6, <2>3, <2>4
<1>11. ASSUME NEW r \in Requests, Answer(r) \/ CacheHit(r)
       PROVE  Received'
  <2>1. PICK sample \in Samples : Store(target[r], sample) /\ Return(r, sample)
    BY <1>11, Fetched
  <2>2. pc[r] # "idle"
    BY <1>11 DEF Answer, CacheHit
  <2>3. /\ target[r] \in Executors /\ target' = target /\ pc'[r] # "idle"
        /\ lastUpdate'[target[r]] = sample.timestamp
        /\ \A s \in Requests \ {r} : pc'[s] = pc[s] /\ got'[s] = got[s]
        /\ \A c \in {"value", "text"} : got'[r][c] = IF c = call[r] THEN sample ELSE got[r][c]
    BY <2>1, <2>2, StoredEffect DEF IInv, Sound
  <2>4. \A c \in {"value", "text"} : got[r][c].timestamp <= lastUpdate'[target[r]]
    BY <1>2, <1>3, <1>4, <2>2, <2>3
  <2>5. sample.timestamp <= lastUpdate'[target[r]]
    BY <1>2, <2>3
  <2>6. QED BY <1>6, <2>3, <2>4, <2>5
<1>12. ASSUME UNCHANGED <<pc, got, target>>
       PROVE  Received'
  BY <1>5, <1>12 DEF Received
<1>13. ASSUME NEW e \in Envs, Rebuild(e)
       PROVE  Received'
  BY <1>12, <1>13 DEF Rebuild, requestVars
<1>14. CASE Tick \/ UNCHANGED vars
  BY <1>12, <1>14 DEF Tick, vars, requestVars
<1>15. QED BY <1>7, <1>8, <1>9, <1>10, <1>11, <1>13, <1>14 DEF Next, Step

-----------------------------------------------------------------------------
\* The inductive invariant holds.
THEOREM CacheInvariance == SafetySpec => []IInv
<1>1. Init => IInv
  <2> SUFFICES ASSUME Init PROVE IInv
    OBVIOUS
  <2>1. Sound
    BY InitTypes, Domains, NoneAssumption DEF Init, Sound, Throttled, LocksHeld
  <2>2. Never \in Int /\ Never <= 0 /\ ~(0 - Never < Interval)
    BY Domains DEF Never
  <2>3. Dated /\ Overdue
    BY <2>2 DEF Init, Dated, Overdue, NoData
  <2>4. Backed /\ Remembered
    BY <2>2 DEF Init, Backed, Remembered, Recent
  <2>5. Received
    BY DEF Init, Received
  <2>6. QED BY <2>1, <2>3, <2>4, <2>5 DEF IInv
<1>2. IInv /\ [Next]_vars => IInv'
  <2> SUFFICES ASSUME IInv, [Next]_vars PROVE IInv'
    OBVIOUS
  <2>1. Sound'
    BY SoundInductive DEF IInv
  <2>2. QED BY <2>1, DatedInductive, OverdueInductive, BackedInductive, RememberedInductive,
               ReceivedInductive DEF IInv
<1>3. QED BY <1>1, <1>2, PTL DEF SafetySpec

\* statusUpdatedAt is not older than the samples it is reported with, although
\* ResolveProbes reads it after them and other requests update it in between.
THEOREM UpdatesAreNotOlder == SafetySpec => []UpdatedNotOlder
<1>1. IInv => UpdatedNotOlder
  <2> SUFFICES ASSUME IInv, NEW r \in Requests, pc[r] = "updated", NEW c \in {"value", "text"}
               PROVE  lastUpdate[target[r]] >= got[r][c].timestamp
    BY DEF UpdatedNotOlder
  <2>1. target[r] \in Executors /\ got[r][c] \in Samples
    BY DEF IInv, Sound, Types, TypeOK, Engaged
  <2>2. lastUpdate[target[r]] \in Int /\ got[r][c].timestamp \in Int
    BY <2>1, Numbers, Domains DEF IInv, Sound
  <2>3. QED BY <2>2 DEF IInv, Received
<1>2. QED BY <1>1, CacheInvariance, PTL

\* The last update of an executor never goes back, although its samples are dated
\* by the query's start, by its end, or by the bulk query's cache (LastUpdate).
THEOREM UpdatesNeverGoBack == SafetySpec => LastUpdateMonotone
<1>1. IInv /\ [Next]_vars => [\A x \in Executors : lastUpdate'[x] >= lastUpdate[x]]_vars
  BY UpdatesAdvance
<1>2. QED BY <1>1, CacheInvariance, PTL DEF SafetySpec, LastUpdateMonotone

\* A step in which a sample is returned returns what a query answered less than
\* an interval ago.
LEMMA ReturnsAreAnswers ==
  ASSUME IInv, [Next]_vars, NEW r \in Requests, Returns(r)
  PROVE  \E q \in recent' : Yields(q, Env(r), got'[r][call[r]]) /\ now - q.end < Interval
<1>1. /\ pc \in [Requests -> {"idle", "sample", "match", "query", "updated"}]
      /\ call \in [Requests -> {"value", "text"}]
      /\ got \in [Requests -> [{"value", "text"} -> Samples]]
      /\ \A s \in Requests : pc[s] # "idle" => target[s] \in Executors
  BY DEF IInv, Sound, Types, TypeOK, Engaged
<1>2. ~(pc'[r] = pc[r] /\ call'[r] = call[r])
  BY DEF Returns
<1>3. ~(pc'[r] # "updated" /\ call'[r] \in {call[r], "value"})
  BY DEF Returns
<1>4. ASSUME NEW s \in Requests, Hit(s)
      PROVE  \E q \in recent' : Yields(q, Env(r), got'[r][call[r]]) /\ now - q.end < Interval
  <2> DEFINE sample == lastStored[target[s]]
  <2>1. Return(s, sample) /\ Recent(lastUpdate[target[s]]) /\ target[s] \in Executors /\ recent' = recent
    BY <1>1, <1>4 DEF Hit, historyVars
  <2>2. PICK q \in recent : Yields(q, target[s][1], sample)
    BY <2>1 DEF IInv, Remembered
  <2>3. now - q.end < Interval
    BY DEF IInv, Dated
  <2> HIDE DEF sample
  <2>4. r = s /\ got'[s][call[s]] = sample
    BY <1>1, <1>2, <2>1 DEF Return
  <2>5. QED BY <2>1, <2>2, <2>3, <2>4 DEF Env
<1>5. ASSUME NEW s \in Requests, Answer(s) \/ CacheHit(s)
      PROVE  \E q \in recent' : Yields(q, Env(r), got'[r][call[r]]) /\ now - q.end < Interval
  <2>1. PICK sample \in Samples :
          /\ Store(target[s], sample) /\ Return(s, sample)
          /\ \E q \in recent' : Yields(q, Env(s), sample) /\ now - q.end < Interval
    BY <1>5, Fetched
  <2>2. r = s /\ got'[s][call[s]] = sample
    BY <1>1, <1>2, <2>1 DEF Return
  <2>3. QED BY <2>1, <2>2
<1>6. ASSUME NEW s \in Requests,
             (\E e \in Envs : Start(s, e)) \/ Miss(s) \/ CacheMiss(s) \/ LastUpdate(s) \/ Failure(s)
      PROVE  FALSE
  BY <1>1, <1>2, <1>3, <1>6 DEF Start, Miss, CacheMiss, LastUpdate, Failure, Ask, End
<1>7. ASSUME (\E e \in Envs : Rebuild(e)) \/ Tick \/ UNCHANGED vars
      PROVE  FALSE
  BY <1>2, <1>7 DEF Rebuild, Tick, vars, requestVars
<1>8. QED BY <1>4, <1>5, <1>6, <1>7 DEF Next, Step

\* Whatever a request is told, "no data" included, was the answer of one query
\* that ended less than an interval before: the two caches do not add up, and a
\* failed query leaves nothing to be told (environmentQuery.sample).
THEOREM AnswersAreFresh == SafetySpec => FreshAndHonest
<1>1. IInv /\ [Next]_vars =>
        [\A r \in Requests :
           Returns(r) => \E q \in recent' :
                           Yields(q, Env(r), got'[r][call[r]]) /\ now - q.end < Interval]_vars
  BY ReturnsAreAnswers
<1>2. QED BY <1>1, CacheInvariance, PTL DEF SafetySpec, FreshAndHonest
=============================================================================
