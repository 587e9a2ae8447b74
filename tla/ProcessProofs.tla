---------------------------- MODULE ProcessProofs ----------------------------
(***************************************************************************)
(* Proofs about the life of the process, for any configurations and any    *)
(* number of open requests: types, what success and a cut-off request      *)
(* mean, and that what is accepted in a configuration is what is served.   *)
(***************************************************************************)
EXTENDS Process, TLAPS

Down(s) == server[s] \notin {"starting", "listening"}

Failed == (IF server["api"] = "failed" THEN 1 ELSE 0)
            + (IF server["metrics"] = "failed" THEN 1 ELSE 0)

\* Past its reading, the configuration is one that may be accepted, and past their
\* set-up, there are the probers it asks for.
Accepted ==
  /\ phase \notin {"config", "exited"} \/ server["api"] # "off" => "ok" \in validate(config)
  /\ phase \notin {"config", "client", "probers", "exited"} \/ server["api"] # "off" =>
       probers = Probers(config)

\* Each error in the channel is of a server of its own, requests are open at
\* servers that have listened, and without a port there is no metrics server.
Serving ==
  /\ errs <= Failed
  /\ \A s \in Servers : open[s] > 0 => server[s] \notin {"off", "starting"}
  /\ config.MetricsPort = 0 => server["metrics"] = "off"

\* The shutdown follows a signal and takes the servers down one after the other; the
\* deadline expires after its time only, and requests are lost only by exiting.
Stopping ==
  /\ phase \in {"stop api", "stop metrics"} => signalled /\ Down("api")
  /\ phase = "stop metrics" => Down("metrics") /\ open["api"] = 0
  /\ deadline = "expired" => elapsed
  /\ phase # "exited" => lost = 0

Types == TypeOK /\ Serving

-----------------------------------------------------------------------------
\* A loop over entries may end with "ok" only if every entry is ok.
LEMMA LoopOk ==
  ASSUME NEW judgements, "ok" \in LoopEnds(judgements)
  PROVE  judgements \subseteq {"ok"} /\ LoopEnds(judgements) = {"ok"}
BY DEF LoopEnds

\* What an accepted configuration consists of (configFile.validate).
LEMMA AcceptedParts ==
  ASSUME NEW f, "ok" \in validate(f)
  PROVE  /\ \A k \in DOMAIN f.StatusChecks : CheckValid(k, f.StatusChecks[k])
         /\ \A k \in DOMAIN f.Metadata : MetadataValid(k, f.Metadata[k])
         /\ IgnitionValid(f.Ignition)
<1> DEFINE C == {Judge(k, f.StatusChecks[k], CheckValid(k, f.StatusChecks[k])) :
                   k \in DOMAIN f.StatusChecks}
           M == {Judge(k, f.Metadata[k], MetadataValid(k, f.Metadata[k])) :
                   k \in DOMAIN f.Metadata}
<1>1. LoopEnds(C) = {"ok"} /\ LoopEnds(M) = {"ok"}
  <2>1. validate(f) = IF LoopEnds(C) # {"ok"} THEN LoopEnds(C)
                      ELSE IF LoopEnds(M) # {"ok"} THEN LoopEnds(M)
                      ELSE {IF IgnitionValid(f.Ignition) THEN "ok" ELSE "error"}
    BY DEF validate
  <2> HIDE DEF C, M
  <2>2. LoopEnds(C) = {"ok"}
    BY <2>1, LoopOk
  <2>3. LoopEnds(M) = {"ok"}
    BY <2>1, <2>2, LoopOk
  <2>4. QED BY <2>2, <2>3
<1>2. IgnitionValid(f.Ignition)
  <2>1. validate(f) = {IF IgnitionValid(f.Ignition) THEN "ok" ELSE "error"}
    BY <1>1 DEF validate
  <2>2. QED BY <2>1
<1>3. C \subseteq {"ok"} /\ M \subseteq {"ok"}
  <2> HIDE DEF C, M
  <2>1. QED BY <1>1, LoopOk
<1>4. ASSUME NEW k \in DOMAIN f.StatusChecks PROVE CheckValid(k, f.StatusChecks[k])
  <2>1. Judge(k, f.StatusChecks[k], CheckValid(k, f.StatusChecks[k])) = "ok"
    BY <1>3
  <2>2. QED BY <2>1 DEF Judge
<1>5. ASSUME NEW k \in DOMAIN f.Metadata PROVE MetadataValid(k, f.Metadata[k])
  <2>1. Judge(k, f.Metadata[k], MetadataValid(k, f.Metadata[k])) = "ok"
    BY <1>3
  <2>2. QED BY <2>1 DEF Judge
<1>6. QED BY <1>2, <1>4, <1>5

\* What the constructors ask of an accepted configuration was asked before: the
\* type of a query, its template, the type of metadata, the type of the provider.
LEMMA AcceptedBuildable ==
  ASSUME NEW f, "ok" \in validate(f)
  PROVE  ProbersBuildable(f) /\ NewProviderOK(IgnitionType(f.Ignition))
<1>1. ASSUME NEW k \in DOMAIN f.StatusChecks
      PROVE  NewPrometheusProberOK(Named(k, f.StatusChecks[k]))
  <2>1. Validate(Named(k, f.StatusChecks[k]))
    BY AcceptedParts DEF CheckValid
  <2>2. QED BY <2>1 DEF Validate, validateSingle, ExecutesAsHTML, NewPrometheusProberOK
<1>2. ASSUME NEW k \in DOMAIN f.Metadata
      PROVE  NewPrometheusMetadataProberOK(Named(k, f.Metadata[k]))
  <2>1. Validate(Named(k, f.Metadata[k])) /\ f.Metadata[k].Type \in MetadataTypes
    BY AcceptedParts DEF MetadataValid, ValidType
  <2>2. Named(k, f.Metadata[k]).Type = f.Metadata[k].Type
    BY DEF Named
  <2>3. QED BY <2>1, <2>2 DEF Validate, validateSingle, ExecutesAsHTML,
                               NewPrometheusProberOK, NewPrometheusMetadataProberOK
<1>3. NewProviderOK(IgnitionType(f.Ignition))
  BY AcceptedParts DEF IgnitionValid, IgnitionType, NewProviderOK
<1>4. QED BY <1>1, <1>2, <1>3 DEF ProbersBuildable

-----------------------------------------------------------------------------
\* The requests that are open are numbers within the bound, and so is their sum.
LEMMA OpenTypes ==
  ASSUME Types
  PROVE  /\ open["api"] \in 0..MaxOpen /\ open["metrics"] \in 0..MaxOpen
         /\ open["api"] + open["metrics"] \in 0..(2 * MaxOpen)
<1>1. open["api"] \in 0..MaxOpen /\ open["metrics"] \in 0..MaxOpen
  BY DEF Types, TypeOK, Servers
<1>2. \A a, b \in 0..MaxOpen : a + b \in 0..(2 * MaxOpen)
  BY MaxOpenAssumption
<1>3. QED BY <1>1, <1>2

\* The process exits with what was open.
LEMMA ExitLoses ==
  ASSUME Types, NEW error, error # "none", Exit(error)
  PROVE  /\ phase' = "exited" /\ err' # "none" /\ lost' \in 0..(2 * MaxOpen)
         /\ lost' = open["api"] + open["metrics"]
BY OpenTypes DEF Exit

\* Before the last part is set up, no server runs and no request is open.
LEMMA NothingServed ==
  ASSUME Types, phase \in Starting
  PROVE  /\ server = [s \in Servers |-> "off"] /\ errs = 0 /\ err = "none"
         /\ open["api"] = 0 /\ open["metrics"] = 0
<1>1. server = [s \in Servers |-> "off"] /\ errs = 0 /\ err = "none"
  BY DEF Types, TypeOK, Starting
<1>2. \A s \in Servers : ~(open[s] > 0)
  BY <1>1 DEF Types, Serving
<1>3. QED BY <1>1, <1>2, OpenTypes, MaxOpenAssumption DEF Servers

\* Where run may be after one step of the start.
LEMMA StartPhases ==
  ASSUME Types, Start
  PROVE  /\ phase \in Starting
         /\ UNCHANGED <<config, signalled, errs, open, deadline, elapsed>>
         /\ Listen \/ server' = server
         /\ probers' \in {probers, Probers(config)}
         /\ cause' # "none" <=> err' = "failed to set up probers"
         /\ \/ Listen
            \/ phase' \in Starting /\ phase' # "config" /\ err' = err /\ lost' = lost
            \/ phase' = "exited" /\ err' \notin {"none", "nil"} /\ lost' = 0
<1>1. /\ phase \in Starting
      /\ UNCHANGED <<config, signalled, errs, open, deadline, elapsed>>
      /\ Listen \/ server' = server
  BY DEF Start, ParseConfig, GetClient, SetupProbers, SetupIgnition, Watch, Listen, startVars,
         serveVars, Starting
<1>2. probers' \in {probers, Probers(config)}
  BY DEF Start, ParseConfig, GetClient, SetupProbers, SetupIgnition, Watch, Listen, startVars
<1>2a. cause' # "none" <=> err' = "failed to set up probers"
  <2>1. cause = "none" /\ err = "none"
    BY <1>1, NothingServed DEF Types, TypeOK
  <2>2. "none" \notin setupProbers(config)
    BY DEF setupProbers, NewPrometheus
  <2>3. CASE SetupProbers
    BY <2>1, <2>2, <2>3 DEF SetupProbers, GoOn, Exit
  <2>4. CASE ~SetupProbers
    BY <2>1, <2>4 DEF Start, ParseConfig, GetClient, SetupIgnition, Watch, Listen, startVars,
                      GoOn, Exit
  <2>5. QED BY <2>3, <2>4
<1>3. open["api"] + open["metrics"] = 0
  BY <1>1, NothingServed
<1>4. \/ Listen
      \/ phase' \in Starting /\ phase' # "config" /\ err' = err /\ lost' = lost
      \/ phase' = "exited" /\ err' \notin {"none", "nil"} /\ lost' = 0
  BY <1>3 DEF Start, ParseConfig, GetClient, SetupProbers, SetupIgnition, Watch, GoOn, Exit, Starting
<1>5. QED BY <1>1, <1>2, <1>2a, <1>4

LEMMA StartTypes ==
  ASSUME Types, Start
  PROVE  Types'
<1>1. phase \in Starting /\ UNCHANGED <<config, signalled, errs, open, deadline, elapsed>>
  BY StartPhases
<1>1a. /\ probers' \in {{}, Probers(config)'}
       /\ cause' # "none" <=> err' = "failed to set up probers"
  BY <1>1, StartPhases DEF Types, TypeOK, Probers
<1>2. server = [s \in Servers |-> "off"] /\ errs = 0 /\ err = "none" /\ \A s \in Servers : open[s] = 0
  BY <1>1, NothingServed DEF Servers
<1>3. CASE Listen
  <2>1. server' \in [Servers -> {"off", "starting"}]
    BY <1>3 DEF Listen
  <2>2. phase' = "select" /\ err' = err /\ lost' = lost
    BY <1>3 DEF Listen, GoOn
  <2>3. TypeOK'
    BY <1>1, <1>1a, <1>2, <2>1, <2>2 DEF Types, TypeOK, Starting
  <2>4. config.MetricsPort = 0 => server'["metrics"] = "off"
    BY <1>3 DEF Listen, Servers
  <2>5. Failed' = 0
    BY <2>1 DEF Failed, Servers
  <2>6. Serving'
    <3>1. errs' <= Failed' /\ config' = config
      BY <1>1, <1>2, <2>5
    <3>2. \A s \in Servers : ~(open'[s] > 0)
      BY <1>1, <1>2
    <3>3. QED BY <2>4, <3>1, <3>2 DEF Serving
  <2>7. QED BY <2>3, <2>6 DEF Types
<1>4. CASE ~Listen
  <2>1. server' = server
    BY <1>4, StartPhases
  <2>2. \/ phase' \in Starting /\ err' = err /\ lost' = lost
        \/ phase' = "exited" /\ err' # "none" /\ lost' = 0
    BY <1>4, StartPhases
  <2>3. phase' \in Starting => server' = [s \in Servers |-> "off"] /\ errs' = 0
    BY <1>1, <1>2, <2>1
  <2>4. phase' = "exited" <=> err' # "none"
    BY <1>2, <2>2 DEF Starting
  <2>5. lost' \in 0..(2 * MaxOpen)
    <3>1. lost \in 0..(2 * MaxOpen)
      BY DEF Types, TypeOK
    <3>2. 0 \in 0..(2 * MaxOpen)
      BY MaxOpenAssumption
    <3>3. QED BY <2>2, <3>1, <3>2
  <2>6. TypeOK'
    BY <1>1, <1>1a, <2>1, <2>2, <2>3, <2>4, <2>5 DEF Types, TypeOK
  <2>7. QED BY <1>1, <2>1, <2>6 DEF Types, Serving, Failed
<1>5. QED BY <1>3, <1>4

\* What a server may be in the middle of.
LEMMA ServePhases ==
  ASSUME Types, NEW s \in Servers, Serve(s)
  PROVE  /\ phase \notin Starting \cup {"exited"}
         /\ server[s] # "off"
         /\ UNCHANGED <<startVars, phase, err, signalled, stopVars>>
<1>1. UNCHANGED <<startVars, phase, err, signalled, stopVars>> /\ phase # "exited"
  BY DEF Serve, Bind, Fail, Accept, Answer, Alive
<1>2. server[s] # "off"
  <2>1. open[s] > 0 => server[s] # "off"
    BY DEF Types, Serving
  <2>2. QED BY <2>1 DEF Serve, Bind, Fail, Accept, Answer
<1>3. phase \notin Starting
  BY <1>2, NothingServed
<1>4. QED BY <1>1, <1>2, <1>3

\* A server that fails makes one more that has failed.
LEMMA FailureCounts ==
  ASSUME Types, NEW s \in Servers, Fail(s)
  PROVE  Failed' = Failed + 1 /\ Failed' \in 0..2
<1>1. /\ server \in [Servers -> {"off", "starting", "listening", "failed", "closed"}]
      /\ server[s] # "failed" /\ server' = [server EXCEPT ![s] = "failed"]
  BY DEF Types, TypeOK, Fail
<1>2. \A o \in Servers \ {s} : server'[o] = server[o]
  BY <1>1
<1>3. server'[s] = "failed"
  BY <1>1
<1>4. CASE s = "api"
  BY <1>1, <1>2, <1>3, <1>4 DEF Failed, Servers
<1>5. CASE s = "metrics"
  BY <1>1, <1>2, <1>3, <1>5 DEF Failed, Servers
<1>6. QED BY <1>4, <1>5 DEF Servers

LEMMA ServeTypes ==
  ASSUME Types, NEW s \in Servers, Serve(s)
  PROVE  Types'
<1>1. /\ phase \notin Starting \cup {"exited"} /\ server[s] # "off"
      /\ UNCHANGED <<config, probers, cause, phase, err, signalled, deadline, elapsed, lost>>
  BY ServePhases DEF startVars, stopVars
<1>2. /\ server' \in [Servers -> {"off", "starting", "listening", "failed", "closed"}]
      /\ \A o \in Servers : server'[o] = server[o] \/ (o = s /\ server'[o] \in {"listening", "failed"})
  BY DEF Serve, Bind, Fail, Accept, Answer, Types, TypeOK
<1>3. /\ open' \in [Servers -> 0..MaxOpen]
      /\ \A o \in Servers : open'[o] > 0 => open[o] > 0 \/ server[o] = "listening"
  <2> open \in [Servers -> 0..MaxOpen]
    BY DEF Types, TypeOK
  <2>1. CASE Accept(s)
    <3>1. /\ open' = [open EXCEPT ![s] = open[s] + 1] /\ server[s] = "listening"
          /\ open[s] + 1 \in 0..MaxOpen
      BY <2>1, MaxOpenAssumption DEF Accept
    <3>2. QED BY <3>1
  <2>2. CASE Answer(s)
    <3>1. /\ open' = [open EXCEPT ![s] = open[s] - 1] /\ open[s] > 0
          /\ open[s] - 1 \in 0..MaxOpen
      BY <2>2, MaxOpenAssumption DEF Answer
    <3>2. QED BY <3>1
  <2>3. CASE open' = open
    BY <2>3
  <2>4. QED BY <2>1, <2>2, <2>3 DEF Serve, Bind, Fail
<1>4. errs' \in 0..2 /\ errs' <= Failed'
  <2>1. CASE Fail(s)
    <3>1. errs' = errs + 1 /\ errs \in 0..2 /\ errs <= Failed
      BY <2>1 DEF Fail, Types, TypeOK, Serving
    <3>2. Failed \in Int
      BY DEF Failed
    <3>3. QED BY <2>1, <3>1, <3>2, FailureCounts
  <2>2. CASE ~Fail(s)
    <3>1. errs' = errs
      BY <2>2 DEF Serve, Bind, Accept, Answer
    <3>2. \A o \in Servers : server'[o] = "failed" <=> server[o] = "failed"
      BY <2>2 DEF Serve, Bind, Accept, Answer, Types, TypeOK
    <3>3. Failed' = Failed
      BY <3>2 DEF Failed, Servers
    <3>4. QED BY <3>1, <3>3 DEF Types, TypeOK, Serving
  <2>3. QED BY <2>1, <2>2
<1>5. TypeOK'
  BY <1>1, <1>2, <1>3, <1>4 DEF Types, TypeOK
<1>6. Serving'
  <2>1. \A o \in Servers : open'[o] > 0 => server'[o] \notin {"off", "starting"}
    BY <1>2, <1>3 DEF Types, Serving
  <2>2. config.MetricsPort = 0 => server'["metrics"] = "off"
    BY <1>1, <1>2 DEF Types, Serving, Servers
  <2>3. QED BY <1>1, <1>4, <2>1, <2>2 DEF Serving
<1>7. QED BY <1>5, <1>6 DEF Types

\* How far one step of the shutdown goes, other than the passing of time.
LEMMA StopPhases ==
  ASSUME Types, Select \/ StopApi \/ StopMetrics
  PROVE  /\ phase \notin Starting \cup {"exited"}
         /\ UNCHANGED <<config, probers, cause, signalled, open, elapsed>>
         /\ err' = err \/ (cause = "none" /\ err' # "failed to set up probers")
         /\ deadline' \in {deadline, "running"}
         /\ errs' \in 0..2 /\ errs' <= errs
         /\ \A s \in Servers : server'[s] = server[s]
              \/ (server[s] \in {"starting", "listening"} /\ server'[s] = "closed")
         /\ server' \in [Servers -> {"off", "starting", "listening", "failed", "closed"}]
         /\ \/ phase' \in {"stop api", "stop metrics"} /\ err' = err /\ lost' = lost
            \/ /\ phase' = "exited" /\ err' # "none" /\ lost' \in 0..(2 * MaxOpen)
               /\ lost' = open["api"] + open["metrics"]
<1>1. phase \notin Starting \cup {"exited"}
  BY DEF Select, StopApi, StopMetrics, Starting
<1>2. /\ UNCHANGED <<config, probers, cause, signalled, open, elapsed>>
      /\ deadline' \in {deadline, "running"}
  BY DEF Select, StopApi, StopMetrics, startVars, serveVars
<1>3. errs' \in 0..2 /\ errs' <= errs
  <2>1. errs \in 0..2
    BY DEF Types, TypeOK
  <2>2. errs' = errs \/ (errs > 0 /\ errs' = errs - 1)
    BY DEF Select, StopApi, StopMetrics, serveVars
  <2>3. QED BY <2>1, <2>2
<1>4. /\ \A s \in Servers : server'[s] = server[s]
           \/ (server[s] \in {"starting", "listening"} /\ server'[s] = "closed")
      /\ server' \in [Servers -> {"off", "starting", "listening", "failed", "closed"}]
  <2>1. server \in [Servers -> {"off", "starting", "listening", "failed", "closed"}]
    BY DEF Types, TypeOK
  <2>2. server' = server \/ Close("api") \/ Close("metrics")
    BY DEF Select, StopApi, StopMetrics, serveVars
  <2>3. ASSUME NEW o \in Servers, Close(o)
        PROVE  server' = [server EXCEPT ![o] =
                            IF server[o] \in {"starting", "listening"} THEN "closed" ELSE server[o]]
    BY <2>3 DEF Close
  <2>4. ASSUME NEW o \in Servers, Close(o)
        PROVE  /\ \A s \in Servers : server'[s] = server[s]
                    \/ (server[s] \in {"starting", "listening"} /\ server'[s] = "closed")
               /\ server' \in [Servers -> {"off", "starting", "listening", "failed", "closed"}]
    <3>1. \A s \in Servers : server'[s] = IF s = o /\ server[s] \in {"starting", "listening"}
                                         THEN "closed" ELSE server[s]
      BY <2>1, <2>3, <2>4
    <3>2. server' = [s \in Servers |-> server'[s]]
      BY <2>1, <2>3, <2>4
    <3>3. \A s \in Servers : server[s] \in {"off", "starting", "listening", "failed", "closed"}
      BY <2>1
    <3>4. \A s \in Servers : server'[s] \in {"off", "starting", "listening", "failed", "closed"}
      BY <3>1, <3>3
    <3>5. QED BY <3>1, <3>2, <3>4
  <2>5. "api" \in Servers /\ "metrics" \in Servers
    BY DEF Servers
  <2>6. QED BY <2>1, <2>2, <2>4, <2>5
<1>5. \/ phase' \in {"stop api", "stop metrics"} /\ err' = err /\ lost' = lost
      \/ \E error : error # "none" /\ Exit(error)
  BY DEF Select, StopApi, StopMetrics, GoOn
<1>5a. err' = err \/ (cause = "none" /\ err' # "failed to set up probers")
  <2>1. cause = "none"
    BY <1>1 DEF Types, TypeOK
  <2>2. err' = err \/ err' # "failed to set up probers"
    BY DEF Select, StopApi, StopMetrics, GoOn, Exit
  <2>3. QED BY <2>1, <2>2
<1>6. QED BY <1>1, <1>2, <1>3, <1>4, <1>5, <1>5a, ExitLoses

LEMMA StopTypes ==
  ASSUME Types, Stop
  PROVE  Types'
<1>1. CASE Expire
  BY <1>1 DEF Expire, Types, TypeOK, Serving, Failed, startVars, serveVars
<1>2. CASE Select \/ StopApi \/ StopMetrics
  <2>1. TypeOK'
    <3>1. /\ phase' = "exited" <=> err' # "none"
          /\ cause' # "none" <=> err' = "failed to set up probers"
      BY <1>2, StopPhases DEF Types, TypeOK
    <3>2. phase' \notin Starting /\ lost' \in 0..(2 * MaxOpen)
      BY <1>2, StopPhases DEF Starting, Types, TypeOK
    <3>3. QED BY <1>2, <3>1, <3>2, StopPhases DEF Types, TypeOK
  <2>2. \A s \in Servers : server'[s] \in {"failed", "off", "starting"} => server'[s] = server[s]
    BY <1>2, StopPhases
  <2>3. \A s \in Servers : server[s] \in {"failed", "off"} => server'[s] = server[s]
    BY <1>2, StopPhases
  <2>4. Failed' = Failed
    BY <2>2, <2>3 DEF Failed, Servers
  <2>5. Serving'
    <3>1. errs' <= Failed'
      <4>1. errs' \in 0..2 /\ errs' <= errs
        BY <1>2, StopPhases
      <4>2. errs \in 0..2 /\ errs <= Failed
        BY DEF Types, TypeOK, Serving
      <4>3. Failed \in Int
        BY DEF Failed
      <4>4. QED BY <2>4, <4>1, <4>2, <4>3
    <3>2. UNCHANGED <<open, config>>
      BY <1>2, StopPhases
    <3>3. \A s \in Servers : open'[s] > 0 => server'[s] \notin {"off", "starting"}
      BY <2>2, <3>2 DEF Types, Serving
    <3>4. config.MetricsPort = 0 => server'["metrics"] = "off"
      BY <2>3 DEF Types, Serving, Servers
    <3>5. QED BY <3>1, <3>2, <3>3, <3>4 DEF Serving
  <2>6. QED BY <2>1, <2>5 DEF Types
<1>3. QED BY <1>1, <1>2 DEF Stop

LEMMA TypesStep ==
  ASSUME Types, [Next]_vars
  PROVE  Types'
<1>1. CASE Signal
  BY <1>1 DEF Signal, Types, TypeOK, Serving, Failed, startVars, serveVars, stopVars
<1>2. CASE UNCHANGED vars
  BY <1>2 DEF vars, Types, TypeOK, Serving, Failed, startVars, serveVars, stopVars
<1>3. QED BY <1>1, <1>2, StartTypes, ServeTypes, StopTypes DEF Next

LEMMA InitTypes == Init => Types
<1> SUFFICES ASSUME Init PROVE Types
  OBVIOUS
<1>1. TypeOK
  <2>1. 0 \in 0..MaxOpen /\ 0 \in 0..(2 * MaxOpen)
    BY MaxOpenAssumption
  <2>2. /\ open \in [Servers -> 0..MaxOpen]
        /\ server \in [Servers -> {"off", "starting", "listening", "failed", "closed"}]
    BY <2>1 DEF Init
  <2>3. /\ config \in Configs /\ phase = "config" /\ err = "none" /\ probers = {}
        /\ cause = "none"
        /\ signalled = FALSE /\ elapsed = FALSE /\ errs = 0 /\ lost = 0 /\ deadline = "none"
        /\ server = [o \in Servers |-> "off"]
    BY DEF Init
  <2>4. /\ phase \in Starting \cup {"select", "stop api", "stop metrics", "exited"}
        /\ phase = "exited" <=> err # "none"
        /\ phase \in Starting => server = [o \in Servers |-> "off"] /\ errs = 0
    BY <2>3 DEF Starting
  <2>5. errs \in 0..2 /\ lost \in 0..(2 * MaxOpen)
    BY <2>1, <2>3
  <2>6. QED BY <2>2, <2>3, <2>4, <2>5 DEF TypeOK
<1>2. Failed = 0
  BY DEF Init, Failed, Servers
<1>3. Serving
  BY <1>2 DEF Init, Serving, Servers
<1>4. QED BY <1>1, <1>3 DEF Types

\* For any configurations and any number of requests, the types are right, no server
\* runs before the last part is set up, and the channel of errors never holds more
\* than it has room for (main.go run).
THEOREM ProcessTypeCorrect == SafetySpec => []TypeOK
<1>1. Types => TypeOK
  BY DEF Types
<1>2. QED BY <1>1, InitTypes, TypesStep, PTL DEF SafetySpec

-----------------------------------------------------------------------------
\* The API server is started by Listen alone, and nothing turns it off.
LEMMA ServersStart ==
  ASSUME Types, [Next]_vars, ~Listen, server'["api"] # "off"
  PROVE  server["api"] # "off"
<1>1. CASE Start
  BY <1>1, StartPhases
<1>2. ASSUME NEW s \in Servers, Serve(s) PROVE server["api"] # "off"
  BY <1>2 DEF Serve, Bind, Fail, Accept, Answer, Types, TypeOK, Servers
<1>3. CASE Select \/ StopApi \/ StopMetrics
  BY <1>3, StopPhases DEF Servers
<1>4. CASE Signal \/ Expire \/ UNCHANGED vars
  BY <1>4 DEF Signal, Expire, vars, serveVars
<1>5. QED BY <1>1, <1>2, <1>3, <1>4 DEF Next, Stop

\* The configuration is fixed, the process past its reading only if it may be accepted,
\* and past the set-up of the probers only with all of them.
LEMMA AcceptedStep ==
  ASSUME Types, Accepted, [Next]_vars
  PROVE  Accepted'
<1>1. config' = config
  BY DEF Next, Start, ParseConfig, GetClient, SetupProbers, SetupIgnition, Watch, Listen, Serve,
         Bind, Fail, Accept, Answer, Signal, Stop, Select, Expire, StopApi, StopMetrics,
         startVars, vars
<1>2. Probers(config)' = Probers(config) /\ validate(config)' = validate(config)
  BY <1>1 DEF Probers, validate, CheckValid, MetadataValid
<1>3. CASE ParseConfig
  <2>1. server'["api"] = "off"
    BY <1>3, NothingServed DEF ParseConfig, Starting, serveVars, Servers
  <2>2. QED BY <1>2, <1>3, <2>1 DEF ParseConfig, Accepted, GoOn, Exit
<1>4. CASE SetupProbers
  <2>1. server'["api"] = "off"
    BY <1>4, NothingServed DEF SetupProbers, Starting, serveVars, Servers
  <2>2. QED BY <1>2, <1>4, <2>1 DEF SetupProbers, Accepted, GoOn, Exit
<1>5. CASE Listen
  BY <1>2, <1>5 DEF Listen, Accepted, GoOn, startVars
<1>6. CASE ~ParseConfig /\ ~SetupProbers /\ ~Listen
  <2>1. server'["api"] # "off" => server["api"] # "off"
    BY <1>6, ServersStart
  <2>2. /\ phase' \notin {"config", "exited"} => phase \notin {"config", "exited"}
        /\ phase' \notin {"config", "client", "probers", "exited"} =>
             phase \notin {"config", "client", "probers", "exited"}
        /\ probers' = probers
    BY <1>6 DEF Next, Start, GetClient, SetupIgnition, Watch, Serve, Bind, Fail, Accept, Answer,
                Signal, Stop, Select, Expire, StopApi, StopMetrics, Alive, GoOn, Exit, startVars, vars
  <2>3. QED BY <1>2, <2>1, <2>2 DEF Accepted
<1>7. QED BY <1>3, <1>4, <1>5, <1>6

\* No step ends in an error of an entry, if the configuration was accepted.
LEMMA SetUpStep ==
  ASSUME Accepted, [Next]_vars,
         cause # "failed to create prober", err # "failed to set up ignition provider"
  PROVE  cause' # "failed to create prober" /\ err' # "failed to set up ignition provider"
<1>1. CASE SetupProbers
  <2>1. ProbersBuildable(config)
    BY <1>1, AcceptedBuildable DEF SetupProbers, Accepted
  <2>2. "failed to create prober" \notin setupProbers(config)
    BY <2>1 DEF setupProbers, NewPrometheus
  <2>3. QED BY <1>1, <2>2 DEF SetupProbers, GoOn, Exit
<1>2. CASE SetupIgnition
  <2>1. NewProviderOK(IgnitionType(config.Ignition))
    BY <1>2, AcceptedBuildable DEF SetupIgnition, Accepted
  <2>2. GoOn("watch")
    BY <1>2, <2>1 DEF SetupIgnition
  <2>3. QED BY <1>2, <2>2 DEF SetupIgnition, GoOn, startVars
<1>3. CASE ~SetupProbers /\ ~SetupIgnition
  BY <1>3 DEF Next, Start, ParseConfig, GetClient, Watch, Listen, Serve, Bind, Fail, Accept,
              Answer, Signal, Stop, Select, Expire, StopApi, StopMetrics, GoOn, Exit, startVars, vars
<1>4. QED BY <1>1, <1>2, <1>3

\* A single query that was accepted executes for the environment it was tried with.
LEMMA AcceptedExecutes ==
  ASSUME NEW f, "ok" \in validate(f), NEW entries \in {f.StatusChecks, f.Metadata},
         NEW k \in DOMAIN entries, entries[k].Kind = "single"
  PROVE  ExecutesAsText(entries[k].Query, Fields)
<1>1. Validate(Named(k, entries[k]))
  BY AcceptedParts DEF CheckValid, MetadataValid
<1>2. Named(k, entries[k]).Kind = entries[k].Kind /\ Named(k, entries[k]).Query = entries[k].Query
  BY DEF Named
<1>3. QED BY <1>1, <1>2 DEF Validate, validateSingle, ExecutesAsHTML, ExecutesAsText

\* For any configurations: an entry that was accepted fails neither the set-up of the
\* probers nor that of the ignition provider, once servers are started there are the
\* probers of all entries, if there is an address at all, and the single queries among
\* them execute for the environment they were tried with; client settings and addresses
\* are any, and may still be refused (config.go, probers.go, ignition.go, prometheus.go).
THEOREM AcceptedEntriesAreServed == SafetySpec => []AcceptedIsServed
<1> DEFINE Unrefused == cause # "failed to create prober" /\ err # "failed to set up ignition provider"
           I == Types /\ Accepted /\ Unrefused
<1>1. Init => I
  BY InitTypes DEF Init, Accepted, Servers
<1>2. I /\ [Next]_vars => I'
  BY TypesStep, AcceptedStep, SetUpStep
<1>3. I => AcceptedIsServed
  <2> SUFFICES ASSUME I PROVE AcceptedIsServed
    OBVIOUS
  <2>1. ASSUME server["api"] # "off"
        PROVE  /\ probers = Probers(config)
               /\ \A entries \in {config.StatusChecks, config.Metadata} : \A k \in DOMAIN entries :
                    entries[k].Kind = "single" => ExecutesAsText(entries[k].Query, Fields)
    BY <2>1, AcceptedExecutes DEF Accepted
  <2>2. QED BY <2>1 DEF AcceptedIsServed
<1>4. QED BY <1>1, <1>2, <1>3, PTL DEF SafetySpec

-----------------------------------------------------------------------------
\* The shutdown keeps to its order.
LEMMA StoppingStep ==
  ASSUME Types, Stopping, [Next]_vars
  PROVE  Stopping'
<1>1. ASSUME Start PROVE Stopping'
  <2>1. phase' \in Starting \cup {"select", "exited"} /\ (phase' # "exited" => lost' = lost)
    BY <1>1, StartPhases DEF Listen, GoOn
  <2>2. phase \in Starting /\ UNCHANGED <<deadline, elapsed>>
    BY <1>1, StartPhases
  <2>3. QED BY <2>1, <2>2 DEF Stopping, Starting
<1>2. ASSUME NEW s \in Servers, Serve(s) PROVE Stopping'
  <2>1. UNCHANGED <<phase, signalled, deadline, elapsed, lost>>
    BY <1>2, ServePhases DEF stopVars
  <2>2. \A o \in Servers : Down(o) => server'[o] = server[o]
    BY <1>2 DEF Serve, Bind, Fail, Accept, Answer, Down, Types, TypeOK
  <2>3. \A o \in Servers : Down(o) /\ open[o] = 0 => open'[o] = 0
    <3>1. open \in [Servers -> 0..MaxOpen]
      BY DEF Types, TypeOK
    <3>2. \A o \in Servers : open'[o] # open[o] => open[o] > 0 \/ server[o] = "listening"
      BY <1>2, <3>1 DEF Serve, Bind, Fail, Accept, Answer
    <3>3. QED BY <3>2 DEF Down
  <2>4. QED BY <2>1, <2>2, <2>3 DEF Stopping, Down, Servers
<1>3. CASE Signal
  BY <1>3 DEF Signal, Stopping, Down, serveVars, stopVars
<1>4. CASE Expire
  BY <1>4 DEF Expire, Stopping, Down, serveVars
<1>5. ASSUME Select PROVE Stopping'
  <2>1. /\ phase' = "exited" \/ (phase' = "stop api" /\ lost' = lost /\ signalled /\ Close("api"))
        /\ deadline' = deadline \/ deadline' = "running"
        /\ UNCHANGED <<signalled, elapsed>> /\ phase # "exited"
    BY <1>5 DEF Select, GoOn, Exit
  <2>2. Close("api") => server'["api"] \notin {"starting", "listening"}
    BY DEF Close, Types, TypeOK, Servers
  <2>3. QED BY <2>1, <2>2 DEF Stopping, Down
<1>6. ASSUME StopApi PROVE Stopping'
  <2>1. /\ \/ phase' = "exited"
           \/ phase' = "stop metrics" /\ lost' = lost /\ open["api"] = 0 /\ Close("metrics")
        /\ UNCHANGED <<signalled, deadline, elapsed, open>> /\ phase = "stop api"
    BY <1>6 DEF StopApi, GoOn, Exit
  <2>2. Close("metrics") => /\ server'["metrics"] \notin {"starting", "listening"}
                            /\ server'["api"] = server["api"]
    BY DEF Close, Types, TypeOK, Servers
  <2>3. QED BY <2>1, <2>2 DEF Stopping, Down
<1>7. CASE StopMetrics
  BY <1>7 DEF StopMetrics, Exit, Stopping
<1>8. CASE UNCHANGED vars
  BY <1>8 DEF vars, Stopping, Down, serveVars, stopVars
<1>9. QED BY <1>1, <1>2, <1>3, <1>4, <1>5, <1>6, <1>7, <1>8 DEF Next, Stop

\* Success comes at the end of a shutdown only, when nothing is open.
LEMMA SuccessStep ==
  ASSUME Types, Stopping, SuccessIsClean, [Next]_vars
  PROVE  SuccessIsClean'
<1>1. CASE err' = err
  <2>1. CASE err = "nil"
    <3>1. phase = "exited"
      BY <2>1 DEF Types, TypeOK
    <3>2. UNCHANGED <<signalled, lost, server>>
      BY <3>1, StartPhases, ServePhases
         DEF Next, Stop, Select, StopApi, StopMetrics, Signal, Expire, Alive, Starting, vars, serveVars,
             stopVars
    <3>3. QED BY <1>1, <3>2 DEF SuccessIsClean
  <2>2. CASE err # "nil"
    BY <1>1, <2>2 DEF SuccessIsClean
  <2>3. QED BY <2>1, <2>2
<1>2. ASSUME err' # err, err' = "nil" PROVE SuccessIsClean'
  <2>1. (StopApi /\ open["api"] = 0 /\ config.MetricsPort = 0 /\ UNCHANGED server)
          \/ (StopMetrics /\ open["metrics"] = 0)
    <3>1. ~Start
      BY <1>2, StartPhases DEF Listen, GoOn
    <3>2. \A s \in Servers : ~Serve(s)
      BY <1>2, ServePhases
    <3>3. QED BY <1>2, <3>1, <3>2 DEF Next, Stop, Select, Expire, StopApi, StopMetrics, Signal, GoOn,
                                      Exit, vars, stopVars
  <2>2. open["api"] = 0 /\ open["metrics"] = 0
    <3>1. CASE StopMetrics /\ open["metrics"] = 0
      BY <3>1 DEF StopMetrics, Stopping
    <3>2. CASE open["api"] = 0 /\ config.MetricsPort = 0
      <4>1. ~(open["metrics"] > 0)
        BY <3>2 DEF Types, Serving, Servers
      <4>2. QED BY <3>2, <4>1, OpenTypes, MaxOpenAssumption
    <3>3. QED BY <2>1, <3>1, <3>2
  <2>3. lost' = 0
    <3>1. lost' = open["api"] + open["metrics"]
      BY <1>2, <2>1 DEF StopApi, StopMetrics, GoOn, Exit
    <3>2. QED BY <2>2, <3>1
  <2>4. signalled' /\ \A s \in Servers : server'[s] \notin {"starting", "listening"}
    <3>1. CASE StopMetrics
      BY <3>1 DEF StopMetrics, Stopping, Down, Servers, serveVars
    <3>2. CASE StopApi /\ config.MetricsPort = 0 /\ UNCHANGED server
      BY <3>2 DEF StopApi, Stopping, Types, Serving, Down, Servers
    <3>3. QED BY <2>1, <3>1, <3>2
  <2>5. QED BY <2>3, <2>4 DEF SuccessIsClean
<1>3. QED BY <1>1, <1>2 DEF SuccessIsClean

\* Requests are cut off only past the deadline or after a failure.
LEMMA CutStep ==
  ASSUME Types, Stopping, NothingCutEarly, [Next]_vars
  PROVE  NothingCutEarly'
<1>1. CASE lost' = lost
  <2>1. elapsed => elapsed'
    BY StartPhases, ServePhases
       DEF Next, Stop, Select, StopApi, StopMetrics, Signal, Expire, vars, stopVars
  <2>2. err = "server failed" => err' = err
    <3>1. err = "server failed" => phase = "exited"
      BY DEF Types, TypeOK
    <3>2. phase = "exited" => err' = err
      BY StartPhases, ServePhases
         DEF Next, Stop, Select, StopApi, StopMetrics, Signal, Expire, Alive, Starting, vars
    <3>3. QED BY <3>1, <3>2
  <2>3. QED BY <1>1, <2>1, <2>2 DEF NothingCutEarly
<1>2. ASSUME lost' # lost PROVE NothingCutEarly'
  <2>1. CASE Start
    <3>1. lost' = 0
      BY <1>2, <2>1, StartPhases DEF Listen, GoOn
    <3>2. ~(lost' > 0)
      BY <3>1
    <3>3. QED BY <3>2, Zenon DEF NothingCutEarly
  <2>2. CASE Select
    BY <1>2, <2>2 DEF Select, GoOn, Exit, NothingCutEarly
  <2>3. CASE StopApi \/ StopMetrics
    <3>1. CASE deadline = "expired"
      <4>1. elapsed
        BY <3>1 DEF Stopping
      <4>2. elapsed' = elapsed
        BY <2>3 DEF StopApi, StopMetrics
      <4>3. elapsed'
        BY <4>1, <4>2
      <4>4. QED BY <4>3, Zenon DEF NothingCutEarly
    <3>2. CASE deadline # "expired"
      <4>1. err' = "nil"
        BY <1>2, <2>3, <3>2 DEF StopApi, StopMetrics, GoOn, Exit
      <4>2. SuccessIsClean'
        <5>1. err # "nil"
          BY <2>3 DEF StopApi, StopMetrics, Types, TypeOK
        <5>2. SuccessIsClean
          BY <5>1 DEF SuccessIsClean
        <5>3. QED BY <5>2, SuccessStep
      <4>3. lost' = 0
        BY <4>1, <4>2 DEF SuccessIsClean
      <4>4. ~(lost' > 0)
        BY <4>3
      <4>5. QED BY <4>4, Zenon DEF NothingCutEarly
    <3>3. QED BY <3>1, <3>2
  <2>4. Start \/ Select \/ StopApi \/ StopMetrics
    BY <1>2, ServePhases DEF Next, Stop, Signal, Expire, vars, stopVars
  <2>5. QED BY <2>1, <2>2, <2>3, <2>4
<1>3. QED BY <1>1, <1>2

\* The inductive invariant of the shutdown.
THEOREM ShutdownInvariance == SafetySpec => [](Types /\ Stopping /\ SuccessIsClean /\ NothingCutEarly)
<1> DEFINE I == Types /\ Stopping /\ SuccessIsClean /\ NothingCutEarly
<1>1. Init => I
  BY InitTypes DEF Init, Stopping, SuccessIsClean, NothingCutEarly
<1>2. I /\ [Next]_vars => I'
  BY TypesStep, StoppingStep, SuccessStep, CutStep
<1>3. QED BY <1>1, <1>2, PTL DEF SafetySpec

\* Whatever fails or is slow, and however many requests are open: the process reports
\* success only after a signal, with both servers down and every request answered
\* (main.go run).
THEOREM SuccessMeansClean == SafetySpec => []SuccessIsClean
BY ShutdownInvariance, PTL

\* Requests are cut off only by a server's failure or after the ten seconds of the
\* shutdown (main.go run).
THEOREM RequestsKeepTheirTime == SafetySpec => []NothingCutEarly
BY ShutdownInvariance, PTL
=============================================================================
