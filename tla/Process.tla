------------------------------ MODULE Process -------------------------------
(***************************************************************************)
(* The life of the process (main.go, run): it reads its configuration,     *)
(* sets up its parts one after the other, serves, and stops on a signal or *)
(* when a server fails.  A signal may come at any moment; a server may     *)
(* fail at any moment, also because both ports are the same; requests may  *)
(* be open, for ever, when the process stops.                              *)
(***************************************************************************)
EXTENDS Configuration, FiniteSets

CONSTANTS
  Configs,  \* the configurations, flags included
  MaxOpen   \* bound: requests open at a server at the same time

ASSUME MaxOpenAssumption == MaxOpen \in Nat

Servers == {"api", "metrics"}

VARIABLES
  config,    \* the flags and the configuration file
  phase,     \* what run does
  err,       \* what run returns, or what the process ends with
  probers,   \* what it has probers for: status checks and metadata, by their keys
  cause,     \* why no probers could be set up, or "none"
  signalled, \* a signal has come: the context is cancelled
  server,    \* by server: its state
  errs,      \* errors in the channel serverErrs
  open,      \* by server: requests that are being served
  deadline,  \* the context of the shutdown: "none", "running" or "expired"
  elapsed,   \* history: ten seconds have passed since the shutdown began
  lost       \* history: requests that were open when the process ended

startVars == <<config, probers, cause>>
serveVars == <<server, errs, open>>
stopVars  == <<deadline, elapsed, lost>>
vars == <<startVars, phase, err, signalled, serveVars, stopVars>>

\* run returns, main exits, and with it everything that was going on.
Exit(error) ==
  /\ phase' = "exited"
  /\ err' = error
  /\ lost' = open["api"] + open["metrics"]

GoOn(next) == phase' = next /\ UNCHANGED <<err, lost>>

-----------------------------------------------------------------------------
(***************************************************************************)
(* Start-up                                                                *)
(***************************************************************************)
ParseConfig ==
  /\ phase = "config"
  /\ \E outcome \in validate(config) :
       IF outcome = "ok" THEN GoOn("client")
       ELSE Exit(IF outcome = "panic" THEN "panic" ELSE "can not load config")
  /\ UNCHANGED <<startVars, signalled, serveVars, deadline, elapsed>>

GetClient ==
  /\ phase = "client"
  /\ GoOn("probers") \/ Exit("failed to get Kubernetes client")
  /\ UNCHANGED <<startVars, signalled, serveVars, deadline, elapsed>>

\* NewPrometheus makes a client of the settings and the address, neither of which
\* was looked at when the configuration was read, and asks Prometheus for its build
\* info, which may fail, and does when the context is cancelled.
NewPrometheus(f) ==
  IF f.Client \notin UsableClients THEN {"failed to create HTTP client"}
  ELSE IF f.Address \notin ParsableAddresses THEN {"invalid client"}
  ELSE {"connection failed"} \cup (IF signalled THEN {} ELSE {"ok"})

\* The outcomes of setupProbers: without an address there is nothing to set up.
setupProbers(f) ==
  IF f.Address = Empty THEN {"ok"}
  ELSE {IF o = "ok" /\ ~ProbersBuildable(f) THEN "failed to create prober" ELSE o :
          o \in NewPrometheus(f)}

\* The probers it makes, in one map for status checks and one for metadata.
Probers(f) ==
  IF f.Address = Empty THEN {}
  ELSE ({"status"} \X DOMAIN f.StatusChecks) \cup ({"metadata"} \X DOMAIN f.Metadata)

\* Every error of it ends the process as one of the probers; cause says which.
SetupProbers ==
  /\ phase = "probers"
  /\ \E outcome \in setupProbers(config) :
       IF outcome = "ok"
       THEN GoOn("ignition") /\ probers' = Probers(config) /\ UNCHANGED cause
       ELSE Exit("failed to set up probers") /\ cause' = outcome /\ UNCHANGED probers
  /\ UNCHANGED <<config, signalled, serveVars, deadline, elapsed>>

SetupIgnition ==
  /\ phase = "ignition"
  /\ IF NewProviderOK(IgnitionType(config.Ignition)) THEN GoOn("watch")
     ELSE Exit("failed to set up ignition provider")
  /\ UNCHANGED <<startVars, signalled, serveVars, deadline, elapsed>>

\* WatchNamespaceEvents waits for the cache, or until the context is cancelled.
Watch ==
  /\ phase = "watch"
  /\ \/ GoOn("listen")
     \/ signalled /\ Exit("failed to watch namespace events")
  /\ UNCHANGED <<startVars, signalled, serveVars, deadline, elapsed>>

Listen ==
  /\ phase = "listen"
  /\ server' = [s \in Servers |->
                  IF s = "metrics" /\ config.MetricsPort = 0 THEN "off" ELSE "starting"]
  /\ GoOn("select")
  /\ UNCHANGED <<startVars, signalled, errs, open, deadline, elapsed>>

-----------------------------------------------------------------------------
(***************************************************************************)
(* The servers, each in a goroutine, and their requests                    *)
(***************************************************************************)
Alive == phase # "exited"

Bind(s) ==
  /\ Alive
  /\ server[s] = "starting"
  /\ config.Port = config.MetricsPort => \A o \in Servers : server[o] # "listening"
  /\ server' = [server EXCEPT ![s] = "listening"]
  /\ UNCHANGED <<startVars, phase, err, signalled, errs, open, stopVars>>

\* Mutant: an error of a server is not reported.
FailUnreported(s) ==
  /\ Alive
  /\ server[s] \in {"starting", "listening"}
  /\ server' = [server EXCEPT ![s] = "failed"]
  /\ UNCHANGED <<startVars, phase, err, signalled, errs, open, stopVars>>

\* Mutant: ListenAndServe is tried again.
FailRepeatedly(s) ==
  /\ Alive
  /\ server[s] \in {"starting", "listening"}
  /\ errs < 3
  /\ errs' = errs + 1
  /\ UNCHANGED <<startVars, phase, err, signalled, server, open, stopVars>>

\* ListenAndServe returns an error, which the channel always has room for.
Fail(s) ==
  /\ Alive
  /\ server[s] \in {"starting", "listening"}
  /\ server' = [server EXCEPT ![s] = "failed"]
  /\ errs' = errs + 1
  /\ UNCHANGED <<startVars, phase, err, signalled, open, stopVars>>

Accept(s) ==
  /\ Alive
  /\ server[s] = "listening"
  /\ open[s] < MaxOpen
  /\ open' = [open EXCEPT ![s] = @ + 1]
  /\ UNCHANGED <<startVars, phase, err, signalled, server, errs, stopVars>>

Answer(s) ==
  /\ Alive
  /\ open[s] > 0
  /\ open' = [open EXCEPT ![s] = @ - 1]
  /\ UNCHANGED <<startVars, phase, err, signalled, server, errs, stopVars>>

Signal ==
  /\ Alive
  /\ ~signalled
  /\ signalled' = TRUE
  /\ UNCHANGED <<startVars, phase, err, serveVars, stopVars>>

-----------------------------------------------------------------------------
(***************************************************************************)
(* The end                                                                 *)
(***************************************************************************)
\* Shutdown begins: the server takes no more requests.
Close(s) ==
  server' = [server EXCEPT ![s] = IF @ \in {"starting", "listening"} THEN "closed" ELSE @]

\* Mutant: the context of the shutdown is made from the one that is cancelled.
SelectCancelled ==
  /\ phase = "select"
  /\ \/ /\ signalled
        /\ Close("api")
        /\ deadline' = "expired"
        /\ GoOn("stop api")
        /\ UNCHANGED errs
     \/ /\ errs > 0
        /\ errs' = errs - 1
        /\ Exit("server failed")
        /\ UNCHANGED <<server, deadline>>
  /\ UNCHANGED <<startVars, signalled, open, elapsed>>

\* Whichever is ready, and any of them if both are.
Select ==
  /\ phase = "select"
  /\ \/ /\ signalled
        /\ Close("api")
        /\ deadline' = "running"
        /\ GoOn("stop api")
        /\ UNCHANGED errs
     \/ /\ errs > 0
        /\ errs' = errs - 1
        /\ Exit("server failed")
        /\ UNCHANGED <<server, deadline>>
  /\ UNCHANGED <<startVars, signalled, open, elapsed>>

\* Mutant: nothing limits how long the shutdown takes.
ExpireNever == FALSE /\ UNCHANGED vars

Expire ==
  /\ deadline = "running"
  /\ Alive
  /\ deadline' = "expired"
  /\ elapsed' = TRUE
  /\ UNCHANGED <<startVars, phase, err, signalled, serveVars, lost>>

\* Mutant: the process ends without a word about the metrics server.
StopApiOnly ==
  /\ phase = "stop api"
  /\ \/ open["api"] = 0 /\ Exit("nil")
     \/ deadline = "expired" /\ open["api"] > 0 /\ Exit("failed to shut down server gracefully")
  /\ UNCHANGED <<startVars, signalled, serveVars, deadline, elapsed>>

\* Shutdown of the API server returns, and that of the metrics server begins.
StopApi ==
  /\ phase = "stop api"
  /\ \/ /\ open["api"] = 0
        /\ IF config.MetricsPort = 0 THEN Exit("nil") /\ UNCHANGED server
           ELSE GoOn("stop metrics") /\ Close("metrics")
     \/ /\ deadline = "expired"
        /\ open["api"] > 0
        /\ Exit("failed to shut down server gracefully")
        /\ UNCHANGED server
  /\ UNCHANGED <<startVars, signalled, errs, open, deadline, elapsed>>

StopMetrics ==
  /\ phase = "stop metrics"
  /\ \/ open["metrics"] = 0 /\ Exit("nil")
     \/ /\ deadline = "expired"
        /\ open["metrics"] > 0
        /\ Exit("failed to shut down metrics server gracefully")
  /\ UNCHANGED <<startVars, signalled, serveVars, deadline, elapsed>>

-----------------------------------------------------------------------------
Init ==
  /\ config \in Configs
  /\ phase = "config"
  /\ err = "none"
  /\ probers = {}
  /\ cause = "none"
  /\ signalled = FALSE
  /\ server = [s \in Servers |-> "off"]
  /\ errs = 0
  /\ open = [s \in Servers |-> 0]
  /\ deadline = "none"
  /\ elapsed = FALSE
  /\ lost = 0

Start == ParseConfig \/ GetClient \/ SetupProbers \/ SetupIgnition \/ Watch \/ Listen

Serve(s) == Bind(s) \/ Fail(s) \/ Accept(s) \/ Answer(s)

Stop == Select \/ Expire \/ StopApi \/ StopMetrics

Next == Start \/ (\E s \in Servers : Serve(s)) \/ Signal \/ Stop

SafetySpec == Init /\ [][Next]_vars

\* The steps that only the process itself has to take, the calls that end because
\* the context is cancelled, and the clock.  Kubernetes and Prometheus need not
\* answer, and requests need not end.
Fairness ==
  /\ WF_vars(ParseConfig) /\ WF_vars(GetClient) /\ WF_vars(SetupIgnition) /\ WF_vars(Listen)
  /\ WF_vars(signalled /\ (SetupProbers \/ Watch))
  /\ WF_vars(Select) /\ WF_vars(StopApi) /\ WF_vars(StopMetrics) /\ WF_vars(Expire)

Spec == SafetySpec /\ Fairness

-----------------------------------------------------------------------------
(***************************************************************************)
(* Properties                                                              *)
(***************************************************************************)
Starting == {"config", "client", "probers", "ignition", "watch", "listen"}

\* The types, and what there is in each phase: no server before the last part is
\* set up, and no more errors than the channel has room for.
TypeOK ==
  /\ config \in Configs
  /\ phase \in Starting \cup {"select", "stop api", "stop metrics", "exited"}
  /\ phase = "exited" <=> err # "none"
  /\ probers \in {{}, Probers(config)}
  /\ cause # "none" <=> err = "failed to set up probers"
  /\ signalled \in BOOLEAN
  /\ server \in [Servers -> {"off", "starting", "listening", "failed", "closed"}]
  /\ phase \in Starting => server = [s \in Servers |-> "off"] /\ errs = 0
  /\ errs \in 0..2
  /\ open \in [Servers -> 0..MaxOpen]
  /\ deadline \in {"none", "running", "expired"}
  /\ elapsed \in BOOLEAN
  /\ lost \in 0..(2 * MaxOpen)

\* The process reports success only for a shutdown that was asked for and that
\* left no request unanswered (main.go run).
SuccessIsClean ==
  err = "nil" => signalled /\ lost = 0 /\ \A s \in Servers : server[s] \notin {"starting", "listening"}

\* An open request is cut off only when it had its ten seconds, or when a server
\* failed; a signal alone never does (main.go run, context.WithoutCancel).
NothingCutEarly == lost > 0 => elapsed \/ err = "server failed"

\* What was accepted entry by entry is what the service serves: no constructor of a
\* prober and no provider is refused later, once servers are started there is a
\* prober for every entry (for none without an address), and each single query, tried
\* as HTML, executes as the text it is for that environment.  The client settings and
\* the address are not looked at before they are used, so these, Prometheus, Kubernetes
\* and a port may still stop the start (config.go validate, probers.go, ignition.go,
\* prometheus.go, single.go).
AcceptedIsServed ==
  /\ cause # "failed to create prober"
  /\ err # "failed to set up ignition provider"
  /\ server["api"] # "off" =>
       /\ probers = Probers(config)
       /\ \A entries \in {config.StatusChecks, config.Metadata} : \A k \in DOMAIN entries :
            entries[k].Kind = "single" => ExecutesAsText(entries[k].Query, Fields)

\* A signal ends the process, in whichever phase it comes and although requests
\* may never end and Kubernetes and Prometheus never answer (main.go run).
SignalEnds == signalled ~> phase = "exited"

\* The failure of a server ends the process, also when the shutdown has begun and
\* nobody reads the channel any more (main.go run).
FailureEnds == \A s \in Servers : server[s] = "failed" ~> phase = "exited"

-----------------------------------------------------------------------------
(***************************************************************************)
(* What the source says and the code does not keep.                        *)
(***************************************************************************)
\* examples/config.yaml: queries "are templated with Go text/template".
TextTemplatesAccepted ==
  err = "can not load config" =>
    \E k \in DOMAIN config.StatusChecks :
      ~CheckValid(k, [config.StatusChecks[k] EXCEPT !.Query.opensTag = FALSE])
=============================================================================
