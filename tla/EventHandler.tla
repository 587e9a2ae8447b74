---------------------------- MODULE EventHandler ----------------------------
(***************************************************************************)
(* The handler of namespace events (cmd/autodiscovery/events.go): how a    *)
(* Kubernetes namespace becomes an environment, and the store operation    *)
(* each kind of event leads to.                                            *)
(*                                                                         *)
(* A namespace object is [Name, Label, CreatedAt, Annotations]: its name,  *)
(* the value of the label envs.sberz.de/name, its creation timestamp, and  *)
(* its annotations, a function from keys <<prefix, name>> to values.       *)
(***************************************************************************)
EXTENDS EnvironmentStore

CONSTANTS
  StatusProbers,    \* the status checks configured with a Prometheus query
  MetadataProbers,  \* the metadata keys configured with a Prometheus query
  TrueValues,       \* the annotation values "true" and "1"
  JSONScalars       \* function: annotation value |-> the JSON bool, number
                    \* or string it parses to, for the values that do

AnnotationEnvURLPrefix         == "url"
AnnotationEnvStatusCheckPrefix == "status"
AnnotationEnvMetadataPrefix    == "metadata"

\* The names annotated under a prefix.
Annotated(ns, prefix) ==
  {k[2] : k \in {key \in DOMAIN ns.Annotations : key[1] = prefix}}

StaticProbe(value) == [kind |-> "static", value |-> value]

\* prober.AddEnvironment: a new probe, with an empty cache of its own.
PrometheusProbe(check, envName, namespace) ==
  [kind |-> "prometheus", check |-> check, name |-> envName, namespace |-> namespace]

buildURLMap(ns) ==
  [u \in Annotated(ns, AnnotationEnvURLPrefix) |->
     ns.Annotations[<<AnnotationEnvURLPrefix, u>>]]

\* An annotation overrides the configured prober of the same name.
buildStatusChecks(envName, ns) ==
  LET static == Annotated(ns, AnnotationEnvStatusCheckPrefix)
  IN  [c \in static \cup StatusProbers |->
         IF c \in static
         THEN StaticProbe(ns.Annotations[<<AnnotationEnvStatusCheckPrefix, c>>] \in TrueValues)
         ELSE PrometheusProbe(c, envName, ns.Name)]

\* A value that is not a JSON scalar stays the string it is.
parseMetadataAnnotation(value) ==
  StaticProbe(IF value \in DOMAIN JSONScalars THEN JSONScalars[value] ELSE value)

buildMetadataProbes(envName, ns) ==
  LET static == Annotated(ns, AnnotationEnvMetadataPrefix)
  IN  [m \in static \cup MetadataProbers |->
         IF m \in static
         THEN parseMetadataAnnotation(ns.Annotations[<<AnnotationEnvMetadataPrefix, m>>])
         ELSE PrometheusProbe(m, envName, ns.Name)]

\* The environment a namespace describes.
EnvironmentOf(ns) ==
  [Name         |-> ns.Label,
   CreatedAt    |-> ns.CreatedAt,
   Namespace    |-> ns.Name,
   URL          |-> buildURLMap(ns),
   StatusChecks |-> buildStatusChecks(ns.Label, ns),
   MetaProbes   |-> buildMetadataProbes(ns.Label, ns)]

(***************************************************************************)
(* The handlers: the outcome of each on the store s.                       *)
(***************************************************************************)
HandleNamespaceAdd(s, ns) == AddEnvironment(s, EnvironmentOf(ns))

HandleNamespaceUpdate(s, oldNs, newNs) ==
  UpdateEnvironment(s, oldNs.Label, EnvironmentOf(newNs))

HandleNamespaceDelete(s, ns) == DeleteEnvironment(s, ns.Label)
=============================================================================
