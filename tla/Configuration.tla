--------------------------- MODULE Configuration ----------------------------
(***************************************************************************)
(* The service configuration: what is accepted when it is read             *)
(* (config.go and the Validate methods), and what is required of it when   *)
(* the service is set up (probers.go, ignition.go and the constructors).   *)
(*                                                                         *)
(* A query is Empty or a template, abstracted to what its two engines tell *)
(* apart: whether it parses, whether it opens an HTML tag that it does not *)
(* close (as "<bool" does), and the fields it uses for the environment     *)
(* named test, the one that it is tried with.                              *)
(***************************************************************************)
EXTENDS Integers

CONSTANTS
  Empty,            \* the empty string
  Nil,              \* an entry of a YAML mapping without a value
  LegalKeys,        \* the keys that match nameRegex
  UsableClients,    \* the client settings that an HTTP client can be made of
  ParsableAddresses \* the addresses that are URLs

Fields == {"name", "namespace"}

\* Template.Parse and Template.Execute of html/template with missingkey=error,
\* where data is the set of fields there are: unlike text/template, it requires
\* that the text ends outside of any tag.
ExecutesAsHTML(template, data) ==
  template.parses /\ template.fields \subseteq data /\ ~template.opensTag

(***************************************************************************)
(* internal/prometheus/query.go                                            *)
(***************************************************************************)
\* Template.Execute of text/template, with the environment that is tried.
ExecutesAsText(template, data) == template.parses /\ template.fields \subseteq data

validateSingle(c) == ExecutesAsHTML(c.Query, Fields)

validateBulk(c) ==
  /\ c.MatchOn \in {"name", "namespace"}
  /\ c.MatchLabel # Empty
  /\ ExecutesAsHTML(c.Query, {})

Validate(c) ==
  /\ c.Name # Empty
  /\ c.Query # Empty
  /\ c.Interval > 0
  /\ c.Timeout > 0
  /\ c.Timeout < c.Interval
  /\ \/ c.Kind = "single" /\ validateSingle(c)
     \/ c.Kind = "bulk"   /\ validateBulk(c)

(***************************************************************************)
(* internal/probe/metadata.go, internal/ignition/config.go                 *)
(***************************************************************************)
MetadataTypes == {"string", "bool", "number", "timestamp"}

ValidType(type) == type \in MetadataTypes

IgnitionIsZero(i) == i = Nil \/ (i.Type = Empty /\ ~i.Prometheus)

IgnitionValid(i) == IgnitionIsZero(i) \/ i.Type = "prometheus"

(***************************************************************************)
(* cmd/autodiscovery/config.go                                             *)
(***************************************************************************)
\* An entry is refused for its key first; the name is written into an entry
\* before it is looked at, and there may be none.
Judge(key, entry, valid) ==
  IF key \notin LegalKeys THEN "error"
  ELSE IF entry = Nil THEN "panic"
  ELSE IF valid THEN "ok" ELSE "error"

Named(key, c) == [c EXCEPT !.Name = key]

\* Mutant: the type of a metadata entry is not looked at.
MetadataValidUntyped(key, m) == m # Nil /\ Validate(Named(key, m))

MetadataValid(key, m) == m # Nil /\ ValidType(m.Type) /\ Validate(Named(key, m))

CheckValid(key, c) == c # Nil /\ Validate(Named(key, c))

\* What a loop in any order ends with that stops at the first entry not ok.
LoopEnds(judgements) ==
  IF judgements \subseteq {"ok"} THEN {"ok"} ELSE judgements \ {"ok"}

\* configFile.validate: the outcomes it may have.
validate(f) ==
  LET checks   == LoopEnds({Judge(k, f.StatusChecks[k], CheckValid(k, f.StatusChecks[k])) :
                              k \in DOMAIN f.StatusChecks})
      metadata == LoopEnds({Judge(k, f.Metadata[k], MetadataValid(k, f.Metadata[k])) :
                              k \in DOMAIN f.Metadata})
  IN  IF checks # {"ok"} THEN checks
      ELSE IF metadata # {"ok"} THEN metadata
      ELSE {IF IgnitionValid(f.Ignition) THEN "ok" ELSE "error"}

(***************************************************************************)
(* Set-up: cmd/autodiscovery/probers.go and ignition.go                    *)
(***************************************************************************)
\* NewSingleValueQuery and NewBulkValueQuery validate once more; a single query
\* is then parsed by text/template.
NewPrometheusProberOK(c) ==
  /\ Validate(c)
  /\ c.Kind = "single" => c.Query.parses

NewPrometheusMetadataProberOK(m) == m.Type \in MetadataTypes /\ NewPrometheusProberOK(m)

\* Whether setupProbers gets through, once Prometheus has been reached.
ProbersBuildable(f) ==
  /\ \A k \in DOMAIN f.StatusChecks : NewPrometheusProberOK(Named(k, f.StatusChecks[k]))
  /\ \A k \in DOMAIN f.Metadata : NewPrometheusMetadataProberOK(Named(k, f.Metadata[k]))

\* setupIgnitionProvider: the type of the provider.
IgnitionType(i) == IF IgnitionIsZero(i) THEN "prometheus" ELSE i.Type

NewProviderOK(type) == type = "prometheus"
=============================================================================
