---------------------------- MODULE MCApiServer ----------------------------
(***************************************************************************)
(* Instances of ApiServer for TLC: a status check and a metadata key with  *)
(* a query, a second check without one, and the calls of each route.       *)
(***************************************************************************)
EXTENDS ApiServer, TLC

CONSTANTS n1, n2, a, b

Checks       == {"healthy"}
MetadataKeys == {"owner"}
NoKeys       == {}
True         == {"true", "1"}
Scalars      == "42" :> "number 42"
OwnerTypes   == "owner" :> "number"

\* Without annotations all probes are queries; with these, one is static.
Bare   == <<"url", "api">> :> "u1"
Static == <<"url", "api">> :> "u2" @@ <<"status", "active">> :> "true"
            @@ <<"metadata", "owner">> :> "42"
Mixed      == {Bare, Static}
OnlyBare   == {Bare}

OneFloat  == {"positive"}
TwoFloats == {"zero", "NaN"}

Names(ns, filter) == [route |-> "names", name |-> Empty, namespace |-> ns, filter |-> filter]
One(name) == [route |-> "one", name |-> name, namespace |-> Empty, filter |-> NoFilter]
All(with) == [route |-> "all", name |-> Empty, namespace |-> Empty, filter |-> with]
Plain(route) == [route |-> route, name |-> Empty, namespace |-> Empty,
                 filter |-> NoFilter]

Healthy   == "healthy" :> TRUE
Unhealthy == "healthy" :> FALSE
Idle      == "healthy" :> TRUE @@ "active" :> FALSE

ListCalls == {Names(Empty, NoFilter), Names(Empty, Healthy), Names(Empty, Idle)}
LookupCalls == {Names(n1, NoFilter), Names(n1, Unhealthy), One(a), Plain("health"),
                Plain("preflight")}
AllCalls == {All(NoFilter), All(Idle), All(Healthy)}
EveryCall == ListCalls \cup LookupCalls \cup AllCalls
ContendingCalls == {Names(Empty, Healthy), All(Healthy)}
=============================================================================
