---------------------------- MODULE MCDiscovery ----------------------------
(***************************************************************************)
(* Instances of Discovery for TLC: annotations that differ in what the     *)
(* handler makes of them, and one check and one metadata key that is both  *)
(* configured and annotated.                                               *)
(***************************************************************************)
EXTENDS Discovery, TLC

CONSTANTS EmptyString

Checks       == {"healthy"}
MetadataKeys == {"owner"}
True         == {"true", "1"}
Scalars      == "42" :> "number 42"

Plain    == <<"url", "api">> :> "u1"
Checked  == <<"url", "api">> :> "u2" @@ <<"status", "healthy">> :> "1"
            @@ <<"metadata", "owner">> :> "42"
\* An empty URL, which Kubernetes accepts and IsValid does not.
BadURL   == <<"url", "api">> :> EmptyString

GoodAndBad == {Checked, BadURL}
OnlyPlain  == {Plain}

Symmetry == Permutations(Namespaces) \cup Permutations(Labels)
=============================================================================
