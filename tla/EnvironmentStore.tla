-------------------------- MODULE EnvironmentStore --------------------------
(***************************************************************************)
(* The in-memory environment store (internal/store).                       *)
(*                                                                         *)
(* A store is a record of the Go map `env`, a function whose domain is the *)
(* set of keys in use, and of `envInfo`, the label pairs <<name,           *)
(* namespace>> of the gauge ephemeralenv_environment_info that are         *)
(* currently exported.  Every mutator runs under the store's write lock,   *)
(* so each is an operator from the store before the call to the outcome of *)
(* the call, [store, err]; the modules that own a store variable take the  *)
(* step.                                                                   *)
(***************************************************************************)
EXTENDS Functions

CONSTANTS
  Empty,     \* the empty string
  ZeroTime,  \* the zero time.Time
  Nil        \* a nil map or a nil probe

(***************************************************************************)
(* Outcomes of a mutator.                                                  *)
(***************************************************************************)
NoError                 == "nil"
ErrInvalidEnvironment   == "invalid environment"
ErrEnvironmentNotFound  == "environment not found"
ErrImmutableFieldChanged == "immutable field changed"

Succeed(s)   == [store |-> s, err |-> NoError]
Fail(s, err) == [store |-> s, err |-> err]

NewStore == [env |-> [name \in {} |-> Nil], envInfo |-> {}]

(***************************************************************************)
(* environment.go                                                          *)
(***************************************************************************)

\* A map field that must be present, with no empty key and no value in bad.
WellFormedMap(m, bad) ==
  /\ m # Nil
  /\ Empty \notin DOMAIN m
  /\ \A k \in DOMAIN m : m[k] # bad

IsValid(e) ==
  /\ e.Name # Empty
  /\ e.CreatedAt # ZeroTime
  /\ e.Namespace # Empty
  /\ WellFormedMap(e.URL, Empty)
  /\ WellFormedMap(e.StatusChecks, Nil)
  /\ WellFormedMap(e.MetaProbes, Nil)

\* Mutant: the name is not among the fields compared.
ImmutableFieldChangedButName(current, e) ==
  \/ e.Namespace # Empty    /\ e.Namespace # current.Namespace
  \/ e.CreatedAt # ZeroTime /\ e.CreatedAt # current.CreatedAt

\* Environment.UpdateEnvironment: a field left at its zero value is not an
\* update of it; the identifying fields cannot be updated in place.
ImmutableFieldChanged(current, e) ==
  \/ e.Name # Empty         /\ e.Name # current.Name
  \/ e.Namespace # Empty    /\ e.Namespace # current.Namespace
  \/ e.CreatedAt # ZeroTime /\ e.CreatedAt # current.CreatedAt

Given(new, old) == IF new = Nil THEN old ELSE new

UpdatedEnvironment(current, e) ==
  [current EXCEPT !.URL          = Given(e.URL, @),
                  !.StatusChecks = Given(e.StatusChecks, @),
                  !.MetaProbes   = Given(e.MetaProbes, @)]

(***************************************************************************)
(* store.go, mutators                                                      *)
(***************************************************************************)
InfoLabels(e) == <<e.Name, e.Namespace>>

\* Assignment to a key of a Go map.
Put(m, key, value) ==
  [k \in DOMAIN m \cup {key} |-> IF k = key THEN value ELSE m[k]]

deleteEnvironment(s, name) ==
  IF name \in DOMAIN s.env
  THEN Succeed([env     |-> Restrict(s.env, DOMAIN s.env \ {name}),
                envInfo |-> s.envInfo \ {InfoLabels(s.env[name])}])
  ELSE Fail(s, ErrEnvironmentNotFound)

\* The store without the entry that an added environment would overwrite.
WithoutNamesake(s, e) ==
  IF e.Name \in DOMAIN s.env THEN deleteEnvironment(s, e.Name).store ELSE s

\* Mutant: the entry is overwritten without clearing its series first.
addEnvironmentOverSeries(s, e) ==
  IF IsValid(e)
  THEN Succeed([env     |-> Put(s.env, e.Name, e),
                envInfo |-> s.envInfo \cup {InfoLabels(e)}])
  ELSE Fail(s, ErrInvalidEnvironment)

addEnvironment(s, e) ==
  IF IsValid(e)
  THEN LET cleared == WithoutNamesake(s, e)
       IN  Succeed([env     |-> Put(cleared.env, e.Name, e),
                    envInfo |-> cleared.envInfo \cup {InfoLabels(e)}])
  ELSE Fail(s, ErrInvalidEnvironment)

AddEnvironment(s, e)       == addEnvironment(s, e)
DeleteEnvironment(s, name) == deleteEnvironment(s, name)

\* Mutant: a rename adds the new entry and keeps the old one.
UpdateEnvironmentKeepingOld(s, name, e) ==
  IF name \notin DOMAIN s.env \/ ImmutableFieldChanged(s.env[name], e)
  THEN addEnvironment(s, e)
  ELSE Succeed([env     |-> Put(s.env, e.Name, UpdatedEnvironment(s.env[name], e)),
                envInfo |-> s.envInfo])

\* Mutant: an update of an environment that is not stored is an error.
UpdateEnvironmentOnlyStored(s, name, e) ==
  IF name \notin DOMAIN s.env
  THEN Fail(s, ErrEnvironmentNotFound)
  ELSE IF ImmutableFieldChanged(s.env[name], e)
       THEN addEnvironment(deleteEnvironment(s, name).store, e)
       ELSE Succeed([env     |-> Put(s.env, e.Name, UpdatedEnvironment(s.env[name], e)),
                     envInfo |-> s.envInfo])

\* The in-place branch writes under the key e.Name and not under name, and
\* validates nothing; the re-adding branch has removed the old entry by the
\* time addEnvironment may refuse the new one.
UpdateEnvironment(s, name, e) ==
  IF name \notin DOMAIN s.env
  THEN addEnvironment(s, e)
  ELSE IF ImmutableFieldChanged(s.env[name], e)
       THEN addEnvironment(deleteEnvironment(s, name).store, e)
       ELSE Succeed([env     |-> Put(s.env, e.Name, UpdatedEnvironment(s.env[name], e)),
                     envInfo |-> s.envInfo])

(***************************************************************************)
(* store.go, reads: each runs under the read lock and returns a copy.      *)
(***************************************************************************)
GetAllEnvironments(s) == {s.env[name] : name \in DOMAIN s.env}

\* The environments GetEnvironmentByNamespace may return: it stops at the
\* first match of an unordered map iteration.
EnvironmentsByNamespace(s, namespace) ==
  {e \in GetAllEnvironments(s) : e.Namespace = namespace}
=============================================================================
