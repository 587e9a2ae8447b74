----------------------- MODULE EnvironmentStoreProofs -----------------------
(***************************************************************************)
(* What the mutators of the environment store do, for any store: the       *)
(* entries they set, remove and leave, and the series they export.  The    *)
(* proofs about the modules that own a store rest on these lemmas.         *)
(***************************************************************************)
EXTENDS EnvironmentStore, TLAPS

\* The exported series are those of the entries.
Exported(s) == s.envInfo = {InfoLabels(e) : e \in GetAllEnvironments(s)}

\* Every entry is stored under its name.
Keyed(env) == \A name \in DOMAIN env : env[name].Name = name

\* Removing an entry removes that entry, if there is one, and nothing else.
LEMMA DeleteEffect ==
  ASSUME NEW s, NEW name
  PROVE  LET s2 == deleteEnvironment(s, name).store IN
           /\ DOMAIN s2.env = DOMAIN s.env \ {name}
           /\ \A k \in DOMAIN s2.env : s2.env[k] = s.env[k]
<1>1. CASE name \in DOMAIN s.env
  BY <1>1 DEF deleteEnvironment, Succeed, Restrict
<1>2. CASE name \notin DOMAIN s.env
  BY <1>2 DEF deleteEnvironment, Fail
<1>3. QED BY <1>1, <1>2

\* Adding a valid environment sets its entry and touches no other; adding one
\* that is not valid does nothing.
LEMMA AddEffect ==
  ASSUME NEW s, NEW e
  PROVE  LET s2 == addEnvironment(s, e).store IN
           /\ IsValid(e) => /\ DOMAIN s2.env = DOMAIN s.env \cup {e.Name}
                            /\ s2.env[e.Name] = e
                            /\ \A k \in DOMAIN s.env \ {e.Name} : s2.env[k] = s.env[k]
           /\ ~IsValid(e) => s2 = s
<1>1. CASE ~IsValid(e)
  BY <1>1 DEF addEnvironment, Fail
<1>2. CASE IsValid(e)
  <2> DEFINE c == WithoutNamesake(s, e)
  <2>1. /\ DOMAIN c.env \cup {e.Name} = DOMAIN s.env \cup {e.Name}
        /\ \A k \in DOMAIN s.env \ {e.Name} : k \in DOMAIN c.env /\ c.env[k] = s.env[k]
    BY DeleteEffect DEF WithoutNamesake
  <2>2. addEnvironment(s, e).store.env = Put(c.env, e.Name, e)
    BY <1>2 DEF addEnvironment, Succeed
  <2> HIDE DEF c
  <2>3. QED BY <1>2, <2>1, <2>2 DEF Put
<1>3. QED BY <1>1, <1>2

\* Removing an entry keeps the exported series those of the entries.
LEMMA DeleteExported ==
  ASSUME NEW s, NEW name, Keyed(s.env), Exported(s)
  PROVE  Exported(deleteEnvironment(s, name).store)
<1>1. CASE name \in DOMAIN s.env
  <2> DEFINE s2 == deleteEnvironment(s, name).store
  <2>1. s2.envInfo = s.envInfo \ {InfoLabels(s.env[name])}
    BY <1>1 DEF deleteEnvironment, Succeed
  <2>2. /\ DOMAIN s2.env = DOMAIN s.env \ {name}
        /\ \A k \in DOMAIN s2.env : s2.env[k] = s.env[k]
    BY DeleteEffect
  <2>3. \A k \in DOMAIN s.env \ {name} : InfoLabels(s.env[k]) # InfoLabels(s.env[name])
    BY <1>1 DEF Keyed, InfoLabels
  <2> HIDE DEF s2
  <2>4. s.envInfo = {InfoLabels(s.env[k]) : k \in DOMAIN s.env}
    BY DEF Exported, GetAllEnvironments
  <2>5. s2.envInfo = {InfoLabels(s2.env[k]) : k \in DOMAIN s2.env}
    BY <1>1, <2>1, <2>2, <2>3, <2>4
  <2>6. Exported(s2)
    BY <2>5 DEF Exported, GetAllEnvironments
  <2>7. QED BY <2>6 DEF s2
<1>2. CASE name \notin DOMAIN s.env
  BY <1>2 DEF deleteEnvironment, Fail
<1>3. QED BY <1>1, <1>2

\* Adding an environment keeps the exported series those of the entries, the
\* series of an overwritten namesake included.
LEMMA AddExported ==
  ASSUME NEW s, NEW e, Keyed(s.env), Exported(s)
  PROVE  Exported(addEnvironment(s, e).store)
<1>1. CASE ~IsValid(e)
  BY <1>1, AddEffect
<1>2. CASE IsValid(e)
  <2> DEFINE c  == WithoutNamesake(s, e)
             s2 == addEnvironment(s, e).store
  <2>1. Exported(c) /\ e.Name \notin DOMAIN c.env
    BY DeleteExported, DeleteEffect DEF WithoutNamesake
  <2>2. s2.envInfo = c.envInfo \cup {InfoLabels(e)} /\ s2.env = Put(c.env, e.Name, e)
    BY <1>2 DEF addEnvironment, Succeed
  <2> HIDE DEF c, s2
  <2>3. c.envInfo = {InfoLabels(c.env[k]) : k \in DOMAIN c.env}
    BY <2>1 DEF Exported, GetAllEnvironments
  <2>4. /\ DOMAIN s2.env = DOMAIN c.env \cup {e.Name}
        /\ s2.env[e.Name] = e
        /\ \A k \in DOMAIN c.env : s2.env[k] = c.env[k]
    BY <2>1, <2>2 DEF Put
  <2>5. s2.envInfo = {InfoLabels(s2.env[k]) : k \in DOMAIN s2.env}
    BY <2>2, <2>3, <2>4
  <2>6. Exported(s2)
    BY <2>5 DEF Exported, GetAllEnvironments
  <2>7. QED BY <2>6 DEF s2
<1>3. QED BY <1>1, <1>2

\* Updating either adds, after removing the name given up or not, or writes in
\* place, under the name of the update, what the update makes of the entry.
LEMMA UpdateEffect ==
  ASSUME NEW s, NEW name, NEW e
  PROVE  LET s2 == UpdateEnvironment(s, name, e).store IN
           \/ /\ name \notin DOMAIN s.env
              /\ s2 = addEnvironment(s, e).store
           \/ /\ name \in DOMAIN s.env
              /\ s2 = addEnvironment(deleteEnvironment(s, name).store, e).store
           \/ /\ name \in DOMAIN s.env
              /\ ~ImmutableFieldChanged(s.env[name], e)
              /\ DOMAIN s2.env = DOMAIN s.env \cup {e.Name}
              /\ s2.env[e.Name] = UpdatedEnvironment(s.env[name], e)
              /\ \A k \in DOMAIN s.env \ {e.Name} : s2.env[k] = s.env[k]
<1>1. CASE name \notin DOMAIN s.env
  BY <1>1 DEF UpdateEnvironment
<1>2. CASE name \in DOMAIN s.env /\ ImmutableFieldChanged(s.env[name], e)
  BY <1>2 DEF UpdateEnvironment
<1>3. CASE name \in DOMAIN s.env /\ ~ImmutableFieldChanged(s.env[name], e)
  <2>1. UpdateEnvironment(s, name, e).store.env
          = Put(s.env, e.Name, UpdatedEnvironment(s.env[name], e))
    BY <1>3 DEF UpdateEnvironment, Succeed
  <2>2. QED BY <1>3, <2>1 DEF Put
<1>4. QED BY <1>1, <1>2, <1>3

\* No mutator exports a series but that of the environment it is given.
LEMMA InfoEffect ==
  ASSUME NEW s, NEW name, NEW e
  PROVE  /\ deleteEnvironment(s, name).store.envInfo \subseteq s.envInfo
         /\ addEnvironment(s, e).store.envInfo \subseteq s.envInfo \cup {InfoLabels(e)}
         /\ UpdateEnvironment(s, name, e).store.envInfo \subseteq s.envInfo \cup {InfoLabels(e)}
<1>1. ASSUME NEW s1, NEW n
      PROVE  deleteEnvironment(s1, n).store.envInfo \subseteq s1.envInfo
  BY DEF deleteEnvironment, Succeed, Fail
<1>2. ASSUME NEW s1
      PROVE  addEnvironment(s1, e).store.envInfo \subseteq s1.envInfo \cup {InfoLabels(e)}
  <2>1. WithoutNamesake(s1, e).envInfo \subseteq s1.envInfo
    BY <1>1 DEF WithoutNamesake
  <2>2. QED BY <2>1 DEF addEnvironment, Succeed, Fail
<1>3. UpdateEnvironment(s, name, e).store.envInfo \subseteq s.envInfo \cup {InfoLabels(e)}
  <2>1. CASE name \notin DOMAIN s.env
    BY <1>2, <2>1 DEF UpdateEnvironment
  <2>2. CASE name \in DOMAIN s.env /\ ImmutableFieldChanged(s.env[name], e)
    <3> DEFINE c == deleteEnvironment(s, name).store
    <3>1. UpdateEnvironment(s, name, e).store = addEnvironment(c, e).store
      BY <2>2 DEF UpdateEnvironment
    <3>2. c.envInfo \subseteq s.envInfo
      BY <1>1
    <3> HIDE DEF c
    <3>3. QED BY <1>2, <3>1, <3>2
  <2>3. CASE name \in DOMAIN s.env /\ ~ImmutableFieldChanged(s.env[name], e)
    BY <2>3 DEF UpdateEnvironment, Succeed
  <2>4. QED BY <2>1, <2>2, <2>3
<1>4. QED BY <1>1, <1>2, <1>3
=============================================================================
