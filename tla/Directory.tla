----------------------------- MODULE Directory -----------------------------
(***************************************************************************)
(* What discovery promises its clients: a directory of environments that   *)
(* follows, one namespace at a time, what the service is told about the    *)
(* cluster.  It fixes neither how names that namespaces share are          *)
(* resolved, beyond that the last to speak wins, nor what is done with an  *)
(* environment that is not valid.                                          *)
(***************************************************************************)
CONSTANTS
  Namespaces,        \* names of Kubernetes namespaces
  Objects,           \* namespace objects, each with a Label
  Absent,            \* no such object
  EnvironmentOf(_),  \* the environment an object describes
  IsValid(_)         \* whether an environment is valid

VARIABLES
  told,     \* what the service was last told about each namespace
  listing   \* function: name |-> the environment listed under it

dirVars == <<told, listing>>

Init ==
  /\ told = [n \in Namespaces |-> Absent]
  /\ DOMAIN listing = {}

\* The name under which n was announced, as a set of at most one element.
AnnouncedName(n) == IF told[n] = Absent THEN {} ELSE {told[n].Label}

\* Environments of other namespaces stay as they are; nothing else is listed
\* but what was just told.
OnlyNews(n, object) ==
  \A name \in DOMAIN listing' :
    \/ /\ name \in DOMAIN listing
       /\ listing[name].Namespace # n
       /\ listing'[name] = listing[name]
    \/ /\ object # Absent
       /\ name = object.Label
       /\ listing'[name] = EnvironmentOf(object)

\* Nothing but the name n gives up disappears.
OnlyOwnNameWithdrawn(n) ==
  DOMAIN listing \ DOMAIN listing' \subseteq AnnouncedName(n)

\* A valid environment is listed as soon as the service is told.
ValidNewsListed(object) ==
  object # Absent /\ IsValid(EnvironmentOf(object)) =>
    /\ object.Label \in DOMAIN listing'
    /\ listing'[object.Label] = EnvironmentOf(object)

Tell(n, object) ==
  /\ told' = [told EXCEPT ![n] = object]
  /\ OnlyNews(n, object)
  /\ OnlyOwnNameWithdrawn(n)
  /\ ValidNewsListed(object)

Forget ==
  /\ told' = [n \in Namespaces |-> Absent]
  /\ DOMAIN listing' = {}

Next ==
  \/ \E n \in Namespaces, object \in Objects \cup {Absent} : Tell(n, object)
  \/ Forget

Spec == Init /\ [][Next]_dirVars
=============================================================================
