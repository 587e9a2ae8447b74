----------------------------- MODULE MCProcess ------------------------------
(***************************************************************************)
(* Instances of Process for TLC: each field of an entry with the values    *)
(* that validation tells apart, and templates of each kind.                *)
(***************************************************************************)
EXTENDS Process, TLC

Keys == {"active"}

Template(parses, opensTag, fields) ==
  [parses |-> parses, opensTag |-> opensTag, fields |-> fields]

Constant  == Template(TRUE, FALSE, {})
PerEnv    == Template(TRUE, FALSE, {"name", "namespace"})
Broken    == Template(FALSE, FALSE, {})
Undefined == Template(TRUE, FALSE, {"cluster"})
LessThan  == Template(TRUE, TRUE, {"namespace"})

Check(kind, query, on, label, interval, timeout) ==
  [Name |-> Empty, Kind |-> kind, Query |-> query, MatchOn |-> on, MatchLabel |-> label,
   Interval |-> interval, Timeout |-> timeout]

Good == Check("single", PerEnv, Empty, Empty, 2, 1)

Checks ==
  {Check(kind, query, on, label, time[1], time[2]) :
     kind \in {"single", "bulk", Empty},
     query \in {Empty, Constant, PerEnv, Broken, Undefined},
     on \in {"name", Empty}, label \in {"namespace", Empty},
     time \in {<<2, 1>>, <<1, 1>>, <<2, 0>>, <<0, -1>>}} \cup {Nil}

Typed(c, type) ==
  [Name |-> Empty, Kind |-> c.Kind, Query |-> c.Query, MatchOn |-> c.MatchOn,
   MatchLabel |-> c.MatchLabel, Interval |-> c.Interval, Timeout |-> c.Timeout, Type |-> type]

None == [k \in {} |-> Nil]

Ignition(type, prometheus) == [Type |-> type, Prometheus |-> prometheus]

File(checks, metadata, ignition) ==
  [Address |-> "http://prometheus", Client |-> "plain", Port |-> 8080, MetricsPort |-> 8090,
   StatusChecks |-> checks, Metadata |-> metadata, Ignition |-> ignition]

Entries ==
  {File(key :> c, None, Nil) : key \in {"active", "not a key"}, c \in Checks}
  \cup {File(None, "active" :> Typed(c, type), Nil) :
          c \in Checks \ {Nil}, type \in {"number", "integer"}}
  \cup {File(None, "active" :> Nil, Nil)}
  \cup {File("active" :> Good, None, i) :
          i \in {Nil} \cup {Ignition(t, p) : t \in {"prometheus", "webhook", Empty},
                                                 p \in BOOLEAN}}

File1 == File("active" :> Good, "active" :> Typed(Good, "number"), Nil)

\* What is only looked at when the client is made: the address, and settings as a
\* file of certificates that does not exist.
Addresses == {"http://prometheus"}
Clients   == {"plain"}

ServingConfigs ==
  {[File1 EXCEPT !.Address = a, !.MetricsPort = p] :
     a \in {Empty, "http://prometheus"}, p \in {0, 8080, 8090}}

UnusableConfigs ==
  {[File1 EXCEPT !.Address = a, !.Client = c] :
     a \in {Empty, "http://prometheus", "http://:x"}, c \in {"plain", "no such file"}}

AllConfigs == Entries \cup ServingConfigs \cup UnusableConfigs

LessThanConfigs == {File("active" :> [Good EXCEPT !.Query = LessThan], None, Nil)}
=============================================================================
