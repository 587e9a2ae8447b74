---------------------------- MODULE StatusFilter ----------------------------
(***************************************************************************)
(* The status filter of a request (server.go, parseStatusFilter): a loop   *)
(* over the comma-separated tokens of all values of a query parameter.  A  *)
(* token, with the space around its parts removed, is whether it begins    *)
(* with a "!", and the rest, which may be empty and may have a "!" of its  *)
(* own.                                                                    *)
(***************************************************************************)
EXTENDS Naturals, Sequences, TLAPS

CONSTANTS
  Empty,      \* the empty string
  Names,      \* what a token may name, the empty string and "!x" among them
  MaxTokens   \* bound: tokens

ASSUME BoundAssumption == MaxTokens \in Nat

Tokens == [negated: BOOLEAN, name: Names]

VARIABLES
  tokens,  \* what is left of the query
  read,    \* history: the tokens read
  filter   \* the filter so far: function from names of checks to values

vars == <<tokens, read, filter>>

\* Mutant: the first mention of a check wins.
AssignFirst(f, name, value) ==
  [c \in DOMAIN f \cup {name} |-> IF c \in DOMAIN f THEN f[c] ELSE value]

\* Assignment to a key of the map.
Assign(f, name, value) ==
  [c \in DOMAIN f \cup {name} |-> IF c = name THEN value ELSE f[c]]

\* Mutant: what follows a "!" is not looked at again.
ParseUnchecked ==
  /\ tokens # <<>>
  /\ LET t == Head(tokens)
     IN  filter' = IF t.name = Empty /\ ~t.negated
                   THEN filter ELSE Assign(filter, t.name, ~t.negated)
  /\ read' = Append(read, Head(tokens))
  /\ tokens' = Tail(tokens)

Parse ==
  /\ tokens # <<>>
  /\ LET t == Head(tokens)
     IN  filter' = IF t.name = Empty THEN filter ELSE Assign(filter, t.name, ~t.negated)
  /\ read' = Append(read, Head(tokens))
  /\ tokens' = Tail(tokens)

Init ==
  /\ tokens \in UNION {[1..n -> Tokens] : n \in 0..MaxTokens}
  /\ read = <<>>
  /\ filter = [c \in {} |-> TRUE]

Spec == Init /\ [][Parse]_vars

-----------------------------------------------------------------------------
(***************************************************************************)
(* Properties                                                              *)
(***************************************************************************)
TypeOK ==
  /\ tokens \in Seq(Tokens)
  /\ read \in Seq(Tokens)
  /\ filter \in UNION {[D -> BOOLEAN] : D \in SUBSET (Names \ {Empty})}

\* Where the tokens s name c.
Mentions(s, c) == {i \in 1..Len(s) : s[i].name = c}

\* The filter is exactly what the tokens say: a check is filtered on when some
\* token names it, and wanted as the last of those says, so that no order of
\* repeated, contradictory, empty or lone "!" tokens makes a filter on the empty
\* name or drops one that was asked for (server.go parseStatusFilter).
LastMentionWins ==
  /\ \A c \in DOMAIN filter : c # Empty /\ Mentions(read, c) # {}
  /\ \A i \in 1..Len(read) :
       LET c == read[i].name
       IN  c # Empty =>
             /\ c \in DOMAIN filter
             /\ (\A j \in Mentions(read, c) : j <= i) => filter[c] = ~read[i].negated

-----------------------------------------------------------------------------
(***************************************************************************)
(* Proofs                                                                  *)
(***************************************************************************)
\* The types, for any names and any number of tokens (parseStatusFilter).
THEOREM FilterTypeCorrect == Spec => []TypeOK
<1>1. Init => TypeOK
  <2> SUFFICES ASSUME Init PROVE TypeOK
    OBVIOUS
  <2>1. tokens \in Seq(Tokens)
    <3>1. PICK n \in 0..MaxTokens : tokens \in [1..n -> Tokens]
      BY DEF Init
    <3>2. n \in Nat
      BY BoundAssumption
    <3>3. QED
      BY <3>1, <3>2
  <2>2. filter \in [{} -> BOOLEAN]
    BY DEF Init
  <2>3. filter \in UNION {[D -> BOOLEAN] : D \in SUBSET (Names \ {Empty})}
    BY <2>2
  <2>4. read \in Seq(Tokens)
    BY DEF Init
  <2>5. QED
    BY <2>1, <2>3, <2>4 DEF TypeOK
<1>2. TypeOK /\ [Parse]_vars => TypeOK'
  <2> SUFFICES ASSUME TypeOK, Parse PROVE TypeOK'
    BY DEF TypeOK, vars
  <2> DEFINE t == Head(tokens)
  <2>1. t \in Tokens /\ tokens' \in Seq(Tokens) /\ read' \in Seq(Tokens)
    BY DEF TypeOK, Parse
  <2>2. PICK D \in SUBSET (Names \ {Empty}) : filter \in [D -> BOOLEAN]
    BY DEF TypeOK
  <2>3. CASE t.name = Empty
    BY <2>1, <2>2, <2>3 DEF Parse, TypeOK
  <2>4. CASE t.name # Empty
    <3>1. D \cup {t.name} \in SUBSET (Names \ {Empty})
      BY <2>1, <2>4 DEF Tokens
    <3>2. filter' \in [D \cup {t.name} -> BOOLEAN]
      BY <2>1, <2>2, <2>4 DEF Parse, Assign, Tokens
    <3>3. QED
      BY <2>1, <3>1, <3>2 DEF TypeOK
  <2>5. QED
    BY <2>3, <2>4
<1>3. QED
  BY <1>1, <1>2, PTL DEF Spec

\* For any names and any number of tokens, the filter is what the tokens read so
\* far say, the last one of a name deciding (parseStatusFilter).
THEOREM FilterIsLastMention == Spec => []LastMentionWins
<1>1. Init => LastMentionWins
  BY DEF Init, LastMentionWins
<1>2. TypeOK /\ LastMentionWins /\ [Parse]_vars => LastMentionWins'
  <2>1. CASE UNCHANGED vars
    BY <2>1 DEF LastMentionWins, Mentions, vars
  <2>2. ASSUME TypeOK, LastMentionWins, Parse PROVE LastMentionWins'
    <3> DEFINE t == Head(tokens)
               n == Len(read)
    <3>1. /\ t \in Tokens
          /\ n \in Nat
          /\ Len(read') = n + 1
          /\ read'[n + 1] = t
          /\ \A i \in 1..n : read'[i] = read[i]
      BY <2>2 DEF TypeOK, Parse
    <3>2. \A c : Mentions(read', c)
                  = Mentions(read, c) \cup (IF t.name = c THEN {n + 1} ELSE {})
      BY <3>1 DEF Mentions
    <3>3. t.negated \in BOOLEAN
      BY <3>1 DEF Tokens
    <3>4. CASE t.name = Empty
      <4>1. filter' = filter
        BY <2>2, <3>4 DEF Parse
      <4>2. QED
        BY <2>2, <3>1, <3>2, <3>4, <4>1 DEF LastMentionWins
    <3>5. CASE t.name # Empty
      <4>1. /\ DOMAIN filter' = DOMAIN filter \cup {t.name}
            /\ filter'[t.name] = ~t.negated
            /\ \A c \in DOMAIN filter : c # t.name => filter'[c] = filter[c]
        BY <2>2, <3>5 DEF Parse, Assign
      <4>2. \A c \in DOMAIN filter' : c # Empty /\ Mentions(read', c) # {}
        BY <2>2, <3>2, <3>5, <4>1 DEF LastMentionWins
      <4>3. ASSUME NEW i \in 1..(n + 1), read'[i].name # Empty
            PROVE  /\ read'[i].name \in DOMAIN filter'
                   /\ (\A j \in Mentions(read', read'[i].name) : j <= i)
                        => filter'[read'[i].name] = ~read'[i].negated
        <5>1. CASE i = n + 1
          BY <3>1, <4>1, <5>1
        <5>2. CASE i # n + 1 /\ read[i].name = t.name
          <6>1. n + 1 \in Mentions(read', t.name) /\ ~(n + 1 <= i)
            BY <3>1, <3>2, <5>2
          <6>2. QED
            BY <3>1, <4>1, <5>2, <6>1
        <5>3. CASE i # n + 1 /\ read[i].name # t.name
          <6>1. i \in 1..n /\ read'[i] = read[i]
            BY <3>1, <5>3
          <6>2. Mentions(read', read[i].name) = Mentions(read, read[i].name)
            BY <3>2, <5>3
          <6>3. QED
            BY <2>2, <4>1, <4>3, <5>3, <6>1, <6>2 DEF LastMentionWins
        <5>4. QED
          BY <5>1, <5>2, <5>3
      <4>4. QED
        BY <3>1, <4>2, <4>3 DEF LastMentionWins
    <3>6. QED
      BY <3>4, <3>5
  <2>3. QED
    BY <2>1, <2>2
<1>3. QED
  BY <1>1, <1>2, FilterTypeCorrect, PTL DEF Spec
=============================================================================
