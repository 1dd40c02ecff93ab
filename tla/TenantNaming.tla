---------------------------- MODULE TenantNaming ----------------------------
(***************************************************************************)
(* backend/database/tenant/naming.py: from a tenant id to the name of its  *)
(* schema and back.  Strings are sequences of characters; of a character   *)
(* only its class matters, and its lower case.  Each takes one byte: a     *)
(* prefix of wider ones, which the code counts and the database measures,  *)
(* is left out.                                                            *)
(***************************************************************************)
EXTENDS Naturals, Sequences

CONSTANTS
  Letters,   \* lower-case letters
  Capitals,  \* upper-case letters
  LowerOf,   \* LowerOf[c]: the lower case of c
  Digits,    \* digits and the underscore
  Blank,     \* white space
  Others,    \* every other character
  Prefixes,  \* what TENANT_SCHEMA_PREFIX may be: "tenant_", or any text
  MaxId,     \* the longest id, 50
  MaxName    \* the longest PostgreSQL identifier, 63

Chars == Letters \cup Capitals \cup Digits \cup {Blank} \cup Others

ASSUME NamingAssumption ==
  /\ LowerOf \in [Capitals -> Letters]
  /\ Prefixes \subseteq Seq(Chars)
  /\ MaxId \in Nat /\ MaxName \in Nat \ {0, 1}
  /\ Blank \notin Letters \cup Capitals \cup Digits \cup Others
  /\ Capitals \cap (Letters \cup Digits) = {}
  /\ Others \cap (Letters \cup Digits \cup Capitals) = {}

VARIABLES
  prefix,  \* TENANT_SCHEMA_PREFIX, read from the environment at start
  x, y     \* what is given for tenant ids or names of schemas

\* None; no id is empty.
NoId == <<>>

-----------------------------------------------------------------------------
\* str.lower.
Lower(s) == [i \in 1..Len(s) |-> IF s[i] \in Capitals THEN LowerOf[s[i]] ELSE s[i]]

\* str.strip: from the first to the last character that is not blank.
Strip(s) ==
  LET inked == {i \in 1..Len(s) : s[i] # Blank}
      first == CHOOSE i \in inked : \A j \in inked : i <= j
      last == CHOOSE i \in inked : \A j \in inked : j <= i
  IN IF inked = {} THEN <<>> ELSE SubSeq(s, first, last)

\* clean_id.
Canon(s) == Lower(Strip(s))

\* Bug: only the length is looked at.
BugValid(s) == Len(Canon(s)) \in 1..MaxId

\* validate_tenant_id: _TENANT_ID_REGEX on clean_id.
Valid(s) ==
  /\ Len(Canon(s)) \in 1..MaxId
  /\ \A i \in 1..Len(Canon(s)) : Canon(s)[i] \in Letters \cup Digits

Build(s) == prefix \o Canon(s)

\* Bug: the length of the name is not looked at.
BugBuilds(s) == Valid(s)

\* build_tenant_schema_name, where it does not raise.
Builds(s) == Valid(s) /\ Len(Build(s)) <= MaxName

\* The schema a name stands for: the database cuts off what is beyond the
\* longest identifier, and says so in a notice only.
Identifier(n) == IF Len(n) <= MaxName THEN n ELSE SubSeq(n, 1, MaxName)

StartsWith(n, p) == Len(p) <= Len(n) /\ SubSeq(n, 1, Len(p)) = p

\* Bug: an off-by-one where the prefix is cut off.
BugExtract(n) ==
  LET raw == SubSeq(n, Len(prefix) + 2, Len(n))
  IN IF n # <<>> /\ StartsWith(n, prefix) /\ Valid(raw) THEN raw ELSE NoId

\* extract_tenant_id_from_schema: what follows the prefix, as it is.
Extract(n) ==
  LET raw == SubSeq(n, Len(prefix) + 1, Len(n))
  IN IF n # <<>> /\ StartsWith(n, prefix) /\ Valid(raw) THEN raw ELSE NoId

\* TENANT_SCHEMA_PATTERN, which no code applies.
MatchesPattern(n) ==
  /\ Len(n) \in 2..MaxName
  /\ n[1] \in Letters
  /\ \A i \in 1..Len(n) : n[i] \in Letters \cup Digits

-----------------------------------------------------------------------------
\* Two ids share a schema of the database if and only if they are the same
\* id up to case and blanks around it, whatever the prefix: no name that
\* build_tenant_schema_name returns is cut to another one's.
SameSchemaSameTenant ==
  Builds(x) /\ Builds(y) =>
    (Identifier(Build(x)) = Identifier(Build(y)) <=> Canon(x) = Canon(y))

\* When a name that build_tenant_schema_name returns matches the pattern: the
\* prefix must be made of lower-case letters, digits and underscores, and
\* what the name begins with, the prefix or without one the id, must be a
\* letter, and not all of it.
NameMatchesPattern ==
  Builds(x) =>
    (MatchesPattern(Build(x)) <=>
      /\ \A i \in 1..Len(prefix) : prefix[i] \in Letters \cup Digits
      /\ IF prefix = <<>> THEN Canon(x)[1] \in Letters /\ Len(Canon(x)) > 1
                          ELSE prefix[1] \in Letters)

\* Names and ids go back and forth: extract_tenant_id_from_schema finds the
\* canonical id in a built name, and an id it finds in any name that matches
\* the pattern builds that name again, so no schema is read as another's.
RoundTrip ==
  /\ Builds(x) => Extract(Build(x)) = Canon(x)
  /\ MatchesPattern(x) /\ Extract(x) # NoId => Build(Extract(x)) = x
=============================================================================
