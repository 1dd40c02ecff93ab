---------------------------- MODULE HelperProofs ----------------------------
(***************************************************************************)
(* Proofs about parts that call nobody, for any characters, ids, trees,    *)
(* texts and objects: the names of tenants' schemas, the subtrees of       *)
(* departments, the conditions of data rules, the masking of what is       *)
(* logged, and what to_dict shows of an instance.                          *)
(***************************************************************************)
EXTENDS TenantNaming, DataRules, Departments, Masking, OrmInstance,
        SequenceTheorems, WellFoundedInduction, TLAPS

\* A set of positions that is not empty has a first and a last one.
LEMMA Ends ==
  ASSUME NEW n \in Nat, NEW T, T \subseteq 1..n, T # {}
  PROVE  /\ \E i \in T : \A j \in T : i <= j
         /\ \E i \in T : \A j \in T : j <= i
  <1>. DEFINE Less == OpToRel(<, Nat)
  <1>1. \A S \in SUBSET Nat : S # {} => \E i \in S : \A j \in S : i <= j
    <2>. SUFFICES ASSUME NEW S \in SUBSET Nat, S # {}
                  PROVE  \E i \in S : \A j \in S : i <= j
      OBVIOUS
    <2>1. \E i \in S : \A j \in S : ~(<<j, i>> \in Less)
      BY NatLessThanWellFounded, WFMin
    <2>2. \A i, j \in Nat : j < i => <<j, i>> \in Less
      BY DEF OpToRel
    <2>. HIDE DEF Less
    <2>3. PICK i \in S : \A j \in S : ~(<<j, i>> \in Less)
      BY <2>1
    <2>4. \A j \in S : i <= j
      <3>. TAKE j \in S
      <3>1. i \in Nat /\ j \in Nat /\ ~(j < i)
        BY <2>2, <2>3
      <3>. QED BY <3>1
    <2>. QED BY <2>4
  <1>2. \E i \in T : \A j \in T : i <= j
    BY <1>1
  <1>3. \E i \in T : \A j \in T : j <= i
    <2>. DEFINE Behind == {n - i : i \in T}
    <2>1. Behind \in SUBSET Nat /\ Behind # {}
      <3>1. \A i \in T : n - i \in Nat
        OBVIOUS
      <3>. QED BY <3>1
    <2>2. PICK k \in Behind : \A l \in Behind : k <= l
      BY <1>1, <2>1
    <2>3. PICK i \in T : k = n - i
      OBVIOUS
    <2>4. \A j \in T : j <= i
      <3>. TAKE j \in T
      <3>1. k <= n - j
        BY <2>2
      <3>. QED BY <2>3, <3>1
    <2>. QED BY <2>4
  <1>. QED BY <1>2, <1>3

-----------------------------------------------------------------------------
(* Tenant naming. *)

Plain == Letters \cup Digits

LEMMA StripFacts ==
  ASSUME NEW s \in Seq(Chars)
  PROVE  /\ Strip(s) \in Seq(Chars)
         /\ (\A i \in 1..Len(s) : s[i] # Blank) => Strip(s) = s
  <1>. DEFINE inked == {i \in 1..Len(s) : s[i] # Blank}
              first == CHOOSE i \in inked : \A j \in inked : i <= j
              last == CHOOSE i \in inked : \A j \in inked : j <= i
  <1>1. Strip(s) = IF inked = {} THEN <<>> ELSE SubSeq(s, first, last)
    BY DEF Strip
  <1>2. CASE inked = {}
    <2>1. (\A i \in 1..Len(s) : s[i] # Blank) => Len(s) = 0
      BY <1>2
    <2>. QED BY <1>1, <1>2, <2>1
  <1>3. CASE inked # {}
    <2>1. inked \subseteq 1..Len(s) /\ Len(s) \in Nat
      OBVIOUS
    <2>2. /\ \E i \in inked : \A j \in inked : i <= j
          /\ \E i \in inked : \A j \in inked : j <= i
      BY <1>3, <2>1, Ends
    <2>. HIDE DEF inked
    <2>3. first \in inked /\ last \in inked
      BY <2>2
    <2>4. /\ \A j \in inked : first <= j
          /\ \A j \in inked : j <= last
      BY <2>2
    <2>. HIDE DEF first, last
    <2>5. Strip(s) \in Seq(Chars)
      <3>1. first \in Int /\ last \in Int /\ \A i \in first..last : s[i] \in Chars
        BY <2>1, <2>3
      <3>. QED BY <1>1, <1>3, <3>1, SubSeqProperties
    <2>6. ASSUME \A i \in 1..Len(s) : s[i] # Blank
          PROVE  Strip(s) = s
      <3>1. inked = 1..Len(s)
        BY <2>6 DEF inked
      <3>2. first = 1 /\ last = Len(s)
        BY <2>1, <2>3, <2>4, <3>1
      <3>. QED BY <1>1, <1>3, <3>2, SubSeqFull
    <2>. QED BY <2>5, <2>6
  <1>. QED BY <1>2, <1>3

\* An id is written in characters, and one in plain ones is as it is.
LEMMA CanonFacts ==
  ASSUME NEW s \in Seq(Chars)
  PROVE  /\ Canon(s) \in Seq(Chars)
         /\ (\A i \in 1..Len(s) : s[i] \in Plain) => Canon(s) = s
  <1>1. PICK t \in Seq(Chars) : t = Strip(s)
    BY StripFacts
  <1>2. Canon(s) = [i \in 1..Len(t) |-> IF t[i] \in Capitals THEN LowerOf[t[i]] ELSE t[i]]
    BY <1>1 DEF Canon, Lower
  <1>3. \A i \in 1..Len(t) :
          (IF t[i] \in Capitals THEN LowerOf[t[i]] ELSE t[i]) \in Chars
    BY NamingAssumption DEF Chars
  <1>4. Canon(s) \in Seq(Chars)
    BY <1>2, <1>3
  <1>5. ASSUME \A i \in 1..Len(s) : s[i] \in Plain
        PROVE  Canon(s) = s
    <2>1. t = s
      BY <1>1, <1>5, NamingAssumption, StripFacts DEF Plain
    <2>2. \A i \in 1..Len(s) : Canon(s)[i] = s[i]
      BY <1>2, <1>5, <2>1, NamingAssumption DEF Plain
    <2>3. Len(Canon(s)) = Len(s)
      BY <1>2, <2>1
    <2>. QED BY <1>4, <2>2, <2>3, SeqEqual
  <1>. QED BY <1>4, <1>5

\* A name is the prefix and a canonical id.
LEMMA BuildFacts ==
  ASSUME prefix \in Prefixes, NEW s \in Seq(Chars), Valid(s)
  PROVE  /\ prefix \in Seq(Chars) /\ Canon(s) \in Seq(Plain) /\ Canon(s) \in Seq(Chars)
         /\ Canon(s) # <<>> /\ Build(s) \in Seq(Chars)
         /\ Len(Build(s)) = Len(prefix) + Len(Canon(s))
         /\ \A i \in 1..Len(prefix) : Build(s)[i] = prefix[i]
         /\ \A i \in 1..Len(Canon(s)) : Build(s)[i + Len(prefix)] = Canon(s)[i]
  <1>1. prefix \in Seq(Chars) /\ Canon(s) \in Seq(Chars)
    BY NamingAssumption, CanonFacts
  <1>2. Canon(s) \in Seq(Plain) /\ Canon(s) # <<>>
    <2>1. Len(Canon(s)) # 0 /\ \A i \in 1..Len(Canon(s)) : Canon(s)[i] \in Plain
      BY NamingAssumption DEF Valid, Plain
    <2>. QED BY <1>1, <2>1
  <1>. QED BY <1>1, <1>2, ConcatProperties DEF Build

\* Two ids share a schema of the database if and only if they are one id up to
\* case and blanks: a name the code returns is the identifier itself, as the
\* database has nothing to cut off, and identifiers agree behind the prefix.
THEOREM SchemasAreApart ==
  ASSUME prefix \in Prefixes, x \in Seq(Chars), y \in Seq(Chars)
  PROVE  SameSchemaSameTenant
  <1>. SUFFICES ASSUME Builds(x), Builds(y)
                PROVE  Identifier(Build(x)) = Identifier(Build(y)) <=> Canon(x) = Canon(y)
    BY DEF SameSchemaSameTenant
  <1>1. Identifier(Build(x)) = Build(x) /\ Identifier(Build(y)) = Build(y)
    BY DEF Builds, Identifier
  <1>2. /\ prefix \in Seq(Chars) /\ Canon(x) \in Seq(Chars) /\ Canon(y) \in Seq(Chars)
        /\ Build(x) = prefix \o Canon(x) /\ Build(y) = prefix \o Canon(y)
    BY BuildFacts DEF Builds, Build
  <1>3. Build(x) = Build(y) => Canon(x) = Canon(y)
    BY <1>2, ConcatSimplifications
  <1>. QED BY <1>1, <1>2, <1>3

\* Which names match the pattern of the settings, for every prefix and id: what
\* the code checks bounds their length and the characters behind the prefix,
\* and leaves it to the prefix, or without one to the id, what they begin with.
THEOREM NamesAreWellFormed ==
  ASSUME prefix \in Prefixes, x \in Seq(Chars)
  PROVE  NameMatchesPattern
  <1>. SUFFICES ASSUME Builds(x)
                PROVE  MatchesPattern(Build(x)) <=>
                         /\ \A i \in 1..Len(prefix) : prefix[i] \in Plain
                         /\ IF prefix = <<>>
                              THEN Canon(x)[1] \in Letters /\ Len(Canon(x)) > 1
                              ELSE prefix[1] \in Letters
    BY DEF NameMatchesPattern, Plain
  <1>1. /\ prefix \in Seq(Chars) /\ Canon(x) \in Seq(Plain) /\ Build(x) \in Seq(Chars)
        /\ Canon(x) # <<>> /\ Len(Build(x)) = Len(prefix) + Len(Canon(x))
        /\ \A i \in 1..Len(prefix) : Build(x)[i] = prefix[i]
        /\ \A i \in 1..Len(Canon(x)) : Build(x)[i + Len(prefix)] = Canon(x)[i]
    BY BuildFacts DEF Builds
  <1>2. PICK p \in Nat, c \in Nat, n \in Nat :
          /\ p = Len(prefix) /\ c = Len(Canon(x)) /\ n = Len(Build(x))
          /\ n = p + c /\ c >= 1 /\ n <= MaxName
    BY <1>1 DEF Builds
  <1>3. MatchesPattern(Build(x)) <=>
          n >= 2 /\ Build(x)[1] \in Letters /\ \A i \in 1..n : Build(x)[i] \in Plain
    BY <1>2, NamingAssumption DEF MatchesPattern, Plain
  <1>4. (\A i \in 1..n : Build(x)[i] \in Plain) <=> \A i \in 1..p : prefix[i] \in Plain
    <2>1. ASSUME NEW i \in 1..n, i \notin 1..p
          PROVE  Build(x)[i] \in Plain
      <3>1. i - p \in 1..c /\ i = (i - p) + p
        BY <1>2, <2>1
      <3>2. Build(x)[i] = Canon(x)[i - p]
        BY <1>1, <1>2, <3>1
      <3>. QED BY <1>1, <1>2, <3>1, <3>2
    <2>2. \A i \in 1..p : i \in 1..n /\ Build(x)[i] = prefix[i]
      BY <1>1, <1>2
    <2>. QED BY <2>1, <2>2
  <1>5. CASE prefix = <<>>
    <2>1. p = 0 /\ n = c /\ Build(x)[1] = Canon(x)[1]
      BY <1>1, <1>2, <1>5
    <2>. QED BY <1>2, <1>3, <1>4, <1>5, <2>1
  <1>6. CASE prefix # <<>>
    <2>1. p >= 1 /\ n >= 2
      BY <1>1, <1>2, <1>6
    <2>2. Build(x)[1] = prefix[1]
      BY <1>1, <1>2, <2>1
    <2>. QED BY <1>2, <1>3, <1>4, <1>6, <2>1, <2>2
  <1>. QED BY <1>5, <1>6

\* A sequence that agrees with another in its first positions begins with it.
LEMMA BeginsWith ==
  ASSUME NEW S, NEW s \in Seq(S), NEW t \in Seq(S), Len(t) <= Len(s),
         \A i \in 1..Len(t) : s[i] = t[i]
  PROVE  SubSeq(s, 1, Len(t)) = t
  <1>1. /\ SubSeq(s, 1, Len(t)) \in Seq(S)
        /\ Len(SubSeq(s, 1, Len(t))) = Len(t)
        /\ \A i \in 1..Len(t) : SubSeq(s, 1, Len(t))[i] = s[i]
    OBVIOUS
  <1>. QED BY <1>1, SeqEqual

\* A sequence that agrees with another behind its first m positions ends in it.
LEMMA EndsIn ==
  ASSUME NEW S, NEW s \in Seq(S), NEW t \in Seq(S), NEW m \in Nat, Len(s) = m + Len(t),
         \A i \in 1..Len(t) : s[i + m] = t[i]
  PROVE  SubSeq(s, m + 1, Len(s)) = t
  <1>1. /\ SubSeq(s, m + 1, Len(s)) \in Seq(S)
        /\ Len(SubSeq(s, m + 1, Len(s))) = Len(t)
    OBVIOUS
  <1>2. ASSUME NEW i \in 1..Len(t)
        PROVE  SubSeq(s, m + 1, Len(s))[i] = t[i]
    <2>1. SubSeq(s, m + 1, Len(s))[i] = s[i + m]
      OBVIOUS
    <2>. QED BY <2>1
  <1>. QED BY <1>1, <1>2, SeqEqual

\* No schema is read as another tenant's: from an id to its name and back is
\* the canonical id, and what is read from a well-formed name builds it again.
THEOREM NamesReadBack ==
  ASSUME prefix \in Prefixes, x \in Seq(Chars)
  PROVE  RoundTrip
  <1>1. ASSUME NEW s \in Seq(Plain)
        PROVE  s \in Seq(Chars) /\ Canon(s) = s
    <2>1. s \in Seq(Chars)
      BY SeqMonotonic DEF Plain, Chars
    <2>. QED BY <2>1, CanonFacts
  <1>2. ASSUME Builds(x)
        PROVE  Extract(Build(x)) = Canon(x)
    <2>1. /\ prefix \in Seq(Chars) /\ Canon(x) \in Seq(Plain) /\ Build(x) \in Seq(Chars)
          /\ Canon(x) # <<>> /\ Len(Build(x)) = Len(prefix) + Len(Canon(x))
          /\ \A i \in 1..Len(prefix) : Build(x)[i] = prefix[i]
          /\ \A i \in 1..Len(Canon(x)) : Build(x)[i + Len(prefix)] = Canon(x)[i]
      BY <1>2, BuildFacts DEF Builds
    <2>2. SubSeq(Build(x), Len(prefix) + 1, Len(Build(x))) = Canon(x)
      <3>1. Len(prefix) \in Nat /\ Canon(x) \in Seq(Chars)
        BY <2>1, <1>1
      <3>. QED BY <2>1, <3>1, EndsIn, Zenon
    <2>3. SubSeq(Build(x), 1, Len(prefix)) = prefix
      <3>1. Len(prefix) <= Len(Build(x))
        BY <2>1
      <3>. QED BY <2>1, <3>1, BeginsWith, Zenon
    <2>4. Valid(Canon(x))
      BY <1>1, <1>2, <2>1 DEF Builds, Valid
    <2>5. StartsWith(Build(x), prefix) /\ Build(x) # <<>>
      BY <2>1, <2>3 DEF StartsWith
    <2>6. Valid(SubSeq(Build(x), Len(prefix) + 1, Len(Build(x))))
      BY <2>2, <2>4
    <2>. QED BY <2>2, <2>5, <2>6 DEF Extract
  <1>3. ASSUME MatchesPattern(x), Extract(x) # NoId
        PROVE  Build(Extract(x)) = x
    <2>. DEFINE raw == SubSeq(x, Len(prefix) + 1, Len(x))
    <2>1. Extract(x) = raw /\ StartsWith(x, prefix)
      BY <1>3 DEF Extract
    <2>2. x \in Seq(Plain) /\ prefix \in Seq(Chars)
      BY <1>3, NamingAssumption DEF MatchesPattern, Plain
    <2>3. raw \in Seq(Plain)
      BY <2>2
    <2>4. SubSeq(x, 1, Len(prefix)) = prefix /\ Len(prefix) <= Len(x)
      BY <2>1 DEF StartsWith
    <2>5. prefix \o raw = x
      BY <2>2, <2>3, <2>4
    <2>. QED BY <1>1, <2>1, <2>3, <2>5 DEF Build
  <1>. QED BY <1>2, <1>3 DEF RoundTrip

-----------------------------------------------------------------------------
(* Departments. *)

\* An id as subtree_condition looks for it.
Pattern(d) == <<Comma>> \o d \o <<Comma>>

\* A text of ids: between commas, without one too many at its ends.
Delimited(t) ==
  /\ t \in Seq(Int) /\ Len(t) >= 3
  /\ t[1] = Comma /\ t[2] # Comma
  /\ t[Len(t)] = Comma /\ t[Len(t) - 1] # Comma

\* The tree is well-founded by construction only; the proof needs that texts
\* are delimited, so that format_ancestors adds one id and no comma too many,
\* and says of every id, inserted or not, in which texts it is found.
DeptInv ==
  /\ DOMAIN parent \subseteq Depts /\ DOMAIN ancestors = DOMAIN parent
  /\ \A e \in DOMAIN parent : parent[e] \in DOMAIN parent \cup {NoParent}
  /\ \A e \in DOMAIN parent : ancestors[e] = <<>> \/ Delimited(ancestors[e])
  /\ \A d \in Depts, e \in DOMAIN parent :
       Contains(ancestors[e], Pattern(d)) <=> d \in Above(e)

LEMMA Ids ==
  ASSUME NEW d \in Depts
  PROVE  /\ d \in Seq(Int) /\ Len(d) \in Nat \ {0}
         /\ \A i \in 1..Len(d) : d[i] \in Int /\ d[i] # Comma
         /\ d # NoParent /\ Comma \in Int
  <1>1. d \in Seq(Int \ {Comma}) /\ d # <<>> /\ d # NoParent /\ Comma \in Int
    BY DepartmentAssumption
  <1>2. d \in Seq(Int)
    BY <1>1, SeqMonotonic
  <1>. QED BY <1>1, <1>2

\* Texts may be joined from either end.
LEMMA TextsAssociate ==
  ASSUME NEW s \in Seq(Int), NEW u \in Seq(Int), NEW v \in Seq(Int)
  PROVE  s \o (u \o v) = (s \o u) \o v
  <1>1. /\ u \o v \in Seq(Int) /\ Len(u \o v) = Len(u) + Len(v)
        /\ s \o u \in Seq(Int) /\ Len(s \o u) = Len(s) + Len(u)
    BY ConcatProperties
  <1>. DEFINE a == s \o (u \o v)
              b == (s \o u) \o v
  <1>2. /\ a \in Seq(Int) /\ Len(a) = Len(s) + Len(u) + Len(v)
        /\ b \in Seq(Int) /\ Len(b) = Len(s) + Len(u) + Len(v)
    BY <1>1, ConcatProperties
  <1>3. ASSUME NEW i \in 1..Len(a)
        PROVE  a[i] = b[i]
    BY <1>1, <1>2, ConcatProperties
  <1>. HIDE DEF a, b
  <1>. QED BY <1>2, <1>3, SeqEqual DEF a, b

\* Where a text contains a pattern.
LEMMA Occurrence ==
  ASSUME NEW t \in Seq(Int), NEW d \in Depts
  PROVE  Contains(t, Pattern(d)) <=>
           \E i \in 0..Len(t) :
             /\ i + Len(d) + 2 <= Len(t)
             /\ t[i + 1] = Comma /\ t[i + Len(d) + 2] = Comma
             /\ \A j \in 1..Len(d) : t[i + 1 + j] = d[j]
  <1>1. /\ d \in Seq(Int) /\ Len(d) \in Nat \ {0} /\ Comma \in Int
        /\ Len(t) \in Nat /\ \A i \in 1..Len(t) : t[i] \in Int
    BY Ids
  <1>2. /\ Pattern(d) \in Seq(Int) /\ Len(Pattern(d)) = Len(d) + 2
        /\ Pattern(d)[1] = Comma /\ Pattern(d)[Len(d) + 2] = Comma
        /\ \A j \in 1..Len(d) : Pattern(d)[1 + j] = d[j]
    BY <1>1 DEF Pattern
  <1>3. ASSUME NEW i \in 0..Len(t), i + Len(d) + 2 <= Len(t)
        PROVE  SubSeq(t, i + 1, i + Len(Pattern(d))) = Pattern(d) <=>
                 /\ t[i + 1] = Comma /\ t[i + Len(d) + 2] = Comma
                 /\ \A j \in 1..Len(d) : t[i + 1 + j] = d[j]
    <2>1. PICK u : u = SubSeq(t, i + 1, i + Len(Pattern(d)))
      OBVIOUS
    <2>2. /\ u \in Seq(Int) /\ Len(u) = Len(d) + 2
          /\ \A k \in 1..Len(d) + 2 : u[k] = t[i + k]
      <3>1. /\ i + 1 \in Int /\ i + Len(Pattern(d)) \in Int
            /\ \A k \in (i + 1)..(i + Len(Pattern(d))) : t[k] \in Int
        <4>1. i + 1 \in Int /\ i + Len(Pattern(d)) \in Int
          BY <1>1, <1>2
        <4>2. ASSUME NEW k \in (i + 1)..(i + Len(Pattern(d)))
              PROVE  k \in 1..Len(t)
          BY <1>1, <1>2, <1>3
        <4>. QED BY <4>1, <4>2, <1>1
      <3>2. /\ u \in Seq(Int)
            /\ Len(u) = IF i + 1 <= i + Len(Pattern(d))
                        THEN (i + Len(Pattern(d))) - (i + 1) + 1 ELSE 0
            /\ \A k \in 1..((i + Len(Pattern(d))) - (i + 1) + 1) : u[k] = t[(i + 1) + k - 1]
        <4>1. ASSUME NEW m \in Int, NEW n \in Int,
                     \A k \in m..n : t[k] \in Int
              PROVE  LET w == SubSeq(t, m, n) IN
                     /\ w \in Seq(Int)
                     /\ Len(w) = IF m <= n THEN n - m + 1 ELSE 0
                     /\ \A k \in 1..(n - m + 1) : w[k] = t[m + k - 1]
          BY ONLY <4>1, SubSeqProperties
        <4>. QED BY ONLY <2>1, <3>1, <4>1
      <3>3. \A k \in 1..Len(d) + 2 : (i + 1) + k - 1 = i + k
        BY <1>1
      <3>. QED BY <1>1, <1>2, <3>2, <3>3
    <2>3. /\ u[1] = t[i + 1] /\ u[Len(d) + 2] = t[i + Len(d) + 2]
          /\ \A j \in 1..Len(d) : u[1 + j] = t[i + 1 + j]
      <3>1. /\ 1 \in 1..Len(d) + 2 /\ Len(d) + 2 \in 1..Len(d) + 2
            /\ i + (Len(d) + 2) = i + Len(d) + 2
        BY <1>1
      <3>2. ASSUME NEW j \in 1..Len(d)
            PROVE  1 + j \in 1..Len(d) + 2 /\ i + (1 + j) = i + 1 + j
        BY <1>1
      <3>3. u[1] = t[i + 1] /\ u[Len(d) + 2] = t[i + Len(d) + 2]
        BY <2>2, <3>1
      <3>4. ASSUME NEW j \in 1..Len(d)
            PROVE  u[1 + j] = t[i + 1 + j]
        BY <2>2, <3>2, <1>1
      <3>. QED BY <3>3, <3>4
    <2>4. ASSUME /\ t[i + 1] = Comma /\ t[i + Len(d) + 2] = Comma
                 /\ \A j \in 1..Len(d) : t[i + 1 + j] = d[j]
          PROVE  u = Pattern(d)
      <3>1. ASSUME NEW k \in 1..Len(u)
            PROVE  u[k] = Pattern(d)[k]
        <4>1. CASE k = 1
          BY <1>2, <2>3, <2>4, <4>1
        <4>2. CASE k = Len(d) + 2
          BY <1>2, <2>3, <2>4, <4>2
        <4>3. CASE k # 1 /\ k # Len(d) + 2
          <5>1. k - 1 \in 1..Len(d) /\ k = 1 + (k - 1)
            BY <1>1, <2>2, <4>3
          <5>. QED BY <1>2, <2>3, <2>4, <5>1
        <4>. QED BY <4>1, <4>2, <4>3
      <3>. QED BY <1>2, <2>2, <3>1, SeqEqual
    <2>. QED BY <1>2, <2>1, <2>3, <2>4
  <1>4. Contains(t, Pattern(d)) <=>
          \E i \in 0..Len(t) : /\ i + Len(d) + 2 <= Len(t)
                               /\ SubSeq(t, i + 1, i + Len(Pattern(d))) = Pattern(d)
    <2>1. \A i \in 0..Len(t) : i + Len(Pattern(d)) = i + Len(d) + 2
      BY <1>1, <1>2
    <2>. QED BY <2>1 DEF Contains
  <1>. QED BY <1>3, <1>4
\* What the id of the parent is put behind.
Opening(t) == IF t = <<>> THEN <<Comma>> ELSE t

LEMMA FormatFacts ==
  ASSUME NEW p \in Depts, NEW t, t = <<>> \/ Delimited(t)
  PROVE  /\ FormatAncestors(p, t) = Opening(t) \o p \o <<Comma>>
         /\ Opening(t) \in Seq(Int) /\ Len(Opening(t)) \in Nat \ {0}
         /\ Opening(t)[1] = Comma /\ Opening(t)[Len(Opening(t))] = Comma
         /\ Delimited(t) => Opening(t) = t
  <1>1. p \in Seq(Int) /\ p # NoParent /\ Comma \in Int
    BY Ids
  <1>2. CASE t = <<>>
    <2>1. StripCommas(t) = <<>>
      BY <1>2 DEF StripCommas
    <2>2. FormatAncestors(p, t) = <<Comma>> \o p \o <<Comma>>
      BY <1>1, <2>1, ConcatAssociative DEF FormatAncestors
    <2>. QED BY <1>1, <1>2, <2>2 DEF Opening, Delimited
  <1>3. CASE Delimited(t)
    <2>. DEFINE others == {i \in 1..Len(t) : t[i] # Comma}
                first == CHOOSE i \in others : \A j \in others : i <= j
                last == CHOOSE i \in others : \A j \in others : j <= i
                clean == SubSeq(t, 2, Len(t) - 1)
    <2>1. /\ t \in Seq(Int) /\ Len(t) \in Nat /\ Len(t) >= 3 /\ t # <<>>
          /\ t[1] = Comma /\ t[2] # Comma
          /\ t[Len(t)] = Comma /\ t[Len(t) - 1] # Comma
      BY <1>3 DEF Delimited
    <2>2. others \subseteq 2..(Len(t) - 1) /\ 2 \in others /\ Len(t) - 1 \in others
      BY <2>1
    <2>. HIDE DEF others
    <2>3. first \in others /\ \A j \in others : first <= j
      <3>1. \A j \in others : 2 <= j
        BY <2>1, <2>2
      <3>. QED BY <2>2, <3>1
    <2>4. last \in others /\ \A j \in others : j <= last
      <3>1. \A j \in others : j <= Len(t) - 1
        BY <2>1, <2>2
      <3>. QED BY <2>2, <3>1
    <2>. HIDE DEF first, last
    <2>5. first = 2 /\ last = Len(t) - 1
      BY <2>1, <2>2, <2>3, <2>4
    <2>6. StripCommas(t) = SubSeq(t, first, last)
      BY <2>2 DEF StripCommas, others, first, last
    <2>7. StripCommas(t) = clean
      BY <2>5, <2>6
    <2>8. /\ clean \in Seq(Int) /\ Len(clean) = Len(t) - 2
          /\ \A i \in 1..(Len(t) - 2) : clean[i] = t[i + 1]
      BY <2>1
    <2>9. <<Comma>> \o clean \o <<Comma>> = t
      <3>. DEFINE u == <<Comma>> \o clean \o <<Comma>>
      <3>1. /\ u \in Seq(Int) /\ Len(u) = Len(t)
            /\ u[1] = Comma /\ u[Len(t)] = Comma
            /\ \A i \in 1..(Len(t) - 2) : u[i + 1] = clean[i]
        <4>. HIDE DEF clean
        <4>1. PICK n \in Nat : n = Len(clean) /\ Len(t) = n + 2
          BY <2>1, <2>8
        <4>2. PICK v : v = <<Comma>> \o clean
          OBVIOUS
        <4>3. /\ v \in Seq(Int) /\ Len(v) = n + 1 /\ v[1] = Comma
              /\ \A i \in 1..n : v[i + 1] = clean[i]
          BY <1>1, <2>8, <4>1, <4>2
        <4>4. /\ v \o <<Comma>> \in Seq(Int) /\ Len(v \o <<Comma>>) = n + 2
              /\ (v \o <<Comma>>)[n + 2] = Comma
              /\ \A i \in 1..(n + 1) : (v \o <<Comma>>)[i] = v[i]
          BY <1>1, <4>3
        <4>5. 1 \in 1..(n + 1) /\ \A i \in 1..n : i + 1 \in 1..(n + 1)
          OBVIOUS
        <4>. QED BY <4>1, <4>2, <4>3, <4>4, <4>5
      <3>2. ASSUME NEW i \in 1..Len(t)
            PROVE  u[i] = t[i]
        <4>1. CASE i = 1 \/ i = Len(t)
          BY <2>1, <3>1, <4>1
        <4>2. CASE i # 1 /\ i # Len(t)
          <5>1. i - 1 \in 1..(Len(t) - 2) /\ i = (i - 1) + 1
            BY <2>1, <4>2
          <5>. QED BY <2>8, <3>1, <5>1
        <4>. QED BY <4>1, <4>2
      <3>. HIDE DEF u
      <3>. QED BY <2>1, <3>1, <3>2, SeqEqual DEF u
    <2>10. FormatAncestors(p, t) = <<Comma>> \o (clean \o <<Comma>> \o p) \o <<Comma>>
      <3>1. clean # <<>>
        <4>. HIDE DEF clean
        <4>. QED BY <2>1, <2>8
      <3>. QED BY <1>1, <2>7, <3>1 DEF FormatAncestors
    <2>11. FormatAncestors(p, t) = t \o p \o <<Comma>>
      <3>. HIDE DEF clean
      <3>1. PICK c \in Seq(Int) : c = clean
        BY <2>8
      <3>2. PICK k \in Seq(Int) : k = <<Comma>>
        <4>1. <<Comma>> \in Seq(Int)
          BY <1>1
        <4>. QED BY <4>1
      <3>3. k \o ((c \o k) \o p) = ((k \o c) \o k) \o p
        <4>1. p \in Seq(Int) /\ c \o k \in Seq(Int)
          BY <1>1, ConcatProperties
        <4>2. k \o ((c \o k) \o p) = (k \o (c \o k)) \o p
          BY <4>1, TextsAssociate
        <4>3. k \o (c \o k) = (k \o c) \o k
          BY TextsAssociate
        <4>. QED BY <4>2, <4>3
      <3>. QED BY <2>9, <2>10, <3>1, <3>2, <3>3
    <2>. QED BY <2>1, <2>11 DEF Opening
  <1>. QED BY <1>2, <1>3
\* The text of a new department contains what its parent's text contains, and
\* the parent: an id between commas is never found across two others.
LEMMA TextGrows ==
  ASSUME NEW p \in Depts, NEW t, t = <<>> \/ Delimited(t)
  PROVE  /\ Delimited(FormatAncestors(p, t))
         /\ \A d \in Depts : Contains(FormatAncestors(p, t), Pattern(d)) <=>
                               Contains(t, Pattern(d)) \/ d = p
  <1>1. PICK m \in Nat \ {0} : m = Len(p)
    BY Ids
  <1>2. /\ p \in Seq(Int) /\ Comma \in Int
        /\ \A i \in 1..m : p[i] \in Int /\ p[i] # Comma
    BY <1>1, Ids
  <1>3. PICK b : b = Opening(t)
    OBVIOUS
  <1>4. PICK n : n = FormatAncestors(p, t)
    OBVIOUS
  <1>5. PICK l \in Nat \ {0} : l = Len(b)
    BY <1>3, FormatFacts
  <1>6. /\ n = b \o p \o <<Comma>> /\ b \in Seq(Int)
        /\ b[1] = Comma /\ b[l] = Comma
        /\ Delimited(t) => b = t
    BY <1>3, <1>4, <1>5, FormatFacts
  <1>7. /\ n \in Seq(Int) /\ Len(n) = l + m + 1
        /\ \A i \in 1..l : n[i] = b[i]
        /\ \A i \in 1..m : n[l + i] = p[i]
        /\ n[l + m + 1] = Comma
    <2>1. PICK v : v = b \o p
      OBVIOUS
    <2>2. /\ v \in Seq(Int) /\ Len(v) = l + m
          /\ \A i \in 1..l : v[i] = b[i]
          /\ \A i \in 1..m : v[l + i] = p[i]
      BY <1>1, <1>2, <1>5, <1>6, <2>1
    <2>3. /\ v \o <<Comma>> \in Seq(Int) /\ Len(v \o <<Comma>>) = l + m + 1
          /\ \A i \in 1..(l + m) : (v \o <<Comma>>)[i] = v[i]
          /\ (v \o <<Comma>>)[l + m + 1] = Comma
      <3>1. PICK a \in Nat : a = Len(v) /\ a = l + m
        BY <2>2
      <3>2. /\ v \o <<Comma>> \in Seq(Int) /\ Len(v \o <<Comma>>) = a + 1
            /\ \A i \in 1..a : (v \o <<Comma>>)[i] = v[i]
            /\ (v \o <<Comma>>)[a + 1] = Comma
        <4>1. PICK c \in Seq(Int) : c = <<Comma>> /\ Len(c) = 1 /\ c[1] = Comma
          <5>1. <<Comma>> \in Seq(Int)
            BY <1>2
          <5>. QED BY <5>1
        <4>2. /\ v \o c \in Seq(Int) /\ Len(v \o c) = a + 1
              /\ \A i \in 1..a + 1 : (v \o c)[i] = IF i <= a THEN v[i] ELSE c[i - a]
          <5>1. /\ v \o c \in Seq(Int) /\ Len(v \o c) = Len(v) + Len(c)
                /\ \A i \in 1..(Len(v) + Len(c)) :
                     (v \o c)[i] = IF i <= Len(v) THEN v[i] ELSE c[i - Len(v)]
            <6>1. v \in Seq(Int) /\ c \in Seq(Int)
              BY <2>2, <4>1
            <6>. QED BY ONLY <6>1, ConcatProperties
          <5>2. Len(v) = a /\ Len(c) = 1
            BY <3>1, <4>1
          <5>. QED BY ONLY <5>1, <5>2, Zenon
        <4>3. a + 1 \in 1..a + 1 /\ ~(a + 1 <= a) /\ (a + 1) - a = 1
              /\ \A i \in 1..a : i \in 1..a + 1 /\ i <= a
          OBVIOUS
        <4>. QED BY <4>1, <4>2, <4>3
      <3>. QED BY <3>1, <3>2
    <2>4. 1..l \subseteq 1..(l + m) /\ \A i \in 1..m : l + i \in 1..(l + m)
      OBVIOUS
    <2>. QED BY <1>6, <2>1, <2>2, <2>3, <2>4
  <1>8. Delimited(n)
    <2>1. n[2] # Comma
      <3>1. CASE Delimited(t)
        <4>1. 2 \in 1..l /\ b[2] # Comma
          BY <1>5, <1>6, <3>1 DEF Delimited
        <4>. QED BY <1>7, <4>1
      <3>2. CASE t = <<>>
        <4>1. l = 1
          BY <1>3, <1>5, <3>2 DEF Opening
        <4>2. n[1 + 1] = p[1] /\ 1 \in 1..m
          BY <1>7, <4>1
        <4>. QED BY <1>2, <4>2
      <3>. QED BY <3>1, <3>2
    <2>2. n[1] = Comma
      <3>1. 1 \in 1..l
        OBVIOUS
      <3>. QED BY <1>6, <1>7, <3>1
    <2>3. n[Len(n) - 1] # Comma
      <3>1. n[l + m] # Comma
        <4>1. m \in 1..m
          OBVIOUS
        <4>. QED BY <1>2, <1>7, <4>1
      <3>2. Len(n) - 1 = l + m
        BY <1>7
      <3>. QED BY <3>1, <3>2
    <2>4. Len(n) >= 3 /\ n[Len(n)] = Comma /\ n \in Seq(Int)
      BY <1>7
    <2>. QED BY <2>1, <2>2, <2>3, <2>4 DEF Delimited
  <1>9. ASSUME NEW d \in Depts
        PROVE  Contains(n, Pattern(d)) <=> Contains(t, Pattern(d)) \/ d = p
    <2>1. PICK k \in Nat \ {0} : k = Len(d)
      BY Ids
    <2>2. /\ d \in Seq(Int)
          /\ \A j \in 1..k : d[j] \in Int /\ d[j] # Comma
      BY <2>1, Ids
    <2>3. Contains(n, Pattern(d)) <=>
            \E i \in 0..(l + m + 1) :
              /\ i + k + 2 <= l + m + 1
              /\ n[i + 1] = Comma /\ n[i + k + 2] = Comma
              /\ \A j \in 1..k : n[i + 1 + j] = d[j]
      <3>1. Contains(n, Pattern(d)) <=>
              \E i \in 0..Len(n) :
                /\ i + Len(d) + 2 <= Len(n)
                /\ n[i + 1] = Comma /\ n[i + Len(d) + 2] = Comma
                /\ \A j \in 1..Len(d) : n[i + 1 + j] = d[j]
        BY <1>7, Occurrence
      <3>2. Len(n) = l + m + 1 /\ Len(d) = k
        BY <1>7, <2>1
      <3>. QED BY ONLY <3>1, <3>2, Zenon
    <2>4. Contains(b, Pattern(d)) <=>
            \E i \in 0..l :
              /\ i + k + 2 <= l
              /\ b[i + 1] = Comma /\ b[i + k + 2] = Comma
              /\ \A j \in 1..k : b[i + 1 + j] = d[j]
      BY <1>5, <1>6, <2>1, Occurrence
    <2>5. Contains(t, Pattern(d)) <=> Contains(b, Pattern(d))
      <3>1. CASE t = <<>>
        <4>1. l = 1
          BY <1>3, <1>5, <3>1 DEF Opening
        <4>2. ~Contains(b, Pattern(d))
          BY <2>4, <4>1
        <4>3. t \in Seq(Int) /\ Len(t) = 0
          BY <3>1
        <4>4. ~Contains(t, Pattern(d))
          <5>1. \A i \in 0..Len(t) : ~(i + Len(d) + 2 <= Len(t))
            BY <2>1, <4>3
          <5>. QED BY <4>3, <5>1, Occurrence
        <4>. QED BY <4>2, <4>4
      <3>. QED BY <1>6, <3>1
    <2>6. ASSUME Contains(b, Pattern(d))
          PROVE  Contains(n, Pattern(d))
      <3>1. PICK i \in 0..l :
              /\ i + k + 2 <= l
              /\ b[i + 1] = Comma /\ b[i + k + 2] = Comma
              /\ \A j \in 1..k : b[i + 1 + j] = d[j]
        BY <2>4, <2>6
      <3>2. /\ i + 1 \in 1..l /\ i + k + 2 \in 1..l
            /\ \A j \in 1..k : i + 1 + j \in 1..l
        BY <3>1
      <3>3. /\ i \in 0..(l + m + 1) /\ i + k + 2 <= l + m + 1
        BY <3>1
      <3>4. /\ n[i + 1] = Comma /\ n[i + k + 2] = Comma
            /\ \A j \in 1..k : n[i + 1 + j] = d[j]
        BY <1>7, <3>1, <3>2
      <3>. QED BY <2>3, <3>3, <3>4
    <2>7. ASSUME d = p
          PROVE  Contains(n, Pattern(d))
      <3>1. k = m
        BY <1>1, <2>1, <2>7
      <3>2. /\ l - 1 \in 0..(l + m + 1) /\ (l - 1) + k + 2 <= l + m + 1
            /\ (l - 1) + 1 = l /\ (l - 1) + k + 2 = l + m + 1 /\ l \in 1..l
            /\ \A j \in 1..k : (l - 1) + 1 + j = l + j /\ j \in 1..m
        BY <3>1
      <3>3. /\ n[(l - 1) + 1] = Comma /\ n[(l - 1) + k + 2] = Comma
            /\ \A j \in 1..k : n[(l - 1) + 1 + j] = d[j]
        BY <1>6, <1>7, <2>7, <3>2
      <3>. QED BY <2>3, <3>2, <3>3
    <2>8. ASSUME Contains(n, Pattern(d)), ~Contains(b, Pattern(d))
          PROVE  d = p
      <3>1. PICK i \in 0..(l + m + 1) :
              /\ i + k + 2 <= l + m + 1
              /\ n[i + 1] = Comma /\ n[i + k + 2] = Comma
              /\ \A j \in 1..k : n[i + 1 + j] = d[j]
        BY <2>3, <2>8
      <3>2. ~(i + k + 2 <= l)
        <4>. SUFFICES ASSUME i + k + 2 <= l
                      PROVE  FALSE
          OBVIOUS
        <4>1. /\ i \in 0..l /\ i + 1 \in 1..l /\ i + k + 2 \in 1..l
              /\ \A j \in 1..k : i + 1 + j \in 1..l
          OBVIOUS
        <4>2. /\ b[i + 1] = Comma /\ b[i + k + 2] = Comma
              /\ \A j \in 1..k : b[i + 1 + j] = d[j]
          BY <1>7, <3>1, <4>1
        <4>. QED BY <2>4, <2>8, <4>1, <4>2
      <3>3. i + k + 2 = l + m + 1
        <4>. SUFFICES ASSUME i + k + 2 # l + m + 1
                      PROVE  FALSE
          OBVIOUS
        <4>1. PICK j \in 1..m : l + j = i + k + 2
          <5>1. (i + k + 2) - l \in 1..m /\ l + ((i + k + 2) - l) = i + k + 2
            BY <3>1, <3>2
          <5>. QED BY <5>1
        <4>2. n[l + j] = p[j] /\ p[j] # Comma
          BY <1>2, <1>7
        <4>. QED BY <3>1, <4>1, <4>2
      <3>4. ~(i + 1 < l)
        <4>. SUFFICES ASSUME i + 1 < l
                      PROVE  FALSE
          OBVIOUS
        <4>1. PICK j \in 1..k : i + 1 + j = l
          <5>1. l - (i + 1) \in 1..k /\ i + 1 + (l - (i + 1)) = l
            BY <3>3
          <5>. QED BY <5>1
        <4>2. n[l] = Comma
          <5>1. l \in 1..l
            OBVIOUS
          <5>. QED BY <1>6, <1>7, <5>1
        <4>3. n[i + 1 + j] = d[j] /\ d[j] # Comma
          BY <2>2, <3>1
        <4>. QED BY <4>1, <4>2, <4>3
      <3>5. ~(l < i + 1)
        <4>. SUFFICES ASSUME l < i + 1
                      PROVE  FALSE
          OBVIOUS
        <4>1. PICK j \in 1..m : l + j = i + 1
          <5>1. (i + 1) - l \in 1..m /\ l + ((i + 1) - l) = i + 1
            BY <3>3
          <5>. QED BY <5>1
        <4>2. n[l + j] = p[j] /\ p[j] # Comma
          BY <1>2, <1>7
        <4>. QED BY <3>1, <4>1, <4>2
      <3>6. i + 1 = l /\ k = m
        BY <3>3, <3>4, <3>5
      <3>7. \A j \in 1..k : d[j] = p[j]
        BY <1>7, <3>1, <3>6
      <3>. QED BY <1>1, <1>2, <2>1, <2>2, <3>6, <3>7, SeqEqual
    <2>. QED BY <2>5, <2>6, <2>7, <2>8
  <1>. QED BY <1>4, <1>8, <1>9

\* A new department is above nothing, and below its parent and all above it.
LEMMA AboveGrows ==
  ASSUME NEW d \in Depts, NEW p \in DOMAIN parent \cup {NoParent}, d \notin DOMAIN parent,
         DOMAIN parent \subseteq Depts,
         \A e \in DOMAIN parent : parent[e] \in DOMAIN parent \cup {NoParent},
         parent' = [e \in DOMAIN parent \cup {d} |-> IF e = d THEN p ELSE parent[e]]
  PROVE  /\ \A e \in DOMAIN parent : Above(e)' = Above(e)
         /\ Above(d)' = IF p = NoParent THEN {} ELSE {p} \cup Above(p)
  <1>1. NoParent \notin Depts
    BY DepartmentAssumption
  <1>2. /\ DOMAIN parent' = DOMAIN parent \cup {d}
        /\ parent'[d] = p
        /\ \A e \in DOMAIN parent : parent'[e] = parent[e]
    OBVIOUS
  <1>3. ASSUME NEW S \in SUBSET DOMAIN parent, ClosedUp(S)
        PROVE  /\ S \in SUBSET DOMAIN parent' /\ ClosedUp(S)'
               /\ p \in S => S \cup {d} \in SUBSET DOMAIN parent'
    BY <1>2, <1>3 DEF ClosedUp
  <1>4. ASSUME NEW S \in SUBSET DOMAIN parent', ClosedUp(S)'
        PROVE  S \ {d} \in SUBSET DOMAIN parent /\ ClosedUp(S \ {d})
    BY <1>1, <1>2, <1>4 DEF ClosedUp
  <1>5. DOMAIN parent \in SUBSET DOMAIN parent /\ ClosedUp(DOMAIN parent)
    BY DEF ClosedUp
  <1>6. ASSUME NEW e \in DOMAIN parent
        PROVE  Above(e)' = Above(e)
    <2>1. ASSUME NEW a \in Above(e)'
          PROVE  a \in Above(e)
      <3>1. \A S \in SUBSET DOMAIN parent :
              ClosedUp(S) /\ parent[e] \in S \cup {NoParent} => a \in S
        BY <1>2, <1>3, <2>1 DEF Above
      <3>. QED BY <1>5, <3>1 DEF Above
    <2>2. ASSUME NEW a \in Above(e)
          PROVE  a \in Above(e)'
      <3>1. ASSUME NEW S \in SUBSET DOMAIN parent', ClosedUp(S)',
                   parent'[e] \in S \cup {NoParent}
            PROVE  a \in S
        <4>1. parent[e] \in (S \ {d}) \cup {NoParent}
          BY <1>2, <3>1
        <4>2. a \in S \ {d}
          BY <1>4, <2>2, <3>1, <4>1 DEF Above
        <4>. QED BY <4>2
      <3>2. a \in DOMAIN parent'
        BY <1>2, <2>2 DEF Above
      <3>. QED BY <3>1, <3>2 DEF Above
    <2>. QED BY <2>1, <2>2
  <1>7. CASE p = NoParent
    <2>1. {} \in SUBSET DOMAIN parent' /\ ClosedUp({})'
      BY DEF ClosedUp
    <2>2. Above(d)' = {}
      BY <1>2, <1>7, <2>1 DEF Above
    <2>. QED BY <1>6, <1>7, <2>2
  <1>8. CASE p # NoParent
    <2>1. p \in DOMAIN parent
      BY <1>8
    <2>2. ASSUME NEW a \in Above(d)', a # p
          PROVE  a \in Above(p)
      <3>1. ASSUME NEW S \in SUBSET DOMAIN parent, ClosedUp(S),
                   parent[p] \in S \cup {NoParent}
            PROVE  a \in S
        <4>1. S \cup {p} \in SUBSET DOMAIN parent /\ ClosedUp(S \cup {p})
          BY <2>1, <3>1 DEF ClosedUp
        <4>2. S \cup {p} \in SUBSET DOMAIN parent' /\ ClosedUp(S \cup {p})'
          BY <1>3, <4>1
        <4>3. a \in S \cup {p}
          BY <1>2, <2>2, <4>2 DEF Above
        <4>. QED BY <2>2, <4>3
      <3>. QED BY <1>5, <2>1, <3>1 DEF Above
    <2>3. ASSUME NEW a \in {p} \cup Above(p)
          PROVE  a \in Above(d)'
      <3>1. ASSUME NEW S \in SUBSET DOMAIN parent', ClosedUp(S)',
                   parent'[d] \in S \cup {NoParent}
            PROVE  a \in S
        <4>1. p \in S
          BY <1>2, <1>8, <3>1
        <4>2. parent[p] \in (S \ {d}) \cup {NoParent}
          BY <1>1, <1>2, <2>1, <3>1, <4>1 DEF ClosedUp
        <4>3. Above(p) \subseteq S
          BY <1>4, <3>1, <4>2 DEF Above
        <4>. QED BY <4>1, <4>3
      <3>2. a \in DOMAIN parent'
        BY <1>2, <2>1 DEF Above
      <3>. QED BY <3>1, <3>2 DEF Above
    <2>. QED BY <1>6, <1>8, <2>2, <2>3
  <1>. QED BY <1>7, <1>8

LEMMA InsertKeeps ==
  ASSUME DeptInv, NEW d \in Depts, NEW p \in DOMAIN parent \cup {NoParent}, Insert(d, p)
  PROVE  DeptInv'
  <1>. DEFINE text == FormatAncestors(p, IF p = NoParent THEN <<>> ELSE ancestors[p])
  <1>1. /\ d \notin DOMAIN parent /\ DOMAIN ancestors = DOMAIN parent
        /\ DOMAIN parent \subseteq Depts
        /\ parent' = [e \in DOMAIN parent \cup {d} |-> IF e = d THEN p ELSE parent[e]]
        /\ ancestors' = [e \in DOMAIN parent \cup {d} |-> IF e = d THEN text ELSE ancestors[e]]
        /\ \A e \in DOMAIN parent : parent[e] \in DOMAIN parent \cup {NoParent}
        /\ NoParent \notin Depts
    BY DepartmentAssumption DEF Insert, DeptInv
  <1>. HIDE DEF text
  <1>2. /\ \A e \in DOMAIN parent : Above(e)' = Above(e)
        /\ Above(d)' = IF p = NoParent THEN {} ELSE {p} \cup Above(p)
    BY <1>1, AboveGrows
  <1>3. /\ DOMAIN parent' = DOMAIN parent \cup {d} /\ DOMAIN ancestors' = DOMAIN parent'
        /\ parent'[d] = p /\ ancestors'[d] = text
        /\ \A e \in DOMAIN parent : parent'[e] = parent[e] /\ ancestors'[e] = ancestors[e]
    BY <1>1
  <1>4. /\ text = <<>> \/ Delimited(text)
        /\ \A c \in Depts : Contains(text, Pattern(c)) <=> c \in Above(d)'
    <2>1. CASE p = NoParent
      <3>1. text = <<>>
        BY <2>1 DEF text, FormatAncestors
      <3>2. ASSUME NEW c \in Depts
            PROVE  ~Contains(text, Pattern(c))
        <4>1. text \in Seq(Int) /\ Len(text) = 0
          BY <3>1
        <4>2. \A i \in 0..Len(text) : ~(i + Len(c) + 2 <= Len(text))
          BY <4>1, Ids
        <4>. QED BY <4>1, <4>2, Occurrence
      <3>. QED BY <1>2, <2>1, <3>1, <3>2
    <2>2. CASE p # NoParent
      <3>1. /\ p \in DOMAIN parent /\ p \in Depts
            /\ text = FormatAncestors(p, ancestors[p])
            /\ ancestors[p] = <<>> \/ Delimited(ancestors[p])
        BY <1>1, <2>2 DEF text, DeptInv
      <3>2. /\ Delimited(text)
            /\ \A c \in Depts : Contains(text, Pattern(c)) <=>
                                  Contains(ancestors[p], Pattern(c)) \/ c = p
        BY <3>1, TextGrows
      <3>. QED BY <1>2, <2>2, <3>1, <3>2 DEF DeptInv
    <2>. QED BY <2>1, <2>2
  <1>5. ASSUME NEW c \in Depts, NEW e \in DOMAIN parent'
        PROVE  Contains(ancestors'[e], Pattern(c)) <=> c \in Above(e)'
    <2>1. CASE e = d
      BY <1>3, <1>4, <2>1
    <2>2. CASE e \in DOMAIN parent
      BY <1>2, <1>3, <2>2 DEF DeptInv
    <2>. QED BY <1>3, <2>1, <2>2
  <1>6. \A e \in DOMAIN parent' : parent'[e] \in DOMAIN parent' \cup {NoParent}
    BY <1>1, <1>3
  <1>7. \A e \in DOMAIN parent' : ancestors'[e] = <<>> \/ Delimited(ancestors'[e])
    BY <1>3, <1>4 DEF DeptInv
  <1>8. \A c : Pattern(c)' = Pattern(c)
    BY DEF Pattern
  <1>9. \A t, q : Contains(t, q)' = Contains(t, q)
    BY DEF Contains
  <1>. QED BY <1>1, <1>3, <1>5, <1>6, <1>7, <1>8, <1>9 DEF DeptInv, Delimited

\* subtree_condition finds a department and all below it, and no other, in
\* every tree of departments and whatever digits their ids share.
THEOREM SubtreesAreFound == DeptSpec => []SubtreeIsDescendants
  <1>1. DeptInit => DeptInv
    BY DEF DeptInit, DeptInv
  <1>2. DeptInv /\ [DeptNext]_<<parent, ancestors>> => DeptInv'
    <2>. SUFFICES ASSUME DeptInv, [DeptNext]_<<parent, ancestors>> PROVE DeptInv'
      OBVIOUS
    <2>1. CASE DeptNext
      BY <2>1, InsertKeeps DEF DeptNext
    <2>2. CASE UNCHANGED <<parent, ancestors>>
      <3>1. \A e : Above(e)' = Above(e)
        BY <2>2 DEF Above, ClosedUp
      <3>2. \A t, q : Contains(t, q)' = Contains(t, q)
        BY DEF Contains
      <3>3. \A d : Pattern(d)' = Pattern(d) /\ Delimited(d)' = Delimited(d)
        BY DEF Pattern, Delimited
      <3>. QED BY <2>2, <3>1, <3>2, <3>3 DEF DeptInv
    <2>. QED BY <2>1, <2>2
  <1>3. DeptInv => SubtreeIsDescendants
    BY DEF DeptInv, SubtreeIsDescendants, SubtreeCondition, Pattern
  <1>. QED BY <1>1, <1>2, <1>3, PTL DEF DeptSpec
-----------------------------------------------------------------------------
(* Data rules. *)

\* A value of a column is a number and never NULL; so is what a text becomes.
LEMMA ValueFacts ==
  ASSUME NEW kind \in Kinds, NEW t \in Texts
  PROVE  /\ Values(kind) \subseteq Int /\ Null \notin Values(kind)
         /\ Coerce(kind, t).at \in Int
  <1>1. Position[t] \in Int /\ \A u \in Texts : Position[u] \in Nat
    BY RuleAssumption
  <1>2. Stripped[t] \in DOMAIN Number => Number[Stripped[t]] \in Int
    BY RuleAssumption
  <1>3. Values(kind) \subseteq Int /\ Null \notin Values(kind)
    BY <1>1 DEF Values, Kinds, Null
  <1>4. Coerce(kind, t).at \in Int
    BY <1>1, <1>2 DEF Coerce, Kinds, Invalid
  <1>. QED BY <1>3, <1>4

\* An operator binds what its negation binds, and is an order if it is one.
LEMMA NegationFails ==
  ASSUME NEW op \in DOMAIN Negation, NEW kind, NEW t
  PROVE  Fails(op, kind, t) <=> Fails(Negation[op], kind, t)
  <1>1. TextsBound(op, t) = TextsBound(Negation[op], t)
    BY DEF Negation, TextsBound
  <1>2. op \in Ordered <=> Negation[op] \in Ordered
    BY DEF Negation, Ordered
  <1>3. op # "like" /\ Negation[op] # "like"
    BY DEF Negation
  <1>. QED BY <1>1, <1>2, <1>3 DEF Fails, Raises, Refused

\* Operators come in pairs that are wrong on the same rules and otherwise
\* part the rows with a value, for any texts and any order of theirs.
THEOREM RowsAreSplit == RuleInit => NegationSplitsRows
  <1>. SUFFICES ASSUME RuleInit, NEW r \in rules, NEW op \in DOMAIN Negation
                PROVE  LET not == Negation[op]
                       IN /\ Rows(op, r) \cap Rows(not, r) = {}
                          /\ Values(r.kind) \subseteq Rows(op, r) \cup Rows(not, r)
                          /\ Null \in Rows(op, r) <=> op = "is_null"
                          /\ Null \in Rows(not, r) => op = "in" /\ Rows(op, r) = {}
    BY NegationFails DEF NegationSplitsRows
  <1>1. PICK kind \in Kinds, t \in Texts : kind = r.kind /\ t = r.raw
    BY DEF RuleInit
  <1>2. /\ Values(kind) \subseteq Int /\ Null \notin Values(kind) /\ Null \in Int
        /\ Coerce(kind, t).at \in Int
    BY ValueFacts DEF Null
  <1>3. PICK c \in Int : c = Coerce(kind, t).at
    BY <1>2
  <1>4. PICK items : items = {i.at : i \in Items(kind, t)}
    OBVIOUS
  <1>. DEFINE Picked(o, v) ==
         CASE o = "is_null" -> v = Null
           [] o = "is_not_null" -> v # Null
           [] o = "in" -> v # Null /\ v \in items
           [] o = "not_in" -> items = {} \/ (v # Null /\ v \notin items)
           [] OTHER -> v # Null /\ Compare(o, v, c)
  <1>5. \A o : Rows(o, r) = {v \in Values(kind) \cup {Null} : Picked(o, v)}
    BY <1>1, <1>3, <1>4 DEF Rows, Selects
  <1>6. \/ op = "eq" /\ Negation[op] = "ne"
        \/ op = "gt" /\ Negation[op] = "lte"
        \/ op = "lt" /\ Negation[op] = "gte"
        \/ op = "in" /\ Negation[op] = "not_in"
        \/ op = "is_null" /\ Negation[op] = "is_not_null"
    BY DEF Negation
  <1>7. CASE op \in {"eq", "gt", "lt"}
    <2>1. ASSUME NEW v \in Values(kind)
          PROVE  Compare(op, v, c) <=> ~Compare(Negation[op], v, c)
      <3>1. v \in Int
        BY <1>2
      <3>. QED BY <1>6, <1>7, <3>1 DEF Compare
    <2>2. \A v : /\ Picked(op, v) <=> v # Null /\ Compare(op, v, c)
                 /\ Picked(Negation[op], v) <=> v # Null /\ Compare(Negation[op], v, c)
      BY <1>6, <1>7
    <2>. HIDE DEF Picked
    <2>. QED BY <1>1, <1>2, <1>5, <1>7, <2>1, <2>2
  <1>8. CASE op = "in"
    <2>1. \A v : /\ Picked(op, v) <=> v # Null /\ v \in items
                 /\ Picked(Negation[op], v) <=> items = {} \/ (v # Null /\ v \notin items)
      BY <1>6, <1>8
    <2>. HIDE DEF Picked
    <2>. QED BY <1>1, <1>2, <1>5, <1>8, <2>1
  <1>9. CASE op = "is_null"
    <2>1. \A v : /\ Picked(op, v) <=> v = Null
                 /\ Picked(Negation[op], v) <=> v # Null
      BY <1>6, <1>9
    <2>. HIDE DEF Picked
    <2>. QED BY <1>1, <1>2, <1>5, <1>9, <2>1
  <1>. QED BY <1>6, <1>7, <1>8, <1>9

\* A list selects what its parts select one by one, and is wrong if one of
\* them is, for any texts, however they are split and stripped.
THEOREM ListsAreUnions == RuleInit => InIsUnionOfEq
  <1>. SUFFICES ASSUME RuleInit, NEW r \in rules
                PROVE  /\ Fails("in", r.kind, r.raw) <=>
                            \E u \in Inked(r.raw) : Fails("eq", r.kind, u)
                       /\ \A v \in Values(r.kind) \cup {Null} :
                            Selects("in", r.kind, r.raw, v) <=>
                              \E u \in Inked(r.raw) : Selects("eq", r.kind, u, v)
    BY DEF InIsUnionOfEq
  <1>1. PICK kind \in Kinds, t \in Texts : kind = r.kind /\ t = r.raw
    BY DEF RuleInit
  <1>2. Listed(t) = Inked(t) /\ Items(kind, t) = {Coerce(kind, u) : u \in Inked(t)}
    <2>1. \A i \in 1..Len(Parts[t]) : Parts[t][i] \in Texts
      BY <1>1, RuleAssumption
    <2>2. Listed(t) = Inked(t)
      BY <2>1 DEF Listed, Inked
    <2>. QED BY <2>2 DEF Items
  <1>3. Fails("in", kind, t) <=> \E u \in Inked(t) : Fails("eq", kind, u)
    <2>1. TextsBound("in", t) = Inked(t) /\ \A u : TextsBound("eq", u) = {u}
      BY <1>2 DEF TextsBound
    <2>. DEFINE Wrong(u) == \/ Coerce(kind, u) = Invalid \/ kind = "datetime"
                            \/ kind = "decimal" /\ Stripped[u] \notin DOMAIN Number
    <2>2. Fails("in", kind, t) <=> \E u \in Inked(t) : Wrong(u)
      BY <2>1 DEF Fails, Raises, Refused, Ordered
    <2>3. ASSUME NEW u
          PROVE  Fails("eq", kind, u) <=> Wrong(u)
      <3>1. TextsBound("eq", u) = {u}
        BY <2>1
      <3>. QED BY <3>1 DEF Fails, Raises, Refused, Ordered
    <2>. HIDE DEF Wrong
    <2>. QED BY <2>2, <2>3
  <1>4. ASSUME NEW v
        PROVE  Selects("in", kind, t, v) <=> \E u \in Inked(t) : Selects("eq", kind, u, v)
    <2>1. Selects("in", kind, t, v) <=> v # Null /\ v \in {i.at : i \in Items(kind, t)}
      BY DEF Selects
    <2>2. \A u : Selects("eq", kind, u, v) <=> v # Null /\ v = Coerce(kind, u).at
      BY DEF Selects, Compare
    <2>. QED BY <1>2, <2>1, <2>2
  <1>. QED BY <1>1, <1>3, <1>4

-----------------------------------------------------------------------------
(* Masking. *)

HeapInv ==
  /\ heap \in [Nodes -> Objects]
  /\ keys.form \in {"default", "frozenset", "set"}
  /\ Buildable

\* The keys given are lower-case ones where that is up to the caller.
Known == keys.form = "frozenset" => \A k \in keys.given : LowKeyOf[k] = k

\* A call is about an object below the root; what is in its memo is above that
\* object, or is the dataclass itself that asdict made a copy of; no key on its
\* path is sensitive; and if its result is hashed, a set is above it.
CallInv(c) ==
  /\ c.node \in Below(Root) \cup {Root}
  /\ c.memo \subseteq Nodes
  /\ \A a \in c.memo : c.node \in Below(a) \/ (a = c.node /\ c.copied)
  /\ c.at \in Seq(Keys \cup UNION Spans)
  /\ Known => \A i \in 1..Len(c.at) : c.at[i] \in Keys => ~Secret(c.at[i])
  /\ c.hashed => \E s \in Below(Root) \cup {Root} :
                   SetLike(heap[s].kind) /\ c.node \in Below(s)

\* What the properties say of one thing found.
FoundInv(f) ==
  /\ Known => /\ f.what = "kept" =>
                   \A i \in 1..Len(f.at) : f.at[i] \in Keys => ~Secret(f.at[i])
              /\ f.what = "mask" => Secret(f.at[Len(f.at)])
  /\ f.what = "circular" => OnCycle(f.node)
  /\ f.what \in {"TypeError", "NotDumped"} =>
       \E n \in Below(Root) \cup {Root} :
         \/ heap[n].kind = "record" /\ (InASet(n) \/ ~Dumps(n))
         \/ heap[n].kind = "range" /\ InASet(n)
         \/ heap[n].kind = "view" /\ \E m \in Kids(n) : ~Hashable(m)

\* The kinds of objects.
ObjectKinds == Leaves \cup {"dict", "record", "list", "tuple", "set", "frozenset", "view"}

MaskInv ==
  /\ HeapInv
  /\ \A c \in calls : CallInv(c)
  /\ \A f \in found : FoundInv(f)

\* Children are nodes, and their keys are keys only in dicts and dataclasses.
LEMMA ObjectFacts ==
  ASSUME HeapInv, NEW n \in Nodes
  PROVE  /\ heap[n].kind \in ObjectKinds
         /\ \A k \in DOMAIN heap[n].kids :
              /\ k \in Keys \cup UNION Spans
              /\ heap[n].kids[k] \in Nodes /\ heap[n].kids[k] \in Kids(n)
              /\ heap[n].kind \notin {"dict", "record"} => k \notin Keys
         /\ Kids(n) \subseteq Nodes
  <1>1. heap[n] \in Objects
    BY DEF HeapInv
  <1>2. CASE heap[n] \in [kind : Leaves, kids : {<<>>}]
    <2>1. DOMAIN heap[n].kids = {} /\ heap[n].kind \in Leaves
      BY <1>2
    <2>. QED BY <2>1 DEF Kids, ObjectKinds
  <1>3. CASE heap[n] \in [kind : {"dict", "record"},
                         kids : UNION {[D -> Nodes] : D \in SUBSET Keys}]
    <2>1. PICK D \in SUBSET Keys : heap[n].kids \in [D -> Nodes]
      BY <1>3
    <2>2. heap[n].kind \in {"dict", "record"}
      BY <1>3
    <2>. QED BY <2>1, <2>2 DEF Kids, ObjectKinds
  <1>4. CASE heap[n] \in [kind : {"list", "tuple", "set", "frozenset", "view"},
                         kids : UNION {[D -> Nodes] : D \in Spans}]
    <2>1. PICK D \in Spans : heap[n].kids \in [D -> Nodes]
      BY <1>4
    <2>2. heap[n].kind \in {"list", "tuple", "set", "frozenset", "view"}
      BY <1>4
    <2>3. D \cap Keys = {} /\ D \subseteq UNION Spans
      BY MaskingAssumption
    <2>. QED BY <2>1, <2>2, <2>3 DEF Kids, ObjectKinds
  <1>. QED BY <1>1, <1>2, <1>3, <1>4 DEF Objects

\* What is below an object is closed, has its children, and is them or below
\* them.
LEMMA BelowFacts ==
  ASSUME HeapInv, NEW n \in Nodes
  PROVE  /\ Below(n) \subseteq Nodes
         /\ Kids(n) \subseteq Below(n)
         /\ \A m \in Below(n) : Kids(m) \subseteq Below(n)
         /\ \A m \in Below(n) : \E k \in Kids(n) : m \in Below(k) \cup {k}
  <1>1. ASSUME NEW m \in Nodes
        PROVE  /\ Below(m) \subseteq Nodes
               /\ Kids(m) \subseteq Below(m)
               /\ \A i \in Below(m) : Kids(i) \subseteq Below(m)
    <2>1. \A i \in Nodes : Kids(i) \subseteq Nodes
      BY ObjectFacts
    <2>. QED BY <2>1 DEF Below, ClosedDown
  <1>. DEFINE S == UNION {Below(k) \cup {k} : k \in Kids(n)}
  <1>2. Kids(n) \subseteq Nodes
    BY ObjectFacts
  <1>3. S \in SUBSET Nodes /\ Kids(n) \subseteq S
    BY <1>1, <1>2
  <1>4. ClosedDown(S)
    <2>. SUFFICES ASSUME NEW m \in S
                  PROVE  Kids(m) \subseteq S
      BY DEF ClosedDown
    <2>1. PICK k \in Kids(n) : m \in Below(k) \cup {k}
      OBVIOUS
    <2>2. Kids(m) \subseteq Below(k)
      BY <1>1, <1>2, <2>1
    <2>. QED BY <2>2
  <1>5. Below(n) \subseteq S
    <2>. HIDE DEF S
    <2>. QED BY <1>3, <1>4 DEF Below
  <1>. QED BY <1>1, <1>5

\* What is below an AbstractSet can be hashed, or one of them is a view of
\* what cannot.
LEMMA BelowSets ==
  ASSUME HeapInv, NEW s \in Nodes, SetLike(heap[s].kind), NEW n \in Below(s)
  PROVE  \/ heap[n].kind \in Leaves \cup {"tuple", "record", "frozenset"}
         \/ heap[s].kind = "view" /\ \E m \in Kids(s) : ~Hashable(m)
  <1>1. PICK k \in Kids(s) : n \in Below(k) \cup {k}
    BY BelowFacts
  <1>2. CASE Hashable(k)
    BY <1>1, <1>2 DEF Hashable
  <1>3. CASE ~Hashable(k)
    BY <1>3 DEF HeapInv, Buildable, SetLike
  <1>. QED BY <1>2, <1>3

\* Keys that are matched are sensitive, if they were given in lower case.
LEMMA HitsAreSecrets ==
  ASSUME HeapInv, Known, NEW k
  PROVE  Hits(k) <=> Secret(k)
  <1>1. CASE keys.form = "default"
    BY <1>1 DEF Hits, Secret, Matched
  <1>2. CASE keys.form = "set"
    BY <1>2 DEF Hits, Secret, Matched
  <1>3. CASE keys.form = "frozenset"
    BY <1>3 DEF Hits, Secret, Matched, Known
  <1>. QED BY <1>1, <1>2, <1>3 DEF HeapInv

\* A step that leaves the heap and the keys alone leaves what is said of them.
LEMMA HeapStays ==
  ASSUME UNCHANGED <<heap, keys>>
  PROVE  /\ HeapInv' <=> HeapInv
         /\ \A c : CallInv(c)' <=> CallInv(c)
         /\ \A f : FoundInv(f)' <=> FoundInv(f)
  <1>1. \A n : Kids(n)' = Kids(n)
    BY DEF Kids
  <1>2. \A n : Below(n)' = Below(n)
    BY <1>1 DEF Below, ClosedDown
  <1>3. \A n : /\ Dumps(n)' = Dumps(n) /\ OnCycle(n)' = OnCycle(n)
              /\ Hashable(n)' = Hashable(n) /\ InASet(n)' = InASet(n)
    BY <1>2 DEF Dumps, OnCycle, Hashable, InASet
  <1>4. Buildable' = Buildable
    BY <1>1, <1>3 DEF Buildable
  <1>5. Known' = Known /\ \A k : Secret(k)' = Secret(k)
    BY DEF Known, Secret
  <1>. QED BY <1>1, <1>2, <1>3, <1>4, <1>5 DEF HeapInv, CallInv, FoundInv

\* What a call finds is as the properties say.
LEMMA ResultsAreRight ==
  ASSUME HeapInv, NEW c, CallInv(c), NEW f \in Results(c)
  PROVE  FoundInv(f)
  <1>1. c.node \in Nodes /\ heap[c.node].kind \in ObjectKinds
    BY BelowFacts, ObjectFacts, MaskingAssumption DEF CallInv
  <1>2. CASE f = [at |-> c.at, node |-> c.node, what |-> Outcome(c)]
    <2>1. f.at = c.at /\ f.node = c.node /\ f.what = Outcome(c) /\ f.what # "mask"
      BY <1>2 DEF Outcome
    <2>2. Outcome(c) = "circular" => c.node \in c.memo /\ ~c.copied
      BY DEF Outcome
    <2>3. Outcome(c) = "NotDumped" => heap[c.node].kind = "record" /\ ~Dumps(c.node)
      BY DEF Outcome, Branch
    <2>4. ASSUME Outcome(c) = "TypeError"
          PROVE  \/ heap[c.node].kind \in {"record", "range"} /\ InASet(c.node)
                 \/ \E s \in Below(Root) \cup {Root} :
                      heap[s].kind = "view" /\ \E m \in Kids(s) : ~Hashable(m)
      <3>1. c.hashed /\ heap[c.node].kind \in {"dict", "list", "record", "range", "set", "view"}
        BY <2>4, <1>1 DEF Outcome, Branch, Unhashable
      <3>2. PICK s \in Below(Root) \cup {Root} :
              SetLike(heap[s].kind) /\ c.node \in Below(s)
        BY <3>1 DEF CallInv
      <3>3. s \in Nodes
        BY BelowFacts, MaskingAssumption
      <3>4. InASet(c.node)
        BY <3>2, <3>3 DEF InASet
      <3>5. \/ heap[c.node].kind \in Leaves \cup {"tuple", "record", "frozenset"}
            \/ heap[s].kind = "view" /\ \E m \in Kids(s) : ~Hashable(m)
        BY <3>2, <3>3, BelowSets
      <3>. QED BY <3>1, <3>2, <3>4, <3>5 DEF Leaves
    <2>5. f.what \in {"TypeError", "NotDumped"} =>
            \E n \in Below(Root) \cup {Root} :
              \/ heap[n].kind = "record" /\ (InASet(n) \/ ~Dumps(n))
              \/ heap[n].kind = "range" /\ InASet(n)
              \/ heap[n].kind = "view" /\ \E m \in Kids(n) : ~Hashable(m)
      BY <2>1, <2>3, <2>4 DEF CallInv
    <2>. QED BY <2>1, <2>2, <2>5 DEF FoundInv, CallInv, OnCycle
  <1>3. CASE \E k \in Hidden(c) :
               f = [at |-> Append(c.at, k), node |-> heap[c.node].kids[k], what |-> "mask"]
    <2>1. PICK k \in Hidden(c) :
            f = [at |-> Append(c.at, k), node |-> heap[c.node].kids[k], what |-> "mask"]
      BY <1>3
    <2>2. f.what = "mask" /\ f.at = Append(c.at, k) /\ Hits(k)
          /\ k \in Keys \cup UNION Spans
      BY <1>1, <2>1, ObjectFacts DEF Hidden
    <2>3. f.at[Len(f.at)] = k
      BY <2>2 DEF CallInv
    <2>4. Known => Secret(k)
      BY <2>2, HitsAreSecrets
    <2>. QED BY <2>2, <2>3, <2>4 DEF FoundInv
  <1>. QED BY <1>2, <1>3 DEF Results

\* The calls that a call makes are as it is itself.
LEMMA CalleesAreRight ==
  ASSUME HeapInv, NEW c, CallInv(c), NEW e \in Callees(c)
  PROVE  CallInv(e)
  <1>1. c.node \in Nodes /\ Below(Root) \subseteq Nodes /\ Root \in Nodes
    BY BelowFacts, MaskingAssumption DEF CallInv
  <1>2. CASE e = Dump(c)
    <2>1. e.node = c.node /\ e.at = c.at /\ e.copied /\ e.hashed = c.hashed
          /\ e.memo = c.memo \cup {c.node}
      BY <1>2 DEF Dump
    <2>. QED BY <1>1, <2>1 DEF CallInv
  <1>3. CASE \E k \in DOMAIN heap[c.node].kids \ Hidden(c) :
               Branch(c) # "record" /\ e = Item(c, k)
    <2>1. PICK k \in DOMAIN heap[c.node].kids \ Hidden(c) :
            Branch(c) # "record" /\ e = Item(c, k)
      BY <1>3
    <2>2. /\ e.node = heap[c.node].kids[k] /\ e.at = Append(c.at, k)
          /\ e.memo = c.memo \cup {c.node}
          /\ e.hashed <=> c.hashed \/ SetLike(Branch(c))
      BY <2>1 DEF Item, Memo
    <2>3. e.node \in Kids(c.node) /\ e.node \in Nodes /\ k \in Keys \cup UNION Spans
      BY <1>1, <2>1, <2>2, ObjectFacts
    <2>4. e.node \in Below(Root)
      BY <1>1, <2>3, BelowFacts DEF CallInv
    <2>5. e.memo \subseteq Nodes /\ \A a \in e.memo : e.node \in Below(a)
      <3>1. \A a \in Nodes : c.node \in Below(a) \/ c.node = a => e.node \in Below(a)
        BY <2>3, BelowFacts
      <3>. QED BY <1>1, <2>2, <3>1 DEF CallInv
    <2>6. Known /\ k \in Keys => ~Secret(k)
      <3>1. k \in Keys => heap[c.node].kind \in {"dict", "record"}
        BY <1>1, <2>1, ObjectFacts
      <3>2. k \in Keys => ~Hits(k)
        BY <2>1, <3>1 DEF Hidden, Branch
      <3>. QED BY <3>2, HitsAreSecrets
    <2>7. /\ e.at \in Seq(Keys \cup UNION Spans)
          /\ Known => \A i \in 1..Len(e.at) : e.at[i] \in Keys => ~Secret(e.at[i])
      <3>1. /\ e.at \in Seq(Keys \cup UNION Spans) /\ Len(e.at) = Len(c.at) + 1
            /\ \A i \in 1..Len(e.at) : e.at[i] = IF i <= Len(c.at) THEN c.at[i] ELSE k
        BY <2>2, <2>3 DEF CallInv
      <3>. QED BY <2>6, <3>1 DEF CallInv
    <2>8. ASSUME e.hashed
          PROVE  \E s \in Below(Root) \cup {Root} :
                   SetLike(heap[s].kind) /\ e.node \in Below(s)
      <3>1. CASE c.hashed
        <4>1. PICK s \in Below(Root) \cup {Root} :
                SetLike(heap[s].kind) /\ c.node \in Below(s)
          BY <3>1 DEF CallInv
        <4>2. e.node \in Below(s)
          BY <1>1, <2>3, <4>1, BelowFacts
        <4>. QED BY <4>1, <4>2
      <3>2. CASE SetLike(Branch(c))
        <4>1. SetLike(heap[c.node].kind)
          BY <3>2 DEF Branch, SetLike
        <4>2. e.node \in Below(c.node) /\ c.node \in Below(Root) \cup {Root}
          BY <1>1, <2>3, BelowFacts DEF CallInv
        <4>. QED BY <4>1, <4>2
      <3>. QED BY <2>2, <2>8, <3>1, <3>2
    <2>. QED BY <2>4, <2>5, <2>7, <2>8 DEF CallInv
  <1>. QED BY <1>2, <1>3 DEF Callees

LEMMA MaskStep == ASSUME MaskInv, MaskNext PROVE MaskInv'
  <1>1. ASSUME NEW n \in Nodes, BuildObject(n)
        PROVE  MaskInv'
    <2>1. PICK o \in Objects : heap' = [heap EXCEPT ![n] = o]
      BY <1>1 DEF BuildObject
    <2>2. HeapInv'
      BY <1>1, <2>1 DEF BuildObject, MaskInv, HeapInv
    <2>. QED BY <1>1, <2>2 DEF BuildObject, MaskInv
  <1>2. CASE StartMasking
    <2>. DEFINE c == [node |-> Root, at |-> <<>>, memo |-> {}, depth |-> 0,
                      copied |-> FALSE, hashed |-> FALSE]
    <2>1. CallInv(c)
      BY DEF CallInv
    <2>. HIDE DEF c
    <2>2. calls' = {c} /\ found' = found /\ UNCHANGED <<heap, keys>>
      BY <1>2 DEF StartMasking, c
    <2>. QED BY <2>1, <2>2, HeapStays DEF MaskInv
  <1>3. CASE MaskInner
    <2>1. \A e \in calls' : CallInv(e)
      BY <1>3, CalleesAreRight DEF MaskInner, MaskInv
    <2>2. \A f \in found' : FoundInv(f)
      BY <1>3, ResultsAreRight DEF MaskInner, MaskInv
    <2>. QED BY <1>3, <2>1, <2>2, HeapStays DEF MaskInner, MaskInv
  <1>. QED BY <1>1, <1>2, <1>3 DEF MaskNext

LEMMA MaskInvariant == MaskSpec => []MaskInv
  <1>1. MaskInit => MaskInv
    <2>. SUFFICES ASSUME MaskInit
                  PROVE  HeapInv
      BY DEF MaskInit, MaskInv
    <2>1. heap \in [Nodes -> Objects] /\ keys.form \in {"default", "frozenset", "set"}
      BY DEF MaskInit, Objects, Leaves
    <2>2. \A n \in Nodes : heap[n].kind = "scalar"
      BY DEF MaskInit
    <2>. QED BY <2>1, <2>2 DEF HeapInv, Buildable
  <1>2. MaskInv /\ [MaskNext]_masking => MaskInv'
    <2>1. MaskInv /\ UNCHANGED masking => MaskInv'
      BY HeapStays DEF MaskInv, masking
    <2>. QED BY <2>1, MaskStep
  <1>. QED BY <1>1, <1>2, PTL DEF MaskSpec

\* No scalar is left below a sensitive key, for any heap, depth and nesting.
THEOREM SecretsAreHidden == MaskSpec => []KnownSecretsHidden
  <1>1. MaskInv => KnownSecretsHidden
    BY DEF MaskInv, FoundInv, Known, KnownSecretsHidden
  <1>. QED BY <1>1, MaskInvariant, PTL

\* Only what is inside itself is cut as circular.
THEOREM OnlyCyclesAreCut == MaskSpec => []CircularMeansCycle
  <1>1. MaskInv => CircularMeansCycle
    BY DEF MaskInv, FoundInv, CircularMeansCycle
  <1>. QED BY <1>1, MaskInvariant, PTL

\* Masking raises only for dataclasses and ranges in sets, for dataclasses above
\* cycles and above what cannot be copied, and for views of what cannot be
\* hashed: in any heap without these, no call that only wants to log raises.
THEOREM LoggingSurvives == MaskSpec => []RaisesAreExplained
  <1>1. MaskInv => RaisesAreExplained
    BY DEF MaskInv, FoundInv, RaisesAreExplained
  <1>. QED BY <1>1, MaskInvariant, PTL

-----------------------------------------------------------------------------
(* Instances. *)

\* The program knows the values of the attributes that are loaded or assigned.
OrmInv ==
  /\ stage \in {"none", "transient", "persistent", "detached"}
  /\ attr \in [Columns -> {"loaded", "unset", "deferred", "expired", "assigned"}]
  /\ dirty \in BOOLEAN
  /\ known = {c \in Columns : attr[c] \in {"loaded", "assigned"}}

LEMMA FlushStep ==
  ASSUME OrmInv, attr' = Flushed, known' = known \cup SetOnUpdate, dirty' = FALSE,
         stage' = stage
  PROVE  OrmInv'
  <1>1. SetOnUpdate \subseteq Columns
    BY OrmAssumption DEF SetOnUpdate
  <1>2. attr' \in [Columns -> {"loaded", "unset", "deferred", "expired", "assigned"}]
    BY DEF Flushed, OrmInv
  <1>3. \A c \in Columns : attr'[c] \in {"loaded", "assigned"}
                            <=> attr[c] \in {"loaded", "assigned"} \/ c \in SetOnUpdate
    BY DEF Flushed, OrmInv
  <1>4. known' = {c \in Columns : attr'[c] \in {"loaded", "assigned"}}
    BY <1>1, <1>3 DEF OrmInv
  <1>. QED BY <1>2, <1>4 DEF OrmInv

LEMMA OrmStep == ASSUME OrmInv, OrmNext PROVE OrmInv'
  <1>. USE OrmAssumption DEF OrmInv
  <1>1. CASE Construct
    BY <1>1 DEF Construct
  <1>2. CASE InsertRow
    <2>1. PICK rest \in {"unset", "expired"} :
            attr' = [c \in Columns |->
              CASE c \in Generated \/ attr[c] = "assigned" -> "loaded"
                [] c \notin Generated /\ attr[c] = "unset" -> rest
                [] OTHER -> attr[c]]
      BY <1>2 DEF InsertRow
    <2>2. \A c \in Columns :
            /\ c \in Generated \/ attr[c] = "assigned" => attr'[c] = "loaded"
            /\ c \notin Generated /\ attr[c] = "unset" => attr'[c] = rest
            /\ c \notin Generated /\ attr[c] \notin {"assigned", "unset"}
                 => attr'[c] = attr[c]
      BY <2>1
    <2>3. attr' \in [Columns -> {"loaded", "unset", "deferred", "expired", "assigned"}]
      <3>1. \A c \in Columns :
              attr'[c] \in {"loaded", "unset", "deferred", "expired", "assigned"}
        BY <2>2
      <3>. QED BY <2>1, <3>1
    <2>. QED BY <1>2, <2>2, <2>3 DEF InsertRow
  <1>3. CASE Select
    BY <1>3 DEF Select
  <1>4. ASSUME NEW c \in Columns, Assign(c)
        PROVE  OrmInv'
    BY <1>4 DEF Assign
  <1>5. CASE Refresh
    BY <1>5 DEF Refresh
  <1>6. CASE FlushRow \/ CommitRow
    BY <1>6, FlushStep DEF FlushRow, CommitRow
  <1>7. CASE RollbackRow
    BY <1>7 DEF RollbackRow
  <1>8. CASE CloseSession
    BY <1>8 DEF CloseSession
  <1>. QED BY <1>1, <1>2, <1>3, <1>4, <1>5, <1>6, <1>7, <1>8 DEF OrmNext

\* Through every life of an instance, to_dict loads nothing and shows exactly
\* what the program knows and the session has flushed.
THEOREM DictsAreComplete == OrmSpec => []ToDictShowsTheKnown
  <1>1. OrmInit => OrmInv
    BY DEF OrmInit, OrmInv
  <1>2. OrmInv /\ [OrmNext]_orm => OrmInv'
    BY OrmStep DEF OrmInv, orm
  <1>3. OrmInv => ToDictShowsTheKnown
    BY DEF OrmInv, ToDictShowsTheKnown, DictKeys, Unloaded, Expired, Loading
  <1>. QED BY <1>1, <1>2, <1>3, PTL DEF OrmSpec
=============================================================================
