---------------------------- MODULE Departments ----------------------------
(***************************************************************************)
(* backend/modules/system/models/dept.py: departments that keep the ids    *)
(* above them in a text, and the condition that finds a subtree by it.     *)
(* Ids are written as sequences of digits; characters are numbers.         *)
(***************************************************************************)
EXTENDS Integers, Sequences

CONSTANTS
  Depts,     \* the ids, none of them zero
  Comma,
  NoParent,  \* None, or no id at all
  MaxText    \* the length of the column, 512

ASSUME DepartmentAssumption ==
  /\ NoParent \notin Depts
  /\ Comma \in Int
  /\ Depts \subseteq Seq(Int \ {Comma}) /\ <<>> \notin Depts
  /\ MaxText \in Nat

VARIABLES
  parent,    \* parent[d]: for the departments there are
  ancestors  \* ancestors[d]: the text

\* str.strip(',').
StripCommas(s) ==
  LET others == {i \in 1..Len(s) : s[i] # Comma}
      first == CHOOSE i \in others : \A j \in others : i <= j
      last == CHOOSE i \in others : \A j \in others : j <= i
  IN IF others = {} THEN <<>> ELSE SubSeq(s, first, last)

FormatAncestors(p, text) ==
  IF p = NoParent THEN <<>>
  ELSE LET clean == StripCommas(text)
           path == IF clean = <<>> THEN p ELSE clean \o <<Comma>> \o p
       IN <<Comma>> \o path \o <<Comma>>

\* SQL's LIKE '%t%'.
Contains(s, t) ==
  \E i \in 0..Len(s) : i + Len(t) <= Len(s) /\ SubSeq(s, i + 1, i + Len(t)) = t

\* Bug: the id without its commas.
BugSubtreeCondition(d, e) == e = d \/ Contains(ancestors[e], d)

\* subtree_condition(d) on the row e.
SubtreeCondition(d, e) ==
  e = d \/ Contains(ancestors[e], <<Comma>> \o d \o <<Comma>>)

DeptInit == parent = <<>> /\ ancestors = <<>>

\* A department is inserted below p; the database refuses a text that is too
\* long for its column.
Insert(d, p) ==
  LET text == FormatAncestors(p, IF p = NoParent THEN <<>> ELSE ancestors[p])
  IN /\ d \notin DOMAIN parent
     /\ Len(text) <= MaxText
     /\ parent' = [e \in DOMAIN parent \cup {d} |-> IF e = d THEN p ELSE parent[e]]
     /\ ancestors' = [e \in DOMAIN parent \cup {d} |-> IF e = d THEN text ELSE ancestors[e]]

DeptNext == \E d \in Depts : \E p \in DOMAIN parent \cup {NoParent} : Insert(d, p)

DeptSpec == DeptInit /\ [][DeptNext]_<<parent, ancestors>>

-----------------------------------------------------------------------------
\* The sets that have everything above what is in them, and the departments
\* above e: those that no such set misses when it has e's parent.
ClosedUp(S) == \A f \in S : parent[f] \in S \cup {NoParent}

Above(e) ==
  {a \in DOMAIN parent :
     \A S \in SUBSET DOMAIN parent :
       ClosedUp(S) /\ parent[e] \in S \cup {NoParent} => a \in S}

\* subtree_condition finds the department and everything below it, and nothing
\* else, however deep it is and whatever digits ids share.
SubtreeIsDescendants ==
  \A e \in DOMAIN parent :
    LET above == Above(e) IN
    \A d \in DOMAIN parent : SubtreeCondition(d, e) <=> e = d \/ d \in above
=============================================================================
