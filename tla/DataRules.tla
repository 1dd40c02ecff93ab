----------------------------- MODULE DataRules -----------------------------
(***************************************************************************)
(* backend/modules/system/models/rule.py: from the text of a data rule to  *)
(* a condition on a column, and the rows the condition selects.  A value   *)
(* is represented by its position in the order of its type; texts by what  *)
(* str.split, str.strip and int make of them.                              *)
(***************************************************************************)
EXTENDS Integers, Sequences

CONSTANTS
  Texts,     \* what an administrator may type
  Parts,     \* Parts[x]: x.split(',')
  Stripped,  \* Stripped[x]: x.strip()
  Empty,     \* the empty text
  Number,    \* Number[x]: int(x), for the texts it accepts; float and Decimal
             \* accept more, which makes no difference here
  Truthy,    \* the texts that stand for True
  Position,  \* Position[x]: x among the texts in the database's order
  Like       \* Like[x]: the positions that match the pattern x

ASSUME RuleAssumption ==
  /\ Parts \in [Texts -> Seq(Texts)] /\ Stripped \in [Texts -> Texts]
  /\ DOMAIN Number \subseteq Texts /\ Number \in [DOMAIN Number -> Int]
  /\ Truthy \subseteq Texts
  /\ Position \in [Texts -> Nat]
  /\ \A x, y \in Texts : Position[x] = Position[y] => x = y

VARIABLE rules  \* the rules that are applied: rule_value and the kind of the column

\* Integer and Float; Boolean; String and Text; Numeric, as Uuid; DateTime.
Kinds == {"number", "bool", "text", "decimal", "datetime"}

Ordered == {"gt", "gte", "lt", "lte"}

\* The values of a column that are not NULL, and NULL.
Values(kind) ==
  CASE kind \in {"number", "decimal"} -> 0..3
    [] kind = "bool" -> {0, 1}
    [] kind = "text" -> {Position[x] : x \in Texts}
    [] kind = "datetime" -> {0, 1}
Null == -1

RuleInit == rules \in {{}} \cup {{r} : r \in [kind : Kinds, raw : Texts]}

-----------------------------------------------------------------------------
Invalid == [type |-> "ValueError", at |-> 0]

\* coerce_value: bool before int, of which it is a subclass.  A text that a
\* column of decimals is compared with stands where the driver puts it.
Coerce(kind, x) ==
  CASE kind = "bool" -> [type |-> "bool", at |-> IF Stripped[x] \in Truthy THEN 1 ELSE 0]
    [] kind = "number" -> IF Stripped[x] \in DOMAIN Number
                          THEN [type |-> "number", at |-> Number[Stripped[x]]]
                          ELSE Invalid
    [] kind = "decimal" /\ Stripped[x] \in DOMAIN Number
         -> [type |-> "text", at |-> Number[Stripped[x]]]
    [] OTHER -> [type |-> "text", at |-> Position[x]]

\* Bug: blank parts are not left out.
BugListed(x) == {Parts[x][i] : i \in 1..Len(Parts[x])}

\* The parts of a list that count.
Listed(x) == {Parts[x][i] : i \in {j \in 1..Len(Parts[x]) : Stripped[Parts[x][j]] # Empty}}

\* The items of IN and NOT IN.
Items(kind, x) == {Coerce(kind, t) : t \in Listed(x)}

\* The texts whose values the condition binds.
TextsBound(op, x) ==
  CASE op \in {"is_null", "is_not_null"} -> {}
    [] op \in {"in", "not_in"} -> Listed(x)
    [] OTHER -> {x}

\* build_expression raises: ValueError, or SQLAlchemy's for an order of truth
\* values.
Raises(op, kind, x) ==
  \/ \E t \in TextsBound(op, x) : Coerce(kind, t) = Invalid
  \/ kind = "bool" /\ op \in Ordered

\* The driver takes no text for a time, and for a decimal only one that it can
\* read; the database has no LIKE but on text.
Refused(op, kind, x) ==
  \/ kind = "datetime" /\ TextsBound(op, x) # {}
  \/ kind = "decimal" /\ \E t \in TextsBound(op, x) : Stripped[t] \notin DOMAIN Number
  \/ kind # "text" /\ op = "like"

Fails(op, kind, x) == Raises(op, kind, x) \/ Refused(op, kind, x)

\* Bug: >= for >.
BugCompare(op, v, c) ==
  CASE op = "ne" -> v # c
    [] op \in {"gt", "gte"} -> v >= c
    [] op = "lt" -> v < c
    [] op = "lte" -> v <= c
    [] OTHER -> v = c

\* An operator nobody knows is an equality.
Compare(op, v, c) ==
  CASE op = "ne" -> v # c
    [] op = "gt" -> v > c
    [] op = "gte" -> v >= c
    [] op = "lt" -> v < c
    [] op = "lte" -> v <= c
    [] op = "like" -> v \in UNION {Like[x] : x \in {y \in Texts : Position[y] = c}}
    [] OTHER -> v = c

\* The rows SQL selects: comparisons with NULL are not true, a NOT IN without
\* items always is.
Selects(op, kind, x, v) ==
  LET items == {i.at : i \in Items(kind, x)}
  IN CASE op = "is_null" -> v = Null
       [] op = "is_not_null" -> v # Null
       [] op = "in" -> v # Null /\ v \in items
       [] op = "not_in" -> items = {} \/ (v # Null /\ v \notin items)
       [] OTHER -> v # Null /\ Compare(op, v, Coerce(kind, x).at)

-----------------------------------------------------------------------------
Rows(op, r) == {v \in Values(r.kind) \cup {Null} : Selects(op, r.kind, r.raw, v)}

Negation == [eq |-> "ne", gt |-> "lte", lt |-> "gte",
             in |-> "not_in", is_null |-> "is_not_null"]

\* An operator and its negation fail together and otherwise split the rows
\* with a value between them; a row without one is selected only by is_null,
\* and by a not_in whose list is blank.
NegationSplitsRows ==
  \A r \in rules, op \in DOMAIN Negation :
    LET not == Negation[op]
    IN /\ Fails(op, r.kind, r.raw) <=> Fails(not, r.kind, r.raw)
       /\ ~Fails(op, r.kind, r.raw) =>
            /\ Rows(op, r) \cap Rows(not, r) = {}
            /\ Values(r.kind) \subseteq Rows(op, r) \cup Rows(not, r)
            /\ Null \in Rows(op, r) <=> op = "is_null"
            /\ Null \in Rows(not, r) => op = "in" /\ Rows(op, r) = {}

\* The parts of a text that are not blank.
Inked(x) == {Parts[x][i] : i \in 1..Len(Parts[x])} \ {t \in Texts : Stripped[t] = Empty}

\* in selects what the equalities of its parts select together, and fails if
\* one of them does: commas too many, and blanks around parts, are the same
\* to both.
InIsUnionOfEq ==
  \A r \in rules :
    /\ Fails("in", r.kind, r.raw) <=> \E t \in Inked(r.raw) : Fails("eq", r.kind, t)
    /\ ~Fails("in", r.kind, r.raw) =>
         \A v \in Values(r.kind) \cup {Null} :
           Selects("in", r.kind, r.raw, v)
             <=> \E t \in Inked(r.raw) : Selects("eq", r.kind, t, v)
=============================================================================
