------------------------------ MODULE Masking ------------------------------
(***************************************************************************)
(* mask_sensitive_data of backend/common/log.py, on a heap of Python       *)
(* objects that may be shared and, through lists and dicts, cyclic.        *)
(*                                                                         *)
(* The calls of _mask_sensitive_data_inner are part of the state: a step   *)
(* makes all calls of one depth and leaves those they make in turn.  They  *)
(* only read the heap, so that the order Python takes them in, depth       *)
(* first, makes no difference to what is found.                            *)
(***************************************************************************)
EXTENDS Naturals, Sequences

CONSTANTS
  Nodes,      \* numbered in the order they are built; the last one is
  Root,       \* the data that is masked
  Keys,       \* the keys and field names in the heap
  LowKeys,    \* lower-case ones
  LowKeyOf,   \* LowKeyOf[k]: k in lower case
  Spans,      \* the sets of places that the items of a list may take
  Sensitive,  \* _DEFAULT_SENSITIVE_KEYS, lowered when the module is loaded
  Given,      \* the sets that callers give
  MaxDepth    \* max_depth, 10

ASSUME MaskingAssumption ==
  /\ Nodes \subseteq Nat /\ Root \in Nodes /\ \A n \in Nodes : n <= Root
  /\ LowKeyOf \in [Keys \cup LowKeys -> LowKeys] /\ Sensitive \subseteq LowKeys
  /\ Given \subseteq SUBSET (Keys \cup LowKeys)
  /\ \A places \in Spans : places \cap Keys = {}
  /\ MaxDepth \in Nat

VARIABLES
  heap,   \* the objects so far: heap[n] has a kind and its children
  keys,   \* the sensitive_keys argument: its form, and the keys in it
  calls,  \* the calls to make: the object, the path to it, the memo, the
          \* depth, whether it is a copy of asdict's, whether the result has
          \* to be hashed
  found   \* what became of what: the path, the object, and "kept" for a leaf,
          \* a placeholder, "opened" for a container, "NotDumped" where asdict
          \* raises, "TypeError" where a result cannot be hashed

masking == <<heap, keys, calls, found>>

\* dict: a str-keyed mapping; record: a frozen dataclass, hashed by its fields;
\* set, frozenset; view: another AbstractSet, as a dict's items are, that
\* hashes nothing and cannot be copied; the items of the three take places
\* although they have no order.  Leaves are scalars, opaque objects that cannot
\* be copied, as locks are, and ranges, sequences that can be hashed.
Leaves == {"scalar", "opaque", "range"}
Objects ==
  [kind : Leaves, kids : {<<>>}]
  \cup [kind : {"dict", "record"}, kids : UNION {[D -> Nodes] : D \in SUBSET Keys}]
  \cup [kind : {"list", "tuple", "set", "frozenset", "view"},
        kids : UNION {[D -> Nodes] : D \in Spans}]

Kids(n) == {heap[n].kids[k] : k \in DOMAIN heap[n].kids}

\* The objects below n: those that no set misses which has n's children and
\* the children of what is in it.
ClosedDown(S) == \A m \in S : Kids(m) \subseteq S
Below(n) ==
  {m \in Nodes : \A S \in SUBSET Nodes : Kids(n) \subseteq S /\ ClosedDown(S) => m \in S}
OnCycle(n) == n \in Below(n)

\* What Python can build: tuples, sets and frozen dataclasses contain what was
\* there before them, and sets what is hashable.
Hashable(n) ==
  \A m \in Below(n) \cup {n} : heap[m].kind \in Leaves \cup {"tuple", "record", "frozenset"}
Buildable ==
  \A n \in Nodes :
    /\ heap[n].kind \in {"tuple", "record", "set", "frozenset"} => \A m \in Kids(n) : m < n
    /\ heap[n].kind \in {"set", "frozenset"} => \A m \in Kids(n) : Hashable(m)

MaskInit ==
  /\ heap = [n \in Nodes |-> [kind |-> "scalar", kids |-> <<>>]]
  /\ keys \in [form : {"default"}, given : {{}}]
              \cup [form : {"frozenset", "set"}, given : Given]
  /\ calls = {} /\ found = {}

\* An object other than a scalar takes the place of the next one.
BuildObject(n) ==
  /\ calls = {} /\ found = {}
  /\ \A m \in Nodes : m >= n => heap[m].kind = "scalar"
  /\ \E o \in Objects : heap' = [heap EXCEPT ![n] = o]
  /\ Buildable'
  /\ UNCHANGED <<keys, calls, found>>

-----------------------------------------------------------------------------
\* keys_to_match: a frozenset is taken as it is, other sets are lowered.
Matched ==
  CASE keys.form = "default" -> Sensitive
    [] keys.form = "frozenset" -> keys.given
    [] keys.form = "set" -> {LowKeyOf[k] : k \in keys.given}

\* Bug: the key is not lowered.
BugHits(k) == k \in Matched
Hits(k) == LowKeyOf[k] \in Matched

\* asdict copies dataclasses, lists, tuples and dicts without a memory of
\* where it has been: a cycle below the dataclass is endless.  It makes deep
\* copies of everything else, which some objects refuse.
Dumps(n) == \A m \in Below(n) : ~OnCycle(m) /\ heap[m].kind \notin {"opaque", "view"}

\* The branch a call takes: what asdict made of a dataclass is a dict.
Branch(c) ==
  IF heap[c.node].kind = "record" /\ c.copied THEN "dict" ELSE heap[c.node].kind

\* Bug: tuples come back as lists.
BugUnhashable(kind) == kind \in {"dict", "list", "tuple", "range", "set", "view"}
\* Results that cannot be in a set: dicts, lists and sets, which views become.
Unhashable(kind) == kind \in {"dict", "list", "range", "set", "view"}

\* What becomes of the object of a call; a copy has an id of its own.
Outcome(c) ==
  LET kind == Branch(c) IN
  CASE kind = "scalar" -> "kept"
    [] kind # "scalar" /\ c.depth >= MaxDepth -> "deep"
    [] kind # "scalar" /\ c.depth < MaxDepth /\ c.node \in c.memo /\ ~c.copied -> "circular"
    [] OTHER -> IF kind = "opaque" THEN "kept"
                ELSE IF kind = "record" /\ ~Dumps(c.node) THEN "NotDumped"
                ELSE IF c.hashed /\ Unhashable(kind) THEN "TypeError" ELSE "opened"

\* A result is hashed after its items were masked.
Opened(c) == Outcome(c) \in {"opened", "TypeError"}

\* The items below a sensitive key of a dict.
Hidden(c) == {k \in DOMAIN heap[c.node].kids : Branch(c) = "dict" /\ Hits(k)}

\* Bug: ids stay in the memo when their object is done.
BugMemo(c, k) ==
  c.memo \cup {c.node} \cup {heap[c.node].kids[j] : j \in DOMAIN heap[c.node].kids \ {k}}
\* The memo while the item k is masked: the object and its ancestors.
Memo(c, k) == c.memo \cup {c.node}

\* The AbstractSets, whose results are made of hashed items.
SetLike(kind) == kind \in {"set", "frozenset", "view"}

\* The call for an item, and for what asdict made of a dataclass; the items of
\* a set that asdict copied are what they were.
Item(c, k) ==
  [node |-> heap[c.node].kids[k], at |-> Append(c.at, k), memo |-> Memo(c, k),
   depth |-> c.depth + 1,
   copied |-> c.copied /\ ~SetLike(Branch(c)), hashed |-> c.hashed \/ SetLike(Branch(c))]
Dump(c) == [c EXCEPT !.memo = @ \cup {c.node}, !.depth = @ + 1, !.copied = TRUE]

Callees(c) ==
  IF ~Opened(c) THEN {}
  ELSE IF Branch(c) = "record" THEN {Dump(c)}
  ELSE {Item(c, k) : k \in DOMAIN heap[c.node].kids \ Hidden(c)}

Results(c) ==
  {[at |-> c.at, node |-> c.node, what |-> Outcome(c)]}
  \cup {[at |-> Append(c.at, k), node |-> heap[c.node].kids[k], what |-> "mask"] :
        k \in IF Opened(c) THEN Hidden(c) ELSE {}}

\* mask_sensitive_data is called, with all that was built.
StartMasking ==
  /\ calls = {} /\ found = {}
  /\ \A n \in Nodes : heap[n].kind = "scalar" \/ n \in Below(Root) \cup {Root}
  /\ calls' = {[node |-> Root, at |-> <<>>, memo |-> {}, depth |-> 0,
                copied |-> FALSE, hashed |-> FALSE]}
  /\ UNCHANGED <<heap, keys, found>>

\* _mask_sensitive_data_inner, once for each call.
MaskInner ==
  /\ calls # {}
  /\ calls' = UNION {Callees(c) : c \in calls}
  /\ found' = found \cup UNION {Results(c) : c \in calls}
  /\ UNCHANGED <<heap, keys>>

MaskNext == (\E n \in Nodes : BuildObject(n)) \/ StartMasking \/ MaskInner

MaskSpec == MaskInit /\ [][MaskNext]_masking

-----------------------------------------------------------------------------
Secret(k) == LowKeyOf[k] \in (IF keys.form = "default" THEN Sensitive
                              ELSE {LowKeyOf[j] : j \in keys.given})

\* With the keys the logger itself uses, or a caller's lower-case ones, no
\* scalar is left below a sensitive key in any spelling, however the object is
\* shared, nested or typed, and only sensitive keys are masked.
KnownSecretsHidden ==
  (keys.form = "frozenset" => \A k \in keys.given : LowKeyOf[k] = k) =>
    \A f \in found :
      /\ f.what = "kept" => \A i \in 1..Len(f.at) : f.at[i] \in Keys => ~Secret(f.at[i])
      /\ f.what = "mask" => Secret(f.at[Len(f.at)])

\* An object is called circular only where it really is inside itself; being
\* reached twice is not enough.
CircularMeansCycle == \A f \in found : f.what = "circular" => OnCycle(f.node)

InASet(n) == \E s \in Nodes : SetLike(heap[s].kind) /\ n \in Below(s)

\* Where logging does not survive: masking raises only for a dataclass that is
\* in a set, above a cycle or above what cannot be copied, for a range in a
\* set, and for a view of what cannot be hashed.  Dicts, lists, tuples, sets
\* and frozensets alone never raise, whatever is shared, cyclic or deep.
RaisesAreExplained ==
  \A f \in found : f.what \in {"TypeError", "NotDumped"} =>
    \E n \in Below(Root) \cup {Root} :
      \/ heap[n].kind = "record" /\ (InASet(n) \/ ~Dumps(n))
      \/ heap[n].kind = "range" /\ InASet(n)
      \/ heap[n].kind = "view" /\ \E m \in Kids(n) : ~Hashable(m)
=============================================================================
