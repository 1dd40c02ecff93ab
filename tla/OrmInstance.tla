---------------------------- MODULE OrmInstance ----------------------------
(***************************************************************************)
(* backend/common/model/base.py: an instance of a mapped class through the *)
(* life of its session, and what to_dict reads of it.  The instance is     *)
(* SQLAlchemy's; reading an attribute that is deferred or expired makes it *)
(* load.                                                                   *)
(***************************************************************************)
EXTENDS FiniteSets

CONSTANTS
  Columns,   \* of the table
  Generated, \* those with a default or a key, which INSERT brings back
  OnUpdate   \* those with an onupdate, which an UPDATE sets: updated_at

ASSUME OrmAssumption ==
  Generated \subseteq Columns /\ OnUpdate \subseteq Columns

VARIABLES
  stage,  \* "none" before it is made, "transient", "persistent", "detached"
  attr,   \* attr[c]: "loaded", "unset", "deferred", "expired", or "assigned":
          \* it was expired and has got a value that is not flushed
  fresh,  \* the row was inserted in the transaction that is open
  dirty,  \* a value was changed that an UPDATE has to write
  known   \* history: the columns the program has given a value or has seen
          \* the value of, and not lost to a rollback since

orm == <<stage, attr, fresh, dirty, known>>

OrmInit ==
  /\ stage = "none" /\ fresh = FALSE /\ dirty = FALSE /\ known = {}
  /\ attr = [c \in Columns |-> "unset"]

\* Constructed with some fields.
Construct ==
  /\ stage = "none" /\ stage' = "transient" /\ UNCHANGED <<fresh, dirty>>
  /\ \E given \in SUBSET (Columns \ {"id"}) :
       /\ known' = given
       /\ attr' = [c \in Columns |-> IF c \in given THEN "loaded" ELSE "unset"]

\* add and flush: a field nobody gave is NULL, which may have to be read.
InsertRow ==
  /\ stage = "transient" /\ stage' = "persistent" /\ fresh' = TRUE /\ dirty' = FALSE
  /\ known' = known \cup Generated
  /\ \E rest \in {"unset", "expired"} :
       attr' = [c \in Columns |->
         CASE c \in Generated \/ attr[c] = "assigned" -> "loaded"
           [] c \notin Generated /\ attr[c] = "unset" -> rest
           [] OTHER -> attr[c]]

\* Another session selects the row, with all columns or with some.
Select ==
  /\ stage = "detached" /\ ~fresh /\ stage' = "persistent"
  /\ dirty' = FALSE /\ UNCHANGED fresh
  /\ \E some \in SUBSET Columns :
       /\ "id" \in some /\ known' = some
       /\ attr' = [c \in Columns |-> IF c \in some THEN "loaded" ELSE "deferred"]

\* A value that is assigned may be the one there was, and change nothing.
Assign(c) ==
  /\ stage # "none"
  /\ attr' = [attr EXCEPT ![c] = IF @ \in {"expired", "assigned"} THEN "assigned" ELSE "loaded"]
  /\ known' = known \cup {c}
  /\ dirty' \in {dirty \/ attr[c] # "loaded", TRUE}
  /\ UNCHANGED <<stage, fresh>>

\* refresh, or an awaited attribute, reads what is missing; of what was changed
\* and not flushed refresh reads the old value.
Refresh ==
  /\ stage = "persistent"
  /\ attr' = [c \in Columns |-> "loaded"] /\ known' = Columns
  /\ dirty' \in {dirty, FALSE}
  /\ UNCHANGED <<stage, fresh>>

\* What an UPDATE sets besides, which the instance gets back.
SetOnUpdate == IF dirty THEN OnUpdate ELSE {}

\* The attributes when what was assigned is written.
Flushed ==
  [c \in Columns |-> IF attr[c] = "assigned" \/ c \in SetOnUpdate THEN "loaded" ELSE attr[c]]

FlushRow ==
  /\ stage = "persistent" /\ dirty' = FALSE
  /\ attr' = Flushed
  /\ known' = known \cup SetOnUpdate
  /\ UNCHANGED <<stage, fresh>>

\* Bug: SQLAlchemy's default, a commit expires what the session has.
BugCommitRow ==
  /\ stage = "persistent" /\ fresh' = FALSE /\ dirty' = FALSE
  /\ attr' = [c \in Columns |-> "expired"]
  /\ known' = known \cup SetOnUpdate /\ UNCHANGED stage

\* create_session_factory: a commit flushes, and expires nothing.
CommitRow ==
  /\ stage = "persistent" /\ fresh' = FALSE /\ dirty' = FALSE
  /\ attr' = Flushed
  /\ known' = known \cup SetOnUpdate /\ UNCHANGED stage

\* A rollback expires what was there before and forgets what was inserted.
RollbackRow ==
  /\ stage = "persistent" /\ fresh' = FALSE /\ dirty' = FALSE
  /\ stage' = IF fresh THEN "transient" ELSE stage
  /\ attr' = IF fresh THEN attr ELSE [c \in Columns |-> "expired"]
  /\ known' = IF fresh THEN known ELSE {}

\* The session is closed: the instance keeps what it has.
CloseSession ==
  /\ stage = "persistent" /\ stage' = "detached"
  /\ UNCHANGED <<attr, fresh, dirty, known>>

OrmNext ==
  \/ Construct \/ InsertRow \/ Select \/ Refresh \/ FlushRow \/ CommitRow \/ RollbackRow
  \/ CloseSession
  \/ \E c \in Columns : Assign(c)

OrmSpec == OrmInit /\ [][OrmNext]_orm

-----------------------------------------------------------------------------
\* What inspect() says: state.unloaded and state.expired_attributes.
Unloaded == {c \in Columns : attr[c] \notin {"loaded", "assigned"}}
Expired == {c \in Columns : attr[c] \in {"expired", "assigned"}}

\* Attributes whose reading loads, or raises without a session.
Loading == {c \in Columns : attr[c] \in {"deferred", "expired"}}

\* The columns to_dict reads; include is all columns when it is not given.
DictKeys(include, exclude) == (include \ exclude) \ (Unloaded \cup Expired)

\* Whatever sessions did to the instance, to_dict makes no attribute load, and
\* of the columns the caller selects it shows exactly those whose values the
\* program knows - commits and closed sessions lose none - but for a value
\* given since a rollback and not yet flushed.
ToDictShowsTheKnown ==
  stage # "none" => \A include, exclude \in SUBSET Columns :
    LET shown == DictKeys(include, exclude) IN
    /\ shown \cap Loading = {}
    /\ shown = {c \in (include \ exclude) \cap known : attr[c] # "assigned"}
=============================================================================
