----------------------------- MODULE UnitsOfWork -----------------------------
(***************************************************************************)
(* What the database sessions of a request promise, apart from how they    *)
(* keep it: a request works in units that nest; each stays in the schema   *)
(* it was begun in and is committed as a whole or abandoned, the innermost *)
(* first; nothing is committed while a failure is on its way; and the      *)
(* client hears of success only when no failure is left and every unit is  *)
(* over, or nothing has failed so far.                                     *)
(*                                                                         *)
(* A failure may be recovered from as long as no unit was abandoned but    *)
(* those opened by name: who opened them knows what became of them.        *)
(*                                                                         *)
(* No connections, no waiting, no order of dependencies: DbSession models  *)
(* those and is shown to implement this module.                            *)
(***************************************************************************)
EXTENDS Naturals, Sequences

CONSTANTS Requests,
          Shared,    \* the schema of the units all tenants share
          Nameable,  \* the schemas a unit may be opened in by name
          None,      \* no schema
          TellFirst  \* requests whose client hears before the units end

VARIABLES units,   \* units[r]: the units of r, from the outermost inwards
          own,     \* own[r]: the schema r's own units are begun in, or None
          failed,  \* failed[r]: an exception or a cancellation is on its way
          told     \* told[r]: what the client of r heard: "none", "ok", "error"

absVars == <<units, own, failed, told>>

\* A unit by name is a block of r's body, the others are r's as a whole.
Named(u) == u.kind = "byid"

AbsInit ==
  /\ units = [r \in Requests |-> <<>>]
  /\ own \in [Requests -> Nameable \cup {None}]
  /\ failed = [r \in Requests |-> FALSE]
  /\ told = [r \in Requests |-> "none"]

\* r has not begun to end: none of its units is over but those by name.
Whole(r) ==
  told[r] = "none" /\ \A k \in 1..Len(units[r]) : units[r][k].over => Named(units[r][k])

\* r does what its route says; r may end its units.
Working(r) == ~failed[r] /\ Whole(r)
Ending(r) == told[r] = "none" \/ r \in TellFirst

\* Unit k of r is the one to end next.
Innermost(r, k) ==
  /\ ~units[r][k].over
  /\ \A j \in 1..Len(units[r]) : j > k => units[r][j].over

\* r turns to another tenant or to none; its units stay where they are.
Turn(r, s) ==
  /\ Working(r)
  /\ own' = [own EXCEPT ![r] = s]
  /\ UNCHANGED <<units, failed, told>>

\* A unit is begun in the shared schema, in r's own, or in a named one.
Begin(r, kind, s) ==
  /\ Working(r)
  /\ \/ kind = "public" /\ s = Shared
     \/ kind = "tenant" /\ s = own[r] /\ s # None
     \/ kind = "byid" /\ s \in Nameable
  /\ units' = [units EXCEPT ![r] = Append(@,
       [kind |-> kind, schema |-> s, dirty |-> FALSE, durable |-> FALSE,
        spoilt |-> FALSE, over |-> FALSE])]
  /\ UNCHANGED <<own, failed, told>>

Write(r, k) ==
  /\ Working(r) /\ ~units[r][k].over
  /\ units' = [units EXCEPT ![r][k].dirty = TRUE]
  /\ UNCHANGED <<own, failed, told>>

\* What the database keeps of a unit that is committed; a unit that is over.
Keeps(u) == u.dirty /\ ~u.spoilt
Over(u, d, x) ==
  [kind |-> u.kind, schema |-> u.schema, dirty |-> u.dirty,
   durable |-> d, spoilt |-> x, over |-> TRUE]

\* The unit ends with everything written to it.
Commit(r, k) ==
  /\ Ending(r) /\ ~failed[r] /\ Innermost(r, k)
  /\ units' = [units EXCEPT ![r][k] = Over(@, Keeps(@), @.spoilt)]
  /\ UNCHANGED <<own, failed, told>>

\* r fails.  If the failure is that of a commit, the database may have heard it.
Fail(r) ==
  /\ Ending(r) /\ ~failed[r]
  /\ failed' = [failed EXCEPT ![r] = TRUE]
  /\ \/ UNCHANGED units
     \/ \E k \in 1..Len(units[r]) :
          /\ Innermost(r, k)
          /\ units' = [units EXCEPT ![r][k].durable = Keeps(units[r][k])]
  /\ UNCHANGED <<own, told>>

\* r fails in unit k, of which nothing can be kept any more.
Spoil(r, k) ==
  /\ Working(r) /\ ~units[r][k].over
  /\ failed' = [failed EXCEPT ![r] = TRUE]
  /\ units' = [units EXCEPT ![r][k].spoilt = TRUE]
  /\ UNCHANGED <<own, told>>

\* A failure ends the innermost unit and commits nothing; of a unit by name
\* nothing is kept then.
Abandon(r, k) ==
  /\ Ending(r) /\ failed[r] /\ Innermost(r, k)
  /\ units' = [units EXCEPT ![r][k] = Over(@, @.durable, @.spoilt \/ Named(@))]
  /\ UNCHANGED <<own, failed, told>>

\* r goes on after a failure.
Recover(r) ==
  /\ failed[r] /\ Whole(r)
  /\ failed' = [failed EXCEPT ![r] = FALSE]
  /\ UNCHANGED <<units, own, told>>

\* The client hears how it went, unless the request was cancelled before.
Tell(r) ==
  /\ told[r] = "none"
  /\ \/ \A k \in 1..Len(units[r]) : units[r][k].over
     \/ r \in TellFirst /\ ~failed[r]
  /\ told' = [told EXCEPT ![r] = IF failed[r] THEN "error" ELSE "ok"]
  /\ UNCHANGED <<units, own, failed>>

AbsNext ==
  \E r \in Requests :
    \/ \E s \in Nameable \cup {None} : Turn(r, s)
    \/ \E kind \in {"public", "tenant", "byid"}, s \in Nameable \cup {Shared} :
         Begin(r, kind, s)
    \/ \E k \in 1..Len(units[r]) :
         Write(r, k) \/ Commit(r, k) \/ Spoil(r, k) \/ Abandon(r, k)
    \/ Fail(r) \/ Recover(r)
    \/ Tell(r)

AbsSpec == AbsInit /\ [][AbsNext]_absVars
=============================================================================
