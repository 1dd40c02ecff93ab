---------------------------- MODULE TenantCatalog ----------------------------
(***************************************************************************)
(* What backend/database/tenant/provisioner.py promises: every call that   *)
(* succeeds takes effect, and reads what it answers, at one moment between *)
(* its start and its return; one that fails may have had its effect, or    *)
(* none.  The objects of a schema go with it, and only by a drop that asks *)
(* for that.                                                               *)
(***************************************************************************)
EXTENDS Naturals

CONSTANTS
  Workers,
  Schemas,
  Requests \* what can be asked: [op, schema, cascade]

VARIABLES
  existing, \* the schemas
  filled,   \* those that contain something
  stage,    \* stage[w]: "idle", "asked", "settled" (the answer stands)
  ask,      \* ask[w]: what w asks, or asked last
  answer    \* answer[w]: "none" before, then "ok", "yes", "no" or "error"

vars == <<existing, filled, stage, ask, answer>>

Init ==
  /\ existing \in SUBSET Schemas
  /\ filled = {}
  /\ stage = [w \in Workers |-> "idle"]
  /\ ask \in [Workers -> Requests]
  /\ answer = [w \in Workers |-> "none"]

Ask(w, a) ==
  /\ stage[w] = "idle"
  /\ stage' = [stage EXCEPT ![w] = "asked"]
  /\ ask' = [ask EXCEPT ![w] = a]
  /\ answer' = [answer EXCEPT ![w] = "none"]
  /\ UNCHANGED <<existing, filled>>

\* What the call is refused for is known before anything is asked.
Refuse(w) ==
  /\ stage[w] = "idle"
  /\ answer' = [answer EXCEPT ![w] = "error"]
  /\ UNCHANGED <<existing, filled, stage, ask>>

\* The moment at which w's call happens, and whether it returns with it.
Happens(w, x) ==
  /\ stage[w] = "asked"
  /\ \E next \in {"settled", "idle"} : stage' = [stage EXCEPT ![w] = next]
  /\ answer' = [answer EXCEPT ![w] = x]
  /\ UNCHANGED ask

Create(w) ==
  /\ ask[w].op = "create" /\ Happens(w, "ok")
  /\ existing' = existing \cup {ask[w].schema}
  /\ UNCHANGED filled

Check(w) ==
  /\ ask[w].op = "check"
  /\ Happens(w, IF ask[w].schema \in existing THEN "yes" ELSE "no")
  /\ UNCHANGED <<existing, filled>>

\* A drop takes the objects with it only if it was asked to.
Loses(w) ==
  /\ ask[w].op = "drop"
  /\ ask[w].schema \in filled => ask[w].cascade
  /\ existing' = existing \ {ask[w].schema}
  /\ filled' = filled \ {ask[w].schema}

Drop(w) == Loses(w) /\ Happens(w, "ok")

\* The call returns what it has settled.
Reply(w) ==
  /\ stage[w] = "settled"
  /\ stage' = [stage EXCEPT ![w] = "idle"]
  /\ UNCHANGED <<existing, filled, ask, answer>>

\* The call fails, with its effect or without.
Fail(w) ==
  /\ stage[w] # "idle"
  /\ stage' = [stage EXCEPT ![w] = "idle"]
  /\ answer' = [answer EXCEPT ![w] = "error"]
  /\ \/ UNCHANGED <<existing, filled>>
     \/ /\ stage[w] = "asked" /\ ask[w].op = "create"
        /\ existing' = existing \cup {ask[w].schema}
        /\ UNCHANGED filled
     \/ stage[w] = "asked" /\ Loses(w)
  /\ UNCHANGED ask

\* Somebody puts objects into a schema.
Fill(s) ==
  /\ s \in existing
  /\ filled' = filled \cup {s}
  /\ UNCHANGED <<existing, stage, ask, answer>>

Next ==
  \/ \E w \in Workers : \/ \E a \in Requests : Ask(w, a)
                        \/ Refuse(w) \/ Create(w) \/ Check(w) \/ Drop(w)
                        \/ Reply(w) \/ Fail(w)
  \/ \E s \in Schemas : Fill(s)

Spec == Init /\ [][Next]_vars
=============================================================================
